SPECIFICATION Spec
CONSTANTS
    Texts <- MCTexts
    Letters = {"i", "n"}
    Digits = {"1"}
    Keywords <- MCKeywords
    MaxDiags = 3
    Header = 3
    FirstCapacity = 8
    FirstLines = 3
    MaxComplaints = 2
INVARIANTS
    TokensAreTheLexemes
    LineStartsAreMarked
    StringsKeepTheirText
    LocationsAreExact
PROPERTY
    ReportsEnd
CHECK_DEADLOCK FALSE
