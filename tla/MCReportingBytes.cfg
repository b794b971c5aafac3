SPECIFICATION Spec
CONSTANTS
    Texts <- MCBytes
    Letters = {"i", "n"}
    Digits = {"1"}
    Keywords <- MCKeywords
    MaxDiags = 3
    Header = 3
    FirstCapacity = 8
    FirstLines = 3
    MaxComplaints = 1
PROPERTY
    ReportsEnd
CHECK_DEADLOCK FALSE
