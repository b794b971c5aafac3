SPECIFICATION Spec
CONSTANTS
    Texts <- MCUnfinished
    Letters = {"i", "n"}
    Digits = {"1"}
    Keywords <- MCKeywords
    MaxDiags = 3
    Header = 3
    FirstCapacity = 8
    FirstLines = 3
    MaxComplaints = 1
INVARIANT
    EveryErrorCanBePrinted
CHECK_DEADLOCK FALSE
