SPECIFICATION Spec
CONSTANTS
    Names = {"a", "b"}
    Literals = {"1"}
    MaxDiags = 3
    Sources <- MCSources
INVARIANTS
    SentencesAreUnderstood
    NothingIsDroppedSilently
PROPERTY
    ParseEnds
CHECK_DEADLOCK FALSE
