SPECIFICATION Spec
CONSTANTS
    Names = {"a", "b"}
    Literals = {"1"}
    MaxDiags = 3
    Sources <- Documented
INVARIANT
    GrammarIsFollowed
CHECK_DEADLOCK FALSE
