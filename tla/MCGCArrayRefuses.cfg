CONSTANTS
    a = a
    b = b
    Nil = Nil
    Junk = Junk
    Values <- MCValues
    DefaultCapacity = 2
    Careful = FALSE
    Wrap = 16
    MaxSize = 5
SPECIFICATION Spec
CHECK_DEADLOCK FALSE
PROPERTIES
    OutOfBoundsIsRefused
