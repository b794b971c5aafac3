CONSTANTS
    a = a
    b = b
    Nil = Nil
    Junk = Junk
    Values <- MCValues
    DefaultCapacity = 2
    Careful = TRUE
    Wrap = 16
    MaxSize = 5
SPECIFICATION Spec
INVARIANTS
    StaysInside
PROPERTIES
    ImplementsList
