CONSTANTS
    r1 = r1
    r2 = r2
    r3 = r3
    r4 = r4
    dispatchTable = dispatchTable
    string = string
    instance = instance
    map = map
    class = class
    NULL = NULL
    Ref <- MCRef3
    Root <- MCRoot
    Kind <- Composite
    Plan <- CompositePlan
    Takes = {class}
    Holder = {}
    Bytes <- CompositeBytes
    Frees <- CompositeFrees
    FirstGC = 3
    StackSize = 2
SPECIFICATION FairSpec
PROPERTIES
    CountIsExact
    CollectionEnds
