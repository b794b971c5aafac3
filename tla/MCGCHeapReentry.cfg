CONSTANTS
    r1 = r1
    r2 = r2
    r3 = r3
    r4 = r4
    dispatchTable = dispatchTable
    string = string
    instance = instance
    map = map
    class = class
    NULL = NULL
    Ref <- MCRef4
    Root <- MCRoot
    Kind <- Plain
    Plan <- PlainPlan
    Takes = {}
    Holder = {instance}
    Bytes <- PlainBytes
    Frees <- PlainFrees
    FirstGC = 2
    StackSize = 2
SYMMETRY Symmetry4
SPECIFICATION Spec
PROPERTIES
    EverythingUsedIsMarked
