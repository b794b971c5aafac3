CONSTANTS
    v1 = v1
    main = main
    twice = twice
    now = now
    sum = sum
    block1 = block1
    block2 = block2
    Junk = Junk
    Value = {v1}
    Native <- MCNative
    Foreign <- MCForeign
    Main = main
    Arity <- MCArity
    LocalCount <- MCLocals
    StackEffect <- MCEffect
    Depth <- MCDepth
    CodeLength = 1
    Address = {0, 20}
    Block = {block1, block2}
    FirstStack = 2
    FirstFrames = 2
    MaxStack = 8
    MaxFrames = 4
SYMMETRY Symmetry
SPECIFICATION Spec
CHECK_DEADLOCK FALSE
INVARIANTS
    PointersAreNested
    DeclaredRoomIsThere
    RegistersFollowFrames
PROPERTIES
    ImplementsActivations
