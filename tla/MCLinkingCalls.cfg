CONSTANTS
    a = a
    b = b
    c = c
    main = main
    next = next
    make = make
    other = other
    another = another
    cls = cls
    Nil = Nil
    Symbol <- MCSymbol
    Native <- MCNative
    Foreign <- MCForeign
    Signature <- MCSignature
    Class = {cls}
    Code <- Calls
    Pool <- MCPool
    MaxDepth = 3
SPECIFICATION Spec
CHECK_DEADLOCK FALSE
INVARIANTS
    CalleesAreTheOnesNamed
    SitesKeepTheirCallee
    FramesStayInStep
