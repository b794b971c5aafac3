CONSTANTS
    NoFile = NoFile
    Names = {m1, m2}
    Files <- MCFiles
    Bytes <- MCBytes
    Layout <- MCLayout
    Good <- MCGood
    Declares <- MCDeclares
    StackSize = 4
SPECIFICATION FairSpec
CHECK_DEADLOCK FALSE
INVARIANTS
    RegisteredFunctionsAreReady
    ModuleIsRetained
PROPERTIES
    GoodFilesLoad
    LoadsAreComplete
    LoadEnds
