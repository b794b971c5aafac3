SPECIFICATION Spec
CONSTANTS
    Programs <- MCPrograms
    Hash <- MCHash
    Capacity = 8
    Strings = {"w"}
    Spelling <- MCSpelling
    Scalar <- MCScalar
INVARIANTS
    TreeIsKept
    NothingInUseIsReleased
    TablesHoldTheDeclarations
    DemanglingGivesTheSignature
    MistakesAreReported
    EverythingIsFreed
