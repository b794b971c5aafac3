CONSTANTS
    NoFile = NoFile
    Names = {m1, m2}
    Files = {"many classes"}
    Bytes <- MCBytes
    Layout <- MCLayout
    Good = {"many classes"}
    Declares <- DocDeclares
    StackSize = 4
SPECIFICATION Spec
CHECK_DEADLOCK FALSE
PROPERTIES
    GoodFilesLoad
