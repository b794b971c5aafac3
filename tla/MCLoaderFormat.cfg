CONSTANTS
    NoFile = NoFile
    Names = {m1, m2}
    Files = {"documented"}
    Bytes <- MCBytes
    Layout <- MCLayout
    Good = {"documented"}
    Declares <- DocDeclares
    StackSize = 4
SPECIFICATION Spec
CHECK_DEADLOCK FALSE
PROPERTIES
    GoodFilesLoad
