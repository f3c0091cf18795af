CONSTANTS
    Page = 2
    Frees = 3
    NameLen = 2
    ExtLen = 1
    Cluster = 2
    Upper <- MCUpper
    Columns = 6
    Rows = 2
    Chars <- MCChars
    Letters = {"a", "t", ".", " "}
    MemWord <- MCMem
    ClsWord <- MCCls
    DirWord <- MCDir
    TypeWord <- MCType
    HrbExt <- MCHrb
    Boot <- MCBoot
    Disks <- MCDisks
    Programs <- MCPrograms
    Outputs <- MCOutputs
SPECIFICATION Spec
INVARIANTS
    TypeOK
    LineIsTyped
    MemoryBalanced
    DiskRead
PROPERTIES
    PromptReturns
