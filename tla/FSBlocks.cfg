CONSTANTS
    NSectors = 11
    BlockSize = 2
    PerSector = 2
    DirectCnt = 1
    Names = {n1}
    Vals = {A}
    Offsets = {0, 5}
    Sizes = {2}
    CreateSizes = {0, 3}
    Fds = {1}
    DirCnt = 2
    ParentInUse = {FALSE, TRUE}
    NULL = NULL
SPECIFICATION Spec
INVARIANTS TypeOK BlocksExclusive
PROPERTY ImplementsFiles
