\* dir_add puts a new entry in slot 0 when the parent entry's uninitialised
\* in_use reads as false (directory.c:317); lookup never finds it.
CONSTANTS
    NSectors = 10
    BlockSize = 2
    PerSector = 2
    DirectCnt = 1
    Names = {n1}
    Vals = {A}
    Offsets = {0}
    Sizes = {1}
    CreateSizes = {1}
    Fds = {1}
    DirCnt = 2
    ParentInUse = {FALSE, TRUE}
    NULL = NULL
SPECIFICATION Spec
INVARIANT NoLeak
