\* A read of bytes 5..7, which end at the end of page 1: check_read_buffer
\* also faults in page 2, whose load evicts page 1 before file_read stores
\* into it (syscall.c:604-605).
CONSTANTS
    p1 = p1
    p2 = p2
    Procs = {p1}
    Frames = {f1, f2}
    NPages = 3
    ExecPages <- NoExec
    StackPages <- StackAtTop
    NSlots = 2
    FilePages = 2
    MaxMaps = 1
    MaxTicks = 1
    PgSize = 4
    Reads <- ReadToPageEnd
    Writes = {}
    NULL = NULL

SPECIFICATION Spec
SYMMETRY FrameSymmetry
INVARIANT UserCopyResident
