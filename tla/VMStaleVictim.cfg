\* Two processes and one frame: both scan for a victim, and the entry one
\* of them chose is freed by the other before it is used.
CONSTANTS
    p1 = p1
    p2 = p2
    Procs = {p1, p2}
    Frames = {f1}
    NPages = 1
    ExecPages <- ExecOfP1
    StackPages <- NoStack
    NSlots = 2
    FilePages = 1
    MaxMaps = 1
    MaxTicks = 0
    PgSize = 4
    Reads = {}
    Writes = {}
    NULL = NULL

SPECIFICATION Spec
INVARIANT NoUseAfterFree
