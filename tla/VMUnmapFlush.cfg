\* One process, one frame, its executable page and one mapped page: the
\* mapped page is evicted, reloaded, written and evicted again, then unmapped.
CONSTANTS
    p1 = p1
    p2 = p2
    Procs = {p1}
    Frames = {f1}
    NPages = 2
    ExecPages <- ExecFirstPage
    StackPages <- NoStack
    NSlots = 2
    FilePages = 1
    MaxMaps = 1
    MaxTicks = 0
    PgSize = 4
    Reads = {}
    Writes = {}
    NULL = NULL

SPECIFICATION Spec
PROPERTY UnmapFlush
