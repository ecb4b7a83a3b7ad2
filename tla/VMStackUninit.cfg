\* One process, one frame: the program's segment page 1 is loaded, then a
\* fault at page 2, next to the stack pointer, grows the stack and must
\* evict page 1 for a descriptor stack_grow has not initialised.
CONSTANTS
    p1 = p1
    p2 = p2
    Procs = {p1}
    Frames = {f1}
    NPages = 2
    ExecPages <- ExecFirstPage
    StackPages <- StackAtTop
    NSlots = 1
    FilePages = 1
    MaxMaps = 1
    MaxTicks = 0
    PgSize = 4
    Reads = {}
    Writes = {}
    NULL = NULL

SPECIFICATION Spec
INVARIANT NoUninitRead
