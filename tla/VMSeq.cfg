\* One process: the VM layer without concurrency.  Two frames for three
\* pages: a two-page file mapped at page 1 or 2, and page 3, which lies
\* next to the stack pointer and is grown on a fault; so eviction runs
\* both passes over two entries, a stack page is evicted to swap, and two
\* swap slots can run out.  One clock tick, so pass 2 sees different
\* timestamps.  Frames are interchangeable: nothing in the VM layer orders
\* them.
CONSTANTS
    p1 = p1
    p2 = p2
    Procs = {p1}
    Frames = {f1, f2}
    NPages = 3
    ExecPages <- NoExec
    StackPages <- StackAtTop
    NSlots = 2
    FilePages = 2
    MaxMaps = 1
    MaxTicks = 1
    PgSize = 4
    Reads <- SeqReads
    Writes <- SeqWrites
    NULL = NULL

SPECIFICATION Spec
INVARIANT TypeOK
INVARIANT EvictionPreservesData
INVARIANT SwapSlotsExclusive
SYMMETRY FrameSymmetry
