\* Three sectors and two cache lines: every third sector touched evicts,
\* and both the free-line and the LRU branch of buffer_cache_evict occur.
CONSTANTS
    Sectors = {s1, s2, s3}
    Vals = {a, b}
    CacheCnt = 2
    MaxTicks = 2
    NULL = NULL
SPECIFICATION Spec
INVARIANTS TypeOK UniqueLines ShutdownFlushed
PROPERTIES ImplementsDisk
