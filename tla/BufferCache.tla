----------------------------- MODULE BufferCache -----------------------------
(***************************************************************************)
(* The buffer cache of project 4 (src/p4/filesys/cache.c): CACHE_CNT lines *)
(* of one sector each under buffer_cache_lock, a free line used before an  *)
(* LRU victim, write-back of a dirty victim, and the flush of every line   *)
(* at buffer_cache_close.  The cache lock is held across the block I/O of  *)
(* every operation, so each operation is one atomic step.  The write-      *)
(* behind thread (periodic_write, cache_to_disk) is never created: its     *)
(* thread_create is commented out (cache.c:25), so it is not modelled.     *)
(***************************************************************************)
EXTENDS Naturals, FiniteSets

CONSTANTS
    Sectors,     \* sectors of the file-system device
    Vals,        \* contents of a sector
    CacheCnt,    \* CACHE_CNT, the number of cache lines
    MaxTicks,    \* bound on timer_ticks()
    NULL

ASSUME CacheCnt \in Nat \ {0} /\ MaxTicks \in Nat

Lines == 0..(CacheCnt - 1)

VARIABLES
    cache,   \* caches[i]: [free, dirty, time_stamp, disk_sector, buffer]
    disk,    \* contents of the device
    result,  \* the buffer the last buffer_cache_read copied out
    now,     \* timer_ticks()
    down     \* buffer_cache_close has run (filesys_done at shutdown)

vars == <<cache, disk, result, now, down>>

Line == [free : BOOLEAN, dirty : BOOLEAN, ts : 0..MaxTicks,
         sector : Sectors \cup {NULL}, buf : Vals \cup {NULL}]

\* Mutant: the scan stops one line short of CACHE_CNT.
LookupSkipsLast(s) ==
    LET hits == {i \in Lines : i < CacheCnt - 1 /\ ~cache[i].free /\ cache[i].sector = s}
    IN IF hits = {} THEN NULL ELSE CHOOSE i \in hits : \A j \in hits : i <= j

\* buffer_cache_lookup: the first used line holding sector s, or NULL.
Lookup(s) ==
    LET hits == {i \in Lines : ~cache[i].free /\ cache[i].sector = s}
    IN IF hits = {} THEN NULL ELSE CHOOSE i \in hits : \A j \in hits : i <= j

\* buffer_cache_evict: the first free line; else the first line with the
\* smallest time_stamp (the scan keeps a line only if strictly older).
EvictLine ==
    LET free == {i \in Lines : cache[i].free}
        older(i, j) == cache[i].ts < cache[j].ts \/ (cache[i].ts = cache[j].ts /\ i <= j)
    IN IF free # {} THEN CHOOSE i \in free : \A j \in free : i <= j
       ELSE CHOOSE i \in Lines : \A j \in Lines : older(i, j)

\* Mutant: a dirty line is dropped without being written.
FlushDropped(i) == disk

\* buffer_cache_flush: the device after a used, dirty line is written back.
Flush(i) ==
    IF ~cache[i].free /\ cache[i].dirty
    THEN [disk EXCEPT ![cache[i].sector] = cache[i].buf]
    ELSE disk

\* The line buffer_cache_read and buffer_cache_write use for sector s: the
\* cached one, or the evicted one refilled from the device.
Slot(s) == IF Lookup(s) # NULL THEN Lookup(s) ELSE EvictLine

\* The device once the miss path has written back its victim.
DiskAfterMiss(s) == IF Lookup(s) # NULL THEN disk ELSE Flush(EvictLine)

\* Mutant: the miss path forgets the block_read and keeps the old buffer.
FetchedSkipsRead(s) ==
    IF Lookup(s) # NULL THEN cache[Lookup(s)]
    ELSE [free |-> FALSE, dirty |-> FALSE, ts |-> cache[EvictLine].ts,
          sector |-> s, buf |-> cache[EvictLine].buf]

\* The line for s once found, or once refilled by block_read.
Fetched(s) ==
    IF Lookup(s) # NULL THEN cache[Lookup(s)]
    ELSE [free |-> FALSE, dirty |-> FALSE, ts |-> cache[EvictLine].ts,
          sector |-> s, buf |-> DiskAfterMiss(s)[s]]

-----------------------------------------------------------------------------

Init == /\ cache = [i \in Lines |-> [free |-> TRUE, dirty |-> FALSE, ts |-> 0,
                                     sector |-> NULL, buf |-> NULL]]
        /\ disk \in [Sectors -> Vals]
        /\ result = NULL
        /\ now = 0
        /\ down = FALSE

\* buffer_cache_read (sector): the line's time_stamp is refreshed and its
\* buffer copied out.
BufferCacheRead(s) ==
    /\ ~down
    /\ cache' = [cache EXCEPT ![Slot(s)] = [Fetched(s) EXCEPT !.ts = now]]
    /\ disk' = DiskAfterMiss(s)
    /\ result' = Fetched(s).buf
    /\ UNCHANGED <<now, down>>

\* buffer_cache_write (sector, source): the whole sector is replaced and
\* the line marked dirty; the device is written only on eviction or close.
BufferCacheWrite(s, v) ==
    /\ ~down
    /\ cache' = [cache EXCEPT ![Slot(s)] = [Fetched(s) EXCEPT !.dirty = TRUE,
                                                          !.ts = now, !.buf = v]]
    /\ disk' = DiskAfterMiss(s)
    /\ UNCHANGED <<result, now, down>>

\* Mutant: the loop stops one line short of CACHE_CNT.
AllFlushedSkipsLast ==
    [s \in Sectors |->
       IF \E i \in Lines : i < CacheCnt - 1 /\ ~cache[i].free /\ cache[i].dirty /\ cache[i].sector = s
       THEN cache[CHOOSE i \in Lines : ~cache[i].free /\ cache[i].dirty
                                       /\ cache[i].sector = s].buf
       ELSE disk[s]]

\* The device with every used, dirty line written back.
AllFlushed == [s \in Sectors |->
                 IF \E i \in Lines : ~cache[i].free /\ cache[i].dirty /\ cache[i].sector = s
                 THEN cache[CHOOSE i \in Lines : ~cache[i].free /\ cache[i].dirty
                                                  /\ cache[i].sector = s].buf
                 ELSE disk[s]]

\* buffer_cache_close: every used line is flushed and left clean (a free
\* line is never dirty); the file system is then shut down.
BufferCacheClose ==
    /\ ~down
    /\ disk' = AllFlushed
    /\ cache' = [i \in Lines |-> [cache[i] EXCEPT !.dirty = FALSE]]
    /\ down' = TRUE
    /\ UNCHANGED <<result, now>>

Tick == /\ ~down /\ now < MaxTicks
        /\ now' = now + 1
        /\ UNCHANGED <<cache, disk, result, down>>

\* After shutdown nothing runs.
Halted == down /\ UNCHANGED vars

Next == \/ \E s \in Sectors : BufferCacheRead(s) \/ \E v \in Vals : BufferCacheWrite(s, v)
        \/ BufferCacheClose
        \/ Tick
        \/ Halted

Spec == Init /\ [][Next]_vars

-----------------------------------------------------------------------------

TypeOK == /\ cache \in [Lines -> Line]
          /\ \A i \in Lines : ~cache[i].free => cache[i].sector \in Sectors /\ cache[i].buf \in Vals
          /\ disk \in [Sectors -> Vals]
          /\ result \in Vals \cup {NULL}
          /\ now \in 0..MaxTicks
          /\ down \in BOOLEAN

\* The contents a caller sees for sector s: the cached buffer if a line
\* holds s, else the device.
Logical(s) == IF Lookup(s) # NULL THEN cache[Lookup(s)].buf ELSE disk[s]

\* No two used lines hold the same sector.  buffer_cache_lookup returns
\* the first match only, so a second copy would hide or revive writes.
UniqueLines ==
    \A i, j \in Lines : i # j /\ ~cache[i].free /\ ~cache[j].free
                        => cache[i].sector # cache[j].sector

\* Refinement: every read of the cache returns what the last write of the
\* sector stored, across LRU evictions and write-backs (the Disk module).
DiskAbs == INSTANCE Disk WITH data <- [s \in Sectors |-> Logical(s)], out <- result
ImplementsDisk == DiskAbs!Spec

\* After buffer_cache_close the device holds every sector's latest
\* contents: nothing written through the cache is lost at shutdown.
ShutdownFlushed == down => \A s \in Sectors : disk[s] = Logical(s)

=============================================================================
