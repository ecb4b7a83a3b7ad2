-------------------------------- MODULE Disk --------------------------------
(***************************************************************************)
(* What the buffer cache (src/p4/filesys/cache.c) promises its callers:    *)
(* a sector-addressed store in which buffer_cache_read of a sector gives   *)
(* the contents of the last buffer_cache_write to it, or the device's      *)
(* contents if it was never written.  Every read and write is atomic.      *)
(***************************************************************************)
CONSTANTS Sectors, Vals, NULL

VARIABLES
    data,   \* data[s]: the contents a read of sector s returns
    out     \* the buffer the last read copied out, or NULL before any read

Init == /\ data \in [Sectors -> Vals]
        /\ out = NULL

Read(s) == /\ out' = data[s]
           /\ UNCHANGED data

Write(s, v) == /\ data' = [data EXCEPT ![s] = v]
               /\ UNCHANGED out

Next == \E s \in Sectors : Read(s) \/ \E v \in Vals : Write(s, v)

Spec == Init /\ [][Next]_<<data, out>>
=============================================================================
