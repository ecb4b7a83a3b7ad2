------------------------------- MODULE FileSys -------------------------------
(***************************************************************************)
(* The file system of project 4 as the system calls drive it: the indexed *)
(* inodes of src/p4/filesys/inode.c (direct, indirect and doubly indirect *)
(* blocks, reserved and released recursively), the open-inode table, the  *)
(* root directory's entries (directory.c), filesys_create/open/remove     *)
(* (filesys.c) and the create/open/close/read/write/remove calls of       *)
(* src/p4/userprog/syscall.c.  Every call holds the global file_lock for  *)
(* the whole file-system operation, so each call is one atomic step.  The *)
(* device is reached through the buffer cache, which BufferCache shows to *)
(* behave as a plain sector store (the Disk module); here it is that       *)
(* store.  The free map (free-map.c) is not in src/ and is modelled from  *)
(* its contract: first-fit allocation, and an ASSERT that a released      *)
(* sector is allocated.                                                    *)
(*                                                                         *)
(* Sizes are scaled down: a sector holds BlockSize bytes or PerSector     *)
(* block pointers, an inode DirectCnt direct pointers (123, 128 and 512   *)
(* in the code).                                                           *)
(***************************************************************************)
EXTENDS Integers, Sequences, FiniteSets, TLC

CONSTANTS
    NSectors,    \* sectors of the device: 0..NSectors-1
    BlockSize,   \* BLOCK_SECTOR_SIZE
    PerSector,   \* INDIRECT_BLOCKS_PER_SECTOR
    DirectCnt,   \* DIRECT_BLOCKS_COUNT
    Names,       \* file names in the root directory
    Vals,        \* byte values a process writes (0 is the zero byte)
    Offsets,     \* file offsets of reads and writes
    Sizes,       \* byte counts of reads and writes
    CreateSizes, \* initial_size arguments of create
    Fds,         \* file descriptors a process may hold at once
    DirCnt,      \* entries of the root directory (dir_create (ROOT_DIR_SECTOR, 16))
    ParentInUse, \* values the uninitialised in_use of the parent entry can hold
    NULL

ASSUME /\ NSectors \in Nat /\ NSectors > 3
       /\ BlockSize \in Nat \ {0} /\ PerSector \in Nat \ {0} /\ DirectCnt \in Nat \ {0}
       /\ ParentInUse \subseteq BOOLEAN /\ ParentInUse # {}
       \* Room for every name and the parent entry: the directory never grows.
       /\ Cardinality(Names) + 1 <= DirCnt

Sectors == 0..(NSectors - 1)
FreeMapSector == 0          \* FREE_MAP_SECTOR
RootDirSector == 1          \* ROOT_DIR_SECTOR
RootDataSector == 2         \* the root directory's entries (dir_create at format)
NoSector == -1              \* (block_sector_t) -1 of byte_to_sector
Magic == NSectors + 1       \* INODE_MAGIC: a word beyond every sector number

\* Contents of a sector: written from the static zeros[] buffer, an index
\* block, a data block, an inode_disk, or one of the format's sectors.
Zeros == [kind |-> "zeros", val |-> 0]
IndexBlk(b) == [kind |-> "index", val |-> b]
DataBlk(b) == [kind |-> "data", val |-> b]
InodeBlk(d) == [kind |-> "inode", val |-> d]
Special(x) == [kind |-> "special", val |-> x]

VARIABLES
    used,   \* the free map: allocated sectors
    disk,   \* contents of each sector
    oi,     \* open_inodes: oi[s] = [cnt, removed, data] of the inode at s, or NULL
    fds,    \* fds[f]: the inode sector of open file f, or NULL
    dir,    \* dir[k]: the dir_entry in slot k of the root directory
    out,    \* bytes returned by the last read
    panic   \* NULL, or the failed ASSERT that stopped the kernel

vars == <<used, disk, oi, fds, dir, out, panic>>

\* struct inode_disk.
InodeDisk == [direct : [0..(DirectCnt - 1) -> Sectors], indirect : Sectors,
              doubly : Sectors, isdir : BOOLEAN, length : Nat]
EmptyInode(len) == [direct |-> [i \in 0..(DirectCnt - 1) |-> 0], indirect |-> 0,
                    doubly |-> 0, isdir |-> FALSE, length |-> len]

Min2(a, b) == IF a < b THEN a ELSE b
CeilDiv(a, b) == (a + b - 1) \div b           \* DIV_ROUND_UP
BytesToSectors(len) == CeilDiv(len, BlockSize)

\* A sector read as a block of pointers or of bytes; a sector of zeros
\* reads as 0s, anything else read as pointers as a word past the device.
AsIndex(c) == CASE c.kind = "zeros" -> [i \in 0..(PerSector - 1) |-> 0]
                [] c.kind = "index" -> c.val
                [] OTHER -> [i \in 0..(PerSector - 1) |-> Magic]
AsData(c) == IF c.kind = "data" THEN c.val ELSE [i \in 0..(BlockSize - 1) |-> 0]

\* Word i of struct inode_disk read as direct_blocks[i]: the array is
\* followed by indirect_block, doubly_indirect_block, is_dir, length, magic.
Word(d, i) == CASE i < DirectCnt     -> d.direct[i]
                [] i = DirectCnt     -> d.indirect
                [] i = DirectCnt + 1 -> d.doubly
                [] i = DirectCnt + 2 -> IF d.isdir THEN 1 ELSE 0
                [] i = DirectCnt + 3 -> d.length
                [] OTHER             -> Magic

\* index_to_sector: the sector of block idx of inode d.
IndexToSector(dk, d, idx) ==
    LET base2 == DirectCnt + PerSector
    IN CASE idx < DirectCnt -> d.direct[idx]
         [] idx < base2 -> AsIndex(dk[d.indirect])[idx - DirectCnt]
         [] idx < base2 + PerSector * PerSector ->
              LET first == (idx - base2) \div PerSector
                  second == (idx - base2) % PerSector
              IN AsIndex(dk[AsIndex(dk[d.doubly])[first]])[second]
         [] OTHER -> NoSector

\* byte_to_sector.
ByteToSector(dk, d, pos) ==
    IF pos < 0 \/ pos >= d.length THEN NoSector
    ELSE IndexToSector(dk, d, pos \div BlockSize)

-----------------------------------------------------------------------------
(* Free map (free-map.c, not in src/).                                     *)

\* free_map_allocate (1, &s): the first free sector; s is set only on success.
Allocate(st) ==
    LET free == Sectors \ st.used
    IN IF free = {} THEN [st EXCEPT !.ok = FALSE]
       ELSE LET s == CHOOSE x \in free : \A y \in free : x <= y
            IN [st EXCEPT !.used = @ \cup {s}, !.ptr = s, !.ok = TRUE]

\* free_map_release (s, 1): ASSERT (bitmap_all (free_map, s, 1)) first.
Release(st, s) ==
    IF st.panic # NULL THEN st
    ELSE IF s \in st.used THEN [st EXCEPT !.used = @ \ {s}]
    ELSE [st EXCEPT !.panic = "double_release"]

-----------------------------------------------------------------------------
(* Reserving and releasing an inode's blocks.  A step's state st is a     *)
(* record: the free map, the device, the in-memory inode_disk d being     *)
(* extended, the pointer ptr a call stores through p_entry, the block    *)
(* blk a loop fills, whether the call succeeded, and a panic.           *)

\* The result of free_map_allocate with the new sector zeroed when it
\* succeeded (buffer_cache_write (*p_entry, zeros)).
Zeroed(a) == IF a.ok THEN [a EXCEPT !.disk[a.ptr] = Zeros] ELSE a

\* inode_reserve_direct (p_entry).
ReserveDirect(st, e) ==
    IF e # 0 THEN [st EXCEPT !.ptr = e, !.ok = TRUE]
    ELSE Zeroed(Allocate([st EXCEPT !.ptr = 0]))

\* The index block of inode_reserve_indirect: the existing one, or a new
\* one whose free_map_allocate result is ignored, so that on a full device
\* the block of zeros goes to sector 0.
IndexBlock(st, e) ==
    IF e # 0 THEN [st EXCEPT !.ptr = e]
    ELSE LET t == Allocate([st EXCEPT !.ptr = 0]) IN [t EXCEPT !.disk[t.ptr] = Zeros]

\* level_unit of inode_reserve_indirect and inode_unreserve_indirect.
Unit(lvl) == IF lvl = 1 THEN 1 ELSE PerSector

\* The index block is written back only when every child was reserved.
IndexStored(p, r) ==
    IF r.ok THEN [r EXCEPT !.disk[p] = IndexBlk(r.blk), !.ptr = p]
    ELSE [r EXCEPT !.ptr = p]

RECURSIVE ReserveIndirect(_, _, _, _), IndirectFill(_, _, _),
          ReserveLoop(_, _, _, _, _, _, _), LoopNext(_, _, _, _, _, _, _)

\* inode_reserve_indirect (p_entry, n, level).
ReserveIndirect(st, e, n, lvl) ==
    IF lvl = 0 THEN ReserveDirect(st, e) ELSE IndirectFill(IndexBlock(st, e), n, lvl)

\* block_read of the index block at a.ptr, the loop, and the write-back.
IndirectFill(a, n, lvl) ==
    IndexStored(a.ptr, ReserveLoop(a, AsIndex(a.disk[a.ptr]), 0, CeilDiv(n, Unit(lvl)),
                                   n, Unit(lvl), lvl - 1))

\* The loop of inode_reserve_indirect over children i..l-1 of block blk.
ReserveLoop(st, blk, i, l, n, unit, lvl) ==
    IF i >= l THEN [st EXCEPT !.blk = blk, !.ok = TRUE]
    ELSE LoopNext(ReserveIndirect(st, blk[i], Min2(n, unit), lvl), blk, i, l, n, unit, lvl)

\* After child i: stop on failure, else store its pointer and go on.
LoopNext(c, blk, i, l, n, unit, lvl) ==
    IF ~c.ok THEN c
    ELSE ReserveLoop(c, [blk EXCEPT ![i] = c.ptr], i + 1, l, n - Min2(n, unit), unit, lvl)

RECURSIVE ReserveDirects(_, _, _), DirectNext(_, _, _)

\* The first loop of inode_reserve: direct_blocks[i..lim-1].
ReserveDirects(st, i, lim) ==
    IF i >= lim THEN [st EXCEPT !.ok = TRUE]
    ELSE IF st.d.direct[i] # 0 THEN ReserveDirects(st, i + 1, lim)
    ELSE DirectNext(ReserveDirect(st, 0), i, lim)

DirectNext(c, i, lim) ==
    IF ~c.ok THEN c ELSE ReserveDirects([c EXCEPT !.d.direct[i] = c.ptr], i + 1, lim)

\* The sector count left after the doubly indirect level: more than the
\* inode can address is a failure.
ReserveRest(s3, n3) == IF ~s3.ok \/ n3 = 0 THEN s3 ELSE [s3 EXCEPT !.ok = FALSE]

\* The pointer inode_reserve_indirect stored through &indirect_block or
\* &doubly_indirect_block, kept whether or not the call succeeded.
WithIndirect(r) == [r EXCEPT !.d.indirect = r.ptr]
WithDoubly(r) == [r EXCEPT !.d.doubly = r.ptr]

\* The doubly indirect level: reserve l3 of the n2 remaining sectors.
ReserveLevel2(s2, n2) ==
    IF ~s2.ok \/ n2 = 0 THEN s2
    ELSE LET l3 == Min2(n2, PerSector * PerSector)
         IN ReserveRest(WithDoubly(ReserveIndirect(s2, s2.d.doubly, l3, 2)), n2 - l3)

\* The indirect level: reserve l2 of the n1 sectors beyond the direct ones.
ReserveLevel1(r1, n1) ==
    IF ~r1.ok \/ n1 = 0 THEN r1
    ELSE LET l2 == Min2(n1, PerSector)
         IN ReserveLevel2(WithIndirect(ReserveIndirect(r1, r1.d.indirect, l2, 1)), n1 - l2)

\* inode_reserve (st.d, len): extends st.d in place to cover len bytes.
InodeReserve(st, len) ==
    LET n == BytesToSectors(len)
    IN ReserveLevel1(ReserveDirects(st, 0, Min2(n, DirectCnt)), n - Min2(n, DirectCnt))

RECURSIVE UnreserveIndirect(_, _, _, _), UnreserveLoop(_, _, _, _, _, _, _)

\* inode_unreserve_indirect (entry, n, level).
UnreserveIndirect(st, e, n, lvl) ==
    IF st.panic # NULL THEN st
    ELSE IF lvl = 0 THEN Release(st, e)
    ELSE LET unit == IF lvl = 1 THEN 1 ELSE PerSector
             r == UnreserveLoop(st, AsIndex(st.disk[e]), 0, CeilDiv(n, unit), n, unit, lvl - 1)
         IN Release(r, e)

UnreserveLoop(st, blk, i, l, n, unit, lvl) ==
    IF i >= l THEN st
    ELSE UnreserveLoop(UnreserveIndirect(st, blk[i], Min2(n, unit), lvl),
                       blk, i + 1, l, n - Min2(n, unit), unit, lvl)

RECURSIVE ReleaseWords(_, _, _, _)

\* The first loop of inode_unreserve: direct_blocks[i] for i < bound.
ReleaseWords(st, d, i, bound) ==
    IF i >= bound THEN st ELSE ReleaseWords(Release(st, Word(d, i)), d, i + 1, bound)

\* Mutant: the direct loop is bounded by the direct count, as intended.
InodeUnreserveFixed(st, d) ==
    LET n == BytesToSectors(d.length)
        l1 == Min2(n, DirectCnt)
        r1 == ReleaseWords(st, d, 0, l1)
        l2 == Min2(n - l1, PerSector)
        r2 == IF l2 > 0 THEN UnreserveIndirect(r1, d.indirect, l2, 1) ELSE r1
        l3 == Min2(n - l1 - l2, PerSector * PerSector)
    IN IF l3 > 0 THEN UnreserveIndirect(r2, d.doubly, l3, 2) ELSE r2

\* inode_unreserve: the direct loop runs to the file's sector count, not
\* to the direct count.
InodeUnreserve(st, d) ==
    LET n == BytesToSectors(d.length)
        l1 == Min2(n, DirectCnt)
        r1 == ReleaseWords(st, d, 0, n)
        l2 == Min2(n - l1, PerSector)
        r2 == IF l2 > 0 THEN UnreserveIndirect(r1, d.indirect, l2, 1) ELSE r1
        l3 == Min2(n - l1 - l2, PerSector * PerSector)
    IN IF l3 > 0 THEN UnreserveIndirect(r2, d.doubly, l3, 2) ELSE r2

-----------------------------------------------------------------------------
(* Reading and writing an inode's bytes.                                   *)

\* inode_read_at (off, size) of inode d: the bytes up to the end of file.
ReadBytes(dk, d, off, size) ==
    LET n == IF off >= d.length THEN 0 ELSE Min2(size, d.length - off)
    IN [k \in 1..n |-> AsData(dk[ByteToSector(dk, d, off + k - 1)])[(off + k - 1) % BlockSize]]

\* Mutant: the chunk loop stops one byte short.
PutBytesShort(dk, d, off, size, v) ==
    LET hit(x, i) == \E p \in off..(off + size - 2) :
                        ByteToSector(dk, d, p) = x /\ p % BlockSize = i
    IN [x \in Sectors |->
          IF \E i \in 0..(BlockSize - 1) : hit(x, i)
          THEN DataBlk([i \in 0..(BlockSize - 1) |-> IF hit(x, i) THEN v ELSE AsData(dk[x])[i]])
          ELSE dk[x]]

\* The chunk loop of inode_write_at: each sector that holds a byte of
\* off..off+size-1 is read (bounce buffer), patched and written back.
PutBytes(dk, d, off, size, v) ==
    LET hit(x, i) == \E p \in off..(off + size - 1) :
                        ByteToSector(dk, d, p) = x /\ p % BlockSize = i
    IN [x \in Sectors |->
          IF \E i \in 0..(BlockSize - 1) : hit(x, i)
          THEN DataBlk([i \in 0..(BlockSize - 1) |-> IF hit(x, i) THEN v ELSE AsData(dk[x])[i]])
          ELSE dk[x]]

-----------------------------------------------------------------------------

(* The root directory's entries (directory.c).  Slot 0 is the parent    *)
(* entry that dir_create writes from a struct dir_entry whose in_use and  *)
(* name were never set.                                                    *)

DirSlots == 0..(DirCnt - 1)
Least(S) == CHOOSE k \in S : \A j \in S : k <= j

\* lookup (dir, name): the first in-use entry named n, scanning from the
\* second slot (ofs = sizeof e); NULL if there is none.
LookupSlot(n) ==
    LET hits == {k \in DirSlots \ {0} : dir[k].inUse /\ dir[k].name = n}
    IN IF hits = {} THEN NULL ELSE Least(hits)

\* dir_lookup (dir, n): the entry's inode sector, or NULL.
DirLookup(n) == IF LookupSlot(n) = NULL THEN NULL ELSE dir[LookupSlot(n)].sector

\* dir_add (dir, n, ino) after its lookup: the first slot not in use,
\* scanning from offset 0, takes the entry.
DirAdd(n, ino) ==
    [dir EXCEPT ![Least({k \in DirSlots : ~dir[k].inUse})] =
                   [inUse |-> TRUE, name |-> n, sector |-> ino]]

\* dir_remove (dir, n): the entry lookup found is marked not in use.
DirRemove(n) == [dir EXCEPT ![LookupSlot(n)].inUse = FALSE]

-----------------------------------------------------------------------------

\* The state a call starts from.
St == [used |-> used, disk |-> disk, ok |-> TRUE, ptr |-> 0, blk |-> <<>>,
       d |-> EmptyInode(0), panic |-> NULL]

\* The end of a call: a failed ASSERT stops the kernel where it stands.
Commit(st, oi2, fds2, dir2, out2) ==
    IF st.panic # NULL
    THEN /\ panic' = st.panic
         /\ UNCHANGED <<used, disk, oi, fds, dir, out>>
    ELSE /\ used' = st.used /\ disk' = st.disk
         /\ oi' = oi2 /\ fds' = fds2 /\ dir' = dir2 /\ out' = out2
         /\ UNCHANGED panic

\* Mutant: a newly read inode starts with open_cnt 0.
OpenedCntZero(s) == IF oi[s] = NULL THEN [cnt |-> 0, removed |-> FALSE, data |-> disk[s].val]
                    ELSE [oi[s] EXCEPT !.cnt = @ + 1]

\* inode_open (s): the open inode gets one more opener, or is read in.
Opened(s) == IF oi[s] = NULL THEN [cnt |-> 1, removed |-> FALSE, data |-> disk[s].val]
             ELSE [oi[s] EXCEPT !.cnt = @ + 1]

\* Mutant: a removed inode's blocks are released at every close.
CloseStAnyCnt(s, node) ==
    IF ~node.removed THEN St ELSE InodeUnreserve(Release(St, s), node.data)

\* inode_close of open inode node at s: the last close drops it from the
\* table and, if it was removed, releases its sector and its blocks.
CloseSt(s, node) ==
    IF node.cnt > 1 \/ ~node.removed THEN St
    ELSE InodeUnreserve(Release(St, s), node.data)
ClosedOi(s, node) ==
    [oi EXCEPT ![s] = IF node.cnt > 1 THEN [node EXCEPT !.cnt = @ - 1] ELSE NULL]

\* The end of filesys_create once inode_create has run on sector ino:
\* on failure only the inode sector is released.
Created(n, ino, r) ==
    LET made == [r EXCEPT !.disk[ino] = InodeBlk(r.d)]
    IN CASE ~r.ok -> Commit(Release(r, ino), oi, fds, dir, out)
         [] LookupSlot(n) # NULL -> Commit(Release(made, ino), oi, fds, dir, out)
         [] OTHER -> Commit(made, oi, fds, DirAdd(n, ino), out)

\* create (name, initial_size): filesys_create allocates the inode sector,
\* inode_create reserves the blocks and writes the inode, dir_add enters
\* the name.
Create(n, len) ==
    /\ panic = NULL
    /\ LET a == Allocate(St)
       IN IF ~a.ok THEN UNCHANGED vars
          ELSE Created(n, a.ptr, InodeReserve([a EXCEPT !.d = EmptyInode(len)], len))

\* open (name): dir_lookup then inode_open, and a new descriptor on the
\* process's fd_list (file_num++: its number matters to no property, so
\* a descriptor is any free slot of Fds).  A name not in the directory
\* returns -1 and changes nothing.
Open(n, f) ==
    /\ panic = NULL
    /\ fds[f] = NULL
    /\ DirLookup(n) # NULL
    /\ oi' = [oi EXCEPT ![DirLookup(n)] = Opened(DirLookup(n))]
    /\ fds' = [fds EXCEPT ![f] = DirLookup(n)]
    /\ UNCHANGED <<used, disk, dir, out, panic>>

\* close (fd): file_close, then inode_close.
Close(f) ==
    /\ panic = NULL
    /\ fds[f] # NULL
    /\ LET s == fds[f]
       IN Commit(CloseSt(s, oi[s]), ClosedOi(s, oi[s]), [fds EXCEPT ![f] = NULL], dir, out)

\* remove (name): dir_remove opens the inode, erases the entry, marks the
\* inode removed and closes it.
Remove(n) ==
    /\ panic = NULL
    /\ DirLookup(n) # NULL
    /\ LET s == DirLookup(n)
           node == [Opened(s) EXCEPT !.removed = TRUE]
       IN Commit(CloseSt(s, node), ClosedOi(s, node), fds, DirRemove(n), out)

\* The extension of inode_write_at: a failed inode_reserve returns 0 but
\* keeps the pointers it set in the in-memory inode; else the length
\* becomes off+size, the inode is written, then the bytes.
Extended(s, r, off, size, v) ==
    LET d2 == [r.d EXCEPT !.length = off + size]
    IN /\ used' = r.used
       /\ IF ~r.ok
          THEN /\ disk' = r.disk
               /\ oi' = [oi EXCEPT ![s].data = r.d]
          ELSE /\ disk' = PutBytes([r.disk EXCEPT ![s] = InodeBlk(d2)], d2, off, size, v)
               /\ oi' = [oi EXCEPT ![s].data = d2]
       /\ UNCHANGED <<fds, dir, out, panic>>

\* inode_write_at (s, size, off) of open inode s with inode_disk d: it
\* extends when byte off+size-1 has no sector (with size 0 at offset 0
\* that is byte -1).
WriteAt(s, d, off, size, v) ==
    IF ByteToSector(disk, d, off + size - 1) # NoSector
    THEN /\ disk' = PutBytes(disk, d, off, size, v)
         /\ UNCHANGED <<used, oi, fds, dir, out, panic>>
    ELSE Extended(s, InodeReserve([St EXCEPT !.d = d], off + size), off, size, v)

\* seek (fd, off) then write (fd, v, size).
Write(f, off, size, v) ==
    /\ panic = NULL
    /\ fds[f] # NULL
    /\ WriteAt(fds[f], oi[fds[f]].data, off, size, v)

\* seek (fd, off) then read (fd, size).
Read(f, off, size) ==
    /\ panic = NULL
    /\ fds[f] # NULL
    /\ out' = ReadBytes(disk, oi[fds[f]].data, off, size)
    /\ UNCHANGED <<used, disk, oi, fds, dir, panic>>

\* The formatted device: the free map's inode, the root directory's inode
\* and entries.
Init == /\ used = {FreeMapSector, RootDirSector, RootDataSector}
        /\ disk = [s \in Sectors |-> CASE s = FreeMapSector -> Special("free_map_inode")
                                       [] s = RootDirSector -> Special("root_inode")
                                       [] s = RootDataSector -> Special("root_entries")
                                       [] OTHER -> Zeros]
        /\ oi = [s \in Sectors |-> NULL]
        /\ fds = [f \in Fds |-> NULL]
        /\ \E p \in ParentInUse :
             dir = [k \in DirSlots |->
                      IF k = 0 THEN [inUse |-> p, name |-> NULL, sector |-> RootDirSector]
                      ELSE [inUse |-> FALSE, name |-> NULL, sector |-> 0]]
        /\ out = NULL
        /\ panic = NULL

\* After a PANIC nothing runs.
Halted == panic # NULL /\ UNCHANGED vars

\* syscall_handler's SYS_CREATE .. SYS_CLOSE cases, one call at a time under
\* file_lock; seek and tell are folded into the offset of read and write.
Next == \/ \E n \in Names : \/ \E len \in CreateSizes : Create(n, len)
                            \/ Remove(n)
                            \/ \E f \in Fds : Open(n, f)
        \/ \E f \in Fds : \/ Close(f)
                          \/ \E off \in Offsets, size \in Sizes :
                               \/ \E v \in Vals : Write(f, off, size, v)
                               \/ Read(f, off, size)
        \/ Halted

Spec == Init /\ [][Next]_vars

-----------------------------------------------------------------------------

Reserved == {FreeMapSector, RootDirSector, RootDataSector}

\* Inodes that exist: those with a file entry in some slot, or open.
Live == {s \in Sectors : oi[s] # NULL}
        \cup {dir[k].sector : k \in {j \in DirSlots : dir[j].inUse /\ dir[j].name # NULL}}

\* The inode_disk of a live inode: the open inode's copy, else the device's.
DataOf(s) == IF oi[s] # NULL THEN oi[s].data ELSE disk[s].val

\* The sectors inode s owns: those inode_unreserve should release for its
\* length (data blocks, and the index blocks above them).
Owned(s) ==
    LET d == DataOf(s)
        n == BytesToSectors(d.length)
        data == {IndexToSector(disk, d, i) : i \in 0..(n - 1)}
        ind == IF n > DirectCnt THEN {d.indirect} ELSE {}
        n2 == n - DirectCnt - PerSector
        dbl == IF n2 > 0
               THEN {d.doubly} \cup {AsIndex(disk[d.doubly])[j] : j \in 0..(CeilDiv(n2, PerSector) - 1)}
               ELSE {}
    IN data \cup ind \cup dbl

TypeOK ==
    /\ used \subseteq Sectors
    /\ oi \in [Sectors -> {NULL} \cup [cnt : Nat \ {0}, removed : BOOLEAN, data : InodeDisk]]
    /\ fds \in [Fds -> Sectors \cup {NULL}]
    /\ dir \in [DirSlots -> [inUse : BOOLEAN, name : Names \cup {NULL}, sector : Sectors]]
    /\ \A s \in Live : DataOf(s) \in InodeDisk
    /\ out \in Seq(Vals \cup {0}) \cup {NULL}
    /\ panic \in {NULL, "double_release"}

\* Refinement: through creates, extensions across direct, indirect and
\* doubly indirect blocks, removes of open files and last closes, every
\* read returns the bytes the Files module says the inode holds.
FilesAbs == INSTANCE Files WITH Inos <- Sectors,
                                content <- [s \in Live |-> ReadBytes(disk, DataOf(s), 0, DataOf(s).length)]
ImplementsFiles == FilesAbs!Spec

\* Every sector a live inode owns is allocated, belongs to no other inode
\* and is not one of the format's sectors: inode_reserve never hands out a
\* block twice and inode_close never frees a block still in use.
BlocksExclusive ==
    \A s \in Live :
        /\ ({s} \cup Owned(s)) \subseteq used
        /\ Owned(s) \cap (Reserved \cup {s}) = {}
        /\ \A t \in Live \ {s} : ({s} \cup Owned(s)) \cap ({t} \cup Owned(t)) = {}

\* Inodes a process can still reach: found by dir_lookup, or open.
Reachable == {s \in Sectors : oi[s] # NULL}
             \cup {DirLookup(n) : n \in {m \in Names : DirLookup(m) # NULL}}

\* No sector leaks: every allocated sector is a format sector, an inode a
\* process can reach by name or descriptor, or a block one of them owns.
\* filesys_create's clean-up after a failed dir_add and dir_add's choice
\* of slot are both about this.
NoLeak == used = Reserved \cup UNION {{s} \cup Owned(s) : s \in Reachable}

\* free_map_release's ASSERT never fails: inode_close of a removed inode
\* releases exactly the sectors the inode was given, each once.
ReleasesAllocated == panic = NULL

\* The free map's inode at sector 0 is never overwritten.
FreeMapIntact == disk[FreeMapSector] = Special("free_map_inode")
=============================================================================
