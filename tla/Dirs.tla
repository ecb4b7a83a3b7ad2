-------------------------------- MODULE Dirs ---------------------------------
(***************************************************************************)
(* The directory tree of project 4 as the system calls walk it: paths     *)
(* split by name_resolution and resolved by dir_open_path (directory.c),  *)
(* dir_lookup with its "." and ".." cases, dir_add, dir_remove and        *)
(* dir_readdir; filesys_create, filesys_open, filesys_remove and          *)
(* filesys_cd (filesys.c); and the create, mkdir, remove, chdir, open,    *)
(* close and readdir calls of src/p4/userprog/syscall.c, for several      *)
(* processes, each with a working directory and a list of descriptors.   *)
(*                                                                         *)
(* Every call runs under file_lock, so it is one step, except open: the   *)
(* dir_open (inode_reopen (inode)) for a directory runs after the lock is *)
(* released (syscall.c:365), so it is a step of its own.  The inode layer *)
(* is abstracted to what the directory code sees: whether an inode is a  *)
(* directory, its contents read as dir_entry records, and the open-inode *)
(* table (open_cnt, removed).  Blocks are FileSys's business; here the    *)
(* free map hands out inode sectors, and a directory grows one entry at a *)
(* time without failing.  Regular files are created with size 0 (their   *)
(* bytes are FileSys's business too).                                     *)
(***************************************************************************)
EXTENDS Integers, Sequences, FiniteSets

SX == INSTANCE SequencesExt
Gr == INSTANCE Graphs

CONSTANTS
    Procs,        \* user processes
    Names,        \* the names a path may use (strings other than "." and "..")
    Fds,          \* descriptor slots of a process's fd_list
    NSectors,     \* sectors of the device: 0..NSectors-1
    RootEntries,  \* entries dir_create gives the root (16 in do_format)
    ParentInUse,  \* values the uninitialised in_use of a parent entry can hold
    CreatePaths,  \* arguments of create, mkdir, remove, chdir and open
    MkdirPaths,
    RemovePaths,
    ChdirPaths,
    OpenPaths,
    NULL,
    Dangling      \* a pointer to a struct inode that has been freed

ASSUME /\ NSectors \in Nat /\ NSectors > 2 /\ RootEntries \in Nat \ {0}
       /\ ParentInUse \subseteq BOOLEAN /\ ParentInUse # {}

Sectors == 0..(NSectors - 1)
FreeMapSector == 0
RootDirSector == 1

\* A path as the code sees it after strtok_r: absolute or not, and its
\* tokens.  "//" and a trailing "/" produce no token.
Tok == Names \cup {".", ".."}
Path == [abs : BOOLEAN, toks : Seq(Tok)]

\* struct dir_entry.  A name no call passes stands for the zero bytes of
\* a fresh entry and for the uninitialised name of a parent entry.
NoName == ""
Entry == [inUse : BOOLEAN, name : Names \cup {NoName}, sector : Sectors]
ZeroEntry == [inUse |-> FALSE, name |-> NoName, sector |-> 0]
\* The parent entry dir_create and dir_add write at offset 0 from a
\* struct dir_entry of which only inode_sector was set.
ParentEntry(inUse, s) == [inUse |-> inUse, name |-> NoName, sector |-> s]

\* dir_create (sector, entry_cnt): an inode of entry_cnt zeroed entries
\* whose entry at offset 0 is the parent entry, pointing to itself.
DirCreate(s, entryCnt, pu) ==
    [isdir |-> TRUE,
     ents |-> <<ParentEntry(pu, s)>> \o [i \in 1..(entryCnt - 1) |-> ZeroEntry]]

VARIABLES
    used,     \* the free map: allocated sectors
    node,     \* node[s]: is_dir of the inode at s and its contents as entries
    oi,       \* open_inodes: oi[s] = [cnt, removed], or NULL
    cwd,      \* cwd[p]: thread_current ()->cwd, a directory's sector, or NULL
    fds,      \* fds[p][f]: [ino, dir, pos] of descriptor f, or NULL
    opening,  \* opening[p]: the open call between its two steps, or NULL
    halt      \* NULL, or "ub" once a freed struct inode is used

vars == <<used, node, oi, cwd, fds, opening, halt>>

-----------------------------------------------------------------------------
(* One call's effect on the file system: the free map, the inodes, the   *)
(* open-inode table, and whether it used freed memory.                    *)

St == [used |-> used, node |-> node, oi |-> oi, ub |-> FALSE]
UB(c) == [c EXCEPT !.ub = TRUE]

\* inode_open (s): the open inode gets one more opener, or is read in.
InodeOpen(c, s) ==
    [c EXCEPT !.oi[s] = IF @ = NULL THEN [cnt |-> 1, removed |-> FALSE]
                        ELSE [@ EXCEPT !.cnt = @ + 1]]

\* inode_reopen (inode) of an open inode.
InodeReopen(c, s) == [c EXCEPT !.oi[s].cnt = @ + 1]

\* Mutant: the last close leaves the inode in open_inodes with no opener.
InodeCloseKeepsLast(c, s) == [c EXCEPT !.oi[s].cnt = @ - 1]

\* inode_close (inode): the last close drops it from open_inodes and, if
\* it was removed, frees its sector (free_map_release).
InodeClose(c, s) ==
    IF c.oi[s].cnt > 1 THEN [c EXCEPT !.oi[s].cnt = @ - 1]
    ELSE [c EXCEPT !.oi[s] = NULL, !.used = IF c.oi[s].removed THEN @ \ {s} ELSE @]

\* The first free sector (free_map_allocate (1, &s)), or NULL.
FirstFree(c) == IF Sectors \ c.used = {} THEN NULL ELSE SX!Min(Sectors \ c.used)

\* Entry k (1-based) written: in place, or at the end of file.
WriteSlot(ents, k, e) == IF k <= Len(ents) THEN [ents EXCEPT ![k] = e] ELSE Append(ents, e)

-----------------------------------------------------------------------------
(* directory.c                                                              *)

\* name_resolution (path, directory, filename): every token but the last
\* is the directory, the last is the file name ("" if there is none).
NameResolution(path) ==
    [dir |-> [abs |-> path.abs,
              toks |-> IF path.toks = <<>> THEN <<>> ELSE SX!Front(path.toks)],
     file |-> IF path.toks = <<>> THEN NoName ELSE SX!Last(path.toks)]

\* lookup (dir, name): the index of the first entry in use with that name,
\* from the second entry on (ofs = sizeof e); 0 if there is none.
Lookup(ents, n) == SX!SelectInSubSeq(ents, 2, Len(ents), LAMBDA e : e.inUse /\ e.name = n)

\* dir_lookup (dir, name, &inode): "." reopens the directory itself, ".."
\* opens the sector of its entry at offset 0 (read short from an empty
\* inode, it is an uninitialised local), any other name goes to lookup.
DirLookup(c, s, t) ==
    LET ents == c.node[s].ents
        k == Lookup(ents, t)
    IN CASE t = "." -> [c |-> InodeReopen(c, s), ino |-> s]
         [] t = ".." /\ ents = <<>> -> [c |-> UB(c), ino |-> NULL]
         [] t = ".." -> [c |-> InodeOpen(c, ents[1].sector), ino |-> ents[1].sector]
         [] k = 0 -> [c |-> c, ino |-> NULL]
         [] OTHER -> [c |-> InodeOpen(c, ents[k].sector), ino |-> ents[k].sector]

RECURSIVE Walk(_, _, _)
\* The loop of dir_open_path from directory curr: each token is looked up
\* and opened with dir_open (which accepts any inode), and curr closed; a
\* failed lookup closes curr and fails; at the end a removed directory is
\* closed and refused.
Walk(c, curr, toks) ==
    IF c.ub THEN [c |-> c, dir |-> NULL]
    ELSE IF toks = <<>>
    THEN IF c.oi[curr].removed THEN [c |-> InodeClose(c, curr), dir |-> NULL]
         ELSE [c |-> c, dir |-> curr]
    ELSE LET r == DirLookup(c, curr, Head(toks))
         IN IF r.ino = NULL THEN [c |-> InodeClose(r.c, curr), dir |-> NULL]
            ELSE Walk(InodeClose(r.c, curr), r.ino, Tail(toks))

\* dir_open_path (path) for process p: from the root for an absolute path
\* or a thread without cwd, else from dir_reopen (cwd).
DirOpenPath(c, p, path) ==
    CASE ~path.abs /\ cwd[p] = Dangling -> [c |-> UB(c), dir |-> NULL]
      [] path.abs \/ cwd[p] = NULL ->
           Walk(InodeOpen(c, RootDirSector), RootDirSector, path.toks)
      [] OTHER -> Walk(InodeReopen(c, cwd[p]), cwd[p], path.toks)

\* dir_add (dir, name, ino, is_dir): an empty name or one lookup finds
\* fails.  For a directory, the child's entry at offset 0 is written with
\* inode_sector = dir's sector and an uninitialised in_use (pu), between
\* an inode_open and a dir_close of the child.  The entry then goes to
\* the first slot not in use, scanning from offset 0, or to the end.
DirAdd(c, s, n, ino, isdir, pu) ==
    IF n = NoName \/ Lookup(c.node[s].ents, n) # 0 THEN [c |-> c, ok |-> FALSE]
    ELSE LET child == InodeOpen(c, ino)
             c1 == IF isdir
                   THEN InodeClose([child EXCEPT !.node[ino].ents =
                                       WriteSlot(@, 1, ParentEntry(pu, s))], ino)
                   ELSE c
             ents == c1.node[s].ents
             free == SX!SelectInSeq(ents, LAMBDA e : ~e.inUse)
             k == IF free = 0 THEN Len(ents) + 1 ELSE free
         IN [c |-> [c1 EXCEPT !.node[s].ents =
                      WriteSlot(ents, k, [inUse |-> TRUE, name |-> n, sector |-> ino])],
             ok |-> TRUE]

\* inode_remove (inode) and the inode_close at "done" of dir_remove.  For
\* a directory these run after dir_close (target) already closed the same
\* reference: if that close freed the struct inode, they write freed
\* memory, which the allocator has not handed out again (no malloc of its
\* size class runs in between), so they change nothing that is live.
MarkRemoved(c, s) == IF c.oi[s] = NULL THEN c ELSE [c EXCEPT !.oi[s].removed = TRUE]
CloseAtDone(c, s) == IF c.oi[s] = NULL THEN c ELSE InodeClose(c, s)

\* Entry k of directory s marked not in use.
Erase(c, s, k) == [c EXCEPT !.node[s].ents[k].inUse = FALSE]

\* dir_is_empty (dir): no entry in use from offset sizeof e on.
DirIsEmpty(ents) == SX!SelectInSubSeq(ents, 2, Len(ents), LAMBDA e : e.inUse) = 0

\* Mutant: a removed regular file is closed without inode_remove.
DirRemoveSkipsRemove(c, s, n) ==
    LET k == Lookup(c.node[s].ents, n)
        ino == c.node[s].ents[k].sector
    IN IF k # 0 /\ ~c.node[ino].isdir
       THEN InodeClose(Erase(InodeOpen(c, ino), s, k), ino)
       ELSE c

\* dir_remove (dir, name): lookup, inode_open; a directory is opened with
\* dir_open, tested with dir_is_empty (entries from offset sizeof e on)
\* and closed, and a non-empty one is refused; then the entry is erased,
\* the inode marked removed and closed.
DirRemove(c, s, n) ==
    LET k == Lookup(c.node[s].ents, n)
        ino == c.node[s].ents[k].sector
        c1 == InodeOpen(c, ino)
        target == InodeClose(c1, ino)
        empty == DirIsEmpty(c1.node[ino].ents)
    IN CASE k = 0 -> c
         [] ~c1.node[ino].isdir -> InodeClose(MarkRemoved(Erase(c1, s, k), ino), ino)
         [] ~empty -> CloseAtDone(target, ino)
         [] OTHER -> CloseAtDone(MarkRemoved(Erase(target, s, k), ino), ino)

-----------------------------------------------------------------------------
(* filesys.c                                                                *)

\* Mutant: the new inode's sector is released whatever dir_add returns.
FilesysCreateReleases(p, path, isdir, pu) ==
    LET nr == NameResolution(path)
        w == DirOpenPath(St, p, nr.dir)
        ino == FirstFree(w.c)
        made == [w.c EXCEPT !.used = @ \cup {ino}, !.node[ino] = [isdir |-> isdir, ents |-> <<>>]]
        a == DirAdd(made, w.dir, nr.file, ino, isdir, pu)
    IN CASE w.dir = NULL -> w.c
         [] ino = NULL -> InodeClose(w.c, w.dir)
         [] OTHER -> InodeClose([a.c EXCEPT !.used = @ \ {ino}], w.dir)

\* filesys_create (path, 0, is_dir): dir_open_path of the directory part,
\* free_map_allocate, inode_create (an empty inode), dir_add; on failure
\* the sector is released; then dir_close.
FilesysCreate(p, path, isdir, pu) ==
    LET nr == NameResolution(path)
        w == DirOpenPath(St, p, nr.dir)
        ino == FirstFree(w.c)
        made == [w.c EXCEPT !.used = @ \cup {ino}, !.node[ino] = [isdir |-> isdir, ents |-> <<>>]]
        a == DirAdd(made, w.dir, nr.file, ino, isdir, pu)
    IN CASE w.dir = NULL -> w.c
         [] ino = NULL -> InodeClose(w.c, w.dir)
         [] a.ok -> InodeClose(a.c, w.dir)
         [] OTHER -> InodeClose([a.c EXCEPT !.used = @ \ {ino}], w.dir)

\* filesys_open (path): an empty string fails; dir_open_path of the
\* directory part; dir_lookup of the file name and dir_close, or, with no
\* file name, the directory's own inode (its dir is never closed).  A
\* removed inode is refused without being closed.
FilesysOpen(p, path) ==
    LET nr == NameResolution(path)
        w == DirOpenPath(St, p, nr.dir)
        l == DirLookup(w.c, w.dir, nr.file)
        r == IF nr.file # NoName THEN [c |-> InodeClose(l.c, w.dir), ino |-> l.ino]
             ELSE [c |-> w.c, ino |-> w.dir]
    IN CASE ~path.abs /\ path.toks = <<>> -> [c |-> St, ino |-> NULL]
         [] w.dir = NULL -> [c |-> w.c, ino |-> NULL]
         [] r.ino = NULL -> r
         [] r.c.oi[r.ino].removed -> [c |-> r.c, ino |-> NULL]
         [] OTHER -> r

\* filesys_remove (path): dir_open_path, dir_remove, dir_close.
FilesysRemove(p, path) ==
    LET nr == NameResolution(path)
        w == DirOpenPath(St, p, nr.dir)
    IN IF w.dir = NULL THEN w.c ELSE InodeClose(DirRemove(w.c, w.dir, nr.file), w.dir)

-----------------------------------------------------------------------------
(* The system calls (src/p4/userprog/syscall.c).                            *)

\* A reference to an inode the call freed now points to freed memory.
Gone(r, o) == IF r \in Sectors /\ o[r] = NULL THEN Dangling ELSE r
Forget(rec, o) == IF rec = NULL THEN NULL ELSE [rec EXCEPT !.ino = Gone(@, o)]

\* The end of a call: the file-system state it left, the process state
\* it set; a use of freed memory stops the model.
Commit(c, cwd2, fds2, opening2) ==
    IF c.ub
    THEN /\ halt' = "ub"
         /\ UNCHANGED <<used, node, oi, cwd, fds, opening>>
    ELSE /\ used' = c.used /\ node' = c.node /\ oi' = c.oi
         /\ cwd' = [p \in Procs |-> Gone(cwd2[p], c.oi)]
         /\ fds' = [p \in Procs |-> [f \in Fds |-> Forget(fds2[p][f], c.oi)]]
         /\ opening' = [p \in Procs |-> Forget(opening2[p], c.oi)]
         /\ UNCHANGED halt

\* A process makes a call only when it is not inside open.
Ready(p) == halt = NULL /\ opening[p] = NULL

\* create (file, 0) and mkdir (dir).
Create(p, path) == Ready(p) /\ Commit(FilesysCreate(p, path, FALSE, FALSE), cwd, fds, opening)
Mkdir(p, path) ==
    /\ Ready(p)
    /\ \E pu \in ParentInUse : Commit(FilesysCreate(p, path, TRUE, pu), cwd, fds, opening)

\* remove (file).
Remove(p, path) == Ready(p) /\ Commit(FilesysRemove(p, path), cwd, fds, opening)

\* Mutant: filesys_cd does not close the old working directory.
FilesysCdKeepsOld(p, path) ==
    LET w == DirOpenPath(St, p, path)
    IN [c |-> w.c, cwd |-> IF w.dir = NULL THEN cwd ELSE [cwd EXCEPT ![p] = w.dir]]

\* filesys_cd (name): dir_open_path of the whole path and, on success,
\* dir_close of the old cwd (dir_close (NULL) does nothing).
FilesysCd(p, path) ==
    LET w == DirOpenPath(St, p, path)
        set == [cwd EXCEPT ![p] = w.dir]
    IN CASE w.dir = NULL -> [c |-> w.c, cwd |-> cwd]
         [] cwd[p] = Dangling -> [c |-> UB(w.c), cwd |-> cwd]
         [] cwd[p] = NULL -> [c |-> w.c, cwd |-> set]
         [] OTHER -> [c |-> InodeClose(w.c, cwd[p]), cwd |-> set]

\* chdir (dir) under file_lock.
Chdir(p, path) ==
    /\ Ready(p)
    /\ LET r == FilesysCd(p, path) IN Commit(r.c, r.cwd, fds, opening)

\* getfile (t, fd, searchdir): descriptor f of p if it is a file's
\* (searchdir 0, dir = NULL), a directory's (1) or either (2).
GetFile(p, f, searchdir) ==
    /\ fds[p][f] # NULL
    /\ searchdir = 2 \/ fds[p][f].dir = (searchdir = 1)

\* open (file), under file_lock: filesys_open; the descriptor f is the
\* next one of the process (its number matters to no property).
OpenLocked(p, f, path) ==
    /\ Ready(p)
    /\ fds[p][f] = NULL
    /\ LET r == FilesysOpen(p, path)
       IN Commit(r.c, cwd, fds,
                 IF r.ino = NULL THEN opening ELSE [opening EXCEPT ![p] = [fd |-> f, ino |-> r.ino]])

\* The rest of open, after file_lock is released: the descriptor is
\* pushed, and a directory gets dir_open (inode_reopen (inode)).  One
\* step: the other threads run before it (after OpenLocked), and the
\* unlocked open_cnt++ of inode_reopen, whose value is unused, is a single
\* read-modify-write instruction on the one-CPU i386 kernel, which takes
\* a timer interrupt only between instructions; the rest touches only the
\* thread's own fd_list and a fresh struct dir.
OpenFinish(p) ==
    /\ halt = NULL
    /\ opening[p] # NULL
    /\ LET o == opening[p]
       IN IF o.ino = Dangling
          THEN Commit(UB(St), cwd, fds, opening)
          ELSE /\ fds' = [fds EXCEPT ![p][o.fd] = [ino |-> o.ino, dir |-> node[o.ino].isdir, pos |-> 1]]
               /\ oi' = IF node[o.ino].isdir THEN [oi EXCEPT ![o.ino].cnt = @ + 1] ELSE oi
               /\ opening' = [opening EXCEPT ![p] = NULL]
               /\ UNCHANGED <<used, node, cwd, halt>>

\* close (fd): getfile (t, fd, 0) finds only descriptors without a dir, so
\* closing a directory's descriptor does nothing; a file's is closed.
Close(p, f) ==
    /\ Ready(p)
    /\ GetFile(p, f, 0)
    /\ IF fds[p][f].ino = Dangling THEN Commit(UB(St), cwd, fds, opening)
       ELSE Commit(InodeClose(St, fds[p][f].ino), cwd, [fds EXCEPT ![p][f] = NULL], opening)

\* dir_readdir (dir, name): the pos (in entries) after the next entry in
\* use at or after pos, or the end of the directory if there is none.
DirReaddir(ents, pos) ==
    LET k == SX!SelectInSubSeq(ents, pos + 1, Len(ents), LAMBDA e : e.inUse)
    IN IF k # 0 THEN k ELSE SX!Max({pos, Len(ents)})

\* readdir (fd, name) on a directory's descriptor.
Readdir(p, f) ==
    /\ Ready(p)
    /\ GetFile(p, f, 1)
    /\ LET d == fds[p][f]
       IN IF d.ino = Dangling THEN Commit(UB(St), cwd, fds, opening)
          ELSE /\ fds' = [fds EXCEPT ![p][f].pos = DirReaddir(node[d.ino].ents, d.pos)]
               /\ UNCHANGED <<used, node, oi, cwd, opening, halt>>

\* The formatted device with the free map open (free_map_open) and the
\* root directory of RootEntries entries, its parent entry pointing to
\* itself.
Init == /\ used = {FreeMapSector, RootDirSector}
        /\ \E pu \in ParentInUse :
             node = [s \in Sectors |->
                       IF s = RootDirSector THEN DirCreate(RootDirSector, RootEntries, pu)
                       ELSE [isdir |-> FALSE, ents |-> <<>>]]
        /\ oi = [s \in Sectors |-> IF s = FreeMapSector THEN [cnt |-> 1, removed |-> FALSE] ELSE NULL]
        /\ cwd = [p \in Procs |-> NULL]
        /\ fds = [p \in Procs |-> [f \in Fds |-> NULL]]
        /\ opening = [p \in Procs |-> NULL]
        /\ halt = NULL

\* After a use of freed memory no call is modelled.
Next == \E p \in Procs :
             \/ \E path \in CreatePaths : Create(p, path)
             \/ \E path \in MkdirPaths : Mkdir(p, path)
             \/ \E path \in RemovePaths : Remove(p, path)
             \/ \E path \in ChdirPaths : Chdir(p, path)
             \/ \E f \in Fds, path \in OpenPaths : OpenLocked(p, f, path)
             \/ OpenFinish(p)
             \/ \E f \in Fds : Close(p, f) \/ Readdir(p, f)

Spec == Init /\ [][Next]_vars

-----------------------------------------------------------------------------
(* Properties                                                               *)

Ref == Sectors \cup {NULL, Dangling}
TypeOK ==
    /\ used \subseteq Sectors /\ {FreeMapSector, RootDirSector} \subseteq used
    /\ node \in [Sectors -> [isdir : BOOLEAN, ents : Seq(Entry)]]
    /\ oi \in [Sectors -> [cnt : Nat \ {0}, removed : BOOLEAN] \cup {NULL}]
    /\ cwd \in [Procs -> Ref]
    /\ fds \in [Procs -> [Fds -> [ino : Ref, dir : BOOLEAN, pos : Nat] \cup {NULL}]]
    /\ opening \in [Procs -> [fd : Fds, ino : Ref] \cup {NULL}]
    /\ halt \in {NULL, "ub"}

\* The references the processes hold to the inode at s: a working
\* directory, a descriptor's file and, for a directory, its dir, an open
\* call between its two steps, and free_map_open's for the free map.
Holders(s) ==
    LET cnt(S) == Cardinality(S)
    IN  (IF s = FreeMapSector THEN 1 ELSE 0)
      + cnt({p \in Procs : cwd[p] = s})
      + cnt({<<p, f>> \in Procs \X Fds : fds[p][f] # NULL /\ fds[p][f].ino = s})
      + cnt({<<p, f>> \in Procs \X Fds : fds[p][f] # NULL /\ fds[p][f].ino = s /\ fds[p][f].dir})
      + cnt({p \in Procs : opening[p] # NULL /\ opening[p].ino = s})

\* open_cnt counts exactly the references the processes hold: inode_open,
\* inode_reopen and inode_close in dir_open_path, dir_lookup, dir_add,
\* dir_remove, the filesys_* calls, chdir and the two steps of open
\* balance, so no inode is freed while a working directory or a
\* descriptor still points to it, and none stays open with no holder.
RefCountsExact ==
    /\ \A p \in Procs : cwd[p] # Dangling
    /\ \A p \in Procs, f \in Fds : fds[p][f] # NULL => fds[p][f].ino # Dangling
    /\ \A p \in Procs : opening[p] # NULL => opening[p].ino # Dangling
    /\ \A s \in Sectors : IF oi[s] = NULL THEN Holders(s) = 0 ELSE oi[s].cnt = Holders(s)

\* The directory tree as paths see it: an edge from each directory in use
\* to the inode of every entry in use after its parent entry whose name
\* dir_lookup passes to lookup (not "." or "..").
InUseEntries(s) == {k \in 2..Len(node[s].ents) : node[s].ents[k].inUse /\ node[s].ents[k].name \in Names}
DirSectors == {s \in used : node[s].isdir}
Tree == [node |-> Sectors,
         edge |-> UNION {{<<s, node[s].ents[k].sector>> : k \in InUseEntries(s)} : s \in DirSectors}]
Reachable == {RootDirSector} \cup Gr!Descendants(Tree, RootDirSector)

\* No inode has two names: dir_add refuses a name lookup finds, and
\* filesys_create gives each new file or directory a sector the free map
\* did not hand out before, so no two entries of the tree, and no entry
\* and the root, name the same inode.
OneNamePerInode ==
    \A s1, s2 \in DirSectors :
      \A k1 \in InUseEntries(s1), k2 \in InUseEntries(s2) :
        /\ node[s1].ents[k1].sector # RootDirSector
        /\ node[s1].ents[k1].sector = node[s2].ents[k2].sector => <<s1, k1>> = <<s2, k2>>

\* The free map holds exactly the free map, the root, the inodes the tree
\* names and the inodes still open: filesys_create releases the sector of
\* a failed create, and a removed inode's sector is released by the last
\* inode_close, not before (dir_remove, close, chdir).
NoLeak == used = {FreeMapSector, RootDirSector} \cup Reachable \cup {s \in Sectors : oi[s] # NULL}
=============================================================================
