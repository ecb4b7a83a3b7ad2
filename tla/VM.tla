--------------------------------- MODULE VM ---------------------------------
(***************************************************************************)
(* The virtual-memory layer of project 3 (src/p3/vm, src/p3/userprog):     *)
(* the global frame table and its two-pass eviction (frame.c), the         *)
(* per-process supplemental page table with lazy file and swap loads       *)
(* (page.c), the swap bitmap (swap.c), memory-mapped files (mmap.c and     *)
(* the mmap/munmap system calls), the page-fault dispatch of               *)
(* read_buf_page_fault_handler with its stack growth (syscall.c,           *)
(* stack_grow in page.c).  The user-mode page-fault handler lives in       *)
(* exception.c, which this tree does not contain; its dispatch is the      *)
(* spec's dispatch_fault (section 4.5) leading into the same loads.        *)
(*                                                                         *)
(* Each process has one kernel thread.  A thread's fault, eviction and     *)
(* unmap are split into the steps between which the single-core kernel     *)
(* can preempt it: every lock release, and every block or file I/O.        *)
(* Page contents are abstracted to "Z" (zeroed), "F" (the file's bytes)    *)
(* and "W" (bytes the process wrote).                                      *)
(***************************************************************************)
EXTENDS Integers, Sequences, SequencesExt, FiniteSets

CONSTANTS
    Procs,      \* processes (one thread each)
    Frames,     \* physical frames of the user pool
    NPages,     \* user virtual pages are 1..NPages
    NSlots,     \* swap slots are 0..NSlots-1
    ExecPages,  \* ExecPages[p]: pages of p's executable segments, loaded lazily
    FilePages,  \* length, in pages, of the file each process maps
    MaxMaps,    \* bound on mmap calls per process (mmap_num)
    MaxTicks,   \* bound on timer_ticks()
    StackPages, \* StackPages[p]: pages at or above p's user esp - 32
    PgSize,     \* PGSIZE, in bytes: page v holds addresses v*PgSize ..
    Reads,      \* <<buffer, length>> of the read system calls processes make
    Writes,     \* <<buffer, length>> of the write system calls
    NULL        \* the null pointer / absent value

ASSUME FilePages \in 1..NPages /\ NSlots \in Nat /\ MaxMaps \in Nat \ {0}
ASSUME ExecPages \in [Procs -> SUBSET (1..NPages)]
ASSUME StackPages \in [Procs -> SUBSET (1..NPages)]
ASSUME PgSize \in Nat \ {0} /\ Reads \cup Writes \subseteq Nat \X Nat

Pages == 1..NPages
Slots == 0..(NSlots - 1)
Vals  == {"Z", "F", "W"}

VARIABLES
    spt,        \* spt[p][v]: suppl_page_table_entry of page v, or NULL
    pd,         \* pd[p][v]: hardware PTE [frame, acc, dirty, present], or NULL
    ft,         \* frame_table: sequence of [frame, owner, page]
    freeFrames, \* frames free in the user pool (palloc)
    frameData,  \* contents of each frame
    swapUsed,   \* swap_bitmap: the used slots
    slotData,   \* contents of each swap slot
    fileData,   \* fileData[p][m][i]: page i of the file of p's mapping m
    mmaps,      \* mmap_list: set of [id, base]
    mmapNum,    \* mmap_num, the next mapping id
    mem,        \* ghost: the contents process p last stored at page v
    now,        \* timer_ticks()
    frameLock,  \* holder of frame_lock across do_evict_frame, or NULL
    pc,         \* program counter of each thread
    fpage,      \* page being faulted in
    fkind,      \* "file" or "swap": the load dispatched for it
    fframe,     \* frame obtained for it
    victim,     \* frame-table entry chosen for eviction (f_entry, first_begin_entry)
    cursor,     \* the eviction scan's list position (search)
    bestTs,     \* first_begin_time of find_longest_time_page
    umap,       \* mmap_entry being unmapped
    uidx,       \* page index within umap
    exiting,    \* TRUE while the thread unmaps as part of exit
    gf,         \* global_f: the process whose system call stored it last
    ua          \* the user buffer a read or write is working through, or NULL

vars == <<spt, pd, ft, freeFrames, frameData, swapUsed, slotData, fileData,
          mmaps, mmapNum, mem, now, frameLock, pc, fpage, fkind, fframe,
          victim, cursor, bestTs, umap, uidx, exiting, gf, ua>>
\* The eviction scan's locals.
scanVars == <<victim, cursor, bestTs>>
\* A thread's fault, global_f, which only a system call entry sets, and
\* the buffer of the system call the fault serves.
faultVars == <<fpage, fkind, fframe, scanVars, gf, ua>>
unmapVars == <<umap, uidx, exiting>>

MapIds == 0..(MaxMaps - 1)
Desc  == [type : {"file", "mmap", "swap"}, free : BOOLEAN, slot : Slots \cup {NULL},
          file : MapIds, ofs : 0..(FilePages - 1), ts : 0..MaxTicks,
          hashed : BOOLEAN]
Pte   == [frame : Frames, acc : BOOLEAN, dirty : BOOLEAN, present : BOOLEAN]
Entry == [frame : Frames, owner : Procs, page : Pages]

\* A thread whose kernel code touched a user page that is not present,
\* holding file_lock: a system call's copy of its buffer, or the
\* file_write_at of a write-back.  What follows is up to the kernel's
\* page_fault (exception.c, not part of this tree), and either way it is a
\* PANIC: one for a fault in kernel mode, or the failed ASSERT of a
\* page_load_file that acquires the file_lock its own thread holds.
KFault == "kfault"
\* States in which the kernel has stopped: a PANIC or a failed ASSERT.
PanicStates == {"swap_full", "null_frame", "double_free", KFault}
\* A thread that dereferenced a frame-table entry already freed ("ub"), or
\* used a descriptor whose fields stack_grow has not set yet ("uninit").
UBStates == {"ub", "uninit"}

\* pagedir_get_page finds a frame only through a present PTE, while
\* pagedir_is_accessed and pagedir_is_dirty test the A and D bits of any
\* PTE: pagedir_clear_page clears PTE_P alone, so a page cleared since it
\* was last installed keeps the bits it had.
Mapped(p, v)   == pd[p][v] # NULL /\ pd[p][v].present
Accessed(p, v) == pd[p][v] # NULL /\ pd[p][v].acc
Dirty(p, v)    == pd[p][v] # NULL /\ pd[p][v].dirty

\* pagedir_clear_page (pd, v): a present PTE loses PTE_P.
ClearPage(pdp, v) == IF pdp[v] # NULL THEN [pdp EXCEPT ![v].present = FALSE] ELSE pdp

\* pagedir_set_page, through install_page: a fresh PTE, A and D clear.
FreshPte(f) == [frame |-> f, acc |-> FALSE, dirty |-> FALSE, present |-> TRUE]
\* page_hash_find: a descriptor that hash_delete has removed stays allocated
\* (free_mmap_entry never frees it) but is no longer found.
InTable(p, v)  == spt[p][v] # NULL /\ spt[p][v].hashed

Goto(p, to) == pc' = [pc EXCEPT ![p] = to]

\* Where a fault handler returns to: user mode, or the check_read_buffer
\* loop of the system call that called it.
Resume(p) == IF ua[p] = NULL THEN "idle" ELSE "uaccess"

\* The bytes file_read_at gives for descriptor d of p: the executable's
\* segments never change, a mapped file holds what was last written to it.
FileBytes(p, d) == IF d.type = "file" THEN "F" ELSE fileData[p][d.file][d.ofs]

\* first_begin_time's initial INT64_MAX: above every timestamp.
NoTime == MaxTicks + 1

Panicked == \E p \in Procs : pc[p] \in PanicStates

\* Thread p is at label l and may run: after a PANIC nothing runs.
At(p, l) == ~Panicked /\ pc[p] = l

-----------------------------------------------------------------------------
(* Swap store (swap.c).                                                    *)

\* Mutant: the scan ignores the bitmap and always returns slot 0.
FreeSlotIgnoringBitmap == IF Slots = {} THEN NULL ELSE 0

\* bitmap_scan_and_flip (swap, 0, 1, false): the lowest free slot.
FreeSlot == IF Slots \ swapUsed = {} THEN NULL
            ELSE CHOOSE s \in Slots \ swapUsed : \A t \in Slots \ swapUsed : s <= t

\* swap_in's bitmap_flip of slot s.
FlipSlot(s) == IF s \in swapUsed THEN swapUsed \ {s} ELSE swapUsed \cup {s}

-----------------------------------------------------------------------------
(* Page-fault dispatch (read_buf_page_fault_handler).                      *)

\* A user-mode fault on an unmapped page with a descriptor: dispatch on its
\* type.  The handler is exception.c's, outside this tree; it does not
\* store global_f, which only a system call entry does.
Fault(p, v) ==
    /\ At(p, "idle")
    /\ ~Mapped(p, v)
    /\ InTable(p, v)
    /\ fpage' = [fpage EXCEPT ![p] = v]
    /\ fkind' = [fkind EXCEPT ![p] = IF spt[p][v].type = "swap" THEN "swap" ELSE "file"]
    /\ Goto(p, "palloc")
    /\ UNCHANGED <<spt, pd, ft, freeFrames, frameData, swapUsed, slotData,
                   fileData, mmaps, mmapNum, mem, now, frameLock, fframe,
                   scanVars, gf, umap, uidx, exiting, ua>>

\* A user-mode fault on an unmapped page without a descriptor: the
\* stack-growth test follows.
FaultNoDesc(p, v) ==
    /\ At(p, "idle")
    /\ ~Mapped(p, v)
    /\ ~InTable(p, v)
    /\ fpage' = [fpage EXCEPT ![p] = v]
    /\ Goto(p, "stack_check")
    /\ UNCHANGED <<spt, pd, ft, freeFrames, frameData, swapUsed, slotData,
                   fileData, mmaps, mmapNum, mem, now, frameLock, fkind, fframe,
                   scanVars, gf, unmapVars, ua>>

\* The stack-growth test.  For a user fault it compares with the faulting
\* thread's own esp (the spec's faulting_stack_pointer).  In
\* read_buf_page_fault_handler it is fault_addr >= global_f->esp - 32, read
\* through the interrupt frame of the thread that entered a system call
\* last; a thread that has exited has freed its kernel stack, and the frame
\* with it, so its esp is garbage and the test may go either way.
NearStack(p) ==
    IF ua[p] = NULL THEN fpage[p] \in StackPages[p]
    ELSE fpage[p] \in StackPages[gf] \/ pc[gf] = "dead"
FarStack(p) ==
    IF ua[p] = NULL THEN fpage[p] \notin StackPages[p]
    ELSE fpage[p] \notin StackPages[gf] \/ pc[gf] = "dead"

\* Near the stack: stack_grow asks vm_get_frame for a frame on behalf of a
\* descriptor it has only malloc'ed.  Otherwise exit (-1).
StackCheck(p) ==
    /\ At(p, "stack_check")
    /\ \/ /\ NearStack(p)
          /\ fkind' = [fkind EXCEPT ![p] = "stack"]
          /\ Goto(p, "palloc")
          /\ UNCHANGED exiting
       \/ /\ FarStack(p)
          /\ exiting' = [exiting EXCEPT ![p] = TRUE]
          /\ Goto(p, "exit_unmap")
          /\ UNCHANGED fkind
    /\ UNCHANGED <<spt, pd, ft, freeFrames, frameData, swapUsed, slotData,
                   fileData, mmaps, mmapNum, mem, now, frameLock, fpage, fframe,
                   scanVars, gf, umap, uidx, ua>>

-----------------------------------------------------------------------------
(* Frame table (frame.c).                                                  *)

\* The end of the frame table (list_end), and a pointer to a frame-table
\* entry that free () has released.
End   == [at |-> "end"]
Freed == [at |-> "freed"]

\* free () of frame-table entries: a victim or scan position another thread
\* still holds dangles from now on.
Dangle(x, gone) == IF x \in gone THEN Freed ELSE x
Forget(gone) ==
    /\ victim' = [q \in Procs |-> Dangle(victim[q], gone)]
    /\ cursor' = [q \in Procs |-> Dangle(cursor[q], gone)]

\* A frame-table entry whose descriptor stack_grow has malloc'ed but not
\* yet filled in: its owner is between vm_get_frame and the field stores.
Uninit(e) == /\ pc[e.owner] = "load"
             /\ fkind[e.owner] = "stack"
             /\ fpage[e.owner] = e.page

\* vm_get_frame: palloc_get_page succeeds.
PallocGet(p) ==
    /\ At(p, "palloc")
    /\ \E f \in freeFrames :
          /\ freeFrames' = freeFrames \ {f}
          /\ fframe' = [fframe EXCEPT ![p] = f]
    /\ Goto(p, "push")
    /\ UNCHANGED <<spt, pd, ft, frameData, swapUsed, slotData, fileData, mmaps,
                   mmapNum, mem, now, frameLock, fpage, fkind, scanVars, gf,
                   unmapVars, ua>>

\* list_begin (&frame_table).
ListBegin == IF ft = <<>> THEN End ELSE ft[1]

NextEntry(e) ==
    LET i == SelectInSeq(ft, LAMBDA x : x = e)
    IN IF i = Len(ft) THEN End ELSE ft[i + 1]

\* vm_get_frame: the pool is empty, so try_evict_frame, whose
\* find_unaccessed_page starts at the head of the frame table.
PallocEmpty(p) ==
    /\ At(p, "palloc")
    /\ freeFrames = {}
    /\ cursor' = [cursor EXCEPT ![p] = ListBegin]
    /\ Goto(p, "scan1")
    /\ UNCHANGED <<spt, pd, ft, freeFrames, frameData, swapUsed, slotData,
                   fileData, mmaps, mmapNum, mem, now, frameLock, fpage, fkind,
                   fframe, victim, bestTs, gf, ua, unmapVars>>

\* vm_get_frame: list_push_front of the new entry under frame_lock.
PushEntry(p) ==
    /\ At(p, "push")
    /\ frameLock = NULL
    /\ ft' = Cons([frame |-> fframe[p], owner |-> p, page |-> fpage[p]], ft)
    /\ Goto(p, "load")
    /\ UNCHANGED <<spt, pd, freeFrames, frameData, swapUsed, slotData, fileData,
                   mmaps, mmapNum, mem, now, frameLock, faultVars, unmapVars>>

\* One iteration of an eviction scan, under frame_lock, reads the entry at
\* the scan position and its descriptor (spte->addr, spte->timestamp).  An
\* entry freed since the previous iteration released the lock is a read of
\* freed memory; one whose descriptor stack_grow has not filled in yet is
\* a read of uninitialised memory.
ScanFault(p, e) ==
    \/ /\ e = Freed
       /\ Goto(p, "ub")
    \/ /\ e # Freed /\ Uninit(e)
       /\ Goto(p, "uninit")
ScanReads(e) == e # Freed /\ ~Uninit(e)

\* find_unaccessed_page, one iteration of its loop: the entry whose page is
\* not accessed in the CURRENT thread's page directory is returned (with
\* frame_lock released, despite the comment); an accessed one has its
\* timestamp refreshed.  At the end of the list find_longest_time_page
\* starts from the head again.
FindUnaccessed(p) ==
    LET e == cursor[p] IN
    /\ At(p, "scan1")
    /\ \/ /\ e = End
          /\ cursor' = [cursor EXCEPT ![p] = ListBegin]
          /\ victim' = [victim EXCEPT ![p] = NULL]
          /\ bestTs' = [bestTs EXCEPT ![p] = NoTime]
          /\ Goto(p, "scan2")
          /\ UNCHANGED spt
       \/ /\ e # End
          /\ frameLock = NULL
          /\ ScanFault(p, e)
          /\ UNCHANGED <<spt, scanVars>>
       \/ /\ e # End
          /\ frameLock = NULL
          /\ ScanReads(e)
          /\ ~Accessed(p, e.page)
          /\ victim' = [victim EXCEPT ![p] = e]
          /\ Goto(p, "evict_wb")
          /\ UNCHANGED <<spt, cursor, bestTs>>
       \/ /\ e # End
          /\ frameLock = NULL
          /\ ScanReads(e)
          /\ Accessed(p, e.page)
          /\ spt' = [spt EXCEPT ![e.owner][e.page].ts = now]
          /\ cursor' = [cursor EXCEPT ![p] = NextEntry(e)]
          /\ UNCHANGED <<pc, victim, bestTs>>
    /\ UNCHANGED <<pd, ft, freeFrames, frameData, swapUsed, slotData, fileData,
                   mmaps, mmapNum, mem, now, frameLock, fpage, fkind, fframe,
                   gf, ua, unmapVars>>

\* find_longest_time_page, one iteration: keep the first entry of least
\* timestamp seen so far.  At the end of the list, try_evict_frame evicts
\* it; with none (the list was empty), vm_get_frame returns NULL:
\* stack_grow then fails and the thread exits, while page_load_file's
\* ASSERT fails.
FindLongestTime(p) ==
    LET e == cursor[p] IN
    /\ At(p, "scan2")
    /\ \/ /\ e = End
          /\ victim[p] # NULL
          /\ Goto(p, "evict_wb")
          /\ UNCHANGED <<scanVars, exiting>>
       \/ /\ e = End
          /\ victim[p] = NULL
          /\ IF fkind[p] = "stack"
             THEN /\ exiting' = [exiting EXCEPT ![p] = TRUE]
                  /\ Goto(p, "exit_unmap")
             ELSE /\ Goto(p, "null_frame")
                  /\ UNCHANGED exiting
          /\ UNCHANGED scanVars
       \/ /\ e # End
          /\ frameLock = NULL
          /\ ScanFault(p, e)
          /\ UNCHANGED <<scanVars, exiting>>
       \/ /\ e # End
          /\ frameLock = NULL
          /\ ScanReads(e)
          /\ LET t == spt[e.owner][e.page].ts IN
                IF t < bestTs[p]
                THEN /\ victim' = [victim EXCEPT ![p] = e]
                     /\ bestTs' = [bestTs EXCEPT ![p] = t]
                ELSE UNCHANGED <<victim, bestTs>>
          /\ cursor' = [cursor EXCEPT ![p] = NextEntry(e)]
          /\ UNCHANGED <<pc, exiting>>
    /\ UNCHANGED <<spt, pd, ft, freeFrames, frameData, swapUsed, slotData,
                   fileData, mmaps, mmapNum, mem, now, frameLock, fpage, fkind,
                   fframe, gf, ua, umap, uidx>>

\* do_evict_frame, up to the end of the write-out, under frame_lock.  It
\* first takes the requesting descriptor's spte_lock, which for stack_grow
\* has never been through lock_init: the build may crash on the garbage
\* semaphore or go on.  A page dirty in the CURRENT page directory and of
\* type mmap is written to its file from the current address space, where
\* the page may not be present (its D bit is stale): file_write_at then
\* faults in the kernel.  Any other page is retyped to swap and written to
\* a fresh slot by swap_out.
EvictWriteOut(p) ==
    /\ At(p, "evict_wb")
    /\ frameLock = NULL
    /\ LET e == victim[p]
           d == spt[e.owner][e.page]
       IN \/ /\ fkind[p] = "stack"
             /\ Goto(p, "uninit")
             /\ UNCHANGED <<spt, swapUsed, slotData, fileData, frameLock>>
          \/ /\ e = Freed
             /\ Goto(p, "ub")
             /\ UNCHANGED <<spt, swapUsed, slotData, fileData, frameLock>>
          \/ /\ e # Freed
             /\ Dirty(p, e.page) /\ d.type = "mmap"
             /\ ~Mapped(p, e.page)
             /\ frameLock' = p
             /\ Goto(p, KFault)
             /\ UNCHANGED <<spt, swapUsed, slotData, fileData>>
          \/ /\ e # Freed
             /\ Dirty(p, e.page) /\ d.type = "mmap"
             /\ Mapped(p, e.page)
             /\ fileData' = [fileData EXCEPT ![e.owner][d.file][d.ofs] =
                                frameData[pd[p][e.page].frame]]
             /\ frameLock' = p
             /\ Goto(p, "evict_clear")
             /\ UNCHANGED <<spt, swapUsed, slotData>>
          \/ /\ e # Freed
             /\ ~(Dirty(p, e.page) /\ d.type = "mmap")
             /\ FreeSlot # NULL
             /\ swapUsed' = swapUsed \cup {FreeSlot}
             /\ slotData' = [slotData EXCEPT ![FreeSlot] = frameData[e.frame]]
             /\ spt' = [spt EXCEPT ![e.owner][e.page] =
                           [d EXCEPT !.type = "swap", !.slot = FreeSlot]]
             /\ frameLock' = p
             /\ Goto(p, "evict_clear")
             /\ UNCHANGED fileData
          \/ /\ e # Freed
             /\ ~(Dirty(p, e.page) /\ d.type = "mmap")
             /\ FreeSlot = NULL
             /\ Goto(p, "swap_full")
             /\ UNCHANGED <<spt, swapUsed, slotData, fileData, frameLock>>
    /\ UNCHANGED <<pd, ft, freeFrames, frameData, mmaps, mmapNum, mem, now,
                   faultVars, unmapVars>>

\* do_evict_frame, the rest: clear the owner's mapping, zero the frame,
\* replace the victim's entry by one for the requesting page (list_push_back)
\* and release frame_lock.  The victim's descriptor keeps free = false.
EvictClear(p) ==
    /\ At(p, "evict_clear")
    /\ LET e == victim[p] IN
          /\ pd' = [pd EXCEPT ![e.owner] = ClearPage(@, e.page)]
          /\ frameData' = [frameData EXCEPT ![e.frame] = "Z"]
          /\ ft' = Append(RemoveFirst(ft, e),
                          [frame |-> e.frame, owner |-> p, page |-> fpage[p]])
          /\ fframe' = [fframe EXCEPT ![p] = e.frame]
          /\ Forget({e})
    /\ frameLock' = NULL
    /\ Goto(p, "load")
    /\ UNCHANGED <<spt, freeFrames, swapUsed, slotData, fileData, mmaps,
                   mmapNum, mem, now, fpage, fkind, bestTs, gf, unmapVars, ua>>

-----------------------------------------------------------------------------
(* Supplemental page table loads (page.c).                                 *)

\* Mutant: the file is not read, the frame keeps what it held.
LoadFileSkipsRead(p) ==
    /\ At(p, "load")
    /\ fkind[p] = "file"
    /\ Goto(p, "install")
    /\ UNCHANGED <<spt, pd, ft, freeFrames, frameData, swapUsed, slotData,
                   fileData, mmaps, mmapNum, mem, now, frameLock, faultVars,
                   unmapVars>>

\* page_load_file: file_read_at of the page's bytes into the frame.
LoadFile(p) ==
    /\ At(p, "load")
    /\ fkind[p] = "file"
    /\ frameData' = [frameData EXCEPT ![fframe[p]] = FileBytes(p, spt[p][fpage[p]])]
    /\ Goto(p, "install")
    /\ UNCHANGED <<spt, pd, ft, freeFrames, swapUsed, slotData, fileData, mmaps,
                   mmapNum, mem, now, frameLock, faultVars, unmapVars>>

\* page_load_swap: swap_in reads the slot named by the descriptor now and
\* flips its bit (frees it).
LoadSwap(p) ==
    /\ At(p, "load")
    /\ fkind[p] = "swap"
    /\ LET s == spt[p][fpage[p]].slot IN
          /\ frameData' = [frameData EXCEPT ![fframe[p]] = slotData[s]]
          /\ swapUsed' = FlipSlot(s)
    /\ Goto(p, "install")
    /\ UNCHANGED <<spt, pd, ft, freeFrames, slotData, fileData, mmaps, mmapNum,
                   mem, now, frameLock, faultVars, unmapVars>>

\* install_page and spte->free = false, common to both loads.
Install(p) ==
    /\ At(p, "install")
    /\ pd' = [pd EXCEPT ![p][fpage[p]] = FreshPte(fframe[p])]
    /\ spt' = [spt EXCEPT ![p][fpage[p]].free = FALSE]
    /\ Goto(p, Resume(p))
    /\ UNCHANGED <<ft, freeFrames, frameData, swapUsed, slotData, fileData,
                   mmaps, mmapNum, mem, now, frameLock, faultVars, unmapVars>>

\* stack_grow once vm_get_frame has returned: the descriptor's fields are
\* set (not free, type swap, stamped with timer_ticks ()), install_page
\* maps the frame and hash_insert enters the descriptor.  file and offset
\* are never set; a swap page never reads them.  The frame is not zeroed:
\* the process finds whatever it holds.
StackInstall(p) ==
    /\ At(p, "load")
    /\ fkind[p] = "stack"
    /\ LET v == fpage[p] IN
          /\ spt' = [spt EXCEPT ![p][v] = [type |-> "swap", free |-> FALSE,
                        slot |-> NULL, file |-> 0, ofs |-> 0, ts |-> now,
                        hashed |-> TRUE]]
          /\ pd' = [pd EXCEPT ![p][v] = FreshPte(fframe[p])]
          /\ mem' = [mem EXCEPT ![p][v] = frameData[fframe[p]]]
    /\ Goto(p, Resume(p))
    /\ UNCHANGED <<ft, freeFrames, frameData, swapUsed, slotData, fileData,
                   mmaps, mmapNum, now, frameLock, faultVars, unmapVars>>

-----------------------------------------------------------------------------
(* Memory-mapped files (syscall.c mmap/munmap, mmap.c).                    *)

\* Mutant: the offset of page v counted from the page after a.
LazyDescOffByOne(p, a, v) ==
    [type |-> "mmap", free |-> TRUE, slot |-> NULL, file |-> mmapNum[p],
     ofs |-> v - a + 1, ts |-> now, hashed |-> TRUE]

\* page_lazy_load: the descriptor of page v of a file mapped at a, not yet
\* loaded (free), stamped with timer_ticks ().
LazyDesc(p, a, v) ==
    [type |-> "mmap", free |-> TRUE, slot |-> NULL, file |-> mmapNum[p],
     ofs |-> v - a, ts |-> now, hashed |-> TRUE]

\* mmap (fd, a): the whole file, FilePages pages from a, must be free of
\* descriptors and mappings; page_lazy_load registers one lazy mmap
\* descriptor per page.
Mmap(p, a) ==
    LET span == a..(a + FilePages - 1) IN
    /\ At(p, "idle")
    /\ mmapNum[p] < MaxMaps
    /\ a + FilePages - 1 <= NPages
    /\ \A v \in span : ~InTable(p, v) /\ ~Mapped(p, v)
    /\ spt' = [spt EXCEPT ![p] = [v \in Pages |->
                 IF v \in span THEN LazyDesc(p, a, v) ELSE spt[p][v]]]
    /\ mem' = [mem EXCEPT ![p] = [v \in Pages |->
                 IF v \in span THEN fileData[p][mmapNum[p]][v - a] ELSE mem[p][v]]]
    /\ mmaps' = [mmaps EXCEPT ![p] = @ \cup {[id |-> mmapNum[p], base |-> a]}]
    /\ mmapNum' = [mmapNum EXCEPT ![p] = @ + 1]
    /\ gf' = p
    /\ UNCHANGED <<pd, ft, freeFrames, frameData, swapUsed, slotData, fileData,
                   now, frameLock, pc, fpage, fkind, fframe, scanVars, unmapVars, ua>>

\* munmap (id): the entry with that id starts free_mmap_entry.
Munmap(p, m) ==
    /\ At(p, "idle")
    /\ m \in mmaps[p]
    /\ umap' = [umap EXCEPT ![p] = m]
    /\ uidx' = [uidx EXCEPT ![p] = 0]
    /\ gf' = p
    /\ Goto(p, "unmap_wb")
    /\ UNCHANGED <<spt, pd, ft, freeFrames, frameData, swapUsed, slotData,
                   fileData, mmaps, mmapNum, mem, now, frameLock, fpage, fkind,
                   fframe, scanVars, exiting, ua>>

UPage(p) == umap[p].base + uidx[p]

\* The loop of free_mmap_entry moves to the next page; after the last one
\* the file is closed and the entry leaves mmap_list.
AdvanceUnmap(p) ==
    IF uidx[p] + 1 < FilePages
    THEN /\ uidx' = [uidx EXCEPT ![p] = @ + 1]
         /\ Goto(p, "unmap_wb")
         /\ UNCHANGED <<mmaps, umap>>
    ELSE /\ mmaps' = [mmaps EXCEPT ![p] = @ \ {umap[p]}]
         /\ umap' = [umap EXCEPT ![p] = NULL]
         /\ Goto(p, IF exiting[p] THEN "exit_unmap" ELSE "idle")
         /\ UNCHANGED uidx

\* free_mmap_entry, first half of an iteration: a page dirty in the page
\* directory is written to the file from its user address.  A page evicted
\* since it was written keeps its stale D bit while not present, and
\* file_write_at faults in the kernel under file_lock.  The skip of a page without descriptor
\* cannot happen (mmap registered every page of the mapping, and only this
\* loop unlinks them), so finding one is a guard: were it reachable, the
\* thread would block here and TLC would report a deadlock.
UnmapWriteBack(p) ==
    /\ At(p, "unmap_wb")
    /\ LET v == UPage(p)
           d == spt[p][v]
       IN /\ InTable(p, v)
          /\ \/ /\ Dirty(p, v) /\ Mapped(p, v)
                /\ fileData' = [fileData EXCEPT ![p][d.file][d.ofs] = frameData[pd[p][v].frame]]
                /\ Goto(p, "unmap_free")
             \/ /\ Dirty(p, v) /\ ~Mapped(p, v)
                /\ Goto(p, KFault)
                /\ UNCHANGED fileData
             \/ /\ ~Dirty(p, v)
                /\ Goto(p, "unmap_free")
                /\ UNCHANGED fileData
    /\ UNCHANGED <<spt, pd, ft, freeFrames, frameData, swapUsed, slotData,
                   mmaps, mmapNum, mem, now, frameLock, faultVars, unmapVars>>

\* free_mmap_entry, second half: if free is false, vm_free_frame of the
\* frame the page directory maps (removing the first entry with that frame
\* and freeing it) and pagedir_clear_page; then hash_delete, which unlinks
\* the descriptor without freeing it.  A swap slot the descriptor holds is
\* not released.
UnmapFree(p) ==
    /\ At(p, "unmap_free")
    /\ LET v == UPage(p)
           d == spt[p][v]
           f == pd[p][v].frame
           i == SelectInSeq(ft, LAMBDA e : e.frame = f)
       IN \/ /\ ~d.free /\ Mapped(p, v)
             /\ frameLock = NULL
             /\ i # 0 /\ f \in freeFrames
             /\ Goto(p, "double_free")
             /\ UNCHANGED <<spt, pd, ft, freeFrames, mmaps, victim, cursor, umap, uidx>>
          \/ /\ ~d.free /\ Mapped(p, v)
             /\ frameLock = NULL
             /\ ~(i # 0 /\ f \in freeFrames)
             /\ ft' = IF i # 0 THEN RemoveAt(ft, i) ELSE ft
             /\ Forget(IF i # 0 THEN {ft[i]} ELSE {})
             /\ freeFrames' = IF i # 0 THEN freeFrames \cup {f} ELSE freeFrames
             /\ pd' = [pd EXCEPT ![p] = ClearPage(@, v)]
             /\ spt' = [spt EXCEPT ![p][v].hashed = FALSE]
             /\ AdvanceUnmap(p)
          \/ /\ ~(~d.free /\ Mapped(p, v))
             /\ spt' = [spt EXCEPT ![p][v].hashed = FALSE]
             /\ AdvanceUnmap(p)
             /\ UNCHANGED <<pd, ft, freeFrames, victim, cursor>>
    /\ UNCHANGED <<frameData, swapUsed, slotData, fileData, mmapNum, mem, now,
                   frameLock, fpage, fkind, fframe, bestTs, gf, exiting, ua>>

-----------------------------------------------------------------------------
(* Process exit.                                                           *)

\* exit: the thread starts tearing its process down.
Exit(p) ==
    /\ At(p, "idle")
    /\ exiting' = [exiting EXCEPT ![p] = TRUE]
    /\ gf' = p
    /\ Goto(p, "exit_unmap")
    /\ UNCHANGED <<spt, pd, ft, freeFrames, frameData, swapUsed, slotData,
                   fileData, mmaps, mmapNum, mem, now, frameLock, fpage, fkind,
                   fframe, scanVars, umap, uidx, ua>>

\* free_mmap_list: munmap the first mapping of mmap_list until it is empty.
ExitUnmap(p) ==
    /\ At(p, "exit_unmap")
    /\ \/ /\ mmaps[p] # {}
          /\ \E m \in mmaps[p] :
                /\ \A n \in mmaps[p] : m.id <= n.id
                /\ umap' = [umap EXCEPT ![p] = m]
          /\ uidx' = [uidx EXCEPT ![p] = 0]
          /\ Goto(p, "unmap_wb")
       \/ /\ mmaps[p] = {}
          /\ Goto(p, "exit_clean")
          /\ UNCHANGED <<umap, uidx>>
    /\ UNCHANGED <<spt, pd, ft, freeFrames, frameData, swapUsed, slotData,
                   fileData, mmaps, mmapNum, mem, now, frameLock, faultVars,
                   exiting>>

\* vm_clear_process_frame_table: the process's entries leave the frame
\* table (under frame_lock) and are freed; their frames are not.
ClearProcessFrameTable(p) == SelectSeq(ft, LAMBDA e : e.owner # p)

\* free_suppl_page_table: hash_destroy frees the descriptors still in the
\* table (not their swap slots); those munmap unlinked stay allocated.
FreeSupplPageTable(p) == [v \in Pages |-> IF InTable(p, v) THEN NULL ELSE spt[p][v]]

\* The teardown of process_exit (process.c, not in the tree; the spec's
\* release_process_frames): the two calls above, then pagedir_destroy
\* palloc_frees every frame a present PTE maps; freeing a frame twice
\* fails palloc's ASSERT.
ExitClean(p) ==
    LET held      == {v \in Pages : Mapped(p, v)}
        heldFrames == {pd[p][v].frame : v \in held}
        twice     == \/ heldFrames \cap freeFrames # {}
                     \/ \E v, w \in held : v # w /\ pd[p][v].frame = pd[p][w].frame
    IN
    /\ At(p, "exit_clean")
    /\ frameLock = NULL
    /\ \/ /\ twice
          /\ Goto(p, "double_free")
          /\ UNCHANGED <<spt, pd, ft, freeFrames, victim, cursor>>
       \/ /\ ~twice
          /\ ft' = ClearProcessFrameTable(p)
          /\ Forget({e \in ToSet(ft) : e.owner = p})
          /\ spt' = [spt EXCEPT ![p] = FreeSupplPageTable(p)]
          /\ pd' = [pd EXCEPT ![p] = [v \in Pages |-> NULL]]
          /\ freeFrames' = freeFrames \cup heldFrames
          /\ Goto(p, "dead")
    /\ UNCHANGED <<frameData, swapUsed, slotData, fileData, mmaps, mmapNum, mem,
                   now, frameLock, fpage, fkind, fframe, bestTs, gf, unmapVars, ua>>

-----------------------------------------------------------------------------
(* The process's own accesses (the MMU sets the accessed and dirty bits)   *)
(* and the timer.                                                          *)

UserRead(p, v) ==
    /\ At(p, "idle")
    /\ Mapped(p, v)
    /\ pd' = [pd EXCEPT ![p][v].acc = TRUE]
    /\ UNCHANGED <<spt, ft, freeFrames, frameData, swapUsed, slotData, fileData,
                   mmaps, mmapNum, mem, now, frameLock, pc, faultVars, unmapVars>>

UserWrite(p, v) ==
    /\ At(p, "idle")
    /\ Mapped(p, v)
    /\ pd' = [pd EXCEPT ![p][v].acc = TRUE, ![p][v].dirty = TRUE]
    /\ frameData' = [frameData EXCEPT ![pd[p][v].frame] = "W"]
    /\ mem' = [mem EXCEPT ![p][v] = "W"]
    /\ UNCHANGED <<spt, ft, freeFrames, swapUsed, slotData, fileData, mmaps,
                   mmapNum, now, frameLock, pc, faultVars, unmapVars>>

\* Any other system call (open, exec, wait, ..., and a read or write that
\* returns before touching its buffer: read of fd 1, write of fd 0): its
\* entry stores the caller's interrupt frame in global_f; its file-system
\* and process effects do not touch the VM state.
Syscall(p) ==
    /\ At(p, "idle")
    /\ gf' = p
    /\ UNCHANGED <<spt, pd, ft, freeFrames, frameData, swapUsed, slotData,
                   fileData, mmaps, mmapNum, mem, now, frameLock, pc, fpage,
                   fkind, fframe, scanVars, unmapVars, ua>>

-----------------------------------------------------------------------------
(* The read and write system calls, as far as they touch user memory       *)
(* (syscall.c).  A buffer is <<address, length>> in bytes.                 *)

\* The page of byte address a (pg_no); is_user_vaddr holds for Pages only.
Pg(a) == a \div PgSize

\* The pages check_read_buffer hands to read_buf_page_fault_handler: for a
\* length under PGSIZE the buffer's first byte and the byte at buffer +
\* length; otherwise page_count = length / PGSIZE rounded up, and the
\* loop runs i = 0 .. page_count from pg_round_down (buffer).
CheckPages(b) ==
    LET a == b[1]  n == b[2]
        cnt == IF n % PgSize = 0 THEN n \div PgSize ELSE n \div PgSize + 1
    IN IF n < PgSize THEN <<Pg(a), Pg(a + n)>>
       ELSE [i \in 1..(cnt + 1) |-> Pg(a) + i - 1]

\* The pages holding the bytes buffer .. buffer + length - 1, in order.
BufPages(b) ==
    IF b[2] = 0 THEN <<>>
    ELSE [i \in 1..(Pg(b[1] + b[2] - 1) - Pg(b[1]) + 1) |-> Pg(b[1]) + i - 1]

\* validate_addr: each of the four bytes at a is a user address whose page
\* pagedir_get_page finds mapped.
ValidAddr(p, a) == \A i \in 0..3 : Pg(a + i) \in Pages /\ Mapped(p, Pg(a + i))

\* The part of the buffer the call copies: all of it, or a prefix when
\* file_read or file_write stops at the end of the file, or none when the
\* descriptor is not open.
Copied(b) == {SubSeq(BufPages(b), 1, k) : k \in 0..Len(BufPages(b))}

\* read: syscall_handler stores global_f; read calls check_read_buffer,
\* then file_read (or input_getc) stores into the buffer under file_lock.
SysRead(p, b) ==
    /\ At(p, "idle")
    /\ gf' = p
    /\ \E c \in Copied(b) : ua' = [ua EXCEPT ![p] = [check |-> CheckPages(b), copy |-> c,
                                                    store |-> TRUE]]
    /\ Goto(p, "uaccess")
    /\ UNCHANGED <<spt, pd, ft, freeFrames, frameData, swapUsed, slotData,
                   fileData, mmaps, mmapNum, mem, now, frameLock, fpage, fkind,
                   fframe, scanVars, unmapVars>>

\* write: validate_addr (buffer), exit (-1) when it fails; then putbuf or
\* file_write reads the buffer under file_lock.
SysWrite(p, b) ==
    /\ At(p, "idle")
    /\ gf' = p
    /\ \/ /\ ValidAddr(p, b[1])
          /\ \E c \in Copied(b) : ua' = [ua EXCEPT ![p] = [check |-> <<>>, copy |-> c,
                                                          store |-> FALSE]]
          /\ Goto(p, "uaccess")
          /\ UNCHANGED exiting
       \/ /\ ~ValidAddr(p, b[1])
          /\ exiting' = [exiting EXCEPT ![p] = TRUE]
          /\ Goto(p, "exit_unmap")
          /\ UNCHANGED ua
    /\ UNCHANGED <<spt, pd, ft, freeFrames, frameData, swapUsed, slotData,
                   fileData, mmaps, mmapNum, mem, now, frameLock, fpage, fkind,
                   fframe, scanVars, umap, uidx>>

\* One call of read_buf_page_fault_handler from check_read_buffer: exit (-1)
\* for a kernel address; nothing for a mapped page; otherwise the file or
\* swap load of the page's descriptor, or the stack-growth test.
ReadCheck(p) ==
    LET v == Head(ua[p].check) IN
    /\ At(p, "uaccess")
    /\ ua[p].check # <<>>
    /\ ua' = [ua EXCEPT ![p].check = Tail(ua[p].check)]
    /\ \/ /\ v \notin Pages
          /\ exiting' = [exiting EXCEPT ![p] = TRUE]
          /\ Goto(p, "exit_unmap")
          /\ UNCHANGED <<fpage, fkind>>
       \/ /\ v \in Pages /\ Mapped(p, v)
          /\ UNCHANGED <<pc, fpage, fkind, exiting>>
       \/ /\ v \in Pages /\ ~Mapped(p, v) /\ InTable(p, v)
          /\ fpage' = [fpage EXCEPT ![p] = v]
          /\ fkind' = [fkind EXCEPT ![p] = IF spt[p][v].type = "swap" THEN "swap" ELSE "file"]
          /\ Goto(p, "palloc")
          /\ UNCHANGED exiting
       \/ /\ v \in Pages /\ ~Mapped(p, v) /\ ~InTable(p, v)
          /\ fpage' = [fpage EXCEPT ![p] = v]
          /\ Goto(p, "stack_check")
          /\ UNCHANGED <<fkind, exiting>>
    /\ UNCHANGED <<spt, pd, ft, freeFrames, frameData, swapUsed, slotData,
                   fileData, mmaps, mmapNum, mem, now, frameLock, fframe,
                   scanVars, gf, umap, uidx>>

\* The copy reaches the next page of the buffer: a store (read) or a load
\* (write) through the user mapping, which sets its accessed and dirty
\* bits; a page that is not mapped faults in the kernel.
UserCopy(p) ==
    LET v == Head(ua[p].copy) IN
    /\ At(p, "uaccess")
    /\ ua[p].check = <<>> /\ ua[p].copy # <<>>
    /\ \/ /\ Mapped(p, v) /\ ua[p].store
          /\ pd' = [pd EXCEPT ![p][v].acc = TRUE, ![p][v].dirty = TRUE]
          /\ frameData' = [frameData EXCEPT ![pd[p][v].frame] = "W"]
          /\ mem' = [mem EXCEPT ![p][v] = "W"]
          /\ ua' = [ua EXCEPT ![p].copy = Tail(ua[p].copy)]
          /\ UNCHANGED pc
       \/ /\ Mapped(p, v) /\ ~ua[p].store
          /\ pd' = [pd EXCEPT ![p][v].acc = TRUE]
          /\ ua' = [ua EXCEPT ![p].copy = Tail(ua[p].copy)]
          /\ UNCHANGED <<pc, frameData, mem>>
       \/ /\ ~Mapped(p, v)
          /\ Goto(p, KFault)
          /\ UNCHANGED <<pd, frameData, mem, ua>>
    /\ UNCHANGED <<spt, ft, freeFrames, swapUsed, slotData, fileData, mmaps,
                   mmapNum, now, frameLock, fpage, fkind, fframe, scanVars, gf,
                   unmapVars>>

\* The call returns to user mode.
CopyDone(p) ==
    /\ At(p, "uaccess")
    /\ ua[p].check = <<>> /\ ua[p].copy = <<>>
    /\ ua' = [ua EXCEPT ![p] = NULL]
    /\ Goto(p, "idle")
    /\ UNCHANGED <<spt, pd, ft, freeFrames, frameData, swapUsed, slotData,
                   fileData, mmaps, mmapNum, mem, now, frameLock, fpage, fkind,
                   fframe, scanVars, gf, unmapVars>>

Tick ==
    /\ ~Panicked
    /\ now < MaxTicks
    /\ now' = now + 1
    /\ UNCHANGED <<spt, pd, ft, freeFrames, frameData, swapUsed, slotData,
                   fileData, mmaps, mmapNum, mem, frameLock, pc, faultVars,
                   unmapVars>>

-----------------------------------------------------------------------------

Init ==
    /\ spt = [p \in Procs |-> [v \in Pages |->
                 IF v \in ExecPages[p]
                 THEN [type |-> "file", free |-> TRUE, slot |-> NULL, file |-> 0,
                       ofs |-> 0, ts |-> 0, hashed |-> TRUE]
                 ELSE NULL]]
    /\ pd = [p \in Procs |-> [v \in Pages |-> NULL]]
    /\ ft = <<>>
    /\ freeFrames = Frames
    /\ frameData = [f \in Frames |-> "Z"]
    /\ swapUsed = {}
    /\ slotData = [s \in Slots |-> "Z"]
    /\ fileData = [p \in Procs |-> [m \in MapIds |-> [i \in 0..(FilePages - 1) |-> "F"]]]
    /\ mmaps = [p \in Procs |-> {}]
    /\ mmapNum = [p \in Procs |-> 0]
    /\ mem = [p \in Procs |-> [v \in Pages |-> IF v \in ExecPages[p] THEN "F" ELSE "Z"]]
    /\ now = 0
    /\ frameLock = NULL
    /\ pc = [p \in Procs |-> "idle"]
    /\ fpage = [p \in Procs |-> 1]
    /\ fkind = [p \in Procs |-> "file"]
    /\ fframe = [p \in Procs |-> NULL]
    /\ victim = [p \in Procs |-> NULL]
    /\ cursor = [p \in Procs |-> End]
    /\ bestTs = [p \in Procs |-> NoTime]
    /\ umap = [p \in Procs |-> NULL]
    /\ uidx = [p \in Procs |-> 0]
    /\ exiting = [p \in Procs |-> FALSE]
    /\ gf = NULL
    /\ ua = [p \in Procs |-> NULL]

Thread(p) ==
    \/ \E v \in Pages : Fault(p, v) \/ FaultNoDesc(p, v)
    \/ StackCheck(p)
    \/ PallocGet(p) \/ PallocEmpty(p) \/ PushEntry(p)
    \/ FindUnaccessed(p) \/ FindLongestTime(p)
    \/ EvictWriteOut(p) \/ EvictClear(p)
    \/ LoadFile(p) \/ LoadSwap(p) \/ Install(p) \/ StackInstall(p)
    \/ \E a \in Pages : Mmap(p, a)
    \/ \E m \in mmaps[p] : Munmap(p, m)
    \/ UnmapWriteBack(p) \/ UnmapFree(p)
    \/ Exit(p) \/ ExitUnmap(p) \/ ExitClean(p)
    \/ \E v \in Pages : UserRead(p, v) \/ UserWrite(p, v)
    \/ Syscall(p)
    \/ \E b \in Reads : SysRead(p, b)
    \/ \E b \in Writes : SysWrite(p, b)
    \/ ReadCheck(p) \/ UserCopy(p) \/ CopyDone(p)

\* The kernel has panicked, or no thread can run any more.
Halted == Panicked \/ \A p \in Procs : pc[p] \in {"dead"} \cup UBStates

\* The stop: once halted, the system stutters.
Stop == Halted /\ UNCHANGED vars

Next ==
    \/ \E p \in Procs : Thread(p)
    \/ Tick
    \/ Stop

\* The kernel part of a thread: every step it takes once it has entered
\* the fault handler, a system call's buffer check, munmap or exit.
KernelStep(p) ==
    \/ StackCheck(p) \/ PallocGet(p) \/ PallocEmpty(p) \/ PushEntry(p)
    \/ FindUnaccessed(p) \/ FindLongestTime(p)
    \/ EvictWriteOut(p) \/ EvictClear(p)
    \/ LoadFile(p) \/ LoadSwap(p) \/ Install(p) \/ StackInstall(p)
    \/ UnmapWriteBack(p) \/ UnmapFree(p) \/ ExitUnmap(p) \/ ExitClean(p)
    \/ ReadCheck(p) \/ UserCopy(p) \/ CopyDone(p)

\* The round-robin scheduler runs every runnable kernel thread, and
\* lock_release wakes a thread blocked on frame_lock, so a kernel step
\* enabled again and again is eventually taken: strong fairness.  Weak
\* fairness is not enough, since a thread blocked on frame_lock is disabled
\* whenever another thread holds it.  User-mode steps (faults, system
\* calls, accesses) are never forced.
Fairness == \A p \in Procs : SF_vars(KernelStep(p))

Spec == Init /\ [][Next]_vars
FairSpec == Spec /\ Fairness

-----------------------------------------------------------------------------
(* Properties.                                                             *)

TypeOK ==
    /\ spt \in [Procs -> [Pages -> Desc \cup {NULL}]]
    /\ pd \in [Procs -> [Pages -> Pte \cup {NULL}]]
    /\ ft \in Seq(Entry)
    /\ freeFrames \subseteq Frames
    /\ frameData \in [Frames -> Vals]
    /\ swapUsed \subseteq Slots
    /\ slotData \in [Slots -> Vals]
    /\ fileData \in [Procs -> [MapIds -> [0..(FilePages - 1) -> Vals]]]
    /\ mem \in [Procs -> [Pages -> Vals]]
    /\ frameLock \in Procs \cup {NULL}
    /\ fframe \in [Procs -> Frames \cup {NULL}]
    /\ victim \in [Procs -> Entry \cup {NULL, Freed}]
    /\ cursor \in [Procs -> Entry \cup {End, Freed}]
    /\ bestTs \in [Procs -> 0..NoTime]
    /\ fkind \in [Procs -> {"file", "swap", "stack"}]
    /\ gf \in Procs \cup {NULL}
    /\ ua \in [Procs -> [check : Seq(Nat), copy : Seq(Pages), store : BOOLEAN] \cup {NULL}]

\* Frame uniqueness (spec 8): no two resident pages, of one process or of
\* two, are mapped to the same frame, and no resident page is mapped to a
\* frame the user pool considers free.  Broken if eviction takes a frame
\* whose page is still mapped or hands one frame to two loads.
FrameUniqueness ==
    \A p, q \in Procs, v, w \in Pages :
        /\ Mapped(p, v) => pd[p][v].frame \notin freeFrames
        /\ (Mapped(p, v) /\ Mapped(q, w) /\ <<p, v>> # <<q, w>>)
              => pd[p][v].frame # pd[q][w].frame

\* Every resident page has the frame-table entry for its frame and page,
\* so eviction can still choose it and vm_free_frame can still free it.
ResidentHasEntry ==
    \A p \in Procs, v \in Pages :
        Mapped(p, v) => [frame |-> pd[p][v].frame, owner |-> p, page |-> v] \in ToSet(ft)

\* Where the contents of page v of p live now.
Content(p, v) ==
    IF Mapped(p, v) THEN frameData[pd[p][v].frame]
    ELSE IF spt[p][v].type = "swap" THEN slotData[spt[p][v].slot]
    ELSE FileBytes(p, spt[p][v])

\* Eviction is transparent (spec 8, eviction liveness and swap round-trip):
\* every page a process has a descriptor for holds, wherever it lives now
\* (frame, swap slot or file), what the process last stored there.
EvictionPreservesData ==
    \A p \in Procs, v \in Pages :
        InTable(p, v) => Content(p, v) = mem[p][v]

\* A page that is neither resident nor being installed and whose
\* descriptor says swap.
SwappedOut(p, v) ==
    /\ InTable(p, v)
    /\ spt[p][v].type = "swap"
    /\ ~Mapped(p, v)
    /\ ~(pc[p] = "install" /\ fpage[p] = v)

\* The kernel never stops on a PANIC or a failed ASSERT: swap_out finds a
\* free slot whenever do_evict_frame needs one (swap.c:40), vm_get_frame
\* returns a frame to page_load_file (page.c:52), no frame is freed twice
\* and no kernel access to user memory faults.
NeverPanics == ~Panicked

\* Swap slot ownership (spec 3): the slot of every swapped-out page is
\* marked used in the bitmap and belongs to no other swapped-out page.
SwapSlotsExclusive ==
    \A p, q \in Procs, v, w \in Pages :
        /\ SwappedOut(p, v) => spt[p][v].slot \in swapUsed
        /\ (SwappedOut(p, v) /\ SwappedOut(q, w) /\ <<p, v>> # <<q, w>>)
              => spt[p][v].slot # spt[q][w].slot

\* Unmap flush (spec 8): when free_mmap_entry deletes a page's descriptor,
\* the page's file holds what the process last stored in the page, even if
\* the page was evicted in between.
UnmapFlush ==
    [][\A p \in Procs, v \in Pages :
          (pc[p] = "unmap_free" /\ InTable(p, v) /\ ~spt'[p][v].hashed)
             => fileData[p][spt[p][v].file][spt[p][v].ofs] = mem[p][v]]_vars

\* Swap slots are not leaked (spec 3, slots released on load-back): every
\* slot the bitmap marks used is the slot of some descriptor of type swap.
\* Broken when munmap or exit frees a swapped-out page's descriptor without
\* flipping its bit.
NoSwapLeak ==
    \A s \in swapUsed :
        \E p \in Procs, v \in Pages :
            InTable(p, v) /\ spt[p][v].type = "swap" /\ spt[p][v].slot = s

\* The frame-table entries an eviction holds on to stay valid: the scan
\* position between two iterations of find_unaccessed_page or
\* find_longest_time_page, and the victim until do_evict_frame uses it
\* (the comment at frame.c:142: frame_lock is kept until then).  No thread
\* dereferences an entry that another thread's eviction, munmap or exit
\* has already freed.
NoUseAfterFree == \A p \in Procs : pc[p] # "ub"

\* No thread uses a supplemental page-table entry before its fields and
\* its spte_lock are initialised: stack_grow hands vm_get_frame a freshly
\* malloc'ed descriptor (page.c:160-163) and fills it in only afterwards
\* (page.c:169-174), while do_evict_frame locks that descriptor's
\* spte_lock (frame.c:192) and every eviction scan reads the descriptor of
\* each frame-table entry it passes (frame.c:140, 173).
NoUninitRead == \A p \in Procs : pc[p] # "uninit"

\* Kernel code holding file_lock reads or writes only user pages that are
\* present: check_read_buffer faults in "each possible page" of a read's
\* buffer (syscall.c:597-624) before file_read stores into it, write's
\* validate_addr accepts only a mapped buffer, and the write-backs of
\* do_evict_frame and free_mmap_entry read a page they found dirty.
UserCopyResident == \A p \in Procs : pc[p] # KFault

\* The labels of the two eviction scans.
Scanning(p) == pc[p] \in {"scan1", "scan2"}

=============================================================================
