-------------------------------- MODULE MC_VM --------------------------------
(***************************************************************************)
(* Model-checking instantiation of VM.  The processes and frames are model *)
(* values given in each .cfg; the layout of the processes' executables is  *)
(* defined here, since it differs from process to process.                 *)
(***************************************************************************)
EXTENDS VM, TLC

CONSTANTS p1, p2

\* Frames are interchangeable: the VM layer never orders or compares them.
FrameSymmetry == Permutations(Frames)

\* Every process runs a program with one lazily loaded segment page, page 1.
ExecFirstPage == [p \in Procs |-> {1}]

\* p1's program has its segment at page 1; p2's has none, so p2 can map a
\* file at page 1: one process has executable pages, the other mapped ones.
ExecOfP1 == [p \in Procs |-> IF p = p1 THEN {1} ELSE {}]

\* No process runs a program with lazily loaded segments.
NoExec == [p \in Procs |-> {}]

\* No process faults near its stack pointer: the stack never grows.
NoStack == [p \in Procs |-> {}]

\* Every process's stack pointer is at its last page, so a fault there
\* without a descriptor grows the stack.
StackAtTop == [p \in Procs |-> {NPages}]

\* p2's stack pointer is at page 1, which p1's program occupies: the same
\* address grows p2's stack and is invalid for p1.
StackOfP2 == [p \in Procs |-> IF p = p2 THEN {1} ELSE {}]

\* Buffers of four-byte pages.  A read of bytes 5..7, which ends at the end
\* of page 1, so check_read_buffer also faults page 2 in; a read of bytes
\* 6..9, across pages 1 and 2; and a read of bytes 13..15, the last bytes
\* of user memory, whose check goes past the last user page.
SeqReads == {<<5, 3>>, <<6, 4>>, <<13, 3>>}

\* Only the read that ends at the end of page 1.
ReadToPageEnd == {<<5, 3>>}

\* A write of page 1's four bytes.
SeqWrites == {<<4, 4>>}

==============================================================================
