-------------------------------- MODULE Files --------------------------------
(***************************************************************************)
(* What the inode layer of project 4 (src/p4/filesys/inode.c) promises the *)
(* file system calls: each live inode is a sequence of bytes.  A create    *)
(* gives a new inode of zeros, a write of size > 0 stores its bytes and    *)
(* extends the file with zeros up to its end, a write of no bytes changes  *)
(* nothing, a read returns the bytes between its offset and the end of     *)
(* the file, and an inode disappears when it is deleted.                   *)
(***************************************************************************)
EXTENDS Naturals, Sequences, FiniteSets, TLC

CONSTANTS
    Inos,        \* inode numbers (the sector of each inode)
    Vals,        \* byte values a caller writes (0 is the zero byte)
    Offsets,     \* file offsets a call uses
    Sizes,       \* byte counts of reads and writes
    CreateSizes, \* initial sizes given to create
    NULL

VARIABLES
    content,  \* content[i]: the bytes of live inode i
    out       \* the bytes the last read returned, or NULL

Zeros(n) == [k \in 1..n |-> 0]

\* The file after size copies of v are written at offset off.
Written(c, off, size, v) ==
    LET len == IF size = 0 THEN Len(c)
               ELSE IF off + size > Len(c) THEN off + size ELSE Len(c)
    IN [k \in 1..len |-> IF off < k /\ k <= off + size THEN v
                         ELSE IF k <= Len(c) THEN c[k] ELSE 0]

\* The bytes from offset off, at most size of them, up to the end of file.
ReadOut(c, off, size) ==
    LET n == IF off >= Len(c) THEN 0
             ELSE IF Len(c) - off < size THEN Len(c) - off ELSE size
    IN [k \in 1..n |-> c[off + k]]

Init == /\ content = [i \in {} |-> <<>>]
        /\ out = NULL

Create(i, len) == /\ i \in Inos \ DOMAIN content
                  /\ content' = content @@ (i :> Zeros(len))
                  /\ UNCHANGED out

Write(i, off, size, v) == /\ i \in DOMAIN content
                          /\ content' = [content EXCEPT ![i] = Written(@, off, size, v)]
                          /\ UNCHANGED out

Read(i, off, size) == /\ i \in DOMAIN content
                      /\ out' = ReadOut(content[i], off, size)
                      /\ UNCHANGED content

Delete(i) == /\ i \in DOMAIN content
             /\ content' = [j \in DOMAIN content \ {i} |-> content[j]]
             /\ UNCHANGED out

Next == \E i \in Inos :
          \/ \E len \in CreateSizes : Create(i, len)
          \/ \E off \in Offsets, size \in Sizes :
               \/ \E v \in Vals : Write(i, off, size, v)
               \/ Read(i, off, size)
          \/ Delete(i)

Spec == Init /\ [][Next]_<<content, out>>
=============================================================================
