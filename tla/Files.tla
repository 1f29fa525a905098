------------------------------- MODULE Files -------------------------------
(***************************************************************************)
(* What reading and writing files promises: every file is a sequence of    *)
(* bytes of its own, every open file has an offset. A write replaces or    *)
(* appends bytes at the offset and moves it past what it wrote; these are  *)
(* there to stay. If the caller's buffer ends early it may also have       *)
(* changed some of the bytes that follow, and those may become at any time *)
(* what they were, or be made to stay by another write. A read returns the *)
(* bytes at the offset. Opening starts at 0 and may empty the file. Once   *)
(* the kernel is down nothing is promised.                                 *)
(***************************************************************************)
EXTENDS Integers, Sequences, SequencesExt

CONSTANTS Inodes, Handles, inode(_), Values

VARIABLES
    content,     \* the bytes of a file
    stored,      \* and those that are there to stay
    offset,      \* where an open file stands
    last,        \* what the last read returned
    down

fvars == <<content, stored, offset, last, down>>

FInit ==
    /\ content \in [Inodes -> Seq(Values)]
    /\ stored = content
    /\ offset = [h \in Handles |-> 0]
    /\ last = <<>>
    /\ down = FALSE

\* The bytes from off on that a write of k bytes, and of lost ones, leaves.
Put(bytes, off, k, lost, v) ==
    [i \in 1 .. (IF off + k > Len(bytes) THEN off + k ELSE Len(bytes)) |->
        IF i > off /\ i <= off + k + lost THEN v ELSE bytes[i]]

\* Of the new bytes of a file at least those after the first off, k of them,
\* are stored; each of the others is, or is stored as before.
Store(f, off, k) ==
    /\ stored' = [stored EXCEPT ![f] = stored'[f]]
    /\ Len(stored'[f]) = Len(content'[f])
    /\ \A i \in 1 .. Len(content'[f]) :
        \/ stored'[f][i] = content'[f][i]
        \/ i \notin off + 1 .. off + k /\ i <= Len(stored[f]) /\ stored'[f][i] = stored[f][i]

Write(h, v) ==
    \E k \in 0 .. offset'[h] - offset[h], lost \in 0 .. Len(content[inode(h)]) :
        /\ offset[h] <= Len(content[inode(h)])
        /\ offset' = [offset EXCEPT ![h] = @ + k]
        /\ content' = [content EXCEPT ![inode(h)] = Put(@, offset[h], k, lost, v)]
        /\ Store(inode(h), offset[h], k)
        /\ UNCHANGED last

Read(h) ==
    /\ offset[h] <= Len(content[inode(h)])
    /\ offset' = [offset EXCEPT ![h] = offset'[h]]
    /\ offset'[h] \in offset[h] .. Len(content[inode(h)])
    /\ last' \in {SubSeq(content[inode(h)], offset[h] + 1, offset'[h]), last}
    /\ UNCHANGED <<content, stored>>

Open(h) ==
    /\ offset' = [offset EXCEPT ![h] = 0]
    /\ \/ UNCHANGED <<content, stored>>
       \/ /\ content' = [content EXCEPT ![inode(h)] = <<>>]
          /\ stored' = [stored EXCEPT ![inode(h)] = <<>>]
    /\ UNCHANGED last

\* Bytes that were not stored become what they were.
Revert(f) ==
    /\ content' = [content EXCEPT ![f] = content'[f]]
    /\ Len(content'[f]) = Len(content[f])
    /\ \A i \in 1 .. Len(content[f]) : content'[f][i] \in {content[f][i], stored[f][i]}
    /\ UNCHANGED <<stored, offset, last>>

FNext ==
    \/ /\ ~down /\ UNCHANGED down
       /\ \/ \E h \in Handles : Read(h) \/ Open(h) \/ \E v \in Values : Write(h, v)
          \/ \E f \in Inodes : Revert(f)
    \/ down'

FSpec == FInit /\ [][FNext]_fvars
=============================================================================
