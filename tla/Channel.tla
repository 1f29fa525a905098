------------------------------ MODULE Channel ------------------------------
(***************************************************************************)
(* What a pipe promises its users: a bounded first-in first-out queue of   *)
(* bytes. A read takes the oldest bytes, in order; if the reader's buffer  *)
(* ends early, one byte more is taken and lost. After the write end is     *)
(* closed nothing is sent. Once the pipe is broken nothing is promised.    *)
(***************************************************************************)
EXTENDS Integers, Sequences

CONSTANTS Capacity, Bytes

VARIABLES queue, last, wopen, broken

cvars == <<queue, last, wopen, broken>>

CInit ==
    /\ queue = <<>>
    /\ last = <<>>
    /\ wopen = TRUE
    /\ broken = FALSE

Send ==
    /\ wopen
    /\ Len(queue) <= Len(queue') /\ SubSeq(queue', 1, Len(queue)) = queue
    /\ Len(queue') <= Capacity
    /\ UNCHANGED <<last, wopen>>

Receive ==
    \E k \in 0 .. Len(queue), lost \in 0 .. 1 :
        /\ k + lost <= Len(queue)
        /\ last' = SubSeq(queue, 1, k)
        /\ queue' = SubSeq(queue, k + lost + 1, Len(queue))
        /\ UNCHANGED wopen

Close == wopen' = FALSE /\ UNCHANGED <<queue, last>>

CNext ==
    \/ (Send \/ Receive \/ Close) /\ UNCHANGED broken
    \/ broken'

CSpec == CInit /\ [][CNext]_cvars
=============================================================================
