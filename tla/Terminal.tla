------------------------------ MODULE Terminal ------------------------------
(***************************************************************************)
(* What the console promises those who read it: typed characters collect   *)
(* in a line that can still be edited; the line becomes readable as a      *)
(* whole at a newline, at an end of file or when there is no room left;    *)
(* readers take readable characters oldest first, each of them once.       *)
(***************************************************************************)
EXTENDS Integers, Sequences, SequencesExt

CONSTANT Room, Chars

VARIABLES ready, line

Enter ==
    \E c \in Chars :
        /\ Len(ready) + Len(line) < Room
        /\ IF c \in {"newline", "eof"} \/ Len(ready) + Len(line) + 1 = Room
             THEN ready' = ready \o Append(line, c) /\ line' = <<>>
             ELSE line' = Append(line, c) /\ UNCHANGED ready

Erase == line # <<>> /\ line' = Front(line) /\ UNCHANGED ready

Discard == line' = <<>> /\ UNCHANGED ready

Receive == ready # <<>> /\ ready' = Tail(ready) /\ UNCHANGED line

TSpec == ready = <<>> /\ line = <<>> /\ [][Enter \/ Erase \/ Discard \/ Receive]_<<ready, line>>
=============================================================================
