----------------------------- MODULE MCProcess -----------------------------
(***************************************************************************)
(* Process with three slots: init, a child and a grandchild, or two        *)
(* children that race for the last slot.                                   *)
(***************************************************************************)
EXTENDS Process
=============================================================================
