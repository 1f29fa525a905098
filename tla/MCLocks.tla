------------------------------ MODULE MCLocks ------------------------------
(***************************************************************************)
(* Locks with two harts and two processes.                                 *)
(***************************************************************************)
EXTENDS Locks
=============================================================================
