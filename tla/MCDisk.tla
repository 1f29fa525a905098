------------------------------ MODULE MCDisk ------------------------------
(***************************************************************************)
(* Disk with three processes, and descriptors for two requests and one     *)
(* to spare.                                                               *)
(***************************************************************************)
EXTENDS Disk
=============================================================================
