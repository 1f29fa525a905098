------------------------------ MODULE MCPipe ------------------------------
(***************************************************************************)
(* Pipe with two or three processes on a ring of two bytes whose counters  *)
(* wrap after two rings.                                                   *)
(***************************************************************************)
EXTENDS Pipe
=============================================================================
