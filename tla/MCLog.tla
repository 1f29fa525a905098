------------------------------- MODULE MCLog -------------------------------
(***************************************************************************)
(* Log with two processes and two block contents. There are as many home   *)
(* blocks as the header has entries, so that only the reservation of       *)
(* begin_op() keeps the header from filling up.                            *)
(***************************************************************************)
EXTENDS Log
=============================================================================
