---------------------------- MODULE MCBufCache ----------------------------
(***************************************************************************)
(* BufCache with two processes and two buffers for three blocks.           *)
(***************************************************************************)
EXTENDS BufCache
=============================================================================
