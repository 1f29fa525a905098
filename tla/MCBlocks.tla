------------------------------ MODULE MCBlocks ------------------------------
(***************************************************************************)
(* Two files, of which makefs has put one on the disk; the other is open   *)
(* twice. A block has two bytes, a byte of the bitmap two bits.            *)
(***************************************************************************)
EXTENDS Blocks, TLC

CONSTANTS f1, f2, h1, h2, h3

MCinode(h) == IF h = h1 THEN f1 ELSE f2
MCImage == f1 :> <<2>> @@ f2 :> <<>>

Symmetry == Permutations(Procs)
=============================================================================
