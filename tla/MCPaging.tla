------------------------------ MODULE MCPaging ------------------------------
(***************************************************************************)
(* Pages of 4 bytes, tables of 16 entries, 30 pages of which the kernel    *)
(* has two.  kfree() counts from page 12 on: freeing an earlier one clears *)
(* a bit in page 22 or 23, freeing a later one clears the bit of the page  *)
(* 12 before it.                                                           *)
(***************************************************************************)
EXTENDS Paging

File(magic, segments, args) == [magic |-> magic, segments |-> segments, args |-> args]
Seg(end, fault) == [end |-> end, fault |-> fault]

MCImages ==
    {File(TRUE, <<Seg(5, ""), Seg(3, "")>>, 4),        \* two pages, a segment below another
     File(TRUE, <<Seg(0, "")>>, 3),                    \* an empty segment
     File(TRUE, <<Seg(4, ""), Seg(10, "load")>>, 3),   \* a segment that cannot be read
     File(TRUE, <<Seg(4, ""), Seg(10, "header")>>, 3), \* a bad program header
     File(TRUE, <<Seg(4, "")>>, 5),                    \* arguments larger than the stack
     File(FALSE, <<>>, 3)}                             \* no program

MCIncrements == {1, 40, -1, -10, -50}
=============================================================================
