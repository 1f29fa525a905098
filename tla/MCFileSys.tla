----------------------------- MODULE MCFileSys -----------------------------
(***************************************************************************)
(* The calls processes make in the model-checked instance.                 *)
(***************************************************************************)
EXTENDS FileSys, TLC

Abs(names) == [abs |-> TRUE, names |-> names]
Rel(names) == [abs |-> FALSE, names |-> names]
Call(op, at) == [op |-> op, path |-> at, new |-> NoPath]
Link(old, new) == [op |-> "link", path |-> old, new |-> new]

MCCalls ==
    {Call("open_rd", Abs(<<"x">>)), Call("open_wr", Rel(<<"..">>)),
     Call("creat", Abs(<<"x">>)), Call("creat", Rel(<<"y">>)),
     Call("mkdir", Abs(<<"a", "y">>)),
     Call("mknod", Abs(<<"x">>)), Call("mknod", Rel(<<"y">>)), Call("mknod_bad", Rel(<<"y">>)),
     Call("unlink", Abs(<<"x">>)), Call("unlink", Abs(<<"a">>)), Call("unlink", Abs(<<"a", "d">>)),
     Call("chdir", Rel(<<"..">>)), Call("chdir", Abs(<<"x">>)), Call("chdir", Abs(<<"a">>)),
     Link(Abs(<<"x">>), Rel(<<"y">>)), Link(Abs(<<"x">>), Abs(<<"y", "x">>)),
     Link(Abs(<<"a">>), Abs(<<"y">>))}

Symmetry == Permutations(Procs)
=============================================================================
