------------------------------ MODULE MCMerging ------------------------------
(***************************************************************************)
(* FileOperations for TLC: a folder c holds a folder c, which holds a    *)
(* third with a file, and the second is moved up to where the first is.  *)
(***************************************************************************)
EXTENDS FileOperations

Outer  == <<"A", "c">>
Middle == <<"A", "c", "c">>
Inner  == <<"A", "c", "c", "c">>

NestedRoots == {<<"A">>}
NestedDirs  == {Outer, Middle, Inner}
NestedFiles == {Append(Inner, "y")}
NestedPaths == NestedRoots \cup NestedDirs \cup {Append(d, "y") : d \in NestedDirs}
NoSpare     == [p \in NestedPaths |-> p]

MovingUp ==
    {[requests |-> {[kind |-> "Move", sources |-> <<Middle>>, dest |-> <<"A">>]},
      ops |-> 1, running |-> 1, replaces |-> TRUE, devices |-> FALSE]}
===============================================================================
