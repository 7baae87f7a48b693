---------------------------- MODULE MCNavigation ----------------------------
(***************************************************************************)
(* Users of two panes for TLC, and of the trash.  One folder cannot be   *)
(* listed, one does not hold the item to reveal.                         *)
(***************************************************************************)
EXTENDS Navigation

CONSTANTS p1, p2, home, docs, far

In(in, does, visits, n, left) ==
    [panes |-> in, does |-> does, visits |-> visits, loads |-> n, left |-> left]
MCUsers ==
    {In({p1}, {"open", "go", "back", "forward", "recent", "delete"}, {home, docs, far}, 2, 4),
     In({p1}, {"open", "back", "recent", "locate", "reveal"}, {home, docs}, 2, 4),
     In({p1}, {"open", "locate", "reveal"}, {home, far}, 2, 3),
     In({p1}, {"open", "go", "back", "forward", "reload", "reveal", "tag"}, {home, docs}, 3, 4),
     In({p1, p2}, {"open", "go", "back", "forward", "recent", "switch"}, {home, docs}, 1, 4),
     In({p1, p2}, {"open", "recent", "switch", "reload"}, {home, far}, 2, 3)}
Deleting == {In({p1}, {"open", "recent", "delete"}, {home, Trash}, 2, 3)}
===============================================================================
