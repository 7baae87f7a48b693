----------------------------- MODULE MCOperations -----------------------------
(***************************************************************************)
(* OperationQueue and OperationControl for TLC: operations of equal and  *)
(* of different priorities, and fewer permits than operations; a         *)
(* transfer and a removal that are steered.  A run explores the one, or  *)
(* the other.                                                            *)
(***************************************************************************)
EXTENDS OperationQueue, OperationControl

CONSTANTS high, normal1, normal2, low, copy, trash

VARIABLE part    \* the part that is at work

AllRank == (high :> 2) @@ (normal1 :> 1) @@ (normal2 :> 1) @@ (low :> 0)

Three     == {high, normal1, normal2}
ThreeRank == [o \in Three |-> AllRank[o]]

Both == {copy, trash}
OnlyTrash == {trash}

OperationsInit == Init /\ ControlInit /\ part \in {"queue", "control"}
OperationsNext ==
    /\ UNCHANGED part
    /\ \/ part = "queue" /\ Next /\ UNCHANGED controlVars
       \/ part = "control" /\ ControlNext /\ UNCHANGED queueVars
OperationsSpec ==
    /\ OperationsInit /\ [][OperationsNext]_<<queueVars, controlVars, part>>
    /\ Fairness /\ SystemFairness
===============================================================================
