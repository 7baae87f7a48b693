------------------------------- MODULE TaskPool -------------------------------
(***************************************************************************)
(* What a bounded pool of file operations promises its clients, apart    *)
(* from how OperationQueue keeps the promise: an operation is started at *)
(* most once, never more than MaxConcurrency of them run together, and   *)
(* one that has ended or was dropped never comes back.                   *)
(***************************************************************************)
EXTENDS Naturals, FiniteSets

CONSTANTS
    Ops,              \* operation ids
    MaxConcurrency    \* how many may run together

VARIABLE stage       \* stage[o]: where operation o is in its life

PoolInit == stage = [o \in Ops |-> "new"]

Running == {o \in Ops : stage[o] = "running"}

Move(o, from, to) ==
    /\ stage[o] = from
    /\ stage' = [stage EXCEPT ![o] = to]

Accept(o) == Move(o, "new", "waiting")
Drop(o)   == Move(o, "waiting", "dropped")
Finish(o) == Move(o, "running", "ended")

Run(o) ==
    /\ Cardinality(Running) < MaxConcurrency
    /\ Move(o, "waiting", "running")

PoolNext == \E o \in Ops : Accept(o) \/ Drop(o) \/ Run(o) \/ Finish(o)

PoolSpec == PoolInit /\ [][PoolNext]_stage
===============================================================================
