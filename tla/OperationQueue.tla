---------------------------- MODULE OperationQueue ----------------------------
(***************************************************************************)
(* raven-ops OperationQueue: a pending list kept in priority order, a    *)
(* semaphore that bounds how many operations run, and the cancel marks   *)
(* the running operations consult (the pause marks are in                *)
(* OperationControl).                                                    *)
(*                                                                       *)
(* Every field sits behind a mutex of its own, so one step here is one   *)
(* locked region: take_next is three (pop, permit, push onto active) and *)
(* cancel is two, and anything may happen in between.                    *)
(***************************************************************************)
EXTENDS Integers, Sequences, FiniteSets, SequencesExt

CONSTANTS
    Ops,              \* operation ids
    Rank,             \* Rank[o]: priority_rank of the operation
    MaxConcurrency    \* permits the semaphore starts with

ASSUME OpsAssumption  == IsFiniteSet(Ops)
ASSUME RankAssumption == Rank \in [Ops -> 0..2]
ASSUME MaxAssumption  == MaxConcurrency \in Nat \ {0}

VARIABLES
    pending,      \* the pending queue, front first
    waiting,      \* popped operations queued on the semaphore, first come first
    starting,     \* operations holding a permit, not yet in the active list
    active,       \* the active list
    permits,      \* free permits of the semaphore
    cancelled,    \* ids with a cancellation mark
    cancelling,   \* cancel calls that missed the pending queue and have not
                  \* pushed their mark yet
    arrivals,     \* history: the operations submitted, in order
    dropped,      \* history: operations cancel took out of the pending queue
    ended,        \* history: operations whose slot complete has released
    asked,        \* history: operations some cancel call was made for
    heard         \* history: operations that saw their mark and cleared it

queueVars == <<pending, waiting, starting, active, permits, cancelled,
               cancelling, arrivals, dropped, ended, asked, heard>>

Submitted == ToSet(arrivals)

-------------------------------------------------------------------------------
Init ==
    /\ pending = <<>> /\ waiting = <<>>
    /\ starting = {} /\ active = {}
    /\ permits = MaxConcurrency
    /\ cancelled = {} /\ cancelling = {}
    /\ arrivals = <<>>
    /\ dropped = {} /\ ended = {} /\ asked = {} /\ heard = {}

(* Mutant of InsertPosition: ahead of one's equals. *)
InsertBeforeEquals(pos, o) ==
    /\ pos \in 1..(Len(pending) + 1)
    /\ \A i \in 1..(pos - 1) : Rank[pending[i]] > Rank[o]
    /\ pos <= Len(pending) => Rank[pending[pos]] <= Rank[o]

(* `pos` is where submit inserts o: before the first entry of lower rank. *)
InsertPosition(pos, o) ==
    /\ pos \in 1..(Len(pending) + 1)
    /\ \A i \in 1..(pos - 1) : Rank[pending[i]] >= Rank[o]
    /\ pos <= Len(pending) => Rank[pending[pos]] < Rank[o]

Submit(o) ==
    /\ o \notin Submitted
    /\ \E pos \in 1..(Len(pending) + 1) :
          InsertPosition(pos, o) /\ pending' = InsertAt(pending, pos, o)
    /\ arrivals' = Append(arrivals, o)
    /\ UNCHANGED <<waiting, starting, active, permits, cancelled,
                   cancelling, dropped, ended, asked, heard>>

(* Mutant of PopFront: the front is read but left in the queue. *)
PeekFront ==
    /\ pending # <<>>
    /\ waiting' = Append(waiting, Head(pending))
    /\ UNCHANGED <<pending, starting, active, permits, cancelled, cancelling,
                   arrivals, dropped, ended, asked, heard>>

(* take_next, first region: pop the front and queue on the semaphore. *)
PopFront ==
    /\ pending # <<>>
    /\ waiting' = Append(waiting, Head(pending))
    /\ pending' = Tail(pending)
    /\ UNCHANGED <<starting, active, permits, cancelled, cancelling,
                   arrivals, dropped, ended, asked, heard>>

(* Mutant of AcquirePermit: the semaphore is not asked. *)
AcquireUnchecked ==
    /\ waiting # <<>>
    /\ permits' = permits - 1
    /\ starting' = starting \cup {Head(waiting)}
    /\ waiting' = Tail(waiting)
    /\ UNCHANGED <<pending, active, cancelled, cancelling, arrivals, dropped,
                   ended, asked, heard>>

(* take_next, second region: the semaphore serves its waiters in order. *)
AcquirePermit ==
    /\ waiting # <<>> /\ permits > 0
    /\ permits' = permits - 1
    /\ starting' = starting \cup {Head(waiting)}
    /\ waiting' = Tail(waiting)
    /\ UNCHANGED <<pending, active, cancelled, cancelling, arrivals,
                   dropped, ended, asked, heard>>

(* take_next, third region: the operation joins the active list. *)
StartRunning(o) ==
    /\ o \in starting
    /\ starting' = starting \ {o}
    /\ active' = active \cup {o}
    /\ UNCHANGED <<pending, waiting, permits, cancelled, cancelling,
                   arrivals, dropped, ended, asked, heard>>

(* Mutants of Complete: the permit is not given back; an operation still on its way to the
   active list is completed as well. *)
CompleteKeepsPermit(o) ==
    /\ o \in active
    /\ active' = active \ {o}
    /\ ended' = ended \cup {o}
    /\ UNCHANGED <<pending, waiting, starting, permits, cancelled, cancelling,
                   arrivals, dropped, asked, heard>>
CompleteAnyTaken(o) ==
    /\ o \in active \cup starting
    /\ active' = active \ {o}
    /\ permits' = permits + 1
    /\ ended' = ended \cup {o}
    /\ UNCHANGED <<pending, waiting, starting, cancelled, cancelling, arrivals,
                   dropped, asked, heard>>

(* complete, called once by whoever took the operation. *)
Complete(o) ==
    /\ o \in active
    /\ active' = active \ {o}
    /\ permits' = permits + 1
    /\ ended' = ended \cup {o}
    /\ UNCHANGED <<pending, waiting, starting, cancelled, cancelling,
                   arrivals, dropped, asked, heard>>

InPending(o) == \E i \in 1..Len(pending) : pending[i] = o

(* cancel, first region: a pending operation is taken out and that is all (ids are unique, so
   retain removes one entry). *)
CancelPending(o) ==
    /\ \E i \in 1..Len(pending) :
          /\ pending[i] = o
          /\ pending' = RemoveAt(pending, i)
    /\ dropped' = dropped \cup {o}
    /\ asked' = asked \cup {o}
    /\ UNCHANGED <<waiting, starting, active, permits, cancelled,
                   cancelling, arrivals, ended, heard>>

(* cancel, first region: not pending, so a mark is going to be pushed. *)
CancelMiss(o) ==
    /\ ~InPending(o)
    /\ o \notin asked
    /\ cancelling' = cancelling \cup {o}
    /\ asked' = asked \cup {o}
    /\ UNCHANGED <<pending, waiting, starting, active, permits, cancelled,
                   arrivals, dropped, ended, heard>>

(* Mutant of CancelMark: only an operation in the active list is marked. *)
CancelMarkIfActive(o) ==
    /\ o \in cancelling
    /\ cancelling' = cancelling \ {o}
    /\ cancelled' = IF o \in active THEN cancelled \cup {o} ELSE cancelled
    /\ UNCHANGED <<pending, waiting, starting, active, permits, arrivals,
                   dropped, ended, asked, heard>>

(* cancel, second region: push the mark, wherever the operation is by now. *)
CancelMark(o) ==
    /\ o \in cancelling
    /\ cancelling' = cancelling \ {o}
    /\ cancelled' = cancelled \cup {o}
    /\ UNCHANGED <<pending, waiting, starting, active, permits,
                   arrivals, dropped, ended, asked, heard>>

(* is_cancelled answered yes to the running operation, which clears it. *)
ClearCancelled(o) ==
    /\ o \in active /\ o \in cancelled
    /\ cancelled' = cancelled \ {o}
    /\ heard' = heard \cup {o}
    /\ UNCHANGED <<pending, waiting, starting, active, permits,
                   cancelling, arrivals, dropped, ended, asked>>

Next ==
    \/ PopFront
    \/ AcquirePermit
    \/ \E o \in Ops :
          \/ Submit(o) \/ StartRunning(o) \/ Complete(o)
          \/ CancelPending(o) \/ CancelMiss(o) \/ CancelMark(o)
          \/ ClearCancelled(o)

(* A task that calls take_next keeps being polled and its caller completes what it took; nobody
   has to submit, cancel or pause. *)
Fairness ==
    /\ WF_queueVars(PopFront) /\ WF_queueVars(AcquirePermit)
    /\ \A o \in Ops : WF_queueVars(StartRunning(o)) /\ WF_queueVars(Complete(o))

Spec == Init /\ [][Next]_queueVars
FairSpec == Spec /\ Fairness

-------------------------------------------------------------------------------
TypeOK ==
    /\ pending \in Seq(Ops) /\ waiting \in Seq(Ops) /\ arrivals \in Seq(Ops)
    /\ starting \in SUBSET Ops /\ active \in SUBSET Ops
    /\ permits \in 0..MaxConcurrency
    /\ cancelled \in SUBSET Ops
    /\ cancelling \in SUBSET Ops
    /\ dropped \in SUBSET Ops /\ ended \in SUBSET Ops
    /\ asked \in SUBSET Ops /\ heard \in SUBSET Ops

(* No permit is leaked or invented: every slot is free, about to be used, or used by a running
   operation (take_next forgets its permit and relies on complete to give it back). *)
PermitsConserved ==
    permits + Cardinality(starting) + Cardinality(active) = MaxConcurrency

(* A higher priority is always served first: the pending queue is sorted. *)
PendingSorted ==
    \A i, j \in 1..Len(pending) :
        i < j => Rank[pending[i]] >= Rank[pending[j]]

(* Equal priorities are served in the order they were submitted, whatever was inserted or
   cancelled around them. *)
EqualsKeepOrder ==
    \A i, j \in 1..Len(pending), m, n \in 1..Len(arrivals) :
        /\ i < j
        /\ Rank[pending[i]] = Rank[pending[j]]
        /\ arrivals[m] = pending[i] /\ arrivals[n] = pending[j]
        => m < n

(* Whoever was submitted first is served first, but for higher priorities. *)
InOrder == PendingSorted /\ EqualsKeepOrder

(* Nothing is lost or run twice between the locks: a submitted operation is in exactly one of
   the stages of its life, once. *)
OneStageEach ==
    /\ IsInjective(pending) /\ IsInjective(waiting) /\ IsInjective(arrivals)
    /\ LET places == <<ToSet(pending), ToSet(waiting), starting, active,
                       dropped, ended>>
       IN  /\ Submitted = UNION {places[k] : k \in 1..6}
           /\ \A k, l \in 1..6 : k # l => places[k] \cap places[l] = {}

(* A cancel call is never lost, not even for an operation popped but not yet running: until it
   is taken out of the queue, or saw its mark, the mark is there or about to be pushed. *)
CancelNotLost ==
    asked \subseteq dropped \cup cancelled \cup cancelling \cup heard

(* Whatever was submitted and not cancelled while pending is run and ends, even behind higher
   priorities and with every permit taken. *)
EveryOperationEnds ==
    \A o \in Ops : (o \in Submitted) ~> (o \in dropped \cup ended)

-------------------------------------------------------------------------------
(* What clients see of it: a pool where an operation waits, runs and ends. *)
StageOf ==
    [o \in Ops |->
        IF o \in active THEN "running"
        ELSE IF o \in ended THEN "ended"
        ELSE IF o \in dropped THEN "dropped"
        ELSE IF o \in Submitted THEN "waiting" ELSE "new"]

Pool == INSTANCE TaskPool WITH stage <- StageOf

(* The queue implements the abstract pool: bounded, at most one run each. *)
ImplementsPool == Pool!PoolSpec
===============================================================================
