------------------------- MODULE OperationQueueProofs -------------------------
(***************************************************************************)
(* Proofs about OperationQueue for any finite set of operations, any     *)
(* priorities and any number of permits, and about Chooser for any disk, *)
(* calls and requests: the dialogs answer in the terms they were asked   *)
(* in, and replace what their user agreed to.                            *)
(***************************************************************************)
EXTENDS OperationQueue, Chooser, FiniteSetTheorems, TLAPS

-------------------------------------------------------------------------------
(* Sequence lemmas: what submit's insertion and cancel's removal leave. *)

(* t is s with e put in at p: what follows is shifted by one. *)
IsInsertion(t, s, p, e, S) ==
    /\ t \in Seq(S) /\ Len(t) = Len(s) + 1
    /\ \A i \in 1..(Len(s) + 1) :
          /\ i < p => i \in 1..Len(s) /\ t[i] = s[i]
          /\ i = p => t[i] = e
          /\ i > p => (i - 1) \in 1..Len(s) /\ t[i] = s[i - 1]

(* InsertAt shifts everything from the position on by one. *)
LEMMA InsertAtEntries ==
    ASSUME NEW S, NEW s \in Seq(S), NEW e \in S, NEW p \in 1..(Len(s) + 1)
    PROVE  IsInsertion(InsertAt(s, p, e), s, p, e, S)
<1> DEFINE front == SubSeq(s, 1, p - 1)
           back  == SubSeq(s, p, Len(s))
<1>1. front \in Seq(S) /\ Len(front) = p - 1 /\ \A i \in 1..(p - 1) : front[i] = s[i] OBVIOUS
<1>2. /\ back \in Seq(S) /\ Len(back) = Len(s) - p + 1
      /\ \A i \in 1..(Len(s) - p + 1) : back[i] = s[p + i - 1]
  OBVIOUS
<1> DEFINE first == front \o <<e>>
<1>3. /\ first \in Seq(S) /\ Len(first) = p
      /\ \A i \in 1..p : first[i] = IF i < p THEN s[i] ELSE e
  <2> HIDE DEF front
  <2>1. <<e>> \in Seq(S) /\ Len(<<e>>) = 1 /\ <<e>>[1] = e OBVIOUS
  <2>2. first \in Seq(S) /\ Len(first) = p BY <1>1, <2>1
  <2>3. \A i \in 1..p : first[i] = IF i < p THEN front[i] ELSE <<e>>[1] BY <1>1, <2>1
  <2> QED BY <1>1, <2>1, <2>2, <2>3
<1> DEFINE whole == first \o back
<1>4. InsertAt(s, p, e) = whole BY DEF InsertAt
<1> HIDE DEF first, back
<1>5. Len(whole) = Len(s) + 1 /\ whole \in Seq(S) BY <1>2, <1>3
<1>6. \A i \in 1..(Len(s) + 1) :
         whole[i] = IF i <= p THEN first[i] ELSE back[i - p]
  BY <1>2, <1>3
<1> HIDE DEF whole
<1>7. \A i \in 1..(Len(s) + 1) :
         i > p => (i - p) \in 1..(Len(s) - p + 1) /\ back[i - p] = s[i - 1]
  <2> SUFFICES ASSUME NEW i \in 1..(Len(s) + 1), i > p
               PROVE  (i - p) \in 1..(Len(s) - p + 1) /\ back[i - p] = s[i - 1]
    OBVIOUS
  <2>1. (i - p) \in 1..(Len(s) - p + 1) /\ p + (i - p) - 1 = i - 1 OBVIOUS
  <2> QED BY <1>2, <2>1
<1>8. \A i \in 1..(Len(s) + 1) :
         whole[i] = IF i < p THEN s[i] ELSE IF i = p THEN e ELSE s[i - 1]
  BY <1>3, <1>6, <1>7
<1>9. IsInsertion(whole, s, p, e, S)
  <2>1. Len(s) \in Nat OBVIOUS
  <2>2. \A i \in 1..(Len(s) + 1) :
           /\ i < p => i \in 1..Len(s) /\ whole[i] = s[i]
           /\ i = p => whole[i] = e
           /\ i > p => (i - 1) \in 1..Len(s) /\ whole[i] = s[i - 1]
    BY <1>8, <2>1
  <2> QED BY <1>5, <2>2 DEF IsInsertion
<1> QED BY <1>4, <1>9

(* RemoveAt closes the gap. *)
LEMMA RemoveAtEntries ==
    ASSUME NEW S, NEW s \in Seq(S), NEW p \in 1..Len(s)
    PROVE  /\ RemoveAt(s, p) \in Seq(S)
           /\ Len(RemoveAt(s, p)) = Len(s) - 1
           /\ \A i \in 1..(Len(s) - 1) :
                 RemoveAt(s, p)[i] = IF i < p THEN s[i] ELSE s[i + 1]
<1> DEFINE front == SubSeq(s, 1, p - 1)
           back  == SubSeq(s, p + 1, Len(s))
<1>1. front \in Seq(S) /\ Len(front) = p - 1 /\ \A i \in 1..(p - 1) : front[i] = s[i] OBVIOUS
<1>2. /\ back \in Seq(S) /\ Len(back) = Len(s) - p
      /\ \A i \in 1..(Len(s) - p) : back[i] = s[p + i]
  OBVIOUS
<1> DEFINE whole == front \o back
<1>3. RemoveAt(s, p) = whole BY DEF RemoveAt
<1> HIDE DEF front, back
<1>4. Len(whole) = Len(s) - 1 /\ whole \in Seq(S) BY <1>1, <1>2
<1>5. \A i \in 1..(Len(s) - 1) :
         whole[i] = IF i < p THEN front[i] ELSE back[i - (p - 1)]
  BY <1>1, <1>2
<1> HIDE DEF whole
<1>6. \A i \in 1..(Len(s) - 1) :
         i >= p => (i - (p - 1)) \in 1..(Len(s) - p) /\ back[i - (p - 1)] = s[i + 1]
  BY <1>2
<1>7. \A i \in 1..(Len(s) - 1) : whole[i] = IF i < p THEN s[i] ELSE s[i + 1] BY <1>1, <1>5, <1>6
<1> QED BY <1>3, <1>4, <1>7

(* Tail drops the head. *)
LEMMA TailEntries ==
    ASSUME NEW S, NEW s \in Seq(S), s # <<>>
    PROVE  /\ Tail(s) \in Seq(S) /\ Len(Tail(s)) = Len(s) - 1 /\ Len(s) >= 1
           /\ Head(s) = s[1] /\ Head(s) \in S
           /\ \A i \in 1..(Len(s) - 1) : Tail(s)[i] = s[i + 1]
  OBVIOUS

(* What it makes of the pending queue. *)
LEMMA InsertPending ==
    ASSUME pending \in Seq(Ops), NEW o \in Ops, NEW pos \in 1..(Len(pending) + 1),
           pending' = InsertAt(pending, pos, o)
    PROVE  /\ pending' \in Seq(Ops) /\ Len(pending') = Len(pending) + 1
           /\ \A i \in 1..(Len(pending) + 1) :
                 /\ i < pos => i \in 1..Len(pending) /\ pending'[i] = pending[i]
                 /\ i = pos => pending'[i] = o
                 /\ i > pos => (i - 1) \in 1..Len(pending) /\ pending'[i] = pending[i - 1]
<1>1. IsInsertion(InsertAt(pending, pos, o), pending, pos, o, Ops) BY InsertAtEntries
<1>2. IsInsertion(pending', pending, pos, o, Ops) BY <1>1
<1> QED BY <1>2 DEF IsInsertion

(* What the four ways the queue changes a sequence do to its entries. *)
LEMMA InsertAtSet ==
    ASSUME NEW S, NEW s \in Seq(S), NEW e \in S, NEW p \in 1..(Len(s) + 1)
    PROVE  /\ ToSet(InsertAt(s, p, e)) = ToSet(s) \cup {e}
           /\ IsInjective(s) /\ e \notin ToSet(s) => IsInjective(InsertAt(s, p, e))
<1> DEFINE t == InsertAt(s, p, e)
<1>0. IsInsertion(t, s, p, e, S) BY InsertAtEntries
<1> HIDE DEF t
<1>1. /\ t \in Seq(S) /\ Len(t) = Len(s) + 1
      /\ \A i \in 1..(Len(s) + 1) :
            /\ i < p => i \in 1..Len(s) /\ t[i] = s[i]
            /\ i = p => t[i] = e
            /\ i > p => (i - 1) \in 1..Len(s) /\ t[i] = s[i - 1]
  BY <1>0 DEF IsInsertion
<1>2. DOMAIN t = 1..(Len(s) + 1) /\ DOMAIN s = 1..Len(s) BY <1>1
<1>3. ASSUME NEW i \in 1..(Len(s) + 1) PROVE t[i] \in ToSet(s) \cup {e}
  <2>1. i < p => i \in 1..Len(s) /\ t[i] = s[i] BY <1>1, <1>3
  <2>2. i > p => (i - 1) \in 1..Len(s) /\ t[i] = s[i - 1] BY <1>1, <1>3
  <2>3. i = p => t[i] = e BY <1>1, <1>3
  <2>4. \A k \in 1..Len(s) : s[k] \in ToSet(s) BY <1>2 DEF ToSet
  <2> HIDE DEF ToSet
  <2> QED BY <1>3, <2>1, <2>2, <2>3, <2>4
<1>4. ASSUME NEW i \in 1..Len(s) PROVE s[i] \in ToSet(t)
  <2>1. CASE i < p
    <3>1. t[i] = s[i] /\ i \in DOMAIN t BY <1>1, <1>2, <1>4, <2>1
    <3> QED BY <3>1 DEF ToSet
  <2>2. CASE i >= p
    <3>1. t[i + 1] = s[i] /\ (i + 1) \in DOMAIN t BY <1>1, <1>2, <1>4, <2>2
    <3> QED BY <3>1 DEF ToSet
  <2> QED BY <1>4, <2>1, <2>2
<1>5. e \in ToSet(t)
  <2>1. t[p] = e /\ p \in DOMAIN t BY <1>1, <1>2
  <2> QED BY <2>1 DEF ToSet
<1>6. ToSet(t) = ToSet(s) \cup {e} BY <1>2, <1>3, <1>4, <1>5 DEF ToSet
<1>7. ASSUME IsInjective(s), e \notin ToSet(s) PROVE IsInjective(t)
  <2> SUFFICES ASSUME NEW i \in 1..(Len(s) + 1), NEW j \in 1..(Len(s) + 1),
                      t[i] = t[j]
               PROVE  i = j
    BY <1>2 DEF IsInjective
  <2>1. \A k \in 1..Len(s) : s[k] # e BY <1>2, <1>7 DEF ToSet
  <2>2. \A k, l \in 1..Len(s) : s[k] = s[l] => k = l BY <1>2, <1>7 DEF IsInjective
  <2>3. \A k \in 1..(Len(s) + 1) :
           /\ k < p => k \in 1..Len(s) /\ t[k] = s[k]
           /\ k = p => t[k] = e
           /\ k > p => (k - 1) \in 1..Len(s) /\ t[k] = s[k - 1]
    BY <1>1
  <2> QED BY <2>1, <2>2, <2>3
<1> QED BY <1>6, <1>7 DEF t

LEMMA RemoveAtSet ==
    ASSUME NEW S, NEW s \in Seq(S), NEW p \in 1..Len(s), IsInjective(s)
    PROVE  /\ ToSet(RemoveAt(s, p)) = ToSet(s) \ {s[p]}
           /\ IsInjective(RemoveAt(s, p))
<1> DEFINE t == RemoveAt(s, p)
<1>1. /\ t \in Seq(S) /\ Len(t) = Len(s) - 1
      /\ \A i \in 1..(Len(s) - 1) : t[i] = IF i < p THEN s[i] ELSE s[i + 1]
  BY RemoveAtEntries
<1> HIDE DEF t
<1>2. DOMAIN t = 1..(Len(s) - 1) /\ DOMAIN s = 1..Len(s) BY <1>1
<1>3. \A k, l \in 1..Len(s) : s[k] = s[l] => k = l BY <1>2 DEF IsInjective
<1>4. \A k \in 1..(Len(s) - 1) :
         /\ k < p => k \in 1..Len(s) /\ t[k] = s[k]
         /\ k >= p => (k + 1) \in 1..Len(s) /\ t[k] = s[k + 1]
  BY <1>1
<1>5. ASSUME NEW k \in 1..(Len(s) - 1) PROVE t[k] \in ToSet(s) \ {s[p]}
  BY <1>2, <1>3, <1>4, <1>5 DEF ToSet
<1>6. ASSUME NEW k \in 1..Len(s), k # p PROVE s[k] \in ToSet(t)
  <2>1. CASE k < p
    <3>1. t[k] = s[k] /\ k \in DOMAIN t BY <1>1, <1>2, <1>6, <2>1
    <3> QED BY <3>1 DEF ToSet
  <2>2. CASE k > p
    <3>1. t[k - 1] = s[k] /\ (k - 1) \in DOMAIN t BY <1>1, <1>2, <1>6, <2>2
    <3> QED BY <3>1 DEF ToSet
  <2> QED BY <1>6, <2>1, <2>2
<1>7. ToSet(t) = ToSet(s) \ {s[p]} BY <1>2, <1>5, <1>6 DEF ToSet
<1>8. IsInjective(t)
  <2> SUFFICES ASSUME NEW i \in 1..(Len(s) - 1), NEW j \in 1..(Len(s) - 1),
                      t[i] = t[j]
               PROVE  i = j
    BY <1>2 DEF IsInjective
  <2> QED BY <1>3, <1>4
<1> QED BY <1>7, <1>8 DEF t

LEMMA TailSet ==
    ASSUME NEW S, NEW s \in Seq(S), s # <<>>, IsInjective(s)
    PROVE  /\ ToSet(Tail(s)) = ToSet(s) \ {Head(s)}
           /\ Head(s) \in ToSet(s)
           /\ IsInjective(Tail(s))
<1> DEFINE t == Tail(s)
<1>1. /\ t \in Seq(S) /\ Len(t) = Len(s) - 1 /\ Len(s) >= 1
      /\ Head(s) = s[1]
      /\ \A i \in 1..(Len(s) - 1) : t[i] = s[i + 1]
  BY TailEntries
<1> HIDE DEF t
<1>2. DOMAIN t = 1..(Len(s) - 1) /\ DOMAIN s = 1..Len(s) BY <1>1
<1>3. \A k, l \in 1..Len(s) : s[k] = s[l] => k = l BY <1>2 DEF IsInjective
<1>4. ASSUME NEW k \in 1..(Len(s) - 1) PROVE t[k] \in ToSet(s) \ {s[1]}
  BY <1>1, <1>2, <1>3, <1>4 DEF ToSet
<1>5. ASSUME NEW k \in 1..Len(s), k # 1 PROVE s[k] \in ToSet(t)
  <2>1. t[k - 1] = s[k] /\ (k - 1) \in DOMAIN t BY <1>1, <1>2, <1>5
  <2> QED BY <2>1 DEF ToSet
<1>6. ToSet(t) = ToSet(s) \ {s[1]} /\ s[1] \in ToSet(s)
  <2>1. s[1] \in ToSet(s) BY <1>1, <1>2 DEF ToSet
  <2>2. ToSet(t) \subseteq ToSet(s) \ {s[1]} BY <1>2, <1>4 DEF ToSet
  <2>3. \A v \in ToSet(s) : v # s[1] => v \in ToSet(t)
    <3> TAKE v \in ToSet(s)
    <3>1. PICK k \in 1..Len(s) : v = s[k] BY <1>2 DEF ToSet
    <3> QED BY <1>5, <3>1
  <2> QED BY <2>1, <2>2, <2>3
<1>7. IsInjective(t) BY <1>1, <1>2, <1>3 DEF IsInjective
<1> QED BY <1>1, <1>6, <1>7 DEF t

LEMMA AppendSet ==
    ASSUME NEW S, NEW s \in Seq(S), NEW e \in S
    PROVE  /\ Append(s, e) \in Seq(S)
           /\ ToSet(Append(s, e)) = ToSet(s) \cup {e}
           /\ IsInjective(s) /\ e \notin ToSet(s) => IsInjective(Append(s, e))
<1> DEFINE t == Append(s, e)
<1>1. /\ t \in Seq(S) /\ DOMAIN t = 1..(Len(s) + 1) /\ DOMAIN s = 1..Len(s)
      /\ Len(s) \in Nat
      /\ \A i \in 1..(Len(s) + 1) : t[i] = IF i <= Len(s) THEN s[i] ELSE e
  OBVIOUS
<1> HIDE DEF t
<1>2. ASSUME NEW i \in 1..(Len(s) + 1) PROVE t[i] \in ToSet(s) \cup {e} BY <1>1, <1>2 DEF ToSet
<1>3. ASSUME NEW i \in 1..Len(s) PROVE s[i] \in ToSet(t)
  <2>1. t[i] = s[i] /\ i \in DOMAIN t BY <1>1, <1>3
  <2> QED BY <2>1 DEF ToSet
<1>4. e \in ToSet(t)
  <2>1. t[Len(s) + 1] = e /\ (Len(s) + 1) \in DOMAIN t BY <1>1
  <2> QED BY <2>1 DEF ToSet
<1>5. ToSet(t) = ToSet(s) \cup {e} BY <1>1, <1>2, <1>3, <1>4 DEF ToSet
<1>6. ASSUME IsInjective(s), e \notin ToSet(s) PROVE IsInjective(t)
  <2> SUFFICES ASSUME NEW i \in 1..(Len(s) + 1), NEW j \in 1..(Len(s) + 1),
                      t[i] = t[j]
               PROVE  i = j
    BY <1>1 DEF IsInjective
  <2>1. \A k \in 1..Len(s) : s[k] # e BY <1>1, <1>6 DEF ToSet
  <2>2. \A k, l \in 1..Len(s) : s[k] = s[l] => k = l BY <1>1, <1>6 DEF IsInjective
  <2> QED BY <1>1, <2>1, <2>2
<1> QED BY <1>1, <1>5, <1>6 DEF t

-------------------------------------------------------------------------------
(* Where the submitted operations are. *)
Apart(P, W, S, A, D, E) ==
    /\ P \cap W = {} /\ P \cap S = {} /\ P \cap A = {} /\ P \cap D = {} /\ P \cap E = {}
    /\ W \cap S = {} /\ W \cap A = {} /\ W \cap D = {} /\ W \cap E = {}
    /\ S \cap A = {} /\ S \cap D = {} /\ S \cap E = {}
    /\ A \cap D = {} /\ A \cap E = {} /\ D \cap E = {}

Placement ==
    /\ IsInjective(pending) /\ IsInjective(waiting) /\ IsInjective(arrivals)
    /\ Submitted = ToSet(pending) \cup ToSet(waiting) \cup starting \cup active
                     \cup dropped \cup ended
    /\ Apart(ToSet(pending), ToSet(waiting), starting, active, dropped, ended)

(* The inductive invariant. Permits are only conserved because no operation is in two places: a
   second copy of one would merge in the sets. *)
IInv == TypeOK /\ Placement /\ PermitsConserved

LEMMA InitInv == Init => IInv
<1> SUFFICES ASSUME Init PROVE IInv OBVIOUS
<1>1. ToSet(<<>>) = {} /\ IsInjective(<<>>) BY DEF ToSet, IsInjective
<1>2. TypeOK BY MaxAssumption DEF Init, TypeOK
<1>3. Placement BY <1>1 DEF Init, Placement, Apart, Submitted
<1>4. PermitsConserved BY MaxAssumption, FS_EmptySet DEF Init, PermitsConserved
<1> QED BY <1>2, <1>3, <1>4 DEF IInv

(* What one step does to the places, given where everything is. *)
LEMMA StepInv == IInv /\ [Next]_queueVars => IInv'
<1> SUFFICES ASSUME IInv, [Next]_queueVars PROVE IInv' OBVIOUS
<1> USE DEF IInv
<1>t. TypeOK /\ Placement /\ PermitsConserved
  OBVIOUS
<1>f. IsFiniteSet(starting) /\ IsFiniteSet(active)
  BY <1>t, OpsAssumption, FS_Subset DEF TypeOK
<1>c. Cardinality(starting) \in Nat /\ Cardinality(active) \in Nat
  BY <1>f, FS_CardinalityType
<1>1. ASSUME NEW o \in Ops, Submit(o) PROVE IInv'
  <2>1. PICK pos \in 1..(Len(pending) + 1) : pending' = InsertAt(pending, pos, o) BY <1>1 DEF Submit
  <2>2. pending' \in Seq(Ops)
    <3>1. pending \in Seq(Ops) BY <1>t DEF TypeOK
    <3> QED BY <3>1, <1>1, <2>1, InsertPending
  <2>3. arrivals' \in Seq(Ops) /\ Submitted' = Submitted \cup {o}
        /\ (IsInjective(arrivals) /\ o \notin Submitted => IsInjective(arrivals'))
    BY <1>t, <1>1, AppendSet DEF Submit, TypeOK, Submitted
  <2>4. ToSet(pending') = ToSet(pending) \cup {o}
        /\ (IsInjective(pending) /\ o \notin ToSet(pending) => IsInjective(pending'))
    BY <1>t, <1>1, <2>1, InsertAtSet DEF TypeOK
  <2>5. o \notin Submitted BY <1>1 DEF Submit
  <2>6. TypeOK' BY <1>t, <1>1, <2>2, <2>3 DEF Submit, TypeOK
  <2>7. Placement' BY <1>t, <1>1, <2>3, <2>4, <2>5 DEF Submit, Placement, Apart
  <2>8. PermitsConserved' BY <1>t, <1>1 DEF Submit, PermitsConserved
  <2> QED BY <2>6, <2>7, <2>8
<1>2. ASSUME PopFront PROVE IInv'
  <2>1. /\ ToSet(pending') = ToSet(pending) \ {Head(pending)}
        /\ Head(pending) \in ToSet(pending) /\ IsInjective(pending')
        /\ pending' \in Seq(Ops) /\ Head(pending) \in Ops
    BY <1>t, <1>2, TailSet, TailEntries DEF PopFront, TypeOK, Placement
  <2>2. /\ ToSet(waiting') = ToSet(waiting) \cup {Head(pending)}
        /\ waiting' \in Seq(Ops)
        /\ Head(pending) \notin ToSet(waiting) => IsInjective(waiting')
    BY <1>t, <1>2, <2>1, AppendSet DEF PopFront, TypeOK, Placement
  <2>3. Head(pending) \notin ToSet(waiting) BY <1>t, <2>1 DEF Placement, Apart
  <2>4. TypeOK' BY <1>t, <1>2, <2>1, <2>2 DEF PopFront, TypeOK
  <2>5. Placement' BY <1>t, <1>2, <2>1, <2>2, <2>3 DEF PopFront, Placement, Apart, Submitted
  <2>6. PermitsConserved' BY <1>t, <1>2 DEF PopFront, PermitsConserved
  <2> QED BY <2>4, <2>5, <2>6
<1>3. ASSUME AcquirePermit PROVE IInv'
  <2>1. /\ ToSet(waiting') = ToSet(waiting) \ {Head(waiting)}
        /\ Head(waiting) \in ToSet(waiting) /\ IsInjective(waiting')
        /\ waiting' \in Seq(Ops) /\ Head(waiting) \in Ops
    BY <1>t, <1>3, TailSet, TailEntries DEF AcquirePermit, TypeOK, Placement
  <2>2. Head(waiting) \notin starting BY <1>t, <2>1 DEF Placement, Apart
  <2>3. Cardinality(starting') = Cardinality(starting) + 1
    BY <1>f, <1>3, <2>2, FS_AddElement DEF AcquirePermit
  <2>4. TypeOK' BY <1>t, <1>3, <2>1, MaxAssumption DEF AcquirePermit, TypeOK
  <2>5. Placement' BY <1>t, <1>3, <2>1 DEF AcquirePermit, Placement, Apart, Submitted
  <2>6. PermitsConserved' BY <1>t, <1>c, <1>3, <2>3 DEF AcquirePermit, PermitsConserved, TypeOK
  <2> QED BY <2>4, <2>5, <2>6
<1>4. ASSUME NEW o \in Ops, StartRunning(o) PROVE IInv'
  <2>1. o \in starting /\ o \notin active BY <1>t, <1>4 DEF StartRunning, Placement, Apart
  <2>2. Cardinality(starting') = Cardinality(starting) - 1
    BY <1>f, <1>4, <2>1, FS_RemoveElement DEF StartRunning
  <2>3. Cardinality(active') = Cardinality(active) + 1
    BY <1>f, <1>4, <2>1, FS_AddElement DEF StartRunning
  <2>4. TypeOK' BY <1>t, <1>4 DEF StartRunning, TypeOK
  <2>5. Placement' BY <1>t, <1>4, <2>1 DEF StartRunning, Placement, Apart, Submitted
  <2>6. PermitsConserved' BY <1>t, <1>c, <1>4, <2>2, <2>3 DEF StartRunning, PermitsConserved, TypeOK
  <2> QED BY <2>4, <2>5, <2>6
<1>5. ASSUME NEW o \in Ops, Complete(o) PROVE IInv'
  <2>1. o \in active BY <1>5 DEF Complete
  <2>2. Cardinality(active') = Cardinality(active) - 1 /\ Cardinality(active) >= 1
    <3>1. Cardinality(active') = Cardinality(active) - 1 /\ IsFiniteSet(active')
      BY <1>f, <1>5, <2>1, FS_RemoveElement DEF Complete
    <3>2. Cardinality(active') \in Nat BY <3>1, FS_CardinalityType
    <3> QED BY <1>c, <3>1, <3>2
  <2>3. permits' \in 0..MaxConcurrency
    BY <1>t, <1>c, <1>5, <2>2, MaxAssumption DEF Complete, PermitsConserved, TypeOK
  <2>4. TypeOK' BY <1>t, <1>5, <2>3 DEF Complete, TypeOK
  <2>5. Placement' BY <1>t, <1>5, <2>1 DEF Complete, Placement, Apart, Submitted
  <2>6. PermitsConserved' BY <1>t, <1>c, <1>5, <2>2 DEF Complete, PermitsConserved, TypeOK
  <2> QED BY <2>4, <2>5, <2>6
<1>6. ASSUME NEW o \in Ops, CancelPending(o) PROVE IInv'
  <2>1. PICK i \in 1..Len(pending) : pending[i] = o /\ pending' = RemoveAt(pending, i)
    BY <1>6 DEF CancelPending
  <2>2. /\ ToSet(pending') = ToSet(pending) \ {o} /\ IsInjective(pending')
        /\ pending' \in Seq(Ops)
    BY <1>t, <2>1, RemoveAtSet, RemoveAtEntries DEF TypeOK, Placement
  <2>3. o \in ToSet(pending) BY <1>t, <2>1 DEF ToSet, TypeOK
  <2>4. TypeOK' BY <1>t, <1>6, <2>2 DEF CancelPending, TypeOK
  <2>5. Placement' BY <1>t, <1>6, <2>2, <2>3 DEF CancelPending, Placement, Apart, Submitted
  <2>6. PermitsConserved' BY <1>t, <1>6 DEF CancelPending, PermitsConserved
  <2> QED BY <2>4, <2>5, <2>6
<1>7. ASSUME NEW o \in Ops, CancelMiss(o) \/ CancelMark(o) \/ ClearCancelled(o) PROVE IInv'
  <2>1. UNCHANGED <<pending, waiting, starting, active, permits, arrivals, dropped, ended>>
    BY <1>7 DEF CancelMiss, CancelMark, ClearCancelled
  <2>2. TypeOK' BY <1>t, <1>7 DEF CancelMiss, CancelMark, ClearCancelled, TypeOK
  <2>3. Placement' /\ PermitsConserved' BY <1>t, <2>1 DEF Placement, Apart, Submitted, PermitsConserved
  <2> QED BY <2>2, <2>3
<1>8. CASE UNCHANGED queueVars
  BY <1>t, <1>8 DEF queueVars, TypeOK, Placement, Apart, Submitted, PermitsConserved
<1> QED BY <1>1, <1>2, <1>3, <1>4, <1>5, <1>6, <1>7, <1>8 DEF Next

(* Every reachable state satisfies the inductive invariant. *)
THEOREM QueueInvariant == Spec => []IInv
<1> QED BY InitInv, StepInv, PTL DEF Spec

(* The fields keep their types; in particular permits stays in 0..MaxConcurrency. *)
THEOREM QueueTypes == Spec => []TypeOK
<1>1. IInv => TypeOK BY DEF IInv
<1> QED BY QueueInvariant, <1>1, PTL

(* take_next's forgotten permits and complete's new ones always balance. *)
THEOREM PermitsBalance == Spec => []PermitsConserved
<1>1. IInv => PermitsConserved BY DEF IInv
<1> QED BY QueueInvariant, <1>1, PTL

(* Hence the bound the queue exists for: never more than MaxConcurrency. *)
THEOREM BoundedConcurrency == Spec => [](Cardinality(active) <= MaxConcurrency)
<1>1. IInv => Cardinality(active) <= MaxConcurrency
  <2> SUFFICES ASSUME IInv PROVE Cardinality(active) <= MaxConcurrency OBVIOUS
  <2>1. IsFiniteSet(starting) /\ IsFiniteSet(active) BY OpsAssumption, FS_Subset DEF IInv, TypeOK
  <2>2. Cardinality(starting) \in Nat /\ Cardinality(active) \in Nat BY <2>1, FS_CardinalityType
  <2> QED BY <2>2, MaxAssumption DEF IInv, TypeOK, PermitsConserved
<1> QED BY QueueInvariant, <1>1, PTL

(* No submitted operation is lost between two locks or exists twice. *)
THEOREM NothingLostOrDoubled == Spec => []OneStageEach
<1>1. IInv => OneStageEach
  <2> SUFFICES ASSUME IInv PROVE OneStageEach OBVIOUS
  <2> DEFINE places == <<ToSet(pending), ToSet(waiting), starting, active,
                         dropped, ended>>
  <2>1. 1..6 = {1, 2, 3, 4, 5, 6} OBVIOUS
  <2>2. UNION {places[k] : k \in 1..6} =
            places[1] \cup places[2] \cup places[3] \cup places[4]
            \cup places[5] \cup places[6]
    <3> HIDE DEF places
    <3> QED BY <2>1
  <2>3. Submitted = UNION {places[k] : k \in 1..6} BY <2>2 DEF IInv, Placement
  <2>4. \A k, l \in 1..6 : k # l => places[k] \cap places[l] = {}
    <3>1. Apart(places[1], places[2], places[3], places[4], places[5], places[6]) BY DEF IInv, Placement
    <3> HIDE DEF places
    <3> QED BY <2>1, <3>1 DEF Apart
  <2> QED BY <2>3, <2>4 DEF OneStageEach, IInv, Placement
<1> QED BY QueueInvariant, <1>1, PTL

(* A cancel call is never lost, whatever stage its operation is in. *)
THEOREM CancelsAreNotLost == Spec => []CancelNotLost
<1>1. Init => CancelNotLost BY DEF Init, CancelNotLost
<1>2. CancelNotLost /\ [Next]_queueVars => CancelNotLost'
  <2> SUFFICES ASSUME CancelNotLost, [Next]_queueVars PROVE CancelNotLost' OBVIOUS
  <2> USE DEF CancelNotLost
  <2>1. ASSUME NEW o \in Ops,
               CancelPending(o) \/ CancelMiss(o) \/ CancelMark(o) \/ ClearCancelled(o)
        PROVE  CancelNotLost'
    BY <2>1 DEF CancelPending, CancelMiss, CancelMark, ClearCancelled
  <2>2. ASSUME UNCHANGED <<dropped, cancelled, cancelling, heard, asked>> PROVE CancelNotLost' BY <2>2
  <2>3. ASSUME NEW o \in Ops, Submit(o) \/ StartRunning(o) \/ Complete(o) PROVE CancelNotLost'
    BY <2>2, <2>3 DEF Submit, StartRunning, Complete
  <2> QED BY <2>1, <2>2, <2>3 DEF Next, PopFront, AcquirePermit, queueVars
<1> QED BY <1>1, <1>2, PTL DEF Spec

-------------------------------------------------------------------------------
(* The order of the pending queue. *)
OrderInv == PendingSorted /\ EqualsKeepOrder

LEMMA OrderStep == IInv /\ OrderInv /\ [Next]_queueVars => OrderInv'
<1> SUFFICES ASSUME IInv, PendingSorted, EqualsKeepOrder, [Next]_queueVars PROVE OrderInv'
  BY DEF OrderInv
<1>t. /\ pending \in Seq(Ops) /\ arrivals \in Seq(Ops) /\ IsInjective(pending)
      /\ \A i \in 1..Len(pending) : pending[i] \in ToSet(arrivals)
  <2>1. \A i \in 1..Len(pending) : pending[i] \in ToSet(pending) BY DEF IInv, TypeOK, ToSet
  <2> QED BY <2>1 DEF IInv, TypeOK, Placement, Submitted
<1>r. \A o \in Ops : Rank[o] \in Int
  BY RankAssumption
<1>1. ASSUME NEW o \in Ops, Submit(o) PROVE OrderInv'
  <2>1. PICK pos \in 1..(Len(pending) + 1) :
           InsertPosition(pos, o) /\ pending' = InsertAt(pending, pos, o)
    BY <1>1 DEF Submit
  <2>2. /\ pending' \in Seq(Ops) /\ Len(pending') = Len(pending) + 1
        /\ \A i \in 1..(Len(pending) + 1) :
              /\ i < pos => i \in 1..Len(pending) /\ pending'[i] = pending[i]
              /\ i = pos => pending'[i] = o
              /\ i > pos => (i - 1) \in 1..Len(pending) /\ pending'[i] = pending[i - 1]
    <3>1. pending \in Seq(Ops) /\ o \in Ops /\ pending' = InsertAt(pending, pos, o) BY <1>t, <1>1, <2>1
    <3> QED BY <3>1, InsertPending
  <2>3. /\ \A i \in 1..(pos - 1) : Rank[pending[i]] >= Rank[o]
        /\ \A i \in 1..Len(pending) : i >= pos => Rank[pending[i]] < Rank[o]
    <3>1. /\ \A i \in 1..(pos - 1) : Rank[pending[i]] >= Rank[o]
          /\ pos <= Len(pending) => Rank[pending[pos]] < Rank[o]
      BY <2>1 DEF InsertPosition
    <3>2. ASSUME NEW i \in 1..Len(pending), i >= pos PROVE Rank[pending[i]] < Rank[o]
      <4>1. pos \in 1..Len(pending) /\ pending[i] \in Ops /\ pending[pos] \in Ops BY <1>t, <3>2
      <4>2. i > pos => Rank[pending[pos]] >= Rank[pending[i]] BY <3>2, <4>1 DEF PendingSorted
      <4>3. /\ Rank[pending[i]] \in Int /\ Rank[pending[pos]] \in Int
            /\ Rank[o] \in Int /\ Rank[pending[pos]] < Rank[o]
        BY <1>r, <1>1, <3>1, <4>1
      <4> QED BY <3>2, <4>2, <4>3
    <3> QED BY <3>1, <3>2
  <2>4. \A i \in 1..Len(pending) : pending[i] \in Ops /\ Rank[pending[i]] \in Int BY <1>t, <1>r
  <2>5. PendingSorted'
    <3> SUFFICES ASSUME NEW i \in 1..(Len(pending) + 1), NEW j \in 1..(Len(pending) + 1),
                        i < j
                 PROVE  Rank[pending'[i]] >= Rank[pending'[j]]
      BY <2>2 DEF PendingSorted
    <3>1. CASE j < pos
      <4>1. /\ i \in 1..Len(pending) /\ j \in 1..Len(pending)
            /\ pending'[i] = pending[i] /\ pending'[j] = pending[j]
        BY <2>2, <3>1
      <4> QED BY <4>1 DEF PendingSorted
    <3>2. CASE j = pos
      <4>1. i \in 1..(pos - 1) /\ pending'[i] = pending[i] /\ pending'[j] = o BY <2>2, <3>2
      <4> QED BY <2>3, <4>1
    <3>3. CASE j > pos /\ i < pos
      <4>1. i <= j - 1 BY <3>3
      <4>2. CASE i < j - 1 BY <2>2, <3>3, <4>2 DEF PendingSorted
      <4>3. CASE i = j - 1 BY <3>3, <4>3
      <4> QED BY <4>1, <4>2, <4>3
    <3>4. CASE j > pos /\ i = pos
      <4>1. (j - 1) \in 1..Len(pending) /\ j - 1 >= pos BY <2>2, <3>4
      <4>2. Rank[pending[j - 1]] < Rank[o] BY <2>3, <4>1
      <4>3. Rank[pending[j - 1]] \in Int /\ Rank[o] \in Int BY <1>r, <1>1, <2>4, <4>1
      <4> QED BY <2>2, <3>4, <4>2, <4>3
    <3>5. CASE j > pos /\ i > pos
      <4>1. /\ (i - 1) \in 1..Len(pending) /\ (j - 1) \in 1..Len(pending) /\ i - 1 < j - 1
            /\ pending'[i] = pending[i - 1] /\ pending'[j] = pending[j - 1]
        BY <2>2, <3>5
      <4> QED BY <4>1 DEF PendingSorted
    <3> QED BY <3>1, <3>2, <3>3, <3>4, <3>5
  <2>6. /\ Len(arrivals') = Len(arrivals) + 1
        /\ \A m \in 1..Len(arrivals) : arrivals'[m] = arrivals[m]
        /\ arrivals'[Len(arrivals) + 1] = o
    BY <1>t, <1>1 DEF Submit
  <2>7. \A i \in 1..Len(pending) : pending[i] # o BY <1>t, <1>1 DEF Submit, Submitted
  <2>8. EqualsKeepOrder'
    <3> SUFFICES ASSUME NEW i \in 1..(Len(pending) + 1), NEW j \in 1..(Len(pending) + 1),
                        NEW m \in 1..(Len(arrivals) + 1), NEW n \in 1..(Len(arrivals) + 1),
                        i < j, Rank[pending'[i]] = Rank[pending'[j]],
                        arrivals'[m] = pending'[i], arrivals'[n] = pending'[j]
                 PROVE  m < n
      BY <2>2, <2>6 DEF EqualsKeepOrder
    <3>1. CASE i = pos
      <4>1. (j - 1) \in 1..Len(pending) /\ j - 1 >= pos BY <2>2, <3>1
      <4>2. Rank[pending[j - 1]] < Rank[o] BY <2>3, <4>1
      <4>3. Rank[pending[j - 1]] \in Int /\ Rank[o] \in Int BY <1>r, <1>1, <2>4, <4>1
      <4>4. pending'[i] = o /\ pending'[j] = pending[j - 1] BY <2>2, <3>1
      <4> QED BY <4>2, <4>3, <4>4
    <3>2. CASE i # pos
      <4>1. PICK a \in 1..Len(pending) :
               /\ pending'[i] = pending[a]
               /\ (a = i /\ i < pos) \/ (a = i - 1 /\ i > pos)
        BY <2>2, <3>2
      <4>2. m \in 1..Len(arrivals) /\ arrivals[m] = pending[a] BY <1>t, <2>6, <2>7, <4>1
      <4>3. CASE j = pos
        <5>1. n = Len(arrivals) + 1
          <6>1. arrivals'[n] = o BY <2>2, <4>3
          <6>2. ASSUME n \in 1..Len(arrivals) PROVE FALSE
            <7>1. arrivals[n] = o /\ o \in ToSet(arrivals) BY <1>t, <2>6, <6>1, <6>2 DEF ToSet
            <7> QED BY <1>1, <7>1 DEF Submit, Submitted
          <6> QED BY <1>t, <6>2
        <5> QED BY <4>2, <5>1
      <4>4. CASE j # pos
        <5>1. PICK b \in 1..Len(pending) :
                 /\ pending'[j] = pending[b]
                 /\ (b = j /\ j < pos) \/ (b = j - 1 /\ j > pos)
          BY <2>2, <4>4
        <5>2. n \in 1..Len(arrivals) /\ arrivals[n] = pending[b] BY <1>t, <2>6, <2>7, <5>1
        <5>3. CASE a < b BY <4>1, <4>2, <5>1, <5>2, <5>3 DEF EqualsKeepOrder
        <5>4. a < b BY <4>1, <5>1
        <5> QED BY <5>3, <5>4
      <4> QED BY <4>3, <4>4
    <3> QED BY <3>1, <3>2
  <2> QED BY <2>5, <2>8 DEF OrderInv
<1>2. ASSUME PopFront PROVE OrderInv'
  <2>1. /\ pending' = Tail(pending) /\ arrivals' = arrivals
        /\ Len(pending') = Len(pending) - 1
        /\ \A i \in 1..(Len(pending) - 1) :
              (i + 1) \in 1..Len(pending) /\ pending'[i] = pending[i + 1]
    BY <1>t, <1>2, TailEntries DEF PopFront
  <2>2. PendingSorted' BY <1>t, <2>1 DEF PendingSorted
  <2>3. EqualsKeepOrder'
    <3> SUFFICES ASSUME NEW i \in 1..(Len(pending) - 1), NEW j \in 1..(Len(pending) - 1),
                        NEW m \in 1..Len(arrivals), NEW n \in 1..Len(arrivals),
                        i < j, Rank[pending'[i]] = Rank[pending'[j]],
                        arrivals[m] = pending'[i], arrivals[n] = pending'[j]
                 PROVE  m < n
      BY <2>1, SMTT(20) DEF EqualsKeepOrder
    <3>1. /\ (i + 1) \in 1..Len(pending) /\ (j + 1) \in 1..Len(pending)
          /\ i + 1 < j + 1
          /\ pending'[i] = pending[i + 1] /\ pending'[j] = pending[j + 1]
      BY <2>1
    <3> QED BY <3>1 DEF EqualsKeepOrder
  <2> QED BY <2>2, <2>3 DEF OrderInv
<1>3. ASSUME NEW o \in Ops, CancelPending(o) PROVE OrderInv'
  <2>1. PICK p \in 1..Len(pending) : pending' = RemoveAt(pending, p) BY <1>3 DEF CancelPending
  <2>2. /\ Len(pending') = Len(pending) - 1 /\ arrivals' = arrivals
        /\ \A i \in 1..(Len(pending) - 1) :
              pending'[i] = IF i < p THEN pending[i] ELSE pending[i + 1]
    <3> DEFINE new == RemoveAt(pending, p)
    <3>1. /\ Len(new) = Len(pending) - 1
          /\ \A i \in 1..(Len(pending) - 1) :
                new[i] = IF i < p THEN pending[i] ELSE pending[i + 1]
      BY <1>t, <2>1, RemoveAtEntries
    <3>2. pending' = new /\ arrivals' = arrivals BY <1>3, <2>1 DEF new, CancelPending
    <3> HIDE DEF new
    <3> QED BY <3>1, <3>2
  <2>3. \A i, j \in 1..(Len(pending) - 1) : i < j =>
           \E k, l \in 1..Len(pending) :
              k < l /\ pending'[i] = pending[k] /\ pending'[j] = pending[l]
    <3> SUFFICES ASSUME NEW i \in 1..(Len(pending) - 1), NEW j \in 1..(Len(pending) - 1),
                        i < j
                 PROVE  \E k, l \in 1..Len(pending) :
                           k < l /\ pending'[i] = pending[k] /\ pending'[j] = pending[l]
      OBVIOUS
    <3>1. \E k \in 1..Len(pending) : pending'[i] = pending[k] /\ k = IF i < p THEN i ELSE i + 1
      BY <1>t, <2>2
    <3>2. \E l \in 1..Len(pending) : pending'[j] = pending[l] /\ l = IF j < p THEN j ELSE j + 1
      BY <1>t, <2>2, SMTT(20)
    <3>3. (IF i < p THEN i ELSE i + 1) < (IF j < p THEN j ELSE j + 1) OBVIOUS
    <3> QED BY <3>1, <3>2, <3>3
  <2>4. PendingSorted' BY <2>2, <2>3 DEF PendingSorted
  <2>5. EqualsKeepOrder'
    <3> SUFFICES ASSUME NEW i \in 1..(Len(pending) - 1), NEW j \in 1..(Len(pending) - 1),
                        NEW m \in 1..Len(arrivals), NEW n \in 1..Len(arrivals),
                        i < j, Rank[pending'[i]] = Rank[pending'[j]],
                        arrivals[m] = pending'[i], arrivals[n] = pending'[j]
                 PROVE  m < n
      BY <2>2 DEF EqualsKeepOrder
    <3>1. PICK k \in 1..Len(pending), l \in 1..Len(pending) :
             k < l /\ pending'[i] = pending[k] /\ pending'[j] = pending[l]
      BY <2>3
    <3> QED BY <3>1 DEF EqualsKeepOrder
  <2> QED BY <2>4, <2>5 DEF OrderInv
<1>4. ASSUME UNCHANGED <<pending, arrivals>> PROVE OrderInv'
  BY <1>4 DEF OrderInv, PendingSorted, EqualsKeepOrder
<1>5. ASSUME NEW o \in Ops,
             \/ StartRunning(o) \/ Complete(o)
             \/ CancelMiss(o) \/ CancelMark(o) \/ ClearCancelled(o)
      PROVE  OrderInv'
  BY <1>4, <1>5 DEF StartRunning, Complete, CancelMiss, CancelMark, ClearCancelled
<1> QED BY <1>1, <1>2, <1>3, <1>4, <1>5 DEF Next, AcquirePermit, queueVars

(* The pending queue is sorted by priority, and equal priorities keep the order in which they
   were submitted. *)
THEOREM QueueOrder == Spec => []InOrder
<1>1. Init => OrderInv BY DEF Init, OrderInv, PendingSorted, EqualsKeepOrder
<1>2. OrderInv => InOrder BY DEF OrderInv, InOrder
<1> QED BY QueueInvariant, <1>1, <1>2, OrderStep, PTL DEF Spec

-------------------------------------------------------------------------------
(* The queue implements the abstract pool. *)

(* Outside its own stage change a step leaves every operation where it is. *)
LEMMA StageMove ==
    ASSUME IInv, IInv', NEW o \in Ops, NEW from, NEW to,
           StageOf[o] = from, StageOf'[o] = to,
           \A x \in Ops : x # o => StageOf'[x] = StageOf[x]
    PROVE  Pool!Move(o, from, to)
<1> DEFINE old == StageOf
           new == StageOf'
<1>1. /\ old = [x \in Ops |-> old[x]] /\ new = [x \in Ops |-> new[x]]
      /\ DOMAIN old = Ops
  BY DEF StageOf
<1>2. /\ old[o] = from /\ new[o] = to
      /\ \A x \in Ops : x # o => new[x] = old[x]
  OBVIOUS
<1>3. new = [old EXCEPT ![o] = to]
  <2> HIDE DEF old, new
  <2> QED BY <1>1, <1>2
<1> QED BY <1>2, <1>3 DEF Pool!Move

LEMMA RunningAreActive == ASSUME IInv PROVE Pool!Running = active
<1>1. \A o \in Ops : StageOf[o] = "running" <=> o \in active BY DEF StageOf
<1> QED BY <1>1 DEF Pool!Running, IInv, TypeOK

LEMMA PoolStep == IInv /\ IInv' /\ [Next]_queueVars => [Pool!PoolNext]_StageOf
<1> SUFFICES ASSUME IInv, IInv', [Next]_queueVars PROVE Pool!PoolNext \/ StageOf' = StageOf
  BY DEF Pool!PoolNext
<1>p. /\ Submitted = ToSet(pending) \cup ToSet(waiting) \cup starting
                       \cup active \cup dropped \cup ended
      /\ Apart(ToSet(pending), ToSet(waiting), starting, active, dropped, ended)
      /\ arrivals \in Seq(Ops) /\ pending \in Seq(Ops)
  BY DEF IInv, Placement, TypeOK
<1>1. ASSUME NEW o \in Ops, Submit(o) PROVE Pool!PoolNext
  <2>1. Submitted' = Submitted \cup {o} /\ o \notin Submitted
    BY <1>p, <1>1, AppendSet DEF Submit, Submitted
  <2>2. /\ StageOf[o] = "new" /\ StageOf'[o] = "waiting"
        /\ \A x \in Ops : x # o => StageOf'[x] = StageOf[x]
    BY <1>p, <1>1, <2>1 DEF StageOf, Submit
  <2>3. Pool!Accept(o) BY <2>2, StageMove DEF Pool!Accept
  <2> QED BY <2>3 DEF Pool!PoolNext
<1>2. ASSUME NEW o \in Ops, StartRunning(o) PROVE Pool!PoolNext
  <2>1. o \in starting /\ Submitted' = Submitted BY <1>2 DEF StartRunning, Submitted
  <2>2. /\ StageOf[o] = "waiting" /\ StageOf'[o] = "running"
        /\ \A x \in Ops : x # o => StageOf'[x] = StageOf[x]
    BY <1>p, <1>2, <2>1 DEF StageOf, StartRunning, Apart
  <2>3. Cardinality(active) < MaxConcurrency
    <3>1. IsFiniteSet(starting) /\ IsFiniteSet(active) BY OpsAssumption, FS_Subset DEF IInv, TypeOK
    <3>2. Cardinality(starting) \in Nat /\ Cardinality(active) \in Nat BY <3>1, FS_CardinalityType
    <3>3. Cardinality(starting) # 0 BY <2>1, <3>1, FS_EmptySet
    <3> QED BY <3>2, <3>3, MaxAssumption DEF IInv, TypeOK, PermitsConserved
  <2>4. Pool!Run(o)
    <3>1. Pool!Move(o, "waiting", "running") BY <2>2, StageMove
    <3>2. Pool!Cardinality(active) = Cardinality(active)
      BY DEF Pool!Cardinality, Cardinality, Pool!IsFiniteSet, IsFiniteSet
    <3>3. Pool!Running = active BY RunningAreActive
    <3> QED BY <2>3, <3>1, <3>2, <3>3 DEF Pool!Run
  <2> QED BY <2>4 DEF Pool!PoolNext
<1>3. ASSUME NEW o \in Ops, Complete(o) PROVE Pool!PoolNext
  <2>1. o \in active /\ Submitted' = Submitted BY <1>3 DEF Complete, Submitted
  <2>2. /\ StageOf[o] = "running" /\ StageOf'[o] = "ended"
        /\ \A x \in Ops : x # o => StageOf'[x] = StageOf[x]
    BY <1>p, <1>3, <2>1 DEF StageOf, Complete, Apart
  <2>3. Pool!Finish(o) BY <2>2, StageMove DEF Pool!Finish
  <2> QED BY <2>3 DEF Pool!PoolNext
<1>4. ASSUME NEW o \in Ops, CancelPending(o) PROVE Pool!PoolNext
  <2>1. o \in ToSet(pending) /\ Submitted' = Submitted BY <1>p, <1>4 DEF CancelPending, Submitted, ToSet
  <2>2. /\ StageOf[o] = "waiting" /\ StageOf'[o] = "dropped"
        /\ \A x \in Ops : x # o => StageOf'[x] = StageOf[x]
    BY <1>p, <1>4, <2>1 DEF StageOf, CancelPending, Apart
  <2>3. Pool!Drop(o) BY <2>2, StageMove DEF Pool!Drop
  <2> QED BY <2>3 DEF Pool!PoolNext
<1>5. ASSUME UNCHANGED <<active, ended, dropped, arrivals>> PROVE StageOf' = StageOf
  BY <1>5 DEF StageOf, Submitted
<1>6. ASSUME NEW o \in Ops, CancelMiss(o) \/ CancelMark(o) \/ ClearCancelled(o)
      PROVE  StageOf' = StageOf
  BY <1>5, <1>6 DEF CancelMiss, CancelMark, ClearCancelled
<1> QED BY <1>1, <1>2, <1>3, <1>4, <1>5, <1>6 DEF Next, PopFront, AcquirePermit, queueVars

(* Bounded, and each operation run at most once: every behaviour of the queue is one of
   TaskPool under StageOf. *)
THEOREM QueueImplementsPool == Spec => ImplementsPool
<1>1. Init => Pool!PoolInit BY DEF Init, Pool!PoolInit, StageOf, Submitted, ToSet
<1>2. Spec => Pool!PoolSpec BY <1>1, PoolStep, QueueInvariant, PTL DEF Spec, Pool!PoolSpec
<1> QED BY <1>2 DEF ImplementsPool

-------------------------------------------------------------------------------
(* Chooser: calls of other programs, their dialogs, and the process. *)

(* The fields of calls and dialogs, and what the process keeps. *)
CallFields == {"pc", "handle", "closed", "answer"}
DialogFields ==
    {"pc", "folder", "loaded", "selected", "name", "hidden", "filter", "asked", "result", "there"}
TimerSet == [generation: Nat, quiet: BOOLEAN]
PortalSet ==
    [alive: BOOLEAN, open: Nat, generation: Nat, timers: SUBSET TimerSet,
     quitOn: TimerSet \cup {None}]
(* A dialog that is on screen. *)
Waiting == {"open", "asking"}

(* Calls, dialogs and requests have their fields. *)
CallShape(k) ==
    /\ DOMAIN k = CallFields
    /\ k.pc \in {"new", "sent", "shown", "replied", "returned", "failed"}
DialogShape(d) == DOMAIN d = DialogFields /\ d.pc \in {"none", "open", "asking", "done"}
AskerShape(a) ==
    /\ DOMAIN a = {"asks", "texts", "left", "closes"}
    /\ \A c \in DOMAIN a.asks : /\ a.asks[c].mode \in {"Open", "Save", "SaveFiles"}
                                /\ a.asks[c].filters \in Seq(DOMAIN Accepts)

(* Types; the default folder is there. *)
ChooserShape ==
    /\ disk \in [Paths -> {"none", "dir", "file"}] /\ disk[Home] = "dir"
    /\ DOMAIN call = Calls /\ DOMAIN dialog = Calls
    /\ \A c \in Calls : CallShape(call[c]) /\ DialogShape(dialog[c])
    /\ portal \in PortalSet /\ AskerShape(asker)

(* Saving has one path for its result, a folder of the disk if it is for several names. *)
OneResult(c, paths) ==
    \E f : paths = {f} /\ (Asks(c).mode = "SaveFiles" => f \in Paths)

(* A question on screen covers all that was there at the result's paths. *)
AskingFits(c, d) ==
    /\ Asks(c).mode # "Open" /\ OneResult(c, d.result)
    /\ \A p \in BuildResults(c, d.result) : p \in d.there => p \in d.asked

(* A dialog on screen shows a folder that is there and has rows selected that are there, as
   many as may be, and a filter that is offered. *)
FineDialog(c, d) ==
    /\ DialogShape(d) /\ d.pc \in Waiting /\ c \in DOMAIN asker.asks
    /\ IsDir(d.folder) /\ \A p \in d.selected : Exists(p)
    /\ (Asks(c).mode = "Open" /\ Asks(c).multiple) \/ Cardinality(d.selected) <= 1
    /\ d.filter \in Offered(c) \cup {None}
    /\ d.pc = "asking" => AskingFits(c, d)

(* Paths that a call may be answered with. *)
FineAnswer(c, paths) ==
    /\ Asks(c).mode = "Open" => \A p \in paths : Exists(p) /\ (IsDir(p) <=> PicksFolder(c))
    /\ (Asks(c).mode = "Open" /\ Asks(c).multiple) \/ Cardinality(paths) = 1
    /\ Asks(c).mode # "Open" => OneResult(c, paths)

(* A call has its dialog while it is shown, and an answer that fits from then on. *)
CallFits(c) ==
    /\ call[c].pc # "new" => c \in DOMAIN asker.asks
    /\ call[c].pc = "shown" <=> dialog[c].pc \in Waiting
    /\ dialog[c].pc \in Waiting => FineDialog(c, dialog[c])
    /\ call[c].pc = "replied" => DOMAIN call[c].answer = {"ok", "paths", "filter"}
    /\ call[c].pc = "replied" /\ call[c].answer.ok =>
          /\ call[c].answer.filter \in Offered(c) \cup {None}
          /\ FineAnswer(c, call[c].answer.paths)
    /\ call[c].pc = "returned" /\ call[c].answer.ok /\ Asks(c).mode = "SaveFiles" =>
          \E f \in Paths : call[c].answer.paths = {Join(f, n) : n \in Asks(c).files}

(* The dialogs on screen. *)
Dialogs == {c \in Calls : dialog[c].pc \in Waiting}

(* The process counts them, and while there is none, a timer of the present generation was set
   after the last one. *)
PortalFits ==
    /\ portal.open = Cardinality(Dialogs) /\ (~portal.alive => portal.open = 0)
    /\ \A t \in portal.timers :
          /\ t.generation <= portal.generation
          /\ portal.open = 0 /\ t.generation = portal.generation => t.quiet

(* The inductive invariant. *)
ChooserInv == ChooserShape /\ (\A c \in Calls : CallFits(c)) /\ PortalFits

-------------------------------------------------------------------------------
(* The invariant says what the run checks, and more. *)
LEMMA ChooserInvAnswers == ChooserInv => CallsGetTheirAnswers
<1> SUFFICES ASSUME ChooserInv PROVE CallsGetTheirAnswers OBVIOUS
<1>1. ChooserTypeOK BY DEF ChooserInv, ChooserShape, CallShape, DialogShape, PortalSet, ChooserTypeOK
<1>2. ASSUME NEW c \in Calls
      PROVE  /\ AnswerFits(c)
             /\ call[c].pc = "shown" <=> dialog[c].pc \in {"open", "asking"}
             /\ dialog[c].pc = "open" => IsDir(dialog[c].folder)
  <2>1. CallFits(c) BY <1>2 DEF ChooserInv
  <2> QED BY <2>1 DEF CallFits, AnswerFits, FineAnswer, FineDialog, Waiting
<1>3. portal.open = Cardinality({c \in Calls : dialog[c].pc \in {"open", "asking"}})
  BY DEF ChooserInv, PortalFits, Dialogs, Waiting
<1> QED BY <1>1, <1>2, <1>3 DEF CallsGetTheirAnswers

(* At first nobody asks, and the process does not run. *)
LEMMA ChooserInitInv == ChooserInit => ChooserInv
<1> SUFFICES ASSUME ChooserInit PROVE ChooserInv OBVIOUS
<1> USE ChooserAssumption DEF ChooserInit
<1>1. ChooserShape
  <2>1. \A c \in Calls : CallShape(call[c]) /\ DialogShape(dialog[c])
    BY DEF CallShape, DialogShape, NewCall, NewDialog, CallFields, DialogFields
  <2>2. portal \in PortalSet BY DEF PortalSet, NotRunning
  <2>3. AskerShape(asker) BY DEF AskerShape
  <2> QED BY <2>1, <2>2, <2>3 DEF ChooserShape
<1>2. \A c \in Calls : CallFits(c) BY DEF CallFits, NewCall, NewDialog, Waiting
<1>3. PortalFits
  <2>1. Dialogs = {} BY DEF Dialogs, NewDialog, Waiting
  <2>2. Cardinality(Dialogs) = 0 BY <2>1, FS_EmptySet
  <2> QED BY <2>2 DEF PortalFits, NotRunning
<1> QED BY <1>1, <1>2, <1>3 DEF ChooserInv

-------------------------------------------------------------------------------
(* What is on disk stays, and more may come. *)
DiskGrows ==
    /\ disk' \in [Paths -> {"none", "dir", "file"}]
    /\ \A p \in Paths : disk[p] # "none" => disk'[p] = disk[p]

(* A call that a step leaves alone stays as fine as it was, whatever is new on disk. *)
LEMMA CallFitsStays ==
    ASSUME NEW c \in Calls, CallFits(c), call'[c] = call[c], dialog'[c] = dialog[c],
           asker'.asks = asker.asks, DiskGrows
    PROVE  CallFits(c)'
<1> DEFINE d == dialog[c]
           paths == call[c].answer.paths
<1>1. \A p : IsDir(p) => IsDir(p)' BY DEF DiskGrows, IsDir
<1>2. \A p : Exists(p) => Exists(p)' /\ (IsDir(p) <=> IsDir(p)') BY DEF DiskGrows, IsDir, IsFile, Exists
<1>3. /\ Asks(c)' = Asks(c) /\ Offered(c)' = Offered(c) /\ PicksFolder(c)' = PicksFolder(c)
  BY DEF Asks, Offered, PicksFolder
<1>4. \A s : BuildResults(c, s)' = BuildResults(c, s) BY <1>3 DEF BuildResults
<1>5. d.pc \in Waiting => FineDialog(c, dialog[c])'
  <2> SUFFICES ASSUME d.pc \in Waiting PROVE FineDialog(c, dialog[c])' OBVIOUS
  <2>1. FineDialog(c, d) BY DEF CallFits
  <2>2. d.pc = "asking" => AskingFits(c, dialog[c])'
    BY <2>1, <1>3, <1>4 DEF FineDialog, AskingFits, OneResult
  <2>3. IsDir(dialog[c].folder)' /\ (\A p \in dialog[c].selected : Exists(p))'
    BY <2>1, <1>1, <1>2 DEF FineDialog
  <2> QED BY <2>1, <2>2, <2>3, <1>3 DEF FineDialog
<1>6. call[c].pc = "replied" /\ call[c].answer.ok => FineAnswer(c, call[c].answer.paths)'
  <2> SUFFICES ASSUME call[c].pc = "replied", call[c].answer.ok PROVE FineAnswer(c, call[c].answer.paths)'
    OBVIOUS
  <2>1. FineAnswer(c, paths) BY DEF CallFits
  <2>2. Asks(c).mode = "Open" => \A p \in paths : Exists(p)' /\ (IsDir(p)' <=> PicksFolder(c))
    BY <2>1, <1>2 DEF FineAnswer
  <2> QED BY <2>1, <2>2, <1>3 DEF FineAnswer, OneResult
<1> QED BY <1>3, <1>5, <1>6 DEF CallFits

-------------------------------------------------------------------------------
(* What is asked for stays. *)
AskerKept == AskerShape(asker)' /\ asker'.asks = asker.asks

(* What is asked for does not change when the user acts. *)
LEMMA ActsKeepsAsker ==
    ASSUME ChooserShape, asker' = [asker EXCEPT !.left = @ - 1] \/ asker' = asker
    PROVE  AskerKept
BY DEF ChooserShape, AskerShape, AskerKept

(* A step of one dialog alone. *)
LEMMA DialogMoves ==
    ASSUME ChooserInv, NEW c \in Calls, dialog[c].pc \in Waiting, AskerKept, DiskGrows,
           DOMAIN dialog' = Calls, \A k \in Calls \ {c} : dialog'[k] = dialog[k],
           FineDialog(c, dialog[c])', UNCHANGED <<call, portal>>
    PROVE  ChooserInv'
<1>1. ChooserShape'
  <2>1. DialogShape(dialog[c])' BY DEF FineDialog
  <2>2. \A k \in Calls : DialogShape(dialog[k])' BY <2>1 DEF ChooserInv, ChooserShape, DialogShape
  <2>3. disk'[Home] = "dir" BY ChooserAssumption DEF ChooserInv, ChooserShape, DiskGrows
  <2> QED BY <2>2, <2>3 DEF ChooserInv, ChooserShape, DiskGrows, AskerKept, CallShape
<1>2. \A k \in Calls \ {c} : CallFits(k)'
  <2>1. \A k \in Calls : CallFits(k) BY DEF ChooserInv
  <2> QED BY <2>1, CallFitsStays DEF AskerKept
<1>3. CallFits(c)'
  <2>1. CallFits(c) BY DEF ChooserInv
  <2>2. dialog'[c].pc \in Waiting BY DEF FineDialog
  <2>3. call[c].pc = "shown" /\ call'[c].pc = "shown" BY <2>1 DEF CallFits
  <2>4. c \in DOMAIN asker'.asks BY DEF FineDialog
  <2> QED BY <2>2, <2>3, <2>4 DEF CallFits
<1>4. PortalFits'
  <2>1. dialog'[c].pc \in Waiting BY DEF FineDialog
  <2>2. Dialogs' = Dialogs BY <2>1 DEF Dialogs
  <2> QED BY <2>2 DEF ChooserInv, PortalFits
<1> QED BY <1>1, <1>2, <1>3, <1>4 DEF ChooserInv

(* A dialog that stays on screen. *)
LEMMA StaysFits ==
    ASSUME ChooserInv, NEW c \in Calls, dialog[c].pc \in Waiting, AskerKept, UNCHANGED disk,
           NEW e, FineDialog(c, e), Stays(c, e)
    PROVE  ChooserInv'
<1>1. /\ DOMAIN dialog' = Calls /\ \A k \in Calls \ {c} : dialog'[k] = dialog[k]
      /\ dialog'[c] = e /\ UNCHANGED <<call, portal>>
  BY DEF Stays, ChooserInv, ChooserShape
<1>2. DiskGrows BY DEF ChooserInv, ChooserShape, DiskGrows
<1>3. FineDialog(c, dialog[c])'
  BY <1>1 DEF FineDialog, AskingFits, OneResult, BuildResults, Asks, Offered, IsDir, IsFile, Exists, AskerKept
<1> QED BY <1>1, <1>2, <1>3, DialogMoves

(* The timer set is of the new generation; no other is. *)
LEMMA IdleExitKeeps ==
    ASSUME NEW p \in PortalSet
    PROVE  /\ ScheduleIdleExit(p) \in PortalSet
           /\ ScheduleIdleExit(p).open = p.open /\ ScheduleIdleExit(p).alive = p.alive
           /\ (\A t \in p.timers : t.generation <= p.generation) =>
                 \A t \in ScheduleIdleExit(p).timers :
                    /\ t.generation <= ScheduleIdleExit(p).generation
                    /\ p.open = 0 /\ t.generation = ScheduleIdleExit(p).generation => t.quiet
<1>1. CASE p.open > 0 BY <1>1 DEF ScheduleIdleExit, PortalSet
<1>2. CASE ~(p.open > 0)
  <2> DEFINE n == p.generation + 1
             q == [p EXCEPT !.generation = @ + 1, !.timers = @ \cup {Timer(p.generation + 1)}]
  <2>1. ScheduleIdleExit(p) = q BY <1>2 DEF ScheduleIdleExit
  <2>2. /\ Timer(n) \in TimerSet /\ Timer(n).generation = n /\ Timer(n).quiet
    BY DEF Timer, TimerSet, PortalSet
  <2>3. /\ q \in PortalSet /\ q.open = p.open /\ q.alive = p.alive
        /\ q.generation = n /\ q.timers = p.timers \cup {Timer(n)}
    <3>1. n \in Nat /\ p.timers \cup {Timer(n)} \in SUBSET TimerSet BY <2>2 DEF PortalSet
    <3> HIDE DEF n
    <3>2. q = [p EXCEPT !.generation = n, !.timers = @ \cup {Timer(n)}] BY DEF n
    <3> QED BY <3>1, <3>2 DEF PortalSet
  <2>4. \A t \in p.timers : t.generation \in Nat BY DEF PortalSet, TimerSet
  <2>5. p.generation \in Nat BY DEF PortalSet
  <2> HIDE DEF q
  <2> QED BY <2>1, <2>2, <2>3, <2>4, <2>5, <1>2
<1> QED BY <1>1, <1>2


(* What Finish does, but for the state file. *)
Finished(c, d, paths) ==
    /\ dialog' = [dialog EXCEPT ![c] = [d EXCEPT !.pc = "done"]]
    /\ call' = [call EXCEPT ![c].pc = "replied",
                    ![c].answer = [ok |-> paths # {}, paths |-> paths,
                                   filter |-> IF paths = {} \/ Asks(c).filters = <<>> THEN None
                                              ELSE d.filter]]
    /\ portal' = ScheduleIdleExit([portal EXCEPT !.open = @ - 1])

(* The call and the dialog that have finished, field by field. *)
LEMMA FinishAnswers ==
    ASSUME ChooserShape, NEW c \in Calls, NEW d, DialogShape(d), NEW paths, Finished(c, d, paths)
    PROVE  /\ DOMAIN call' = Calls /\ DOMAIN dialog' = Calls
           /\ \A k \in Calls \ {c} : call'[k] = call[k] /\ dialog'[k] = dialog[k]
           /\ DOMAIN (call'[c]) = CallFields /\ call'[c].pc = "replied"
           /\ call'[c].answer = [ok |-> paths # {}, paths |-> paths,
                                   filter |-> IF paths = {} \/ Asks(c).filters = <<>> THEN None
                                              ELSE d.filter]
           /\ DOMAIN (dialog'[c]) = DialogFields /\ dialog'[c].pc = "done"
<1> DEFINE answer == [ok |-> paths # {}, paths |-> paths,
                      filter |-> IF paths = {} \/ Asks(c).filters = <<>> THEN None ELSE d.filter]
           new == [call[c] EXCEPT !.pc = "replied", !.answer = answer]
           done == [d EXCEPT !.pc = "done"]
<1>1. call' = [call EXCEPT ![c] = new] /\ dialog' = [dialog EXCEPT ![c] = done] BY DEF Finished
<1>2. DOMAIN call = Calls /\ DOMAIN dialog = Calls /\ CallShape(call[c]) BY DEF ChooserShape
<1>3. DOMAIN done = DialogFields /\ done.pc = "done" BY DEF DialogShape, DialogFields
<1>4. DOMAIN new = CallFields /\ new.pc = "replied" /\ new.answer = answer
  <2> HIDE DEF answer
  <2> QED BY <1>2 DEF CallShape, CallFields
<1> HIDE DEF new, done
<1> QED BY <1>1, <1>2, <1>3, <1>4

(* A dialog on screen is counted. *)
LEMMA OneFewer ==
    ASSUME ChooserInv, NEW c \in Calls, dialog[c].pc \in Waiting
    PROVE  /\ Cardinality(Dialogs \ {c}) = portal.open - 1 /\ portal.open - 1 \in Nat
           /\ portal.open \in Nat /\ portal.alive
<1>1. c \in Dialogs /\ IsFiniteSet(Dialogs) BY ChooserAssumption, FS_Subset DEF Dialogs
<1>2. Cardinality(Dialogs \ {c}) = Cardinality(Dialogs) - 1 BY <1>1, FS_RemoveElement
<1>3. IsFiniteSet(Dialogs \ {c}) /\ Cardinality(Dialogs \ {c}) \in Nat
  BY <1>1, FS_Subset, FS_CardinalityType
<1> QED BY <1>2, <1>3 DEF ChooserInv, PortalFits, ChooserShape, PortalSet

(* A dialog that answers leaves the invariant, its answer being fine. *)
LEMMA FinishedFits ==
    ASSUME ChooserInv, NEW c \in Calls, dialog[c].pc \in Waiting, AskerKept, UNCHANGED disk,
           NEW d, DialogShape(d), d.filter \in Offered(c) \cup {None},
           NEW paths, paths = {} \/ FineAnswer(c, paths), Finished(c, d, paths)
    PROVE  ChooserInv'
<1> DEFINE answer == [ok |-> paths # {}, paths |-> paths,
                      filter |-> IF paths = {} \/ Asks(c).filters = <<>> THEN None ELSE d.filter]
<1>1. /\ DOMAIN call' = Calls /\ DOMAIN dialog' = Calls
      /\ \A k \in Calls \ {c} : call'[k] = call[k] /\ dialog'[k] = dialog[k]
      /\ DOMAIN (call'[c]) = CallFields /\ call'[c].pc = "replied" /\ call'[c].answer = answer
      /\ DOMAIN (dialog'[c]) = DialogFields /\ dialog'[c].pc = "done"
  BY FinishAnswers DEF ChooserInv
<1>2. /\ answer.ok = (paths # {}) /\ answer.paths = paths
      /\ answer.filter = (IF paths = {} \/ Asks(c).filters = <<>> THEN None ELSE d.filter)
      /\ DOMAIN answer = {"ok", "paths", "filter"}
  OBVIOUS
<1> HIDE DEF answer
<1> DEFINE p == [portal EXCEPT !.open = @ - 1]
<1>3. p \in PortalSet /\ p.open = portal.open - 1 /\ p.alive /\ p.timers = portal.timers /\ p.generation = portal.generation
  BY OneFewer DEF PortalSet, ChooserInv, ChooserShape
<1>4. portal' = ScheduleIdleExit(p) BY DEF Finished
<1> HIDE DEF p
<1>5. \A t \in p.timers : t.generation <= p.generation BY <1>3 DEF ChooserInv, PortalFits
<1>6. /\ portal' \in PortalSet /\ portal'.open = portal.open - 1 /\ portal'.alive
      /\ \A t \in portal'.timers :
            /\ t.generation <= portal'.generation
            /\ portal'.open = 0 /\ t.generation = portal'.generation => t.quiet
  BY <1>3, <1>4, <1>5, IdleExitKeeps
<1>7. ChooserShape'
  <2>1. \A k \in Calls : CallShape(call[k])' /\ DialogShape(dialog[k])'
    BY <1>1 DEF ChooserInv, ChooserShape, CallShape, DialogShape
  <2> QED BY <1>1, <1>6, <2>1 DEF ChooserInv, ChooserShape, AskerKept
<1>8. \A k \in Calls \ {c} : CallFits(k)'
  <2>1. \A k \in Calls : CallFits(k) BY DEF ChooserInv
  <2>2. DiskGrows BY DEF ChooserInv, ChooserShape, DiskGrows
  <2> QED BY <1>1, <2>1, <2>2, CallFitsStays DEF AskerKept
<1>9. CallFits(c)'
  <2>1. c \in DOMAIN asker'.asks BY DEF ChooserInv, CallFits, FineDialog, AskerKept
  <2>2. Asks(c)' = Asks(c) /\ Offered(c)' = Offered(c) BY DEF AskerKept, Asks, Offered
  <2>3. call'[c].answer.ok => call'[c].answer.filter \in Offered(c)'
                              \cup {None}
    BY <1>1, <1>2, <2>2
  <2>4. call'[c].answer.ok => FineAnswer(c, call[c].answer.paths)'
    <3> SUFFICES ASSUME call'[c].answer.ok PROVE FineAnswer(c, call[c].answer.paths)' OBVIOUS
    <3>1. FineAnswer(c, paths) /\ call'[c].answer.paths = paths BY <1>1, <1>2
    <3> QED BY <3>1, <2>2 DEF FineAnswer, OneResult, Exists, IsDir, IsFile, PicksFolder
  <2> QED BY <1>1, <1>2, <2>1, <2>3, <2>4 DEF CallFits, Waiting
<1>10. PortalFits'
  <2>1. Dialogs' = Dialogs \ {c} BY <1>1 DEF Dialogs, Waiting
  <2>2. Cardinality(Dialogs') = portal'.open BY <2>1, <1>6, OneFewer
  <2> QED BY <2>2, <1>6 DEF PortalFits
<1> QED BY <1>7, <1>8, <1>9, <1>10 DEF ChooserInv

-------------------------------------------------------------------------------
(* The user was asked about all that stands at the paths. *)
Agreed(c, paths) ==
    Asks(c).mode # "Open" =>
        \A p \in BuildResults(c, paths) :
           Exists(p) => \/ p \in dialog[c].asked
                        \/ dialog[c].pc = "asking" /\ p \notin dialog[c].there

(* What may come of an act: the dialog stays and is fine, or it answers. *)
Outcome(c) ==
    \/ \E e : FineDialog(c, e) /\ Stays(c, e)
    \/ \E d, paths :
          /\ DialogShape(d) /\ d.filter \in Offered(c) \cup {None}
          /\ paths = {} \/ FineAnswer(c, paths)
          /\ Agreed(c, paths) /\ Finish(c, d, paths)

(* The two action properties, for one step. *)
ReplacesAsked(c) ==
    (call[c].pc = "shown" /\ call'[c].pc = "replied" /\ Asks(c).mode # "Open") =>
        \A p \in BuildResults(c, call'[c].answer.paths) :
           Exists(p) => \/ p \in dialog[c].asked
                        \/ dialog[c].pc = "asking" /\ p \notin dialog[c].there

QuitsQuietly ==
    (portal.alive /\ ~portal'.alive) =>
        /\ \A c \in Calls : dialog[c].pc \notin {"open", "asking"}
        /\ portal'.quitOn.quiet

(* What every step is shown to do. *)
StepFits == ChooserInv' /\ (\A c \in Calls : ReplacesAsked(c)) /\ QuitsQuietly

(* Whatever comes of an act of the user, the invariant and both action properties hold. *)
LEMMA OutcomeFits ==
    ASSUME ChooserInv, NEW c \in Calls, dialog[c].pc \in Waiting, AskerKept, UNCHANGED disk, Outcome(c)
    PROVE  StepFits
<1>1. CASE \E e : FineDialog(c, e) /\ Stays(c, e)
  <2>1. PICK e : FineDialog(c, e) /\ Stays(c, e) BY <1>1
  <2>2. ChooserInv' BY <2>1, StaysFits
  <2>3. UNCHANGED <<call, portal>> BY <2>1 DEF Stays
  <2> QED BY <2>2, <2>3 DEF StepFits, ReplacesAsked, QuitsQuietly
<1>2. CASE \E d, paths :
              /\ DialogShape(d) /\ d.filter \in Offered(c) \cup {None}
              /\ paths = {} \/ FineAnswer(c, paths)
              /\ Agreed(c, paths) /\ Finish(c, d, paths)
  <2>1. PICK d, paths :
              /\ DialogShape(d) /\ d.filter \in Offered(c) \cup {None}
              /\ paths = {} \/ FineAnswer(c, paths)
              /\ Agreed(c, paths) /\ Finish(c, d, paths)
    BY <1>2
  <2>2. Finished(c, d, paths) BY <2>1 DEF Finish, Finished
  <2>3. ChooserInv' BY <2>1, <2>2, FinishedFits
  <2>4. /\ \A k \in Calls \ {c} : call'[k] = call[k]
        /\ call'[c].answer.paths = paths
    <3>1. ChooserShape BY DEF ChooserInv
    <3> DEFINE f == IF paths = {} \/ Asks(c).filters = <<>> THEN None ELSE d.filter
    <3>2. /\ \A k \in Calls \ {c} : call'[k] = call[k]
          /\ call'[c].answer = [ok |-> paths # {}, paths |-> paths, filter |-> f]
      BY <2>1, <2>2, <3>1, FinishAnswers
    <3> HIDE DEF f
    <3> QED BY <3>2
  <2>5. \A k \in Calls : ReplacesAsked(k)
    <3>1. ReplacesAsked(c) BY <2>1, <2>4 DEF ReplacesAsked, Agreed
    <3> QED BY <3>1, <2>4 DEF ReplacesAsked
  <2>6. portal'.alive
    <3> DEFINE p == [portal EXCEPT !.open = @ - 1]
    <3>1. p \in PortalSet /\ p.alive BY OneFewer DEF PortalSet, ChooserInv, ChooserShape
    <3>2. portal' = ScheduleIdleExit(p) BY <2>2 DEF Finished
    <3> HIDE DEF p
    <3> QED BY <3>1, <3>2, IdleExitKeeps
  <2> QED BY <2>3, <2>5, <2>6 DEF StepFits, QuitsQuietly
<1> QED BY <1>1, <1>2 DEF Outcome

(* The two cardinalities the answers need. *)
LEMMA EmptyIsSmall == Cardinality({}) <= 1 /\ \A x : Cardinality({x}) = 1
<1>1. Cardinality({}) = 0 BY FS_EmptySet
<1>2. \A x : Cardinality({x}) = 1 BY FS_Singleton
<1> QED BY <1>1, <1>2

(* Going to another folder keeps a dialog fine. *)
LEMMA ShowsFits ==
    ASSUME NEW c \in Calls, NEW d, FineDialog(c, d), NEW p
    PROVE  FineDialog(c, Shows(d, p)) /\ Shows(d, p).pc = d.pc
<1> DEFINE e == [d EXCEPT !.folder = p, !.loaded = FALSE, !.selected = {}]
<1>1. CASE IsDir(p)
  <2>1. /\ DOMAIN e = DOMAIN d /\ e.pc = d.pc /\ e.folder = p /\ e.selected = {} /\ e.filter = d.filter
        /\ e.result = d.result /\ e.there = d.there /\ e.asked = d.asked
    BY DEF FineDialog, DialogShape, DialogFields
  <2>2. Shows(d, p) = e BY <1>1 DEF Shows
  <2> HIDE DEF e
  <2>3. FineDialog(c, e) BY <1>1, <2>1, EmptyIsSmall DEF FineDialog, DialogShape, AskingFits
  <2> QED BY <2>1, <2>2, <2>3
<1>2. CASE ~IsDir(p) BY <1>2 DEF Shows
<1> QED BY <1>1, <1>2

(* So does another name. *)
LEMMA NamedFits ==
    ASSUME NEW c \in Calls, NEW d, FineDialog(c, d), NEW n
    PROVE  FineDialog(c, [d EXCEPT !.name = n]) /\ [d EXCEPT !.name = n].pc = d.pc
<1> DEFINE e == [d EXCEPT !.name = n]
<1>1. /\ DOMAIN e = DOMAIN d /\ e.pc = d.pc /\ e.folder = d.folder /\ e.selected = d.selected
      /\ e.filter = d.filter /\ e.result = d.result /\ e.there = d.there /\ e.asked = d.asked
  BY DEF FineDialog, DialogShape, DialogFields
<1> HIDE DEF e
<1>2. FineDialog(c, e) BY <1>1 DEF FineDialog, DialogShape, AskingFits
<1> QED BY <1>1, <1>2 DEF e

(* So do rows selected that are there, as many as may be. *)
LEMMA SelectedFits ==
    ASSUME NEW c \in Calls, NEW d, FineDialog(c, d), NEW rows, \A p \in rows : Exists(p),
           (Asks(c).mode = "Open" /\ Asks(c).multiple) \/ Cardinality(rows) <= 1, NEW n
    PROVE  /\ FineDialog(c, [d EXCEPT !.selected = rows, !.name = n])
           /\ FineDialog(c, [d EXCEPT !.selected = rows])
           /\ [d EXCEPT !.selected = rows].pc = d.pc
<1> DEFINE e == [d EXCEPT !.selected = rows]
<1>1. /\ DOMAIN e = DOMAIN d /\ e.pc = d.pc /\ e.folder = d.folder /\ e.selected = rows
      /\ e.filter = d.filter /\ e.result = d.result /\ e.there = d.there /\ e.asked = d.asked
  BY DEF FineDialog, DialogShape, DialogFields
<1> DEFINE f == [d EXCEPT !.selected = rows, !.name = n]
<1>2. /\ DOMAIN f = DOMAIN d /\ f.pc = d.pc /\ f.folder = d.folder /\ f.selected = rows
      /\ f.filter = d.filter /\ f.result = d.result /\ f.there = d.there /\ f.asked = d.asked
  BY DEF FineDialog, DialogShape, DialogFields
<1> HIDE DEF e, f
<1>3. FineDialog(c, e) BY <1>1 DEF FineDialog, DialogShape, AskingFits
<1>4. FineDialog(c, f) BY <1>2 DEF FineDialog, DialogShape, AskingFits
<1> QED BY <1>1, <1>3, <1>4 DEF e, f

(* A question is about all there is at the answer's paths. *)
LEMMA ConfirmFits ==
    ASSUME NEW c \in Calls, NEW d, FineDialog(c, d), NEW existing, NEW result,
           Asks(c).mode # "Open", OneResult(c, result),
           \A p \in BuildResults(c, result) : Exists(p) => p \in existing,
           ConfirmReplace(c, d, existing, result)
    PROVE  Outcome(c)
<1> DEFINE e == [d EXCEPT !.pc = "asking", !.asked = existing, !.result = result,
                          !.there = {p \in Paths : Exists(p)}]
<1>1. /\ DOMAIN e = DOMAIN d /\ e.pc = "asking" /\ e.folder = d.folder /\ e.selected = d.selected
      /\ e.filter = d.filter /\ e.result = result /\ e.there = {p \in Paths : Exists(p)}
      /\ e.asked = existing
  BY DEF FineDialog, DialogShape, DialogFields
<1>2. Stays(c, e) BY DEF ConfirmReplace
<1> HIDE DEF e
<1>3. AskingFits(c, e) BY <1>1 DEF AskingFits
<1>4. FineDialog(c, e) BY <1>1, <1>3 DEF FineDialog, DialogShape, Waiting
<1> QED BY <1>2, <1>4 DEF Outcome

-------------------------------------------------------------------------------
(* A part of at most one, if it is not empty, is one. *)
LEMMA SmallPart ==
    ASSUME NEW S, IsFiniteSet(S), Cardinality(S) <= 1, NEW T \in SUBSET S, T # {}
    PROVE  Cardinality(T) = 1
<1>1. IsFiniteSet(T) /\ Cardinality(T) <= Cardinality(S) BY FS_Subset
<1>2. Cardinality(T) \in Nat /\ Cardinality(S) \in Nat BY <1>1, FS_CardinalityType
<1>3. Cardinality(T) # 0 BY <1>1, FS_EmptySet
<1> QED BY <1>1, <1>2, <1>3

(* What is selected is on disk, so it is finite. *)
LEMMA SelectedFinite ==
    ASSUME NEW c \in Calls, NEW d, FineDialog(c, d)
    PROVE  IsFiniteSet(d.selected)
<1>1. d.selected \subseteq Paths BY DEF FineDialog, Exists, IsDir, IsFile
<1> QED BY <1>1, ChooserAssumption, FS_Subset

(* A dialog that is cancelled replaces nothing. *)
LEMMA NothingAgreed ==
    ASSUME NEW c \in Calls
    PROVE  Agreed(c, {})
BY DEF Agreed, BuildResults

(* An answer with paths that fit and were agreed to. *)
LEMMA FinishOutcome ==
    ASSUME NEW c \in Calls, NEW d, FineDialog(c, d), NEW paths, paths = {} \/ FineAnswer(c, paths),
           Agreed(c, paths), Finish(c, d, paths)
    PROVE  Outcome(c)
BY DEF Outcome, FineDialog

(* accept of an open dialog: folders where they are picked, files elsewhere. *)
LEMMA AcceptOpenFits ==
    ASSUME NEW c \in Calls, NEW d, FineDialog(c, d), Asks(c).mode = "Open", AcceptOpen(c, d)
    PROVE  Outcome(c)
<1> DEFINE dirs == {p \in d.selected : IsDir(p)}
           files == d.selected \ dirs
<1>1. \A paths : Agreed(c, paths) BY DEF Agreed
<1>2. ASSUME NEW T \in SUBSET d.selected, T # {}, ~Asks(c).multiple PROVE Cardinality(T) = 1
  BY <1>2, SelectedFinite, SmallPart DEF FineDialog
<1>3. CASE PicksFolder(c)
  <2> DEFINE paths == IF dirs = {} THEN {d.folder} ELSE dirs
  <2>1. Finish(c, d, paths) BY <1>3 DEF AcceptOpen
  <2>2. \A p \in paths : Exists(p) /\ IsDir(p) BY DEF FineDialog, Exists
  <2>3. ~Asks(c).multiple => Cardinality(paths) = 1
    <3>1. CASE dirs = {} BY <3>1, EmptyIsSmall
    <3>2. CASE dirs # {} BY <3>2, <1>2
    <3> QED BY <3>1, <3>2
  <2> HIDE DEF paths
  <2>4. FineAnswer(c, paths) BY <2>2, <2>3, <1>3 DEF FineAnswer
  <2> QED BY <2>1, <2>4, <1>1, FinishOutcome
<1>4. CASE ~PicksFolder(c) /\ files # {}
  <2>1. Finish(c, d, files) BY <1>4 DEF AcceptOpen
  <2>2. \A p \in files : Exists(p) /\ ~IsDir(p) BY DEF FineDialog
  <2>3. ~Asks(c).multiple => Cardinality(files) = 1 BY <1>4, <1>2
  <2> HIDE DEF files
  <2>4. FineAnswer(c, files) BY <2>2, <2>3, <1>4 DEF FineAnswer
  <2> QED BY <2>1, <2>4, <1>1, FinishOutcome
<1>5. CASE ~PicksFolder(c) /\ files = {}
  <2>1. PICK e : (e = d \/ \E p : e = Shows(d, p)) /\ Stays(c, e) BY <1>5 DEF AcceptOpen
  <2>2. FineDialog(c, e) BY <2>1, ShowsFits
  <2> QED BY <2>1, <2>2 DEF Outcome
<1> QED BY <1>3, <1>4, <1>5

(* accept of a save dialog: the target is free, or it asks. *)
LEMMA AcceptSaveFits ==
    ASSUME NEW c \in Calls, NEW d, FineDialog(c, d), Asks(c).mode = "Save", AcceptSave(c, d)
    PROVE  Outcome(c)
<1> DEFINE target == ResolveTyped(d.folder, d.name)
<1>1. CASE d.name = None \/ (d.name # None /\ ~IsDir(target) /\ ~IsDir(Parent(target)))
  <2>1. Stays(c, d) BY <1>1 DEF AcceptSave
  <2> QED BY <2>1 DEF Outcome
<1>2. CASE d.name # None /\ IsDir(target)
  <2>1. Stays(c, [Shows(d, target) EXCEPT !.name = None]) BY <1>2 DEF AcceptSave
  <2>2. FineDialog(c, Shows(d, target)) BY ShowsFits
  <2> DEFINE e == Shows(d, target)
  <2>3. FineDialog(c, [e EXCEPT !.name = None]) BY <2>2, NamedFits
  <2> QED BY <2>1, <2>3 DEF Outcome
<1>3. CASE d.name # None /\ ~IsDir(target) /\ IsDir(Parent(target))
  <2> HIDE DEF target
  <2>1. IF Exists(target) THEN ConfirmReplace(c, d, {target}, {target}) ELSE Finish(c, d, {target})
    BY <1>3 DEF AcceptSave, target
  <2>2. BuildResults(c, {target}) = {target} /\ OneResult(c, {target}) BY DEF BuildResults, OneResult
  <2>3. CASE Exists(target)
    <3>1. ConfirmReplace(c, d, {target}, {target}) BY <2>1, <2>3
    <3>2. Asks(c).mode # "Open" /\ \A p \in BuildResults(c, {target}) : Exists(p) => p \in {target}
      BY <2>2
    <3> QED BY <3>1, <3>2, <2>2, ConfirmFits
  <2>4. CASE ~Exists(target)
    <3>1. Finish(c, d, {target}) BY <2>1, <2>4
    <3>2. Agreed(c, {target}) BY <2>2, <2>4 DEF Agreed
    <3>3. FineAnswer(c, {target}) BY <2>2, EmptyIsSmall DEF FineAnswer
    <3> QED BY <3>1, <3>2, <3>3, FinishOutcome
  <2> QED BY <2>3, <2>4
<1> QED BY <1>1, <1>2, <1>3

(* accept of a dialog for several names: all are free in the folder, or it asks. *)
LEMMA AcceptSaveFilesFits ==
    ASSUME NEW c \in Calls, NEW d, FineDialog(c, d), Asks(c).mode = "SaveFiles", AcceptSaveFiles(c, d)
    PROVE  Outcome(c)
<1>1. PICK dest : /\ IsDir(dest)
                  /\ LET existing == {p \in {Join(dest, n) : n \in Asks(c).files} : Exists(p)} IN
                     IF existing = {} THEN Finish(c, d, {dest})
                     ELSE ConfirmReplace(c, d, existing, {dest})
  BY DEF AcceptSaveFiles, FineDialog
<1> DEFINE existing == {p \in {Join(dest, n) : n \in Asks(c).files} : Exists(p)}
<1>2. BuildResults(c, {dest}) = {Join(dest, n) : n \in Asks(c).files} BY DEF BuildResults
<1>3. OneResult(c, {dest}) /\ Asks(c).mode # "Open" BY <1>1 DEF OneResult, IsDir
<1>4. \A p \in BuildResults(c, {dest}) : Exists(p) => p \in existing BY <1>2
<1>5. CASE existing = {}
  <2>1. Finish(c, d, {dest}) BY <1>1, <1>5
  <2>2. Agreed(c, {dest}) BY <1>4, <1>5 DEF Agreed
  <2>3. FineAnswer(c, {dest}) BY <1>3, EmptyIsSmall DEF FineAnswer
  <2> QED BY <2>1, <2>2, <2>3, FinishOutcome
<1>6. CASE existing # {}
  <2>1. ConfirmReplace(c, d, existing, {dest}) BY <1>1, <1>6
  <2> HIDE DEF existing
  <2> QED BY <2>1, <1>3, <1>4, ConfirmFits
<1> QED BY <1>5, <1>6

(* accept, in each of the three modes. *)
LEMMA AcceptFits ==
    ASSUME ChooserInv, NEW c \in Calls, NEW d, FineDialog(c, d), AcceptAs(c, d)
    PROVE  Outcome(c)
<1>1. Asks(c).mode \in {"Open", "Save", "SaveFiles"}
  BY DEF ChooserInv, ChooserShape, AskerShape, FineDialog, Asks
<1>2. CASE Asks(c).mode = "Open" BY <1>2, AcceptOpenFits DEF AcceptAs
<1>3. CASE Asks(c).mode = "Save" BY <1>3, AcceptSaveFits DEF AcceptAs
<1>4. CASE Asks(c).mode = "SaveFiles" BY <1>4, AcceptSaveFilesFits DEF AcceptAs
<1> QED BY <1>1, <1>2, <1>3, <1>4

-------------------------------------------------------------------------------
(* Who acts in a dialog has it on screen, and it is fine. *)
LEMMA ActsFits ==
    ASSUME ChooserInv, NEW c \in Calls, Acts(c)
    PROVE  /\ dialog[c].pc = "open" /\ dialog[c].pc \in Waiting /\ FineDialog(c, dialog[c]) /\ AskerKept
<1>1. dialog[c].pc = "open" /\ asker' = [asker EXCEPT !.left = @ - 1] BY DEF Acts
<1>2. AskerKept BY <1>1, ActsKeepsAsker DEF ChooserInv
<1>3. dialog[c].pc \in Waiting BY <1>1 DEF Waiting
<1> QED BY <1>1, <1>2, <1>3 DEF ChooserInv, CallFits

(* So is one that is on screen when something else happens. *)
LEMMA DialogIsFine ==
    ASSUME ChooserInv, NEW c \in Calls, dialog[c].pc \in Waiting, UNCHANGED asker
    PROVE  FineDialog(c, dialog[c]) /\ AskerKept
<1>1. AskerKept BY ActsKeepsAsker DEF ChooserInv
<1> QED BY <1>1 DEF ChooserInv, CallFits

(* A dialog that stays is an outcome. *)
LEMMA StaysAsItIs ==
    ASSUME NEW c \in Calls, NEW e, FineDialog(c, e), Stays(c, e)
    PROVE  Outcome(c)
BY DEF Outcome

(* Rows are of what is there. *)
LEMMA RowsExist ==
    ASSUME NEW c \in Calls
    PROVE  \A p \in Rows(c) : Exists(p)
BY DEF Rows, RowVisible

(* The accept button. *)
LEMMA AcceptStep ==
    ASSUME ChooserInv, NEW c \in Calls, Accept(c)
    PROVE  Outcome(c)
<1>1. Acts(c) /\ AcceptAs(c, dialog[c]) BY DEF Accept, Now
<1> QED BY <1>1, ActsFits, AcceptFits

(* A place, or the folder above. *)
LEMMA NavigateStep ==
    ASSUME ChooserInv, NEW c \in Calls, Navigate(c)
    PROVE  Outcome(c)
<1>1. Acts(c) BY DEF Navigate
<1>2. PICK p : Stays(c, Shows(dialog[c], p)) BY DEF Navigate, Now
<1>3. FineDialog(c, Shows(dialog[c], p)) BY <1>1, ActsFits, ShowsFits
<1> QED BY <1>2, <1>3, StaysAsItIs

(* A row that is activated: its folder is shown, or it is accepted. *)
LEMMA ActivateRowStep ==
    ASSUME ChooserInv, NEW c \in Calls, ActivateRow(c)
    PROVE  Outcome(c)
<1>1. Acts(c) BY DEF ActivateRow
<1> DEFINE d == dialog[c]
<1>2. FineDialog(c, d) BY <1>1, ActsFits
<1>3. PICK p \in Rows(c) :
          CASE IsDir(p) -> Stays(c, Shows(d, p))
            [] ~IsDir(p) /\ Asks(c).mode = "Open" ->
                  AcceptAs(c, [d EXCEPT !.selected = IF p \in @ THEN @ ELSE {p}])
            [] OTHER -> AcceptAs(c, [d EXCEPT
                                        !.name = [absolute |-> FALSE, path |-> <<Last(p)>>]])
  BY DEF ActivateRow, Now
<1>4. Exists(p) BY RowsExist
<1> HIDE DEF d
<1>5. CASE IsDir(p)
  <2>1. Stays(c, Shows(d, p)) BY <1>3, <1>5
  <2> QED BY <2>1, <1>2, ShowsFits, StaysAsItIs
<1>6. CASE ~IsDir(p) /\ Asks(c).mode = "Open"
  <2> DEFINE rows == IF p \in d.selected THEN d.selected ELSE {p}
             e == [d EXCEPT !.selected = rows]
  <2>1. AcceptAs(c, e) BY <1>3, <1>6
  <2>2. (\A q \in rows : Exists(q))
        /\ ((Asks(c).mode = "Open" /\ Asks(c).multiple) \/ Cardinality(rows) <= 1)
    <3>1. CASE p \in d.selected BY <3>1, <1>2 DEF FineDialog
    <3>2. CASE p \notin d.selected
      <4>1. rows = {p} /\ Cardinality({p}) = 1 BY <3>2, EmptyIsSmall
      <4> QED BY <4>1, <1>4
    <3> QED BY <3>1, <3>2
  <2> HIDE DEF rows
  <2>3. FineDialog(c, e) BY <1>2, <2>2, SelectedFits
  <2> HIDE DEF e
  <2> QED BY <2>1, <2>3, AcceptFits
<1>7. CASE ~IsDir(p) /\ Asks(c).mode # "Open"
  <2> DEFINE n == [absolute |-> FALSE, path |-> <<Last(p)>>]
             e == [d EXCEPT !.name = n]
  <2>1. AcceptAs(c, e) BY <1>3, <1>7
  <2> HIDE DEF n
  <2>2. FineDialog(c, e) BY <1>2, NamedFits
  <2> HIDE DEF e
  <2> QED BY <2>1, <2>2, AcceptFits
<1> QED BY <1>5, <1>6, <1>7

(* Select. *)
LEMMA SelectStep ==
    ASSUME ChooserInv, NEW c \in Calls, Select(c)
    PROVE  Outcome(c)
<1>1. Acts(c) BY DEF Select
<1>2. PICK rows, n :
          /\ rows \subseteq Rows(c)
          /\ Cardinality(rows) <= 1 \/ (Asks(c).multiple /\ Asks(c).mode = "Open")
          /\ Stays(c, [dialog[c] EXCEPT !.selected = rows, !.name = n])
  BY DEF Select, Now
<1>3. FineDialog(c, [dialog[c] EXCEPT !.selected = rows, !.name = n])
  <2>1. \A p \in rows : Exists(p) BY <1>2, RowsExist
  <2> QED BY <1>1, <1>2, <2>1, ActsFits, SelectedFits
<1> QED BY <1>2, <1>3, StaysAsItIs

(* TypeName. *)
LEMMA TypeNameStep ==
    ASSUME ChooserInv, NEW c \in Calls, TypeName(c)
    PROVE  Outcome(c)
<1>1. Acts(c) BY DEF TypeName
<1>2. PICK text : Stays(c, [dialog[c] EXCEPT !.name = text]) BY DEF TypeName, Now
<1>3. FineDialog(c, [dialog[c] EXCEPT !.name = text]) BY <1>1, ActsFits, NamedFits
<1> QED BY <1>2, <1>3, StaysAsItIs

(* A location that is typed: shown, answered, or accepted as a name. *)
LEMMA LocationStep ==
    ASSUME ChooserInv, NEW c \in Calls, LocationActivated(c)
    PROVE  Outcome(c)
<1>1. Acts(c) BY DEF LocationActivated
<1> DEFINE d == dialog[c]
<1>2. FineDialog(c, d) BY <1>1, ActsFits
<1>3. PICK target :
          CASE IsDir(target) -> Stays(c, Shows(d, target))
            [] IsFile(target) /\ Asks(c).mode = "Open" /\ ~PicksFolder(c) ->
                  Finish(c, d, {target})
            [] ~IsDir(target) /\ Asks(c).mode = "Save" /\ IsDir(Parent(target)) ->
                  AcceptAs(c, [Shows(d, Parent(target)) EXCEPT
                                  !.name = [absolute |-> FALSE, path |-> <<Last(target)>>]])
            [] OTHER -> Stays(c, d)
  BY DEF LocationActivated, Now
<1> HIDE DEF d
<1>4. CASE IsDir(target)
  <2>1. Stays(c, Shows(d, target)) BY <1>3, <1>4 DEF IsDir, IsFile
  <2> QED BY <2>1, <1>2, ShowsFits, StaysAsItIs
<1>5. CASE IsFile(target) /\ Asks(c).mode = "Open" /\ ~PicksFolder(c)
  <2>1. Finish(c, d, {target}) BY <1>3, <1>5 DEF IsDir, IsFile
  <2>2. FineAnswer(c, {target}) BY <1>5, EmptyIsSmall DEF FineAnswer, Exists, IsDir, IsFile
  <2>3. Agreed(c, {target}) BY <1>5 DEF Agreed
  <2> QED BY <2>1, <2>2, <2>3, <1>2, FinishOutcome
<1>6. CASE ~IsDir(target) /\ Asks(c).mode = "Save" /\ IsDir(Parent(target))
  <2> DEFINE n == [absolute |-> FALSE, path |-> <<Last(target)>>]
             e == Shows(d, Parent(target))
             f == [e EXCEPT !.name = n]
  <2>1. AcceptAs(c, f) BY <1>3, <1>6
  <2>2. FineDialog(c, e) BY <1>2, ShowsFits
  <2> HIDE DEF e, n
  <2>3. FineDialog(c, f) BY <2>2, NamedFits
  <2> HIDE DEF f
  <2> QED BY <2>1, <2>3, AcceptFits
<1>7. CASE /\ ~IsDir(target)
           /\ ~(IsFile(target) /\ Asks(c).mode = "Open" /\ ~PicksFolder(c))
           /\ ~(Asks(c).mode = "Save" /\ IsDir(Parent(target)))
  <2>1. Stays(c, d) BY <1>3, <1>7
  <2> QED BY <2>1, <1>2, StaysAsItIs
<1> QED BY <1>4, <1>5, <1>6, <1>7

(* A filter, or hidden files: fewer rows stay selected. *)
LEMMA RefilterStep ==
    ASSUME ChooserInv, NEW c \in Calls, Refilter(c)
    PROVE  Outcome(c) /\ UNCHANGED disk
<1>1. Acts(c) BY DEF Refilter
<1> DEFINE d == dialog[c]
<1>2. FineDialog(c, d) BY <1>1, ActsFits
<1>3. PICK hidden, f, rows :
         /\ f \in Offered(c) \/ f = d.filter
         /\ rows \subseteq d.selected
         /\ dialog' = [dialog EXCEPT ![c].hidden = hidden, ![c].filter = f, ![c].selected = rows]
         /\ UNCHANGED <<disk, call, memory, portal>>
  <2>1. PICK hidden \in BOOLEAN, f \in IF Offered(c) = {} THEN {d.filter} ELSE Offered(c) :
          /\ dialog' = [dialog EXCEPT ![c].hidden = hidden, ![c].filter = f,
                        ![c].selected = {p \in @ : IsDir(p) \/ f = None \/ Last(p) \in Accepts[f]}
                                        \cap {p \in @ : hidden \/ Last(p) \notin HiddenNames}]
          /\ UNCHANGED <<disk, call, memory, portal>>
    BY DEF Refilter, Now
  <2> DEFINE rows == {p \in d.selected : IsDir(p) \/ f = None \/ Last(p) \in Accepts[f]}
                     \cap {p \in d.selected : hidden \/ Last(p) \notin HiddenNames}
  <2>2. dialog' = [dialog EXCEPT ![c].hidden = hidden, ![c].filter = f, ![c].selected = rows] BY <2>1
  <2>3. rows \subseteq d.selected OBVIOUS
  <2> HIDE DEF rows
  <2> QED BY <2>1, <2>2, <2>3
<1> DEFINE e == [d EXCEPT !.hidden = hidden, !.filter = f, !.selected = rows]
<1>4. Stays(c, e) BY <1>3 DEF Stays
<1>5. /\ DOMAIN e = DOMAIN d /\ e.pc = d.pc /\ e.folder = d.folder /\ e.selected = rows
      /\ e.filter = f /\ e.result = d.result /\ e.there = d.there /\ e.asked = d.asked
  BY <1>2 DEF FineDialog, DialogShape, DialogFields
<1>6. IsFiniteSet(d.selected) /\ Cardinality(rows) <= Cardinality(d.selected)
      /\ Cardinality(rows) \in Nat /\ Cardinality(d.selected) \in Nat
  <2>1. IsFiniteSet(d.selected) BY <1>2, SelectedFinite
  <2>2. IsFiniteSet(rows) /\ Cardinality(rows) <= Cardinality(d.selected) BY <1>3, <2>1, FS_Subset
  <2> QED BY <2>1, <2>2, FS_CardinalityType
<1> HIDE DEF e
<1>7. FineDialog(c, e) BY <1>2, <1>3, <1>5, <1>6 DEF FineDialog, DialogShape, AskingFits
<1> QED BY <1>3, <1>4, <1>7, StaysAsItIs

(* The answer to the question: what it was about is what is answered. *)
LEMMA AnswerReplaceStep ==
    ASSUME ChooserInv, NEW c \in Calls, AnswerReplace(c)
    PROVE  Outcome(c) /\ dialog[c].pc \in Waiting /\ AskerKept /\ UNCHANGED disk
<1>1. dialog[c].pc = "asking" /\ UNCHANGED <<disk, asker>> /\ dialog[c].pc \in Waiting
  BY DEF AnswerReplace, Waiting
<1> DEFINE d == dialog[c]
<1>2. FineDialog(c, d) /\ AskerKept BY <1>1, DialogIsFine
<1>3. CASE Finish(c, d, d.result)
  <2>1. AskingFits(c, d) BY <1>1, <1>2 DEF FineDialog
  <2>2. Agreed(c, d.result) BY <1>1, <2>1 DEF Agreed, AskingFits
  <2>3. FineAnswer(c, d.result) BY <2>1, EmptyIsSmall DEF AskingFits, FineAnswer, OneResult
  <2>4. Outcome(c) BY <1>2, <1>3, <2>2, <2>3, FinishOutcome
  <2> QED BY <1>1, <1>2, <2>4
<1>4. CASE Stays(c, [d EXCEPT !.pc = "open", !.asked = {}, !.result = {}, !.there = {}])
  <2> DEFINE e == [d EXCEPT !.pc = "open", !.asked = {}, !.result = {}, !.there = {}]
  <2>1. /\ DOMAIN e = DOMAIN d /\ e.pc = "open" /\ e.folder = d.folder /\ e.selected = d.selected
        /\ e.filter = d.filter
    BY <1>2 DEF FineDialog, DialogShape, DialogFields
  <2>2. Stays(c, e) BY <1>4
  <2> HIDE DEF e
  <2>3. FineDialog(c, e) BY <1>2, <2>1 DEF FineDialog, DialogShape, Waiting
  <2>4. Outcome(c) BY <2>2, <2>3, StaysAsItIs
  <2> QED BY <1>1, <1>2, <2>4
<1> QED BY <1>3, <1>4 DEF AnswerReplace, Now

(* Cancel, or a request that is closed. *)
LEMMA CancelledStep ==
    ASSUME ChooserInv, NEW c \in Calls, Dismiss(c) \/ Withdrawn(c)
    PROVE  Outcome(c) /\ dialog[c].pc \in Waiting /\ AskerKept /\ UNCHANGED disk
<1>1. dialog[c].pc \in Waiting /\ UNCHANGED <<disk, asker>> /\ Finish(c, dialog[c], {})
  BY DEF Dismiss, Withdrawn, Waiting, Now
<1>2. FineDialog(c, dialog[c]) /\ AskerKept BY <1>1, DialogIsFine
<1>3. Outcome(c) BY <1>1, <1>2, NothingAgreed, FinishOutcome
<1> QED BY <1>1, <1>2, <1>3

(* The rows are there. *)
LEMMA LoadedStep ==
    ASSUME ChooserInv, NEW c \in Calls, Loaded(c)
    PROVE  Outcome(c) /\ dialog[c].pc \in Waiting /\ AskerKept /\ UNCHANGED disk
<1> DEFINE d == dialog[c]
           e == [d EXCEPT !.loaded = TRUE]
<1>1. d.pc \in Waiting /\ UNCHANGED <<disk, asker>> /\ Stays(c, e) BY DEF Loaded, Waiting, Stays
<1>2. FineDialog(c, d) /\ AskerKept BY <1>1, DialogIsFine
<1>3. /\ DOMAIN e = DOMAIN d /\ e.pc = d.pc /\ e.folder = d.folder /\ e.selected = d.selected
      /\ e.filter = d.filter /\ e.result = d.result /\ e.there = d.there /\ e.asked = d.asked
  BY <1>2 DEF FineDialog, DialogShape, DialogFields
<1> HIDE DEF e
<1>4. FineDialog(c, e) BY <1>2, <1>3 DEF FineDialog, DialogShape, AskingFits
<1>5. Outcome(c) BY <1>1, <1>4, StaysAsItIs
<1> QED BY <1>1, <1>2, <1>5

(* A new folder is there before it is shown. *)
LEMMA NewFolderStep ==
    ASSUME ChooserInv, NEW c \in Calls, NewFolder(c)
    PROVE  ChooserInv' /\ UNCHANGED <<call, portal>>
<1>1. Acts(c) BY DEF NewFolder
<1> DEFINE d == dialog[c]
<1>2. FineDialog(c, d) /\ d.pc = "open" /\ d.pc \in Waiting /\ AskerKept BY <1>1, ActsFits
<1>3. PICK p \in Paths :
         /\ ~Exists(p) /\ disk' = [disk EXCEPT ![p] = "dir"]
         /\ dialog' = [dialog EXCEPT ![c].folder = p, ![c].loaded = FALSE, ![c].selected = {}]
  BY DEF NewFolder
<1>4. UNCHANGED <<call, portal>> BY DEF NewFolder
<1>5. disk \in [Paths -> {"none", "dir", "file"}] /\ DOMAIN dialog = Calls
  BY DEF ChooserInv, ChooserShape
<1>6. DiskGrows /\ disk'[p] = "dir" BY <1>3, <1>5 DEF DiskGrows, Exists, IsDir, IsFile
<1> DEFINE e == [d EXCEPT !.folder = p, !.loaded = FALSE, !.selected = {}]
<1>7. /\ DOMAIN e = DOMAIN d /\ e.pc = d.pc /\ e.folder = p /\ e.selected = {} /\ e.filter = d.filter
  BY <1>2 DEF FineDialog, DialogShape, DialogFields
<1>8. dialog' = [dialog EXCEPT ![c] = e] BY <1>3
<1> HIDE DEF e
<1>9. /\ DOMAIN dialog' = Calls /\ \A k \in Calls \ {c} : dialog'[k] = dialog[k]
      /\ dialog'[c] = e
  BY <1>5, <1>8
<1>10. Offered(c)' = Offered(c) /\ Asks(c)' = Asks(c) BY <1>2 DEF AskerKept, Offered, Asks
<1>11. FineDialog(c, dialog[c])'
  <2>1. e.pc = "open" /\ DialogShape(e) BY <1>2, <1>7 DEF FineDialog, DialogShape
  <2>2. c \in DOMAIN asker'.asks BY <1>2 DEF FineDialog, AskerKept
  <2>3. IsDir(dialog[c].folder)' BY <1>6, <1>7, <1>9, <1>3 DEF IsDir
  <2>4. Cardinality(e.selected) <= 1 /\ e.selected = {} BY <1>7, EmptyIsSmall
  <2>5. e.filter \in Offered(c)' \cup {None} BY <1>2, <1>7, <1>10 DEF FineDialog
  <2> QED BY <2>1, <2>2, <2>3, <2>4, <2>5, <1>9 DEF FineDialog, DialogShape, Waiting
<1>12. ChooserInv' BY <1>2, <1>4, <1>6, <1>9, <1>11, DialogMoves
<1> QED BY <1>4, <1>12

(* A step of one call that leaves the dialogs alone. *)
LEMMA CallMoves ==
    ASSUME ChooserInv, NEW c \in Calls, DOMAIN call' = Calls, \A k \in Calls \ {c} : call'[k] = call[k],
           UNCHANGED dialog, AskerKept, DiskGrows, CallShape(call[c])', CallFits(c)',
           portal' \in PortalSet, PortalFits'
    PROVE  ChooserInv'
<1>1. \A k \in Calls \ {c} : CallFits(k)'
  <2>1. \A k \in Calls : CallFits(k) BY DEF ChooserInv
  <2> QED BY <2>1, CallFitsStays DEF AskerKept
<1>2. ChooserShape'
  <2>1. disk'[Home] = "dir" BY ChooserAssumption DEF ChooserInv, ChooserShape, DiskGrows
  <2>2. \A k \in Calls : CallShape(call[k])' /\ DialogShape(dialog[k])'
    BY DEF ChooserInv, ChooserShape, CallShape, DialogShape
  <2> QED BY <2>1, <2>2 DEF ChooserInv, ChooserShape, DiskGrows, AskerKept
<1> QED BY <1>1, <1>2 DEF ChooserInv

(* Disk and requests as they were. *)
LEMMA AllStays ==
    ASSUME ChooserInv, UNCHANGED <<disk, asker>>
    PROVE  DiskGrows /\ AskerKept
<1>1. DiskGrows BY DEF ChooserInv, ChooserShape, DiskGrows
<1>2. AskerKept BY ActsKeepsAsker DEF ChooserInv
<1> QED BY <1>1, <1>2

(* The process as it was. *)
LEMMA PortalStays ==
    ASSUME ChooserInv, UNCHANGED <<dialog, portal>>
    PROVE  portal' \in PortalSet /\ PortalFits'
<1>1. Dialogs' = Dialogs BY DEF Dialogs
<1> QED BY <1>1 DEF ChooserInv, ChooserShape, PortalFits

(* RunCall preserves the invariant: a process that starts has no dialog and a fresh timer. *)
LEMMA RunCallStep ==
    ASSUME ChooserInv, NEW c \in Calls, RunCall(c)
    PROVE  StepFits
<1>1. PICK registered \in BOOLEAN :
         call' = [call EXCEPT ![c].pc = "sent", ![c].handle = registered]
  BY DEF RunCall
<1>2. call[c].pc = "new" /\ c \in DOMAIN asker.asks /\ UNCHANGED <<disk, dialog, asker>> BY DEF RunCall
<1>3. DOMAIN call = Calls /\ CallShape(call[c]) BY DEF ChooserInv, ChooserShape
<1> DEFINE new == [call[c] EXCEPT !.pc = "sent", !.handle = registered]
<1>4. DOMAIN new = CallFields /\ new.pc = "sent" BY <1>3 DEF CallShape, CallFields
<1>5. call' = [call EXCEPT ![c] = new] BY <1>1
<1> HIDE DEF new
<1>6. DOMAIN call' = Calls /\ call'[c] = new /\ \A k \in Calls \ {c} : call'[k] = call[k] BY <1>3, <1>5
<1>7. CallShape(call[c])' BY <1>4, <1>6 DEF CallShape
<1>8. CallFits(c)'
  <2>1. dialog[c].pc \notin Waiting BY <1>2 DEF ChooserInv, CallFits
  <2> QED BY <2>1, <1>2, <1>4, <1>6 DEF CallFits
<1>9. portal' \in PortalSet /\ PortalFits' /\ portal'.alive
  <2>1. CASE portal.alive
    <3>1. UNCHANGED <<dialog, portal>> BY <1>2, <2>1 DEF RunCall
    <3> QED BY <3>1, <2>1, PortalStays
  <2>2. CASE ~portal.alive
    <3> DEFINE p == [NotRunning EXCEPT !.alive = TRUE, !.generation = 1, !.timers = {Timer(1)}]
    <3>1. portal' = p BY <2>2 DEF RunCall
    <3>2. Timer(1) \in TimerSet /\ Timer(1).generation = 1 /\ Timer(1).quiet BY DEF Timer, TimerSet
    <3>3. p \in PortalSet /\ p.alive /\ p.open = 0 /\ p.generation = 1 /\ p.timers = {Timer(1)}
      BY <3>2 DEF PortalSet, NotRunning
    <3> HIDE DEF p
    <3>4. Cardinality(Dialogs) = 0 /\ Dialogs' = Dialogs
      BY <1>2, <2>2 DEF ChooserInv, PortalFits, Dialogs
    <3> QED BY <3>1, <3>2, <3>3, <3>4 DEF PortalFits
  <2> QED BY <2>1, <2>2
<1>10. ChooserInv' BY <1>2, <1>6, <1>7, <1>8, <1>9, AllStays, CallMoves
<1> QED BY <1>2, <1>4, <1>6, <1>9, <1>10 DEF StepFits, ReplacesAsked, QuitsQuietly

(* RequestClose preserves it. *)
LEMMA RequestCloseStep ==
    ASSUME ChooserInv, NEW c \in Calls, RequestClose(c)
    PROVE  StepFits
<1>1. call' = [call EXCEPT ![c].closed = TRUE] /\ UNCHANGED <<disk, dialog, portal, asker>>
  BY DEF RequestClose
<1>2. DOMAIN call = Calls /\ CallShape(call[c]) BY DEF ChooserInv, ChooserShape
<1>3. /\ DOMAIN call' = Calls /\ \A k \in Calls \ {c} : call'[k] = call[k]
      /\ DOMAIN (call'[c]) = CallFields /\ call'[c].pc = call[c].pc /\ call'[c].answer = call[c].answer
  BY <1>1, <1>2 DEF CallShape, CallFields
<1>4. CallShape(call[c])' BY <1>2, <1>3 DEF CallShape
<1>5. CallFits(c)'
  <2>1. CallFits(c) BY DEF ChooserInv
  <2> QED BY <2>1, <1>1, <1>3 DEF CallFits, FineDialog, FineAnswer, AskingFits, OneResult, BuildResults,
      Asks, Offered, PicksFolder, IsDir, IsFile, Exists
<1>6. ChooserInv' BY <1>1, <1>3, <1>4, <1>5, AllStays, PortalStays, CallMoves
<1> QED BY <1>1, <1>3, <1>6 DEF StepFits, ReplacesAsked, QuitsQuietly

(* ReturnCall preserves it: the names asked for, in the one folder answered. *)
LEMMA ReturnCallStep ==
    ASSUME ChooserInv, NEW c \in Calls, ReturnCall(c)
    PROVE  StepFits
<1>1. /\ call[c].pc = "replied" /\ UNCHANGED <<disk, dialog, portal, asker>>
      /\ call' = [call EXCEPT ![c].pc = "returned", ![c].handle = FALSE,
                              ![c].answer.paths = BuildResults(c, @)]
  BY DEF ReturnCall
<1>2. DOMAIN call = Calls /\ CallShape(call[c]) /\ CallFits(c) BY DEF ChooserInv, ChooserShape
<1>3. DOMAIN call[c].answer = {"ok", "paths", "filter"} BY <1>1, <1>2 DEF CallFits
<1> DEFINE results == BuildResults(c, call[c].answer.paths)
           answer == [call[c].answer EXCEPT !.paths = results]
           new == [call[c] EXCEPT !.pc = "returned", !.handle = FALSE, !.answer = answer]
<1>4. call' = [call EXCEPT ![c] = new] BY <1>1, <1>2 DEF CallShape, CallFields
<1> HIDE DEF results
<1>5. answer.ok = call[c].answer.ok /\ answer.paths = results BY <1>3
<1> HIDE DEF answer
<1>6. DOMAIN new = CallFields /\ new.pc = "returned" /\ new.answer = answer
  BY <1>2 DEF CallShape, CallFields
<1> HIDE DEF new
<1>7. /\ DOMAIN call' = Calls /\ call'[c] = new /\ \A k \in Calls \ {c} : call'[k] = call[k]
  BY <1>2, <1>4
<1>8. CallShape(call[c])' BY <1>6, <1>7 DEF CallShape
<1>9. CallFits(c)'
  <2>1. c \in DOMAIN asker.asks /\ dialog[c].pc \notin Waiting BY <1>1, <1>2 DEF CallFits
  <2>2. ASSUME answer.ok, Asks(c).mode = "SaveFiles"
        PROVE  \E f \in Paths : answer.paths = {Join(f, n) : n \in Asks(c).files}
    <3>1. PICK f \in Paths : call[c].answer.paths = {f}
      BY <2>2, <1>1, <1>2, <1>5 DEF CallFits, FineAnswer, OneResult
    <3>2. results = {Join(f, n) : n \in Asks(c).files} BY <3>1, <2>2 DEF results, BuildResults
    <3> QED BY <3>2, <1>5
  <2>3. Asks(c)' = Asks(c) BY <1>1 DEF Asks
  <2> QED BY <2>1, <2>2, <2>3, <1>1, <1>6, <1>7 DEF CallFits
<1>10. ChooserInv' BY <1>1, <1>7, <1>8, <1>9, AllStays, PortalStays, CallMoves
<1> QED BY <1>1, <1>6, <1>7, <1>10 DEF StepFits, ReplacesAsked, QuitsQuietly

(* A dialog starts in a folder that is there. *)
LEMMA FirstFolderIsThere ==
    ASSUME ChooserInv, NEW c \in Calls
    PROVE  IsDir(StartFolder(c))
<1>1. IsDir(Home) BY ChooserAssumption DEF ChooserInv, ChooserShape, IsDir
<1>2. \A place, next : IsDir(next) => IsDir(FirstFolder(place, next)) BY DEF FirstFolder
<1> QED BY <1>1, <1>2 DEF StartFolder

(* It starts with a filter that is offered, or none. *)
LEMMA FirstFilterIsOffered ==
    ASSUME ChooserInv, NEW c \in Calls, c \in DOMAIN asker.asks
    PROVE  FirstFilter(c) \in Offered(c) \cup {None}
<1>1. Asks(c).filters \in Seq(DOMAIN Accepts) BY DEF ChooserInv, ChooserShape, AskerShape, Asks
<1>2. Asks(c).filters # <<>> => Head(Asks(c).filters) \in ToSet(Asks(c).filters)
  <2> DEFINE s == Asks(c).filters
  <2> HIDE DEF s
  <2>1. ASSUME s \in Seq(DOMAIN Accepts), s # <<>> PROVE Head(s) \in ToSet(s)
    <3>1. 1 \in DOMAIN s /\ Head(s) = s[1] BY <2>1
    <3> QED BY <3>1 DEF ToSet
  <2> QED BY <1>1, <2>1 DEF s
<1> QED BY <1>2 DEF FirstFilter, Offered

(* The timers there are stay of their generation. *)
LEMMA OpenedKeeps ==
    ASSUME ChooserInv
    PROVE  /\ Opened(portal) \in PortalSet
           /\ Opened(portal).open = portal.open + 1 /\ Opened(portal).alive = portal.alive
           /\ \A t \in Opened(portal).timers : t.generation <= Opened(portal).generation
<1> DEFINE timers == {[t EXCEPT !.quiet = FALSE] : t \in portal.timers}
           p == [portal EXCEPT !.open = @ + 1, !.timers = timers]
<1>1. Opened(portal) = p BY DEF Opened
<1>2. portal \in PortalSet /\ portal.timers \subseteq TimerSet /\ portal.generation \in Nat
  BY DEF ChooserInv, ChooserShape, PortalSet
<1>3. timers \in SUBSET TimerSet /\ \A t \in timers : t.generation <= portal.generation
  <2>1. ASSUME NEW u \in portal.timers
        PROVE  /\ [u EXCEPT !.quiet = FALSE] \in TimerSet
               /\ [u EXCEPT !.quiet = FALSE].generation <= portal.generation
    <3>1. u \in TimerSet /\ u.generation <= portal.generation BY <1>2 DEF ChooserInv, PortalFits
    <3> QED BY <3>1 DEF TimerSet
  <2> QED BY <2>1
<1> HIDE DEF timers
<1>4. p \in PortalSet /\ p.open = portal.open + 1 /\ p.alive = portal.alive /\ p.timers = timers
      /\ p.generation = portal.generation
  <2> DEFINE n == portal.open + 1
  <2>1. n \in Nat BY <1>2 DEF PortalSet
  <2> HIDE DEF n
  <2>2. p = [portal EXCEPT !.open = n, !.timers = timers] BY DEF n
  <2>3. /\ p \in PortalSet /\ p.open = n /\ p.alive = portal.alive /\ p.timers = timers
        /\ p.generation = portal.generation
    BY <1>2, <1>3, <2>1, <2>2 DEF PortalSet
  <2> QED BY <2>3 DEF n
<1> HIDE DEF p
<1> QED BY <1>1, <1>3, <1>4

(* Present preserves it: one more dialog on screen. *)
LEMMA PresentStep ==
    ASSUME ChooserInv, NEW c \in Calls, Present(c)
    PROVE  StepFits
<1> DEFINE d == [NewDialog EXCEPT !.pc = "open", !.folder = StartFolder(c),
                                  !.filter = FirstFilter(c), !.name = SuggestedName(c)]
<1>1. /\ call[c].pc = "sent" /\ portal.alive /\ call' = [call EXCEPT ![c].pc = "shown"]
      /\ portal' = Opened(portal) /\ dialog' = [dialog EXCEPT ![c] = d]
      /\ UNCHANGED <<disk, memory, asker>>
  BY DEF Present
<1>2. /\ DOMAIN call = Calls /\ DOMAIN dialog = Calls /\ CallShape(call[c]) /\ CallFits(c)
  BY DEF ChooserInv, ChooserShape
<1>3. /\ DOMAIN call' = Calls /\ \A k \in Calls \ {c} : call'[k] = call[k]
      /\ DOMAIN (call'[c]) = CallFields /\ call'[c].pc = "shown"
  BY <1>1, <1>2 DEF CallShape, CallFields
<1>4. DOMAIN d = DialogFields /\ d.pc = "open" /\ d.folder = StartFolder(c) /\ d.filter = FirstFilter(c)
      /\ d.selected = {}
  BY DEF NewDialog, DialogFields
<1> HIDE DEF d
<1>5. /\ DOMAIN dialog' = Calls /\ dialog'[c] = d /\ \A k \in Calls \ {c} : dialog'[k] = dialog[k]
  BY <1>1, <1>2
<1>6. c \in DOMAIN asker.asks /\ dialog[c].pc \notin Waiting BY <1>1, <1>2 DEF CallFits
<1>7. FineDialog(c, d)
  <2>1. d.folder = StartFolder(c) /\ IsDir(StartFolder(c)) /\ d.filter \in Offered(c) \cup {None}
    BY <1>4, <1>6, FirstFolderIsThere, FirstFilterIsOffered
  <2>2. Cardinality(d.selected) <= 1 BY <1>4, EmptyIsSmall
  <2> QED BY <1>4, <1>6, <2>1, <2>2 DEF FineDialog, DialogShape, Waiting
<1>8. CallFits(c)'
  <2>1. FineDialog(c, dialog[c])'
    BY <1>1, <1>5, <1>7 DEF FineDialog, AskingFits, OneResult, BuildResults, Asks, Offered, IsDir, IsFile, Exists
  <2>2. c \in DOMAIN asker'.asks /\ dialog'[c].pc \in Waiting BY <1>1, <1>4, <1>5, <1>6 DEF Waiting
  <2> QED BY <2>1, <2>2, <1>3 DEF CallFits
<1>9. DiskGrows /\ AskerKept BY <1>1, AllStays
<1>10. \A k \in Calls \ {c} : CallFits(k)'
  <2>1. \A k \in Calls : CallFits(k) BY DEF ChooserInv
  <2> QED BY <2>1, <1>3, <1>5, <1>9, CallFitsStays DEF AskerKept
<1>11. portal' \in PortalSet /\ portal'.open = portal.open + 1 /\ portal'.alive
       /\ \A t \in portal'.timers : t.generation <= portal'.generation
  BY <1>1, OpenedKeeps
<1>12. PortalFits'
  <2>1. Dialogs' = Dialogs \cup {c} BY <1>4, <1>5 DEF Dialogs, Waiting
  <2>2. IsFiniteSet(Dialogs) /\ c \notin Dialogs BY <1>6, ChooserAssumption, FS_Subset DEF Dialogs
  <2>3. Cardinality(Dialogs') = Cardinality(Dialogs) + 1 BY <2>1, <2>2, FS_AddElement
  <2>4. portal.open = Cardinality(Dialogs) /\ portal.open \in Nat
    BY DEF ChooserInv, ChooserShape, PortalSet, PortalFits
  <2>5. Cardinality(Dialogs') = portal'.open /\ portal'.open # 0 BY <2>3, <2>4, <1>11
  <2> QED BY <2>5, <1>11 DEF PortalFits
<1>13. ChooserShape'
  <2>1. \A k \in Calls : CallShape(call[k])' /\ DialogShape(dialog[k])'
    BY <1>2, <1>3, <1>4, <1>5 DEF ChooserInv, ChooserShape, CallShape, DialogShape
  <2> QED BY <1>1, <1>3, <1>5, <1>9, <1>11, <2>1 DEF ChooserInv, ChooserShape, AskerKept
<1>14. ChooserInv' BY <1>8, <1>10, <1>12, <1>13 DEF ChooserInv
<1> QED BY <1>3, <1>11, <1>14 DEF StepFits, ReplacesAsked, QuitsQuietly

(* With none counted none is on screen, and no call waits for one. *)
LEMMA NoneOpen ==
    ASSUME ChooserInv, portal.open = 0
    PROVE  Dialogs = {} /\ \A k \in Calls : dialog[k].pc \notin Waiting /\ call[k].pc # "shown"
<1>1. IsFiniteSet(Dialogs) BY ChooserAssumption, FS_Subset DEF Dialogs
<1>2. Dialogs = {} BY <1>1, FS_EmptySet DEF ChooserInv, PortalFits
<1> QED BY <1>2 DEF Dialogs, ChooserInv, CallFits

(* TimerFires preserves it: the process quits on a timer no dialog was opened since. *)
LEMMA TimerFiresStep ==
    ASSUME ChooserInv, NEW t \in portal.timers, TimerFires(t)
    PROVE  StepFits
<1>1. UNCHANGED <<disk, dialog, asker>> BY DEF TimerFires
<1>2. DiskGrows /\ AskerKept BY <1>1, AllStays
<1>3. portal \in PortalSet /\ t \in TimerSet BY DEF ChooserInv, ChooserShape, PortalSet
<1>4. CASE portal.open = 0 /\ portal.generation = t.generation
  <2>1. /\ portal' = [NotRunning EXCEPT !.quitOn = t]
        /\ call' = [k \in Calls |->
                      IF call[k].pc \in {"sent", "shown"}
                      THEN [call[k] EXCEPT !.pc = "failed", !.handle = FALSE] ELSE call[k]]
    BY <1>4 DEF TimerFires
  <2>2. t.quiet BY <1>4 DEF ChooserInv, PortalFits
  <2>3. /\ portal' \in PortalSet /\ portal'.open = 0 /\ portal'.timers = {} /\ portal'.quitOn = t
    BY <1>3, <2>1 DEF NotRunning, PortalSet
  <2>4. Dialogs = {} /\ \A k \in Calls : dialog[k].pc \notin Waiting /\ call[k].pc # "shown"
    BY <1>4, NoneOpen
  <2>5. ASSUME NEW k \in Calls
        PROVE  CallShape(call[k])' /\ CallFits(k)' /\ (call'[k].pc = "replied" => call[k].pc = "replied")
    <3>1. CallShape(call[k]) /\ CallFits(k) BY DEF ChooserInv, ChooserShape
    <3>2. CASE call[k].pc = "sent"
      <4> DEFINE new == [call[k] EXCEPT !.pc = "failed", !.handle = FALSE]
      <4>1. call'[k] = new BY <2>1, <3>2
      <4>2. DOMAIN new = CallFields /\ new.pc = "failed" BY <3>1 DEF CallShape, CallFields
      <4> HIDE DEF new
      <4>3. k \in DOMAIN asker'.asks /\ dialog'[k].pc \notin Waiting
        BY <3>1, <3>2, <1>1, <2>4 DEF CallFits
      <4> QED BY <4>1, <4>2, <4>3 DEF CallShape, CallFits
    <3>3. CASE call[k].pc # "sent"
      <4>1. call'[k] = call[k] /\ dialog'[k] = dialog[k] BY <1>1, <2>1, <2>4, <3>3
      <4>2. CallFits(k)' BY <3>1, <4>1, <1>2, CallFitsStays DEF AskerKept
      <4> QED BY <3>1, <4>1, <4>2 DEF CallShape
    <3> QED BY <3>2, <3>3
  <2>6. PortalFits'
    <3>1. Dialogs' = {} BY <1>1, <2>4 DEF Dialogs
    <3>2. Cardinality(Dialogs') = 0 BY <3>1, FS_EmptySet
    <3> QED BY <2>3, <3>2 DEF PortalFits
  <2>7. ChooserShape'
    BY <1>1, <1>2, <2>1, <2>3, <2>5 DEF ChooserInv, ChooserShape, DialogShape, AskerKept
  <2>8. ChooserInv' BY <2>5, <2>6, <2>7 DEF ChooserInv
  <2>9. QuitsQuietly BY <2>2, <2>3, <2>4 DEF QuitsQuietly, Waiting
  <2> QED BY <2>4, <2>8, <2>9 DEF StepFits, ReplacesAsked
<1>5. CASE ~(portal.open = 0 /\ portal.generation = t.generation)
  <2>1. portal' = [portal EXCEPT !.timers = @ \ {t}] /\ UNCHANGED call BY <1>5 DEF TimerFires
  <2>2. /\ portal' \in PortalSet /\ portal'.open = portal.open /\ portal'.timers = portal.timers \ {t}
        /\ portal'.generation = portal.generation /\ portal'.alive = portal.alive
    BY <1>3, <2>1 DEF PortalSet
  <2>3. \A k \in Calls : CallFits(k)'
    <3>1. \A k \in Calls : CallFits(k) BY DEF ChooserInv
    <3> QED BY <3>1, <1>1, <1>2, <2>1, CallFitsStays DEF AskerKept
  <2>4. PortalFits'
    <3>1. Dialogs' = Dialogs BY <1>1 DEF Dialogs
    <3> QED BY <3>1, <2>2 DEF ChooserInv, PortalFits
  <2>5. ChooserInv'
    BY <1>1, <1>2, <2>1, <2>2, <2>3, <2>4 DEF ChooserInv, ChooserShape, CallShape, DialogShape, AskerKept
  <2> QED BY <2>1, <2>2, <2>5 DEF StepFits, ReplacesAsked, QuitsQuietly
<1> QED BY <1>4, <1>5

(* CallerWrites preserves it: a file where nothing was. *)
LEMMA CallerWritesStep ==
    ASSUME ChooserInv, NEW c \in Calls, CallerWrites(c)
    PROVE  StepFits
<1>1. PICK p \in Paths : disk[p] = "none" /\ disk' = [disk EXCEPT ![p] = "file"] BY DEF CallerWrites
<1>2. UNCHANGED <<call, dialog, memory, portal, asker>> BY DEF CallerWrites
<1>3. DiskGrows /\ AskerKept
  <2>1. DiskGrows BY <1>1 DEF ChooserInv, ChooserShape, DiskGrows
  <2>2. AskerKept BY <1>2, ActsKeepsAsker DEF ChooserInv
  <2> QED BY <2>1, <2>2
<1>4. DOMAIN call' = Calls /\ CallShape(call[c])' /\ CallFits(c)'
  <2>1. CallFits(c) /\ DOMAIN call = Calls /\ CallShape(call[c]) BY DEF ChooserInv, ChooserShape
  <2>2. CallFits(c)' BY <2>1, <1>2, <1>3, CallFitsStays DEF AskerKept
  <2> QED BY <2>1, <2>2, <1>2 DEF CallShape
<1>5. ChooserInv' BY <1>2, <1>3, <1>4, PortalStays, CallMoves
<1> QED BY <1>2, <1>5 DEF StepFits, ReplacesAsked, QuitsQuietly

(* FolderVanishes preserves it: no dialog is on screen then. *)
LEMMA FolderVanishesStep ==
    ASSUME ChooserInv, FolderVanishes
    PROVE  StepFits
<1>1. PICK p \in Paths :
         /\ ~IsPrefix(p, Home)
         /\ disk' = [q \in Paths |-> IF IsPrefix(p, q) THEN "none" ELSE disk[q]]
  BY DEF FolderVanishes
<1>2. /\ \A k \in Calls : call[k].pc \notin {"shown", "replied"}
      /\ asker' = [asker EXCEPT !.left = @ - 1]
      /\ UNCHANGED <<call, dialog, memory, portal>>
  BY DEF FolderVanishes
<1>3. AskerKept BY <1>2, ActsKeepsAsker DEF ChooserInv
<1>4. disk' \in [Paths -> {"none", "dir", "file"}] /\ disk'[Home] = "dir"
  BY <1>1, ChooserAssumption DEF ChooserInv, ChooserShape
<1>5. \A k \in Calls : CallFits(k)'
  <2> SUFFICES ASSUME NEW k \in Calls PROVE CallFits(k)' OBVIOUS
  <2>1. CallFits(k) /\ dialog'[k].pc \notin Waiting /\ call'[k].pc \notin {"shown", "replied"}
    BY <1>2 DEF ChooserInv, CallFits
  <2>2. Asks(k)' = Asks(k) BY <1>3 DEF AskerKept, Asks
  <2> QED BY <2>1, <2>2, <1>2, <1>3 DEF CallFits, AskerKept
<1>6. portal' \in PortalSet /\ PortalFits' BY <1>2, PortalStays
<1>7. ChooserInv'
  BY <1>2, <1>3, <1>4, <1>5, <1>6 DEF ChooserInv, ChooserShape, CallShape, DialogShape, AskerKept
<1> QED BY <1>2, <1>7 DEF StepFits, ReplacesAsked, QuitsQuietly

-------------------------------------------------------------------------------
(* Every act of the user preserves it. *)
LEMMA UserStepFits ==
    ASSUME ChooserInv, NEW c \in Calls, UserStep(c)
    PROVE  StepFits
<1>1. CASE NewFolder(c) BY <1>1, NewFolderStep DEF StepFits, ReplacesAsked, QuitsQuietly
<1>2. CASE ~NewFolder(c)
  <2>1. Acts(c) /\ UNCHANGED disk
    BY <1>2, RefilterStep DEF UserStep, Accept, Navigate, ActivateRow, Select, TypeName, LocationActivated, Refilter
  <2>2. Outcome(c)
    BY <1>2, AcceptStep, NavigateStep, ActivateRowStep, SelectStep, TypeNameStep, LocationStep,
      RefilterStep DEF UserStep
  <2> QED BY <2>1, <2>2, ActsFits, OutcomeFits
<1> QED BY <1>1, <1>2

(* So does every step, and both action properties hold of it. *)
LEMMA ChooserStepFits ==
    ASSUME ChooserInv, [ChooserNext]_chooserVars
    PROVE  StepFits
<1>1. CASE UNCHANGED chooserVars
  <2>1. ChooserInv'
    <3>1. UNCHANGED <<disk, call, dialog, portal, asker>> BY <1>1 DEF chooserVars
    <3>2. DiskGrows /\ AskerKept /\ portal' \in PortalSet /\ PortalFits' BY <3>1, AllStays, PortalStays
    <3>3. \A k \in Calls : CallFits(k)'
      <4>1. \A k \in Calls : CallFits(k) BY DEF ChooserInv
      <4> QED BY <4>1, <3>1, <3>2, CallFitsStays DEF AskerKept
    <3>4. ChooserShape' BY <3>1, <3>2 DEF ChooserInv, ChooserShape, CallShape, DialogShape, AskerKept
    <3> QED BY <3>2, <3>3, <3>4 DEF ChooserInv
  <2> QED BY <2>1, <1>1 DEF chooserVars, StepFits, ReplacesAsked, QuitsQuietly
<1>2. ASSUME NEW c \in Calls, CallStep(c) PROVE StepFits
  <2>1. CASE RunCall(c) \/ RequestClose(c) \/ ReturnCall(c) \/ Present(c) \/ CallerWrites(c)
    BY <2>1, RunCallStep, RequestCloseStep, ReturnCallStep, PresentStep, CallerWritesStep
  <2>2. CASE Loaded(c) \/ Dismiss(c) \/ AnswerReplace(c) \/ Withdrawn(c)
    BY <2>2, LoadedStep, CancelledStep, AnswerReplaceStep, OutcomeFits
  <2>3. CASE UserStep(c) BY <2>3, UserStepFits
  <2> QED BY <1>2, <2>1, <2>2, <2>3 DEF CallStep
<1>3. ASSUME NEW t \in portal.timers, TimerFires(t) PROVE StepFits BY <1>3, TimerFiresStep
<1>4. CASE FolderVanishes BY <1>4, FolderVanishesStep
<1> QED BY <1>1, <1>2, <1>3, <1>4 DEF ChooserNext

(* portal.rs, file_chooser_dialog.rs: calls, dialogs and the process fit each other in every
   state. *)
THEOREM ChooserInvHolds == ChooserSpec => []ChooserInv
<1>1. ChooserInit => ChooserInv BY ChooserInitInv
<1>2. ChooserInv /\ [ChooserNext]_chooserVars => ChooserInv' BY ChooserStepFits DEF StepFits
<1> QED BY <1>1, <1>2, PTL DEF ChooserSpec

(* file_chooser_dialog.rs accept and portal.rs build_results: for any disk, requests, calls and
   acts of the users, a call is answered in the terms it was asked in, and while it waits its
   dialog is open, counted, and shows a folder that is there. *)
THEOREM CallsAlwaysGetTheirAnswers == ChooserSpec => []CallsGetTheirAnswers
BY ChooserInvHolds, ChooserInvAnswers, PTL

(* confirm_replace: for any of them, whichever way a save is accepted, what stands at the paths
   answered is what the user was asked about, or came there since. *)
THEOREM OnlyAskedIsReplaced == ChooserSpec => ReplacesOnlyAsked
<1>1. ChooserInv /\ [ChooserNext]_chooserVars => [\A c \in Calls : ReplacesAsked(c)]_chooserVars
  BY ChooserStepFits DEF StepFits
<1>2. ChooserSpec => [][\A c \in Calls : ReplacesAsked(c)]_chooserVars
  BY <1>1, ChooserInvHolds, PTL DEF ChooserSpec
<1> QED BY <1>2 DEF ReplacesOnlyAsked, ReplacesAsked

(* portal_mode.rs:7: the process never quits under a dialog, nor on a timer set before the last
   dialog was opened. *)
THEOREM QuitsOnlyWhenQuiet == ChooserSpec => QuitsAfterAQuietMinute
<1>1. ChooserInv /\ [ChooserNext]_chooserVars => [QuitsQuietly]_chooserVars
  BY ChooserStepFits DEF StepFits
<1>2. ChooserSpec => [][QuitsQuietly]_chooserVars BY <1>1, ChooserInvHolds, PTL DEF ChooserSpec
<1> QED BY <1>2 DEF QuitsAfterAQuietMinute, QuitsQuietly
===============================================================================
