----------------------------- MODULE NavigationProofs -----------------------------
(***************************************************************************)
(* Proofs about Navigation: panes list what they say, and show at last   *)
(* what was asked for.  Commands, listings under way and events are one  *)
(* way on which what was asked for travels: the invariant says of each   *)
(* pane that it is as promised, or that what will make it so is on the   *)
(* way, with nothing behind it that undoes it.  And about Thumbnails,    *)
(* for any rows, files and limits: rows show their file, or an icon, and *)
(* no thread sleeps while a permit is free.                              *)
(***************************************************************************)
EXTENDS Navigation, Thumbnails, Integers, SequenceTheorems, FiniteSetTheorems, TLAPS

-------------------------------------------------------------------------------
(* What is on the way to a pane. *)

Rng(s) == {s[i] : i \in 1..Len(s)}

(* What a user visits, and where history leads. *)
Places == user.visits \cup {Home}

PaneStates ==
    [path : Places, back : Seq(Places), forward : Seq(Places), recent : BOOLEAN,
     listing : Places \cup {Nothing, Recents}, tag : Places \cup {Nothing},
     pending : Places \cup {Nothing}]

Visits  == [kind : {"navigate", "reveal"}, pane : user.panes, path : Places]
Filters == [kind : {"tag"}, pane : user.panes, path : Places, on : BOOLEAN]
Lookups == [kind : {"recent"}, pane : user.panes, gen : Nat]

(* A listing that arrives is of a folder that can be listed. *)
Arrives(e) == e.kind # "reveal" /\ (e.kind = "tag" => e.on) => e.path \notin Failing

AllUsers == [panes : (SUBSET Panes) \ {{}}, does : SUBSET AskNames,
             visits : SUBSET Folders, loads : Nat, left : Nat]

NavTypes ==
    /\ user \in AllUsers
    /\ active \in user.panes
    /\ pane \in [Panes -> PaneStates]
    /\ commands \in Seq(Visits \cup Filters)
    /\ loads \in Seq(Visits \cup Filters \cup Lookups) /\ Len(loads) <= user.loads
    /\ events \in Seq(Visits \cup Filters)
    /\ \A i \in 1..Len(loads) : loads[i].kind # "reveal" /\ (loads[i].kind = "tag" => loads[i].on)
    /\ \A i \in 1..Len(events) : Arrives(events[i])
    /\ "reveal" \notin user.does => \A c \in Rng(commands) : c.kind # "reveal"
    /\ recentGen \in Nat /\ highlight \in BOOLEAN
    /\ asked \in [Panes -> Places \cup {Recents}]

(* A listing of folder f is on its way to pane p. *)
Way            == Rng(commands) \cup Rng(loads) \cup Rng(events)
OnTheWay(p, f) == Cmd("navigate", p, f) \in Way

ListsFit == \A p \in Panes :
    \/ pane[p].recent \/ pane[p].path \in Failing \/ pane[p].listing = pane[p].path
    \/ OnTheWay(p, pane[p].path)

(* A filter of another folder than the one listed will go with the next listing. *)
TagsFit ==
    "recent" \notin user.does => \A p \in Panes :
        /\ ~pane[p].recent
        /\ pane[p].tag \in {Nothing, pane[p].listing} \/ \E f \in Places \ Failing : OnTheWay(p, f)

(* The latest look for recent files is for the pane that waits for it. *)
RecentFits ==
    OnePane => \A p \in Panes : pane[p].recent =>
        /\ p \in user.panes
        /\ \/ pane[p].listing = Recents
           \/ [kind |-> "recent", pane |-> p, gen |-> recentGen] \in Rng(loads)

(* What of s comes behind place i. *)
Later(s, i) == {s[j] : j \in (i + 1)..Len(s)}

(* A folder is listed, or on the way, once what is to be revealed in it is known. *)
RevealsFit ==
    /\ \A p \in Panes :
          pane[p].pending \in {Nothing} \cup Missing \cup Failing \/ OnTheWay(p, pane[p].pending)
    /\ \A i \in 1..Len(events) : events[i].kind = "reveal" =>
          \/ events[i].path \in Failing
          \/ Cmd("navigate", events[i].pane, events[i].path) \in
                Rng(commands) \cup Rng(loads) \cup Later(events, i)

(* Nothing in B is on the way. x is on the way, and nothing in B will be handled after it. *)
Free(s, x, B) == \E i \in 1..Len(s) : s[i] = x /\ Later(s, i) \cap B = {}
Clear(cs, ls, es, B) == (Rng(cs) \cup Rng(ls) \cup Rng(es)) \cap B = {}
Coming(cs, ls, es, x, B) ==
    \/ Free(cs, x, B)
    \/ x \in Rng(ls) /\ Rng(cs) \cap B = {}
    \/ Free(es, x, B) /\ (Rng(cs) \cup Rng(ls)) \cap B = {}

IsOff(c) == c.kind = "tag" /\ ~c.on
Offs    == {c \in Filters : IsOff(c)}
Navs(p) == {c \in Visits : c.kind = "navigate" /\ c.pane = p}
On      == [kind |-> "tag", pane |-> active, path |-> pane[active].path, on |-> TRUE]

(* A tag that is highlighted is applied, or will be, and nothing comes behind that takes it
   off; or a new listing takes the highlight off. *)
HighlightFits ==
    highlight /\ user.visits \cap Failing = {} /\ OnePane =>
        \/ \E f \in Places : OnTheWay(active, f)
        \/ pane[active].tag # Nothing /\ Clear(commands, loads, events, Offs)
        \/ Coming(commands, loads, events, On, Offs)

(* What was asked for last comes last. *)
AskedFits ==
    user.loads = 1 /\ user.does \cap {"reload", "reveal"} = {} => \A p \in Panes :
        \/ asked[p] \in Failing \cup {Recents}
        \/ ~pane[p].recent /\ pane[p].path = asked[p] /\ Clear(commands, loads, events, Navs(p))
        \/ Coming(commands, loads, events, Cmd("navigate", p, asked[p]), Navs(p))

NavInv ==
    /\ NavTypes /\ ListsFit /\ TagsFit /\ HighlightFits /\ RecentFits /\ RevealsFit /\ AskedFits

-------------------------------------------------------------------------------
(* What is in a sequence. *)

(* Append adds its element behind the others. *)
LEMMA AppendNth ==
    ASSUME NEW S, NEW s \in Seq(S), NEW e \in S
    PROVE  /\ Append(s, e) \in Seq(S) /\ Len(s) \in Nat /\ Len(Append(s, e)) = Len(s) + 1
           /\ \A i \in 1..Len(s) : Append(s, e)[i] = s[i]
           /\ Append(s, e)[Len(s) + 1] = e
           /\ Rng(Append(s, e)) = Rng(s) \cup {e}
<1> DEFINE t == Append(s, e)
<1>1. /\ t \in Seq(S) /\ Len(s) \in Nat /\ Len(t) = Len(s) + 1
      /\ \A i \in 1..Len(s) : t[i] = s[i]
      /\ t[Len(s) + 1] = e
  BY AppendProperties, LenProperties
<1> HIDE DEF t
<1>2. Rng(t) = Rng(s) \cup {e} BY <1>1 DEF Rng
<1> QED BY <1>1, <1>2 DEF t

(* Tail takes the head out. *)
LEMMA TailNth ==
    ASSUME NEW S, NEW s \in Seq(S), s # <<>>
    PROVE  /\ Tail(s) \in Seq(S) /\ Len(s) \in Nat /\ Len(s) >= 1 /\ Len(Tail(s)) = Len(s) - 1
           /\ Head(s) = s[1] /\ Head(s) \in S
           /\ \A i \in 1..(Len(s) - 1) : Tail(s)[i] = s[i + 1]
           /\ Rng(s) = Rng(Tail(s)) \cup {Head(s)}
<1> DEFINE t == Tail(s)
<1>1. /\ t \in Seq(S) /\ Len(s) \in Nat /\ Len(s) >= 1 /\ Len(t) = Len(s) - 1
      /\ Head(s) = s[1] /\ Head(s) \in S
      /\ \A i \in 1..(Len(s) - 1) : t[i] = s[i + 1]
  OBVIOUS
<1> HIDE DEF t
<1>2. ASSUME NEW i \in 1..Len(s) PROVE s[i] = Head(s) \/ \E k \in 1..Len(t) : s[i] = t[k]
  <2>1. CASE i = 1 BY <1>1, <2>1
  <2>2. CASE i # 1
    <3>1. i - 1 \in 1..Len(t) /\ t[i - 1] = s[i] BY <1>1, <2>2
    <3> QED BY <3>1
  <2> QED BY <2>1, <2>2
<1>3. \A k \in 1..Len(t) : \E i \in 1..Len(s) : t[k] = s[i] BY <1>1
<1>4. Head(s) \in Rng(s) BY <1>1 DEF Rng
<1>5. Rng(s) = Rng(t) \cup {Head(s)}
  <2>1. \A x \in Rng(s) : x = Head(s) \/ x \in Rng(t) BY <1>2 DEF Rng
  <2>2. \A x \in Rng(t) : x \in Rng(s) BY <1>3 DEF Rng
  <2> QED BY <1>4, <2>1, <2>2
<1> QED BY <1>1, <1>5 DEF t

(* RemoveAt takes one out. *)
LEMMA RemoveNth ==
    ASSUME NEW S, NEW s \in Seq(S), NEW p \in 1..Len(s)
    PROVE  /\ RemoveAt(s, p) \in Seq(S) /\ Len(s) \in Nat /\ Len(RemoveAt(s, p)) = Len(s) - 1
           /\ \A i \in 1..(Len(s) - 1) : RemoveAt(s, p)[i] = IF i < p THEN s[i] ELSE s[i + 1]
           /\ Rng(s) = Rng(RemoveAt(s, p)) \cup {s[p]}
<1> DEFINE t == RemoveAt(s, p)
           a == SubSeq(s, 1, p - 1)
           b == SubSeq(s, p + 1, Len(s))
<1>1. Len(s) \in Nat /\ p \in Nat /\ p >= 1 /\ p <= Len(s) /\ \A i \in 1..Len(s) : s[i] \in S
  BY LenProperties
<1>2. /\ a \in Seq(S) /\ Len(a) = p - 1 /\ \A i \in 1..(p - 1) : a[i] = s[i]
  <2>1. /\ a \in Seq(S) /\ Len(a) = IF 1 <= p - 1 THEN p - 1 - 1 + 1 ELSE 0
        /\ \A i \in 1..(p - 1 - 1 + 1) : a[i] = s[1 + i - 1]
    BY <1>1, SubSeqProperties
  <2> HIDE DEF a
  <2> QED BY <1>1, <2>1
<1>3. /\ b \in Seq(S) /\ Len(b) = Len(s) - p /\ \A i \in 1..(Len(s) - p) : b[i] = s[p + i]
  <2>1. /\ b \in Seq(S) /\ Len(b) = IF p + 1 <= Len(s) THEN Len(s) - (p + 1) + 1 ELSE 0
        /\ \A i \in 1..(Len(s) - (p + 1) + 1) : b[i] = s[p + 1 + i - 1]
    BY <1>1, SubSeqProperties
  <2> HIDE DEF b
  <2> QED BY <1>1, <2>1
<1>4. t = a \o b BY DEF RemoveAt
<1> HIDE DEF t, a, b
<1>5. /\ t \in Seq(S) /\ Len(t) = Len(a) + Len(b)
      /\ \A i \in 1..(Len(a) + Len(b)) : t[i] = IF i <= Len(a) THEN a[i] ELSE b[i - Len(a)]
  BY <1>2, <1>3, <1>4, ConcatProperties
<1>6. Len(t) = Len(s) - 1 BY <1>1, <1>2, <1>3, <1>5
<1>7. ASSUME NEW i \in 1..(Len(s) - 1) PROVE t[i] = IF i < p THEN s[i] ELSE s[i + 1]
  <2>1. CASE i < p BY <1>1, <1>2, <1>3, <1>5, <2>1
  <2>2. CASE ~(i < p)
    <3>1. i - Len(a) \in 1..(Len(s) - p) /\ p + (i - Len(a)) = i + 1 /\ ~(i <= Len(a)) /\ i \in 1..(Len(a) + Len(b))
      BY <1>1, <1>2, <1>3, <2>2, SMTT(20)
    <3>2. t[i] = b[i - Len(a)] BY <1>5, <3>1
    <3>3. b[i - Len(a)] = s[i + 1] BY <1>3, <3>1
    <3> QED BY <2>2, <3>2, <3>3
  <2> QED BY <2>1, <2>2
<1>8. ASSUME NEW i \in 1..Len(s), i # p PROVE \E k \in 1..Len(t) : t[k] = s[i]
  <2>1. CASE i < p
    <3>1. i \in 1..(Len(s) - 1) /\ t[i] = s[i] BY <1>1, <1>7, <2>1
    <3> QED BY <1>6, <3>1
  <2>2. CASE ~(i < p)
    <3>1. i - 1 \in 1..(Len(s) - 1) /\ ~(i - 1 < p) /\ i - 1 + 1 = i BY <1>1, <1>8, <2>2
    <3>2. t[i - 1] = s[i] BY <1>7, <3>1
    <3> QED BY <1>6, <3>1, <3>2
  <2> QED BY <2>1, <2>2
<1>9. \A k \in 1..Len(t) : \E i \in 1..Len(s) : t[k] = s[i] BY <1>1, <1>6, <1>7
<1>10. Rng(s) = Rng(t) \cup {s[p]}
  <2>1. \A x \in Rng(s) : x = s[p] \/ x \in Rng(t) BY <1>8 DEF Rng
  <2>2. \A x \in Rng(t) : x \in Rng(s) BY <1>9 DEF Rng
  <2>3. s[p] \in Rng(s) BY <1>1 DEF Rng
  <2> QED BY <2>1, <2>2, <2>3
<1> QED BY <1>1, <1>5, <1>6, <1>7, <1>10 DEF t

(* What comes later, when one is appended. *)
LEMMA AppendLater ==
    ASSUME NEW S, NEW s \in Seq(S), NEW e \in S
    PROVE  /\ \A i \in 1..Len(s) : Later(Append(s, e), i) = Later(s, i) \cup {e}
           /\ Later(Append(s, e), Len(s) + 1) = {}
<1> DEFINE t == Append(s, e)
<1>1. /\ Len(s) \in Nat /\ Len(t) = Len(s) + 1 /\ t[Len(s) + 1] = e
      /\ \A i \in 1..Len(s) : t[i] = s[i]
  BY AppendNth
<1> HIDE DEF t
<1>2. ASSUME NEW i \in 1..Len(s) PROVE Later(t, i) = Later(s, i) \cup {e}
  <2>1. \A x \in Later(t, i) : x \in Later(s, i) \cup {e}
    <3>1. SUFFICES ASSUME NEW j \in (i + 1)..Len(t), t[j] # e PROVE t[j] \in Later(s, i) BY DEF Later
    <3>2. j \in (i + 1)..Len(s) /\ j \in 1..Len(s) BY <1>1, <3>1
    <3> QED BY <1>1, <3>2 DEF Later
  <2>2. \A j \in (i + 1)..Len(s) : j \in (i + 1)..Len(t) /\ t[j] = s[j] BY <1>1
  <2>3. Later(s, i) \subseteq Later(t, i) BY <2>2 DEF Later
  <2>4. Len(s) + 1 \in (i + 1)..Len(t) BY <1>1
  <2>5. e \in Later(t, i) BY <1>1, <2>4 DEF Later
  <2> QED BY <2>1, <2>3, <2>5
<1>3. Later(t, Len(s) + 1) = {} BY <1>1 DEF Later
<1> QED BY <1>2, <1>3 DEF t

(* What comes later, when the head is taken. *)
LEMMA TailLater ==
    ASSUME NEW S, NEW s \in Seq(S), s # <<>>
    PROVE  /\ Later(s, 1) = Rng(Tail(s))
           /\ \A i \in 1..Len(Tail(s)) : Later(Tail(s), i) = Later(s, i + 1)
<1> DEFINE t == Tail(s)
<1>1. /\ Len(s) \in Nat /\ Len(s) >= 1 /\ Len(t) = Len(s) - 1
      /\ \A i \in 1..(Len(s) - 1) : t[i] = s[i + 1]
  BY TailNth
<1> HIDE DEF t
<1>2. ASSUME NEW i \in 0..Len(t) PROVE Later(t, i) = Later(s, i + 1)
  <2>1. \A j \in (i + 1)..Len(t) : j + 1 \in (i + 1 + 1)..Len(s) /\ t[j] = s[j + 1] BY <1>1
  <2>2. \A j \in (i + 1 + 1)..Len(s) : j - 1 \in (i + 1)..Len(t) /\ t[j - 1] = s[j]
    <3>1. SUFFICES ASSUME NEW j \in (i + 1 + 1)..Len(s) PROVE j - 1 \in (i + 1)..Len(t) /\ t[j - 1] = s[j]
      OBVIOUS
    <3>2. j - 1 \in (i + 1)..Len(t) /\ j - 1 \in 1..(Len(s) - 1) /\ j - 1 + 1 = j BY <1>1
    <3> QED BY <1>1, <3>2
  <2>3. Later(t, i) \subseteq Later(s, i + 1) BY <2>1 DEF Later
  <2>4. Later(s, i + 1) \subseteq Later(t, i) BY <2>2 DEF Later
  <2> QED BY <2>3, <2>4
<1>3. Later(s, 1) = Rng(t)
  <2>1. 0 \in 0..Len(t) BY <1>1
  <2>2. Later(t, 0) = Later(s, 0 + 1) BY <1>2, <2>1
  <2>3. Later(t, 0) = Rng(t) BY DEF Later, Rng
  <2> QED BY <2>2, <2>3
<1> QED BY <1>1, <1>2, <1>3 DEF t

(* What is appended is last; the others are as free as they were, if it does not harm. *)
LEMMA FreeAppend ==
    ASSUME NEW S, NEW s \in Seq(S), NEW e \in S, NEW B
    PROVE  /\ Free(Append(s, e), e, B)
           /\ \A x : Free(s, x, B) /\ e \notin B => Free(Append(s, e), x, B)
<1>1. /\ Len(s) \in Nat /\ Len(Append(s, e)) = Len(s) + 1 /\ Append(s, e)[Len(s) + 1] = e
      /\ \A i \in 1..Len(s) : Append(s, e)[i] = s[i]
  BY AppendNth
<1>2. /\ \A i \in 1..Len(s) : Later(Append(s, e), i) = Later(s, i) \cup {e}
      /\ Later(Append(s, e), Len(s) + 1) = {}
  BY AppendLater
<1>3. Len(s) + 1 \in 1..Len(Append(s, e)) /\ \A i \in 1..Len(s) : i \in 1..Len(Append(s, e)) BY <1>1
<1>4. Free(Append(s, e), e, B) BY <1>1, <1>2, <1>3 DEF Free
<1>5. ASSUME NEW x, Free(s, x, B), e \notin B PROVE Free(Append(s, e), x, B)
  <2>1. PICK i \in 1..Len(s) : s[i] = x /\ Later(s, i) \cap B = {} BY <1>5 DEF Free
  <2>2. Append(s, e)[i] = x /\ Later(Append(s, e), i) \cap B = {} BY <1>1, <1>2, <1>5, <2>1
  <2> QED BY <1>3, <2>2 DEF Free
<1> QED BY <1>4, <1>5

(* Once the head is taken, it is as free as before; or it was the head. *)
LEMMA FreeTail ==
    ASSUME NEW S, NEW s \in Seq(S), s # <<>>, NEW x, NEW B, Free(s, x, B)
    PROVE  Free(Tail(s), x, B) \/ (Head(s) = x /\ Rng(Tail(s)) \cap B = {})
<1>1. PICK i \in 1..Len(s) : s[i] = x /\ Later(s, i) \cap B = {} BY DEF Free
<1>2. /\ Len(s) \in Nat /\ Len(s) >= 1 /\ Len(Tail(s)) = Len(s) - 1 /\ Head(s) = s[1]
      /\ \A k \in 1..(Len(s) - 1) : Tail(s)[k] = s[k + 1]
  BY TailNth
<1>3. /\ Later(s, 1) = Rng(Tail(s))
      /\ \A k \in 1..Len(Tail(s)) : Later(Tail(s), k) = Later(s, k + 1)
  BY TailLater
<1>4. CASE i = 1 BY <1>1, <1>2, <1>3, <1>4
<1>5. CASE i # 1
  <2>1. i - 1 \in 1..Len(Tail(s)) /\ i - 1 \in 1..(Len(s) - 1) /\ i - 1 + 1 = i BY <1>2, <1>5
  <2>2. Tail(s)[i - 1] = x /\ Later(Tail(s), i - 1) \cap B = {} BY <1>1, <1>2, <1>3, <2>1
  <2> QED BY <2>1, <2>2 DEF Free
<1> QED BY <1>4, <1>5

-------------------------------------------------------------------------------
(* A user who asks is the same user, and panes stay panes. *)

(* Who browses, but for the requests left. *)
SameUser ==
    /\ user' \in AllUsers /\ user'.panes = user.panes /\ user'.does = user.does
    /\ user'.visits = user.visits /\ user'.loads = user.loads

(* To ask costs a request and changes nothing else of the user. *)
LEMMA AskKeepsUser ==
    ASSUME NavTypes, NEW p, NEW name, Ask(p, name)
    PROVE  SameUser /\ p \in user.panes /\ p \in Panes /\ name \in user.does
<1>1. /\ user \in AllUsers /\ p \in user.panes /\ name \in user.does /\ user.left > 0
      /\ user' = [user EXCEPT !.left = @ - 1]
  BY DEF NavTypes, Ask
<1>2. user.left \in Nat /\ user.left - 1 \in Nat /\ user.panes \subseteq Panes BY <1>1 DEF AllUsers
<1>3. user' \in AllUsers BY <1>1, <1>2 DEF AllUsers
<1>4. /\ user'.panes = user.panes /\ user'.does = user.does
      /\ user'.visits = user.visits /\ user'.loads = user.loads
  BY <1>1 DEF AllUsers
<1> QED BY <1>1, <1>2, <1>3, <1>4 DEF SameUser

(* The sets that depend on the user do not change. *)
LEMMA SameSets ==
    ASSUME SameUser
    PROVE  /\ Places' = Places /\ PaneStates' = PaneStates /\ Visits' = Visits
           /\ Filters' = Filters /\ Lookups' = Lookups /\ OnePane' = OnePane
           /\ Offs' = Offs /\ \A p : Navs(p)' = Navs(p)
<1>1. Places' = Places BY DEF SameUser, Places
<1>2. PaneStates' = PaneStates BY <1>1 DEF PaneStates
<1>3. Visits' = Visits /\ Filters' = Filters /\ Lookups' = Lookups
  BY <1>1 DEF SameUser, Visits, Filters, Lookups
<1>4. OnePane' = OnePane BY DEF SameUser, OnePane
<1>5. Offs' = Offs /\ \A p : Navs(p)' = Navs(p) BY <1>3 DEF Offs, Navs
<1> QED BY <1>1, <1>2, <1>3, <1>4, <1>5

(* Places are folders, and no other folder is a place's name. *)
LEMMA PlacesAre ==
    ASSUME NavTypes
    PROVE  /\ Places \subseteq Folders /\ Home \in Places /\ Home \notin Failing
           /\ Nothing \notin Places /\ Recents \notin Places
           /\ user.visits \subseteq Places /\ user.panes \subseteq Panes /\ user.panes # {}
           /\ user.loads \in Nat
           /\ user.visits \cap Failing = {} => Places \cap Failing = {}
<1>1. /\ user.panes \in (SUBSET Panes) \ {{}} /\ user.visits \in SUBSET Folders /\ user.loads \in Nat
  BY DEF NavTypes, AllUsers
<1>2. /\ Home \in Folders /\ Home \notin Failing
      /\ Nothing \notin Folders /\ Recents \notin Folders
  BY NavigationAssumption
<1>3. /\ user.visits \subseteq Folders /\ user.panes \subseteq Panes /\ user.panes # {}
      /\ user.loads \in Nat
  BY <1>1
<1> QED BY <1>2, <1>3 DEF Places

(* The parts of a pane. *)
LEMMA PaneParts ==
    ASSUME NEW s \in PaneStates
    PROVE  /\ s.path \in Places /\ s.back \in Seq(Places) /\ s.forward \in Seq(Places)
           /\ s.recent \in BOOLEAN /\ s.listing \in Places \cup {Nothing, Recents}
           /\ s.tag \in Places \cup {Nothing} /\ s.pending \in Places \cup {Nothing}
BY DEF PaneStates

(* The last of a history is a place, and so is the rest. *)
LEMMA HistoryEnds ==
    ASSUME NEW S, NEW s \in Seq(S), s # <<>>
    PROVE  Front(s) \in Seq(S) /\ Last(s) \in S
<1>1. Len(s) \in Nat /\ Len(s) >= 1 BY TailNth
<1>2. Last(s) \in S BY <1>1, ElementOfSeq DEF Last
<1>3. \A i \in 1..(Len(s) - 1) : s[i] \in S BY <1>1, ElementOfSeq
<1>4. Front(s) \in Seq(S) BY <1>1, <1>3, SubSeqProperties DEF Front
<1> QED BY <1>2, <1>4

(* A pane that goes to a folder is there, and waits for nothing. *)
LEMMA NavigatedIs ==
    ASSUME NEW s \in PaneStates, NEW f \in Places
    PROVE  LET t == NavigatedTo(s, f) IN
           /\ t \in PaneStates /\ t.path = f /\ t.recent = FALSE /\ t.pending = Nothing
           /\ t.listing = s.listing /\ t.tag = s.tag
<1> DEFINE t == NavigatedTo(s, f)
<1>1. Append(s.back, s.path) \in Seq(Places) /\ << >> \in Seq(Places) BY PaneParts, AppendNth
<1>2. t \in PaneStates BY <1>1 DEF NavigatedTo, PaneStates
<1>3. /\ t.path = f /\ t.recent = FALSE /\ t.pending = Nothing
      /\ t.listing = s.listing /\ t.tag = s.tag
  BY DEF NavigatedTo, PaneStates
<1> QED BY <1>2, <1>3

(* Back, from Recent or along the history. *)
LEMMA BackIs ==
    ASSUME NEW s \in PaneStates, s.recent \/ s.back # << >>
    PROVE  LET t == Back(s) IN
           /\ t \in PaneStates /\ t.recent = FALSE /\ t.pending \in {Nothing, s.pending}
           /\ t.listing = s.listing /\ t.tag = s.tag
<1> DEFINE t == Back(s)
           u == [s EXCEPT !.back = Front(@), !.forward = Append(@, s.path),
                          !.path = Last(s.back), !.pending = Nothing]
<1>1. CASE s.recent
  <2>1. t = [s EXCEPT !.recent = FALSE] BY <1>1 DEF Back
  <2> HIDE DEF t
  <2>2. t \in PaneStates BY <2>1 DEF PaneStates
  <2>3. t.recent = FALSE /\ t.pending = s.pending /\ t.listing = s.listing /\ t.tag = s.tag
    BY <2>1 DEF PaneStates
  <2> QED BY <2>2, <2>3 DEF t
<1>2. CASE ~s.recent
  <2>1. t = u BY <1>2 DEF Back
  <2>2. s.back \in Seq(Places) /\ s.forward \in Seq(Places) /\ s.path \in Places /\ s.recent = FALSE
    BY <1>2, PaneParts
  <2>3. /\ Front(s.back) \in Seq(Places) /\ Last(s.back) \in Places
        /\ Append(s.forward, s.path) \in Seq(Places)
    BY <1>2, <2>2, HistoryEnds, AppendNth
  <2>4. u \in PaneStates BY <2>3 DEF PaneStates
  <2>5. u.recent = s.recent /\ u.pending = Nothing /\ u.listing = s.listing /\ u.tag = s.tag
    BY DEF PaneStates
  <2> HIDE DEF t, u
  <2> QED BY <2>1, <2>2, <2>4, <2>5 DEF t
<1> QED BY <1>1, <1>2

(* Forward along the history. *)
LEMMA ForwardIs ==
    ASSUME NEW s \in PaneStates, s.forward # << >>
    PROVE  LET t == Forward(s) IN
           /\ t \in PaneStates /\ t.recent = FALSE /\ t.pending = Nothing
           /\ t.listing = s.listing /\ t.tag = s.tag
<1> DEFINE t == Forward(s)
           u == [s EXCEPT !.recent = FALSE, !.back = Append(@, s.path), !.forward = Front(@),
                          !.path = Last(s.forward), !.pending = Nothing]
<1>1. t = u BY DEF Forward
<1>2. s.back \in Seq(Places) /\ s.forward \in Seq(Places) /\ s.path \in Places BY PaneParts
<1>3. /\ Front(s.forward) \in Seq(Places) /\ Last(s.forward) \in Places
      /\ Append(s.back, s.path) \in Seq(Places)
  BY <1>2, HistoryEnds, AppendNth
<1>4. u \in PaneStates BY <1>3 DEF PaneStates
<1>5. u.recent = FALSE /\ u.pending = Nothing /\ u.listing = s.listing /\ u.tag = s.tag
  BY DEF PaneStates
<1> HIDE DEF t, u
<1> QED BY <1>1, <1>4, <1>5 DEF t

(* A pane that shows Recent. *)
LEMMA ShowingRecentIs ==
    ASSUME NEW s \in PaneStates
    PROVE  LET t == ShowingRecent(s) IN
           /\ t \in PaneStates /\ t.recent = TRUE /\ t.pending = Nothing
           /\ t.path = s.path
<1> DEFINE t == ShowingRecent(s)
<1>1. t \in PaneStates BY DEF ShowingRecent, PaneStates
<1>2. t.recent = TRUE /\ t.pending = Nothing /\ t.path = s.path BY DEF ShowingRecent, PaneStates
<1> QED BY <1>1, <1>2

(* A pane whose listing has come: what it waits for in it is selected. *)
LEMMA LoadedIs ==
    ASSUME NEW s \in PaneStates, NEW f \in Places, Nothing \notin Places
    PROVE  LET t == Revealed(Loaded(s, f)) IN
           /\ t \in PaneStates /\ t.recent = FALSE /\ t.path = f /\ t.listing = f
           /\ t.tag = Nothing /\ t.pending \in {Nothing, s.pending}
           /\ t.pending = f => f \in Missing
<1> DEFINE u == Loaded(s, f)
           t == Revealed(u)
           v == [u EXCEPT !.pending = Nothing]
<1>1. u \in PaneStates BY DEF Loaded, PaneStates
<1>2. /\ u.recent = FALSE /\ u.path = f /\ u.listing = f /\ u.tag = Nothing
      /\ u.pending = s.pending
  BY DEF Loaded, PaneStates
<1> HIDE DEF u
<1>3. /\ v \in PaneStates /\ v.recent = u.recent /\ v.path = u.path
      /\ v.listing = u.listing /\ v.tag = u.tag /\ v.pending = Nothing
  BY <1>1 DEF PaneStates
<1> HIDE DEF v
<1>4. t = IF f = u.pending /\ u.pending \notin Missing THEN v ELSE u BY <1>2 DEF Revealed, v
<1> HIDE DEF t
<1> QED BY <1>1, <1>2, <1>3, <1>4 DEF t, u

(* A pane that is told what to select. *)
LEMMA SelectedIs ==
    ASSUME NEW s \in PaneStates, NEW f \in Places
    PROVE  LET t == Revealed([s EXCEPT !.pending = f]) IN
           /\ t \in PaneStates /\ t.recent = s.recent /\ t.path = s.path
           /\ t.listing = s.listing /\ t.tag = s.tag /\ t.pending \in {Nothing, f}
<1> DEFINE u == [s EXCEPT !.pending = f]
           t == Revealed(u)
           v == [u EXCEPT !.pending = Nothing]
<1>1. u \in PaneStates BY DEF PaneStates
<1>2. /\ u.recent = s.recent /\ u.path = s.path /\ u.listing = s.listing /\ u.tag = s.tag
      /\ u.pending = f
  BY DEF PaneStates
<1> HIDE DEF u
<1>3. /\ v \in PaneStates /\ v.recent = u.recent /\ v.path = u.path
      /\ v.listing = u.listing /\ v.tag = u.tag /\ v.pending = Nothing
  BY <1>1 DEF PaneStates
<1> HIDE DEF v
<1>4. t = v \/ t = u BY DEF Revealed, v
<1> HIDE DEF t
<1> QED BY <1>1, <1>2, <1>3, <1>4 DEF t, u

(* A pane whose tagged files are known. *)
LEMMA FilteredIs ==
    ASSUME NEW s \in PaneStates, NEW e \in Filters, Nothing \notin Places
    PROVE  LET t == Filtered(s, e) IN
           /\ t \in PaneStates /\ t.recent = s.recent /\ t.path = s.path
           /\ t.listing = s.listing /\ t.pending = s.pending
           /\ t.tag = IF s.path = e.path THEN (IF e.on THEN e.path ELSE Nothing) ELSE s.tag
<1> DEFINE g == IF e.on THEN e.path ELSE Nothing
           u == [s EXCEPT !.tag = g]
           t == Filtered(s, e)
<1>1. g \in Places \cup {Nothing} BY DEF Filters
<1>2. t = IF s.path = e.path THEN u ELSE s BY DEF Filtered
<1> HIDE DEF g
<1>3. u \in PaneStates BY <1>1 DEF PaneStates
<1>4. /\ u.recent = s.recent /\ u.path = s.path /\ u.listing = s.listing
      /\ u.pending = s.pending /\ u.tag = g
  BY DEF PaneStates
<1> HIDE DEF t, u
<1> QED BY <1>2, <1>3, <1>4 DEF t, g

-------------------------------------------------------------------------------
(* What a step of a queue does to what is on the way. *)

(* A navigation to a place is a command, with the parts it was given. *)
LEMMA CmdIs ==
    ASSUME NEW p \in user.panes, NEW f \in Places, NEW k \in {"navigate", "reveal"}
    PROVE  /\ Cmd(k, p, f) \in Visits /\ Cmd(k, p, f).kind = k /\ Cmd(k, p, f).pane = p
           /\ Cmd(k, p, f).path = f
BY DEF Cmd, Visits

(* The parts of a visit and of a filter. *)
LEMMA VisitParts ==
    ASSUME NEW c \in Visits \cup Filters
    PROVE  /\ c.kind \in {"navigate", "reveal", "tag"} /\ c.pane \in user.panes /\ c.path \in Places
           /\ c \in Visits <=> c.kind # "tag"
           /\ c \in Filters <=> c.kind = "tag"
           /\ c.kind = "tag" => c.on \in BOOLEAN
<1>1. CASE c \in Visits
  <2>1. c.kind \in {"navigate", "reveal"} /\ c.pane \in user.panes /\ c.path \in Places
    BY <1>1 DEF Visits
  <2>2. c \notin Filters BY <2>1 DEF Filters
  <2> QED BY <1>1, <2>1, <2>2
<1>2. CASE c \in Filters
  <2>1. c.kind = "tag" /\ c.pane \in user.panes /\ c.path \in Places /\ c.on \in BOOLEAN
    BY <1>2 DEF Filters
  <2>2. c \notin Visits BY <2>1 DEF Visits
  <2> QED BY <1>2, <2>1, <2>2
<1> QED BY <1>1, <1>2

(* The first command goes to be listed, or straight to the window, and a reveal does that with
   a navigation behind what was sent since. *)
Listed(c) ==
    /\ c.kind = "navigate" \/ (c.kind = "tag" /\ c.on)
    /\ Len(loads) < user.loads /\ loads' = Append(loads, c)
    /\ commands' = Tail(commands) /\ events' = events
TakenOff(c) ==
    /\ c.kind = "tag" /\ ~c.on
    /\ loads' = loads /\ commands' = Tail(commands) /\ events' = Append(events, c)
ToReveal(c) ==
    /\ c.kind = "reveal" /\ loads' = loads /\ events' = Append(events, c)
    /\ commands' = Append(Tail(commands), Cmd("navigate", c.pane, c.path))

(* The backend takes the first command in one of these ways. *)
LEMMA ReceiveIs ==
    ASSUME NavTypes, Receive
    PROVE  LET c == Head(commands) IN
           /\ commands # << >> /\ c \in Visits \cup Filters
           /\ Listed(c) \/ TakenOff(c) \/ ToReveal(c)
<1> DEFINE c == Head(commands)
<1>1. commands # << >> /\ commands \in Seq(Visits \cup Filters) BY DEF Receive, NavTypes
<1>2. c \in Visits \cup Filters BY <1>1, TailNth
<1>3. Navigate(c) \/ FilterByTag(c) \/ RevealItems(c) BY DEF Receive
<1> HIDE DEF c
<1>4. Listed(c) \/ TakenOff(c) \/ ToReveal(c) BY <1>2, <1>3, VisitParts DEF Navigate, FilterByTag,
    RevealItems, StartLoad, Listed, TakenOff, ToReveal
<1> QED BY <1>1, <1>2, <1>4 DEF c

(* What the three queues hold after a command is taken. *)
LEMMA ReceiveMoves ==
    ASSUME NavTypes, Receive
    PROVE  LET c == Head(commands)
               n == Cmd("navigate", c.pane, c.path) IN
           /\ Rng(commands) = Rng(Tail(commands)) \cup {c}
           /\ Listed(c) => /\ Rng(commands') = Rng(Tail(commands))
                           /\ Rng(loads') = Rng(loads) \cup {c} /\ events' = events
           /\ TakenOff(c) => /\ Rng(commands') = Rng(Tail(commands))
                             /\ loads' = loads /\ Rng(events') = Rng(events) \cup {c}
           /\ ToReveal(c) => /\ Rng(commands') = Rng(Tail(commands)) \cup {n}
                             /\ loads' = loads /\ Rng(events') = Rng(events) \cup {c}
           /\ ToReveal(c) => n \in Visits
<1> DEFINE c == Head(commands)
           n == Cmd("navigate", c.pane, c.path)
<1>1. commands # << >> /\ c \in Visits \cup Filters BY ReceiveIs
<1>2. /\ commands \in Seq(Visits \cup Filters) /\ events \in Seq(Visits \cup Filters)
      /\ loads \in Seq(Visits \cup Filters \cup Lookups)
  BY DEF NavTypes
<1>3. Rng(commands) = Rng(Tail(commands)) \cup {c} /\ Tail(commands) \in Seq(Visits \cup Filters)
  BY <1>1, <1>2, TailNth
<1> HIDE DEF c
<1>4. n \in Visits BY <1>1, VisitParts, CmdIs
<1> HIDE DEF n
<1>5. Rng(Append(Tail(commands), n)) = Rng(Tail(commands)) \cup {n}
  <2> DEFINE t == Tail(commands)
  <2>1. t \in Seq(Visits \cup Filters) /\ n \in Visits \cup Filters BY <1>3, <1>4
  <2> HIDE DEF t
  <2>2. Rng(Append(t, n)) = Rng(t) \cup {n} BY <2>1, AppendNth
  <2> QED BY <2>2 DEF t
<1>6. Rng(Append(events, c)) = Rng(events) \cup {c} BY <1>1, <1>2, AppendNth
<1>7. Rng(Append(loads, c)) = Rng(loads) \cup {c}
  <2>1. c \in Visits \cup Filters \cup Lookups BY <1>1
  <2> QED BY <1>2, <2>1, AppendNth
<1> USE <1>3, <1>4, <1>5, <1>6, <1>7
<1>8. Listed(c) => /\ Rng(commands') = Rng(Tail(commands))
                   /\ Rng(loads') = Rng(loads) \cup {c} /\ events' = events
  BY DEF Listed
<1>9. TakenOff(c) => /\ Rng(commands') = Rng(Tail(commands))
                     /\ loads' = loads /\ Rng(events') = Rng(events) \cup {c}
  BY DEF TakenOff
<1>10. ToReveal(c) => /\ Rng(commands') = Rng(Tail(commands)) \cup {n}
                      /\ loads' = loads /\ Rng(events') = Rng(events) \cup {c}
  BY DEF ToReveal, n
<1> QED BY <1>8, <1>9, <1>10 DEF c, n

(* Nothing is lost when the backend takes a command. *)
LEMMA ReceiveKeepsWay ==
    ASSUME NavTypes, Receive
    PROVE  Way \subseteq Way'
<1> DEFINE c == Head(commands)
           n == Cmd("navigate", c.pane, c.path)
<1>1. Listed(c) \/ TakenOff(c) \/ ToReveal(c) BY ReceiveIs
<1>2. /\ Rng(commands) = Rng(Tail(commands)) \cup {c}
      /\ Listed(c) => /\ Rng(commands') = Rng(Tail(commands))
                      /\ Rng(loads') = Rng(loads) \cup {c} /\ events' = events
      /\ TakenOff(c) => /\ Rng(commands') = Rng(Tail(commands))
                        /\ loads' = loads /\ Rng(events') = Rng(events) \cup {c}
      /\ ToReveal(c) => /\ Rng(commands') = Rng(Tail(commands)) \cup {n}
                        /\ loads' = loads /\ Rng(events') = Rng(events) \cup {c}
  BY ReceiveMoves
<1> HIDE DEF c, n
<1>3. Way' = Rng(commands') \cup Rng(loads') \cup Rng(events') BY DEF Way, Rng
<1> QED BY <1>1, <1>2, <1>3 DEF Way

(* Nor does the order change. *)
LEMMA ReceiveKeepsOrder ==
    ASSUME NavTypes, Receive, NEW B,
           \A c \in Rng(commands) : c.kind = "reveal" => Cmd("navigate", c.pane, c.path) \notin B
    PROVE  /\ Clear(commands, loads, events, B) => Clear(commands', loads', events', B)
           /\ \A x : x.kind # "reveal" /\ ~IsOff(x) /\ Coming(commands, loads, events, x, B)
                        => Coming(commands', loads', events', x, B)
<1> DEFINE c == Head(commands)
           n == Cmd("navigate", c.pane, c.path)
<1>1. Listed(c) \/ TakenOff(c) \/ ToReveal(c) BY ReceiveIs
<1>2. /\ Rng(commands) = Rng(Tail(commands)) \cup {c}
      /\ Listed(c) => /\ Rng(commands') = Rng(Tail(commands))
                      /\ Rng(loads') = Rng(loads) \cup {c} /\ events' = events
      /\ TakenOff(c) => /\ Rng(commands') = Rng(Tail(commands))
                        /\ loads' = loads /\ Rng(events') = Rng(events) \cup {c}
      /\ ToReveal(c) => /\ Rng(commands') = Rng(Tail(commands)) \cup {n}
                        /\ loads' = loads /\ Rng(events') = Rng(events) \cup {c}
  BY ReceiveMoves
<1>3. commands # << >> /\ c \in Visits \cup Filters /\ (ToReveal(c) => n \in Visits)
  BY ReceiveIs, ReceiveMoves
<1>4. /\ commands \in Seq(Visits \cup Filters) /\ events \in Seq(Visits \cup Filters)
      /\ Tail(commands) \in Seq(Visits \cup Filters)
  BY <1>3, TailNth DEF NavTypes
<1>5. \A x : Free(commands, x, B) =>
          Free(Tail(commands), x, B) \/ (c = x /\ Rng(Tail(commands)) \cap B = {})
  BY <1>3, <1>4, FreeTail
<1>6. \A x : Free(events, x, B) /\ c \notin B => Free(Append(events, c), x, B) BY <1>3, <1>4, FreeAppend
<1>7. ToReveal(c) => n \notin B BY <1>2 DEF ToReveal
<1>8. ToReveal(c) => \A x : Free(Tail(commands), x, B) => Free(Append(Tail(commands), n), x, B)
  BY <1>3, <1>4, <1>7, FreeAppend
<1>9. /\ Listed(c) => commands' = Tail(commands) /\ events' = events
      /\ TakenOff(c) => commands' = Tail(commands) /\ events' = Append(events, c) /\ IsOff(c)
      /\ ToReveal(c) => /\ commands' = Append(Tail(commands), n) /\ events' = Append(events, c)
                        /\ c.kind = "reveal"
  BY DEF Listed, TakenOff, ToReveal, IsOff
<1> HIDE DEF c, n
<1>10. Clear(commands, loads, events, B) => Clear(commands', loads', events', B)
  BY <1>1, <1>2, <1>7 DEF Clear
<1>11. ASSUME NEW x, x.kind # "reveal", ~IsOff(x), Coming(commands, loads, events, x, B)
       PROVE  Coming(commands', loads', events', x, B)
  <2>1. CASE Free(commands, x, B)
    <3>1. CASE Free(Tail(commands), x, B)
      <4>1. Free(commands', x, B) BY <1>1, <1>8, <1>9, <3>1
      <4> QED BY <4>1 DEF Coming
    <3>2. CASE c = x /\ Rng(Tail(commands)) \cap B = {}
      <4>1. Listed(c) BY <1>1, <1>9, <1>11, <3>2
      <4>2. x \in Rng(loads') /\ Rng(commands') \cap B = {} BY <1>2, <3>2, <4>1
      <4> QED BY <4>2 DEF Coming
    <3> QED BY <1>5, <2>1, <3>1, <3>2
  <2>2. CASE x \in Rng(loads) /\ Rng(commands) \cap B = {}
    <3>1. x \in Rng(loads') /\ Rng(commands') \cap B = {} BY <1>1, <1>2, <1>7, <2>2
    <3> QED BY <3>1 DEF Coming
  <2>3. CASE Free(events, x, B) /\ (Rng(commands) \cup Rng(loads)) \cap B = {}
    <3>1. (Rng(commands') \cup Rng(loads')) \cap B = {} /\ c \notin B BY <1>1, <1>2, <1>7, <2>3
    <3>2. Free(events', x, B) BY <1>1, <1>6, <1>9, <2>3, <3>1
    <3> QED BY <3>1, <3>2 DEF Coming
  <2> QED BY <1>11, <2>1, <2>2, <2>3 DEF Coming
<1> QED BY <1>10, <1>11

(* A listing that is done goes to the window, if it did not fail. *)
LEMMA FinishMoves ==
    ASSUME NavTypes, NEW i \in DOMAIN loads, Finish(i)
    PROVE  LET y == loads[i] IN
           /\ i \in 1..Len(loads) /\ y \in Visits \cup Filters /\ y \in Rng(loads)
           /\ loads' \in Seq(Visits \cup Filters \cup Lookups)
           /\ Len(loads) \in Nat /\ Len(loads') = Len(loads) - 1
           /\ \A k \in 1..Len(loads') : \E j \in 1..Len(loads) : loads'[k] = loads[j]
           /\ Rng(loads) = Rng(loads') \cup {y} /\ commands' = commands
           /\ events' = IF y.path \in Failing THEN events ELSE Append(events, y)
           /\ Rng(events') = Rng(events) \cup (IF y.path \in Failing THEN {} ELSE {y})
           /\ events' \in Seq(Visits \cup Filters)
<1> DEFINE y == loads[i]
<1>1. loads \in Seq(Visits \cup Filters \cup Lookups) /\ events \in Seq(Visits \cup Filters)
  BY DEF NavTypes
<1>2. i \in 1..Len(loads) /\ y \in Visits \cup Filters \cup Lookups BY <1>1, LenProperties, ElementOfSeq
<1>3. y \in Visits \cup Filters BY <1>2 DEF Finish, Lookups
<1>4. /\ loads' = RemoveAt(loads, i) /\ commands' = commands
      /\ events' = IF y.path \in Failing THEN events ELSE Append(events, y)
  BY DEF Finish
<1>5. /\ loads' \in Seq(Visits \cup Filters \cup Lookups) /\ Len(loads) \in Nat
      /\ Len(loads') = Len(loads) - 1 /\ Rng(loads) = Rng(loads') \cup {y}
      /\ \A k \in 1..(Len(loads) - 1) : loads'[k] = IF k < i THEN loads[k] ELSE loads[k + 1]
  <2> DEFINE S == Visits \cup Filters \cup Lookups
             t == RemoveAt(loads, i)
  <2>1. loads \in Seq(S) /\ i \in 1..Len(loads) BY <1>1, <1>2
  <2> HIDE DEF S
  <2>2. t \in Seq(S) /\ Len(loads) \in Nat BY <2>1, RemoveNth
  <2>3. Len(t) = Len(loads) - 1 BY <2>1, RemoveNth
  <2>4. Rng(loads) = Rng(t) \cup {loads[i]} BY <2>1, RemoveNth
  <2>5. \A k \in 1..(Len(loads) - 1) : t[k] = IF k < i THEN loads[k] ELSE loads[k + 1]
    BY <2>1, RemoveNth
  <2> HIDE DEF t
  <2>6. loads' = t BY <1>4 DEF t
  <2> QED BY <2>2, <2>3, <2>4, <2>5, <2>6 DEF S
<1>6. y \in Rng(loads) BY <1>5
<1> HIDE DEF y
<1>7. /\ Append(events, y) \in Seq(Visits \cup Filters)
      /\ Rng(Append(events, y)) = Rng(events) \cup {y}
  BY <1>1, <1>3, AppendNth
<1>8. /\ Rng(events') = Rng(events) \cup (IF y.path \in Failing THEN {} ELSE {y})
      /\ events' \in Seq(Visits \cup Filters)
  BY <1>1, <1>4, <1>7
<1>9. ASSUME NEW k \in 1..Len(loads') PROVE \E j \in 1..Len(loads) : loads'[k] = loads[j]
  <2>1. k \in 1..Len(loads) /\ k + 1 \in 1..Len(loads) /\ k \in 1..(Len(loads) - 1) BY <1>5
  <2> QED BY <1>5, <2>1
<1> QED BY <1>2, <1>3, <1>4, <1>5, <1>6, <1>8, <1>9 DEF y

(* Only what cannot be listed is lost, and the order does not change of what is listed one at a
   time or not at all. *)
LEMMA FinishKeeps ==
    ASSUME NavTypes, NEW i \in DOMAIN loads, Finish(i)
    PROVE  /\ \A x \in Way : x \in Way' \/ x.path \in Failing
           /\ \A B : user.loads = 1 \/ Rng(loads) \cap B = {} =>
                 /\ Clear(commands, loads, events, B) => Clear(commands', loads', events', B)
                 /\ \A x : x.path \notin Failing /\ Coming(commands, loads, events, x, B)
                        => Coming(commands', loads', events', x, B)
<1> DEFINE y == loads[i]
<1>1. /\ y \in Visits \cup Filters /\ Len(loads) \in Nat /\ Len(loads') = Len(loads) - 1
      /\ Rng(loads) = Rng(loads') \cup {y} /\ commands' = commands
      /\ events' = IF y.path \in Failing THEN events ELSE Append(events, y)
      /\ Rng(events') = Rng(events) \cup (IF y.path \in Failing THEN {} ELSE {y})
  BY FinishMoves
<1>2. events \in Seq(Visits \cup Filters) /\ Len(loads) <= user.loads BY DEF NavTypes
<1>3. user.loads = 1 => Rng(loads') = {} BY <1>1, <1>2 DEF Rng
<1> HIDE DEF y
<1>4. Way' = Rng(commands') \cup Rng(loads') \cup Rng(events') BY DEF Way, Rng
<1>5. \A x \in Way : x \in Way' \/ x.path \in Failing BY <1>1, <1>4 DEF Way
<1>6. \A B : Clear(commands, loads, events, B) => Clear(commands', loads', events', B) BY <1>1 DEF Clear
<1>7. ASSUME NEW B, user.loads = 1 \/ Rng(loads) \cap B = {},
             NEW x, x.path \notin Failing, Coming(commands, loads, events, x, B)
      PROVE  Coming(commands', loads', events', x, B)
  <2>1. CASE Free(commands, x, B) BY <1>1, <2>1 DEF Coming
  <2>2. CASE x \in Rng(loads') /\ Rng(commands) \cap B = {} BY <1>1, <2>2 DEF Coming
  <2>3. CASE x \in Rng(loads) /\ x \notin Rng(loads') /\ Rng(commands) \cap B = {}
    <3>1. x = y /\ events' = Append(events, x) /\ x \in Visits \cup Filters BY <1>1, <1>7, <2>3
    <3>2. Free(events', x, B) BY <1>2, <3>1, FreeAppend
    <3>3. Rng(loads') \cap B = {} BY <1>1, <1>3, <1>7
    <3> QED BY <1>1, <2>3, <3>2, <3>3 DEF Coming
  <2>4. CASE Free(events, x, B) /\ (Rng(commands) \cup Rng(loads)) \cap B = {}
    <3>1. y \notin B /\ (Rng(commands') \cup Rng(loads')) \cap B = {} BY <1>1, <2>4
    <3>2. Free(Append(events, y), x, B) BY <1>1, <1>2, <2>4, <3>1, FreeAppend
    <3>3. Free(events', x, B) BY <1>1, <2>4, <3>2
    <3> QED BY <3>1, <3>3 DEF Coming
  <2> QED BY <1>7, <2>1, <2>2, <2>3, <2>4 DEF Coming
<1> QED BY <1>5, <1>6, <1>7

(* A look for recent files that is done leaves the rest. *)
LEMMA FinishRecentMoves ==
    ASSUME NavTypes, NEW i \in DOMAIN loads, FinishRecent(i)
    PROVE  LET y == loads[i] IN
           /\ i \in 1..Len(loads) /\ y \in Lookups
           /\ loads' \in Seq(Visits \cup Filters \cup Lookups)
           /\ Len(loads) \in Nat /\ Len(loads') = Len(loads) - 1
           /\ \A k \in 1..Len(loads') : \E j \in 1..Len(loads) : loads'[k] = loads[j]
           /\ Rng(loads) = Rng(loads') \cup {y} /\ commands' = commands /\ events' = events
           /\ \A x \in Way : x \in Way' \/ x.kind = "recent"
           /\ \A B : /\ Clear(commands, loads, events, B) => Clear(commands', loads', events', B)
                     /\ \A x : x.kind # "recent" /\ Coming(commands, loads, events, x, B)
                           => Coming(commands', loads', events', x, B)
<1> DEFINE y == loads[i]
<1>1. loads \in Seq(Visits \cup Filters \cup Lookups) BY DEF NavTypes
<1>2. i \in 1..Len(loads) /\ y \in Visits \cup Filters \cup Lookups BY <1>1, LenProperties, ElementOfSeq
<1>3. y \in Lookups /\ y.kind = "recent" BY <1>2, VisitParts DEF FinishRecent
<1>4. loads' = RemoveAt(loads, i) /\ commands' = commands /\ events' = events BY DEF FinishRecent
<1>5. /\ loads' \in Seq(Visits \cup Filters \cup Lookups) /\ Len(loads) \in Nat
      /\ Len(loads') = Len(loads) - 1 /\ Rng(loads) = Rng(loads') \cup {y}
      /\ \A k \in 1..(Len(loads) - 1) : loads'[k] = IF k < i THEN loads[k] ELSE loads[k + 1]
  <2> DEFINE S == Visits \cup Filters \cup Lookups
             t == RemoveAt(loads, i)
  <2>1. loads \in Seq(S) /\ i \in 1..Len(loads) BY <1>1, <1>2
  <2> HIDE DEF S
  <2>2. t \in Seq(S) /\ Len(loads) \in Nat BY <2>1, RemoveNth
  <2>3. Len(t) = Len(loads) - 1 BY <2>1, RemoveNth
  <2>4. Rng(loads) = Rng(t) \cup {loads[i]} BY <2>1, RemoveNth
  <2>5. \A k \in 1..(Len(loads) - 1) : t[k] = IF k < i THEN loads[k] ELSE loads[k + 1]
    BY <2>1, RemoveNth
  <2> HIDE DEF t
  <2>6. loads' = t BY <1>4 DEF t
  <2> QED BY <2>2, <2>3, <2>4, <2>5, <2>6 DEF S
<1> HIDE DEF y
<1>6. ASSUME NEW k \in 1..Len(loads') PROVE \E j \in 1..Len(loads) : loads'[k] = loads[j]
  <2>1. k \in 1..Len(loads) /\ k + 1 \in 1..Len(loads) /\ k \in 1..(Len(loads) - 1) BY <1>5
  <2> QED BY <1>5, <2>1
<1>7. Way' = Rng(commands') \cup Rng(loads') \cup Rng(events') BY DEF Way, Rng
<1>8. \A x \in Way : x \in Way' \/ x.kind = "recent" BY <1>3, <1>4, <1>5, <1>7 DEF Way
<1>9. \A B : Clear(commands, loads, events, B) => Clear(commands', loads', events', B)
  BY <1>4, <1>5 DEF Clear
<1>10. \A x : x.kind # "recent" /\ x \in Rng(loads) => x \in Rng(loads') BY <1>3, <1>5
<1>11. \A B, x : x.kind # "recent" /\ Coming(commands, loads, events, x, B)
          => Coming(commands', loads', events', x, B)
  BY <1>4, <1>5, <1>10 DEF Coming
<1> QED BY <1>2, <1>3, <1>4, <1>5, <1>6, <1>8, <1>9, <1>11 DEF y

(* The window takes the first event; what was to come may have come. *)
LEMMA HandleMoves ==
    ASSUME NavTypes, HandleEvent
    PROVE  LET e == Head(events) IN
           /\ events # << >> /\ e \in Visits \cup Filters /\ Arrives(e) /\ e \in Rng(events)
           /\ events' = Tail(events) /\ events' \in Seq(Visits \cup Filters)
           /\ \A k \in 1..Len(events') : k + 1 \in 1..Len(events) /\ events'[k] = events[k + 1]
           /\ commands' = commands /\ loads' = loads
           /\ \A x \in Way : x \in Way' \/ x = e
           /\ \A B : /\ Clear(commands, loads, events, B) =>
                           e \notin B /\ Clear(commands', loads', events', B)
                     /\ \A x : Coming(commands, loads, events, x, B)
                           => \/ Coming(commands', loads', events', x, B)
                              \/ x = e /\ Clear(commands', loads', events', B)
<1> DEFINE e == Head(events)
<1>1. /\ events # << >> /\ events' = Tail(events) /\ commands' = commands /\ loads' = loads
      /\ events \in Seq(Visits \cup Filters) /\ \A i \in 1..Len(events) : Arrives(events[i])
  BY DEF HandleEvent, NavTypes
<1>2. /\ events' \in Seq(Visits \cup Filters) /\ Len(events) \in Nat /\ Len(events) >= 1
      /\ Len(events') = Len(events) - 1 /\ e = events[1] /\ e \in Visits \cup Filters
      /\ \A k \in 1..(Len(events) - 1) : events'[k] = events[k + 1]
      /\ Rng(events) = Rng(events') \cup {e}
  BY <1>1, TailNth
<1> HIDE DEF e
<1>3. \A k \in 1..Len(events') : k + 1 \in 1..Len(events) /\ events'[k] = events[k + 1] BY <1>2
<1>4. Arrives(e)
  <2>1. 1 \in 1..Len(events) BY <1>2
  <2> QED BY <1>1, <1>2, <2>1
<1>5. Way' = Rng(commands') \cup Rng(loads') \cup Rng(events') BY DEF Way, Rng
<1>6. \A x \in Way : x \in Way' \/ x = e BY <1>1, <1>2, <1>5 DEF Way
<1>7. \A B : Clear(commands, loads, events, B) => e \notin B /\ Clear(commands', loads', events', B)
  BY <1>1, <1>2 DEF Clear
<1>8. ASSUME NEW B, NEW x, Coming(commands, loads, events, x, B)
      PROVE  \/ Coming(commands', loads', events', x, B)
             \/ x = e /\ Clear(commands', loads', events', B)
  <2>1. CASE Free(commands, x, B) \/ (x \in Rng(loads) /\ Rng(commands) \cap B = {})
    BY <1>1, <2>1 DEF Coming
  <2>2. CASE Free(events, x, B) /\ (Rng(commands) \cup Rng(loads)) \cap B = {}
    <3>1. Free(events', x, B) \/ (e = x /\ Rng(events') \cap B = {}) BY <1>1, <2>2, FreeTail DEF e
    <3> QED BY <1>1, <2>2, <3>1 DEF Coming, Clear
  <2> QED BY <1>8, <2>1, <2>2 DEF Coming
<1> QED BY <1>1, <1>2, <1>3, <1>4, <1>6, <1>7, <1>8 DEF e

(* A command goes behind the others. *)
LEMMA SendMoves ==
    ASSUME NavTypes, NEW c \in Visits \cup Filters, Send(c), loads' = loads, events' = events
    PROVE  /\ commands' \in Seq(Visits \cup Filters)
           /\ Rng(commands') = Rng(commands) \cup {c}
           /\ Way' = Way \cup {c}
           /\ \A B : /\ Coming(commands', loads', events', c, B)
                     /\ c \notin B =>
                          /\ Clear(commands, loads, events, B) => Clear(commands', loads', events', B)
                          /\ \A x : Coming(commands, loads, events, x, B)
                                => Coming(commands', loads', events', x, B)
<1>1. commands \in Seq(Visits \cup Filters) /\ commands' = Append(commands, c) BY DEF NavTypes, Send
<1>2. commands' \in Seq(Visits \cup Filters) /\ Rng(commands') = Rng(commands) \cup {c}
  BY <1>1, AppendNth
<1>3. Way' = Rng(commands') \cup Rng(loads') \cup Rng(events') BY DEF Way, Rng
<1>4. Way' = Way \cup {c} BY <1>2, <1>3 DEF Way
<1>5. \A B : Free(commands', c, B) /\ \A x : Free(commands, x, B) /\ c \notin B => Free(commands', x, B)
  BY <1>1, FreeAppend
<1>6. \A B : Coming(commands', loads', events', c, B) BY <1>5 DEF Coming
<1>7. \A B : c \notin B /\ Clear(commands, loads, events, B) => Clear(commands', loads', events', B)
  BY <1>2 DEF Clear
<1>8. \A B, x : c \notin B /\ Coming(commands, loads, events, x, B)
         => Coming(commands', loads', events', x, B)
  <2>1. SUFFICES ASSUME NEW B, NEW x, c \notin B, Coming(commands, loads, events, x, B)
                 PROVE  Coming(commands', loads', events', x, B)
    OBVIOUS
  <2>2. Rng(commands) \cap B = {} => Rng(commands') \cap B = {} BY <1>2, <2>1
  <2> QED BY <1>5, <2>1, <2>2 DEF Coming
<1> QED BY <1>2, <1>4, <1>6, <1>7, <1>8

-------------------------------------------------------------------------------
(* The invariant is kept by a request that sends a navigation. *)

(* The types of the next state, for the same user. *)
LEMMA TypesAgain ==
    ASSUME SameUser, active' \in user.panes, pane' \in [Panes -> PaneStates],
           commands' \in Seq(Visits \cup Filters),
           loads' \in Seq(Visits \cup Filters \cup Lookups), Len(loads') <= user.loads,
           events' \in Seq(Visits \cup Filters),
           \A i \in 1..Len(loads') :
              loads'[i].kind # "reveal" /\ (loads'[i].kind = "tag" => loads'[i].on),
           \A i \in 1..Len(events') : Arrives(events'[i]),
           "reveal" \notin user.does => \A c \in Rng(commands') : c.kind # "reveal",
           recentGen' \in Nat, highlight' \in BOOLEAN, asked' \in [Panes -> Places \cup {Recents}]
    PROVE  NavTypes'
<1>1. /\ Places' = Places /\ PaneStates' = PaneStates /\ Visits' = Visits
      /\ Filters' = Filters /\ Lookups' = Lookups
  BY SameSets
<1>2. user' \in AllUsers /\ user'.panes = user.panes /\ user'.does = user.does /\ user'.loads = user.loads
  BY DEF SameUser
<1>3. pane' \in [Panes -> PaneStates'] /\ asked' \in [Panes -> Places' \cup {Recents}] BY <1>1
<1>4. /\ commands' \in Seq(Visits' \cup Filters') /\ events' \in Seq(Visits' \cup Filters')
      /\ loads' \in Seq(Visits' \cup Filters' \cup Lookups')
  BY <1>1
<1> QED BY <1>2, <1>3, <1>4 DEF NavTypes, Rng, Arrives

(* Nobody asks: the same user. *)
LEMMA NobodyAsks ==
    ASSUME NavTypes, user' = user
    PROVE  SameUser
BY DEF NavTypes, SameUser

(* Pane p is sent to f: it is there at once, or waits. *)
Goes(p, f) ==
    /\ SameUser /\ p \in user.panes /\ f \in Places
    /\ pane' \in [Panes -> PaneStates] /\ \A q \in Panes \ {p} : pane'[q] = pane[q]
    /\ pane'[p].listing = pane[p].listing /\ pane'[p].tag = pane[p].tag
    /\ pane'[p].pending \in {Nothing, pane[p].pending, f}
    /\ (pane'[p].path = f /\ ~pane'[p].recent) \/ pane'[p] = pane[p]
    /\ asked' \in [Panes -> Places \cup {Recents}] /\ \A q \in Panes \ {p} : asked'[q] = asked[q]
    /\ asked'[p] = f \/ "reload" \in user.does
    /\ Send(Cmd("navigate", p, f))
    /\ UNCHANGED <<active, loads, events, recentGen, highlight>>

(* The types are kept. *)
LEMMA GoesTypes ==
    ASSUME NavInv, NEW p, NEW f, Goes(p, f)
    PROVE  NavTypes'
<1> DEFINE c == Cmd("navigate", p, f)
<1>1. c \in Visits /\ c.kind = "navigate" BY CmdIs DEF Goes
<1> HIDE DEF c
<1>2. NavTypes /\ Send(c) /\ loads' = loads /\ events' = events BY DEF NavInv, Goes, c
<1>3. commands' \in Seq(Visits \cup Filters) /\ Rng(commands') = Rng(commands) \cup {c}
  BY <1>1, <1>2, SendMoves
<1>4. "reveal" \notin user.does => \A d \in Rng(commands') : d.kind # "reveal"
  BY <1>1, <1>2, <1>3 DEF NavTypes
<1>5. /\ SameUser /\ active' \in user.panes /\ pane' \in [Panes -> PaneStates]
      /\ asked' \in [Panes -> Places \cup {Recents}] /\ recentGen' \in Nat /\ highlight' \in BOOLEAN
  BY <1>2 DEF NavTypes, Goes
<1>6. /\ loads' \in Seq(Visits \cup Filters \cup Lookups) /\ Len(loads') <= user.loads
      /\ events' \in Seq(Visits \cup Filters)
      /\ \A i \in 1..Len(loads') :
            loads'[i].kind # "reveal" /\ (loads'[i].kind = "tag" => loads'[i].on)
      /\ \A i \in 1..Len(events') : Arrives(events'[i])
  BY <1>2 DEF NavTypes
<1> QED BY <1>3, <1>4, <1>5, <1>6, TypesAgain

(* The rest is kept. *)
LEMMA GoesKeeps ==
    ASSUME NavInv, NEW p, NEW f, Goes(p, f)
    PROVE  NavInv'
<1> DEFINE c == Cmd("navigate", p, f)
<1>1. NavTypes /\ ListsFit /\ TagsFit /\ HighlightFits /\ RecentFits /\ RevealsFit /\ AskedFits
  BY DEF NavInv
<1>2. /\ SameUser /\ p \in user.panes /\ p \in Panes /\ f \in Places
      /\ \A q \in Panes \ {p} : pane'[q] = pane[q] /\ asked'[q] = asked[q]
      /\ pane'[p].listing = pane[p].listing /\ pane'[p].tag = pane[p].tag
      /\ pane'[p].pending \in {Nothing, pane[p].pending, f}
      /\ (pane'[p].path = f /\ ~pane'[p].recent) \/ pane'[p] = pane[p]
      /\ asked'[p] = f \/ "reload" \in user.does
      /\ Send(c) /\ active' = active /\ loads' = loads /\ events' = events
      /\ recentGen' = recentGen /\ highlight' = highlight
  BY <1>1, PlacesAre DEF Goes
<1>3. c \in Visits /\ c.kind = "navigate" /\ c.pane = p BY <1>2, CmdIs
<1>4. c = Cmd("navigate", p, f) OBVIOUS
<1> HIDE DEF c
<1>5. /\ Rng(commands') = Rng(commands) \cup {c} /\ Way' = Way \cup {c}
      /\ \A B : /\ Coming(commands', loads', events', c, B)
                /\ c \notin B =>
                     /\ Clear(commands, loads, events, B) => Clear(commands', loads', events', B)
                     /\ \A x : Coming(commands, loads, events, x, B)
                           => Coming(commands', loads', events', x, B)
  BY <1>1, <1>2, <1>3, SendMoves
<1>6. /\ Places' = Places /\ OnePane' = OnePane /\ Offs' = Offs /\ \A q : Navs(q)' = Navs(q)
      /\ user'.panes = user.panes /\ user'.does = user.does /\ user'.visits = user.visits
      /\ user'.loads = user.loads
  BY <1>2, SameSets DEF SameUser
<1>7. OnTheWay(p, f)' /\ \A q, g : OnTheWay(q, g) => OnTheWay(q, g)' BY <1>4, <1>5 DEF OnTheWay
<1>8. NavTypes' BY GoesTypes
<1>9. ListsFit' BY <1>1, <1>2, <1>7 DEF ListsFit
<1>10. TagsFit' BY <1>1, <1>2, <1>6, <1>7 DEF TagsFit
<1>11. RecentFits' BY <1>1, <1>2, <1>6 DEF RecentFits
<1>12. RevealsFit'
  <2>1. ASSUME NEW q \in Panes
        PROVE  \/ pane'[q].pending \in {Nothing} \cup Missing \cup Failing
               \/ Cmd("navigate", q, pane'[q].pending) \in Way'
    <3>1. \/ pane[q].pending \in {Nothing} \cup Missing \cup Failing
          \/ Cmd("navigate", q, pane[q].pending) \in Way
      BY <1>1 DEF RevealsFit, OnTheWay
    <3>2. pane'[q].pending \in {Nothing, pane[q].pending} \/ (q = p /\ pane'[q].pending = f) BY <1>2
    <3> QED BY <1>4, <1>5, <3>1, <3>2
  <2>2. \A i \in 1..Len(events') : events'[i].kind = "reveal" =>
          \/ events'[i].path \in Failing
          \/ Cmd("navigate", events'[i].pane, events'[i].path) \in
                Rng(commands') \cup Rng(loads') \cup Later(events', i)
    BY <1>1, <1>2, <1>5 DEF RevealsFit
  <2> QED BY <2>1, <2>2 DEF RevealsFit, Rng, Later, OnTheWay
<1>13. HighlightFits'
  <2>1. SUFFICES ASSUME OnePane PROVE \E g \in Places : OnTheWay(active, g)'
    BY <1>2, <1>6 DEF HighlightFits
  <2>2. p = active BY <1>1, <1>2, <2>1 DEF OnePane, NavTypes
  <2> QED BY <1>2, <1>7, <2>2
<1>14. AskedFits'
  <2>1. SUFFICES ASSUME user.loads = 1 /\ user.does \cap {"reload", "reveal"} = {}, NEW q \in Panes
                 PROVE  \/ asked'[q] \in Failing \cup {Recents}
                        \/ ~pane'[q].recent /\ pane'[q].path = asked'[q]
                              /\ Clear(commands', loads', events', Navs(q))
                        \/ Coming(commands', loads', events', Cmd("navigate", q, asked'[q]), Navs(q))
    BY <1>6 DEF AskedFits
  <2>2. CASE q = p
    <3>1. asked'[q] = f BY <1>2, <2>1, <2>2
    <3> QED BY <1>4, <1>5, <2>2, <3>1
  <2>3. CASE q # p
    <3>1. c \notin Navs(q) BY <1>3, <2>3 DEF Navs
    <3>2. pane'[q] = pane[q] /\ asked'[q] = asked[q] BY <1>2, <2>3
    <3> QED BY <1>1, <1>5, <2>1, <3>1, <3>2 DEF AskedFits
  <2> QED BY <2>2, <2>3
<1> QED BY <1>8, <1>9, <1>10, <1>11, <1>12, <1>13, <1>14 DEF NavInv

(* A request that sends a pane somewhere, by hand or by name. *)
LEMMA OpenGoes ==
    ASSUME NavInv, NEW p \in Panes, OpenFolder(p) \/ GoTo(p) \/ OpenContainingFolder(p)
    PROVE  \E f \in Places : Goes(p, f)
<1>1. NavTypes /\ SameUser /\ p \in user.panes
  BY AskKeepsUser DEF NavInv, OpenFolder, GoTo, OpenContainingFolder
<1>2. pane \in [Panes -> PaneStates] /\ asked \in [Panes -> Places \cup {Recents}] /\ pane[p] \in PaneStates
  BY <1>1 DEF NavTypes
<1>3. user.visits \subseteq Places BY <1>1, PlacesAre
<1>4. CASE OpenFolder(p)
  <2>1. PICK f \in user.visits :
          /\ pane' = [pane EXCEPT ![p] = NavigatedTo(@, f)]
          /\ asked' = [asked EXCEPT ![p] = f] /\ Send(Cmd("navigate", p, f))
    BY <1>4 DEF OpenFolder
  <2> DEFINE t == NavigatedTo(pane[p], f)
  <2>2. /\ t \in PaneStates /\ t.path = f /\ t.recent = FALSE /\ t.pending = Nothing
        /\ t.listing = pane[p].listing /\ t.tag = pane[p].tag
    BY <1>2, <1>3, NavigatedIs
  <2>3. pane' = [pane EXCEPT ![p] = t] BY <2>1
  <2> HIDE DEF t
  <2>4. /\ pane' \in [Panes -> PaneStates] /\ pane'[p] = t /\ \A q \in Panes \ {p} : pane'[q] = pane[q]
        /\ asked' \in [Panes -> Places \cup {Recents}] /\ asked'[p] = f
        /\ \A q \in Panes \ {p} : asked'[q] = asked[q]
    BY <1>2, <1>3, <2>1, <2>2, <2>3
  <2>5. UNCHANGED <<active, loads, events, recentGen, highlight>> BY <1>4 DEF OpenFolder
  <2>6. Goes(p, f) BY <1>1, <1>3, <2>1, <2>2, <2>4, <2>5 DEF Goes
  <2> QED BY <1>3, <2>6
<1>5. CASE GoTo(p)
  <2>1. PICK f \in user.visits : asked' = [asked EXCEPT ![p] = f] /\ Send(Cmd("navigate", p, f))
    BY <1>5 DEF GoTo
  <2>2. /\ asked' \in [Panes -> Places \cup {Recents}] /\ asked'[p] = f
        /\ \A q \in Panes \ {p} : asked'[q] = asked[q]
    BY <1>2, <1>3, <2>1
  <2>3. UNCHANGED <<pane, active, loads, events, recentGen, highlight>> BY <1>5 DEF GoTo
  <2>4. Goes(p, f) BY <1>1, <1>2, <1>3, <2>1, <2>2, <2>3 DEF Goes
  <2> QED BY <1>3, <2>4
<1>6. CASE OpenContainingFolder(p)
  <2>1. PICK f \in user.visits :
          /\ pane' = [pane EXCEPT ![p] = [NavigatedTo(@, f) EXCEPT !.pending = f]]
          /\ asked' = [asked EXCEPT ![p] = f] /\ Send(Cmd("navigate", p, f))
    BY <1>6 DEF OpenContainingFolder
  <2> DEFINE u == NavigatedTo(pane[p], f)
             t == [u EXCEPT !.pending = f]
  <2>2. /\ u \in PaneStates /\ u.path = f /\ u.recent = FALSE
        /\ u.listing = pane[p].listing /\ u.tag = pane[p].tag
    BY <1>2, <1>3, NavigatedIs
  <2>3. pane' = [pane EXCEPT ![p] = t] BY <2>1
  <2> HIDE DEF u
  <2>4. /\ t \in PaneStates /\ t.path = u.path /\ t.recent = u.recent /\ t.pending = f
        /\ t.listing = u.listing /\ t.tag = u.tag
    BY <1>3, <2>2 DEF PaneStates
  <2> HIDE DEF t
  <2>5. /\ pane' \in [Panes -> PaneStates] /\ pane'[p] = t /\ \A q \in Panes \ {p} : pane'[q] = pane[q]
        /\ asked' \in [Panes -> Places \cup {Recents}] /\ asked'[p] = f
        /\ \A q \in Panes \ {p} : asked'[q] = asked[q]
    BY <1>2, <1>3, <2>1, <2>3, <2>4
  <2>6. UNCHANGED <<active, loads, events, recentGen, highlight>> BY <1>6 DEF OpenContainingFolder
  <2>7. Goes(p, f) BY <1>1, <1>3, <2>1, <2>2, <2>4, <2>5, <2>6 DEF Goes
  <2> QED BY <1>3, <2>7
<1> QED BY <1>4, <1>5, <1>6

(* A request along the history, or up from Recent. *)
LEMMA HistoryGoes ==
    ASSUME NavInv, NEW p \in Panes, GoBack(p) \/ GoForward(p) \/ UpFromRecent(p)
    PROVE  \E f \in Places : Goes(p, f)
<1> DEFINE t == IF GoBack(p) THEN Back(pane[p]) ELSE IF GoForward(p) THEN Forward(pane[p])
                ELSE [pane[p] EXCEPT !.recent = FALSE]
           f == t.path
<1>1. NavTypes /\ SameUser /\ p \in user.panes
  BY AskKeepsUser DEF NavInv, GoBack, GoForward, UpFromRecent
<1>2. pane \in [Panes -> PaneStates] /\ asked \in [Panes -> Places \cup {Recents}] /\ pane[p] \in PaneStates
  BY <1>1 DEF NavTypes
<1>3. /\ t \in PaneStates /\ t.recent = FALSE /\ t.pending \in {Nothing, pane[p].pending}
      /\ t.listing = pane[p].listing /\ t.tag = pane[p].tag
  <2>1. CASE GoBack(p)
    <3>1. pane[p].recent \/ pane[p].back # << >> BY <2>1 DEF GoBack
    <3> QED BY <1>2, <2>1, <3>1, BackIs
  <2>2. CASE ~GoBack(p) /\ GoForward(p)
    <3>1. pane[p].forward # << >> BY <2>2 DEF GoForward
    <3> QED BY <1>2, <2>2, <3>1, ForwardIs
  <2>3. CASE ~GoBack(p) /\ ~GoForward(p)
    <3> DEFINE u == [pane[p] EXCEPT !.recent = FALSE]
    <3>1. u \in PaneStates BY <1>2 DEF PaneStates
    <3>2. u.recent = FALSE /\ u.pending = pane[p].pending /\ u.listing = pane[p].listing /\ u.tag = pane[p].tag
      BY <1>2 DEF PaneStates
    <3>3. t = u BY <2>3
    <3> HIDE DEF u, t
    <3> QED BY <3>1, <3>2, <3>3
  <2> QED BY <2>1, <2>2, <2>3
<1>4. pane' = [pane EXCEPT ![p] = t] /\ asked' = [asked EXCEPT ![p] = f] /\ Send(Cmd("navigate", p, f))
  <2>1. CASE GoBack(p)
    <3>1. /\ t = Back(pane[p]) /\ pane' = [pane EXCEPT ![p] = Back(@)]
          /\ asked' = [asked EXCEPT ![p] = pane'[p].path] /\ Send(Cmd("navigate", p, pane'[p].path))
      BY <2>1 DEF GoBack
    <3> HIDE DEF t
    <3>2. pane' = [pane EXCEPT ![p] = t] /\ pane'[p] = t BY <1>2, <3>1
    <3> QED BY <3>1, <3>2
  <2>2. CASE ~GoBack(p) /\ GoForward(p)
    <3>1. /\ t = Forward(pane[p]) /\ pane' = [pane EXCEPT ![p] = Forward(@)]
          /\ asked' = [asked EXCEPT ![p] = pane'[p].path] /\ Send(Cmd("navigate", p, pane'[p].path))
      BY <2>2 DEF GoForward
    <3> HIDE DEF t
    <3>2. pane' = [pane EXCEPT ![p] = t] /\ pane'[p] = t BY <1>2, <3>1
    <3> QED BY <3>1, <3>2
  <2>3. CASE ~GoBack(p) /\ ~GoForward(p)
    <3>1. /\ t = [pane[p] EXCEPT !.recent = FALSE] /\ pane' = [pane EXCEPT ![p].recent = FALSE]
          /\ asked' = [asked EXCEPT ![p] = pane[p].path] /\ Send(Cmd("navigate", p, pane[p].path))
      BY <2>3 DEF UpFromRecent
    <3>2. t.path = pane[p].path BY <1>2, <3>1 DEF PaneStates
    <3> HIDE DEF t
    <3>3. pane' = [pane EXCEPT ![p] = t] BY <1>2, <3>1
    <3> QED BY <3>1, <3>2, <3>3
  <2> QED BY <2>1, <2>2, <2>3
<1>5. UNCHANGED <<active, loads, events, recentGen, highlight>> BY DEF GoBack, GoForward, UpFromRecent
<1> HIDE DEF t
<1>6. f \in Places BY <1>3, PaneParts
<1>7. /\ pane' \in [Panes -> PaneStates] /\ pane'[p] = t /\ \A q \in Panes \ {p} : pane'[q] = pane[q]
      /\ asked' \in [Panes -> Places \cup {Recents}] /\ asked'[p] = f
      /\ \A q \in Panes \ {p} : asked'[q] = asked[q]
  BY <1>2, <1>3, <1>4, <1>6
<1>8. Goes(p, f) BY <1>1, <1>3, <1>4, <1>5, <1>6, <1>7 DEF Goes
<1> QED BY <1>6, <1>8

(* A pane that is read again is sent to where it is. *)
LEMMA ReloadGoes ==
    ASSUME NavInv, NEW p \in Panes, Reload(p), ~pane[p].recent
    PROVE  \E f \in Places : Goes(p, f)
<1>1. NavTypes /\ SameUser /\ p \in user.panes /\ "reload" \in user.does
  BY AskKeepsUser DEF NavInv, Reload
<1>2. pane \in [Panes -> PaneStates] /\ asked \in [Panes -> Places \cup {Recents}] /\ pane[p] \in PaneStates
  BY <1>1 DEF NavTypes
<1>3. pane[p].path \in Places BY <1>2, PaneParts
<1>4. /\ Send(Cmd("navigate", p, pane[p].path))
      /\ UNCHANGED <<pane, active, loads, events, recentGen, highlight, asked>>
  BY DEF Reload
<1>5. Goes(p, pane[p].path) BY <1>1, <1>2, <1>3, <1>4 DEF Goes
<1> QED BY <1>3, <1>5

-------------------------------------------------------------------------------
(* The invariant is kept by the other requests. *)

(* A look for recent files that starts. *)
LEMMA LookMoves ==
    ASSUME NavTypes, NEW p \in user.panes, LoadRecent(p), commands' = commands, events' = events
    PROVE  LET l == [kind |-> "recent", pane |-> p, gen |-> recentGen'] IN
           /\ l \in Lookups /\ recentGen' \in Nat
           /\ loads' \in Seq(Visits \cup Filters \cup Lookups) /\ Len(loads') <= user.loads
           /\ \A i \in 1..Len(loads') :
                 loads'[i].kind # "reveal" /\ (loads'[i].kind = "tag" => loads'[i].on)
           /\ Rng(loads') = Rng(loads) \cup {l} /\ Way' = Way \cup {l}
           /\ \A B : l \notin B =>
                 /\ Clear(commands, loads, events, B) => Clear(commands', loads', events', B)
                 /\ \A x : Coming(commands, loads, events, x, B)
                       => Coming(commands', loads', events', x, B)
<1> DEFINE l == [kind |-> "recent", pane |-> p, gen |-> recentGen']
           S == Visits \cup Filters \cup Lookups
<1>1. /\ loads \in Seq(S) /\ recentGen \in Nat /\ user.loads \in Nat
      /\ \A i \in 1..Len(loads) : loads[i].kind # "reveal" /\ (loads[i].kind = "tag" => loads[i].on)
  BY PlacesAre DEF NavTypes
<1>2. /\ recentGen' = recentGen + 1 /\ Len(loads) < user.loads
      /\ loads' = Append(loads, [kind |-> "recent", pane |-> p, gen |-> recentGen + 1])
  BY DEF LoadRecent
<1>3. recentGen' \in Nat /\ loads' = Append(loads, l) BY <1>1, <1>2
<1>4. l \in Lookups /\ l \in S /\ l.kind = "recent" BY <1>3 DEF Lookups
<1> HIDE DEF l, S
<1>5. /\ Append(loads, l) \in Seq(S) /\ Len(loads) \in Nat /\ Len(Append(loads, l)) = Len(loads) + 1
      /\ Append(loads, l)[Len(loads) + 1] = l
  BY <1>1, <1>4, AppendNth
<1>6. \A i \in 1..Len(loads) : Append(loads, l)[i] = loads[i] BY <1>1, <1>4, AppendNth
<1>7. Rng(Append(loads, l)) = Rng(loads) \cup {l} BY <1>1, <1>4, AppendNth
<1>8. Len(loads') <= user.loads BY <1>1, <1>2, <1>3, <1>5
<1>9. ASSUME NEW i \in 1..Len(loads')
      PROVE  loads'[i].kind # "reveal" /\ (loads'[i].kind = "tag" => loads'[i].on)
  <2>1. CASE i \in 1..Len(loads) BY <1>1, <1>3, <1>6, <2>1
  <2>2. CASE i = Len(loads) + 1 BY <1>3, <1>4, <1>5, <2>2
  <2> QED BY <1>3, <1>5, <2>1, <2>2
<1>10. Way' = Rng(commands') \cup Rng(loads') \cup Rng(events') BY DEF Way, Rng
<1>11. Way' = Way \cup {l} BY <1>3, <1>7, <1>10 DEF Way
<1>12. \A B : l \notin B /\ Clear(commands, loads, events, B) => Clear(commands', loads', events', B)
  BY <1>3, <1>7 DEF Clear
<1>13. \A B, x : l \notin B /\ Coming(commands, loads, events, x, B)
           => Coming(commands', loads', events', x, B)
  BY <1>3, <1>7 DEF Coming
<1> QED BY <1>3, <1>4, <1>5, <1>7, <1>8, <1>9, <1>11, <1>12, <1>13 DEF l, S

(* Pane p looks for recent files. *)
Looks(p) ==
    /\ SameUser /\ p \in user.panes /\ LoadRecent(p)
    /\ pane' \in [Panes -> PaneStates] /\ \A q \in Panes \ {p} : pane'[q] = pane[q]
    /\ pane'[p].recent /\ pane'[p].pending \in {Nothing, pane[p].pending}
    /\ "recent" \in user.does \/ pane[p].recent
    /\ asked' \in [Panes -> Places \cup {Recents}] /\ \A q \in Panes \ {p} : asked'[q] = asked[q]
    /\ asked'[p] = Recents \/ "reload" \in user.does
    /\ highlight' \in BOOLEAN
    /\ ~highlight' \/ (highlight' = highlight /\ pane' = pane)
    /\ UNCHANGED <<active, commands, events>>

(* Recent that is shown or read again is such a look. *)
LEMMA RecentLooks ==
    ASSUME NavInv, NEW p \in Panes, ShowRecent(p) \/ (Reload(p) /\ pane[p].recent)
    PROVE  Looks(p)
<1>1. NavTypes /\ SameUser /\ p \in user.panes BY AskKeepsUser DEF NavInv, ShowRecent, Reload
<1>2. /\ pane \in [Panes -> PaneStates] /\ asked \in [Panes -> Places \cup {Recents}]
      /\ pane[p] \in PaneStates /\ highlight \in BOOLEAN
  BY <1>1 DEF NavTypes
<1>3. CASE ShowRecent(p)
  <2> DEFINE t == IF pane[p].recent THEN pane[p] ELSE ShowingRecent(pane[p])
  <2>1. /\ pane' = [pane EXCEPT ![p] = t] /\ asked' = [asked EXCEPT ![p] = Recents]
        /\ highlight' = FALSE /\ LoadRecent(p) /\ UNCHANGED <<active, commands, events>>
    BY <1>3 DEF ShowRecent
  <2>2. "recent" \in user.does BY <1>1, <1>3, AskKeepsUser DEF ShowRecent
  <2>3. t \in PaneStates /\ t.recent /\ t.pending \in {Nothing, pane[p].pending}
    BY <1>2, ShowingRecentIs
  <2> HIDE DEF t
  <2>4. /\ pane' \in [Panes -> PaneStates] /\ pane'[p] = t /\ \A q \in Panes \ {p} : pane'[q] = pane[q]
        /\ asked' \in [Panes -> Places \cup {Recents}] /\ asked'[p] = Recents
        /\ \A q \in Panes \ {p} : asked'[q] = asked[q]
    BY <1>2, <2>1, <2>3
  <2> QED BY <1>1, <2>1, <2>2, <2>3, <2>4 DEF Looks
<1>4. CASE Reload(p) /\ pane[p].recent
  <2>1. LoadRecent(p) /\ UNCHANGED <<pane, active, commands, events, highlight, asked>>
    BY <1>4 DEF Reload
  <2>2. "reload" \in user.does BY <1>1, <1>4, AskKeepsUser DEF Reload
  <2> QED BY <1>1, <1>2, <1>4, <2>1, <2>2 DEF Looks
<1> QED BY <1>3, <1>4

(* It keeps the invariant. *)
LEMMA LooksKeeps ==
    ASSUME NavInv, NEW p, Looks(p)
    PROVE  NavInv'
<1> DEFINE l == [kind |-> "recent", pane |-> p, gen |-> recentGen']
<1>1. NavTypes /\ ListsFit /\ TagsFit /\ HighlightFits /\ RecentFits /\ RevealsFit /\ AskedFits
  BY DEF NavInv
<1>2. /\ SameUser /\ p \in user.panes /\ p \in Panes /\ LoadRecent(p)
      /\ \A q \in Panes \ {p} : pane'[q] = pane[q] /\ asked'[q] = asked[q]
      /\ pane'[p].recent /\ pane'[p].pending \in {Nothing, pane[p].pending}
      /\ "recent" \in user.does \/ pane[p].recent
      /\ asked'[p] = Recents \/ "reload" \in user.does
      /\ ~highlight' \/ (highlight' = highlight /\ pane' = pane)
      /\ active' = active /\ commands' = commands /\ events' = events
  BY <1>1, PlacesAre DEF Looks
<1>3. /\ l \in Lookups /\ recentGen' \in Nat
      /\ loads' \in Seq(Visits \cup Filters \cup Lookups) /\ Len(loads') <= user.loads
      /\ \A i \in 1..Len(loads') :
            loads'[i].kind # "reveal" /\ (loads'[i].kind = "tag" => loads'[i].on)
  BY <1>1, <1>2, LookMoves
<1>4. Rng(loads') = Rng(loads) \cup {l} /\ Way' = Way \cup {l} BY <1>1, <1>2, LookMoves
<1>5. \A B : l \notin B =>
         /\ Clear(commands, loads, events, B) => Clear(commands', loads', events', B)
         /\ \A x : Coming(commands, loads, events, x, B)
               => Coming(commands', loads', events', x, B)
  BY <1>1, <1>2, LookMoves
<1>6. l.kind = "recent" OBVIOUS
<1>7. l = [kind |-> "recent", pane |-> p, gen |-> recentGen'] OBVIOUS
<1> HIDE DEF l
<1>8. l \notin Offs /\ \A q : l \notin Navs(q) BY <1>6 DEF Offs, Navs, IsOff
<1>9. /\ Places' = Places /\ OnePane' = OnePane /\ Offs' = Offs /\ \A q : Navs(q)' = Navs(q)
      /\ user'.panes = user.panes /\ user'.does = user.does /\ user'.visits = user.visits
      /\ user'.loads = user.loads
  BY <1>2, SameSets DEF SameUser
<1>10. \A q, g : OnTheWay(q, g) => OnTheWay(q, g)' BY <1>4 DEF OnTheWay
<1>11. NavTypes'
  <2>1. /\ active' \in user.panes /\ commands' \in Seq(Visits \cup Filters)
        /\ events' \in Seq(Visits \cup Filters) /\ \A i \in 1..Len(events') : Arrives(events'[i])
        /\ "reveal" \notin user.does => \A c \in Rng(commands') : c.kind # "reveal"
    BY <1>1, <1>2 DEF NavTypes
  <2>2. /\ pane' \in [Panes -> PaneStates] /\ asked' \in [Panes -> Places \cup {Recents}]
        /\ highlight' \in BOOLEAN
    BY DEF Looks
  <2> QED BY <1>2, <1>3, <2>1, <2>2, TypesAgain
<1>12. ListsFit' BY <1>1, <1>2, <1>10 DEF ListsFit
<1>13. TagsFit' BY <1>1, <1>2, <1>9, <1>10 DEF TagsFit
<1>14. RecentFits'
  <2>1. \A q \in Panes : OnePane /\ pane'[q].recent => q = p BY <1>1, <1>2 DEF RecentFits, OnePane
  <2> QED BY <1>2, <1>4, <1>7, <1>9, <2>1 DEF RecentFits, Rng
<1>15. RevealsFit'
  <2>1. ASSUME NEW q \in Panes
        PROVE  \/ pane'[q].pending \in {Nothing} \cup Missing \cup Failing
               \/ Cmd("navigate", q, pane'[q].pending) \in Way'
    <3>1. \/ pane[q].pending \in {Nothing} \cup Missing \cup Failing
          \/ Cmd("navigate", q, pane[q].pending) \in Way
      BY <1>1 DEF RevealsFit, OnTheWay
    <3>2. pane'[q].pending \in {Nothing, pane[q].pending} BY <1>2
    <3> QED BY <1>4, <3>1, <3>2
  <2>2. \A i \in 1..Len(events') : events'[i].kind = "reveal" =>
          \/ events'[i].path \in Failing
          \/ Cmd("navigate", events'[i].pane, events'[i].path) \in
                Rng(commands') \cup Rng(loads') \cup Later(events', i)
    BY <1>1, <1>2, <1>4 DEF RevealsFit
  <2> QED BY <2>1, <2>2 DEF RevealsFit, Rng, Later, OnTheWay
<1>16. HighlightFits'
  <2>1. SUFFICES ASSUME highlight' = highlight, highlight, pane' = pane,
                        user.visits \cap Failing = {}, OnePane
                 PROVE  \/ \E f \in Places : OnTheWay(active, f)'
                        \/ pane'[active].tag # Nothing /\ Clear(commands', loads', events', Offs)
                        \/ Coming(commands', loads', events', On, Offs)
    BY <1>2, <1>9 DEF HighlightFits, On
  <2>2. \A B, x : B = Offs => /\ Clear(commands, loads, events, B) => Clear(commands', loads', events', B)
                              /\ Coming(commands, loads, events, x, B)
                                    => Coming(commands', loads', events', x, B)
    BY <1>5, <1>8
  <2>3. \/ \E f \in Places : OnTheWay(active, f)
        \/ pane[active].tag # Nothing /\ Clear(commands, loads, events, Offs)
        \/ Coming(commands, loads, events, On, Offs)
    BY <1>1, <2>1 DEF HighlightFits
  <2>4. active' = active BY <1>2
  <2>5. (\E f \in Places : OnTheWay(active, f)) => \E f \in Places : OnTheWay(active, f)'
    BY <1>10, <2>4 DEF OnTheWay
  <2> QED BY <2>1, <2>2, <2>3, <2>5
<1>17. AskedFits'
  <2>1. SUFFICES ASSUME user.loads = 1 /\ user.does \cap {"reload", "reveal"} = {}, NEW q \in Panes
                 PROVE  \/ asked'[q] \in Failing \cup {Recents}
                        \/ ~pane'[q].recent /\ pane'[q].path = asked'[q]
                              /\ Clear(commands', loads', events', Navs(q))
                        \/ Coming(commands', loads', events', Cmd("navigate", q, asked'[q]), Navs(q))
    BY <1>9 DEF AskedFits
  <2>2. CASE q = p BY <1>2, <2>1, <2>2
  <2>3. CASE q # p
    <3>1. pane'[q] = pane[q] /\ asked'[q] = asked[q] BY <1>2, <2>3
    <3> QED BY <1>1, <1>5, <1>8, <2>1, <3>1 DEF AskedFits
  <2> QED BY <2>2, <2>3
<1> QED BY <1>11, <1>12, <1>13, <1>14, <1>15, <1>16, <1>17 DEF NavInv

(* While panes, listings and events stay, more commands do no harm. *)
LEMMA PanesStay ==
    ASSUME NavInv, SameUser, UNCHANGED <<pane, loads, events, recentGen>>,
           Rng(commands) \subseteq Rng(commands')
    PROVE  ListsFit' /\ TagsFit' /\ RecentFits' /\ RevealsFit'
<1>1. NavTypes /\ ListsFit /\ TagsFit /\ RecentFits /\ RevealsFit BY DEF NavInv
<1>2. Way' = Rng(commands') \cup Rng(loads') \cup Rng(events') BY DEF Way, Rng
<1>3. \A q, g : OnTheWay(q, g) => OnTheWay(q, g)' BY <1>2 DEF OnTheWay, Way
<1>4. Places' = Places /\ OnePane' = OnePane /\ user'.panes = user.panes /\ user'.does = user.does
  BY SameSets DEF SameUser
<1>5. ListsFit' BY <1>1, <1>3 DEF ListsFit
<1>6. TagsFit' BY <1>1, <1>3, <1>4 DEF TagsFit
<1>7. RecentFits' BY <1>1, <1>4 DEF RecentFits
<1>8. RevealsFit'
  <2>1. \A q \in Panes : \/ pane'[q].pending \in {Nothing} \cup Missing \cup Failing
                         \/ Cmd("navigate", q, pane'[q].pending) \in Way'
    BY <1>1, <1>2 DEF RevealsFit, OnTheWay, Way
  <2>2. \A i \in 1..Len(events') : events'[i].kind = "reveal" =>
          \/ events'[i].path \in Failing
          \/ Cmd("navigate", events'[i].pane, events'[i].path) \in
                Rng(commands') \cup Rng(loads') \cup Later(events', i)
    BY <1>1 DEF RevealsFit
  <2> QED BY <2>1, <2>2 DEF RevealsFit, Rng, Later, OnTheWay
<1> QED BY <1>5, <1>6, <1>7, <1>8

(* To turn to another pane, or to delete, moves nothing. *)
LEMMA StaysKeeps ==
    ASSUME NavInv, NEW p \in Panes, SwitchPane(p) \/ PressDelete(p)
    PROVE  NavInv'
<1>1. /\ NavTypes /\ SameUser /\ p \in user.panes
      /\ UNCHANGED <<pane, commands, loads, events, recentGen, highlight, asked>>
  BY AskKeepsUser DEF NavInv, SwitchPane, PressDelete
<1>2. ListsFit' /\ TagsFit' /\ RecentFits' /\ RevealsFit' BY <1>1, PanesStay
<1>3. active' \in user.panes /\ (OnePane => active' = active)
  <2>1. CASE SwitchPane(p) BY <1>1, <2>1 DEF SwitchPane, OnePane, NavTypes
  <2>2. CASE PressDelete(p) BY <1>1, <2>2 DEF PressDelete, NavTypes
  <2> QED BY <2>1, <2>2
<1>4. NavTypes'
  <2>1. /\ pane' \in [Panes -> PaneStates] /\ asked' \in [Panes -> Places \cup {Recents}]
        /\ commands' \in Seq(Visits \cup Filters) /\ events' \in Seq(Visits \cup Filters)
        /\ loads' \in Seq(Visits \cup Filters \cup Lookups) /\ Len(loads') <= user.loads
        /\ \A i \in 1..Len(loads') :
              loads'[i].kind # "reveal" /\ (loads'[i].kind = "tag" => loads'[i].on)
        /\ \A i \in 1..Len(events') : Arrives(events'[i])
        /\ "reveal" \notin user.does => \A c \in Rng(commands') : c.kind # "reveal"
        /\ recentGen' \in Nat /\ highlight' \in BOOLEAN
    BY <1>1 DEF NavTypes
  <2> QED BY <1>1, <1>3, <2>1, TypesAgain
<1>5. /\ Places' = Places /\ OnePane' = OnePane /\ Offs' = Offs /\ \A q : Navs(q)' = Navs(q)
      /\ user'.panes = user.panes /\ user'.does = user.does /\ user'.visits = user.visits
      /\ user'.loads = user.loads
  BY <1>1, SameSets DEF SameUser
<1>6. HighlightFits'
  <2>1. HighlightFits BY DEF NavInv
  <2>2. OnePane => On' = On BY <1>1, <1>3 DEF On
  <2>3. \A q, g : OnTheWay(q, g) => OnTheWay(q, g)' BY <1>1 DEF OnTheWay, Way
  <2>4. SUFFICES ASSUME highlight, user.visits \cap Failing = {}, OnePane
                 PROVE  \/ \E f \in Places : OnTheWay(active, f)'
                        \/ pane[active].tag # Nothing /\ Clear(commands, loads, events, Offs)
                        \/ Coming(commands, loads, events, On, Offs)
    BY <1>1, <1>3, <1>5, <2>2 DEF HighlightFits
  <2>5. (\E f \in Places : OnTheWay(active, f)) => \E f \in Places : OnTheWay(active, f)'
    BY <1>1, <1>3, <2>4 DEF OnTheWay, Way
  <2> QED BY <2>1, <2>4, <2>5 DEF HighlightFits
<1>7. AskedFits' BY <1>1, <1>5 DEF AskedFits, NavInv
<1> QED BY <1>2, <1>4, <1>6, <1>7 DEF NavInv

(* Another program reveals an item. *)
LEMMA RevealKeeps ==
    ASSUME NavInv, NEW p \in Panes, Reveal(p)
    PROVE  NavInv'
<1>1. NavTypes /\ SameUser /\ p \in user.panes /\ "reveal" \in user.does
  BY AskKeepsUser DEF NavInv, Reveal
<1>2. PICK f \in user.visits : asked' = [asked EXCEPT ![p] = f] /\ Send(Cmd("reveal", p, f))
  BY DEF Reveal
<1>3. UNCHANGED <<pane, active, loads, events, recentGen, highlight>> /\ f \in Places
  BY <1>1, PlacesAre DEF Reveal
<1> DEFINE c == Cmd("reveal", p, f)
<1>4. c \in Visits /\ c.kind = "reveal" /\ Send(c) BY <1>1, <1>2, <1>3, CmdIs
<1> HIDE DEF c
<1>5. /\ commands' \in Seq(Visits \cup Filters) /\ Rng(commands') = Rng(commands) \cup {c}
      /\ Way' = Way \cup {c}
      /\ \A B : c \notin B =>
            /\ Clear(commands, loads, events, B) => Clear(commands', loads', events', B)
            /\ \A x : Coming(commands, loads, events, x, B)
                  => Coming(commands', loads', events', x, B)
  BY <1>1, <1>3, <1>4, SendMoves
<1>6. ListsFit' /\ TagsFit' /\ RecentFits' /\ RevealsFit' BY <1>1, <1>3, <1>5, PanesStay
<1>7. NavTypes'
  <2>1. /\ pane' \in [Panes -> PaneStates] /\ asked' \in [Panes -> Places \cup {Recents}]
        /\ events' \in Seq(Visits \cup Filters) /\ active' \in user.panes
        /\ loads' \in Seq(Visits \cup Filters \cup Lookups) /\ Len(loads') <= user.loads
        /\ \A i \in 1..Len(loads') :
              loads'[i].kind # "reveal" /\ (loads'[i].kind = "tag" => loads'[i].on)
        /\ \A i \in 1..Len(events') : Arrives(events'[i])
        /\ recentGen' \in Nat /\ highlight' \in BOOLEAN
    BY <1>1, <1>2, <1>3 DEF NavTypes
  <2> QED BY <1>1, <1>5, <2>1, TypesAgain
<1>8. /\ Places' = Places /\ OnePane' = OnePane /\ Offs' = Offs
      /\ user'.does = user.does /\ user'.visits = user.visits
  BY <1>1, SameSets DEF SameUser
<1>9. HighlightFits'
  <2>1. c \notin Offs BY <1>4 DEF Offs, IsOff
  <2>2. On' = On BY <1>3 DEF On
  <2>3. SUFFICES ASSUME highlight, user.visits \cap Failing = {}, OnePane
                 PROVE  \/ \E g \in Places : OnTheWay(active, g)'
                        \/ pane[active].tag # Nothing /\ Clear(commands', loads', events', Offs)
                        \/ Coming(commands', loads', events', On, Offs)
    BY <1>3, <1>8, <2>2 DEF HighlightFits
  <2>4. \/ \E g \in Places : OnTheWay(active, g)
        \/ pane[active].tag # Nothing /\ Clear(commands, loads, events, Offs)
        \/ Coming(commands, loads, events, On, Offs)
    BY <2>3 DEF HighlightFits, NavInv
  <2>5. (\E g \in Places : OnTheWay(active, g)) => \E g \in Places : OnTheWay(active, g)'
    BY <1>3, <1>5 DEF OnTheWay
  <2>6. \A B, x : B = Offs => /\ Clear(commands, loads, events, B) => Clear(commands', loads', events', B)
                              /\ Coming(commands, loads, events, x, B)
                                    => Coming(commands', loads', events', x, B)
    BY <1>5, <2>1
  <2> QED BY <2>4, <2>5, <2>6
<1>10. AskedFits' BY <1>1, <1>8 DEF AskedFits
<1> QED BY <1>6, <1>7, <1>9, <1>10 DEF NavInv

(* A click on the tag. *)
LEMMA ClickKeeps ==
    ASSUME NavInv, NEW p \in Panes, ClickTag(p)
    PROVE  NavInv'
<1> DEFINE c == [kind |-> "tag", pane |-> p, path |-> pane[p].path, on |-> ~highlight]
<1>1. NavTypes /\ SameUser /\ p \in user.panes BY AskKeepsUser DEF NavInv, ClickTag
<1>2. /\ UNCHANGED <<pane, active, loads, events, recentGen, asked>> /\ active = p
      /\ highlight' = ~highlight /\ Send(c)
  BY DEF ClickTag
<1>3. c \in Filters /\ c.kind = "tag" /\ (~highlight => c = On)
  <2>1. pane[p].path \in Places /\ highlight \in BOOLEAN BY <1>1, PaneParts DEF NavTypes
  <2>2. c \in Filters BY <1>1, <2>1 DEF Filters
  <2>3. ASSUME ~highlight PROVE c = On
    <3>1. (~highlight) = TRUE BY <2>1, <2>3
    <3> QED BY <1>2, <3>1 DEF On
  <2> QED BY <2>2, <2>3
<1> HIDE DEF c
<1>4. /\ commands' \in Seq(Visits \cup Filters) /\ Rng(commands') = Rng(commands) \cup {c}
      /\ \A B : /\ Coming(commands', loads', events', c, B)
                /\ c \notin B =>
                     /\ Clear(commands, loads, events, B) => Clear(commands', loads', events', B)
                     /\ \A x : Coming(commands, loads, events, x, B)
                           => Coming(commands', loads', events', x, B)
  BY <1>1, <1>2, <1>3, SendMoves
<1>5. ListsFit' /\ TagsFit' /\ RecentFits' /\ RevealsFit' BY <1>1, <1>2, <1>4, PanesStay
<1>6. NavTypes'
  <2>1. /\ pane' \in [Panes -> PaneStates] /\ asked' \in [Panes -> Places \cup {Recents}]
        /\ events' \in Seq(Visits \cup Filters) /\ active' \in user.panes
        /\ loads' \in Seq(Visits \cup Filters \cup Lookups) /\ Len(loads') <= user.loads
        /\ \A i \in 1..Len(loads') :
              loads'[i].kind # "reveal" /\ (loads'[i].kind = "tag" => loads'[i].on)
        /\ \A i \in 1..Len(events') : Arrives(events'[i])
        /\ recentGen' \in Nat
    BY <1>1, <1>2 DEF NavTypes
  <2>2. highlight' \in BOOLEAN BY <1>2
  <2>3. "reveal" \notin user.does => \A d \in Rng(commands') : d.kind # "reveal"
    BY <1>1, <1>3, <1>4 DEF NavTypes
  <2> QED BY <1>1, <1>4, <2>1, <2>2, <2>3, TypesAgain
<1>7. /\ Offs' = Offs /\ \A q : Navs(q)' = Navs(q)
      /\ user'.does = user.does /\ user'.loads = user.loads
  BY <1>1, SameSets DEF SameUser
<1>8. HighlightFits'
  <2>1. SUFFICES ASSUME highlight' PROVE Coming(commands', loads', events', On', Offs')
    BY DEF HighlightFits
  <2>2. ~highlight /\ On' = On BY <1>2, <2>1 DEF On
  <2>3. Coming(commands', loads', events', On, Offs) BY <1>3, <1>4, <2>2
  <2> QED BY <1>7, <2>2, <2>3
<1>9. AskedFits'
  <2>1. \A q : c \notin Navs(q) BY <1>3 DEF Navs
  <2>2. SUFFICES ASSUME user.loads = 1 /\ user.does \cap {"reload", "reveal"} = {}, NEW q \in Panes
                 PROVE  \/ asked[q] \in Failing \cup {Recents}
                        \/ ~pane[q].recent /\ pane[q].path = asked[q]
                              /\ Clear(commands', loads', events', Navs(q))
                        \/ Coming(commands', loads', events', Cmd("navigate", q, asked[q]), Navs(q))
    BY <1>2, <1>7 DEF AskedFits
  <2> QED BY <1>4, <2>1, <2>2 DEF AskedFits, NavInv
<1> QED BY <1>5, <1>6, <1>8, <1>9 DEF NavInv

-------------------------------------------------------------------------------
(* The invariant is kept by the backend. *)

(* What a command is given to keeps its types. *)
LEMMA ReceiveTypes ==
    ASSUME NavInv, Receive
    PROVE  NavTypes' /\ SameUser
<1> DEFINE c == Head(commands)
           n == Cmd("navigate", c.pane, c.path)
<1>1. NavTypes /\ UNCHANGED <<pane, active, recentGen, highlight, asked, user>> BY DEF NavInv, Receive
<1>2. SameUser BY <1>1, NobodyAsks
<1>3. /\ commands # << >> /\ c \in Visits \cup Filters
      /\ Listed(c) \/ TakenOff(c) \/ ToReveal(c)
  BY <1>1, ReceiveIs
<1>4. /\ Rng(commands) = Rng(Tail(commands)) \cup {c}
      /\ ToReveal(c) => n \in Visits /\ Rng(commands') = Rng(Tail(commands)) \cup {n}
      /\ Listed(c) \/ TakenOff(c) => Rng(commands') = Rng(Tail(commands))
  BY <1>1, ReceiveMoves
<1>5. /\ commands \in Seq(Visits \cup Filters) /\ events \in Seq(Visits \cup Filters)
      /\ loads \in Seq(Visits \cup Filters \cup Lookups) /\ user.loads \in Nat
      /\ Len(loads) <= user.loads
  BY <1>1, PlacesAre DEF NavTypes
<1>6. Tail(commands) \in Seq(Visits \cup Filters) BY <1>3, <1>5, TailNth
<1>7. n.kind = "navigate" BY DEF Cmd
<1> HIDE DEF c, n
<1>8. commands' \in Seq(Visits \cup Filters)
  <2>1. ToReveal(c) => Append(Tail(commands), n) \in Seq(Visits \cup Filters) BY <1>4, <1>6, AppendNth
  <2> QED BY <1>3, <1>6, <2>1 DEF Listed, TakenOff, ToReveal, n
<1>9. /\ loads' \in Seq(Visits \cup Filters \cup Lookups) /\ Len(loads') <= user.loads
      /\ \A i \in 1..Len(loads') :
            loads'[i].kind # "reveal" /\ (loads'[i].kind = "tag" => loads'[i].on)
  <2>1. \A i \in 1..Len(loads) : loads[i].kind # "reveal" /\ (loads[i].kind = "tag" => loads[i].on)
    BY <1>1 DEF NavTypes
  <2>2. CASE Listed(c)
    <3> DEFINE S == Visits \cup Filters \cup Lookups
    <3>1. /\ c.kind # "reveal" /\ (c.kind = "tag" => c.on)
          /\ loads' = Append(loads, c) /\ Len(loads) < user.loads
      BY <2>2 DEF Listed
    <3>2. c \in S /\ loads \in Seq(S) BY <1>3, <1>5
    <3> HIDE DEF S
    <3>3. /\ Append(loads, c) \in Seq(S) /\ Len(loads) \in Nat
          /\ Len(Append(loads, c)) = Len(loads) + 1 /\ Append(loads, c)[Len(loads) + 1] = c
      BY <3>2, AppendNth
    <3>4. \A i \in 1..Len(loads) : Append(loads, c)[i] = loads[i] BY <3>2, AppendNth
    <3>5. loads' \in Seq(S) /\ Len(loads') <= user.loads BY <1>5, <3>1, <3>3
    <3>6. ASSUME NEW i \in 1..Len(loads')
          PROVE  loads'[i].kind # "reveal" /\ (loads'[i].kind = "tag" => loads'[i].on)
      <4>1. i \in 1..Len(loads) \/ i = Len(loads) + 1 BY <3>1, <3>3
      <4> QED BY <2>1, <3>1, <3>3, <3>4, <4>1
    <3> QED BY <3>5, <3>6 DEF S
  <2>3. CASE TakenOff(c) \/ ToReveal(c) BY <1>5, <2>1, <2>3 DEF TakenOff, ToReveal
  <2> QED BY <1>3, <2>2, <2>3
<1>10. events' \in Seq(Visits \cup Filters) /\ \A i \in 1..Len(events') : Arrives(events'[i])
  <2>1. \A i \in 1..Len(events) : Arrives(events[i]) BY <1>1 DEF NavTypes
  <2>2. CASE Listed(c) BY <1>5, <2>1, <2>2 DEF Listed
  <2>3. CASE TakenOff(c) \/ ToReveal(c)
    <3>1. events' = Append(events, c) /\ Arrives(c) BY <2>3 DEF TakenOff, ToReveal, Arrives
    <3>2. /\ Append(events, c) \in Seq(Visits \cup Filters) /\ Len(events) \in Nat
          /\ Len(Append(events, c)) = Len(events) + 1 /\ Append(events, c)[Len(events) + 1] = c
      BY <1>3, <1>5, AppendNth
    <3>3. \A i \in 1..Len(events) : Append(events, c)[i] = events[i] BY <1>3, <1>5, AppendNth
    <3>4. \A i \in 1..Len(events') : i \in 1..Len(events) \/ i = Len(events) + 1 BY <3>1, <3>2
    <3> QED BY <2>1, <3>1, <3>2, <3>3, <3>4
  <2> QED BY <1>3, <2>2, <2>3
<1>11. "reveal" \notin user.does => \A d \in Rng(commands') : d.kind # "reveal"
  <2>1. "reveal" \notin user.does => \A d \in Rng(commands) : d.kind # "reveal" BY <1>1 DEF NavTypes
  <2> QED BY <1>3, <1>4, <1>7, <2>1
<1>12. /\ active' \in user.panes /\ pane' \in [Panes -> PaneStates] /\ recentGen' \in Nat
       /\ highlight' \in BOOLEAN /\ asked' \in [Panes -> Places \cup {Recents}]
  BY <1>1 DEF NavTypes
<1>13. NavTypes' BY <1>2, <1>8, <1>9, <1>10, <1>11, <1>12, TypesAgain
<1> QED BY <1>2, <1>13

(* What is revealed is sent for, and so it stays. *)
LEMMA ReceiveReveals ==
    ASSUME NavInv, Receive
    PROVE  \A i \in 1..Len(events') : events'[i].kind = "reveal" =>
              \/ events'[i].path \in Failing
              \/ Cmd("navigate", events'[i].pane, events'[i].path) \in
                    Rng(commands') \cup Rng(loads') \cup Later(events', i)
<1> DEFINE c == Head(commands)
           n == Cmd("navigate", c.pane, c.path)
<1>1. NavTypes /\ RevealsFit BY DEF NavInv
<1>2. c \in Visits \cup Filters /\ (Listed(c) \/ TakenOff(c) \/ ToReveal(c)) BY <1>1, ReceiveIs
<1>3. /\ Rng(commands) = Rng(Tail(commands)) \cup {c}
      /\ Listed(c) => /\ Rng(commands') = Rng(Tail(commands))
                      /\ Rng(loads') = Rng(loads) \cup {c} /\ events' = events
      /\ TakenOff(c) => /\ Rng(commands') = Rng(Tail(commands))
                        /\ loads' = loads /\ Rng(events') = Rng(events) \cup {c}
      /\ ToReveal(c) => /\ Rng(commands') = Rng(Tail(commands)) \cup {n}
                        /\ loads' = loads /\ Rng(events') = Rng(events) \cup {c}
  BY <1>1, ReceiveMoves
<1>4. \A i \in 1..Len(events) : events[i].kind = "reveal" =>
          \/ events[i].path \in Failing
          \/ Cmd("navigate", events[i].pane, events[i].path) \in
                Rng(commands) \cup Rng(loads) \cup Later(events, i)
  BY <1>1 DEF RevealsFit
<1>5. events \in Seq(Visits \cup Filters) BY <1>1 DEF NavTypes
<1>6. \A p, f : Cmd("navigate", p, f).kind = "navigate" BY DEF Cmd
<1>7. n = Cmd("navigate", c.pane, c.path) OBVIOUS
<1> HIDE DEF c, n
<1>8. CASE Listed(c) BY <1>3, <1>4, <1>8
<1>9. CASE TakenOff(c) \/ ToReveal(c)
  <2>1. events' = Append(events, c) /\ c.kind # "navigate" BY <1>9 DEF TakenOff, ToReveal
  <2>2. /\ Len(events) \in Nat /\ Len(events') = Len(events) + 1 /\ events'[Len(events) + 1] = c
    BY <1>2, <1>5, <2>1, AppendNth
  <2>3. \A i \in 1..Len(events) : events'[i] = events[i] BY <1>2, <1>5, <2>1, AppendNth
  <2>4. \A i \in 1..Len(events) : Later(events', i) = Later(events, i) \cup {c}
    BY <1>2, <1>5, <2>1, AppendLater
  <2>5. SUFFICES ASSUME NEW i \in 1..Len(events'), events'[i].kind = "reveal"
                 PROVE  \/ events'[i].path \in Failing
                        \/ Cmd("navigate", events'[i].pane, events'[i].path) \in
                              Rng(commands') \cup Rng(loads') \cup Later(events', i)
    OBVIOUS
  <2>6. CASE i \in 1..Len(events)
    <3> DEFINE x == Cmd("navigate", events[i].pane, events[i].path)
    <3>1. x.kind = "navigate" BY <1>6
    <3>2. events[i].path \in Failing \/ x \in Rng(commands) \cup Rng(loads) \cup Later(events, i)
      BY <1>4, <2>3, <2>5, <2>6
    <3>3. events'[i] = events[i] BY <2>3, <2>6
    <3> HIDE DEF x
    <3>4. events[i].path \in Failing \/ x \in Rng(commands') \cup Rng(loads') \cup Later(events', i)
      BY <1>3, <1>9, <2>1, <2>4, <2>6, <3>1, <3>2
    <3> QED BY <3>3, <3>4 DEF x
  <2>7. CASE i = Len(events) + 1
    <3>1. ToReveal(c) BY <1>9, <2>2, <2>5, <2>7 DEF TakenOff
    <3> QED BY <1>3, <1>7, <2>2, <2>7, <3>1
  <2> QED BY <2>2, <2>6, <2>7
<1> QED BY <1>2, <1>8, <1>9

(* The rest is kept. *)
LEMMA ReceiveKeepsInv ==
    ASSUME NavInv, Receive
    PROVE  NavInv'
<1>1. NavTypes /\ ListsFit /\ TagsFit /\ HighlightFits /\ RecentFits /\ RevealsFit /\ AskedFits
  BY DEF NavInv
<1>2. UNCHANGED <<pane, active, recentGen, highlight, asked, user>> BY DEF Receive
<1>3. NavTypes' /\ SameUser BY ReceiveTypes
<1>4. Way \subseteq Way' BY <1>1, ReceiveKeepsWay
<1>5. \A q, g : OnTheWay(q, g) => OnTheWay(q, g)' BY <1>4 DEF OnTheWay
<1>6. /\ Places' = Places /\ OnePane' = OnePane /\ Offs' = Offs /\ \A q : Navs(q)' = Navs(q)
  BY <1>3, SameSets
<1>7. Rng(loads) \subseteq Rng(loads')
  <2> DEFINE c == Head(commands)
  <2>1. Listed(c) \/ TakenOff(c) \/ ToReveal(c) BY <1>1, ReceiveIs
  <2>2. /\ Listed(c) => Rng(loads') = Rng(loads) \cup {c}
        /\ TakenOff(c) \/ ToReveal(c) => loads' = loads
    BY <1>1, ReceiveMoves DEF TakenOff, ToReveal
  <2> QED BY <2>1, <2>2
<1>8. ListsFit' BY <1>1, <1>2, <1>5 DEF ListsFit
<1>9. TagsFit' BY <1>1, <1>2, <1>5, <1>6 DEF TagsFit
<1>10. RecentFits' BY <1>1, <1>2, <1>6, <1>7 DEF RecentFits, Rng
<1>11. RevealsFit'
  <2>1. \A q \in Panes : \/ pane'[q].pending \in {Nothing} \cup Missing \cup Failing
                         \/ Cmd("navigate", q, pane'[q].pending) \in Way'
    BY <1>1, <1>2, <1>4 DEF RevealsFit, OnTheWay
  <2>2. \A i \in 1..Len(events') : events'[i].kind = "reveal" =>
          \/ events'[i].path \in Failing
          \/ Cmd("navigate", events'[i].pane, events'[i].path) \in
                Rng(commands') \cup Rng(loads') \cup Later(events', i)
    BY ReceiveReveals
  <2> QED BY <2>1, <2>2 DEF RevealsFit, Rng, Later, OnTheWay
<1>12. HighlightFits'
  <2>1. On' = On /\ On.kind = "tag" /\ ~IsOff(On) BY <1>2 DEF On, IsOff
  <2>2. \A p, f : Cmd("navigate", p, f) \notin Offs BY DEF Offs, IsOff, Cmd
  <2>3. \A B : B = Offs => /\ Clear(commands, loads, events, B) => Clear(commands', loads', events', B)
                           /\ Coming(commands, loads, events, On, B)
                                 => Coming(commands', loads', events', On, B)
    BY <1>1, <2>1, <2>2, ReceiveKeepsOrder
  <2>4. SUFFICES ASSUME highlight, user.visits \cap Failing = {}, OnePane
                 PROVE  \/ \E g \in Places : OnTheWay(active, g)'
                        \/ pane[active].tag # Nothing /\ Clear(commands', loads', events', Offs)
                        \/ Coming(commands', loads', events', On, Offs)
    BY <1>2, <1>6, <2>1 DEF HighlightFits
  <2>5. \/ \E g \in Places : OnTheWay(active, g)
        \/ pane[active].tag # Nothing /\ Clear(commands, loads, events, Offs)
        \/ Coming(commands, loads, events, On, Offs)
    BY <1>1, <2>4 DEF HighlightFits
  <2>6. (\E g \in Places : OnTheWay(active, g)) => \E g \in Places : OnTheWay(active, g)'
    BY <1>2, <1>4 DEF OnTheWay
  <2> QED BY <2>3, <2>5, <2>6
<1>13. AskedFits'
  <2>1. SUFFICES ASSUME user.loads = 1 /\ user.does \cap {"reload", "reveal"} = {}, NEW q \in Panes
                 PROVE  \/ asked[q] \in Failing \cup {Recents}
                        \/ ~pane[q].recent /\ pane[q].path = asked[q]
                              /\ Clear(commands', loads', events', Navs(q))
                        \/ Coming(commands', loads', events', Cmd("navigate", q, asked[q]), Navs(q))
    BY <1>2, <1>6 DEF AskedFits
  <2> DEFINE x == Cmd("navigate", q, asked[q])
  <2>2. \A c \in Rng(commands) : c.kind # "reveal" BY <1>1, <2>1 DEF NavTypes
  <2>3. x.kind # "reveal" /\ ~IsOff(x) BY DEF Cmd, IsOff
  <2>4. \/ asked[q] \in Failing \cup {Recents}
        \/ ~pane[q].recent /\ pane[q].path = asked[q] /\ Clear(commands, loads, events, Navs(q))
        \/ Coming(commands, loads, events, x, Navs(q))
    BY <1>1, <2>1 DEF AskedFits
  <2> HIDE DEF x
  <2>5. \A B : /\ Clear(commands, loads, events, B) => Clear(commands', loads', events', B)
               /\ Coming(commands, loads, events, x, B) => Coming(commands', loads', events', x, B)
    BY <1>1, <2>2, <2>3, ReceiveKeepsOrder
  <2> QED BY <2>4, <2>5 DEF x
<1> QED BY <1>3, <1>8, <1>9, <1>10, <1>11, <1>12, <1>13 DEF NavInv

(* A listing that is done. *)
LEMMA FinishKeepsInv ==
    ASSUME NavInv, NEW i \in DOMAIN loads, Finish(i)
    PROVE  NavInv'
<1> DEFINE y == loads[i]
<1>1. NavTypes /\ ListsFit /\ TagsFit /\ HighlightFits /\ RecentFits /\ RevealsFit /\ AskedFits
  BY DEF NavInv
<1>2. UNCHANGED <<pane, active, commands, recentGen, highlight, asked, user>> /\ SameUser
  BY <1>1, NobodyAsks DEF Finish
<1>3. /\ i \in 1..Len(loads) /\ y \in Visits \cup Filters /\ y \in Rng(loads)
      /\ loads' \in Seq(Visits \cup Filters \cup Lookups)
      /\ Len(loads) \in Nat /\ Len(loads') = Len(loads) - 1
      /\ \A k \in 1..Len(loads') : \E j \in 1..Len(loads) : loads'[k] = loads[j]
  BY <1>1, FinishMoves
<1>4. /\ Rng(loads) = Rng(loads') \cup {y} /\ events' \in Seq(Visits \cup Filters)
      /\ events' = IF y.path \in Failing THEN events ELSE Append(events, y)
      /\ Rng(events') = Rng(events) \cup (IF y.path \in Failing THEN {} ELSE {y})
  BY <1>1, FinishMoves
<1>5. /\ \A x \in Way : x \in Way' \/ x.path \in Failing
      /\ \A B : user.loads = 1 \/ Rng(loads) \cap B = {} =>
            /\ Clear(commands, loads, events, B) => Clear(commands', loads', events', B)
            /\ \A x : x.path \notin Failing /\ Coming(commands, loads, events, x, B)
                   => Coming(commands', loads', events', x, B)
  BY <1>1, FinishKeeps
<1>6. /\ \A k \in 1..Len(loads) : loads[k].kind # "reveal" /\ (loads[k].kind = "tag" => loads[k].on)
      /\ \A k \in 1..Len(events) : Arrives(events[k])
      /\ user.loads \in Nat /\ Len(loads) <= user.loads /\ events \in Seq(Visits \cup Filters)
  BY <1>1, PlacesAre DEF NavTypes
<1>7. y.kind # "reveal" /\ y.kind # "recent" BY <1>3, <1>6 DEF Finish
<1> HIDE DEF y
<1>8. /\ Places' = Places /\ OnePane' = OnePane /\ Offs' = Offs /\ \A q : Navs(q)' = Navs(q)
  BY <1>2, SameSets
<1>9. \A q, g : g \notin Failing /\ OnTheWay(q, g) => OnTheWay(q, g)' BY <1>5 DEF OnTheWay, Cmd
<1>10. /\ Len(events) \in Nat
       /\ \A k \in 1..Len(events') : k \in 1..Len(events) \/ (k = Len(events) + 1 /\ events'[k] = y
                                                                /\ y.path \notin Failing)
       /\ \A k \in 1..Len(events) : events'[k] = events[k]
       /\ \A k \in 1..Len(events) : Later(events, k) \subseteq Later(events', k)
       /\ y.path \notin Failing => \A k \in 1..Len(events) : y \in Later(events', k)
  <2>1. CASE y.path \in Failing BY <1>4, <1>6, <2>1, LenProperties
  <2>2. CASE y.path \notin Failing
    <3>1. events' = Append(events, y) BY <1>4, <2>2
    <3>2. /\ Len(events) \in Nat /\ Len(events') = Len(events) + 1 /\ events'[Len(events) + 1] = y
      BY <1>3, <1>6, <3>1, AppendNth
    <3>3. \A k \in 1..Len(events) : events'[k] = events[k] BY <1>3, <1>6, <3>1, AppendNth
    <3>4. \A k \in 1..Len(events) : Later(events', k) = Later(events, k) \cup {y}
      <4>1. \A k \in 1..Len(events) : Later(Append(events, y), k) = Later(events, k) \cup {y}
        BY <1>3, <1>6, AppendLater, SMTT(20)
      <4> QED BY <3>1, <4>1
    <3> QED BY <2>2, <3>2, <3>3, <3>4
  <2> QED BY <2>1, <2>2
<1>11. NavTypes'
  <2>1. Len(loads') <= user.loads BY <1>3, <1>6
  <2>2. \A k \in 1..Len(loads') : loads'[k].kind # "reveal" /\ (loads'[k].kind = "tag" => loads'[k].on)
    BY <1>3, <1>6
  <2>3. \A k \in 1..Len(events') : Arrives(events'[k]) BY <1>6, <1>10 DEF Arrives
  <2>4. /\ active' \in user.panes /\ pane' \in [Panes -> PaneStates] /\ recentGen' \in Nat
        /\ highlight' \in BOOLEAN /\ asked' \in [Panes -> Places \cup {Recents}]
        /\ commands' \in Seq(Visits \cup Filters)
        /\ "reveal" \notin user.does => \A c \in Rng(commands') : c.kind # "reveal"
    BY <1>1, <1>2 DEF NavTypes
  <2> QED BY <1>2, <1>3, <1>4, <2>1, <2>2, <2>3, <2>4, TypesAgain
<1>12. ListsFit' BY <1>1, <1>2, <1>9 DEF ListsFit
<1>13. TagsFit' BY <1>1, <1>2, <1>8, <1>9 DEF TagsFit
<1>14. RecentFits'
  <2>1. \A p : [kind |-> "recent", pane |-> p, gen |-> recentGen] \in Rng(loads)
               => [kind |-> "recent", pane |-> p, gen |-> recentGen] \in Rng(loads')
    BY <1>4, <1>7
  <2> QED BY <1>1, <1>2, <1>8, <2>1 DEF RecentFits, Rng
<1>15. RevealsFit'
  <2>1. \A q \in Panes : \/ pane'[q].pending \in {Nothing} \cup Missing \cup Failing
                         \/ Cmd("navigate", q, pane'[q].pending) \in Way'
    BY <1>1, <1>2, <1>9 DEF RevealsFit, OnTheWay
  <2>2. ASSUME NEW k \in 1..Len(events'), events'[k].kind = "reveal"
        PROVE  \/ events'[k].path \in Failing
               \/ Cmd("navigate", events'[k].pane, events'[k].path) \in
                     Rng(commands') \cup Rng(loads') \cup Later(events', k)
    <3>1. k \in 1..Len(events) /\ events'[k] = events[k] BY <1>7, <1>10, <2>2
    <3> DEFINE x == Cmd("navigate", events[k].pane, events[k].path)
    <3>2. x.path = events[k].path BY DEF Cmd
    <3>3. events[k].path \in Failing \/ x \in Rng(commands) \cup Rng(loads) \cup Later(events, k)
      BY <1>1, <2>2, <3>1 DEF RevealsFit
    <3> HIDE DEF x
    <3>4. events[k].path \in Failing \/ x \in Rng(commands') \cup Rng(loads') \cup Later(events', k)
      BY <1>2, <1>4, <1>10, <3>1, <3>2, <3>3
    <3> QED BY <3>1, <3>4 DEF x
  <2> QED BY <2>1, <2>2 DEF RevealsFit, Rng, Later, OnTheWay
<1>16. HighlightFits'
  <2>1. SUFFICES ASSUME highlight, user.visits \cap Failing = {}, OnePane
                 PROVE  \/ \E g \in Places : OnTheWay(active, g)'
                        \/ pane[active].tag # Nothing /\ Clear(commands', loads', events', Offs)
                        \/ Coming(commands', loads', events', On, Offs)
    BY <1>2, <1>8 DEF HighlightFits, On
  <2>2. Rng(loads) \cap Offs = {} BY <1>6 DEF Rng, Offs, IsOff
  <2>3. Places \cap Failing = {} BY <1>1, <2>1, PlacesAre
  <2>4. On.path \notin Failing
    <3>1. active \in Panes BY <1>1, PlacesAre DEF NavTypes
    <3>2. pane[active].path \in Places BY <1>1, <3>1, PaneParts DEF NavTypes
    <3> QED BY <2>3, <3>2 DEF On
  <2>5. \/ \E g \in Places : OnTheWay(active, g)
        \/ pane[active].tag # Nothing /\ Clear(commands, loads, events, Offs)
        \/ Coming(commands, loads, events, On, Offs)
    BY <1>1, <2>1 DEF HighlightFits
  <2>6. ASSUME NEW g \in Places, OnTheWay(active, g) PROVE OnTheWay(active, g)'
    <3>1. Cmd("navigate", active, g) \in Way' BY <1>5, <2>3, <2>6 DEF OnTheWay, Cmd
    <3> QED BY <1>2, <3>1 DEF OnTheWay
  <2> QED BY <1>5, <2>2, <2>4, <2>5, <2>6
<1>17. AskedFits'
  <2>1. SUFFICES ASSUME user.loads = 1 /\ user.does \cap {"reload", "reveal"} = {}, NEW q \in Panes
                 PROVE  \/ asked[q] \in Failing \cup {Recents}
                        \/ ~pane[q].recent /\ pane[q].path = asked[q]
                              /\ Clear(commands', loads', events', Navs(q))
                        \/ Coming(commands', loads', events', Cmd("navigate", q, asked[q]), Navs(q))
    BY <1>2, <1>8 DEF AskedFits
  <2> DEFINE x == Cmd("navigate", q, asked[q])
  <2>2. x.path = asked[q] BY DEF Cmd
  <2>3. \/ asked[q] \in Failing \cup {Recents}
        \/ ~pane[q].recent /\ pane[q].path = asked[q] /\ Clear(commands, loads, events, Navs(q))
        \/ Coming(commands, loads, events, x, Navs(q))
    BY <1>1, <2>1 DEF AskedFits
  <2> HIDE DEF x
  <2> QED BY <1>5, <2>1, <2>2, <2>3 DEF x
<1> QED BY <1>11, <1>12, <1>13, <1>14, <1>15, <1>16, <1>17 DEF NavInv

(* A look for recent files that is done. *)
LEMMA FinishRecentKeepsInv ==
    ASSUME NavInv, NEW i \in DOMAIN loads, FinishRecent(i)
    PROVE  NavInv'
<1> DEFINE y == loads[i]
           l == y.pane
           t == [pane[l] EXCEPT !.listing = Recents]
<1>1. NavTypes /\ ListsFit /\ TagsFit /\ HighlightFits /\ RecentFits /\ RevealsFit /\ AskedFits
  BY DEF NavInv
<1>2. UNCHANGED <<active, commands, events, recentGen, highlight, asked, user>> /\ SameUser
  BY <1>1, NobodyAsks DEF FinishRecent
<1>3. /\ i \in 1..Len(loads) /\ y \in Lookups
      /\ loads' \in Seq(Visits \cup Filters \cup Lookups)
      /\ Len(loads) \in Nat /\ Len(loads') = Len(loads) - 1
      /\ \A k \in 1..Len(loads') : \E j \in 1..Len(loads) : loads'[k] = loads[j]
      /\ Rng(loads) = Rng(loads') \cup {y}
  BY <1>1, FinishRecentMoves
<1>4. /\ \A x \in Way : x \in Way' \/ x.kind = "recent"
      /\ \A B : /\ Clear(commands, loads, events, B) => Clear(commands', loads', events', B)
                /\ \A x : x.kind # "recent" /\ Coming(commands, loads, events, x, B)
                      => Coming(commands', loads', events', x, B)
  BY <1>1, FinishRecentMoves
<1>5. pane' = IF y.gen = recentGen /\ pane[l].recent THEN [pane EXCEPT ![l].listing = Recents] ELSE pane
  BY DEF FinishRecent
<1>6. l \in Panes /\ pane \in [Panes -> PaneStates] BY <1>1, <1>3, PlacesAre DEF NavTypes, Lookups
<1>7. pane' = IF y.gen = recentGen /\ pane[l].recent THEN [pane EXCEPT ![l] = t] ELSE pane BY <1>5, <1>6
<1>8. t \in PaneStates BY <1>6, ZenonT(30) DEF PaneStates
<1>9. /\ t.recent = pane[l].recent /\ t.path = pane[l].path /\ t.tag = pane[l].tag
      /\ t.pending = pane[l].pending /\ t.listing = Recents
  BY <1>6 DEF PaneStates
<1> HIDE DEF t
<1>10. /\ pane' \in [Panes -> PaneStates]
       /\ \A q \in Panes : /\ pane'[q].recent = pane[q].recent /\ pane'[q].path = pane[q].path
                           /\ pane'[q].tag = pane[q].tag /\ pane'[q].pending = pane[q].pending
                           /\ pane'[q].listing = pane[q].listing
                                 \/ (pane[q].recent /\ pane'[q].listing = Recents)
       /\ y.gen = recentGen /\ pane[l].recent => pane'[l].listing = Recents
  BY <1>6, <1>7, <1>8, <1>9
<1> HIDE DEF l, y
<1>11. /\ Places' = Places /\ OnePane' = OnePane /\ Offs' = Offs /\ \A q : Navs(q)' = Navs(q)
  BY <1>2, SameSets
<1>12. \A q, g : OnTheWay(q, g) => OnTheWay(q, g)' BY <1>4 DEF OnTheWay, Cmd
<1>13. NavTypes'
  <2>1. /\ \A k \in 1..Len(loads) : loads[k].kind # "reveal" /\ (loads[k].kind = "tag" => loads[k].on)
        /\ user.loads \in Nat /\ Len(loads) <= user.loads
    BY <1>1, PlacesAre DEF NavTypes
  <2>2. /\ Len(loads') <= user.loads
        /\ \A k \in 1..Len(loads') : loads'[k].kind # "reveal" /\ (loads'[k].kind = "tag" => loads'[k].on)
    <3>1. Len(loads') <= user.loads
      <4>1. Len(loads') = Len(loads) - 1 /\ Len(loads) \in Nat BY <1>3
      <4> QED BY <2>1, <4>1
    <3>2. ASSUME NEW k \in 1..Len(loads')
          PROVE  loads'[k].kind # "reveal" /\ (loads'[k].kind = "tag" => loads'[k].on)
      <4>1. PICK j \in 1..Len(loads) : loads'[k] = loads[j] BY <1>3
      <4> QED BY <2>1, <4>1
    <3> QED BY <3>1, <3>2
  <2>3. /\ active' \in user.panes /\ recentGen' \in Nat
        /\ highlight' \in BOOLEAN /\ asked' \in [Panes -> Places \cup {Recents}]
        /\ commands' \in Seq(Visits \cup Filters) /\ events' \in Seq(Visits \cup Filters)
        /\ \A k \in 1..Len(events') : Arrives(events'[k])
        /\ "reveal" \notin user.does => \A c \in Rng(commands') : c.kind # "reveal"
    BY <1>1, <1>2 DEF NavTypes
  <2> QED BY <1>2, <1>3, <1>10, <2>2, <2>3, TypesAgain
<1>14. ListsFit'
  <2>1. ASSUME NEW q \in Panes
        PROVE  \/ pane'[q].recent \/ pane'[q].path \in Failing \/ pane'[q].listing = pane'[q].path
               \/ Cmd("navigate", q, pane'[q].path) \in Way'
    <3>1. \/ pane[q].recent \/ pane[q].path \in Failing \/ pane[q].listing = pane[q].path
          \/ OnTheWay(q, pane[q].path)
      BY <1>1 DEF ListsFit
    <3>2. OnTheWay(q, pane[q].path) => Cmd("navigate", q, pane[q].path) \in Way'
      BY <1>4 DEF OnTheWay, Cmd
    <3> QED BY <1>10, <3>1, <3>2
  <2> QED BY <2>1 DEF ListsFit, OnTheWay
<1>15. TagsFit' BY <1>1, <1>2, <1>10, <1>11, <1>12 DEF TagsFit
<1>16. RecentFits'
  <2>1. SUFFICES ASSUME OnePane, NEW q \in Panes, pane'[q].recent
                 PROVE  /\ q \in user.panes
                        /\ \/ pane'[q].listing = Recents
                           \/ [kind |-> "recent", pane |-> q, gen |-> recentGen] \in Rng(loads')
    BY <1>2, <1>11 DEF RecentFits, Rng
  <2> DEFINE x == [kind |-> "recent", pane |-> q, gen |-> recentGen]
  <2>2. q \in user.panes /\ (pane[q].listing = Recents \/ x \in Rng(loads))
    BY <1>1, <1>10, <2>1 DEF RecentFits
  <2>3. CASE pane[q].listing = Recents BY <1>10, <2>2, <2>3
  <2>4. CASE x \in Rng(loads') BY <2>2, <2>4
  <2>5. CASE x = y
    <3>1. q = l /\ y.gen = recentGen BY <2>5 DEF l
    <3> QED BY <1>10, <2>1, <2>2, <3>1
  <2> HIDE DEF x
  <2>6. x \in Rng(loads) => x \in Rng(loads') \/ x = y BY <1>3
  <2> QED BY <2>2, <2>3, <2>4, <2>5, <2>6
<1>17. RevealsFit'
  <2>1. \A q \in Panes : \/ pane'[q].pending \in {Nothing} \cup Missing \cup Failing
                         \/ Cmd("navigate", q, pane'[q].pending) \in Way'
    BY <1>1, <1>10, <1>12 DEF RevealsFit, OnTheWay
  <2>2. ASSUME NEW k \in 1..Len(events'), events'[k].kind = "reveal"
        PROVE  \/ events'[k].path \in Failing
               \/ Cmd("navigate", events'[k].pane, events'[k].path) \in
                     Rng(commands') \cup Rng(loads') \cup Later(events', k)
    <3> DEFINE x == Cmd("navigate", events[k].pane, events[k].path)
    <3>1. x.kind # y.kind BY <1>3 DEF Cmd, Lookups
    <3>2. events[k].path \in Failing \/ x \in Rng(commands) \cup Rng(loads) \cup Later(events, k)
      BY <1>1, <1>2, <2>2 DEF RevealsFit
    <3> HIDE DEF x
    <3>3. events[k].path \in Failing \/ x \in Rng(commands) \cup Rng(loads') \cup Later(events, k)
      BY <1>3, <3>1, <3>2
    <3> QED BY <1>2, <3>3 DEF x
  <2> QED BY <2>1, <2>2 DEF RevealsFit, Rng, Later, OnTheWay
<1>18. HighlightFits'
  <2>1. active \in Panes BY <1>1, PlacesAre DEF NavTypes
  <2>2. On' = On /\ On.kind # "recent" /\ pane'[active].tag = pane[active].tag
    BY <1>2, <1>10, <2>1 DEF On
  <2>3. SUFFICES ASSUME highlight, user.visits \cap Failing = {}, OnePane
                 PROVE  \/ \E g \in Places : OnTheWay(active, g)'
                        \/ pane[active].tag # Nothing /\ Clear(commands', loads', events', Offs)
                        \/ Coming(commands', loads', events', On, Offs)
    BY <1>2, <1>11, <2>2 DEF HighlightFits
  <2>4. \/ \E g \in Places : OnTheWay(active, g)
        \/ pane[active].tag # Nothing /\ Clear(commands, loads, events, Offs)
        \/ Coming(commands, loads, events, On, Offs)
    BY <1>1, <2>3 DEF HighlightFits
  <2>5. (\E g \in Places : OnTheWay(active, g)) => \E g \in Places : OnTheWay(active, g)'
    BY <1>2, <1>4 DEF OnTheWay, Cmd
  <2> QED BY <1>4, <2>2, <2>4, <2>5
<1>19. AskedFits'
  <2>1. SUFFICES ASSUME user.loads = 1 /\ user.does \cap {"reload", "reveal"} = {}, NEW q \in Panes
                 PROVE  \/ asked[q] \in Failing \cup {Recents}
                        \/ ~pane[q].recent /\ pane[q].path = asked[q]
                              /\ Clear(commands', loads', events', Navs(q))
                        \/ Coming(commands', loads', events', Cmd("navigate", q, asked[q]), Navs(q))
    BY <1>2, <1>10, <1>11 DEF AskedFits
  <2> DEFINE x == Cmd("navigate", q, asked[q])
  <2>2. x.kind # "recent" BY DEF Cmd
  <2>3. \/ asked[q] \in Failing \cup {Recents}
        \/ ~pane[q].recent /\ pane[q].path = asked[q] /\ Clear(commands, loads, events, Navs(q))
        \/ Coming(commands, loads, events, x, Navs(q))
    BY <1>1, <2>1 DEF AskedFits
  <2> HIDE DEF x
  <2> QED BY <1>4, <2>2, <2>3 DEF x
<1> QED BY <1>13, <1>14, <1>15, <1>16, <1>17, <1>18, <1>19 DEF NavInv

-------------------------------------------------------------------------------
(* The invariant is kept by the window. *)

(* What the event makes of its pane, the others staying as they are: a listing is shown; else
   what is listed stays. *)
Shown(e) ==
    /\ pane' \in [Panes -> PaneStates] /\ \A q \in Panes \ {e.pane} : pane'[q] = pane[q]
    /\ \/ /\ e.kind = "navigate" /\ highlight' = FALSE
          /\ ~pane'[e.pane].recent /\ pane'[e.pane].path = e.path
          /\ pane'[e.pane].listing = e.path /\ pane'[e.pane].tag = Nothing
          /\ pane'[e.pane].pending \in {Nothing, pane[e.pane].pending}
          /\ pane'[e.pane].pending = e.path => e.path \in Missing
       \/ /\ e.kind # "navigate" /\ highlight' = highlight
          /\ pane'[e.pane].recent = pane[e.pane].recent /\ pane'[e.pane].path = pane[e.pane].path
          /\ pane'[e.pane].listing = pane[e.pane].listing
          /\ \/ e.kind = "reveal" /\ pane'[e.pane].tag = pane[e.pane].tag
                /\ pane'[e.pane].pending \in {Nothing, e.path}
             \/ e.kind = "tag" /\ pane'[e.pane].pending = pane[e.pane].pending
                /\ pane'[e.pane].tag = IF pane[e.pane].path = e.path
                                       THEN (IF e.on THEN e.path ELSE Nothing) ELSE pane[e.pane].tag

(* An event is shown. *)
LEMMA HandleShows ==
    ASSUME NavInv, HandleEvent
    PROVE  LET e == Head(events) IN e \in Visits \cup Filters /\ e.pane \in Panes /\ Shown(e)
<1> DEFINE e == Head(events)
           s == pane[e.pane]
           f == e.path
<1>1. NavTypes BY DEF NavInv
<1>2. e \in Visits \cup Filters BY <1>1, HandleMoves
<1>3. DirectoryLoaded(e) \/ SelectItems(e) \/ TagFilterApplied(e) BY DEF HandleEvent
<1> HIDE DEF e
<1>4. e.pane \in Panes /\ f \in Places /\ (e.kind = "tag" => e \in Filters) /\ Nothing \notin Places
  BY <1>1, <1>2, VisitParts, PlacesAre
<1>5. pane \in [Panes -> PaneStates] /\ s \in PaneStates BY <1>1, <1>4 DEF NavTypes
<1>6. CASE DirectoryLoaded(e)
  <2> DEFINE t == Revealed(Loaded(s, f))
  <2>1. pane' = [pane EXCEPT ![e.pane] = t] /\ e.kind = "navigate" /\ highlight' = FALSE
    BY <1>6 DEF DirectoryLoaded
  <2>2. /\ t \in PaneStates /\ t.recent = FALSE /\ t.path = f /\ t.listing = f
        /\ t.tag = Nothing /\ t.pending \in {Nothing, s.pending}
        /\ t.pending = f => f \in Missing
    BY <1>4, <1>5, LoadedIs
  <2> HIDE DEF t
  <2>3. /\ pane' \in [Panes -> PaneStates] /\ pane'[e.pane] = t
        /\ \A q \in Panes \ {e.pane} : pane'[q] = pane[q]
    BY <1>4, <1>5, <2>1, <2>2
  <2> QED BY <1>2, <1>4, <2>1, <2>2, <2>3 DEF Shown, e
<1>7. CASE SelectItems(e)
  <2> DEFINE t == Revealed([s EXCEPT !.pending = f])
  <2>1. pane' = [pane EXCEPT ![e.pane] = t] /\ e.kind = "reveal" /\ highlight' = highlight
    BY <1>7 DEF SelectItems
  <2>2. /\ t \in PaneStates /\ t.recent = s.recent /\ t.path = s.path
        /\ t.listing = s.listing /\ t.tag = s.tag /\ t.pending \in {Nothing, f}
    BY <1>4, <1>5, SelectedIs
  <2> HIDE DEF t
  <2>3. /\ pane' \in [Panes -> PaneStates] /\ pane'[e.pane] = t
        /\ \A q \in Panes \ {e.pane} : pane'[q] = pane[q]
    BY <1>4, <1>5, <2>1, <2>2
  <2> QED BY <1>2, <1>4, <2>1, <2>2, <2>3 DEF Shown, e
<1>8. CASE TagFilterApplied(e)
  <2> DEFINE t == Filtered(s, e)
  <2>1. pane' = [pane EXCEPT ![e.pane] = t] /\ e.kind = "tag" /\ highlight' = highlight
    BY <1>8 DEF TagFilterApplied
  <2>2. /\ t \in PaneStates /\ t.recent = s.recent /\ t.path = s.path
        /\ t.listing = s.listing /\ t.pending = s.pending
        /\ t.tag = IF s.path = e.path THEN (IF e.on THEN e.path ELSE Nothing) ELSE s.tag
    BY <1>4, <1>5, <2>1, FilteredIs
  <2> HIDE DEF t
  <2>3. /\ pane' \in [Panes -> PaneStates] /\ pane'[e.pane] = t
        /\ \A q \in Panes \ {e.pane} : pane'[q] = pane[q]
    BY <1>4, <1>5, <2>1, <2>2
  <2> QED BY <1>2, <1>4, <2>1, <2>2, <2>3 DEF Shown, e
<1> QED BY <1>3, <1>6, <1>7, <1>8

(* Panes list what they say, or will: the parts about listings. *)
LEMMA HandleKeepsPanes ==
    ASSUME NavInv, HandleEvent
    PROVE  NavTypes' /\ SameUser /\ ListsFit' /\ TagsFit' /\ RecentFits' /\ RevealsFit'
<1> DEFINE e == Head(events)
           p == e.pane
           f == e.path
<1>1. NavTypes /\ ListsFit /\ TagsFit /\ RecentFits /\ RevealsFit BY DEF NavInv
<1>2. UNCHANGED <<active, commands, loads, recentGen, asked, user>> /\ SameUser
  BY <1>1, NobodyAsks DEF HandleEvent
<1>3. e \in Visits \cup Filters /\ p \in Panes /\ Shown(e) BY HandleShows
<1>4. /\ Arrives(e) /\ events # << >> /\ events' = Tail(events) /\ events' \in Seq(Visits \cup Filters)
      /\ \A k \in 1..Len(events') : k + 1 \in 1..Len(events) /\ events'[k] = events[k + 1]
      /\ \A x \in Way : x \in Way' \/ x = e
  BY <1>1, HandleMoves
<1>5. /\ Later(events, 1) = Rng(events') /\ 1 \in 1..Len(events) /\ events[1] = e
      /\ \A i \in 1..Len(events') : Later(events', i) = Later(events, i + 1)
  <2>1. events \in Seq(Visits \cup Filters) BY <1>1 DEF NavTypes
  <2> QED BY <1>4, <2>1, TailLater, TailNth
<1>6. p \in user.panes /\ f \in Places /\ (e.kind = "tag" => e \in Filters) BY <1>3, VisitParts
<1>7. Way' = Rng(commands) \cup Rng(loads) \cup Rng(events') BY <1>2 DEF Way, Rng
<1>8. \A q, g : Cmd("navigate", q, g).kind = "navigate" /\ Cmd("navigate", q, g).pane = q
                /\ Cmd("navigate", q, g).path = g
  BY DEF Cmd
<1> HIDE DEF e
<1>9. /\ pane' \in [Panes -> PaneStates] /\ \A q \in Panes \ {p} : pane'[q] = pane[q]
      /\ \A q, g : OnTheWay(q, g) => Cmd("navigate", q, g) \in Way'
                      \/ (e.kind = "navigate" /\ q = p /\ g = f)
  BY <1>3, <1>4, <1>8 DEF Shown, OnTheWay
<1>10. Places' = Places /\ OnePane' = OnePane BY <1>2, SameSets
<1>11. NavTypes'
  <2>1. highlight' \in BOOLEAN BY <1>1, <1>3 DEF Shown, NavTypes
  <2>2. /\ active' \in user.panes /\ commands' \in Seq(Visits \cup Filters)
        /\ loads' \in Seq(Visits \cup Filters \cup Lookups) /\ Len(loads') <= user.loads
        /\ \A i \in 1..Len(loads') :
              loads'[i].kind # "reveal" /\ (loads'[i].kind = "tag" => loads'[i].on)
        /\ "reveal" \notin user.does => \A c \in Rng(commands') : c.kind # "reveal"
        /\ recentGen' \in Nat /\ asked' \in [Panes -> Places \cup {Recents}]
    BY <1>1, <1>2 DEF NavTypes
  <2>3. \A i \in 1..Len(events') : Arrives(events'[i]) BY <1>1, <1>4 DEF NavTypes
  <2> HIDE DEF p, f
  <2> QED BY <1>2, <1>4, <1>9, <2>1, <2>2, <2>3, TypesAgain
<1>12. e.kind = "navigate" =>
          /\ ~pane'[p].recent /\ pane'[p].path = f /\ pane'[p].listing = f /\ pane'[p].tag = Nothing
          /\ pane'[p].pending \in {Nothing, pane[p].pending} /\ (pane'[p].pending = f => f \in Missing)
  BY <1>3 DEF Shown
<1>13. e.kind # "navigate" =>
          /\ pane'[p].recent = pane[p].recent /\ pane'[p].path = pane[p].path
          /\ pane'[p].listing = pane[p].listing
          /\ e.kind \in {"reveal", "tag"}
  BY <1>3 DEF Shown
<1>14. /\ e.kind = "reveal" => pane'[p].tag = pane[p].tag /\ pane'[p].pending \in {Nothing, f}
       /\ e.kind = "tag" =>
             /\ pane'[p].pending = pane[p].pending
             /\ pane'[p].tag = IF pane[p].path = f THEN (IF e.on THEN f ELSE Nothing) ELSE pane[p].tag
  BY <1>3 DEF Shown
<1>15. e.kind = "tag" /\ e.on => f \notin Failing BY <1>4 DEF Arrives
<1> HIDE DEF p, f
<1>16. ListsFit'
  <2>1. ASSUME NEW q \in Panes
        PROVE  \/ pane'[q].recent \/ pane'[q].path \in Failing \/ pane'[q].listing = pane'[q].path
               \/ Cmd("navigate", q, pane'[q].path) \in Way'
    <3>1. \/ pane[q].recent \/ pane[q].path \in Failing \/ pane[q].listing = pane[q].path
          \/ OnTheWay(q, pane[q].path)
      BY <1>1 DEF ListsFit
    <3>2. CASE e.kind = "navigate" /\ q = p BY <1>12, <3>2
    <3>3. CASE ~(e.kind = "navigate" /\ q = p) BY <1>9, <1>13, <3>1, <3>3
    <3> QED BY <3>2, <3>3
  <2> QED BY <2>1 DEF ListsFit, OnTheWay
<1>17. TagsFit'
  <2>1. SUFFICES ASSUME "recent" \notin user.does, NEW q \in Panes
                 PROVE  /\ ~pane'[q].recent
                        /\ \/ pane'[q].tag \in {Nothing, pane'[q].listing}
                           \/ \E g \in Places \ Failing : Cmd("navigate", q, g) \in Way'
    BY <1>2, <1>10 DEF TagsFit, OnTheWay
  <2>2. /\ ~pane[q].recent
        /\ pane[q].tag \in {Nothing, pane[q].listing} \/ \E g \in Places \ Failing : OnTheWay(q, g)
    BY <1>1, <2>1 DEF TagsFit
  <2>3. CASE e.kind = "navigate" /\ q = p BY <1>12, <2>3
  <2>4. CASE ~(e.kind = "navigate" /\ q = p)
    <3>1. (\E g \in Places \ Failing : OnTheWay(q, g))
             => \E g \in Places \ Failing : Cmd("navigate", q, g) \in Way'
      BY <1>9, <2>4
    <3>2. ~pane'[q].recent BY <1>9, <1>13, <2>2, <2>4
    <3>3. CASE pane'[q].tag = pane[q].tag BY <1>9, <1>13, <2>2, <2>4, <3>1, <3>2, <3>3
    <3>4. CASE pane'[q].tag # pane[q].tag
      <4>1. q = p /\ e.kind = "tag" /\ pane[p].path = f /\ pane'[p].tag = IF e.on THEN f ELSE Nothing
        BY <1>9, <1>13, <1>14, <2>4, <3>4
      <4>2. CASE e.on
        <5>1. pane[q].path \notin Failing BY <1>15, <4>1, <4>2
        <5>2. pane[q].listing = pane[q].path \/ OnTheWay(q, pane[q].path)
          BY <1>1, <2>2, <5>1 DEF ListsFit
        <5>3. OnTheWay(q, pane[q].path) => \E g \in Places \ Failing : OnTheWay(q, g)
          BY <1>6, <4>1, <5>1
        <5>4. pane'[q].tag = pane[q].path /\ pane'[q].listing = pane[q].listing BY <1>13, <4>1, <4>2
        <5> QED BY <3>1, <3>2, <5>2, <5>3, <5>4
      <4>3. CASE ~e.on BY <3>2, <4>1, <4>3
      <4> QED BY <4>2, <4>3
    <3> QED BY <3>3, <3>4
  <2> QED BY <2>3, <2>4
<1>18. RecentFits'
  <2>1. ASSUME NEW q \in Panes, pane'[q].recent
        PROVE  pane[q].recent /\ pane'[q].listing = pane[q].listing
    BY <1>9, <1>12, <1>13, <2>1
  <2> QED BY <1>1, <1>2, <1>10, <2>1 DEF RecentFits
<1>19. RevealsFit'
  <2>1. ASSUME NEW q \in Panes
        PROVE  \/ pane'[q].pending \in {Nothing} \cup Missing \cup Failing
               \/ Cmd("navigate", q, pane'[q].pending) \in Way'
    <3>1. \/ pane[q].pending \in {Nothing} \cup Missing \cup Failing
          \/ OnTheWay(q, pane[q].pending)
      BY <1>1 DEF RevealsFit
    <3>2. CASE q # p \/ e.kind = "tag"
      <4>1. pane'[q].pending = pane[q].pending BY <1>9, <1>14, <3>2
      <4> QED BY <1>9, <3>1, <3>2, <4>1
    <3>3. CASE q = p /\ e.kind = "navigate" BY <1>9, <1>12, <3>1, <3>3
    <3>4. CASE q = p /\ e.kind = "reveal"
      <4>1. f \in Failing \/ Cmd("navigate", p, f) \in Rng(commands) \cup Rng(loads) \cup Later(events, 1)
        BY <1>1, <1>5, <3>4 DEF RevealsFit, p, f
      <4>2. f \in Failing \/ Cmd("navigate", p, f) \in Way' BY <1>5, <1>7, <4>1
      <4> QED BY <1>14, <3>4, <4>2
    <3> QED BY <1>13, <3>2, <3>3, <3>4
  <2>2. \A i \in 1..Len(events') : events'[i].kind = "reveal" =>
          \/ events'[i].path \in Failing
          \/ Cmd("navigate", events'[i].pane, events'[i].path) \in
                Rng(commands') \cup Rng(loads') \cup Later(events', i)
    BY <1>1, <1>2, <1>4, <1>5 DEF RevealsFit
  <2> QED BY <2>1, <2>2 DEF RevealsFit, Rng, Later, OnTheWay
<1> QED BY <1>2, <1>11, <1>16, <1>17, <1>18, <1>19

(* What was clicked or asked for comes last, or has come. *)
LEMMA HandleKeepsInv ==
    ASSUME NavInv, HandleEvent
    PROVE  NavInv'
<1> DEFINE e == Head(events)
           p == e.pane
           f == e.path
<1>1. NavTypes /\ HighlightFits /\ AskedFits BY DEF NavInv
<1>2. NavTypes' /\ SameUser /\ ListsFit' /\ TagsFit' /\ RecentFits' /\ RevealsFit' BY HandleKeepsPanes
<1>3. e \in Visits \cup Filters /\ p \in Panes /\ Shown(e) /\ e \in Rng(events)
  BY <1>1, HandleShows, HandleMoves
<1>4. UNCHANGED <<active, commands, loads, recentGen, asked, user>> BY DEF HandleEvent
<1>5. /\ \A x \in Way : x \in Way' \/ x = e
      /\ \A B : /\ Clear(commands, loads, events, B) =>
                      e \notin B /\ Clear(commands', loads', events', B)
                /\ \A x : Coming(commands, loads, events, x, B)
                      => \/ Coming(commands', loads', events', x, B)
                         \/ x = e /\ Clear(commands', loads', events', B)
  BY <1>1, HandleMoves
<1>6. f \in Places /\ (e.kind = "tag" => e \in Filters) /\ (e.kind # "tag" => e \in Visits) /\ Nothing \notin Places
  BY <1>1, <1>3, VisitParts, PlacesAre
<1> HIDE DEF e
<1>7. /\ \A q \in Panes \ {p} : pane'[q] = pane[q]
      /\ e.kind = "navigate" => ~pane'[p].recent /\ pane'[p].path = f /\ ~highlight'
      /\ e.kind # "navigate" =>
            /\ pane'[p].recent = pane[p].recent /\ pane'[p].path = pane[p].path
            /\ highlight' = highlight
  BY <1>3 DEF Shown
<1>8. /\ e.kind = "reveal" => pane'[p].tag = pane[p].tag
      /\ e.kind = "tag" =>
            pane'[p].tag = IF pane[p].path = f THEN (IF e.on THEN f ELSE Nothing) ELSE pane[p].tag
      /\ e.kind \in {"navigate", "reveal", "tag"}
  BY <1>3 DEF Shown
<1>9. /\ Places' = Places /\ OnePane' = OnePane /\ Offs' = Offs /\ \A q : Navs(q)' = Navs(q)
  BY <1>2, SameSets
<1>10. HighlightFits'
  <2>1. CASE e.kind = "navigate" BY <1>7, <2>1 DEF HighlightFits
  <2>2. CASE e.kind # "navigate"
    <3>1. active \in Panes BY <1>1, PlacesAre DEF NavTypes
    <3>2. On' = On
      <4>1. pane'[active].path = pane[active].path BY <1>7, <2>2, <3>1
      <4> QED BY <1>4, <4>1 DEF On
    <3>3. SUFFICES ASSUME highlight, user.visits \cap Failing = {}, OnePane
                   PROVE  \/ \E g \in Places : OnTheWay(active, g)'
                          \/ pane'[active].tag # Nothing /\ Clear(commands', loads', events', Offs)
                          \/ Coming(commands', loads', events', On, Offs)
      BY <1>4, <1>7, <1>9, <2>2, <3>2 DEF HighlightFits
    <3>4. CASE \E g \in Places : OnTheWay(active, g)
      <4>1. PICK g \in Places : OnTheWay(active, g) BY <3>4
      <4>2. Cmd("navigate", active, g) \in Way' \/ Cmd("navigate", active, g) = e
        BY <1>5, <4>1 DEF OnTheWay
      <4>3. Cmd("navigate", active, g).kind = "navigate" BY DEF Cmd
      <4>4. OnTheWay(active, g)' BY <1>4, <2>2, <4>2, <4>3 DEF OnTheWay
      <4> QED BY <4>4
    <3>5. CASE pane[active].tag # Nothing /\ Clear(commands, loads, events, Offs)
      <4>1. e \notin Offs /\ Clear(commands', loads', events', Offs) BY <1>5, <3>5
      <4>2. e.kind = "tag" => e.on BY <1>6, <4>1 DEF Offs, IsOff
      <4>3. pane'[active].tag # Nothing
        <5>1. CASE active = p BY <1>6, <1>8, <2>2, <3>5, <4>2, <5>1
        <5>2. CASE active # p BY <1>7, <3>1, <3>5, <5>2
        <5> QED BY <5>1, <5>2
      <4> QED BY <4>1, <4>3
    <3>6. CASE Coming(commands, loads, events, On, Offs)
      <4>1. CASE Coming(commands', loads', events', On, Offs) BY <4>1
      <4>2. CASE On = e /\ Clear(commands', loads', events', Offs)
        <5>1. e.kind = "tag" /\ e.on /\ p = active /\ f = pane[active].path BY <4>2 DEF On
        <5>2. pane'[active].tag = f BY <1>8, <5>1
        <5> QED BY <1>6, <4>2, <5>2
      <4> QED BY <1>5, <3>6, <4>1, <4>2
    <3>7. \/ \E g \in Places : OnTheWay(active, g)
          \/ pane[active].tag # Nothing /\ Clear(commands, loads, events, Offs)
          \/ Coming(commands, loads, events, On, Offs)
      BY <1>1, <3>3 DEF HighlightFits
    <3> QED BY <3>4, <3>5, <3>6, <3>7
  <2> QED BY <2>1, <2>2
<1>11. AskedFits'
  <2>1. SUFFICES ASSUME user.loads = 1 /\ user.does \cap {"reload", "reveal"} = {}, NEW q \in Panes
                 PROVE  \/ asked[q] \in Failing \cup {Recents}
                        \/ ~pane'[q].recent /\ pane'[q].path = asked[q]
                              /\ Clear(commands', loads', events', Navs(q))
                        \/ Coming(commands', loads', events', Cmd("navigate", q, asked[q]), Navs(q))
    BY <1>4, <1>9 DEF AskedFits
  <2> DEFINE x == Cmd("navigate", q, asked[q])
  <2>2. x.kind = "navigate" /\ x.pane = q /\ x.path = asked[q] BY DEF Cmd
  <2>3. \/ asked[q] \in Failing \cup {Recents}
        \/ ~pane[q].recent /\ pane[q].path = asked[q] /\ Clear(commands, loads, events, Navs(q))
        \/ Coming(commands, loads, events, x, Navs(q))
    BY <1>1, <2>1 DEF AskedFits
  <2>4. e.kind = "navigate" /\ p = q => e \in Navs(q) BY <1>6 DEF Navs
  <2> HIDE DEF x
  <2>5. CASE e.kind = "navigate" /\ p = q
    <3>1. ~Clear(commands, loads, events, Navs(q)) BY <1>5, <2>4, <2>5
    <3>2. CASE Coming(commands, loads, events, x, Navs(q))
      <4>1. \/ Coming(commands', loads', events', x, Navs(q))
            \/ x = e /\ Clear(commands', loads', events', Navs(q))
        BY <1>5, <3>2
      <4>2. x = e => ~pane'[q].recent /\ pane'[q].path = asked[q] BY <1>7, <2>2, <2>5
      <4> QED BY <4>1, <4>2 DEF x
    <3> QED BY <2>3, <3>1, <3>2
  <2>6. CASE ~(e.kind = "navigate" /\ p = q)
    <3>1. pane'[q].recent = pane[q].recent /\ pane'[q].path = pane[q].path BY <1>7, <2>6
    <3>2. x # e BY <2>2, <2>6
    <3>3. /\ Clear(commands, loads, events, Navs(q)) => Clear(commands', loads', events', Navs(q))
          /\ Coming(commands, loads, events, x, Navs(q)) => Coming(commands', loads', events', x, Navs(q))
      BY <1>5, <3>2
    <3> QED BY <2>3, <3>1, <3>3 DEF x
  <2> QED BY <2>5, <2>6
<1> QED BY <1>2, <1>10, <1>11 DEF NavInv

-------------------------------------------------------------------------------
(* Every state fits. *)

(* At the start nothing is under way. *)
LEMMA NavStarts == Init => NavInv
<1> SUFFICES ASSUME Init PROVE NavInv OBVIOUS
<1>1. /\ user \in Users /\ active \in user.panes /\ commands = << >> /\ loads = << >> /\ events = << >>
      /\ recentGen = 0 /\ highlight = FALSE /\ asked = [p \in Panes |-> Home]
      /\ pane = [p \in Panes |-> [path |-> Home, back |-> << >>, forward |-> << >>, recent |-> FALSE,
                                  listing |-> Home, tag |-> Nothing, pending |-> Nothing]]
  BY DEF Init
<1>2. user \in AllUsers /\ Home \in Places BY <1>1, NavigationAssumption DEF AllUsers, Places
<1>3. \A S : << >> \in Seq(S) /\ Len(<< >>) = 0 BY EmptySeq
<1>4. [path |-> Home, back |-> << >>, forward |-> << >>, recent |-> FALSE,
       listing |-> Home, tag |-> Nothing, pending |-> Nothing] \in PaneStates
  BY <1>2 DEF PaneStates
<1>5. /\ pane \in [Panes -> PaneStates]
      /\ \A p \in Panes : pane[p].path = Home /\ pane[p].recent = FALSE /\ pane[p].listing = Home
                          /\ pane[p].tag = Nothing /\ pane[p].pending = Nothing
  BY <1>1, <1>4
<1>6. Rng(commands) = {} /\ Rng(loads) = {} /\ Rng(events) = {} BY <1>1 DEF Rng
<1>7. NavTypes
  <2>1. user.loads \in Nat BY <1>2 DEF AllUsers
  <2>2. asked \in [Panes -> Places \cup {Recents}] BY <1>1, <1>2
  <2>3. /\ commands \in Seq(Visits \cup Filters) /\ events \in Seq(Visits \cup Filters)
        /\ loads \in Seq(Visits \cup Filters \cup Lookups) /\ Len(loads) = 0 /\ Len(events) = 0
    BY <1>1, <1>3
  <2>4. recentGen \in Nat /\ highlight \in BOOLEAN /\ active \in user.panes BY <1>1
  <2> QED BY <1>2, <1>5, <1>6, <2>1, <2>2, <2>3, <2>4 DEF NavTypes
<1>8. ListsFit /\ TagsFit /\ RecentFits BY <1>5 DEF ListsFit, TagsFit, RecentFits
<1>9. HighlightFits BY <1>1 DEF HighlightFits
<1>10. RevealsFit BY <1>1, <1>5 DEF RevealsFit
<1>11. AskedFits BY <1>1, <1>5, <1>6 DEF AskedFits, Clear
<1> QED BY <1>7, <1>8, <1>9, <1>10, <1>11 DEF NavInv

(* Each step keeps the invariant. *)
LEMMA NavSteps == NavInv /\ [Next]_navVars => NavInv'
<1> SUFFICES ASSUME NavInv, [Next]_navVars PROVE NavInv' OBVIOUS
<1>1. CASE \E p \in Panes : User(p)
  <2>1. PICK p \in Panes : User(p) BY <1>1
  <2>2. CASE \E f \in Places : Goes(p, f) BY <2>2, GoesKeeps
  <2>3. CASE Looks(p) BY <2>3, LooksKeeps
  <2>4. CASE OpenFolder(p) \/ GoTo(p) \/ OpenContainingFolder(p) BY <2>2, <2>4, OpenGoes
  <2>5. CASE GoBack(p) \/ GoForward(p) \/ UpFromRecent(p) BY <2>2, <2>5, HistoryGoes
  <2>6. CASE Reload(p) BY <2>2, <2>3, <2>6, ReloadGoes, RecentLooks
  <2>7. CASE ShowRecent(p) BY <2>3, <2>7, RecentLooks
  <2>8. CASE Reveal(p) BY <2>8, RevealKeeps
  <2>9. CASE ClickTag(p) BY <2>9, ClickKeeps
  <2>10. CASE SwitchPane(p) \/ PressDelete(p) BY <2>10, StaysKeeps
  <2> QED BY <2>1, <2>4, <2>5, <2>6, <2>7, <2>8, <2>9, <2>10 DEF User
<1>2. CASE Receive BY <1>2, ReceiveKeepsInv
<1>3. CASE HandleEvent BY <1>3, HandleKeepsInv
<1>4. CASE \E i \in DOMAIN loads : Finish(i) \/ FinishRecent(i)
  BY <1>4, FinishKeepsInv, FinishRecentKeepsInv
<1>5. CASE UNCHANGED navVars
  <2>1. UNCHANGED <<pane, active, commands, loads, events, recentGen, highlight, asked, user>>
    BY <1>5 DEF navVars
  <2> QED BY <2>1 DEF NavInv, NavTypes, ListsFit, TagsFit, HighlightFits, RecentFits, RevealsFit,
      AskedFits, Places, PaneStates, Visits, Filters, Lookups, Way, OnTheWay, Offs, Navs, On, OnePane
<1> QED BY <1>1, <1>2, <1>3, <1>4, <1>5 DEF Next

(* The invariant always holds. *)
LEMMA NavAlways == Spec => []NavInv
BY NavStarts, NavSteps, PTL DEF Spec

(* What has settled is what the invariant says, with nothing on the way. *)
LEMMA NavSettled ==
    ASSUME NavInv
    PROVE  PanesListWhatTheySay /\ RequestsAreMet
<1>1. NavTypes /\ ListsFit /\ TagsFit /\ HighlightFits /\ RecentFits /\ RevealsFit /\ AskedFits
  BY DEF NavInv
<1>2. Settled => Rng(commands) = {} /\ Rng(loads) = {} /\ Rng(events) = {} BY DEF Settled, Rng
<1>3. Settled => \A q, g : ~OnTheWay(q, g) BY <1>2 DEF OnTheWay, Way
<1>4. Settled => \A x, B : ~Coming(commands, loads, events, x, B)
  <2>1. \A s, x, B : Free(s, x, B) => x \in Rng(s) BY DEF Free, Rng
  <2> QED BY <1>2, <2>1 DEF Coming
<1>5. TypeOK
  <2>1. /\ Places \subseteq Folders /\ user.panes \subseteq Panes BY <1>1, PlacesAre
  <2>2. ASSUME NEW p \in Panes
        PROVE  /\ pane[p].path \in Folders /\ pane[p].listing \in Folders \cup {Nothing, Recents}
               /\ pane[p].tag \in Folders \cup {Nothing} /\ pane[p].pending \in Folders \cup {Nothing}
               /\ pane[p].back \in Seq(Folders) /\ pane[p].forward \in Seq(Folders)
               /\ asked[p] \in Folders \cup {Recents}
    <3>1. pane[p] \in PaneStates /\ asked[p] \in Places \cup {Recents} BY <1>1 DEF NavTypes
    <3>2. /\ pane[p].path \in Places /\ pane[p].back \in Seq(Places) /\ pane[p].forward \in Seq(Places)
          /\ pane[p].listing \in Places \cup {Nothing, Recents}
          /\ pane[p].tag \in Places \cup {Nothing} /\ pane[p].pending \in Places \cup {Nothing}
      BY <3>1, PaneParts
    <3>3. Seq(Places) \subseteq Seq(Folders) BY <2>1, SeqMonotonic
    <3> QED BY <2>1, <3>1, <3>2, <3>3
  <2>3. active \in Panes /\ Len(loads) <= user.loads BY <1>1, <2>1 DEF NavTypes
  <2> QED BY <2>2, <2>3 DEF TypeOK
<1>6. SettledListsItsPath BY <1>1, <1>3 DEF SettledListsItsPath, ListsFit
<1>7. RecentFillsIn BY <1>1, <1>2 DEF RecentFillsIn, RecentFits, Settled
<1>8. SettledTagIsOfListing BY <1>1, <1>3 DEF SettledTagIsOfListing, TagsFit
<1>9. HighlightedTagIsApplied BY <1>1, <1>3, <1>4 DEF HighlightedTagIsApplied, HighlightFits
<1>10. AskedIsShown BY <1>1, <1>4 DEF AskedIsShown, AskedFits
<1>11. RevealsAreApplied BY <1>1, <1>3 DEF RevealsAreApplied, RevealsFit
<1> QED BY <1>5, <1>6, <1>7, <1>8, <1>9, <1>10, <1>11 DEF PanesListWhatTheySay, RequestsAreMet

(* What a pane takes itself to list is what it lists, and a tag that is shown is applied, for
   any panes, folders and users. *)
THEOREM PanesAlwaysListWhatTheySay == Spec => []PanesListWhatTheySay
BY NavAlways, NavSettled, PTL

(* What the user, or another program, asked to see is seen at last. *)
THEOREM RequestsAreAlwaysMet == Spec => []RequestsAreMet
BY NavAlways, NavSettled, PTL

-------------------------------------------------------------------------------
(* Thumbnails: the rows, the threads that draw for them, and the cache. *)

JobStates == {"asked", "queued", "sleeping", "made", "nothing", "over"} \cup Holding

OrNone    == Pictures \cup {NoPicture}
Keys      == Pictures \X Nat
Jobs      == [row : Rows, file : Pictures, target : Keys, at : JobStates, seek : {0, 1}]
PngFiles  == [content : Nat, whole : BOOLEAN]
Images    == [of : OrNone, content : Nat, whole : BOOLEAN]
RowStates == [bound : OrNone, wants : OrNone, shows : Images]

ThumbTypes ==
    /\ version \in [Pictures -> Nat]
    /\ row \in [Rows -> RowStates]
    /\ making \in Seq(Jobs)
    /\ places \subseteq Threads /\ DOMAIN temp \subseteq Threads
    /\ temp \in [DOMAIN temp -> PngFiles]
    /\ DOMAIN thumbCache \subseteq Keys /\ thumbCache \in [DOMAIN thumbCache -> PngFiles]

(* A row wants the file it is bound to, if any, and shows none but it. *)
RowFits(r) ==
    /\ row[r].wants \in {NoPicture, row[r].bound}
    /\ row[r].bound # NoPicture /\ row[r].shows # Icon =>
          row[r].shows.of = row[r].bound /\ row[r].shows.whole

CacheFits == \A k \in DOMAIN thumbCache : thumbCache[k].whole /\ thumbCache[k].content >= k[2]

IsDocument(n) == PictureKind[making[n].file] = "document"

(* The key a thread has taken is of its file and of no later version; what it or its thread has
   written aside is no older than that, and whole by the time it is renamed; a document's
   always is. *)
JobFits(n) ==
    /\ making[n].target[1] = making[n].file /\ making[n].target[2] <= version[making[n].file]
    /\ making[n].at = "made" => making[n].target \in DOMAIN thumbCache
    /\ n \in places \cup DOMAIN temp => making[n].at # "asked"
    /\ n \in places \/ making[n].at \in {"placing", "rendering"} => IsDocument(n)
    /\ making[n].at \in {"drawing", "writing"} => ~IsDocument(n)
    /\ n \in DOMAIN temp => temp[n].content >= making[n].target[2]
    /\ n \in DOMAIN temp /\ (making[n].at = "drawn" \/ IsDocument(n)) => temp[n].whole

(* Permits are counted by the threads that have one. *)
PermitsFit ==
    /\ used = Cardinality(Holders) /\ used <= MaxConcurrent
    /\ Cardinality(places) <= MaxWorkers

ThumbInv ==
    /\ ThumbTypes /\ (\A r \in Rows : RowFits(r)) /\ (\A n \in Threads : JobFits(n))
    /\ CacheFits /\ PermitsFit

(* Thread n comes to where it is said to be, and maybe another wakes up. *)
Moves(n, at) ==
    /\ making' \in Seq(Jobs) /\ Threads' = Threads /\ making'[n].at = at
    /\ \A m \in Threads : /\ making'[m].row = making[m].row /\ making'[m].file = making[m].file
                          /\ making'[m].target = making[m].target
    /\ \A m \in Threads \ {n} :
          making'[m].at = making[m].at \/ (making[m].at = "sleeping" /\ making'[m].at = "queued")

(* The thread's job, field by field. *)
LEMMA JobType == ASSUME ThumbTypes, NEW n \in Threads
                 PROVE  /\ making[n] \in Jobs /\ Threads = 1..Len(making) /\ Len(making) \in Nat
                        /\ making[n].file \in Pictures /\ making[n].row \in Rows /\ making[n].at \in JobStates
                        /\ making[n].target \in Keys
<1>1. making \in Seq(Jobs) BY DEF ThumbTypes
<1>2. Threads = 1..Len(making) /\ Len(making) \in Nat BY <1>1, LenProperties DEF Threads
<1>3. making[n] \in Jobs BY <1>1, <1>2, ElementOfSeq
<1> QED BY <1>2, <1>3 DEF Jobs

(* One field of one job, or of two. *)
LEMMA JobChanged ==
    ASSUME NEW s \in Seq(Jobs), NEW n \in 1..Len(s), NEW at \in JobStates
    PROVE  LET t == [s EXCEPT ![n].at = at]
           IN  /\ t \in Seq(Jobs) /\ Len(t) = Len(s) /\ t[n].at = at
               /\ t[n].row = s[n].row /\ t[n].file = s[n].file /\ t[n].target = s[n].target
               /\ \A m \in 1..Len(s) : m # n => t[m] = s[m]
<1> DEFINE j == [s[n] EXCEPT !.at = at]
          t == [s EXCEPT ![n] = j]
<1>1. s[n] \in Jobs BY ElementOfSeq
<1>2. j \in Jobs /\ j.at = at /\ j.row = s[n].row /\ j.file = s[n].file /\ j.target = s[n].target
    BY <1>1 DEF Jobs
<1> HIDE DEF j
<1>3. /\ t \in Seq(Jobs) /\ Len(t) = Len(s)
      /\ \A m \in 1..Len(s) : t[m] = IF m = n THEN j ELSE s[m]
    BY <1>2, ExceptSeq
<1>4. [s EXCEPT ![n].at = at] = t BY DEF j
<1> HIDE DEF t
<1>5. t[n] = j BY <1>3
<1> QED BY <1>2, <1>3, <1>4, <1>5

(* A step of one thread alone. *)
LEMMA MovesOnMoves ==
    ASSUME ThumbTypes, NEW n \in Threads, NEW at \in JobStates, MovesOn(n, at)
    PROVE  Moves(n, at)
<1>1. making \in Seq(Jobs) /\ Threads = 1..Len(making) BY JobType DEF ThumbTypes
<1> DEFINE t == [making EXCEPT ![n].at = at]
<1>2. /\ t \in Seq(Jobs) /\ Len(t) = Len(making) /\ t[n].at = at
      /\ t[n].row = making[n].row /\ t[n].file = making[n].file /\ t[n].target = making[n].target
      /\ \A m \in 1..Len(making) : m # n => t[m] = making[m]
    BY <1>1, JobChanged
<1>3. making' = t BY DEF MovesOn
<1> HIDE DEF t
<1>4. DOMAIN making' = 1..Len(making) BY <1>2, <1>3, LenProperties
<1>5. Threads' = Threads BY <1>1, <1>4 DEF Threads
<1> QED BY <1>1, <1>2, <1>3, <1>5 DEF Moves

(* One that gives its permit back, and wakes another. *)
LEMMA ReleaseMoves ==
    ASSUME ThumbTypes, NEW n \in Threads, NEW at \in JobStates, making[n].at # "sleeping", Release(n, at)
    PROVE  Moves(n, at) /\ used' = used - 1
<1>1. making \in Seq(Jobs) /\ Threads = 1..Len(making) BY JobType DEF ThumbTypes
<1>2. used' = used - 1 BY DEF Release
<1>3. CASE Sleeping = {} BY <1>2, <1>3, MovesOnMoves DEF Release
<1>4. CASE Sleeping # {}
  <2>1. PICK m \in Sleeping : making' = [making EXCEPT ![n].at = at, ![m].at = "queued"]
      BY <1>4 DEF Release
  <2>2. m \in Threads /\ making[m].at = "sleeping" /\ m # n BY DEF Sleeping
  <2> DEFINE t == [making EXCEPT ![n].at = at]
            u == [t EXCEPT ![m].at = "queued"]
  <2>3. /\ t \in Seq(Jobs) /\ Len(t) = Len(making) /\ t[n].at = at
        /\ t[n].row = making[n].row /\ t[n].file = making[n].file /\ t[n].target = making[n].target
        /\ \A k \in 1..Len(making) : k # n => t[k] = making[k]
      BY <1>1, JobChanged
  <2>4. making' = u BY <2>1
  <2> HIDE DEF t
  <2>5. m \in 1..Len(t) /\ "queued" \in JobStates BY <1>1, <2>2, <2>3 DEF JobStates
  <2>6. /\ u \in Seq(Jobs) /\ Len(u) = Len(t) /\ u[m].at = "queued"
        /\ u[m].row = t[m].row /\ u[m].file = t[m].file /\ u[m].target = t[m].target
        /\ \A k \in 1..Len(t) : k # m => u[k] = t[k]
      BY <2>3, <2>5, JobChanged
  <2> HIDE DEF u
  <2>7. DOMAIN making' = 1..Len(making) BY <2>3, <2>4, <2>6, LenProperties
  <2>8. Threads' = Threads BY <1>1, <2>7 DEF Threads
  <2>9. u[n] = t[n] /\ t[m] = making[m] BY <1>1, <2>2, <2>3, <2>6
  <2>10. \A k \in 1..Len(making) : k # n /\ k # m => u[k] = making[k] BY <2>3, <2>6
  <2> QED BY <1>1, <1>2, <2>2, <2>3, <2>4, <2>6, <2>8, <2>9, <2>10 DEF Moves
<1> QED BY <1>3, <1>4

(* Who has a permit after it. *)
LEMMA HoldersMove ==
    ASSUME ThumbTypes, NEW n \in Threads, NEW at, Moves(n, at)
    PROVE  /\ IsFiniteSet(Holders) /\ Cardinality(Holders) \in Nat
           /\ at \in Holding => Holders' = Holders \cup {n}
           /\ at \notin Holding => Holders' = Holders \ {n}
<1>1. IsFiniteSet(Holders) /\ Cardinality(Holders) \in Nat
  <2>1. Threads = 1..Len(making) /\ Len(making) \in Nat BY JobType
  <2>2. IsFiniteSet(Threads) BY <2>1, FS_Interval
  <2>3. Holders \in SUBSET Threads BY DEF Holders
  <2> QED BY <2>2, <2>3, FS_Subset, FS_CardinalityType
<1>2. \A m \in Threads : m \in Holders <=> making[m].at \in Holding BY DEF Holders
<1>3. \A m \in Threads : m \in Holders' <=> making'[m].at \in Holding BY DEF Holders, Moves
<1>4. Holders \subseteq Threads /\ Holders' \subseteq Threads BY DEF Holders, Moves
<1>5. \A m \in Threads \ {n} : making'[m].at \in Holding <=> making[m].at \in Holding
    BY DEF Moves, Holding
<1>6. making'[n].at = at BY DEF Moves
<1> QED BY <1>1, <1>2, <1>3, <1>4, <1>5, <1>6

(* Jobs a step leaves alone, or wakes up. *)
LEMMA JobStays ==
    ASSUME ThumbTypes, NEW m \in Threads, JobFits(m), m \in Threads',
           making'[m].file = making[m].file, making'[m].target = making[m].target,
           making'[m].at = making[m].at \/ (making[m].at = "sleeping" /\ making'[m].at = "queued"),
           version'[making[m].file] \in Nat, version'[making[m].file] >= version[making[m].file],
           DOMAIN thumbCache \subseteq DOMAIN thumbCache',
           m \in places' => m \in places,
           m \in DOMAIN temp' => m \in DOMAIN temp /\ temp'[m] = temp[m]
    PROVE  JobFits(m)'
<1>1. making[m].target \in Keys /\ making[m].file \in Pictures BY JobType
<1>2. making[m].target[2] \in Nat /\ version[making[m].file] \in Nat BY <1>1 DEF Keys, ThumbTypes
<1>3. making'[m].target[2] <= version'[making'[m].file] /\ making'[m].target[1] = making'[m].file
    BY <1>2 DEF JobFits
<1>4. IsDocument(m)' = IsDocument(m) BY DEF IsDocument
<1> QED BY <1>3, <1>4 DEF JobFits

(* The permits in use after a step of thread n. *)
LEMMA PermitsCount ==
    ASSUME ThumbInv, NEW n \in Threads, NEW at, Moves(n, at),
           \/ (making[n].at \in Holding <=> at \in Holding) /\ used' = used
           \/ making[n].at \in Holding /\ at \notin Holding /\ used' = used - 1
           \/ making[n].at \notin Holding /\ at \in Holding /\ used' = used + 1 /\ used < MaxConcurrent
    PROVE  used' = Cardinality(Holders') /\ used' <= MaxConcurrent
<1>1. IsFiniteSet(Holders) /\ Cardinality(Holders) \in Nat BY HoldersMove DEF ThumbInv
<1>2. used = Cardinality(Holders) /\ used <= MaxConcurrent /\ MaxConcurrent \in Nat
    BY ThumbnailsAssumption DEF ThumbInv, PermitsFit
<1>3. n \in Holders <=> making[n].at \in Holding BY DEF Holders
<1>4. /\ at \in Holding => Holders' = Holders \cup {n}
      /\ at \notin Holding => Holders' = Holders \ {n} BY HoldersMove DEF ThumbInv
<1>5. /\ Cardinality(Holders \cup {n}) = IF n \in Holders THEN Cardinality(Holders) ELSE Cardinality(Holders) + 1
      /\ Cardinality(Holders \ {n}) = IF n \in Holders THEN Cardinality(Holders) - 1 ELSE Cardinality(Holders)
    BY <1>1, FS_AddElement, FS_RemoveElement
<1>6. CASE (making[n].at \in Holding <=> at \in Holding) /\ used' = used
  <2>1. Holders' = Holders BY <1>3, <1>4, <1>6 DEF Holders
  <2> QED BY <1>2, <1>6, <2>1
<1>7. CASE making[n].at \in Holding /\ at \notin Holding /\ used' = used - 1
  <2>1. Cardinality(Holders') = Cardinality(Holders) - 1 BY <1>3, <1>4, <1>5, <1>7
  <2> QED BY <1>1, <1>2, <1>7, <2>1
<1>8. CASE making[n].at \notin Holding /\ at \in Holding /\ used' = used + 1 /\ used < MaxConcurrent
  <2>1. Cardinality(Holders') = Cardinality(Holders) + 1 BY <1>3, <1>4, <1>5, <1>8
  <2> QED BY <1>1, <1>2, <1>8, <2>1
<1> QED BY <1>6, <1>7, <1>8

(* What a step of thread n that leaves the rows and versions alone must show. *)
LEMMA JobStep ==
    ASSUME ThumbInv, NEW n \in Threads, NEW at, Moves(n, at), UNCHANGED <<version, row>>,
           JobFits(n)', places' \subseteq Threads, DOMAIN temp' \subseteq Threads,
           temp' \in [DOMAIN temp' -> PngFiles],
           \A m \in Threads \ {n} : /\ m \in places' => m \in places
                                    /\ m \in DOMAIN temp' => m \in DOMAIN temp /\ temp'[m] = temp[m],
           DOMAIN thumbCache' \subseteq Keys, thumbCache' \in [DOMAIN thumbCache' -> PngFiles],
           DOMAIN thumbCache \subseteq DOMAIN thumbCache', CacheFits', PermitsFit'
    PROVE  ThumbInv'
<1>1. ThumbTypes /\ Threads' = Threads /\ making' \in Seq(Jobs) BY DEF ThumbInv, Moves
<1>2. ThumbTypes' BY <1>1 DEF ThumbTypes
<1>3. \A r \in Rows : RowFits(r)' BY DEF ThumbInv, RowFits
<1>4. ASSUME NEW m \in Threads PROVE JobFits(m)'
  <2>1. CASE m = n BY <2>1
  <2>2. CASE m # n
    <3>1. JobFits(m) BY DEF ThumbInv
    <3>2. making'[m].file = making[m].file /\ making'[m].target = making[m].target BY DEF Moves
    <3>3. making'[m].at = making[m].at \/ (making[m].at = "sleeping" /\ making'[m].at = "queued")
        BY <2>2 DEF Moves
    <3>4. version'[making[m].file] \in Nat /\ version'[making[m].file] >= version[making[m].file]
      <4>1. making[m].file \in Pictures BY <1>1, JobType
      <4>2. version[making[m].file] \in Nat BY <1>1, <4>1 DEF ThumbTypes
      <4> QED BY <4>2
    <3>5. (m \in places' => m \in places)
          /\ (m \in DOMAIN temp' => m \in DOMAIN temp /\ temp'[m] = temp[m]) BY <2>2
    <3> QED BY <1>1, <3>1, <3>2, <3>3, <3>4, <3>5, JobStays
  <2> QED BY <2>1, <2>2
<1> QED BY <1>1, <1>2, <1>3, <1>4 DEF ThumbInv

(* No row is bound, no thread is at work. *)
LEMMA InitOfThumbs == ThumbInit => ThumbInv
<1> SUFFICES ASSUME ThumbInit PROVE ThumbInv OBVIOUS
<1>1. version = [f \in Pictures |-> 1] /\ making = << >> /\ used = 0 /\ places = {} /\ thumbCache = << >>
      /\ temp = << >> /\ row = [r \in Rows |-> [bound |-> NoPicture, wants |-> NoPicture, shows |-> Icon]]
    BY DEF ThumbInit
<1>2. Threads = {} BY <1>1 DEF Threads
<1>3. ThumbTypes
  <2>1. Icon \in Images BY DEF Icon, Images, OrNone
  <2>2. row \in [Rows -> RowStates] BY <1>1, <2>1 DEF RowStates, OrNone
  <2>3. making \in Seq(Jobs) BY <1>1, EmptySeq
  <2>4. DOMAIN temp = {} /\ DOMAIN thumbCache = {} BY <1>1
  <2>5. temp \in [DOMAIN temp -> PngFiles] /\ thumbCache \in [DOMAIN thumbCache -> PngFiles]
      BY <1>1, <2>4
  <2> QED BY <1>1, <2>2, <2>3, <2>4, <2>5 DEF ThumbTypes
<1>4. \A r \in Rows : RowFits(r) BY <1>1 DEF RowFits
<1>5. CacheFits BY <1>1 DEF CacheFits
<1>6. PermitsFit
  <2>1. Holders = {} BY <1>2 DEF Holders
  <2> QED BY <1>1, <2>1, FS_EmptySet, ThumbnailsAssumption DEF PermitsFit
<1> QED BY <1>2, <1>3, <1>4, <1>5, <1>6 DEF ThumbInv

(* Target preserves the invariant: the key is of the file as it is. *)
LEMMA TargetStep == ASSUME ThumbInv, NEW n \in Threads, Target(n) PROVE ThumbInv'
<1> DEFINE key == CachedPath(making[n].file)
          at == IF InCache(key) THEN "made" ELSE "queued"
<1>1. /\ making[n].at = "asked" /\ making' = [making EXCEPT ![n].target = key, ![n].at = at]
      /\ UNCHANGED <<version, row, used, places, thumbCache, temp>>
    BY DEF Target
<1>2. /\ making \in Seq(Jobs) /\ Threads = 1..Len(making) /\ making[n] \in Jobs /\ ThumbTypes
      /\ making[n].file \in Pictures
    BY JobType DEF ThumbInv, ThumbTypes
<1>3. version[making[n].file] \in Nat BY <1>2 DEF ThumbTypes
<1>4. key \in Keys /\ at \in JobStates /\ key[1] = making[n].file /\ key[2] = version[making[n].file]
    BY <1>2, <1>3 DEF Keys, CachedPath, JobStates
<1>5. at \notin Holding /\ at # "asked" /\ at \notin {"placing", "rendering", "drawing", "writing", "drawn"}
      /\ (at = "made" => key \in DOMAIN thumbCache)
    BY DEF Holding, InCache
<1> DEFINE j == [making[n] EXCEPT !.target = key, !.at = at]
<1> HIDE DEF key, at
<1>6. j \in Jobs BY <1>2, <1>4 DEF Jobs
<1>7. j.at = at /\ j.target = key /\ j.row = making[n].row /\ j.file = making[n].file BY <1>2 DEF Jobs
<1>8. making' = [making EXCEPT ![n] = j] BY <1>1, <1>2 DEF Jobs
<1> HIDE DEF j
<1>9. /\ making' \in Seq(Jobs) /\ Len(making') = Len(making)
      /\ \A m \in 1..Len(making) : making'[m] = IF m = n THEN j ELSE making[m]
    BY <1>2, <1>6, <1>8, ExceptSeq
<1>10. Threads' = Threads BY <1>2, <1>9, LenProperties DEF Threads
<1>11. making'[n] = j /\ \A m \in Threads \ {n} : making'[m] = making[m] BY <1>2, <1>9
<1>12. ThumbTypes' BY <1>1, <1>9, <1>10 DEF ThumbInv, ThumbTypes
<1>13. \A r \in Rows : RowFits(r)' BY <1>1 DEF ThumbInv, RowFits
<1>14. ASSUME NEW m \in Threads PROVE JobFits(m)'
  <2>1. JobFits(m) BY DEF ThumbInv
  <2>2. CASE m = n
    <3>1. n \notin places \cup DOMAIN temp BY <1>1, <2>1, <2>2 DEF JobFits
    <3>2. key[2] <= version[making[n].file] BY <1>3, <1>4
    <3> QED BY <1>1, <1>4, <1>5, <1>7, <1>11, <2>2, <3>1, <3>2 DEF JobFits
  <2>3. CASE m # n
    <3>1. making'[m] = making[m] BY <1>11, <2>3
    <3> QED BY <1>1, <2>1, <3>1 DEF JobFits, IsDocument
  <2> QED BY <2>2, <2>3
<1>15. Holders' = Holders
  <2>1. making[n].at \notin Holding BY <1>1 DEF Holding
  <2>2. \A m \in Threads : making'[m].at \in Holding <=> making[m].at \in Holding
      BY <1>5, <1>7, <1>11, <2>1
  <2> QED BY <1>10, <2>2 DEF Holders
<1>16. PermitsFit' BY <1>1, <1>15 DEF ThumbInv, PermitsFit
<1>17. CacheFits' BY <1>1 DEF ThumbInv, CacheFits
<1> QED BY <1>10, <1>12, <1>13, <1>14, <1>16, <1>17 DEF ThumbInv

(* A step of a thread that moves on, and leaves files alone. *)
LEMMA PlainStep ==
    ASSUME ThumbInv, NEW n \in Threads, NEW at \in JobStates, Moves(n, at),
           UNCHANGED <<version, row, places, thumbCache, temp>>,
           making[n].at # "asked", at # "asked",
           at = "made" => making[n].target \in DOMAIN thumbCache,
           at \in {"placing", "rendering"} => IsDocument(n),
           at \in {"drawing", "writing"} => ~IsDocument(n),
           n \in DOMAIN temp /\ at = "drawn" => temp[n].whole,
           \/ (making[n].at \in Holding <=> at \in Holding) /\ used' = used
           \/ making[n].at \in Holding /\ at \notin Holding /\ used' = used - 1
           \/ making[n].at \notin Holding /\ at \in Holding /\ used' = used + 1 /\ used < MaxConcurrent
    PROVE  ThumbInv'
<1>1. JobFits(n) /\ ThumbTypes BY DEF ThumbInv
<1>2. /\ making'[n].at = at /\ making'[n].file = making[n].file /\ making'[n].target = making[n].target
      /\ Threads' = Threads
    BY DEF Moves
<1>3. JobFits(n)' BY <1>1, <1>2 DEF JobFits, IsDocument
<1>4. used' = Cardinality(Holders') /\ used' <= MaxConcurrent BY PermitsCount
<1>5. PermitsFit' BY <1>4 DEF ThumbInv, PermitsFit
<1>6. CacheFits' BY DEF ThumbInv, CacheFits
<1>7. /\ places' \subseteq Threads /\ DOMAIN temp' \subseteq Threads /\ temp' \in [DOMAIN temp' -> PngFiles]
      /\ DOMAIN thumbCache' \subseteq Keys /\ thumbCache' \in [DOMAIN thumbCache' -> PngFiles]
    BY <1>1 DEF ThumbTypes
<1> QED BY <1>3, <1>5, <1>6, <1>7, JobStep

(* Acquire preserves it: a permit is taken if there is one. *)
LEMMA AcquireStep == ASSUME ThumbInv, NEW n \in Threads, Acquire(n) PROVE ThumbInv'
<1>1. making[n].at = "queued" /\ UNCHANGED <<version, row, places, thumbCache, temp>> /\ ThumbTypes
    BY DEF Acquire, ThumbInv
<1>2. CASE used < MaxConcurrent
  <2>1. used' = used + 1 /\ MovesOn(n, "permitted") BY <1>2 DEF Acquire
  <2>2. "permitted" \in JobStates BY DEF JobStates, Holding
  <2>3. Moves(n, "permitted") BY <1>1, <2>1, <2>2, MovesOnMoves
  <2>4. making[n].at \notin Holding /\ "permitted" \in Holding BY <1>1 DEF Holding
  <2> QED BY <1>1, <1>2, <2>1, <2>2, <2>3, <2>4, PlainStep
<1>3. CASE ~(used < MaxConcurrent)
  <2>1. UNCHANGED used /\ MovesOn(n, "sleeping") BY <1>3 DEF Acquire
  <2>2. "sleeping" \in JobStates BY DEF JobStates
  <2>3. Moves(n, "sleeping") BY <1>1, <2>1, <2>2, MovesOnMoves
  <2>4. making[n].at \notin Holding /\ "sleeping" \notin Holding BY <1>1 DEF Holding
  <2> QED BY <1>1, <2>1, <2>2, <2>3, <2>4, PlainStep
<1> QED BY <1>2, <1>3

(* Recheck preserves it: what is made meanwhile is made. *)
LEMMA RecheckStep == ASSUME ThumbInv, NEW n \in Threads, Recheck(n) PROVE ThumbInv'
<1>1. making[n].at = "permitted" /\ UNCHANGED <<version, row, places, thumbCache, temp>> /\ ThumbTypes
    BY DEF Recheck, ThumbInv
<1>2. making[n].at \in Holding /\ making[n].at \notin {"asked", "sleeping"} BY <1>1 DEF Holding
<1>3. ASSUME NEW at \in {"nothing", "made"}, Release(n, at), at = "made" => InCache(making[n].target)
      PROVE  ThumbInv'
  <2>1. at \in JobStates /\ at \notin Holding BY <1>3 DEF JobStates, Holding
  <2>2. Moves(n, at) /\ used' = used - 1 BY <1>1, <1>2, <1>3, <2>1, ReleaseMoves
  <2>3. at = "made" => making[n].target \in DOMAIN thumbCache BY <1>3 DEF InCache
  <2> QED BY <1>1, <1>2, <1>3, <2>1, <2>2, <2>3, PlainStep
<1>4. CASE ~Wants(making[n].row, making[n].file) BY <1>3, <1>4 DEF Recheck
<1>5. CASE Wants(making[n].row, making[n].file) /\ InCache(making[n].target) BY <1>3, <1>5 DEF Recheck
<1>6. CASE Wants(making[n].row, making[n].file) /\ ~InCache(making[n].target)
  <2> DEFINE at == IF IsDocument(n) THEN "placing" ELSE "drawing"
  <2>1. MovesOn(n, at) /\ UNCHANGED used BY <1>6 DEF Recheck, IsDocument
  <2>2. at \in JobStates /\ at \in Holding BY DEF JobStates, Holding
  <2>3. at \notin {"asked", "made", "drawn", "rendering", "writing"}
        /\ (at = "placing" => IsDocument(n)) /\ (at = "drawing" => ~IsDocument(n))
      OBVIOUS
  <2> HIDE DEF at
  <2>4. Moves(n, at) BY <1>1, <2>1, <2>2, MovesOnMoves
  <2> QED BY <1>1, <1>2, <2>1, <2>2, <2>3, <2>4, PlainStep
<1> QED BY <1>4, <1>5, <1>6

(* SpawnGuarded preserves it: a place among the workers is taken if there is one. *)
LEMMA SpawnStep == ASSUME ThumbInv, NEW n \in Threads, SpawnGuarded(n) PROVE ThumbInv'
<1>1. making[n].at = "placing" /\ UNCHANGED <<version, row, used, thumbCache, temp>> /\ ThumbTypes
    BY DEF SpawnGuarded, ThumbInv
<1>2. making[n].at \in Holding /\ making[n].at \notin {"asked", "sleeping"} BY <1>1 DEF Holding
<1>3. JobFits(n) /\ IsDocument(n)
  <2>1. JobFits(n) BY DEF ThumbInv
  <2> QED BY <1>1, <2>1 DEF JobFits
<1>4. CASE ~(Cardinality(places) < MaxWorkers)
  <2>1. MovesOn(n, "failed") /\ UNCHANGED places BY <1>4 DEF SpawnGuarded
  <2>2. "failed" \in JobStates /\ "failed" \in Holding BY DEF JobStates, Holding
  <2>3. Moves(n, "failed") BY <1>1, <2>1, <2>2, MovesOnMoves
  <2> QED BY <1>1, <1>2, <2>1, <2>2, <2>3, PlainStep
<1>5. CASE Cardinality(places) < MaxWorkers
  <2>1. MovesOn(n, "rendering") /\ places' = places \cup {n} BY <1>5 DEF SpawnGuarded
  <2>2. "rendering" \in JobStates /\ "rendering" \in Holding BY DEF JobStates, Holding
  <2>3. Moves(n, "rendering") BY <1>1, <2>1, <2>2, MovesOnMoves
  <2>4. used' = Cardinality(Holders') /\ used' <= MaxConcurrent BY <1>1, <1>2, <2>2, <2>3, PermitsCount
  <2>5. Cardinality(places') <= MaxWorkers
    <3>1. Threads = 1..Len(making) /\ Len(making) \in Nat BY <1>1, JobType
    <3>2. places \in SUBSET Threads BY <1>1 DEF ThumbTypes
    <3>6. IsFiniteSet(Threads) BY <3>1, FS_Interval
    <3>3. IsFiniteSet(places) BY <3>2, <3>6, FS_Subset
    <3>4. Cardinality(places) \in Nat BY <3>3, FS_CardinalityType
    <3>5. Cardinality(places \cup {n}) = IF n \in places THEN Cardinality(places) ELSE Cardinality(places) + 1
        BY <3>3, FS_AddElement
    <3> QED BY <1>5, <2>1, <3>4, <3>5, ThumbnailsAssumption
  <2>6. PermitsFit' BY <2>4, <2>5 DEF PermitsFit
  <2>7. /\ making'[n].at = "rendering" /\ making'[n].file = making[n].file
        /\ making'[n].target = making[n].target
      BY <2>3 DEF Moves
  <2>8. JobFits(n)' BY <1>1, <1>3, <2>7 DEF JobFits, IsDocument
  <2>9. CacheFits' BY <1>1 DEF ThumbInv, CacheFits
  <2>10. /\ places' \subseteq Threads /\ DOMAIN temp' \subseteq Threads /\ temp' \in [DOMAIN temp' -> PngFiles]
         /\ DOMAIN thumbCache' \subseteq Keys /\ thumbCache' \in [DOMAIN thumbCache' -> PngFiles]
      BY <1>1, <2>1 DEF ThumbTypes
  <2> QED BY <1>1, <2>1, <2>3, <2>6, <2>8, <2>9, <2>10, JobStep
<1> QED BY <1>4, <1>5

(* RenderTimeout preserves it: the worker keeps its place, and its file aside. *)
LEMMA TimeoutStep == ASSUME ThumbInv, NEW n \in Threads, RenderTimeout(n) PROVE ThumbInv'
<1>1. making[n].at = "rendering" /\ UNCHANGED <<version, row, used, places, thumbCache, temp>> /\ ThumbTypes
      /\ MovesOn(n, "failed")
    BY DEF RenderTimeout, ThumbInv
<1>2. "failed" \in JobStates /\ "failed" \in Holding /\ making[n].at \in Holding
    BY <1>1 DEF JobStates, Holding
<1>3. Moves(n, "failed") BY <1>1, <1>2, MovesOnMoves
<1> QED BY <1>1, <1>2, <1>3, PlainStep

(* A file that is written aside. *)
LEMMA WrittenIs ==
    ASSUME ThumbTypes, NEW n \in Threads, NEW whole \in BOOLEAN, Written(n, whole)
    PROVE  /\ DOMAIN temp' = DOMAIN temp \cup {n} /\ DOMAIN temp' \subseteq Threads
           /\ temp' \in [DOMAIN temp' -> PngFiles]
           /\ temp'[n].content = version[making[n].file] /\ temp'[n].whole = whole
           /\ \A m \in Threads \ {n} : m \in DOMAIN temp' => m \in DOMAIN temp /\ temp'[m] = temp[m]
<1> DEFINE new == [content |-> version[making[n].file], whole |-> whole]
<1>1. making[n].file \in Pictures /\ version[making[n].file] \in Nat
  <2>1. making[n].file \in Pictures BY JobType
  <2> QED BY <2>1 DEF ThumbTypes
<1>2. new \in PngFiles /\ new.content = version[making[n].file] /\ new.whole = whole BY <1>1 DEF PngFiles
<1> HIDE DEF new
<1>3. temp' = [t \in DOMAIN temp \cup {n} |-> IF t = n THEN new ELSE temp[t]]
    BY DEF Written, TempName, new
<1>4. DOMAIN temp \subseteq Threads /\ temp \in [DOMAIN temp -> PngFiles] BY DEF ThumbTypes
<1>5. DOMAIN temp' = DOMAIN temp \cup {n} /\ temp'[n] = new BY <1>3
<1>6. \A m \in DOMAIN temp' : temp'[m] = IF m = n THEN new ELSE temp[m] BY <1>3
<1>7. \A m \in DOMAIN temp' : temp'[m] \in PngFiles BY <1>2, <1>4, <1>5, <1>6
<1>8. temp' \in [DOMAIN temp' -> PngFiles] BY <1>3, <1>7
<1> QED BY <1>2, <1>4, <1>5, <1>6, <1>8

(* A file that is removed or renamed away. *)
LEMMA TempGone ==
    ASSUME ThumbTypes, NEW n, temp' = Restrict(temp, DOMAIN temp \ {TempName(n)})
    PROVE  /\ DOMAIN temp' = DOMAIN temp \ {n} /\ DOMAIN temp' \subseteq Threads
           /\ temp' \in [DOMAIN temp' -> PngFiles]
           /\ \A m \in DOMAIN temp' : temp'[m] = temp[m]
<1>1. temp' = [t \in DOMAIN temp \ {n} |-> temp[t]] BY DEF Restrict, TempName
<1>2. DOMAIN temp \subseteq Threads /\ temp \in [DOMAIN temp -> PngFiles] BY DEF ThumbTypes
<1> QED BY <1>1, <1>2

(* A step of a thread that writes aside, and keeps its permit. *)
LEMMA TempStep ==
    ASSUME ThumbInv, NEW n \in Threads, NEW at, Moves(n, at), JobFits(n)',
           UNCHANGED <<version, row, used, thumbCache>>, making[n].at \in Holding <=> at \in Holding,
           places' \subseteq places, Cardinality(places') <= MaxWorkers,
           DOMAIN temp' \subseteq Threads, temp' \in [DOMAIN temp' -> PngFiles],
           \A m \in Threads \ {n} : m \in DOMAIN temp' => m \in DOMAIN temp /\ temp'[m] = temp[m]
    PROVE  ThumbInv'
<1>1. ThumbTypes BY DEF ThumbInv
<1>2. used' = Cardinality(Holders') /\ used' <= MaxConcurrent BY PermitsCount
<1>3. PermitsFit' BY <1>2 DEF PermitsFit
<1>4. CacheFits' BY DEF ThumbInv, CacheFits
<1>5. /\ places' \subseteq Threads
      /\ DOMAIN thumbCache' \subseteq Keys /\ thumbCache' \in [DOMAIN thumbCache' -> PngFiles]
    BY <1>1 DEF ThumbTypes
<1> QED BY <1>3, <1>4, <1>5, JobStep

(* Draw preserves it. *)
LEMMA DrawStep == ASSUME ThumbInv, NEW n \in Threads, Draw(n) PROVE ThumbInv'
<1>1. /\ making[n].at = "drawing" /\ MovesOn(n, "writing") /\ Written(n, FALSE)
      /\ UNCHANGED <<version, row, used, places, thumbCache>> /\ ThumbTypes
    BY DEF Draw, ThumbInv
<1>2. "writing" \in JobStates /\ "writing" \in Holding /\ making[n].at \in Holding
    BY <1>1 DEF JobStates, Holding
<1>3. Moves(n, "writing") BY <1>1, <1>2, MovesOnMoves
<1>4. /\ DOMAIN temp' = DOMAIN temp \cup {n} /\ DOMAIN temp' \subseteq Threads
      /\ temp' \in [DOMAIN temp' -> PngFiles]
      /\ temp'[n].content = version[making[n].file] /\ temp'[n].whole = FALSE
      /\ \A m \in Threads \ {n} : m \in DOMAIN temp' => m \in DOMAIN temp /\ temp'[m] = temp[m]
    BY <1>1, WrittenIs
<1>5. JobFits(n) BY DEF ThumbInv
<1>6. ~IsDocument(n) /\ n \notin places BY <1>1, <1>5 DEF JobFits
<1>7. making'[n].at = "writing" /\ making'[n].file = making[n].file /\ making'[n].target = making[n].target
    BY <1>3 DEF Moves
<1>8. making[n].target[2] <= version[making[n].file] /\ making[n].target[2] \in Nat
      /\ version[making[n].file] \in Nat
  <2>1. making[n].target \in Keys /\ making[n].file \in Pictures BY <1>1, JobType
  <2> QED BY <1>1, <1>5, <2>1 DEF JobFits, Keys, ThumbTypes
<1>9. JobFits(n)' BY <1>1, <1>4, <1>5, <1>6, <1>7, <1>8 DEF JobFits, IsDocument
<1>10. Cardinality(places') <= MaxWorkers BY <1>1 DEF ThumbInv, PermitsFit
<1> QED BY <1>1, <1>2, <1>3, <1>4, <1>9, <1>10, TempStep

(* Drawn preserves it: what is written whole is of the file as it is now. *)
LEMMA DrawnStep == ASSUME ThumbInv, NEW n \in Threads, Drawn(n) PROVE ThumbInv'
<1>1. making[n].at = "writing" /\ UNCHANGED <<version, row, used, places, thumbCache>> /\ ThumbTypes
    BY DEF Drawn, ThumbInv
<1>2. making[n].at \in Holding /\ making[n].at \notin {"asked", "sleeping"} BY <1>1 DEF Holding
<1>3. JobFits(n) BY DEF ThumbInv
<1>4. ~IsDocument(n) /\ n \notin places BY <1>1, <1>3 DEF JobFits
<1>5. Cardinality(places') <= MaxWorkers BY <1>1 DEF ThumbInv, PermitsFit
<1>6. CASE /\ temp' = [t \in DOMAIN temp |->
                         IF t = TempName(n) THEN [temp[t] EXCEPT !.whole = TRUE] ELSE temp[t]]
           /\ MovesOn(n, "drawn")
  <2>1. "drawn" \in JobStates /\ "drawn" \in Holding BY DEF JobStates, Holding
  <2>2. Moves(n, "drawn") BY <1>1, <1>6, <2>1, MovesOnMoves
  <2>3. temp \in [DOMAIN temp -> PngFiles] /\ DOMAIN temp \subseteq Threads BY <1>1 DEF ThumbTypes
  <2>4. ASSUME NEW m \in DOMAIN temp
        PROVE  /\ temp'[m] \in PngFiles /\ (m # n => temp'[m] = temp[m])
               /\ (m = n => temp'[m].whole = TRUE /\ temp'[m].content = temp[m].content)
    <3>1. temp[m] \in PngFiles BY <2>3
    <3>2. temp'[m] = IF m = n THEN [temp[m] EXCEPT !.whole = TRUE] ELSE temp[m] BY <1>6 DEF TempName
    <3> DEFINE new == [temp[m] EXCEPT !.whole = TRUE]
    <3>3. new \in PngFiles /\ new.whole = TRUE /\ new.content = temp[m].content BY <3>1 DEF PngFiles
    <3> HIDE DEF new
    <3>4. temp'[m] = IF m = n THEN new ELSE temp[m] BY <3>2 DEF new
    <3> QED BY <3>1, <3>3, <3>4
  <2>5. DOMAIN temp' = DOMAIN temp BY <1>6
  <2>6. temp' \in [DOMAIN temp' -> PngFiles]
    <3>1. temp' = [t \in DOMAIN temp |-> temp'[t]] BY <1>6
    <3> QED BY <2>4, <2>5, <3>1
  <2>7. making'[n].at = "drawn" /\ making'[n].file = making[n].file /\ making'[n].target = making[n].target
      BY <2>2 DEF Moves
  <2>8. JobFits(n)' BY <1>1, <1>3, <1>4, <2>4, <2>5, <2>7 DEF JobFits, IsDocument
  <2>9. DOMAIN temp' \subseteq Threads
        /\ \A m \in Threads \ {n} : m \in DOMAIN temp' => m \in DOMAIN temp /\ temp'[m] = temp[m]
      BY <2>3, <2>4, <2>5
  <2> QED BY <1>1, <1>2, <1>5, <2>1, <2>2, <2>6, <2>8, <2>9, TempStep
<1>7. CASE making' = [making EXCEPT ![n].at = "drawing", ![n].seek = 1] /\ UNCHANGED temp
  <2> DEFINE j == [making[n] EXCEPT !.at = "drawing", !.seek = 1]
  <2>1. /\ making \in Seq(Jobs) /\ Threads = 1..Len(making) /\ making[n] \in Jobs
      BY <1>1, JobType DEF ThumbTypes
  <2>2. "drawing" \in JobStates /\ "drawing" \in Holding BY DEF JobStates, Holding
  <2>3. j \in Jobs BY <2>1, <2>2 DEF Jobs
  <2>4. j.at = "drawing" /\ j.target = making[n].target /\ j.row = making[n].row /\ j.file = making[n].file
      BY <2>1 DEF Jobs
  <2>5. making' = [making EXCEPT ![n] = j] BY <1>7, <2>1 DEF Jobs
  <2> HIDE DEF j
  <2>6. /\ making' \in Seq(Jobs) /\ Len(making') = Len(making)
        /\ \A m \in 1..Len(making) : making'[m] = IF m = n THEN j ELSE making[m]
      BY <2>1, <2>3, <2>5, ExceptSeq
  <2>7. Threads' = Threads BY <2>1, <2>6, LenProperties DEF Threads
  <2>8. Moves(n, "drawing") BY <2>1, <2>4, <2>6, <2>7 DEF Moves
  <2>9. making'[n] = j BY <2>1, <2>6
  <2>10. JobFits(n)' BY <1>1, <1>3, <1>4, <1>7, <2>4, <2>9 DEF JobFits, IsDocument
  <2>11. DOMAIN temp' \subseteq Threads /\ temp' \in [DOMAIN temp' -> PngFiles] BY <1>1, <1>7 DEF ThumbTypes
  <2> QED BY <1>1, <1>2, <1>5, <1>7, <2>2, <2>8, <2>10, <2>11, TempStep
<1>8. CASE MovesOn(n, "failed") /\ UNCHANGED temp
  <2>1. "failed" \in JobStates /\ "failed" \in Holding BY DEF JobStates, Holding
  <2>2. Moves(n, "failed") BY <1>1, <1>8, <2>1, MovesOnMoves
  <2> QED BY <1>1, <1>2, <1>8, <2>1, <2>2, PlainStep
<1> QED BY <1>6, <1>7, <1>8 DEF Drawn

(* A step of a document's own thread: the job it was started for may be over by then. *)
LEMMA RenderStep == ASSUME ThumbInv, NEW n \in Threads, RenderToPng(n) PROVE ThumbInv'
<1>1. /\ n \in places /\ places' = places \ {n} /\ UNCHANGED <<version, row, used, thumbCache>>
      /\ (IF making[n].file \in Undecodable THEN UNCHANGED temp ELSE Written(n, TRUE)) /\ ThumbTypes
    BY DEF RenderToPng, ThumbInv
<1>2. JobFits(n) BY DEF ThumbInv
<1>3. IsDocument(n) /\ making[n].at # "asked" BY <1>1, <1>2 DEF JobFits
<1>4. making[n].target[2] <= version[making[n].file] /\ making[n].target[2] \in Nat
      /\ version[making[n].file] \in Nat
  <2>1. making[n].target \in Keys /\ making[n].file \in Pictures BY <1>1, JobType
  <2> QED BY <1>1, <1>2, <2>1 DEF JobFits, Keys, ThumbTypes
<1>5. /\ DOMAIN temp' \subseteq Threads /\ temp' \in [DOMAIN temp' -> PngFiles]
      /\ \A m \in Threads \ {n} : m \in DOMAIN temp' => m \in DOMAIN temp /\ temp'[m] = temp[m]
      /\ n \in DOMAIN temp' => temp'[n].content >= making[n].target[2] /\ temp'[n].whole
  <2>1. CASE making[n].file \in Undecodable
    <3>1. UNCHANGED temp BY <1>1, <2>1
    <3> QED BY <1>1, <1>2, <1>3, <3>1 DEF ThumbTypes, JobFits
  <2>2. CASE making[n].file \notin Undecodable
    <3>1. Written(n, TRUE) BY <1>1, <2>2
    <3>2. /\ DOMAIN temp' = DOMAIN temp \cup {n} /\ DOMAIN temp' \subseteq Threads
          /\ temp' \in [DOMAIN temp' -> PngFiles]
          /\ temp'[n].content = version[making[n].file] /\ temp'[n].whole = TRUE
          /\ \A m \in Threads \ {n} : m \in DOMAIN temp' => m \in DOMAIN temp /\ temp'[m] = temp[m]
        BY <1>1, <3>1, WrittenIs
    <3> QED BY <1>4, <3>2
  <2> QED BY <2>1, <2>2
<1>6. PICK at \in JobStates : /\ Moves(n, at) /\ (making[n].at \in Holding <=> at \in Holding)
                              /\ at # "asked" /\ at \notin {"drawing", "writing"}
                              /\ (at = "made" => making[n].at = "made")
  <2>1. CASE making[n].at = "rendering"
    <3> DEFINE at == IF making[n].file \in Undecodable THEN "failed" ELSE "drawn"
    <3>1. MovesOn(n, at) BY <2>1 DEF RenderToPng
    <3>2. at \in JobStates /\ at \in Holding /\ making[n].at \in Holding
          /\ at \notin {"asked", "drawing", "writing", "made"}
        BY <2>1 DEF JobStates, Holding
    <3> HIDE DEF at
    <3>3. Moves(n, at) BY <1>1, <3>1, <3>2, MovesOnMoves
    <3> QED BY <3>2, <3>3
  <2>2. CASE making[n].at # "rendering"
    <3>1. UNCHANGED making BY <2>2 DEF RenderToPng
    <3>2. making[n].at \in JobStates /\ making \in Seq(Jobs) BY <1>1, JobType DEF ThumbTypes
    <3>3. Moves(n, making[n].at) BY <3>1, <3>2 DEF Moves, Threads
    <3>4. making[n].at \notin {"drawing", "writing"} BY <1>2, <1>3 DEF JobFits
    <3> QED BY <1>3, <3>2, <3>3, <3>4
  <2> QED BY <2>1, <2>2
<1>7. making'[n].at = at /\ making'[n].file = making[n].file /\ making'[n].target = making[n].target
    BY <1>6 DEF Moves
<1>8. JobFits(n)' BY <1>1, <1>2, <1>3, <1>5, <1>6, <1>7 DEF JobFits, IsDocument
<1>9. places' \subseteq places /\ Cardinality(places') <= MaxWorkers
  <2>1. Threads = 1..Len(making) /\ Len(making) \in Nat BY <1>1, JobType
  <2>2. places \in SUBSET Threads BY <1>1 DEF ThumbTypes
  <2>3. IsFiniteSet(Threads) BY <2>1, FS_Interval
  <2>4. IsFiniteSet(places) BY <2>2, <2>3, FS_Subset
  <2>5. Cardinality(places) \in Nat BY <2>4, FS_CardinalityType
  <2>6. Cardinality(places \ {n}) = IF n \in places THEN Cardinality(places) - 1 ELSE Cardinality(places)
      BY <2>4, FS_RemoveElement
  <2>7. Cardinality(places) <= MaxWorkers BY DEF ThumbInv, PermitsFit
  <2> QED BY <1>1, <2>5, <2>6, <2>7, ThumbnailsAssumption
<1> QED BY <1>1, <1>5, <1>6, <1>8, <1>9, TempStep

(* Rename preserves it: what gets into the cache is whole, and no older than its key. *)
LEMMA RenameStep == ASSUME ThumbInv, NEW n \in Threads, Rename(n) PROVE ThumbInv'
<1> DEFINE key == making[n].target
          png == temp[n]
<1>1. /\ making[n].at = "drawn" /\ n \in DOMAIN temp
      /\ thumbCache' = [k \in DOMAIN thumbCache \cup {key} |-> IF k = key THEN png ELSE thumbCache[k]]
      /\ temp' = Restrict(temp, DOMAIN temp \ {TempName(n)})
      /\ Release(n, "made") /\ UNCHANGED <<version, row, places>> /\ ThumbTypes
    BY DEF Rename, ThumbInv, TempName
<1>2. JobFits(n) BY DEF ThumbInv
<1>3. png.whole /\ png.content >= key[2] /\ png \in PngFiles /\ key \in Keys
  <2>1. key \in Keys BY <1>1, JobType
  <2>2. png \in PngFiles BY <1>1 DEF ThumbTypes
  <2> QED BY <1>1, <1>2, <2>1, <2>2 DEF JobFits
<1>4. "made" \in JobStates /\ "made" \notin Holding /\ making[n].at \in Holding /\ making[n].at # "sleeping"
    BY <1>1 DEF JobStates, Holding
<1>5. Moves(n, "made") /\ used' = used - 1 BY <1>1, <1>4, ReleaseMoves
<1>6. used' = Cardinality(Holders') /\ used' <= MaxConcurrent BY <1>4, <1>5, PermitsCount
<1>7. PermitsFit' BY <1>1, <1>6 DEF ThumbInv, PermitsFit
<1>8. /\ DOMAIN temp' = DOMAIN temp \ {n} /\ DOMAIN temp' \subseteq Threads
      /\ temp' \in [DOMAIN temp' -> PngFiles]
      /\ \A m \in DOMAIN temp' : temp'[m] = temp[m]
    BY <1>1, TempGone
<1>9. making'[n].at = "made" /\ making'[n].file = making[n].file /\ making'[n].target = key
    BY <1>5 DEF Moves
<1> HIDE DEF key, png
<1>10. DOMAIN thumbCache' = DOMAIN thumbCache \cup {key}
       /\ \A k \in DOMAIN thumbCache' : thumbCache'[k] = IF k = key THEN png ELSE thumbCache[k]
    BY <1>1
<1>11. DOMAIN thumbCache' \subseteq Keys /\ thumbCache' \in [DOMAIN thumbCache' -> PngFiles]
  <2>1. DOMAIN thumbCache \subseteq Keys /\ thumbCache \in [DOMAIN thumbCache -> PngFiles] BY <1>1 DEF ThumbTypes
  <2>2. \A k \in DOMAIN thumbCache' : thumbCache'[k] \in PngFiles BY <1>3, <1>10, <2>1
  <2>3. thumbCache' = [k \in DOMAIN thumbCache' |-> thumbCache'[k]] BY <1>1
  <2> QED BY <1>3, <1>10, <2>1, <2>2, <2>3
<1>12. CacheFits' BY <1>3, <1>10 DEF ThumbInv, CacheFits
<1>13. JobFits(n)' BY <1>1, <1>2, <1>8, <1>9, <1>10 DEF JobFits, IsDocument, key
<1>14. places' \subseteq Threads BY <1>1 DEF ThumbTypes
<1> QED BY <1>1, <1>5, <1>7, <1>8, <1>10, <1>11, <1>12, <1>13, <1>14, JobStep

(* GiveUp preserves it. *)
LEMMA GiveUpStep == ASSUME ThumbInv, NEW n \in Threads, GiveUp(n) PROVE ThumbInv'
<1>1. /\ making[n].at \in {"failed", "drawn"}
      /\ temp' = Restrict(temp, DOMAIN temp \ {TempName(n)})
      /\ Release(n, "nothing") /\ UNCHANGED <<version, row, places, thumbCache>> /\ ThumbTypes
    BY DEF GiveUp, ThumbInv
<1>2. JobFits(n) BY DEF ThumbInv
<1>4. "nothing" \in JobStates /\ "nothing" \notin Holding /\ making[n].at \in Holding /\ making[n].at # "sleeping"
    BY <1>1 DEF JobStates, Holding
<1>5. Moves(n, "nothing") /\ used' = used - 1 BY <1>1, <1>4, ReleaseMoves
<1>6. used' = Cardinality(Holders') /\ used' <= MaxConcurrent BY <1>4, <1>5, PermitsCount
<1>7. PermitsFit' BY <1>1, <1>6 DEF ThumbInv, PermitsFit
<1>8. /\ DOMAIN temp' = DOMAIN temp \ {n} /\ DOMAIN temp' \subseteq Threads
      /\ temp' \in [DOMAIN temp' -> PngFiles]
      /\ \A m \in DOMAIN temp' : temp'[m] = temp[m]
    BY <1>1, TempGone
<1>9. making'[n].at = "nothing" /\ making'[n].file = making[n].file /\ making'[n].target = making[n].target
    BY <1>5 DEF Moves
<1>10. JobFits(n)' BY <1>1, <1>2, <1>8, <1>9 DEF JobFits, IsDocument
<1>11. CacheFits' BY <1>1 DEF ThumbInv, CacheFits
<1>12. /\ places' \subseteq Threads
       /\ DOMAIN thumbCache' \subseteq Keys /\ thumbCache' \in [DOMAIN thumbCache' -> PngFiles]
    BY <1>1 DEF ThumbTypes
<1> QED BY <1>1, <1>5, <1>7, <1>8, <1>10, <1>11, <1>12, JobStep

(* The main loop puts it on a row that still wants it: the file wanted is the one the row is
   bound to. *)
LEMMA ApplyStep == ASSUME ThumbInv, NEW n \in Threads, Apply(n) PROVE ThumbInv'
<1> DEFINE q == making[n].row
          f == making[n].file
          key == making[n].target
          gets == making[n].at = "made" /\ Wants(q, f)
<1>1. /\ making[n].at \in {"made", "nothing"} /\ MovesOn(n, "over")
      /\ row' = IF gets THEN [row EXCEPT ![q].shows = Thumb(key)] ELSE row
      /\ UNCHANGED <<version, used, places, thumbCache, temp>> /\ ThumbTypes
    BY DEF Apply, ThumbInv
<1>2. "over" \in JobStates /\ "over" \notin Holding /\ making[n].at \notin Holding
    BY <1>1 DEF JobStates, Holding
<1>3. Moves(n, "over") BY <1>1, <1>2, MovesOnMoves
<1>4. Holders' = Holders
  <2>1. Holders' = Holders \ {n} BY <1>1, <1>2, <1>3, HoldersMove
  <2> QED BY <1>2, <2>1 DEF Holders
<1>5. PermitsFit' BY <1>1, <1>4 DEF ThumbInv, PermitsFit
<1>6. CacheFits' BY <1>1 DEF ThumbInv, CacheFits
<1>7. q \in Rows /\ f \in Pictures /\ JobFits(n) /\ row[q] \in RowStates
  <2>1. q \in Rows /\ f \in Pictures BY <1>1, JobType
  <2> QED BY <1>1, <2>1 DEF ThumbTypes, ThumbInv
<1>8. gets => Thumb(key) \in Images /\ Thumb(key).of = f /\ Thumb(key).whole
  <2> SUFFICES ASSUME gets PROVE Thumb(key) \in Images /\ Thumb(key).of = f /\ Thumb(key).whole OBVIOUS
  <2>1. key \in DOMAIN thumbCache /\ key[1] = f BY <1>7 DEF JobFits
  <2>2. thumbCache[key] \in PngFiles /\ thumbCache[key].whole BY <1>1, <2>1 DEF ThumbTypes, ThumbInv, CacheFits
  <2> HIDE DEF key, f
  <2> QED BY <1>7, <2>1, <2>2 DEF Thumb, Images, PngFiles, OrNone
<1> DEFINE t == Thumb(key)
<1> HIDE DEF t
<1>9. row' = IF gets THEN [row EXCEPT ![q].shows = t] ELSE row BY <1>1 DEF t
<1>10. gets => t \in Images /\ t.of = f /\ t.whole BY <1>8 DEF t
<1>11. gets => row[q].bound = f
  <2>1. gets => row[q].wants = f BY DEF Wants
  <2>2. RowFits(q) /\ f # NoPicture BY <1>7, ThumbnailsAssumption DEF ThumbInv
  <2> QED BY <2>1, <2>2 DEF RowFits
<1> HIDE DEF gets, q, f, key
<1>12. ASSUME NEW r \in Rows PROVE row'[r] \in RowStates /\ RowFits(r)'
  <2>1. row[r] \in RowStates /\ RowFits(r) BY <1>1 DEF ThumbTypes, ThumbInv
  <2>2. CASE gets /\ r = q
    <3> DEFINE new == [row[q] EXCEPT !.shows = t]
    <3>1. new \in RowStates BY <1>7, <1>10, <2>2 DEF RowStates
    <3>2. new.shows = t /\ new.bound = row[q].bound /\ new.wants = row[q].wants BY <1>7 DEF RowStates
    <3>3. row'[r] = new BY <1>1, <1>9, <2>2 DEF ThumbTypes
    <3> HIDE DEF new
    <3> QED BY <1>10, <1>11, <2>1, <2>2, <3>1, <3>2, <3>3 DEF RowFits
  <2>3. CASE ~(gets /\ r = q)
    <3>1. row'[r] = row[r] BY <1>1, <1>9, <2>3 DEF ThumbTypes
    <3> QED BY <2>1, <3>1 DEF RowFits
  <2> QED BY <2>2, <2>3
<1>13. ThumbTypes'
  <2>1. row' = [r \in Rows |-> row'[r]] BY <1>1, <1>9 DEF ThumbTypes
  <2>2. row' \in [Rows -> RowStates] BY <1>12, <2>1
  <2>3. making' \in Seq(Jobs) /\ Threads' = Threads BY <1>3 DEF Moves
  <2> QED BY <1>1, <2>2, <2>3 DEF ThumbTypes
<1>14. ASSUME NEW m \in Threads PROVE JobFits(m)'
  <2>1. JobFits(m) BY DEF ThumbInv
  <2>2. making'[m].file = making[m].file /\ making'[m].target = making[m].target BY <1>3 DEF Moves
  <2>3. CASE m = n
    <3>1. making'[n].at = "over" BY <1>3 DEF Moves
    <3> QED BY <1>1, <2>1, <2>2, <2>3, <3>1 DEF JobFits, IsDocument
  <2>4. CASE m # n
    <3>1. making'[m].at = making[m].at \/ (making[m].at = "sleeping" /\ making'[m].at = "queued")
        BY <1>3, <2>4 DEF Moves
    <3> QED BY <1>1, <2>1, <2>2, <3>1 DEF JobFits, IsDocument
  <2> QED BY <2>3, <2>4
<1>15. Threads' = Threads BY <1>3 DEF Moves
<1> QED BY <1>5, <1>6, <1>12, <1>13, <1>14, <1>15 DEF ThumbInv

(* A step that asks for more thumbnails, or edits a file. *)
LEMMA GrowStep ==
    ASSUME ThumbInv, NEW added \in Seq(Jobs), making' = making \o added,
           \A i \in 1..Len(added) : added[i].at = "asked" /\ added[i].target = <<added[i].file, 0>>,
           UNCHANGED <<used, places, thumbCache, temp>>,
           version' \in [Pictures -> Nat], \A f \in Pictures : version'[f] >= version[f],
           row' \in [Rows -> RowStates], \A r \in Rows : RowFits(r)'
    PROVE  ThumbInv'
<1> DEFINE k == Len(making)
<1>1. making \in Seq(Jobs) /\ ThumbTypes BY DEF ThumbInv, ThumbTypes
<1>2. /\ making' \in Seq(Jobs) /\ Len(making') = k + Len(added) /\ k \in Nat /\ Len(added) \in Nat
      /\ \A i \in 1..(k + Len(added)) : making'[i] = IF i <= k THEN making[i] ELSE added[i - k]
    BY <1>1, ConcatProperties, LenProperties
<1>3. Threads = 1..k /\ Threads' = 1..(k + Len(added)) BY <1>1, <1>2, LenProperties DEF Threads
<1>4. ThumbTypes'
  <2>1. Threads \subseteq Threads' BY <1>2, <1>3
  <2> QED BY <1>1, <1>2, <2>1 DEF ThumbTypes
<1>5. \A i \in Threads : making'[i] = making[i] BY <1>2, <1>3
<1>6. \A i \in Threads' \ Threads : making'[i].at = "asked" /\ making'[i].target = <<making'[i].file, 0>>
                                     /\ making'[i] \in Jobs
  <2> SUFFICES ASSUME NEW i \in Threads' \ Threads
               PROVE  /\ making'[i].at = "asked" /\ making'[i].target = <<making'[i].file, 0>>
                      /\ making'[i] \in Jobs
      OBVIOUS
  <2>1. i \in 1..(k + Len(added)) /\ ~(i <= k) /\ i - k \in 1..Len(added) BY <1>2, <1>3
  <2>2. making'[i] = added[i - k] BY <1>2, <2>1
  <2>3. added[i - k] \in Jobs BY <2>1, ElementOfSeq
  <2> QED BY <2>1, <2>2, <2>3
<1>7. ASSUME NEW i \in Threads' PROVE JobFits(i)'
  <2>1. CASE i \in Threads
    <3>1. JobFits(i) /\ making'[i] = making[i] BY <1>5, <2>1 DEF ThumbInv
    <3>2. making[i].file \in Pictures BY <1>1, <2>1, JobType
    <3>3. version'[making[i].file] \in Nat /\ version'[making[i].file] >= version[making[i].file]
        BY <3>2
    <3> QED BY <1>1, <2>1, <3>1, <3>3, JobStays
  <2>2. CASE i \notin Threads
    <3>1. making'[i].at = "asked" /\ making'[i].target = <<making'[i].file, 0>> /\ making'[i] \in Jobs
        BY <1>6, <2>2
    <3>2. i \notin places /\ i \notin DOMAIN temp BY <1>1, <2>2 DEF ThumbTypes
    <3>3. making'[i].file \in Pictures BY <3>1 DEF Jobs
    <3>4. version'[making'[i].file] \in Nat BY <3>3
    <3>5. i \notin places' /\ i \notin DOMAIN temp' BY <3>2
    <3>6. /\ making'[i].target[1] = making'[i].file /\ making'[i].target[2] = 0
          /\ 0 <= version'[making'[i].file]
      <4> DEFINE g == making'[i].file
      <4> HIDE DEF g
      <4>1. making'[i].target = <<g, 0>> BY <3>1 DEF g
      <4>2. making'[i].target[1] = g /\ making'[i].target[2] = 0 BY <4>1
      <4>3. 0 <= version'[making'[i].file]
        <5> DEFINE v == version'[making'[i].file]
        <5>1. v \in Nat BY <3>4
        <5> HIDE DEF v
        <5>2. 0 <= v BY <5>1
        <5> QED BY <5>2 DEF v
      <4> QED BY <4>2, <4>3 DEF g
    <3> QED BY <3>1, <3>5, <3>6 DEF JobFits
  <2> QED BY <2>1, <2>2
<1>8. Holders' = Holders
  <2>1. \A i \in Threads' : i \in Holders' <=> making'[i].at \in Holding BY DEF Holders
  <2>2. \A i \in Threads : i \in Holders <=> making[i].at \in Holding BY DEF Holders
  <2>3. Holders \subseteq Threads /\ Holders' \subseteq Threads' /\ Threads \subseteq Threads'
      BY <1>2, <1>3 DEF Holders
  <2>4. "asked" \notin Holding BY DEF Holding
  <2> QED BY <1>5, <1>6, <2>1, <2>2, <2>3, <2>4
<1>9. PermitsFit' BY <1>8 DEF ThumbInv, PermitsFit
<1>10. CacheFits' BY DEF ThumbInv, CacheFits
<1> QED BY <1>4, <1>7, <1>9, <1>10 DEF ThumbInv

(* The job a row begins with. *)
LEMMA NewJob ==
    ASSUME NEW r \in Rows, NEW f \in Pictures
    PROVE  [row |-> r, file |-> f, target |-> <<f, 0>>, at |-> "asked", seek |-> 0] \in Jobs
BY DEF Jobs, Keys, JobStates

(* Bind preserves the invariant: a row shows what the cache has of its file. *)
LEMMA BindStep == ASSUME ThumbInv, NEW r \in Rows, NEW f \in Pictures, Bind(r, f) PROVE ThumbInv'
<1> DEFINE wants == IF PictureKind[f] = "none" THEN NoPicture ELSE f
          found == wants = f /\ Lookup(f)
          shows == IF found THEN Thumb(CachedPath(f)) ELSE Icon
          new == [bound |-> f, wants |-> wants, shows |-> shows]
          j == [row |-> r, file |-> f, target |-> <<f, 0>>, at |-> "asked", seek |-> 0]
          added == IF wants = NoPicture \/ found THEN << >> ELSE <<j>>
<1>1. /\ row' = [row EXCEPT ![r] = new]
      /\ making' = IF wants = NoPicture \/ found THEN making ELSE Append(making, j)
      /\ UNCHANGED <<version, used, places, thumbCache, temp>> /\ ThumbTypes
    BY DEF Bind, ThumbInv
<1>2. making \in Seq(Jobs) BY <1>1 DEF ThumbTypes
<1>3. j \in Jobs /\ j.at = "asked" /\ j.target = <<j.file, 0>> BY NewJob
<1>4. shows \in Images /\ (shows # Icon => shows.of = f /\ shows.whole)
  <2>1. CASE ~found BY <2>1 DEF Icon, Images, OrNone
  <2>2. CASE found
    <3>1. CachedPath(f) \in DOMAIN thumbCache /\ CachedPath(f)[1] = f BY <2>2 DEF Lookup, InCache, CachedPath
    <3>2. thumbCache[CachedPath(f)] \in PngFiles /\ thumbCache[CachedPath(f)].whole
        BY <1>1, <3>1 DEF ThumbTypes, ThumbInv, CacheFits
    <3>3. Thumb(CachedPath(f)) \in Images /\ Thumb(CachedPath(f)).of = f /\ Thumb(CachedPath(f)).whole
        BY <3>1, <3>2 DEF Thumb, Images, PngFiles, OrNone
    <3> QED BY <2>2, <3>3
  <2> QED BY <2>1, <2>2
<1>5. wants \in {NoPicture, f} OBVIOUS
<1> HIDE DEF wants, found, shows, j
<1>6. new \in RowStates /\ new.bound = f /\ new.wants = wants /\ new.shows = shows
    BY <1>4, <1>5 DEF RowStates, OrNone
<1> HIDE DEF new
<1>7. row' \in [Rows -> RowStates] BY <1>1, <1>6 DEF ThumbTypes
<1>8. ASSUME NEW q \in Rows PROVE RowFits(q)'
  <2>1. CASE q = r
    <3>1. row'[q] = new BY <1>1, <2>1 DEF ThumbTypes
    <3> QED BY <1>4, <1>5, <1>6, <3>1 DEF RowFits
  <2>2. CASE q # r
    <3>1. row'[q] = row[q] /\ RowFits(q) BY <1>1, <2>2 DEF ThumbTypes, ThumbInv
    <3> QED BY <3>1 DEF RowFits
  <2> QED BY <2>1, <2>2
<1>9. added \in Seq(Jobs) /\ making' = making \o added
  <2>1. CASE wants = NoPicture \/ found
    <3>1. making' = making /\ added = << >> BY <1>1, <2>1
    <3> QED BY <1>2, <3>1, EmptySeq, ConcatEmptySeq
  <2>2. CASE ~(wants = NoPicture \/ found)
    <3>1. making' = Append(making, j) /\ added = <<j>> BY <1>1, <2>2
    <3>2. Append(making, j) = making \o <<j>> BY <1>2, <1>3, AppendIsConcat
    <3> QED BY <1>3, <3>1, <3>2
  <2> QED BY <2>1, <2>2
<1>10. \A i \in 1..Len(added) : added[i].at = "asked" /\ added[i].target = <<added[i].file, 0>>
  <2>1. CASE wants = NoPicture \/ found
    <3>1. Len(added) = 0 BY <2>1
    <3> QED BY <3>1
  <2>2. CASE ~(wants = NoPicture \/ found)
    <3>1. added = <<j>> /\ Len(<<j>>) = 1 /\ <<j>>[1] = j BY <2>2
    <3> QED BY <1>3, <3>1
  <2> QED BY <2>1, <2>2
<1>11. version' \in [Pictures -> Nat] /\ \A g \in Pictures : version'[g] >= version[g]
  <2>1. version \in [Pictures -> Nat] BY <1>1 DEF ThumbTypes
  <2> QED BY <1>1, <2>1
<1> HIDE DEF added
<1> QED BY <1>1, <1>7, <1>8, <1>9, <1>10, <1>11, GrowStep

(* Unbind preserves it. *)
LEMMA UnbindStep == ASSUME ThumbInv, NEW r \in Rows, Unbind(r) PROVE ThumbInv'
<1> DEFINE new == [row[r] EXCEPT !.bound = NoPicture, !.wants = NoPicture]
<1>1. /\ row' = [row EXCEPT ![r].bound = NoPicture, ![r].wants = NoPicture]
      /\ UNCHANGED <<version, making, used, places, thumbCache, temp>> /\ ThumbTypes
    BY DEF Unbind, ThumbInv
<1>2. row[r] \in RowStates /\ row \in [Rows -> RowStates] BY <1>1 DEF ThumbTypes
<1>3. new \in RowStates BY <1>2 DEF RowStates, OrNone
<1>4. new.bound = NoPicture /\ new.wants = NoPicture BY <1>2 DEF RowStates
<1>5. row' = [row EXCEPT ![r] = new] BY <1>1, <1>2
<1> HIDE DEF new
<1>6. row' \in [Rows -> RowStates] BY <1>2, <1>3, <1>5
<1>7. ASSUME NEW q \in Rows PROVE RowFits(q)'
  <2>1. CASE q = r
    <3>1. row'[q] = new BY <1>2, <1>5, <2>1
    <3> QED BY <1>4, <3>1 DEF RowFits
  <2>2. CASE q # r
    <3>1. row'[q] = row[q] /\ RowFits(q) BY <1>2, <1>5, <2>2 DEF ThumbInv
    <3> QED BY <3>1 DEF RowFits
  <2> QED BY <2>1, <2>2
<1>8. making' = making /\ Threads' = Threads BY <1>1 DEF Threads
<1>9. ThumbTypes' BY <1>1, <1>6, <1>8 DEF ThumbTypes
<1>10. \A n \in Threads : JobFits(n)' BY <1>1 DEF ThumbInv, JobFits, IsDocument
<1>11. PermitsFit'
  <2>1. Holders' = Holders BY <1>1, <1>8 DEF Holders
  <2> QED BY <1>1, <2>1 DEF ThumbInv, PermitsFit
<1>12. CacheFits' BY <1>1 DEF ThumbInv, CacheFits
<1> QED BY <1>7, <1>8, <1>9, <1>10, <1>11, <1>12 DEF ThumbInv

(* Edit preserves it: keys that were taken are of earlier versions. *)
LEMMA EditStep == ASSUME ThumbInv, NEW f \in Pictures, Edit(f) PROVE ThumbInv'
<1> DEFINE again == {r \in Rows : row[r].bound = f /\ PictureKind[f] # "none"}
          k == Cardinality(again)
          J(r) == [row |-> r, file |-> f, target |-> <<f, 0>>, at |-> "asked", seek |-> 0]
<1>1. /\ version' = [version EXCEPT ![f] = @ + 1]
      /\ row' = [r \in Rows |-> IF r \in again THEN [row[r] EXCEPT !.wants = f, !.shows = Icon] ELSE row[r]]
      /\ UNCHANGED <<used, places, thumbCache, temp>> /\ ThumbTypes
    BY DEF Edit, ThumbInv
<1>2. PICK order \in Bijection(1..k, again) : making' = making \o [i \in 1..k |-> J(order[i])]
    BY DEF Edit
<1>3. k \in Nat
  <2>1. again \in SUBSET Rows OBVIOUS
  <2>2. IsFiniteSet(again) BY <2>1, FS_Subset, ThumbnailsAssumption
  <2> QED BY <2>2, FS_CardinalityType
<1>4. order \in [1..k -> again] /\ again \subseteq Rows BY <1>2 DEF Bijection, Injection
<1>5. version' \in [Pictures -> Nat] /\ \A g \in Pictures : version'[g] >= version[g]
  <2>1. version \in [Pictures -> Nat] BY <1>1 DEF ThumbTypes
  <2>2. version' = [g \in Pictures |-> IF g = f THEN version[f] + 1 ELSE version[g]] BY <1>1, <2>1
  <2> QED BY <2>1, <2>2
<1>6. ASSUME NEW q \in Rows PROVE row'[q] \in RowStates /\ RowFits(q)'
  <2>1. row[q] \in RowStates /\ RowFits(q) BY <1>1 DEF ThumbTypes, ThumbInv
  <2>2. CASE q \in again
    <3> DEFINE new == [row[q] EXCEPT !.wants = f, !.shows = Icon]
    <3>1. Icon \in Images BY DEF Icon, Images, OrNone
    <3>2. new \in RowStates BY <2>1, <3>1 DEF RowStates, OrNone
    <3>3. new.bound = row[q].bound /\ new.wants = f /\ new.shows = Icon BY <2>1 DEF RowStates
    <3>4. row[q].bound = f BY <2>2
    <3>5. row'[q] = new BY <1>1, <2>2
    <3> HIDE DEF new
    <3> QED BY <3>2, <3>3, <3>4, <3>5 DEF RowFits
  <2>3. CASE q \notin again
    <3>1. row'[q] = row[q] BY <1>1, <2>3
    <3> QED BY <2>1, <3>1 DEF RowFits
  <2> QED BY <2>2, <2>3
<1>7. row' \in [Rows -> RowStates]
  <2>1. row' = [q \in Rows |-> row'[q]] BY <1>1
  <2> QED BY <1>6, <2>1
<1> DEFINE added == [i \in 1..k |-> J(order[i])]
<1>8. added \in Seq(Jobs) /\ Len(added) = k /\ \A i \in 1..k : added[i] = J(order[i])
  <2>1. \A i \in 1..k : J(order[i]) \in Jobs
    <3> TAKE i \in 1..k
    <3>1. order[i] \in Rows BY <1>4
    <3> QED BY <3>1, NewJob
  <2> HIDE DEF J, k
  <2>2. added \in [1..k -> Jobs] BY <2>1
  <2> QED BY <1>3, <2>2
<1>9. \A i \in 1..Len(added) : added[i].at = "asked" /\ added[i].target = <<added[i].file, 0>> BY <1>8
<1>10. making' = making \o added BY <1>2
<1> HIDE DEF added, J, again
<1> QED BY <1>1, <1>5, <1>6, <1>7, <1>8, <1>9, <1>10, GrowStep

(* Every step preserves the invariant. *)
LEMMA NextOfThumbs == ThumbInv /\ [ThumbNext]_thumbVars => ThumbInv'
<1> SUFFICES ASSUME ThumbInv, [ThumbNext]_thumbVars PROVE ThumbInv' OBVIOUS
<1>1. CASE UNCHANGED thumbVars
    BY <1>1 DEF thumbVars, ThumbInv, ThumbTypes, Threads, RowFits, JobFits, IsDocument, CacheFits,
      PermitsFit, Holders
<1>2. CASE \E r \in Rows : Unbind(r) BY <1>2, UnbindStep
<1>3. CASE \E r \in Rows : \E f \in Pictures : Bind(r, f) BY <1>3, BindStep
<1>4. CASE \E f \in Pictures : Edit(f) BY <1>4, EditStep
<1>5. CASE \E n \in Threads : RenderToPng(n) BY <1>5, RenderStep
<1>6. CASE \E n \in Threads : Make(n)
  <2>1. PICK n \in Threads : Make(n) BY <1>6
  <2> QED BY <2>1, TargetStep, AcquireStep, RecheckStep, DrawStep, DrawnStep, SpawnStep, TimeoutStep,
      RenameStep, GiveUpStep, ApplyStep DEF Make
<1> QED BY <1>1, <1>2, <1>3, <1>4, <1>5, <1>6 DEF ThumbNext

(* thumbnails.rs:3, thumbnail.rs:132: the whole of RowsShowTheirFile, permits and places
   included, for any rows, files and limits: however rows are bound while threads work, run
   late or are abandoned, a row that is bound shows a whole thumbnail of its file, or an icon. *)
THEOREM RowsAlwaysShowTheirFile == ThumbSpec => []RowsShowTheirFile
<1>1. ThumbInv => RowsShowTheirFile
  <2> SUFFICES ASSUME ThumbInv PROVE RowsShowTheirFile OBVIOUS
  <2>1. used = Cardinality(Holders) /\ used <= MaxConcurrent /\ Cardinality(places) <= MaxWorkers
      BY DEF ThumbInv, PermitsFit
  <2>2. Cardinality(Holders) \in Nat
    <3>1. Threads = 1..Len(making) /\ Len(making) \in Nat
      <4>1. making \in Seq(Jobs) BY DEF ThumbInv, ThumbTypes
      <4> QED BY <4>1, LenProperties DEF Threads
    <3>2. IsFiniteSet(Threads) BY <3>1, FS_Interval
    <3>3. Holders \in SUBSET Threads BY DEF Holders
    <3> QED BY <3>2, <3>3, FS_Subset, FS_CardinalityType
  <2>3. ThumbTypeOK BY <2>1, <2>2, ThumbnailsAssumption DEF ThumbTypeOK, Holders, Holding
  <2> QED BY <2>3 DEF RowsShowTheirFile, ThumbInv, RowFits, CacheFits
<1>2. ThumbInit => ThumbInv BY InitOfThumbs
<1>3. ThumbInv /\ [ThumbNext]_thumbVars => ThumbInv' BY NextOfThumbs
<1> QED BY <1>1, <1>2, <1>3, PTL DEF ThumbSpec

(* A thread has a permit, or is about to ask for one. *)
Claiming == Holding \cup {"queued"}

(* Those threads are finitely many. *)
LEMMA ClaimantsAre ==
    ASSUME ThumbTypes
    PROVE  /\ Claimants = {n \in Threads : making[n].at \in Claiming}
           /\ IsFiniteSet(Claimants) /\ Cardinality(Claimants) \in Nat /\ Claimants \subseteq Threads
<1>1. Claimants = {n \in Threads : making[n].at \in Claiming} BY DEF Claimants, Holders, Claiming
<1>2. Threads = 1..Len(making) /\ Len(making) \in Nat BY LenProperties DEF ThumbTypes, Threads
<1>3. IsFiniteSet(Threads) BY <1>2, FS_Interval
<1>4. Claimants \in SUBSET Threads BY <1>1
<1> QED BY <1>1, <1>3, <1>4, FS_Subset, FS_CardinalityType

(* A step that sends no thread to sleep, and after which all that claimed a permit still do. *)
LEMMA ClaimantsStay ==
    ASSUME ThumbTypes, ThumbTypes', NobodyIsStuck, Threads \subseteq Threads',
           \A m \in Threads : making[m].at \in Claiming => making'[m].at \in Claiming,
           \A m \in Threads' : making'[m].at = "sleeping" => m \in Threads /\ making[m].at = "sleeping"
    PROVE  NobodyIsStuck'
<1>1. /\ Claimants = {n \in Threads : making[n].at \in Claiming}
      /\ IsFiniteSet(Claimants) /\ Cardinality(Claimants) \in Nat
    BY ClaimantsAre
<1>2. /\ Claimants' = {n \in Threads' : making'[n].at \in Claiming}
      /\ IsFiniteSet(Claimants') /\ Cardinality(Claimants') \in Nat
  <2>1. Claimants' = {n \in Threads' : making'[n].at \in Claiming} BY DEF Claimants, Holders, Claiming
  <2>2. Threads' = 1..Len(making') /\ Len(making') \in Nat BY LenProperties DEF ThumbTypes, Threads
  <2>3. IsFiniteSet(Threads') BY <2>2, FS_Interval
  <2>4. Claimants' \in SUBSET Threads' BY <2>1
  <2> QED BY <2>1, <2>3, <2>4, FS_Subset, FS_CardinalityType
<1>3. Claimants \in SUBSET Claimants' BY <1>1, <1>2
<1>4. Cardinality(Claimants) <= Cardinality(Claimants') BY <1>2, <1>3, FS_Subset
<1>5. Sleeping' # {} => Sleeping # {} BY DEF Sleeping
<1>6. MaxConcurrent \in Nat BY ThumbnailsAssumption
<1> DEFINE c == Cardinality(Claimants)
           d == Cardinality(Claimants')
<1>7. c \in Nat /\ d \in Nat /\ c <= d BY <1>1, <1>2, <1>4
<1> HIDE DEF c, d
<1>8. c >= MaxConcurrent => d >= MaxConcurrent BY <1>6, <1>7
<1> QED BY <1>5, <1>8 DEF NobodyIsStuck, c, d

(* One thread moves on, and does not sleep. *)
LEMMA MovesClaim ==
    ASSUME ThumbInv, ThumbInv', NobodyIsStuck, NEW n \in Threads, NEW at, Moves(n, at), at # "sleeping",
           making[n].at \in Claiming => at \in Claiming
    PROVE  NobodyIsStuck'
<1>1. ThumbTypes /\ ThumbTypes' BY DEF ThumbInv
<1>2. Threads' = Threads /\ making'[n].at = at BY DEF Moves
<1>3. \A m \in Threads \ {n} :
          making'[m].at = making[m].at \/ (making[m].at = "sleeping" /\ making'[m].at = "queued")
    BY DEF Moves
<1>4. \A m \in Threads : making[m].at \in Claiming => making'[m].at \in Claiming
    BY <1>2, <1>3 DEF Claiming
<1>5. \A m \in Threads' : making'[m].at = "sleeping" => m \in Threads /\ making[m].at = "sleeping"
    BY <1>2, <1>3
<1> QED BY <1>1, <1>2, <1>4, <1>5, ClaimantsStay

(* One gives its permit back: in its place one that sleeps is woken. *)
LEMMA ReleaseWakes ==
    ASSUME ThumbInv, ThumbInv', NobodyIsStuck, NEW n \in Threads, NEW at \in {"made", "nothing"},
           making[n].at \in Holding, Release(n, at)
    PROVE  NobodyIsStuck'
<1>1. ThumbTypes /\ ThumbTypes' /\ making \in Seq(Jobs) /\ Threads = 1..Len(making)
    BY JobType DEF ThumbInv, ThumbTypes
<1>2. at \in JobStates /\ making[n].at # "sleeping" BY DEF JobStates, Holding
<1>3. Moves(n, at) BY <1>1, <1>2, ReleaseMoves
<1>4. Threads' = Threads /\ making'[n].at = at BY <1>3 DEF Moves
<1>5. \A m \in Threads \ {n} :
          making'[m].at = making[m].at \/ (making[m].at = "sleeping" /\ making'[m].at = "queued")
    BY <1>3 DEF Moves
<1>6. CASE Sleeping = {}
  <2>1. \A m \in Threads : making[m].at # "sleeping" BY <1>6 DEF Sleeping
  <2>2. \A m \in Threads' : making'[m].at # "sleeping" BY <1>4, <1>5, <2>1
  <2>3. Sleeping' = {} BY <2>2 DEF Sleeping
  <2> QED BY <2>3 DEF NobodyIsStuck
<1>7. CASE Sleeping # {}
  <2>1. PICK m \in Sleeping : making' = [making EXCEPT ![n].at = at, ![m].at = "queued"]
      BY <1>7 DEF Release
  <2>2. m \in Threads /\ making[m].at = "sleeping" /\ m # n BY <1>2 DEF Sleeping
  <2> DEFINE t == [making EXCEPT ![n].at = at]
             u == [t EXCEPT ![m].at = "queued"]
  <2>3. /\ t \in Seq(Jobs) /\ Len(t) = Len(making) /\ t[n].at = at
        /\ \A k \in 1..Len(making) : k # n => t[k] = making[k]
      BY <1>1, <1>2, JobChanged
  <2>4. making' = u BY <2>1
  <2> HIDE DEF t
  <2>5. m \in 1..Len(t) /\ "queued" \in JobStates BY <1>1, <2>2, <2>3 DEF JobStates
  <2>6. u[m].at = "queued" /\ \A k \in 1..Len(t) : k # m => u[k] = t[k] BY <2>3, <2>5, JobChanged
  <2> HIDE DEF u
  <2>7. \A k \in Threads : k # n /\ k # m => making'[k] = making[k] BY <1>1, <2>3, <2>4, <2>6
  <2>8. Claimants = {k \in Threads : making[k].at \in Claiming} /\ IsFiniteSet(Claimants)
        /\ Cardinality(Claimants) \in Nat
      BY <1>1, ClaimantsAre
  <2>9. Claimants' = {k \in Threads' : making'[k].at \in Claiming} BY DEF Claimants, Holders, Claiming
  <2>10. n \in Claimants /\ m \notin Claimants /\ m \in Claimants' /\ n \notin Claimants'
      BY <1>4, <2>2, <2>4, <2>6, <2>8, <2>9 DEF Claiming, Holding
  <2>11. Claimants' = (Claimants \ {n}) \cup {m} BY <1>4, <2>2, <2>7, <2>8, <2>9, <2>10
  <2> DEFINE d == Claimants \ {n}
  <2>12. IsFiniteSet(d) /\ Cardinality(d) = Cardinality(Claimants) - 1 BY <2>8, <2>10, FS_RemoveElement
  <2>13. m \notin d BY <2>10
  <2> HIDE DEF d
  <2>14. Cardinality(d \cup {m}) = Cardinality(d) + 1 BY <2>12, <2>13, FS_AddElement
  <2>15. Cardinality(d \cup {m}) = Cardinality(Claimants) BY <2>8, <2>12, <2>14
  <2>16. Cardinality(Claimants') = Cardinality(Claimants) BY <2>11, <2>15 DEF d
  <2>17. Cardinality(Claimants) >= MaxConcurrent BY <1>7 DEF NobodyIsStuck
  <2> QED BY <2>16, <2>17 DEF NobodyIsStuck
<1> QED BY <1>6, <1>7

(* One goes to sleep when all permits are taken. *)
LEMMA AcquireWakes ==
    ASSUME ThumbInv, ThumbInv', NobodyIsStuck, NEW n \in Threads, Acquire(n)
    PROVE  NobodyIsStuck'
<1>1. making[n].at = "queued" /\ ThumbTypes /\ ThumbTypes' BY DEF Acquire, ThumbInv
<1>2. CASE used < MaxConcurrent
  <2>1. MovesOn(n, "permitted") /\ "permitted" \in JobStates BY <1>2 DEF Acquire, JobStates, Holding
  <2>2. Moves(n, "permitted") BY <1>1, <2>1, MovesOnMoves
  <2> QED BY <2>2, MovesClaim DEF Claiming, Holding
<1>3. CASE ~(used < MaxConcurrent)
  <2>1. MovesOn(n, "sleeping") /\ "sleeping" \in JobStates BY <1>3 DEF Acquire, JobStates
  <2>2. Moves(n, "sleeping") BY <1>1, <2>1, MovesOnMoves
  <2>3. "sleeping" \notin Holding BY DEF Holding
  <2>4. Holders' = Holders \ {n} /\ IsFiniteSet(Holders) /\ Cardinality(Holders) \in Nat
      BY <1>1, <2>2, <2>3, HoldersMove
  <2>5. n \notin Holders BY <1>1 DEF Holders, Holding
  <2>6. Holders' = Holders BY <2>4, <2>5
  <2>7. Cardinality(Holders) >= MaxConcurrent
    <3>1. used = Cardinality(Holders) /\ MaxConcurrent \in Nat
        BY ThumbnailsAssumption DEF ThumbInv, PermitsFit
    <3> DEFINE h == Cardinality(Holders)
    <3>2. used = h /\ h \in Nat BY <2>4, <3>1
    <3> HIDE DEF h
    <3>3. h >= MaxConcurrent BY <1>3, <3>1, <3>2
    <3> QED BY <3>3 DEF h
  <2>8. IsFiniteSet(Claimants') /\ Cardinality(Claimants') \in Nat
    <3>1. Threads' = 1..Len(making') /\ Len(making') \in Nat BY <1>1, LenProperties DEF ThumbTypes, Threads
    <3>2. IsFiniteSet(Threads') BY <3>1, FS_Interval
    <3>3. Claimants' \in SUBSET Threads' BY DEF Claimants, Holders
    <3> QED BY <3>2, <3>3, FS_Subset, FS_CardinalityType
  <2>9. Holders \in SUBSET Claimants' BY <2>6 DEF Claimants
  <2>10. Cardinality(Holders) <= Cardinality(Claimants') BY <2>8, <2>9, FS_Subset
  <2>11. Cardinality(Claimants') >= MaxConcurrent
    <3> DEFINE h == Cardinality(Holders)
               c == Cardinality(Claimants')
    <3>1. h \in Nat /\ c \in Nat /\ h <= c /\ h >= MaxConcurrent /\ MaxConcurrent \in Nat
        BY <2>4, <2>7, <2>8, <2>10, ThumbnailsAssumption
    <3> HIDE DEF h, c
    <3>2. c >= MaxConcurrent BY <3>1
    <3> QED BY <3>2 DEF c
  <2> QED BY <2>11 DEF NobodyIsStuck
<1> QED BY <1>2, <1>3

(* Threads that are begun neither sleep nor claim yet. *)
LEMMA AsksClaim ==
    ASSUME ThumbInv, ThumbInv', NobodyIsStuck, NEW added \in Seq(Jobs), making' = making \o added,
           \A i \in 1..Len(added) : added[i].at = "asked"
    PROVE  NobodyIsStuck'
<1> DEFINE k == Len(making)
<1>1. making \in Seq(Jobs) /\ ThumbTypes /\ ThumbTypes' BY DEF ThumbInv, ThumbTypes
<1>2. /\ making' \in Seq(Jobs) /\ Len(making') = k + Len(added) /\ k \in Nat /\ Len(added) \in Nat
      /\ \A i \in 1..(k + Len(added)) : making'[i] = IF i <= k THEN making[i] ELSE added[i - k]
    BY <1>1, ConcatProperties, LenProperties
<1>3. Threads = 1..k /\ Threads' = 1..(k + Len(added)) BY <1>1, <1>2, LenProperties DEF Threads
<1>4. Threads \subseteq Threads' BY <1>2, <1>3
<1>5. \A i \in Threads : making'[i] = making[i] BY <1>2, <1>3
<1>6. \A i \in Threads' : i \notin Threads => making'[i].at = "asked"
  <2> SUFFICES ASSUME NEW i \in Threads', i \notin Threads PROVE making'[i].at = "asked" OBVIOUS
  <2>1. i \in 1..(k + Len(added)) /\ ~(i <= k) /\ i - k \in 1..Len(added) BY <1>2, <1>3
  <2> QED BY <1>2, <2>1
<1> QED BY <1>1, <1>4, <1>5, <1>6, ClaimantsStay

(* A step that leaves the threads alone. *)
LEMMA UndisturbedClaim ==
    ASSUME NobodyIsStuck, UNCHANGED making PROVE NobodyIsStuck'
BY DEF NobodyIsStuck, Sleeping, Claimants, Holders, Threads

(* Target: the thread asks for a permit now, or has no need of one. *)
LEMMA TargetClaims ==
    ASSUME ThumbInv, ThumbInv', NobodyIsStuck, NEW n \in Threads, Target(n)
    PROVE  NobodyIsStuck'
<1> DEFINE key == CachedPath(making[n].file)
           at == IF InCache(key) THEN "made" ELSE "queued"
           j == [making[n] EXCEPT !.target = key, !.at = at]
<1>1. making[n].at = "asked" /\ making' = [making EXCEPT ![n].target = key, ![n].at = at] BY DEF Target
<1>2. making \in Seq(Jobs) /\ ThumbTypes /\ ThumbTypes' BY DEF ThumbInv, ThumbTypes
<1>3. /\ DOMAIN making' = DOMAIN making /\ making'[n].at = at
      /\ \A m \in DOMAIN making : m # n => making'[m] = making[m]
  <2>1. making[n] \in Jobs BY <1>2, JobType
  <2> HIDE DEF key, at
  <2>2. j.at = at BY <2>1 DEF Jobs
  <2>3. making' = [making EXCEPT ![n] = j] BY <1>1, <2>1 DEF Jobs
  <2> HIDE DEF j
  <2> QED BY <2>2, <2>3 DEF Threads
<1>4. at # "sleeping" /\ making[n].at \notin Claiming BY <1>1 DEF Claiming, Holding
<1> HIDE DEF at
<1> QED BY <1>2, <1>3, <1>4, ClaimantsStay DEF Threads

(* Bind, which may begin a thread. *)
LEMMA BindClaims ==
    ASSUME ThumbInv, ThumbInv', NobodyIsStuck, NEW r \in Rows, NEW f \in Pictures, Bind(r, f)
    PROVE  NobodyIsStuck'
<1> DEFINE j == [row |-> r, file |-> f, target |-> <<f, 0>>, at |-> "asked", seek |-> 0]
<1>1. making' = making \/ making' = Append(making, j) BY DEF Bind
<1>2. j \in Jobs /\ j.at = "asked" BY NewJob
<1>3. making \in Seq(Jobs) BY DEF ThumbInv, ThumbTypes
<1> HIDE DEF j
<1>4. CASE making' = Append(making, j)
  <2>1. making' = making \o <<j>> BY <1>2, <1>3, <1>4, AppendIsConcat
  <2>2. <<j>> \in Seq(Jobs) /\ Len(<<j>>) = 1 /\ <<j>>[1] = j BY <1>2
  <2>3. \A i \in 1..Len(<<j>>) : <<j>>[i].at = "asked" BY <1>2, <2>2
  <2> QED BY <2>1, <2>2, <2>3, AsksClaim
<1> QED BY <1>1, <1>4, UndisturbedClaim

(* Edit, which may begin many. *)
LEMMA EditClaims ==
    ASSUME ThumbInv, ThumbInv', NobodyIsStuck, NEW f \in Pictures, Edit(f)
    PROVE  NobodyIsStuck'
<1> DEFINE again == {r \in Rows : row[r].bound = f /\ PictureKind[f] # "none"}
           k == Cardinality(again)
           J(r) == [row |-> r, file |-> f, target |-> <<f, 0>>, at |-> "asked", seek |-> 0]
<1>1. PICK order \in Bijection(1..k, again) : making' = making \o [i \in 1..k |-> J(order[i])]
    BY DEF Edit
<1>2. k \in Nat
  <2>1. again \in SUBSET Rows OBVIOUS
  <2>2. IsFiniteSet(again) BY <2>1, FS_Subset, ThumbnailsAssumption
  <2> QED BY <2>2, FS_CardinalityType
<1>3. order \in [1..k -> again] /\ again \subseteq Rows BY <1>1 DEF Bijection, Injection
<1> DEFINE added == [i \in 1..k |-> J(order[i])]
<1>4. added \in Seq(Jobs) /\ Len(added) = k /\ \A i \in 1..k : added[i] = J(order[i])
  <2>1. \A i \in 1..k : J(order[i]) \in Jobs
    <3> TAKE i \in 1..k
    <3>1. order[i] \in Rows BY <1>3
    <3> QED BY <3>1, NewJob
  <2> HIDE DEF J, k
  <2>2. added \in [1..k -> Jobs] BY <2>1
  <2> QED BY <1>2, <2>2
<1>5. \A i \in 1..Len(added) : added[i].at = "asked" BY <1>4
<1>6. making' = making \o added BY <1>1
<1> HIDE DEF added
<1> QED BY <1>4, <1>5, <1>6, AsksClaim

(* No step leaves a thread asleep that nobody will wake. *)
LEMMA StuckStep == ASSUME ThumbInv, ThumbInv', NobodyIsStuck, [ThumbNext]_thumbVars PROVE NobodyIsStuck'
<1>0. ThumbTypes BY DEF ThumbInv
<1>1. CASE UNCHANGED thumbVars BY <1>1, UndisturbedClaim DEF thumbVars
<1>2. CASE \E r \in Rows : Unbind(r) BY <1>2, UndisturbedClaim DEF Unbind
<1>3. CASE \E r \in Rows : \E f \in Pictures : Bind(r, f) BY <1>3, BindClaims
<1>4. CASE \E f \in Pictures : Edit(f) BY <1>4, EditClaims
<1>5. ASSUME NEW n \in Threads, NEW at \in JobStates \ {"sleeping"}, MovesOn(n, at),
             making[n].at \in Claiming => at \in Claiming
      PROVE  NobodyIsStuck'
  <2>1. Moves(n, at) BY <1>0, <1>5, MovesOnMoves
  <2> QED BY <1>5, <2>1, MovesClaim
<1>6. ASSUME NEW n \in Threads, RenderToPng(n) PROVE NobodyIsStuck'
  <2>1. CASE making[n].at = "rendering"
    <3>1. PICK at \in {"failed", "drawn"} : MovesOn(n, at) BY <1>6, <2>1 DEF RenderToPng
    <3>2. at \in JobStates \ {"sleeping"} /\ at \in Claiming BY DEF JobStates, Claiming, Holding
    <3> QED BY <1>5, <3>1, <3>2
  <2>2. CASE making[n].at # "rendering" BY <1>6, <2>2, UndisturbedClaim DEF RenderToPng
  <2> QED BY <2>1, <2>2
<1>7. ASSUME NEW n \in Threads, Recheck(n) PROVE NobodyIsStuck'
  <2>1. making[n].at \in Holding BY <1>7 DEF Recheck, Holding
  <2>2. CASE \E at \in {"made", "nothing"} : Release(n, at) BY <2>1, <2>2, ReleaseWakes
  <2>3. CASE \E at \in {"placing", "drawing"} : MovesOn(n, at)
    <3>1. PICK at \in {"placing", "drawing"} : MovesOn(n, at) BY <2>3
    <3>2. at \in JobStates \ {"sleeping"} /\ at \in Claiming BY DEF JobStates, Claiming, Holding
    <3> QED BY <1>5, <3>1, <3>2
  <2> QED BY <1>7, <2>2, <2>3 DEF Recheck
<1>8. ASSUME NEW n \in Threads, Draw(n) \/ Drawn(n) \/ SpawnGuarded(n) \/ RenderTimeout(n) PROVE NobodyIsStuck'
  <2>1. CASE \E at \in {"writing", "drawn", "failed", "rendering"} : MovesOn(n, at)
    <3>1. PICK at \in {"writing", "drawn", "failed", "rendering"} : MovesOn(n, at) BY <2>1
    <3>2. at \in JobStates \ {"sleeping"} /\ at \in Claiming BY DEF JobStates, Claiming, Holding
    <3> QED BY <1>5, <3>1, <3>2
  <2>2. CASE making' = [making EXCEPT ![n].at = "drawing", ![n].seek = 1]
    <3>1. ThumbTypes' BY DEF ThumbInv
    <3>2. making \in Seq(Jobs) /\ making[n] \in Jobs BY <1>0, JobType DEF ThumbTypes
    <3> DEFINE j == [making[n] EXCEPT !.at = "drawing", !.seek = 1]
    <3>3. j.at = "drawing" BY <3>2 DEF Jobs
    <3>4. making' = [making EXCEPT ![n] = j] BY <2>2, <3>2 DEF Jobs
    <3> HIDE DEF j
    <3>5. /\ DOMAIN making' = DOMAIN making /\ making'[n].at = "drawing"
          /\ \A m \in DOMAIN making : m # n => making'[m] = making[m]
        BY <3>3, <3>4 DEF Threads
    <3>6. "drawing" \in Claiming BY DEF Claiming, Holding
    <3> QED BY <1>0, <3>1, <3>5, <3>6, ClaimantsStay DEF Threads
  <2> QED BY <1>8, <2>1, <2>2 DEF Draw, Drawn, SpawnGuarded, RenderTimeout
<1>9. ASSUME NEW n \in Threads, Rename(n) \/ GiveUp(n) PROVE NobodyIsStuck'
  <2>1. making[n].at \in Holding BY <1>9 DEF Rename, GiveUp, Holding
  <2>2. \E at \in {"made", "nothing"} : Release(n, at) BY <1>9 DEF Rename, GiveUp
  <2> QED BY <2>1, <2>2, ReleaseWakes
<1>10. ASSUME NEW n \in Threads, Apply(n) PROVE NobodyIsStuck'
  <2>1. MovesOn(n, "over") /\ making[n].at \notin Claiming BY <1>10 DEF Apply, Claiming, Holding
  <2>2. "over" \in JobStates \ {"sleeping"} BY DEF JobStates
  <2> QED BY <1>5, <2>1, <2>2
<1>11. CASE \E n \in Threads : Make(n)
  <2>1. PICK n \in Threads : Make(n) BY <1>11
  <2> QED BY <1>7, <1>8, <1>9, <1>10, <2>1, TargetClaims, AcquireWakes DEF Make
<1> QED BY <1>1, <1>2, <1>3, <1>4, <1>6, <1>11 DEF ThumbNext

(* Thumbnails are of their file and whole, and no wake-up is lost, for any rows, files and
   numbers of permits and places. *)
THEOREM ThumbnailsAreAlwaysRight == ThumbSpec => []ThumbnailsAreRight
<1>1. ThumbInit => NobodyIsStuck
  <2> SUFFICES ASSUME ThumbInit PROVE NobodyIsStuck OBVIOUS
  <2>1. Sleeping = {} BY DEF ThumbInit, Sleeping, Threads
  <2> QED BY <2>1 DEF NobodyIsStuck
<1>2. ThumbInit => ThumbInv BY InitOfThumbs
<1>3. ThumbInv /\ [ThumbNext]_thumbVars => ThumbInv' BY NextOfThumbs
<1>4. ThumbInv /\ ThumbInv' /\ NobodyIsStuck /\ [ThumbNext]_thumbVars => NobodyIsStuck' BY StuckStep
<1>5. ThumbSpec => []NobodyIsStuck BY <1>1, <1>2, <1>3, <1>4, PTL DEF ThumbSpec
<1> QED BY <1>5, RowsAlwaysShowTheirFile, PTL DEF ThumbnailsAreRight
===============================================================================
