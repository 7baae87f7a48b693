------------------------- MODULE FileOperationsProofs -------------------------
(***************************************************************************)
(* What is proved of FileOperations and TrashFs for every choice of      *)
(* paths, requests, devices, names and bounds.                           *)
(*                                                                       *)
(* TypeOK is not inductive by itself.  That files stay trees needs the   *)
(* same of what lies in the trash, and that a restore puts a tree back   *)
(* where it came from: the key of an item in the trash names the         *)
(* operation and the item, every pair of a Trash names a key and its     *)
(* origin (TrashFits, RecordsFit), and a task keeps to a request made    *)
(* (TaskFits).  That nothing is written over unagreed needs that, alone, *)
(* a task finds its target and an undo its way as they were left         *)
(* (AloneFits).  FilesInv says all that.  That nothing is lost needs     *)
(* MovesFit besides: what a move copied before it deletes its source.    *)
(*                                                                       *)
(* Of the trash directories (TrashFs): what lies under a name is listed  *)
(* under its path (InfosFit), a call finds name and info as it left them *)
(* (CallFits), each file of what is moved is whole on one side, and the  *)
(* undo stack holds different items, none of them the one being restored *)
(* (HeldFits, HeldApart): TrashInv.                                      *)
(***************************************************************************)
EXTENDS Integers, FileOperations, TrashFs, SequenceTheorems, FiniteSetTheorems,
        WellFoundedInduction, TLAPS

-------------------------------------------------------------------------------
(* The inductive invariant. *)

(* What stands above something that is there is a folder. *)
IsTree(f) == \A p \in Paths : Present(f, p) => \A a \in Above(p) : Is(f, a, "dir")

Kinds == Transfers \cup Removals \cup {"none", "Rename", "CreateDirectory", "CreateFile"}
Spots == Paths \cup {<<>>}
Keys   == OpIds \X Nat
Pairs  == [from : Paths, to : Paths \cup Keys]
TaskRecords ==
    [kind : Kinds, sources : Seq(Paths), dest : Spots, pc : Pcs, idx : Nat, target : Spots,
     replaces : BOOLEAN, made : Seq(Pairs)]
UndoRecords == [op : OpIds, kind : Kinds, pairs : Seq(Pairs), undoable : BOOLEAN]
Undos == [pc : {"idle", "pair", "rename"}, op : OpIds \cup {0}, kind : Kinds, pairs : Seq(Pairs),
          idx : Nat \ {0}, blocked : BOOLEAN]

FilesTypes ==
    /\ scene \in Scenes
    /\ fs \in [Paths -> Nodes] /\ IsTree(fs)
    /\ task \in [OpIds -> TaskRecords]
    /\ records \in Seq(UndoRecords) /\ Len(records) <= MaxUndo
    /\ undo \in Undos

(* A task works on what was asked for, the item it is at has a place to go. *)
TaskFits(r) ==
    /\ r.pc # "new" => IsRequest(r)
    /\ r.idx \in 1..(Len(r.sources) + 1)
    /\ r.pc \in {"replace", "write", "delete"} =>
          r.kind \in Transfers /\ r.idx <= Len(r.sources) /\ r.target \in Paths
    /\ r.pc = "replace" => r.replaces
    /\ r.pc = "record" => r.kind = "Rename"

(* What lies in the trash is named by the operation that put it there and the item it was;
   tasks is a value of task. *)
IsKey(tasks, k) ==
    k \in Keys /\ tasks[k[1]].pc # "new" /\ k[2] \in 1..Len(tasks[k[1]].sources)
Origin(tasks, k) == tasks[k[1]].sources[k[2]]

IsTreeAt(p, t) ==
    /\ t \in [Under(p) -> Nodes]
    /\ \A q \in Under(p) : Present(t, q) => \A a \in Above(q) \cap Under(p) : Is(t, a, "dir")

EntryFits(tasks, k, entry) ==
    IsKey(tasks, k) /\ entry.path = Origin(tasks, k) /\ IsTreeAt(entry.path, entry.tree)

TrashFits == \A k \in DOMAIN trash : EntryFits(task, k, trash[k])

(* What an operation has made: where it was, and where it is. *)
PairsFit(tasks, kind, pairs) ==
    \A i \in 1..Len(pairs) :
        IF kind = "Trash"
        THEN IsKey(tasks, pairs[i].to) /\ pairs[i].from = Origin(tasks, pairs[i].to)
        ELSE pairs[i].to \in Paths

RecordsFit ==
    /\ \A o \in OpIds : TaskFits(task[o]) /\ PairsFit(task, task[o].kind, task[o].made)
    /\ \A i \in 1..Len(records) : PairsFit(task, records[i].kind, records[i].pairs)
    /\ PairsFit(task, undo.kind, undo.pairs)
    /\ undo.pc = "rename" => undo.kind = "Move" /\ undo.idx <= Len(undo.pairs)

(* Alone, a task or an undo finds the place it goes to as it left it. *)
AloneFits ==
    Alone => /\ \A o, other \in Running : o = other
             /\ undo.pc # "idle" => Running = {}
             /\ \A o \in OpIds : At(o, "write") /\ ~task[o].replaces => ~Present(fs, task[o].target)
             /\ undo.pc = "rename" => ~InTheWay

FilesInv == FilesTypes /\ TrashFits /\ RecordsFit /\ AloneFits

-------------------------------------------------------------------------------
(* Names in paths. *)

(* A prefix agrees with the longer path name by name. *)
LEMMA PrefixByNames ==
    ASSUME NEW p \in Seq(STRING), NEW q \in Seq(STRING)
    PROVE  IsPrefix(p, q) <=> Len(p) <= Len(q) /\ \A i \in 1..Len(p) : p[i] = q[i]
<1>1. CASE Len(p) <= Len(q)
  <2>1. /\ SubSeq(p, 1, Len(p)) = p
        /\ Len(p) \in Nat /\ Len(q) \in Nat
    BY SubSeqFull, LenProperties
  <2>2. /\ SubSeq(q, 1, Len(p)) \in Seq(STRING)
        /\ Len(SubSeq(q, 1, Len(p))) = Len(p)
        /\ \A i \in 1..Len(p) : SubSeq(q, 1, Len(p))[i] = q[i]
    BY <1>1, <2>1, ElementOfSeq, SubSeqProperties
  <2>3. SubSeq(q, 1, Len(p)) = p <=> \A i \in 1..Len(p) : p[i] = q[i] BY <2>2, SeqEqual
  <2> QED BY <1>1, <2>1, <2>3 DEF IsPrefix
<1>2. CASE ~(Len(p) <= Len(q)) BY <1>2 DEF IsPrefix
<1> QED BY <1>1, <1>2

(* Being a prefix is an order, and what lies above one path is in line. *)
LEMMA PrefixOrder ==
    ASSUME NEW p \in Seq(STRING), NEW q \in Seq(STRING), NEW r \in Seq(STRING)
    PROVE  /\ IsPrefix(p, p)
           /\ IsPrefix(p, q) /\ IsPrefix(q, r) => IsPrefix(p, r)
           /\ IsPrefix(p, q) /\ IsPrefix(q, p) => p = q
           /\ IsPrefix(p, r) /\ IsPrefix(q, r) => IsPrefix(p, q) \/ IsPrefix(q, p)
<1>1. Len(p) \in Nat /\ Len(q) \in Nat /\ Len(r) \in Nat BY LenProperties
<1>2. IsPrefix(p, p) BY <1>1, PrefixByNames
<1>3. ASSUME IsPrefix(p, q), IsPrefix(q, r) PROVE IsPrefix(p, r) BY <1>3, PrefixByNames, <1>1
<1>4. ASSUME IsPrefix(p, q), IsPrefix(q, p) PROVE p = q BY <1>4, PrefixByNames, <1>1, SeqEqual
<1>5. ASSUME IsPrefix(p, r), IsPrefix(q, r) PROVE IsPrefix(p, q) \/ IsPrefix(q, p)
  <2>1. \A i \in 1..Len(p) : p[i] = r[i] BY <1>5, PrefixByNames
  <2>2. \A i \in 1..Len(q) : q[i] = r[i] BY <1>5, PrefixByNames
  <2>3. CASE Len(p) <= Len(q) BY <1>1, <2>1, <2>2, <2>3, PrefixByNames
  <2>4. CASE Len(q) <= Len(p) BY <1>1, <2>1, <2>2, <2>4, PrefixByNames
  <2> QED BY <1>1, <2>3, <2>4
<1> QED BY <1>2, <1>3, <1>4, <1>5

(* The names of a path moved from a to b. *)
LEMMA RebaseNames ==
    ASSUME NEW p \in Seq(STRING), NEW a \in Seq(STRING), NEW b \in Seq(STRING), IsPrefix(a, p)
    PROVE  /\ Rebase(p, a, b) \in Seq(STRING)
           /\ Len(Rebase(p, a, b)) = Len(b) + (Len(p) - Len(a))
           /\ \A i \in 1..Len(b) : Rebase(p, a, b)[i] = b[i]
           /\ \A i \in 1..(Len(p) - Len(a)) : Rebase(p, a, b)[Len(b) + i] = p[Len(a) + i]
<1> DEFINE rest == SubSeq(p, Len(a) + 1, Len(p))
<1>1. Len(p) \in Nat /\ Len(a) \in Nat /\ Len(b) \in Nat /\ Len(a) <= Len(p)
  BY LenProperties, PrefixByNames
<1>2. /\ rest \in Seq(STRING)
      /\ Len(rest) = Len(p) - Len(a)
      /\ \A i \in 1..(Len(p) - Len(a)) : rest[i] = p[Len(a) + i]
  <2>1. \A i \in (Len(a) + 1)..Len(p) : p[i] \in STRING BY <1>1, ElementOfSeq
  <2>2. /\ rest \in Seq(STRING)
        /\ Len(rest) = IF Len(a) + 1 <= Len(p) THEN Len(p) - (Len(a) + 1) + 1 ELSE 0
        /\ \A i \in 1..(Len(p) - (Len(a) + 1) + 1) : rest[i] = p[(Len(a) + 1) + i - 1]
    BY <1>1, <2>1, SubSeqProperties
  <2> HIDE DEF rest
  <2> QED BY <1>1, <2>2
<1>3. Rebase(p, a, b) = b \o rest BY DEF Rebase
<1> HIDE DEF rest
<1>4. /\ b \o rest \in Seq(STRING)
      /\ Len(b \o rest) = Len(b) + Len(rest)
      /\ \A i \in 1..(Len(b) + Len(rest)) :
            (b \o rest)[i] = IF i <= Len(b) THEN b[i] ELSE rest[i - Len(b)]
  BY <1>2, ConcatProperties
<1>5. \A i \in 1..Len(b) : (b \o rest)[i] = b[i] BY <1>1, <1>2, <1>4
<1>6. ASSUME NEW i \in 1..(Len(p) - Len(a)) PROVE (b \o rest)[Len(b) + i] = p[Len(a) + i]
  BY <1>1, <1>2, <1>4
<1> QED BY <1>2, <1>3, <1>4, <1>5, <1>6

(* Moving a path there and back changes nothing. *)
LEMMA RebaseBack ==
    ASSUME NEW p \in Seq(STRING), NEW a \in Seq(STRING), NEW b \in Seq(STRING), IsPrefix(a, p)
    PROVE  /\ IsPrefix(b, Rebase(p, a, b))
           /\ Rebase(Rebase(p, a, b), b, a) = p
<1> DEFINE r == Rebase(p, a, b)
<1>1. Len(p) \in Nat /\ Len(a) \in Nat /\ Len(b) \in Nat /\ Len(a) <= Len(p)
      /\ \A i \in 1..Len(a) : a[i] = p[i]
  BY LenProperties, PrefixByNames
<1>2. /\ r \in Seq(STRING)
      /\ Len(r) = Len(b) + (Len(p) - Len(a))
      /\ \A i \in 1..Len(b) : r[i] = b[i]
      /\ \A i \in 1..(Len(p) - Len(a)) : r[Len(b) + i] = p[Len(a) + i]
  BY RebaseNames
<1> HIDE DEF r
<1>3. IsPrefix(b, r) BY <1>1, <1>2, PrefixByNames
<1> DEFINE back == Rebase(r, b, a)
<1>4. /\ back \in Seq(STRING)
      /\ Len(back) = Len(a) + (Len(r) - Len(b))
      /\ \A i \in 1..Len(a) : back[i] = a[i]
      /\ \A i \in 1..(Len(r) - Len(b)) : back[Len(a) + i] = r[Len(b) + i]
  BY <1>2, <1>3, RebaseNames
<1> HIDE DEF back
<1>5. Len(back) = Len(p) BY <1>1, <1>2, <1>4
<1>6. ASSUME NEW i \in 1..Len(p) PROVE back[i] = p[i]
  <2>1. CASE i <= Len(a) BY <1>1, <1>4, <2>1
  <2>2. CASE ~(i <= Len(a))
    <3>1. /\ i - Len(a) \in 1..(Len(p) - Len(a)) /\ Len(a) + (i - Len(a)) = i
          /\ Len(r) - Len(b) = Len(p) - Len(a)
      BY <1>1, <1>2, <2>2
    <3>2. back[Len(a) + (i - Len(a))] = r[Len(b) + (i - Len(a))] BY <1>4, <3>1
    <3>3. r[Len(b) + (i - Len(a))] = p[Len(a) + (i - Len(a))] BY <1>2, <3>1
    <3> QED BY <3>1, <3>2, <3>3
  <2> QED BY <2>1, <2>2
<1>7. back = p BY <1>4, <1>5, <1>6, SeqEqual
<1> QED BY <1>3, <1>7 DEF back, r

(* Moving keeps what is below what. *)
LEMMA RebaseKeepsOrder ==
    ASSUME NEW p \in Seq(STRING), NEW q \in Seq(STRING), NEW a \in Seq(STRING), NEW b \in Seq(STRING),
           IsPrefix(a, p), IsPrefix(a, q)
    PROVE  IsPrefix(p, q) => IsPrefix(Rebase(p, a, b), Rebase(q, a, b))
<1> DEFINE rp == Rebase(p, a, b)
           rq == Rebase(q, a, b)
<1>1. /\ Len(p) \in Nat /\ Len(q) \in Nat /\ Len(a) \in Nat /\ Len(b) \in Nat
      /\ Len(a) <= Len(p) /\ Len(a) <= Len(q)
  BY LenProperties, PrefixByNames
<1>2. /\ rp \in Seq(STRING)
      /\ Len(rp) = Len(b) + (Len(p) - Len(a))
      /\ \A i \in 1..Len(b) : rp[i] = b[i]
      /\ \A i \in 1..(Len(p) - Len(a)) : rp[Len(b) + i] = p[Len(a) + i]
  BY RebaseNames, ZenonT(30)
<1>3. /\ rq \in Seq(STRING)
      /\ Len(rq) = Len(b) + (Len(q) - Len(a))
      /\ \A i \in 1..Len(b) : rq[i] = b[i]
      /\ \A i \in 1..(Len(q) - Len(a)) : rq[Len(b) + i] = q[Len(a) + i]
  BY RebaseNames
<1> HIDE DEF rp, rq
<1>4. SUFFICES ASSUME IsPrefix(p, q) PROVE IsPrefix(rp, rq) BY DEF rp, rq
<1>5. Len(p) <= Len(q) /\ \A i \in 1..Len(p) : p[i] = q[i] BY <1>4, PrefixByNames
<1>6. ASSUME NEW i \in 1..Len(rp) PROVE rp[i] = rq[i]
  <2>1. CASE i <= Len(b) BY <1>1, <1>2, <1>3, <2>1
  <2>2. CASE ~(i <= Len(b))
    <3>1. /\ i - Len(b) \in 1..(Len(p) - Len(a)) /\ Len(b) + (i - Len(b)) = i
          /\ i - Len(b) \in 1..(Len(q) - Len(a))
          /\ Len(a) + (i - Len(b)) \in 1..Len(p)
      BY <1>1, <1>2, <1>5, <2>2
    <3>2. rp[Len(b) + (i - Len(b))] = p[Len(a) + (i - Len(b))] BY <1>2, <3>1
    <3>3. rq[Len(b) + (i - Len(b))] = q[Len(a) + (i - Len(b))] BY <1>3, <3>1
    <3>4. p[Len(a) + (i - Len(b))] = q[Len(a) + (i - Len(b))] BY <1>5, <3>1
    <3> QED BY <3>1, <3>2, <3>3, <3>4
  <2> QED BY <2>1, <2>2
<1>7. Len(rp) <= Len(rq) BY <1>1, <1>2, <1>3, <1>5
<1> QED BY <1>2, <1>3, <1>6, <1>7, PrefixByNames

-------------------------------------------------------------------------------
(* The tree of paths. *)

(* A path is a sequence of names, not an empty one. *)
LEMMA PathNames ==
    ASSUME NEW p \in Paths
    PROVE  p \in Seq(STRING) /\ p # <<>> /\ Len(p) \in Nat \ {0}
BY FilesAssumption, EmptySeq DEF FilesAssumption

(* What a path starts with is a path. *)
LEMMA PrefixIsPath ==
    ASSUME NEW p \in Paths, NEW q \in Seq(STRING), q # <<>>, IsPrefix(q, p)
    PROVE  q \in Paths
<1>1. Len(q) \in 1..Len(p) BY PathNames, EmptySeq, PrefixByNames
<1>2. q = SubSeq(p, 1, Len(q)) BY SubSeqFull DEF IsPrefix
<1> QED BY <1>1, <1>2, FilesAssumption DEF FilesAssumption

(* How Under and Above go together. *)
LEMMA UnderAbove ==
    ASSUME NEW p \in Paths, NEW x \in Paths
    PROVE  /\ x \in Under(x) /\ x \notin Above(x)
           /\ p \in Above(x) => p \notin Under(x) /\ Above(p) \subseteq Above(x)
           /\ p \in Under(x) => Under(p) \subseteq Under(x) /\ Above(x) \subseteq Above(p)
           /\ p \in Under(x) /\ p # x => x \in Above(p)
           /\ \A a \in Above(p) : /\ a \in Under(x) => p \in Under(x)
                                  /\ p \in Under(x) /\ a \notin Under(x) => a \in Above(x)
<1>1. p \in Seq(STRING) /\ x \in Seq(STRING) /\ \A q \in Paths : q \in Seq(STRING) BY PathNames
<1>2. x \in Under(x) /\ x \notin Above(x) BY <1>1, PrefixOrder DEF Under, Above, IsStrictPrefix
<1>3. ASSUME p \in Above(x) PROVE p \notin Under(x) /\ Above(p) \subseteq Above(x)
  <2>1. IsPrefix(p, x) /\ p # x BY <1>3 DEF Above, IsStrictPrefix
  <2>2. ~IsPrefix(x, p) BY <1>1, <2>1, PrefixOrder
  <2>3. ASSUME NEW q \in Above(p) PROVE q \in Above(x)
    BY <2>3, <1>1, <2>1, PrefixOrder DEF Above, IsStrictPrefix
  <2> QED BY <2>2, <2>3 DEF Under
<1>4. ASSUME p \in Under(x) PROVE Under(p) \subseteq Under(x) /\ Above(x) \subseteq Above(p)
  <2>1. IsPrefix(x, p) BY <1>4 DEF Under
  <2>2. ASSUME NEW q \in Under(p) PROVE q \in Under(x) BY <2>2, <1>1, <2>1, PrefixOrder DEF Under
  <2>3. ASSUME NEW q \in Above(x) PROVE q \in Above(p)
    BY <2>3, <1>1, <2>1, PrefixOrder DEF Above, IsStrictPrefix
  <2> QED BY <2>2, <2>3
<1>5. p \in Under(x) /\ p # x => x \in Above(p) BY DEF Under, Above, IsStrictPrefix
<1>6. ASSUME NEW a \in Above(p)
      PROVE  /\ a \in Under(x) => p \in Under(x)
             /\ p \in Under(x) /\ a \notin Under(x) => a \in Above(x)
  <2>1. a \in Paths /\ IsPrefix(a, p) /\ a # p BY DEF Above, IsStrictPrefix
  <2>2. ASSUME a \in Under(x) PROVE p \in Under(x) BY <1>1, <2>1, <2>2, PrefixOrder DEF Under
  <2>3. ASSUME p \in Under(x), a \notin Under(x) PROVE a \in Above(x)
    BY <2>1, <2>3, <1>1, PrefixOrder DEF Under, Above, IsStrictPrefix
  <2> QED BY <2>2, <2>3
<1> QED BY <1>2, <1>3, <1>4, <1>5, <1>6

(* The parent is above a path, and so is only what is above the parent or it. *)
LEMMA AboveAndParent ==
    ASSUME NEW t \in Paths, Parent(t) \in Paths
    PROVE  \A a \in Above(t) : a = Parent(t) \/ a \in Above(Parent(t))
<1> DEFINE n == Len(t) - 1
           u == Parent(t)
<1>1. t \in Seq(STRING) /\ Len(t) \in Nat \ {0} /\ u \in Seq(STRING) BY PathNames
<1>2. Len(u) = n /\ \A i \in 1..n : u[i] = t[i]
  <2>1. \A i \in 1..n : t[i] \in STRING BY <1>1, ElementOfSeq
  <2>2. /\ Len(SubSeq(t, 1, n)) = IF 1 <= n THEN n - 1 + 1 ELSE 0
        /\ \A i \in 1..(n - 1 + 1) : SubSeq(t, 1, n)[i] = t[1 + i - 1]
    BY <1>1, <2>1, SubSeqProperties
  <2>3. u = SubSeq(t, 1, n) /\ n \in Nat BY <1>1 DEF Parent, Front
  <2> HIDE DEF n, u
  <2> QED BY <2>2, <2>3
<1> SUFFICES ASSUME NEW a \in Above(t) PROVE a = u \/ a \in Above(u) OBVIOUS
<1>3. a \in Paths /\ IsPrefix(a, t) /\ a # t BY DEF Above, IsStrictPrefix
<1>4. a \in Seq(STRING) /\ Len(a) \in Nat /\ Len(a) <= Len(t) /\ \A i \in 1..Len(a) : a[i] = t[i]
  BY <1>1, <1>3, PathNames, PrefixByNames
<1>5. Len(a) # Len(t) BY <1>1, <1>3, <1>4, SeqEqual
<1> HIDE DEF u
<1>6. Len(a) <= Len(u) /\ \A i \in 1..Len(a) : a[i] = u[i] BY <1>1, <1>2, <1>4, <1>5
<1>7. IsPrefix(a, u) BY <1>1, <1>4, <1>6, PrefixByNames
<1> QED BY <1>3, <1>7 DEF Above, IsStrictPrefix

(* Below `b` every path is one below `a`, moved. *)
LEMMA RebasedPath ==
    ASSUME NEW a \in Paths, NEW b \in Paths, NEW p \in Under(a)
    PROVE  /\ Rebase(p, a, b) \in Seq(STRING)
           /\ Rebase(Rebase(p, a, b), b, a) = p
           /\ Rebase(p, a, b) \in Paths => Rebase(p, a, b) \in Under(b)
           /\ a = b => Rebase(p, a, b) = p
           /\ \A q \in Above(p) \cap Under(a) :
                 Rebase(p, a, b) \in Paths => Rebase(q, a, b) \in Above(Rebase(p, a, b))
<1>1. /\ a \in Seq(STRING) /\ b \in Seq(STRING) /\ p \in Seq(STRING) /\ p \in Paths /\ IsPrefix(a, p)
      /\ b # <<>>
  BY PathNames DEF Under
<1>2. Rebase(p, a, b) \in Seq(STRING) /\ IsPrefix(b, Rebase(p, a, b)) /\ Rebase(Rebase(p, a, b), b, a) = p
  BY <1>1, RebaseNames, RebaseBack
<1>3. a = b => Rebase(p, a, b) = p
  <2>1. SUFFICES Rebase(p, a, a) = p OBVIOUS
  <2>2. /\ Rebase(p, a, a) \in Seq(STRING)
        /\ Len(Rebase(p, a, a)) = Len(a) + (Len(p) - Len(a))
        /\ \A i \in 1..Len(a) : Rebase(p, a, a)[i] = a[i]
        /\ \A i \in 1..(Len(p) - Len(a)) : Rebase(p, a, a)[Len(a) + i] = p[Len(a) + i]
    BY <1>1, RebaseNames
  <2>3. Len(p) \in Nat /\ Len(a) \in Nat /\ Len(a) <= Len(p) /\ \A i \in 1..Len(a) : a[i] = p[i]
    BY <1>1, LenProperties, PrefixByNames
  <2>4. ASSUME NEW i \in 1..Len(p) PROVE Rebase(p, a, a)[i] = p[i]
    <3>1. CASE i <= Len(a) BY <2>2, <2>3, <3>1
    <3>2. CASE ~(i <= Len(a)) BY <2>3, <3>2, <2>2
    <3> QED BY <3>1, <3>2
  <2> QED BY <1>1, <2>2, <2>3, <2>4, SeqEqual
<1>4. ASSUME NEW q \in Above(p) \cap Under(a), Rebase(p, a, b) \in Paths
      PROVE  Rebase(q, a, b) \in Above(Rebase(p, a, b))
  <2>1. q \in Paths /\ q \in Seq(STRING) /\ IsPrefix(q, p) /\ q # p /\ IsPrefix(a, q)
    BY PathNames DEF Above, IsStrictPrefix, Under
  <2>2. /\ Rebase(q, a, b) \in Seq(STRING) /\ IsPrefix(b, Rebase(q, a, b))
        /\ Rebase(Rebase(q, a, b), b, a) = q
    BY <1>1, <2>1, RebaseNames, RebaseBack
  <2>3. IsPrefix(Rebase(q, a, b), Rebase(p, a, b)) /\ Rebase(q, a, b) # Rebase(p, a, b)
    BY <1>1, <1>2, <2>1, <2>2, RebaseKeepsOrder
  <2>4. Rebase(q, a, b) # <<>> BY <1>1, <2>2, PathNames, PrefixByNames, EmptySeq
  <2>5. Rebase(q, a, b) \in Paths BY <1>4, <2>2, <2>3, <2>4, PrefixIsPath
  <2> QED BY <2>3, <2>5 DEF Above, IsStrictPrefix
<1> QED BY <1>1, <1>2, <1>3, <1>4 DEF Under

-------------------------------------------------------------------------------
(* What the steps make of the tree. *)

(* What may be at a path. *)
LEMMA NodeKinds ==
    /\ \A c \in Nodes : /\ c.kind \in {"none", "dir", "file"}
                        /\ c.kind = "none" => c = Absent
                        /\ c.kind = "dir" => c = Dir
                        /\ c.kind = "file" => c.of \in Paths
    /\ Absent \in Nodes /\ Dir \in Nodes
    /\ Absent.kind = "none" /\ Dir.kind = "dir"
    /\ \A o \in 0..MaxOps, p \in Paths : File(o, p) \in Nodes /\ File(o, p).kind = "file"
<1>1. /\ Absent.kind = "none" /\ Dir.kind = "dir"
      /\ \A o \in 0..MaxOps, p \in Paths : File(o, p).kind = "file" /\ File(o, p).of = p
  BY DEF Absent, Dir, File
<1>2. \A c \in Nodes : c = Absent \/ c = Dir \/ \E o \in 0..MaxOps, p \in Paths : c = File(o, p)
  BY DEF Nodes
<1>3. \A c \in Nodes : /\ c.kind \in {"none", "dir", "file"}
                       /\ c.kind = "none" => c = Absent
                       /\ c.kind = "dir" => c = Dir
                       /\ c.kind = "file" => c.of \in Paths
  BY <1>1, <1>2
<1>4. /\ Absent \in Nodes /\ Dir \in Nodes
      /\ \A o \in 0..MaxOps, p \in Paths : File(o, p) \in Nodes
  BY DEF Nodes
<1> QED BY <1>1, <1>3, <1>4

(* A copy leaves a tree, where nothing blocks it, and only adds there. *)
LEMMA CopyKeepsTree ==
    ASSUME fs \in [Paths -> Nodes], IsTree(fs),
           NEW src \in Paths, NEW dst \in Paths, NEW replaces \in BOOLEAN, NEW o \in OpIds,
           NEW some \in SUBSET ({s \in Under(src) : Present(fs, s)} \ Blocked(src, dst, replaces))
    PROVE  /\ Copied(src, dst, some, o) \in [Paths -> Nodes]
           /\ IsTree(Copied(src, dst, some, o))
           /\ \A p \in Paths :
                 (Is(fs, p, "file") /\ Copied(src, dst, some, o)[p] # fs[p])
                     => replaces /\ IsPrefix(dst, p)
<1> DEFINE made == {Rebase(s, src, dst) : s \in some}
           dirs == made \cup UNION {Above(t) : t \in made}
           f == Copied(src, dst, some, o)
           Files == {q \in made : Is(fs, Rebase(q, dst, src), "file")}
<1>1. ASSUME NEW q \in made
      PROVE  /\ q \in Paths /\ q \in Under(dst)
             /\ Rebase(q, dst, src) \in some /\ Rebase(q, dst, src) \in Under(src)
             /\ Present(fs, Rebase(q, dst, src))
             /\ Is(fs, Rebase(q, dst, src), "dir") => ~Is(fs, q, "file")
             /\ Is(fs, Rebase(q, dst, src), "file") => ~Is(fs, q, "dir") /\ (Is(fs, q, "file") => replaces)
             /\ \A a \in Above(q) : ~Is(fs, a, "file")
  BY RebasedPath DEF Blocked
<1>2. /\ f = [q \in Paths |-> IF q \in Files THEN CopyOf(fs[Rebase(q, dst, src)], o)
                              ELSE IF q \in dirs /\ ~Present(fs, q) THEN Dir ELSE fs[q]]
      /\ \A q \in dirs \ made : \E t \in made : q \in Above(t)
      /\ \A t \in made : t \in dirs /\ Above(t) \subseteq dirs
  BY DEF Copied
<1>3. ASSUME NEW q \in Files
      PROVE  CopyOf(fs[Rebase(q, dst, src)], o) \in Nodes /\ CopyOf(fs[Rebase(q, dst, src)], o).kind = "file"
  <2>1. fs[Rebase(q, dst, src)] \in Nodes /\ fs[Rebase(q, dst, src)].kind = "file" BY <1>1 DEF Is, Under
  <2>2. o \in 0..MaxOps BY FilesAssumption DEF FilesAssumption, OpIds
  <2> QED BY <2>1, <2>2, NodeKinds DEF CopyOf
<1>4. Files \subseteq made /\ Files \subseteq Paths /\ \A q \in Files : ~Is(fs, q, "dir") /\ (Is(fs, q, "file") => replaces)
  BY <1>1
<1> HIDE DEF f, Files, dirs
<1>5. f \in [Paths -> Nodes] BY <1>2, <1>3, NodeKinds
<1>6. \A q \in Paths : /\ q \in Files => f[q].kind = "file"
                       /\ q \notin Files => f[q] = IF q \in dirs /\ ~Present(fs, q) THEN Dir ELSE fs[q]
  BY <1>2, <1>3
<1>7. ASSUME NEW p \in Paths, Is(fs, p, "file"), f[p] # fs[p] PROVE replaces /\ IsPrefix(dst, p)
  BY <1>6, <1>7, <1>1, <1>4 DEF Present, Is, Under
<1>8. ASSUME NEW p \in Paths, Present(f, p), NEW a \in Above(p) PROVE Is(f, a, "dir")
  <2>0. a \in Paths BY DEF Above
  <2>1. CASE p \in dirs
    <3>1. PICK t \in made : p = t \/ p \in Above(t) BY <1>2, <2>1
    <3>2. t \in Paths /\ a \in Above(t) BY <1>1, <3>1, UnderAbove
    <3>3. a \in dirs /\ ~Is(fs, a, "file") BY <1>1, <1>2, <3>2
    <3>4. a \notin Files
      <4>1. SUFFICES ASSUME a \in made PROVE ~Is(fs, Rebase(a, dst, src), "file") BY DEF Files
      <4>2. Rebase(a, dst, src) \in Above(Rebase(t, dst, src))
        BY <1>1, <3>2, <4>1, RebasedPath DEF Under
      <4>3. Present(fs, Rebase(t, dst, src)) /\ Rebase(t, dst, src) \in Paths BY <1>1 DEF Under
      <4>4. Is(fs, Rebase(a, dst, src), "dir") BY <4>2, <4>3 DEF IsTree
      <4> QED BY <4>4 DEF Is
    <3>5. fs[a] \in Nodes BY <2>0
    <3> QED BY <1>6, <2>0, <3>3, <3>4, <3>5, NodeKinds DEF Is, Present
  <2>2. CASE p \notin dirs BY <1>2, <1>4, <1>6, <2>2, <1>8, <2>0 DEF IsTree, Present, Is
  <2> QED BY <2>1, <2>2
<1> QED BY <1>5, <1>7, <1>8 DEF f, IsTree

(* Renaming an item leaves a tree. *)
LEMMA RenameKeepsTree ==
    ASSUME fs \in [Paths -> Nodes], IsTree(fs), NEW s \in Paths, NEW t \in Paths, CanRename(s, t)
    PROVE  /\ Renamed(s, t) \in [Paths -> Nodes]
           /\ IsTree(Renamed(s, t))
           /\ \A p \in Paths :
                 (Is(fs, p, "file") /\ Is(Renamed(s, t), p, "file") /\ Renamed(s, t)[p] # fs[p])
                     => p = t /\ s # t /\ scene.replaces /\ Present(fs, t)
<1> DEFINE f == Renamed(s, t)
<1>1. /\ f \in [Paths -> Nodes]
      /\ \A q \in Paths :
            /\ q \in Under(t) /\ Rebase(q, t, s) \in Paths => f[q] = fs[Rebase(q, t, s)]
            /\ q \in Under(t) /\ Rebase(q, t, s) \notin Paths => f[q] = Absent
            /\ q \notin Under(t) /\ q \in Under(s) => f[q] = Absent
            /\ q \notin Under(t) /\ q \notin Under(s) => f[q] = fs[q]
  BY NodeKinds DEF Renamed
<1> HIDE DEF f
<1>2. ASSUME NEW p \in Paths, Present(f, p), NEW a \in Above(p) PROVE Is(f, a, "dir")
  <2>0. a \in Paths BY DEF Above
  <2>1. CASE p \in Under(t)
    <3>1. Rebase(p, t, s) \in Paths /\ Present(fs, Rebase(p, t, s))
      BY <1>1, <1>2, <2>1, NodeKinds DEF Present, Is
    <3>2. CASE a \in Under(t)
      <4>1. Rebase(a, t, s) \in Above(Rebase(p, t, s)) /\ Rebase(a, t, s) \in Paths
        BY <2>1, <3>1, <3>2, RebasedPath DEF Above
      <4>2. Is(fs, Rebase(a, t, s), "dir") BY <3>1, <4>1 DEF IsTree
      <4> QED BY <1>1, <2>0, <3>2, <4>1, <4>2 DEF Is
    <3>3. CASE a \notin Under(t)
      <4>1. a \in Above(t) BY <2>1, <3>3, UnderAbove
      <4>2. HasParent(t) /\ ~IsStrictPrefix(s, t) BY DEF CanRename
      <4>3. Is(fs, a, "dir") BY <4>2, <4>1, AboveAndParent DEF HasParent, IsTree, Present, Is
      <4>4. a \notin Under(s) BY <4>2, <4>1, <2>0, UnderAbove DEF Above
      <4> QED BY <1>1, <2>0, <3>3, <4>3, <4>4 DEF Is
    <3> QED BY <3>2, <3>3
  <2>2. CASE p \notin Under(t) BY <1>1, <1>2, <2>2, NodeKinds, UnderAbove, <2>0 DEF Present, Is, IsTree
  <2> QED BY <2>1, <2>2
<1>3. ASSUME NEW p \in Paths, Is(fs, p, "file"), Is(f, p, "file"), f[p] # fs[p]
      PROVE  p = t /\ s # t /\ scene.replaces /\ Present(fs, t)
  <2>1. p \in Under(t) BY <1>1, <1>3, NodeKinds DEF Is
  <2>2. s # t BY <2>1, RebasedPath, <1>1, <1>3
  <2>3. Present(fs, t)
    <3>1. CASE p = t BY <1>3, <3>1 DEF Is, Present
    <3>2. CASE p # t BY <2>1, <3>2, UnderAbove, <1>3 DEF IsTree, Is, Present
    <3> QED BY <3>1, <3>2
  <2>4. scene.replaces /\ \A q \in Under(t) \ {t} : ~Present(fs, q) BY <2>2, <2>3 DEF CanRename
  <2> QED BY <1>3, <2>1, <2>2, <2>3, <2>4 DEF Present, Is
<1> QED BY <1>1, <1>2, <1>3 DEF f, IsTree

(* Removing an item with what is below it leaves a tree. *)
LEMMA RemovalKeepsTree ==
    ASSUME fs \in [Paths -> Nodes], IsTree(fs), NEW x \in Paths,
           NEW f, f = [q \in Paths |-> IF q \in Under(x) THEN Absent ELSE fs[q]]
    PROVE  /\ f \in [Paths -> Nodes] /\ IsTree(f)
           /\ \A p \in Paths : Present(f, p) => f[p] = fs[p]
<1>1. /\ f \in [Paths -> Nodes]
      /\ \A q \in Paths : f[q] = IF q \in Under(x) THEN Absent ELSE fs[q]
  BY NodeKinds
<1>2. \A p \in Paths : Present(f, p) => p \notin Under(x) /\ f[p] = fs[p]
  BY <1>1, NodeKinds DEF Present, Is
<1>3. ASSUME NEW p \in Paths, Present(f, p), NEW a \in Above(p) PROVE Is(f, a, "dir")
  BY <1>2, <1>3, UnderAbove, <1>1 DEF Present, Is, IsTree, Above
<1> QED BY <1>1, <1>2, <1>3 DEF IsTree

(* Folders made on the way to x; what is at x itself stays. *)
LEMMA FoldersKeepTree ==
    ASSUME fs \in [Paths -> Nodes], IsTree(fs), NEW x \in Paths,
           ~\E a \in Above(x) : Is(fs, a, "file"),
           NEW f, f = [q \in Paths |-> IF q \in Above(x) /\ ~Present(fs, q) THEN Dir ELSE fs[q]]
    PROVE  /\ f \in [Paths -> Nodes] /\ IsTree(f)
           /\ \A p \in Paths : Present(fs, p) => f[p] = fs[p]
           /\ f[x] = fs[x]
           /\ \A a \in Above(x) : Is(f, a, "dir")
<1>1. /\ f \in [Paths -> Nodes]
      /\ \A q \in Paths : f[q] = IF q \in Above(x) /\ ~Present(fs, q) THEN Dir ELSE fs[q]
  BY NodeKinds
<1>2. ASSUME NEW a \in Above(x) PROVE Is(f, a, "dir") /\ a \in Paths
  BY <1>1, NodeKinds DEF Above, Is, Present
<1>3. ASSUME NEW p \in Paths, Present(f, p), NEW a \in Above(p) PROVE Is(f, a, "dir")
  <2>1. CASE p \in Above(x) BY <2>1, UnderAbove, <1>2
  <2>2. CASE p \notin Above(x) BY <1>1, <1>3, <2>2 DEF Present, Is, IsTree, Above
  <2> QED BY <2>1, <2>2
<1>4. f[x] = fs[x] BY <1>1, UnderAbove
<1> QED BY <1>1, <1>2, <1>3, <1>4 DEF IsTree

(* Something new at x, where all above is a folder and, unless it is one too, nothing is below. *)
LEMMA CreationKeepsTree ==
    ASSUME fs \in [Paths -> Nodes], IsTree(fs), NEW x \in Paths, NEW new \in Nodes,
           ~\E a \in Above(x) : Is(fs, a, "file"),
           new.kind = "dir" \/ ~Is(fs, x, "dir"),
           NEW f, f = [q \in Paths |-> IF q = x THEN new
                                       ELSE IF q \in Above(x) /\ ~Present(fs, q) THEN Dir ELSE fs[q]]
    PROVE  /\ f \in [Paths -> Nodes] /\ IsTree(f)
           /\ \A p \in Paths : Present(fs, p) /\ p # x => f[p] = fs[p]
<1> DEFINE g == [q \in Paths |-> IF q \in Above(x) /\ ~Present(fs, q) THEN Dir ELSE fs[q]]
<1>1. /\ g \in [Paths -> Nodes] /\ IsTree(g)
      /\ \A p \in Paths : Present(fs, p) => g[p] = fs[p]
      /\ g[x] = fs[x] /\ \A a \in Above(x) : Is(g, a, "dir")
  <2> HIDE DEF g
  <2>1. g = [q \in Paths |-> IF q \in Above(x) /\ ~Present(fs, q) THEN Dir ELSE fs[q]] BY DEF g
  <2> QED BY <2>1, FoldersKeepTree
<1>2. f \in [Paths -> Nodes] /\ \A q \in Paths : f[q] = IF q = x THEN new ELSE g[q] BY NodeKinds
<1> HIDE DEF g
<1>3. ASSUME NEW p \in Paths, Present(f, p), NEW a \in Above(p) PROVE Is(f, a, "dir")
  <2>0. a \in Paths BY DEF Above
  <2>1. Is(g, a, "dir") BY <1>1, <1>2, <1>3 DEF IsTree, Present, Is
  <2> QED BY <1>1, <1>2, <2>0, <2>1 DEF Is
<1> QED BY <1>1, <1>2, <1>3 DEF IsTree

(* What is taken to the trash is a tree of its own. *)
LEMMA TreeInTrash ==
    ASSUME fs \in [Paths -> Nodes], IsTree(fs), NEW x \in Paths
    PROVE  IsTreeAt(x, [q \in Under(x) |-> fs[q]])
<1> DEFINE t == [q \in Under(x) |-> fs[q]]
<1>1. t \in [Under(x) -> Nodes] /\ \A q \in Under(x) : q \in Paths /\ t[q] = fs[q] BY DEF Under
<1> HIDE DEF t
<1>2. ASSUME NEW q \in Under(x), Present(t, q), NEW a \in Above(q) \cap Under(x) PROVE Is(t, a, "dir")
  BY <1>1, <1>2 DEF Present, Is, IsTree
<1>3. IsTreeAt(x, t) BY <1>1, <1>2 DEF IsTreeAt
<1> QED BY <1>3 DEF t

(* A tree from the trash fits where nothing is in its way. *)
LEMMA RestoreKeepsTree ==
    ASSUME fs \in [Paths -> Nodes], IsTree(fs), NEW x \in Paths, NEW t, IsTreeAt(x, t),
           ~\E a \in Above(x) : Is(fs, a, "file"),
           NEW f, f = [q \in Paths |-> IF q \in Under(x) THEN t[q]
                                       ELSE IF q \in Above(x) /\ ~Present(fs, q) THEN Dir ELSE fs[q]]
    PROVE  f \in [Paths -> Nodes] /\ IsTree(f)
<1> DEFINE g == [q \in Paths |-> IF q \in Above(x) /\ ~Present(fs, q) THEN Dir ELSE fs[q]]
<1>1. /\ g \in [Paths -> Nodes] /\ IsTree(g)
      /\ \A a \in Above(x) : Is(g, a, "dir")
  <2> HIDE DEF g
  <2>1. g = [q \in Paths |-> IF q \in Above(x) /\ ~Present(fs, q) THEN Dir ELSE fs[q]] BY DEF g
  <2> QED BY <2>1, FoldersKeepTree
<1>2. /\ t \in [Under(x) -> Nodes]
      /\ \A q \in Under(x) : Present(t, q) => \A a \in Above(q) \cap Under(x) : Is(t, a, "dir")
  BY DEF IsTreeAt
<1>3. f \in [Paths -> Nodes] /\ \A q \in Paths : f[q] = IF q \in Under(x) THEN t[q] ELSE g[q]
  BY <1>2, NodeKinds
<1> HIDE DEF g
<1>4. ASSUME NEW p \in Paths, Present(f, p), NEW a \in Above(p) PROVE Is(f, a, "dir")
  <2>0. a \in Paths BY DEF Above
  <2>1. CASE p \in Under(x)
    <3>1. CASE a \in Under(x) BY <1>2, <1>3, <1>4, <2>0, <2>1, <3>1 DEF Present, Is
    <3>2. CASE a \notin Under(x) BY <2>1, <3>2, UnderAbove, <1>1, <1>3, <2>0 DEF Is
    <3> QED BY <3>1, <3>2
  <2>2. CASE p \notin Under(x) BY <2>2, UnderAbove, <1>1, <1>3, <1>4, <2>0 DEF IsTree, Present, Is
  <2> QED BY <2>1, <2>2
<1> QED BY <1>3, <1>4 DEF IsTree

-------------------------------------------------------------------------------
(* What the steps of tasks and undos keep. *)

(* What was a key of the trash stays one when another task goes on. *)
LEMMA KeysStay ==
    ASSUME NEW tasks \in [OpIds -> TaskRecords], NEW after \in [OpIds -> TaskRecords],
           \A o \in OpIds : tasks[o].pc # "new"
                => after[o].pc # "new" /\ after[o].sources = tasks[o].sources
    PROVE  /\ \A k : IsKey(tasks, k) => IsKey(after, k) /\ Origin(after, k) = Origin(tasks, k)
           /\ \A k, entry : EntryFits(tasks, k, entry) => EntryFits(after, k, entry)
           /\ \A kind, pairs : PairsFit(tasks, kind, pairs) => PairsFit(after, kind, pairs)
<1>1. ASSUME NEW k, IsKey(tasks, k) PROVE IsKey(after, k) /\ Origin(after, k) = Origin(tasks, k)
  BY <1>1 DEF IsKey, Keys, Origin
<1>2. \A k, entry : EntryFits(tasks, k, entry) => EntryFits(after, k, entry) BY <1>1 DEF EntryFits
<1>3. \A kind, pairs : PairsFit(tasks, kind, pairs) => PairsFit(after, kind, pairs) BY <1>1 DEF PairsFit
<1> QED BY <1>1, <1>2, <1>3

(* The invariant after a step that changes one task and the files. *)
LEMMA TaskStepKeeps ==
    ASSUME FilesInv, NEW o \in OpIds, task[o].pc \notin {"new", "over"},
           task' \in [OpIds -> TaskRecords], \A p \in OpIds \ {o} : task'[p] = task[p],
           task'[o].pc # "new", task'[o].sources = task[o].sources,
           TaskFits(task'[o]), PairsFit(task, task'[o].kind, task'[o].made),
           Alone /\ task'[o].pc = "write" /\ ~task'[o].replaces => ~Present(fs', task'[o].target),
           fs' \in [Paths -> Nodes], IsTree(fs'),
           \A k \in DOMAIN trash' : EntryFits(task, k, trash'[k]),
           records' \in Seq(UndoRecords), Len(records') <= MaxUndo,
           \A i \in 1..Len(records') : PairsFit(task, records'[i].kind, records'[i].pairs),
           UNCHANGED <<undo, scene>>
    PROVE  FilesInv'
<1>1. FilesTypes' BY DEF FilesInv, FilesTypes
<1>2. \A p \in OpIds : task[p].pc # "new" => task'[p].pc # "new" /\ task'[p].sources = task[p].sources
  OBVIOUS
<1>3. /\ \A k, entry : EntryFits(task, k, entry) => EntryFits(task', k, entry)
      /\ \A kind, pairs : PairsFit(task, kind, pairs) => PairsFit(task', kind, pairs)
  BY <1>2, KeysStay DEF FilesInv, FilesTypes
<1>4. TrashFits' BY <1>3 DEF TrashFits
<1>5. RecordsFit' BY <1>3 DEF FilesInv, RecordsFit
<1>6. AloneFits' BY DEF AloneFits, Alone, FilesInv, Running, At
<1> QED BY <1>1, <1>4, <1>5, <1>6 DEF FilesInv

(* The invariant after a step of the undo. *)
LEMMA UndoStepKeeps ==
    ASSUME FilesInv, undo.pc # "idle", undo' \in Undos,
           PairsFit(task, undo'.kind, undo'.pairs),
           undo'.pc = "rename" => undo'.kind = "Move" /\ undo'.idx <= Len(undo'.pairs),
           Alone /\ undo'.pc = "rename" => ~InTheWay',
           fs' \in [Paths -> Nodes], IsTree(fs'),
           \A k \in DOMAIN trash' : EntryFits(task, k, trash'[k]),
           UNCHANGED <<task, records, scene>>
    PROVE  FilesInv'
<1>1. FilesTypes' BY DEF FilesInv, FilesTypes
<1>2. TrashFits' BY DEF TrashFits
<1>3. RecordsFit' BY DEF FilesInv, RecordsFit
<1>4. AloneFits' BY DEF Alone, FilesInv, AloneFits, Running, At
<1> QED BY <1>1, <1>2, <1>3, <1>4 DEF FilesInv

(* Alone, whoever starts finds nobody at work. *)
LEMMA NobodyAtWork ==
    ASSUME FilesInv, Alone, Busy < scene.running
    PROVE  Running = {} /\ undo.pc = "idle"
<1>1. IsFiniteSet(Running)
  <2>1. IsFiniteSet(OpIds) BY FS_Interval, FilesAssumption DEF OpIds, FilesAssumption
  <2> QED BY <2>1, FS_Subset DEF Running
<1>2. Cardinality(Running) \in Nat BY <1>1, FS_CardinalityType
<1>3. Cardinality(Running) = 0 /\ undo.pc = "idle" BY <1>2 DEF Busy, Alone
<1> QED BY <1>1, <1>3, FS_EmptySet

(* What Goto leaves of a task. *)
LEMMA GotoFields ==
    ASSUME task \in [OpIds -> TaskRecords], NEW o \in OpIds, NEW pc \in Pcs, Goto(o, pc)
    PROVE  /\ task' \in [OpIds -> TaskRecords]
           /\ \A p \in OpIds \ {o} : task'[p] = task[p]
           /\ task'[o].pc = pc /\ task'[o].kind = task[o].kind /\ task'[o].sources = task[o].sources
           /\ task'[o].dest = task[o].dest /\ task'[o].idx = task[o].idx
           /\ task'[o].target = task[o].target /\ task'[o].replaces = task[o].replaces
           /\ task'[o].made = task[o].made
BY DEF Goto, TaskRecords

(* What NextItem leaves of a task. *)
LEMMA NextItemFields ==
    ASSUME task \in [OpIds -> TaskRecords], NEW o \in OpIds, NEW made \in Seq(Pairs), NextItem(o, made)
    PROVE  /\ task' \in [OpIds -> TaskRecords]
           /\ \A p \in OpIds \ {o} : task'[p] = task[p]
           /\ task'[o].pc = "item" /\ task'[o].kind = task[o].kind /\ task'[o].sources = task[o].sources
           /\ task'[o].dest = task[o].dest /\ task'[o].idx = task[o].idx + 1
           /\ task'[o].target = task[o].target /\ task'[o].replaces = task[o].replaces
           /\ task'[o].made = task[o].made \o made
<1>1. task' = [task EXCEPT ![o].pc = "item", ![o].idx = @ + 1, ![o].made = @ \o made] BY DEF NextItem
<1>2. /\ task[o] \in TaskRecords /\ task[o].idx + 1 \in Nat
      /\ task[o].made \o made \in Seq(Pairs) /\ "item" \in Pcs
  BY ConcatProperties DEF TaskRecords, Pcs
<1>3. task' \in [OpIds -> TaskRecords] BY <1>1, <1>2 DEF TaskRecords
<1> QED BY <1>1, <1>2, <1>3 DEF TaskRecords

(* A task past "new" works on a request. *)
LEMMA AtWork ==
    ASSUME FilesInv, NEW o \in OpIds, task[o].pc \notin {"new", "over"}
    PROVE  /\ fs \in [Paths -> Nodes] /\ IsTree(fs) /\ task \in [OpIds -> TaskRecords]
           /\ IsRequest(task[o]) /\ TaskFits(task[o]) /\ PairsFit(task, Kind(o), task[o].made)
           /\ HasSource(o) => Source(o) \in Paths /\ task[o].idx \in 1..Len(task[o].sources)
           /\ At(o, "replace") \/ At(o, "write") \/ At(o, "delete") => HasSource(o) /\ task[o].target \in Paths
           /\ HasSource(o) /\ Kind(o) \in Transfers /\ ~IsStrictPrefix(Source(o), DestPath(o))
                  => DestPath(o) \in Paths
<1>1. /\ fs \in [Paths -> Nodes] /\ IsTree(fs) /\ task \in [OpIds -> TaskRecords]
      /\ IsRequest(task[o]) /\ TaskFits(task[o]) /\ PairsFit(task, Kind(o), task[o].made)
  BY DEF FilesInv, FilesTypes, RecordsFit, TaskFits, Kind
<1>2. HasSource(o) => Source(o) \in Paths /\ task[o].idx \in 1..Len(task[o].sources)
  BY <1>1, LenProperties, ElementOfSeq DEF TaskFits, IsRequest, HasSource, Source
<1>3. At(o, "replace") \/ At(o, "write") \/ At(o, "delete") => HasSource(o) /\ task[o].target \in Paths
  BY <1>1 DEF TaskFits, At, HasSource
<1>4. HasSource(o) /\ Kind(o) \in Transfers /\ ~IsStrictPrefix(Source(o), DestPath(o)) => DestPath(o) \in Paths
  BY <1>1, <1>2 DEF IsRequest, Source, DestPath, Kind
<1> QED BY <1>1, <1>2, <1>3, <1>4

(* Goto, and a change of the files that leaves a tree, keep the invariant. *)
LEMMA GotoKeeps ==
    ASSUME FilesInv, NEW o \in OpIds, task[o].pc \notin {"new", "over"},
           NEW pc \in {"delete", "over"}, Goto(o, pc), pc = "delete" => At(o, "write"),
           fs' \in [Paths -> Nodes], IsTree(fs'), UNCHANGED <<trash, records, undo, scene>>
    PROVE  FilesInv'
<1>1. task \in [OpIds -> TaskRecords] /\ pc \in Pcs BY AtWork DEF Pcs
<1>2. /\ task' \in [OpIds -> TaskRecords]
      /\ \A p \in OpIds \ {o} : task'[p] = task[p]
      /\ task'[o].pc = pc /\ task'[o].kind = task[o].kind /\ task'[o].sources = task[o].sources
      /\ task'[o].dest = task[o].dest /\ task'[o].idx = task[o].idx
      /\ task'[o].target = task[o].target /\ task'[o].made = task[o].made
  BY <1>1, GotoFields
<1>3. TaskFits(task'[o]) /\ PairsFit(task, task'[o].kind, task'[o].made)
  BY <1>2, AtWork DEF IsRequest, TaskFits, Kind, At
<1>4. /\ records' \in Seq(UndoRecords) /\ Len(records') <= MaxUndo
      /\ \A i \in 1..Len(records') : PairsFit(task, records'[i].kind, records'[i].pairs)
      /\ \A k \in DOMAIN trash' : EntryFits(task, k, trash'[k])
  BY DEF FilesInv, FilesTypes, RecordsFit, TrashFits
<1> QED BY <1>2, <1>3, <1>4, TaskStepKeeps

(* So do they with NextItem. *)
LEMMA NextItemKeeps ==
    ASSUME FilesInv, NEW o \in OpIds, task[o].pc \notin {"new", "over"}, HasSource(o),
           NEW made \in Seq(Pairs), NextItem(o, made), PairsFit(task, Kind(o), made),
           fs' \in [Paths -> Nodes], IsTree(fs'),
           \A k \in DOMAIN trash' : EntryFits(task, k, trash'[k]),
           UNCHANGED <<records, undo, scene>>
    PROVE  FilesInv'
<1>1. /\ task' \in [OpIds -> TaskRecords]
      /\ \A p \in OpIds \ {o} : task'[p] = task[p]
      /\ task'[o].pc = "item" /\ task'[o].kind = task[o].kind /\ task'[o].sources = task[o].sources
      /\ task'[o].dest = task[o].dest /\ task'[o].idx = task[o].idx + 1
      /\ task'[o].made = task[o].made \o made
  BY AtWork, NextItemFields
<1>2. TaskFits(task'[o])
  <2>1. IsRequest(task'[o]) BY <1>1, AtWork DEF IsRequest
  <2>2. task'[o].idx \in 1..(Len(task'[o].sources) + 1) BY AtWork, LenProperties, <1>1 DEF IsRequest
  <2> QED BY <1>1, <2>1, <2>2 DEF TaskFits
<1>3. PairsFit(task, task'[o].kind, task'[o].made)
  <2> DEFINE old == task[o].made
  <2>1. /\ old \in Seq(Pairs) /\ Len(old) \in Nat /\ Len(made) \in Nat
        /\ PairsFit(task, Kind(o), old)
    BY AtWork, LenProperties DEF TaskRecords
  <2>2. /\ Len(old \o made) = Len(old) + Len(made)
        /\ \A i \in 1..(Len(old) + Len(made)) :
              (old \o made)[i] = IF i <= Len(old) THEN old[i] ELSE made[i - Len(old)]
    BY <2>1, ConcatProperties
  <2>3. task'[o].kind = Kind(o) /\ task'[o].made = old \o made BY <1>1 DEF Kind
  <2> HIDE DEF old
  <2>4. ASSUME NEW i \in 1..Len(old \o made)
        PROVE  \/ \E j \in 1..Len(old) : (old \o made)[i] = old[j]
               \/ \E j \in 1..Len(made) : (old \o made)[i] = made[j]
    <3>1. CASE i <= Len(old) BY <2>1, <2>2, <3>1
    <3>2. CASE ~(i <= Len(old)) BY <2>1, <2>2, <3>2
    <3> QED BY <3>1, <3>2
  <2>5. PairsFit(task, Kind(o), old \o made) BY <2>1, <2>4 DEF PairsFit
  <2> QED BY <2>3, <2>5
<1>4. /\ records' \in Seq(UndoRecords) /\ Len(records') <= MaxUndo
      /\ \A i \in 1..Len(records') : PairsFit(task, records'[i].kind, records'[i].pairs)
  BY DEF FilesInv, FilesTypes, RecordsFit
<1> QED BY <1>1, <1>2, <1>3, <1>4, TaskStepKeeps

(* The entries of the trash stay as they are if the trash does. *)
LEMMA StandingEntries ==
    ASSUME FilesInv, UNCHANGED trash
    PROVE  \A k \in DOMAIN trash' : EntryFits(task, k, trash'[k])
BY DEF FilesInv, TrashFits

-------------------------------------------------------------------------------
(* Each step keeps the invariant and writes over nothing unagreed. *)

(* Steps that leave the files alone write nothing over. *)
LEMMA NothingOverwritten ==
    ASSUME \A p \in Paths : Is(fs, p, "file") /\ Is(fs', p, "file") => fs'[p] = fs[p]
    PROVE  OverwritesAgreed
BY DEF OverwritesAgreed

(* Each action keeps the invariant and writes over what was agreed only. *)
LEMMA CancelStep ==
    ASSUME FilesInv, NEW o \in OpIds, Cancel(o) \/ Refuse(o)
    PROVE  FilesInv' /\ OverwritesAgreed
BY AtWork, GotoKeeps, NothingOverwritten DEF Cancel, Refuse, GiveUp, At

(* SkipItem only goes on. *)
LEMMA SkipStep ==
    ASSUME FilesInv, NEW o \in OpIds, SkipItem(o)
    PROVE  FilesInv' /\ OverwritesAgreed
<1>1. /\ At(o, "item") /\ HasSource(o) /\ NextItem(o, <<>>)
      /\ UNCHANGED <<fs, trash, records, undo, scene>>
  BY DEF SkipItem
<1>2. fs' \in [Paths -> Nodes] /\ IsTree(fs') BY <1>1, AtWork DEF At
<1>3. <<>> \in Seq(Pairs) /\ PairsFit(task, Kind(o), <<>>) BY EmptySeq DEF PairsFit
<1> QED BY <1>1, <1>2, <1>3, NextItemKeeps, StandingEntries, NothingOverwritten DEF At

(* Settle: whichever target is taken is a path; alone, one not replaced is free. *)
LEMMA SettleStep ==
    ASSUME FilesInv, NEW o \in OpIds, Settle(o)
    PROVE  FilesInv' /\ OverwritesAgreed
<1>1. /\ At(o, "item") /\ HasSource(o) /\ Kind(o) \in Transfers
      /\ ~IsStrictPrefix(Source(o), DestPath(o))
      /\ UNCHANGED <<fs, trash, records, undo, scene>>
  BY DEF Settle
<1>2. PICK t \in Targets(o) :
         task' = [task EXCEPT ![o].pc = IF t.replaces THEN "replace" ELSE "write",
                              ![o].target = t.path, ![o].replaces = t.replaces]
  BY DEF Settle
<1>3. /\ DestPath(o) \in Paths /\ Unique[DestPath(o)] \in Paths
      /\ task \in [OpIds -> TaskRecords] /\ IsRequest(task[o]) /\ TaskFits(task[o])
      /\ PairsFit(task, Kind(o), task[o].made)
  BY <1>1, AtWork, FilesAssumption DEF At, FilesAssumption
<1>4. t.path \in Paths /\ t.replaces \in BOOLEAN /\ (~t.replaces => ~Present(fs, t.path))
  <2> DEFINE u == Unique[DestPath(o)]
  <2>1. \/ t = [path |-> DestPath(o), replaces |-> FALSE] /\ ~Present(fs, DestPath(o))
        \/ t = [path |-> DestPath(o), replaces |-> TRUE]
        \/ t = [path |-> u, replaces |-> FALSE] /\ ~Present(fs, u)
    <3> DEFINE Spare == {[path |-> q, replaces |-> FALSE] : q \in {v \in {u} : ~Present(fs, v)}}
    <3>1. \A e \in Spare : e = [path |-> u, replaces |-> FALSE] /\ ~Present(fs, u) OBVIOUS
    <3>2. \/ t \in Spare
          \/ t = [path |-> DestPath(o), replaces |-> FALSE] /\ ~Present(fs, DestPath(o))
          \/ t = [path |-> DestPath(o), replaces |-> TRUE]
      BY DEF Targets
    <3> QED BY <3>1, <3>2
  <2> HIDE DEF u
  <2>2. u \in Paths BY <1>3 DEF u
  <2>3. \/ t.path = DestPath(o) /\ t.replaces = FALSE /\ ~Present(fs, DestPath(o))
        \/ t.path = DestPath(o) /\ t.replaces = TRUE
        \/ t.path = u /\ t.replaces = FALSE /\ ~Present(fs, u)
    BY <2>1
  <2> QED BY <1>3, <2>2, <2>3
<1> DEFINE pc == IF t.replaces THEN "replace" ELSE "write"
<1>5. pc \in Pcs /\ task' = [task EXCEPT ![o].pc = pc, ![o].target = t.path, ![o].replaces = t.replaces]
  BY <1>2, <1>4 DEF Pcs
<1>6. (pc = "replace" <=> t.replaces) /\ pc \in {"replace", "write"} BY <1>4
<1> HIDE DEF pc
<1>7. task' \in [OpIds -> TaskRecords]
  <2> DEFINE new == [task[o] EXCEPT !.pc = pc, !.target = t.path, !.replaces = t.replaces]
  <2>1. task[o] \in TaskRecords /\ t.path \in Spots BY <1>3, <1>4 DEF Spots
  <2>2. new \in TaskRecords BY <1>4, <1>5, <2>1 DEF TaskRecords
  <2>3. task' = [task EXCEPT ![o] = new] BY <1>5
  <2> HIDE DEF new
  <2> QED BY <1>3, <2>2, <2>3
<1>8. /\ \A p \in OpIds \ {o} : task'[p] = task[p]
      /\ task'[o].pc = pc /\ task'[o].kind = task[o].kind /\ task'[o].sources = task[o].sources
      /\ task'[o].dest = task[o].dest /\ task'[o].idx = task[o].idx
      /\ task'[o].target = t.path /\ task'[o].replaces = t.replaces
      /\ task'[o].made = task[o].made
  BY <1>3, <1>5, <1>7 DEF TaskRecords
<1>9. TaskFits(task'[o]) BY <1>3, <1>8, <1>1, <1>4, <1>6 DEF IsRequest, TaskFits, HasSource, Kind
<1>10. PairsFit(task, task'[o].kind, task'[o].made) BY <1>3, <1>8 DEF Kind
<1>11. /\ records' \in Seq(UndoRecords) /\ Len(records') <= MaxUndo
       /\ \A i \in 1..Len(records') : PairsFit(task, records'[i].kind, records'[i].pairs)
       /\ \A k \in DOMAIN trash' : EntryFits(task, k, trash'[k])
       /\ fs' \in [Paths -> Nodes] /\ IsTree(fs')
  BY <1>1 DEF FilesInv, FilesTypes, RecordsFit, TrashFits
<1>12. task'[o].pc = "write" /\ ~task'[o].replaces => ~Present(fs', task'[o].target) BY <1>1, <1>4, <1>8
<1>13. task[o].pc \notin {"new", "over"} /\ task'[o].pc # "new" BY <1>1, <1>6, <1>8 DEF At
<1> QED BY <1>1, <1>7, <1>8, <1>9, <1>10, <1>11, <1>12, <1>13, TaskStepKeeps, NothingOverwritten

(* Withdraw: the records keep their pairs. *)
LEMMA WithdrawStep ==
    ASSUME FilesInv, NEW o \in OpIds, Withdraw(o)
    PROVE  FilesInv' /\ OverwritesAgreed
<1>1. /\ At(o, "replace") /\ Goto(o, "write") /\ InvalidateTouching(task[o].target)
      /\ UNCHANGED <<fs, trash, undo, scene>>
  BY DEF Withdraw
<1>2. /\ task \in [OpIds -> TaskRecords] /\ IsRequest(task[o]) /\ TaskFits(task[o])
      /\ PairsFit(task, Kind(o), task[o].made) /\ "write" \in Pcs
  BY <1>1, AtWork DEF At, Pcs
<1>3. /\ task' \in [OpIds -> TaskRecords]
      /\ \A p \in OpIds \ {o} : task'[p] = task[p]
      /\ task'[o].pc = "write" /\ task'[o].kind = task[o].kind /\ task'[o].sources = task[o].sources
      /\ task'[o].dest = task[o].dest /\ task'[o].idx = task[o].idx
      /\ task'[o].target = task[o].target /\ task'[o].replaces = task[o].replaces
      /\ task'[o].made = task[o].made
  BY <1>1, <1>2, GotoFields
<1>4. TaskFits(task'[o]) BY <1>2, <1>3, <1>1 DEF IsRequest, TaskFits, At
<1>5. PairsFit(task, task'[o].kind, task'[o].made) /\ task'[o].replaces
  BY <1>1, <1>2, <1>3 DEF Kind, TaskFits, At
<1>6. /\ records' \in Seq(UndoRecords) /\ Len(records') = Len(records)
      /\ \A i \in 1..Len(records') : /\ records'[i].kind = records[i].kind
                                     /\ records'[i].pairs = records[i].pairs
  <2>1. /\ records' = [i \in 1..Len(records) |->
                         [records[i] EXCEPT !.undoable = @ /\ ~Touches(records[i], task[o].target)]]
        /\ records \in Seq(UndoRecords) /\ Len(records) \in Nat
    BY <1>1, LenProperties DEF InvalidateTouching, FilesInv, FilesTypes
  <2>2. ASSUME NEW i \in 1..Len(records)
        PROVE  /\ records'[i] = [records[i] EXCEPT !.undoable = @ /\ ~Touches(records[i], task[o].target)]
               /\ records'[i] \in UndoRecords
               /\ records'[i].kind = records[i].kind /\ records'[i].pairs = records[i].pairs
    <3>1. records[i] \in UndoRecords BY <2>1, ElementOfSeq
    <3>2. (records[i].undoable /\ ~Touches(records[i], task[o].target)) \in BOOLEAN OBVIOUS
    <3> QED BY <2>1, <3>1, <3>2 DEF UndoRecords
  <2>3. records' \in Seq(UndoRecords) /\ Len(records') = Len(records) BY <2>1, <2>2
  <2> QED BY <2>2, <2>3
<1>7. /\ Len(records') <= MaxUndo
      /\ \A i \in 1..Len(records') : PairsFit(task, records'[i].kind, records'[i].pairs)
      /\ \A k \in DOMAIN trash' : EntryFits(task, k, trash'[k])
      /\ fs' \in [Paths -> Nodes] /\ IsTree(fs')
  BY <1>1, <1>6 DEF FilesInv, FilesTypes, RecordsFit, TrashFits
<1>8. task[o].pc \notin {"new", "over"} /\ task'[o].pc # "new" BY <1>1, <1>3 DEF At
<1> QED BY <1>1, <1>3, <1>4, <1>5, <1>6, <1>7, <1>8, TaskStepKeeps, NothingOverwritten

(* What an item leaves for the record fits. *)
LEMMA MadeFits ==
    ASSUME FilesInv, NEW o \in OpIds, At(o, "write") \/ At(o, "delete")
    PROVE  Made(o) \in Seq(Pairs) /\ PairsFit(task, Kind(o), Made(o))
<1>1. Source(o) \in Paths /\ task[o].target \in Paths /\ Kind(o) \in Transfers
  BY AtWork DEF At, TaskFits, Kind
<1> DEFINE pair == [from |-> Source(o), to |-> task[o].target]
<1>2. pair \in Pairs /\ pair.to \in Paths BY <1>1 DEF Pairs
<1> HIDE DEF pair
<1>3. <<pair>> \in Seq(Pairs) /\ Len(<<pair>>) = 1 /\ <<pair>>[1] = pair BY <1>2
<1>4. PairsFit(task, Kind(o), <<pair>>) BY <1>1, <1>2, <1>3 DEF PairsFit, Transfers
<1>5. <<>> \in Seq(Pairs) /\ PairsFit(task, Kind(o), <<>>) BY EmptySeq DEF PairsFit
<1>6. Made(o) = <<>> \/ Made(o) = <<pair>> BY DEF Made, pair
<1> QED BY <1>3, <1>4, <1>5, <1>6

(* Copying an item, also one that stops half way. *)
LEMMA CopyItemStep ==
    ASSUME FilesInv, NEW o \in OpIds, NEW onSuccess, At(o, "write"), CopyItem(o, onSuccess)
    PROVE  FilesInv' /\ OverwritesAgreed
<1> DEFINE src == Source(o)
           dst == task[o].target
           rep == task[o].replaces
           clear == {s \in Under(src) : Present(fs, s)} \ Blocked(src, dst, rep)
<1>1. /\ fs \in [Paths -> Nodes] /\ IsTree(fs) /\ task \in [OpIds -> TaskRecords] /\ HasSource(o)
      /\ src \in Paths /\ dst \in Paths /\ rep \in BOOLEAN
  BY AtWork DEF At, TaskRecords
<1>2. PICK out \in CopyOutcomes(src, dst, rep, o) :
         /\ fs' = out.fs
         /\ IF out.ok
            THEN IF onSuccess = "delete" THEN Goto(o, "delete") ELSE NextItem(o, Made(o))
            ELSE Goto(o, "over")
         /\ UNCHANGED <<trash, records, undo, scene>>
  BY DEF CopyItem, GiveUp
<1>3. \E some \in SUBSET clear : fs' = Copied(src, dst, some, o)
  <2> DEFINE items == {s \in Under(src) : Present(fs, s)}
             stop == Blocked(src, dst, rep)
  <2>1. \/ out \in {[ok |-> FALSE, fs |-> Copied(src, dst, some, o)] : some \in SUBSET (items \ stop)}
        \/ items \cap stop = {} /\ out = [ok |-> TRUE, fs |-> Copied(src, dst, items, o)]
    BY <1>2 DEF CopyOutcomes
  <2>2. \/ \E some \in SUBSET (items \ stop) : out.fs = Copied(src, dst, some, o)
        \/ items \in SUBSET (items \ stop) /\ out.fs = Copied(src, dst, items, o)
    BY <2>1
  <2> QED BY <1>2, <2>2
<1>4. PICK some \in SUBSET clear : fs' = Copied(src, dst, some, o) BY <1>3
<1>5. /\ fs' \in [Paths -> Nodes] /\ IsTree(fs')
      /\ \A p \in Paths : (Is(fs, p, "file") /\ fs'[p] # fs[p]) => rep /\ IsPrefix(dst, p)
  BY <1>1, <1>4, CopyKeepsTree
<1> HIDE DEF src, dst, clear
<1>6. /\ \A k \in DOMAIN trash' : EntryFits(task, k, trash'[k])
      /\ Made(o) \in Seq(Pairs) /\ PairsFit(task, Kind(o), Made(o))
  BY <1>2, StandingEntries, MadeFits
<1>7. CASE Goto(o, "delete") \/ Goto(o, "over")
  BY <1>2, <1>5, <1>7, GotoKeeps, <1>1, GotoFields DEF At, Pcs, OverwritesAgreed, dst
<1>8. CASE NextItem(o, Made(o))
  <2>1. FilesInv' BY <1>1, <1>2, <1>5, <1>6, <1>8, NextItemKeeps DEF At
  <2>2. task'[o] # task[o] BY <1>1, <1>6, <1>8, NextItemFields DEF At
  <2> QED BY <1>5, <2>1, <2>2 DEF OverwritesAgreed, dst
<1> QED BY <1>2, <1>7, <1>8

(* A move that renames. *)
LEMMA MoveByRenameStep ==
    ASSUME FilesInv, NEW o \in OpIds, MoveByRename(o)
    PROVE  FilesInv' /\ OverwritesAgreed
<1> DEFINE s == Source(o)
           t == task[o].target
<1>1. /\ At(o, "write") /\ CanRename(s, t) /\ fs' = Renamed(s, t) /\ NextItem(o, Made(o))
      /\ UNCHANGED <<trash, records, undo, scene>>
  BY DEF MoveByRename
<1>2. /\ fs \in [Paths -> Nodes] /\ IsTree(fs) /\ task \in [OpIds -> TaskRecords] /\ HasSource(o)
      /\ s \in Paths /\ t \in Paths
  BY <1>1, AtWork DEF At
<1>3. /\ fs' \in [Paths -> Nodes] /\ IsTree(fs')
      /\ \A p \in Paths : (Is(fs, p, "file") /\ Is(fs', p, "file") /\ fs'[p] # fs[p])
                              => p = t /\ scene.replaces /\ Present(fs, t)
  BY <1>1, <1>2, RenameKeepsTree
<1>4. /\ \A k \in DOMAIN trash' : EntryFits(task, k, trash'[k])
      /\ Made(o) \in Seq(Pairs) /\ PairsFit(task, Kind(o), Made(o))
  BY <1>1, StandingEntries, MadeFits
<1>5. FilesInv' BY <1>1, <1>2, <1>3, <1>4, NextItemKeeps DEF At
<1>6. task'[o] # task[o] BY <1>1, <1>2, <1>4, NextItemFields DEF At
<1>7. Alone /\ Present(fs, t) => task[o].replaces BY <1>1 DEF FilesInv, AloneFits
<1>8. IsPrefix(t, t) BY <1>2, UnderAbove DEF Under
<1> QED BY <1>3, <1>5, <1>6, <1>7, <1>8 DEF OverwritesAgreed

(* A move that has to copy, or gives up. *)
LEMMA MoveByCopyStep ==
    ASSUME FilesInv, NEW o \in OpIds, MoveByCopy(o)
    PROVE  FilesInv' /\ OverwritesAgreed
<1>1. CASE CopyItem(o, "delete") BY <1>1, CopyItemStep DEF MoveByCopy
<1>2. CASE Goto(o, "over") /\ UNCHANGED <<fs, trash, records, undo, scene>>
  BY <1>2, AtWork, GotoKeeps, NothingOverwritten DEF MoveByCopy, At
<1> QED BY <1>1, <1>2 DEF MoveByCopy, GiveUp

(* Deleting what was moved writes nothing. *)
LEMMA DeleteMovedStep ==
    ASSUME FilesInv, NEW o \in OpIds, DeleteMoved(o)
    PROVE  FilesInv' /\ OverwritesAgreed
<1>1. /\ At(o, "delete") /\ HasSource(o) /\ Source(o) \in Paths
      /\ fs \in [Paths -> Nodes] /\ IsTree(fs)
      /\ UNCHANGED <<trash, records, undo, scene>>
  BY AtWork DEF DeleteMoved, At
<1>2. CASE /\ fs' = [q \in Paths |-> IF q \in Under(Source(o)) THEN Absent ELSE fs[q]]
           /\ NextItem(o, Made(o))
  <2>1. fs' \in [Paths -> Nodes] /\ IsTree(fs') /\ \A p \in Paths : Present(fs', p) => fs'[p] = fs[p]
    BY <1>1, <1>2, RemovalKeepsTree
  <2>2. /\ \A k \in DOMAIN trash' : EntryFits(task, k, trash'[k])
        /\ Made(o) \in Seq(Pairs) /\ PairsFit(task, Kind(o), Made(o))
    BY <1>1, StandingEntries, MadeFits
  <2>3. FilesInv' BY <1>1, <1>2, <2>1, <2>2, NextItemKeeps DEF At
  <2> QED BY <2>1, <2>3, NothingOverwritten DEF Present, Is
<1>3. CASE Goto(o, "over") /\ UNCHANGED fs BY <1>1, <1>3, GotoKeeps, NothingOverwritten DEF At
<1> QED BY <1>2, <1>3 DEF DeleteMoved, GiveUp

(* Nor does deleting an item. *)
LEMMA DeleteItemStep ==
    ASSUME FilesInv, NEW o \in OpIds, DeleteItem(o)
    PROVE  FilesInv' /\ OverwritesAgreed
<1>1. /\ At(o, "item") /\ HasSource(o) /\ Source(o) \in Paths
      /\ fs \in [Paths -> Nodes] /\ IsTree(fs)
      /\ UNCHANGED <<trash, records, undo, scene>>
  BY AtWork DEF DeleteItem, At
<1>2. CASE /\ fs' = [q \in Paths |-> IF q \in Under(Source(o)) THEN Absent ELSE fs[q]]
           /\ NextItem(o, <<>>)
  <2>1. fs' \in [Paths -> Nodes] /\ IsTree(fs') /\ \A p \in Paths : Present(fs', p) => fs'[p] = fs[p]
    BY <1>1, <1>2, RemovalKeepsTree
  <2>2. /\ \A k \in DOMAIN trash' : EntryFits(task, k, trash'[k])
        /\ <<>> \in Seq(Pairs) /\ PairsFit(task, Kind(o), <<>>)
    BY <1>1, StandingEntries, EmptySeq DEF PairsFit
  <2>3. FilesInv' BY <1>1, <1>2, <2>1, <2>2, NextItemKeeps DEF At
  <2> QED BY <2>1, <2>3, NothingOverwritten DEF Present, Is
<1>3. CASE Goto(o, "over") /\ UNCHANGED fs BY <1>1, <1>3, GotoKeeps, NothingOverwritten DEF At
<1> QED BY <1>2, <1>3 DEF DeleteItem, GiveUp

(* TrashItem: the tree taken is one, its key names it. *)
LEMMA TrashItemStep ==
    ASSUME FilesInv, NEW o \in OpIds, TrashItem(o)
    PROVE  FilesInv' /\ OverwritesAgreed
<1> DEFINE s == Source(o)
           key == <<o, task[o].idx>>
           tree == [q \in Under(s) |-> fs[q]]
           entry == [path |-> s, tree |-> tree]
<1>1. /\ At(o, "item") /\ HasSource(o) /\ Kind(o) = "Trash" /\ s \in Paths
      /\ fs \in [Paths -> Nodes] /\ IsTree(fs) /\ task[o].idx \in 1..Len(task[o].sources)
      /\ IsRequest(task[o]) /\ UNCHANGED <<records, undo, scene>>
  BY AtWork DEF TrashItem, At
<1>2. CASE /\ trash' = [k \in DOMAIN trash \cup {key} |-> IF k = key THEN entry ELSE trash[k]]
           /\ fs' = [q \in Paths |-> IF q \in Under(s) THEN Absent ELSE fs[q]]
           /\ NextItem(o, <<[from |-> s, to |-> key]>>)
  <2>1. fs' \in [Paths -> Nodes] /\ IsTree(fs') /\ \A p \in Paths : Present(fs', p) => fs'[p] = fs[p]
    BY <1>1, <1>2, RemovalKeepsTree
  <2>2. IsKey(task, key) /\ Origin(task, key) = s
    <3>1. task[o].idx \in Nat /\ key \in Keys /\ key[1] = o /\ key[2] = task[o].idx
      BY <1>1, LenProperties DEF IsRequest, Keys
    <3> HIDE DEF key
    <3> QED BY <1>1, <3>1 DEF IsKey, Origin, At, Source
  <2>3. EntryFits(task, key, entry)
    <3>1. IsTreeAt(s, tree) BY <1>1, TreeInTrash
    <3>2. entry.path = s /\ entry.tree = tree OBVIOUS
    <3> HIDE DEF key, tree, entry
    <3> QED BY <2>2, <3>1, <3>2 DEF EntryFits
  <2>4. \A k \in DOMAIN trash' : EntryFits(task, k, trash'[k])
    <3> HIDE DEF key, entry
    <3> QED BY <1>2, <2>3 DEF FilesInv, TrashFits
  <2> DEFINE pair == [from |-> s, to |-> key]
  <2>5. pair \in Pairs /\ pair.to = key /\ pair.from = s BY <1>1, <2>2 DEF Pairs, IsKey
  <2>6. <<pair>> \in Seq(Pairs) /\ PairsFit(task, Kind(o), <<pair>>)
    <3> HIDE DEF pair, key, s
    <3>1. <<pair>> \in Seq(Pairs) /\ Len(<<pair>>) = 1 /\ <<pair>>[1] = pair BY <2>5
    <3> QED BY <1>1, <2>2, <2>5, <3>1 DEF PairsFit
  <2>7. NextItem(o, <<pair>>) BY <1>2
  <2> HIDE DEF pair
  <2>8. FilesInv' BY <1>1, <2>1, <2>4, <2>6, <2>7, NextItemKeeps DEF At
  <2> QED BY <2>1, <2>8, NothingOverwritten DEF Present, Is
<1>3. CASE Goto(o, "over") /\ UNCHANGED <<fs, trash>>
  BY <1>1, <1>3, GotoKeeps, NothingOverwritten DEF At
<1> QED BY <1>2, <1>3 DEF TrashItem, GiveUp

(* Rename: the new name is free, or its own. *)
LEMMA RenameItemStep ==
    ASSUME FilesInv, NEW o \in OpIds, RenameItem(o)
    PROVE  FilesInv' /\ OverwritesAgreed
<1> DEFINE s == task[o].sources[1]
           t == task[o].dest
           pair == [from |-> s, to |-> t]
<1>1. /\ At(o, "item") /\ Kind(o) = "Rename" /\ UNCHANGED <<trash, records, undo, scene>>
      /\ fs \in [Paths -> Nodes] /\ IsTree(fs) /\ task \in [OpIds -> TaskRecords]
      /\ IsRequest(task[o]) /\ TaskFits(task[o])
  BY AtWork DEF RenameItem, At
<1>2. s \in Paths /\ t \in Paths BY <1>1, EmptySeq, ElementOfSeq DEF IsRequest, Kind, Removals
<1>3. CASE /\ NameIsFree(s, t) /\ CanRename(s, t) /\ fs' = Renamed(s, t)
           /\ task' = [task EXCEPT ![o].pc = "record", ![o].made = <<pair>>]
  <2>1. /\ fs' \in [Paths -> Nodes] /\ IsTree(fs')
        /\ \A p \in Paths : Is(fs, p, "file") /\ Is(fs', p, "file") => fs'[p] = fs[p]
    BY <1>1, <1>2, <1>3, RenameKeepsTree DEF NameIsFree
  <2>2. pair \in Pairs /\ pair.to = t BY <1>2 DEF Pairs
  <2> HIDE DEF pair
  <2>3. <<pair>> \in Seq(Pairs) /\ Len(<<pair>>) = 1 /\ <<pair>>[1] = pair /\ "record" \in Pcs
    BY <2>2 DEF Pcs
  <2>4. task' \in [OpIds -> TaskRecords] BY <1>1, <1>3, <2>3 DEF TaskRecords
  <2>5. /\ \A p \in OpIds \ {o} : task'[p] = task[p]
        /\ task'[o].pc = "record" /\ task'[o].kind = task[o].kind /\ task'[o].sources = task[o].sources
        /\ task'[o].dest = task[o].dest /\ task'[o].idx = task[o].idx
        /\ task'[o].made = <<pair>>
    BY <1>1, <1>3, <2>4 DEF TaskRecords
  <2>6. TaskFits(task'[o]) BY <1>1, <2>5 DEF IsRequest, TaskFits, Kind
  <2>7. PairsFit(task, task'[o].kind, task'[o].made) BY <1>1, <1>2, <2>2, <2>3, <2>5 DEF PairsFit, Kind
  <2>8. /\ records' \in Seq(UndoRecords) /\ Len(records') <= MaxUndo
        /\ \A i \in 1..Len(records') : PairsFit(task, records'[i].kind, records'[i].pairs)
        /\ \A k \in DOMAIN trash' : EntryFits(task, k, trash'[k])
    BY <1>1 DEF FilesInv, FilesTypes, RecordsFit, TrashFits
  <2>9. FilesInv' BY <1>1, <2>1, <2>4, <2>5, <2>6, <2>7, <2>8, TaskStepKeeps DEF At
  <2> QED BY <2>1, <2>9, NothingOverwritten
<1>4. CASE Goto(o, "over") /\ UNCHANGED fs BY <1>1, <1>4, GotoKeeps, NothingOverwritten DEF At
<1> QED BY <1>3, <1>4 DEF RenameItem, GiveUp

(* Create: nothing is in the way, a file written over is the one named. *)
LEMMA CreateStep ==
    ASSUME FilesInv, NEW o \in OpIds, Create(o)
    PROVE  FilesInv' /\ OverwritesAgreed
<1> DEFINE x == task[o].dest
           new == IF Kind(o) = "CreateFile" THEN File(o, x) ELSE Dir
           clear == IF Kind(o) = "CreateFile"
                    THEN HasParent(x) /\ ~Is(fs, x, "dir")
                    ELSE ~Is(fs, x, "file") /\ ~\E a \in Above(x) : Is(fs, a, "file")
<1>1. /\ At(o, "item") /\ Kind(o) \in {"CreateDirectory", "CreateFile"}
      /\ Goto(o, "over") /\ UNCHANGED <<trash, records, undo, scene>>
      /\ fs' = IF ~clear THEN fs
               ELSE [q \in Paths |-> IF q = x THEN new
                                     ELSE IF q \in Above(x) /\ ~Present(fs, q) THEN Dir ELSE fs[q]]
  BY DEF Create
<1>2. /\ fs \in [Paths -> Nodes] /\ IsTree(fs) /\ task \in [OpIds -> TaskRecords] /\ IsRequest(task[o])
      /\ x \in Paths
  BY <1>1, AtWork DEF At, IsRequest, Kind, Removals
<1>3. new \in Nodes /\ (Kind(o) # "CreateFile" => new = Dir)
  BY FilesAssumption, <1>2, NodeKinds DEF FilesAssumption, OpIds
<1>4. CASE clear
  <2>1. ~\E a \in Above(x) : Is(fs, a, "file")
    <3>1. CASE HasParent(x) BY <3>1, <1>2, AboveAndParent DEF HasParent, IsTree, Present, Is
    <3> QED BY <1>4, <3>1
  <2>2. new.kind = "dir" \/ ~Is(fs, x, "dir") BY <1>3, <1>4, NodeKinds
  <2> DEFINE f == [q \in Paths |-> IF q = x THEN new
                                   ELSE IF q \in Above(x) /\ ~Present(fs, q) THEN Dir ELSE fs[q]]
  <2>3. fs' = f BY <1>1, <1>4
  <2>4. f[x] = new BY <1>2
  <2> HIDE DEF new, clear, x
  <2>5. f \in [Paths -> Nodes] /\ IsTree(f) /\ \A p \in Paths : Present(fs, p) /\ p # x => f[p] = fs[p]
    <3> DEFINE g == f
    <3>1. g = [q \in Paths |-> IF q = x THEN new
                               ELSE IF q \in Above(x) /\ ~Present(fs, q) THEN Dir ELSE fs[q]]
      OBVIOUS
    <3> HIDE DEF g
    <3>2. g \in [Paths -> Nodes] /\ IsTree(g) /\ \A p \in Paths : Present(fs, p) /\ p # x => g[p] = fs[p]
      BY <1>2, <1>3, <2>1, <2>2, <3>1, CreationKeepsTree
    <3> QED BY <3>2 DEF g
  <2> HIDE DEF f
  <2>6. FilesInv' BY <1>1, <2>3, <2>5, GotoKeeps DEF At
  <2>7. task'[o] # task[o] BY <1>1, <1>2, GotoFields DEF At, Pcs
  <2>8. ASSUME NEW p \in Paths, Is(fs, p, "file"), Is(fs', p, "file"), fs'[p] # fs[p]
        PROVE  Kind(o) = "CreateFile" /\ x = p
    BY <2>3, <2>5, <2>8, <1>3, <2>4, NodeKinds DEF Present, Is
  <2> QED BY <2>6, <2>7, <2>8 DEF OverwritesAgreed, x
<1>5. CASE ~clear BY <1>1, <1>5, <1>2, GotoKeeps, NothingOverwritten DEF At
<1> QED BY <1>4, <1>5

(* A set of numbers that is bounded has a greatest one. *)
LEMMA Greatest ==
    ASSUME NEW n \in Nat, NEW T \in SUBSET (0..n), T # {}
    PROVE  \E i \in T : \A k \in T : k <= i
<1> DEFINE Below == {n - k : k \in T}
<1>1. Below \subseteq Nat /\ Below # {}
  <2>1. \A k \in T : n - k \in Nat OBVIOUS
  <2> QED BY <2>1
<1>2. PICK x \in Below : \A y \in Below : <<y, x>> \notin OpToRel(<, Nat)
  BY <1>1, WFMin, NatLessThanWellFounded
<1>3. \A y \in Below : ~(y < x) BY <1>1, <1>2 DEF OpToRel
<1>4. PICK i \in T : x = n - i OBVIOUS
<1>5. \A k \in T : ~(n - k < n - i) BY <1>3, <1>4
<1> QED BY <1>5

(* Record: what it pushes fits, whatever it drops. *)
LEMMA RecordStep ==
    ASSUME FilesInv, NEW o \in OpIds, Record(o)
    PROVE  FilesInv' /\ OverwritesAgreed
<1> DEFINE r == [op |-> o, kind |-> RecordKind(o), pairs |-> task[o].made,
                 undoable |-> RecordKind(o) # "Delete"]
<1>1. /\ task[o].pc \notin {"new", "over"} /\ Goto(o, "over")
      /\ UNCHANGED records \/ Push(r)
      /\ UNCHANGED <<fs, trash, undo, scene>>
  BY DEF Record, LoopDone, At
<1>2. /\ fs \in [Paths -> Nodes] /\ IsTree(fs) /\ task \in [OpIds -> TaskRecords]
      /\ IsRequest(task[o]) /\ TaskFits(task[o]) /\ PairsFit(task, Kind(o), task[o].made)
  BY <1>1, AtWork
<1>3. r \in UndoRecords
  <2>1. RecordKind(o) \in Kinds BY <1>2 DEF TaskRecords, RecordKind, Kind, Kinds, Transfers
  <2>2. task[o].made \in Seq(Pairs) /\ (RecordKind(o) # "Delete") \in BOOLEAN BY <1>2 DEF TaskRecords
  <2> QED BY <2>1, <2>2 DEF UndoRecords
<1>4. PairsFit(task, r.kind, r.pairs) BY <1>2 DEF PairsFit, RecordKind
<1>5. /\ records \in Seq(UndoRecords) /\ Len(records) <= MaxUndo /\ Len(records) \in Nat
      /\ \A i \in 1..Len(records) : PairsFit(task, records[i].kind, records[i].pairs)
      /\ MaxUndo \in Nat
  BY LenProperties, FilesAssumption DEF FilesInv, FilesTypes, RecordsFit, FilesAssumption
<1>6. ASSUME Push(r)
      PROVE  /\ records' \in Seq(UndoRecords) /\ Len(records') <= MaxUndo
             /\ \A i \in 1..Len(records') : PairsFit(task, records'[i].kind, records'[i].pairs)
  <2> DEFINE all == Append(records, r)
  <2> HIDE DEF r
  <2>1. /\ all \in Seq(UndoRecords) /\ Len(all) = Len(records) + 1
        /\ \A i \in 1..Len(all) : all[i] = r \/ (i \in 1..Len(records) /\ all[i] = records[i])
    BY <1>3, <1>5
  <2>2. \A i \in 1..Len(all) : PairsFit(task, all[i].kind, all[i].pairs) BY <1>4, <1>5, <2>1
  <2>3. \/ records' = all /\ Len(all) <= MaxUndo
        \/ records' = Tail(all)
    BY <1>6 DEF Push
  <2> HIDE DEF all
  <2>4. CASE records' = Tail(all) BY <1>5, <2>1, HeadTailProperties, <2>2, <2>4
  <2> QED BY <2>1, <2>2, <2>3, <2>4
<1>7. /\ records' \in Seq(UndoRecords) /\ Len(records') <= MaxUndo
      /\ \A i \in 1..Len(records') : PairsFit(task, records'[i].kind, records'[i].pairs)
  BY <1>1, <1>5, <1>6
<1> HIDE DEF r
<1>8. "over" \in Pcs BY DEF Pcs
<1>9. /\ task' \in [OpIds -> TaskRecords]
      /\ \A p \in OpIds \ {o} : task'[p] = task[p]
      /\ task'[o].pc = "over" /\ task'[o].kind = task[o].kind /\ task'[o].sources = task[o].sources
      /\ task'[o].dest = task[o].dest /\ task'[o].idx = task[o].idx /\ task'[o].made = task[o].made
  BY <1>1, <1>2, <1>8, GotoFields
<1>10. TaskFits(task'[o]) /\ PairsFit(task, task'[o].kind, task'[o].made)
  BY <1>2, <1>9 DEF IsRequest, TaskFits, Kind
<1>11. \A k \in DOMAIN trash' : EntryFits(task, k, trash'[k]) BY <1>1, StandingEntries
<1>12. fs' \in [Paths -> Nodes] /\ IsTree(fs') BY <1>1, <1>2
<1>13. FilesInv' BY <1>1, <1>7, <1>9, <1>10, <1>11, <1>12, TaskStepKeeps
<1> QED BY <1>1, <1>13, NothingOverwritten

(* Request: the new task has made nothing yet. *)
LEMMA RequestStep ==
    ASSUME FilesInv, NEW o \in OpIds, NEW r \in scene.requests, Request(o, r)
    PROVE  FilesInv' /\ OverwritesAgreed
<1>1. /\ task[o].pc = "new" /\ Busy < scene.running
      /\ task' = [task EXCEPT ![o] = [IdleTask EXCEPT !.kind = r.kind, !.sources = r.sources,
                                                      !.dest = r.dest, !.pc = "item"]]
      /\ UNCHANGED <<fs, trash, records, undo, scene>>
  BY DEF Request
<1>2. task \in [OpIds -> TaskRecords] /\ IsRequest(r)
  BY FilesAssumption DEF FilesInv, FilesTypes, FilesAssumption
<1> DEFINE new == [IdleTask EXCEPT !.kind = r.kind, !.sources = r.sources, !.dest = r.dest, !.pc = "item"]
<1>3. /\ new.kind = r.kind /\ new.sources = r.sources /\ new.dest = r.dest /\ new.pc = "item"
      /\ new.idx = 1 /\ new.target = <<>> /\ new.replaces = FALSE /\ new.made = <<>>
  BY DEF IdleTask
<1>4. new \in TaskRecords
  <2>1. r.kind \in Kinds /\ r.sources \in Seq(Paths) /\ r.dest \in Spots
    BY <1>2 DEF IsRequest, Kinds, Spots
  <2>2. <<>> \in Seq(Pairs) /\ <<>> \in Spots /\ "item" \in Pcs BY EmptySeq DEF Spots, Pcs
  <2> QED BY <2>1, <2>2 DEF TaskRecords, IdleTask
<1>5. task' = [task EXCEPT ![o] = new] BY <1>1
<1> HIDE DEF new
<1>6. TaskFits(new) /\ PairsFit(task, new.kind, new.made)
  BY <1>2, <1>3, LenProperties, EmptySeq DEF IsRequest, TaskFits, PairsFit
<1>7. task' \in [OpIds -> TaskRecords] /\ \A p \in OpIds : task'[p] = IF p = o THEN new ELSE task[p]
  BY <1>2, <1>4, <1>5
<1>8. /\ \A k, entry : EntryFits(task, k, entry) => EntryFits(task', k, entry)
      /\ \A kind, pairs : PairsFit(task, kind, pairs) => PairsFit(task', kind, pairs)
  <2>1. \A p \in OpIds : task[p].pc # "new" => task'[p].pc # "new" /\ task'[p].sources = task[p].sources
    BY <1>1, <1>3, <1>7
  <2> QED BY <1>2, <1>7, <2>1, KeysStay
<1>9. FilesTypes' BY <1>1, <1>7 DEF FilesInv, FilesTypes
<1>10. TrashFits' BY <1>1, <1>8 DEF FilesInv, TrashFits
<1>11. RecordsFit' BY <1>6, <1>7, <1>8, <1>1 DEF FilesInv, RecordsFit
<1>12. AloneFits' BY <1>1, NobodyAtWork, <1>7, <1>3 DEF AloneFits, Alone, Running, At
<1> QED BY <1>1, <1>9, <1>10, <1>11, <1>12, NothingOverwritten DEF FilesInv

(* UndoPop: the pairs leave the record for the undo. *)
LEMMA UndoPopStep ==
    ASSUME FilesInv, UndoPop
    PROVE  FilesInv' /\ OverwritesAgreed
<1>1. /\ undo.pc = "idle" /\ Busy < scene.running /\ Undoable # {}
      /\ UNCHANGED <<fs, trash, task, scene>>
  BY DEF UndoPop
<1> DEFINE i == CHOOSE j \in Undoable : \A k \in Undoable : k <= j
<1>2. /\ records' = RemoveAt(records, i)
      /\ undo' = [pc |-> "pair", op |-> records[i].op, kind |-> records[i].kind,
                  pairs |-> records[i].pairs, idx |-> 1, blocked |-> FALSE]
  BY DEF UndoPop
<1>3. /\ records \in Seq(UndoRecords) /\ Len(records) \in Nat /\ Len(records) <= MaxUndo
      /\ \A j \in 1..Len(records) : PairsFit(task, records[j].kind, records[j].pairs)
      /\ MaxUndo \in Nat
  BY LenProperties, FilesAssumption DEF FilesInv, FilesTypes, RecordsFit, FilesAssumption
<1>4. i \in 1..Len(records)
  <2>1. Undoable \subseteq 0..Len(records) /\ Undoable \subseteq 1..Len(records) BY <1>3 DEF Undoable
  <2>2. \E j \in Undoable : \A k \in Undoable : k <= j BY <1>1, <1>3, <2>1, Greatest
  <2>3. i \in Undoable BY <2>2
  <2> QED BY <2>1, <2>3
<1> HIDE DEF i
<1>5. /\ records' \in Seq(UndoRecords) /\ Len(records') = Len(records) - 1
      /\ \A j \in 1..Len(records') : \E k \in 1..Len(records) : records'[j] = records[k]
  <2> DEFINE front == SubSeq(records, 1, i - 1)
             back == SubSeq(records, i + 1, Len(records))
  <2>1. front \in Seq(UndoRecords) /\ Len(front) = i - 1 /\ \A j \in 1..(i - 1) : front[j] = records[j]
    BY <1>3, <1>4
  <2>2. /\ back \in Seq(UndoRecords) /\ Len(back) = Len(records) - i
        /\ \A j \in 1..(Len(records) - i) : back[j] = records[i + j]
    BY <1>3, <1>4
  <2>3. records' = front \o back BY <1>2 DEF RemoveAt
  <2> HIDE DEF front, back
  <2>4. /\ front \o back \in Seq(UndoRecords) /\ Len(front \o back) = Len(front) + Len(back)
        /\ \A j \in 1..(Len(front) + Len(back)) :
              (front \o back)[j] = IF j <= Len(front) THEN front[j] ELSE back[j - Len(front)]
    BY <2>1, <2>2, ConcatProperties
  <2>5. ASSUME NEW j \in 1..(Len(records) - 1) PROVE \E k \in 1..Len(records) : (front \o back)[j] = records[k]
    <3>1. CASE j <= i - 1
      <4>1. j \in 1..(i - 1) /\ j \in 1..Len(records) /\ j \in 1..(Len(front) + Len(back)) /\ j <= Len(front)
        BY <1>3, <1>4, <2>1, <2>2, <3>1
      <4>2. (front \o back)[j] = front[j] BY <2>4, <4>1
      <4> QED BY <2>1, <4>1, <4>2
    <3>2. CASE ~(j <= i - 1)
      <4>1. j - (i - 1) \in 1..(Len(records) - i) /\ i + (j - (i - 1)) \in 1..Len(records)
        BY <1>3, <1>4, <3>2
      <4>2. (front \o back)[j] = back[j - (i - 1)] BY <1>3, <1>4, <2>1, <2>2, <2>4, <3>2
      <4>3. back[j - (i - 1)] = records[i + (j - (i - 1))] BY <2>2, <4>1
      <4> QED BY <4>1, <4>2, <4>3
    <3> QED BY <3>1, <3>2
  <2>6. Len(front \o back) = Len(records) - 1 BY <1>3, <1>4, <2>1, <2>2, <2>4
  <2> QED BY <2>3, <2>4, <2>5, <2>6
<1>6. records[i] \in UndoRecords BY <1>3, <1>4, ElementOfSeq
<1>7. undo' \in Undos /\ undo'.pc = "pair" /\ undo'.kind = records[i].kind /\ undo'.pairs = records[i].pairs
  BY <1>2, <1>6 DEF UndoRecords, Undos
<1>8. FilesTypes' BY <1>1, <1>3, <1>5, <1>7 DEF FilesInv, FilesTypes
<1>9. TrashFits' BY <1>1 DEF FilesInv, TrashFits
<1>10. RecordsFit' BY <1>1, <1>3, <1>5, <1>4, <1>7 DEF FilesInv, RecordsFit
<1>11. AloneFits' BY <1>1, NobodyAtWork, <1>7 DEF AloneFits, Alone, Running, At
<1> QED BY <1>1, <1>8, <1>9, <1>10, <1>11, NothingOverwritten DEF FilesInv

(* The pair an undo is at names a path and where its item went. *)
LEMMA UndoAtWork ==
    ASSUME FilesInv
    PROVE  /\ fs \in [Paths -> Nodes] /\ IsTree(fs) /\ undo \in Undos
           /\ PairsFit(task, undo.kind, undo.pairs)
           /\ undo.pc = "rename" => undo.kind = "Move" /\ undo.idx <= Len(undo.pairs)
           /\ undo.idx <= Len(undo.pairs) =>
                 /\ From \in Paths
                 /\ undo.kind # "Trash" => To \in Paths
                 /\ undo.kind = "Trash" => From = Origin(task, To)
<1>1. /\ fs \in [Paths -> Nodes] /\ IsTree(fs) /\ undo \in Undos
      /\ PairsFit(task, undo.kind, undo.pairs)
      /\ undo.pc = "rename" => undo.kind = "Move" /\ undo.idx <= Len(undo.pairs)
  BY DEF FilesInv, FilesTypes, RecordsFit
<1>2. ASSUME undo.idx <= Len(undo.pairs)
      PROVE  /\ From \in Paths
             /\ undo.kind # "Trash" => To \in Paths
             /\ undo.kind = "Trash" => From = Origin(task, To)
  <2>1. undo.pairs \in Seq(Pairs) /\ undo.idx \in Nat \ {0} BY <1>1 DEF Undos
  <2>2. undo.idx \in 1..Len(undo.pairs) BY <1>2, <2>1, LenProperties
  <2>3. undo.pairs[undo.idx] \in Pairs BY <2>1, <2>2, ElementOfSeq
  <2>4. From \in Paths BY <2>3 DEF From, Pairs
  <2>5. IF undo.kind = "Trash" THEN From = Origin(task, To) ELSE To \in Paths
    BY <1>1, <2>2 DEF PairsFit, From, To
  <2> QED BY <2>4, <2>5
<1> QED BY <1>1, <1>2

(* What NextPair leaves of the undo. *)
LEMMA NextPairFields ==
    ASSUME undo \in Undos, NextPair
    PROVE  undo' \in Undos /\ undo'.pc = "pair" /\ undo'.kind = undo.kind /\ undo'.pairs = undo.pairs
<1>1. undo' = [undo EXCEPT !.pc = "pair", !.idx = @ + 1] BY DEF NextPair
<1>2. undo.idx + 1 \in Nat \ {0} BY DEF Undos
<1> QED BY <1>1, <1>2 DEF Undos

(* An undo that is over holds no pair. *)
LEMMA IdleUndoFits == IdleUndo \in Undos /\ IdleUndo.pc = "idle" /\ PairsFit(task, IdleUndo.kind, IdleUndo.pairs)
BY EmptySeq DEF IdleUndo, Undos, Kinds, PairsFit

(* Undoing a copy removes what is below one path. *)
LEMMA UndoCopyStep ==
    ASSUME FilesInv, UndoCopy
    PROVE  FilesInv' /\ OverwritesAgreed
<1>1. /\ undo.pc = "pair" /\ undo.idx <= Len(undo.pairs) /\ undo.kind = "Copy" /\ NextPair
      /\ fs' = [q \in Paths |-> IF q \in Under(To) THEN Absent ELSE fs[q]]
      /\ UNCHANGED <<trash, task, records, scene>>
  BY DEF UndoCopy, HasPair
<1>2. /\ fs' \in [Paths -> Nodes] /\ IsTree(fs') /\ \A p \in Paths : Present(fs', p) => fs'[p] = fs[p]
  BY <1>1, UndoAtWork, RemovalKeepsTree
<1>3. /\ undo' \in Undos /\ undo'.pc = "pair" /\ PairsFit(task, undo'.kind, undo'.pairs)
  BY <1>1, UndoAtWork, NextPairFields
<1>4. FilesInv' BY <1>1, <1>2, <1>3, UndoStepKeeps, StandingEntries
<1> QED BY <1>2, <1>4, NothingOverwritten DEF Present, Is

(* The look of undo_move, folders created on the way. *)
LEMMA UndoMoveLookStep ==
    ASSUME FilesInv, UndoMoveGone \/ UndoMoveBlocked \/ UndoMoveClear
    PROVE  FilesInv' /\ OverwritesAgreed
<1>1. /\ undo.pc = "pair" /\ undo.idx <= Len(undo.pairs) /\ undo.kind = "Move"
      /\ From \in Paths /\ fs \in [Paths -> Nodes] /\ IsTree(fs) /\ undo \in Undos
      /\ PairsFit(task, undo.kind, undo.pairs)
      /\ UNCHANGED <<trash, task, records, scene>>
  BY UndoAtWork DEF UndoMoveGone, UndoMoveBlocked, UndoMoveClear, HasPair
<1>2. CASE UndoMoveGone
  BY <1>1, <1>2, NextPairFields, UndoStepKeeps, StandingEntries, NothingOverwritten DEF UndoMoveGone
<1>3. CASE UndoMoveBlocked
  <2>1. undo' = [undo EXCEPT !.idx = @ + 1, !.blocked = TRUE] /\ UNCHANGED fs
    BY <1>3 DEF UndoMoveBlocked
  <2>2. undo.idx + 1 \in Nat \ {0} BY <1>1 DEF Undos
  <2>3. undo' \in Undos /\ undo'.pc = "pair" /\ undo'.kind = undo.kind /\ undo'.pairs = undo.pairs
    BY <1>1, <2>1, <2>2 DEF Undos
  <2> QED BY <1>1, <2>1, <2>3, UndoStepKeeps, StandingEntries, NothingOverwritten
<1>4. CASE UndoMoveClear /\ undo' = IdleUndo /\ UNCHANGED fs
  BY <1>1, <1>4, IdleUndoFits, UndoStepKeeps, StandingEntries, NothingOverwritten
<1>5. CASE /\ UndoMoveClear /\ ~\E a \in Above(From) : Is(fs, a, "file")
           /\ undo' = [undo EXCEPT !.pc = "rename"]
           /\ fs' = [q \in Paths |-> IF q \in Above(From) /\ ~Present(fs, q) THEN Dir ELSE fs[q]]
  <2>1. /\ fs' \in [Paths -> Nodes] /\ IsTree(fs')
        /\ \A p \in Paths : Present(fs, p) => fs'[p] = fs[p]
        /\ fs'[From] = fs[From]
    BY <1>1, <1>5, FoldersKeepTree
  <2>2. /\ undo' \in Undos /\ undo'.pc = "rename" /\ undo'.kind = undo.kind /\ undo'.pairs = undo.pairs
        /\ undo'.idx = undo.idx
    BY <1>1, <1>5 DEF Undos
  <2>3. ~InTheWay'
    <3>1. From' = From /\ To' = To /\ ~InTheWay BY <1>5, <2>2 DEF From, To, UndoMoveClear
    <3> QED BY <2>1, <3>1 DEF InTheWay, Present, Is
  <2>4. FilesInv' BY <1>1, <2>1, <2>2, <2>3, UndoStepKeeps, StandingEntries
  <2> QED BY <2>1, <2>4, NothingOverwritten DEF Present, Is
<1> QED BY <1>2, <1>3, <1>4, <1>5 DEF UndoMoveClear

(* Its rename: alone, the way is still clear. *)
LEMMA UndoMoveRenameStep ==
    ASSUME FilesInv, UndoMoveRename
    PROVE  FilesInv' /\ OverwritesAgreed
<1>1. /\ undo.pc = "rename" /\ undo.idx <= Len(undo.pairs) /\ undo.kind = "Move"
      /\ From \in Paths /\ To \in Paths /\ fs \in [Paths -> Nodes] /\ IsTree(fs) /\ undo \in Undos
      /\ PairsFit(task, undo.kind, undo.pairs)
      /\ UNCHANGED <<trash, task, records, scene>>
  BY UndoAtWork DEF UndoMoveRename
<1>2. CASE CanRename(To, From) /\ fs' = Renamed(To, From) /\ NextPair
  BY <1>1, <1>2, RenameKeepsTree, NextPairFields, UndoStepKeeps, StandingEntries DEF FilesInv,
    AloneFits, InTheWay, OverwritesAgreed
<1>3. CASE undo' = IdleUndo /\ UNCHANGED fs
  BY <1>1, <1>3, IdleUndoFits, UndoStepKeeps, StandingEntries, NothingOverwritten
<1> QED BY <1>2, <1>3 DEF UndoMoveRename

(* A restore: the tree taken out fits where it came from. *)
LEMMA UndoTrashStep ==
    ASSUME FilesInv, UndoTrash
    PROVE  FilesInv' /\ OverwritesAgreed
<1>1. /\ undo.pc = "pair" /\ undo.idx <= Len(undo.pairs) /\ undo.kind = "Trash"
      /\ From \in Paths /\ From = Origin(task, To) /\ fs \in [Paths -> Nodes] /\ IsTree(fs)
      /\ undo \in Undos /\ PairsFit(task, undo.kind, undo.pairs)
      /\ UNCHANGED <<task, records, scene>>
  BY UndoAtWork DEF UndoTrash, HasPair
<1>2. CASE /\ To \in DOMAIN trash
           /\ ~\E a \in Above(From) : Is(fs, a, "file")
           /\ fs' = [q \in Paths |->
                        IF q \in Under(From) THEN trash[To].tree[q]
                        ELSE IF q \in Above(From) /\ ~Present(fs, q) THEN Dir ELSE fs[q]]
           /\ trash' = [k \in DOMAIN trash \ {To} |-> trash[k]]
           /\ NextPair
  BY <1>1, <1>2, RestoreKeepsTree, NextPairFields, UndoStepKeeps DEF FilesInv, TrashFits, EntryFits,
    OverwritesAgreed
<1>3. CASE undo' = IdleUndo /\ UNCHANGED <<fs, trash>>
  BY <1>1, <1>3, IdleUndoFits, UndoStepKeeps, StandingEntries, NothingOverwritten
<1> QED BY <1>2, <1>3 DEF UndoTrash

(* The end of an undo. *)
LEMMA UndoDoneStep ==
    ASSUME FilesInv, UndoDone
    PROVE  FilesInv' /\ OverwritesAgreed
BY UndoAtWork, IdleUndoFits, UndoStepKeeps, StandingEntries, NothingOverwritten DEF UndoDone

-------------------------------------------------------------------------------

(* The invariant holds at first. *)
LEMMA FirstFilesFit == Init => FilesInv
<1> SUFFICES ASSUME Init PROVE FilesInv OBVIOUS
<1>1. /\ fs = [p \in Paths |-> IF p \in Roots \cup FirstDirs THEN Dir
                               ELSE IF p \in FirstFiles THEN File(0, p) ELSE Absent]
      /\ trash = <<>> /\ task = [o \in OpIds |-> IdleTask] /\ records = <<>> /\ undo = IdleUndo
      /\ scene \in Scenes
  BY DEF Init
<1>2. fs \in [Paths -> Nodes] BY FilesAssumption, <1>1, NodeKinds DEF FilesAssumption
<1>3. IsTree(fs) BY <1>1, NodeKinds, FilesAssumption DEF IsTree, Present, Is, FilesAssumption, Above
<1>4. <<>> \in Seq(Paths) /\ <<>> \in Seq(Pairs) /\ <<>> \in Seq(UndoRecords) /\ Len(<<>>) = 0
  BY EmptySeq
<1>5. IdleTask \in TaskRecords /\ TaskFits(IdleTask) /\ IdleTask.pc = "new" /\ IdleTask.made = <<>>
  <2>1. IdleTask \in TaskRecords BY <1>4 DEF IdleTask, TaskRecords, Kinds, Spots, Pcs
  <2>2. IdleTask.pc = "new" /\ IdleTask.idx = 1 /\ IdleTask.sources = <<>> /\ IdleTask.made = <<>>
    BY DEF IdleTask
  <2> QED BY <1>4, <2>1, <2>2 DEF TaskFits
<1>6. task \in [OpIds -> TaskRecords] /\ \A o \in OpIds : task[o] = IdleTask BY <1>1, <1>5
<1>7. FilesTypes
  BY <1>1, <1>2, <1>3, <1>4, <1>6, IdleUndoFits, FilesAssumption DEF FilesTypes, FilesAssumption
<1>8. TrashFits BY <1>1 DEF TrashFits
<1>9. RecordsFit BY <1>4, <1>5, <1>6, <1>1, IdleUndoFits DEF PairsFit, RecordsFit
<1>10. AloneFits BY <1>1, <1>5, <1>6, IdleUndoFits DEF AloneFits, Running, At
<1> QED BY <1>7, <1>8, <1>9, <1>10 DEF FilesInv

(* Every step keeps it. *)
LEMMA FilesStep == FilesInv /\ [Next]_filesVars => FilesInv' /\ (OverwritesAgreed \/ UNCHANGED filesVars)
<1> SUFFICES ASSUME FilesInv, [Next]_filesVars
             PROVE  FilesInv' /\ (OverwritesAgreed \/ UNCHANGED filesVars)
  OBVIOUS
<1>1. ASSUME NEW o \in OpIds, TaskStep(o) PROVE FilesInv' /\ OverwritesAgreed
  <2>1. CASE Cancel(o) \/ Refuse(o) BY <2>1, CancelStep
  <2>2. CASE Settle(o) BY <2>2, SettleStep
  <2>3. CASE SkipItem(o) BY <2>3, SkipStep
  <2>4. CASE Withdraw(o) BY <2>4, WithdrawStep
  <2>5. CASE CopyWrite(o) BY <2>5, CopyItemStep DEF CopyWrite
  <2>6. CASE MoveByRename(o) BY <2>6, MoveByRenameStep
  <2>7. CASE MoveByCopy(o) BY <2>7, MoveByCopyStep
  <2>8. CASE DeleteMoved(o) BY <2>8, DeleteMovedStep
  <2>9. CASE DeleteItem(o) BY <2>9, DeleteItemStep
  <2>10. CASE TrashItem(o) BY <2>10, TrashItemStep
  <2>11. CASE RenameItem(o) BY <2>11, RenameItemStep
  <2>12. CASE Create(o) BY <2>12, CreateStep
  <2>13. CASE Record(o) BY <2>13, RecordStep
  <2> QED BY <1>1, <2>1, <2>2, <2>3, <2>4, <2>5, <2>6, <2>7, <2>8, <2>9, <2>10, <2>11, <2>12, <2>13 DEF
      TaskStep
<1>2. ASSUME NEW o \in OpIds, NEW r \in scene.requests, Request(o, r) PROVE FilesInv' /\ OverwritesAgreed
  BY <1>2, RequestStep
<1>3. ASSUME UndoStep PROVE FilesInv' /\ OverwritesAgreed
  BY <1>3, UndoPopStep, UndoCopyStep, UndoMoveLookStep, UndoMoveRenameStep, UndoTrashStep, UndoDoneStep
    DEF UndoStep
<1>4. CASE UNCHANGED filesVars
  <2>1. UNCHANGED <<fs, trash, task, records, undo, scene>> BY <1>4 DEF filesVars
  <2>2. FilesTypes' /\ TrashFits' /\ RecordsFit' BY <2>1 DEF FilesInv, FilesTypes, TrashFits, RecordsFit
  <2>3. AloneFits'
    <3>1. Running' = Running /\ (Alone' <=> Alone) /\ (InTheWay' <=> InTheWay)
      BY <2>1 DEF Running, Alone, InTheWay, From, To
    <3> QED BY <2>1, <3>1 DEF FilesInv, AloneFits, At
  <2> QED BY <1>4, <2>2, <2>3 DEF FilesInv
<1> QED BY <1>1, <1>2, <1>3, <1>4 DEF Next

(* It is as strong as TypeOK. *)
LEMMA FilesInvIsTypeOK == FilesInv => TypeOK
<1> SUFFICES ASSUME FilesInv PROVE TypeOK OBVIOUS
<1>1. /\ fs \in [Paths -> Nodes] /\ IsTree(fs) /\ task \in [OpIds -> TaskRecords]
      /\ records \in Seq(UndoRecords) /\ Len(records) <= MaxUndo /\ undo \in Undos
      /\ \A o \in OpIds : TaskFits(task[o])
  BY DEF FilesInv, FilesTypes, RecordsFit
<1>2. \A o \in OpIds : task[o].pc \in Pcs /\ task[o].idx \in 1..(Len(task[o].sources) + 1)
  BY <1>1 DEF TaskFits, TaskRecords
<1>3. \A i \in 1..Len(records) : records[i].op \in OpIds
  <2>1. \A i \in 1..Len(records) : records[i] \in UndoRecords BY <1>1, ElementOfSeq
  <2> QED BY <2>1 DEF UndoRecords
<1>4. undo.pc \in {"idle", "pair", "rename"} BY <1>1 DEF Undos
<1> QED BY <1>1, <1>2, <1>3, <1>4 DEF TypeOK, IsTree

(* Whatever operations do one after another or together, and however far they get: what is
   above a file or a folder is a folder, every task is at an item of its request or past the
   last, and the undo stack keeps to its limit. *)
THEOREM FilesStayTrees == Spec => []TypeOK
<1>1. FilesInv /\ [Next]_filesVars => FilesInv' BY FilesStep
<1> QED BY <1>1, FirstFilesFit, FilesInvIsTypeOK, PTL DEF Spec

(* A file is only written over by an operation that was told to replace it, by New File or by
   the undo of a Trash: whatever appears between the conflict check and the write, one
   operation at a time, or any number where a rename does not replace. *)
THEOREM OverwritesAreAgreed == Spec => NoUnagreedOverwrite
<1>1. FilesInv /\ [Next]_filesVars => FilesInv' BY FilesStep
<1>2. FilesInv /\ [Next]_filesVars => [OverwritesAgreed]_filesVars BY FilesStep
<1> QED BY <1>1, <1>2, FirstFilesFit, PTL DEF Spec, NoUnagreedOverwrite

-------------------------------------------------------------------------------
(* No content is lost. When a move comes to delete its source, the copy it made must be
   complete and not within the source: that needs to be known of the move from the request to
   the deletion (MovesFit). *)

IsAsked(r) == \E a \in scene.requests : r.kind = a.kind /\ r.sources = a.sources /\ r.dest = a.dest

(* Every file below `s` is somewhere else too. *)
IsCopied(f, s) ==
    \A q \in FilesIn(f, Under(s)) : \E p \in Paths \ Under(s) : f[p] = f[q]

MovesFit ==
    \A o \in OpIds :
        /\ task[o].pc # "new" => IsAsked(task[o])
        /\ task[o].pc \in {"replace", "write"} =>
              /\ ~IsStrictPrefix(Source(o), task[o].target)
              /\ task[o].replaces =>
                    /\ task[o].target = DestPath(o)
                    /\ ~(Kind(o) = "Move" /\ Source(o) = DestPath(o))
        /\ Alone /\ ~MergesUp /\ At(o, "delete") => IsCopied(fs, Source(o))

(* Content that is somewhere still, or permitted to go, is not lost. *)
LEMMA NothingDestroyed ==
    ASSUME NEW permitted, Destroys(permitted), UNCHANGED trash,
           \A q \in Paths : Is(fs, q, "file") =>
               fs[q] \in permitted \/ \E p \in Paths : Is(fs', p, "file") /\ fs'[p] = fs[q]
    PROVE  lost' = lost
<1>1. ASSUME NEW c \in Contents PROVE c \in permitted \/ c \in Contents'
  <2>1. CASE c \in ContentsIn(fs, Paths) BY <2>1 DEF ContentsIn, FilesIn, Contents
  <2>2. CASE c \in UNION {ContentsIn(trash[k].tree, DOMAIN trash[k].tree) : k \in DOMAIN trash}
    BY <2>2 DEF Contents
  <2> QED BY <1>1, <2>1, <2>2 DEF Contents
<1>2. lost' = lost \cup ((Contents \ Contents') \ permitted) BY DEF Destroys
<1>3. (Contents \ Contents') \ permitted = {} BY <1>1
<1> QED BY <1>2, <1>3

(* A rename loses only what it replaces. *)
LEMMA RenameKeepsFiles ==
    ASSUME fs \in [Paths -> Nodes], IsTree(fs), NEW s \in Paths, NEW t \in Paths, CanRename(s, t),
           NEW q \in Paths, Is(fs, q, "file")
    PROVE  \/ \E p \in Paths : Is(Renamed(s, t), p, "file") /\ Renamed(s, t)[p] = fs[q]
           \/ q \in Under(t) /\ s # t /\ Present(fs, t)
<1>1. \A p \in Paths :
         /\ p \in Under(t) /\ Rebase(p, t, s) \in Paths => Renamed(s, t)[p] = fs[Rebase(p, t, s)]
         /\ p \notin Under(t) /\ p \notin Under(s) => Renamed(s, t)[p] = fs[p]
  BY DEF Renamed
<1>2. CASE q \in Under(s)
  <2>1. Rebase(q, s, t) \in Paths BY <1>2 DEF CanRename, Present, Is
  <2>2. Rebase(q, s, t) \in Under(t) /\ Rebase(Rebase(q, s, t), t, s) = q BY <1>2, <2>1, RebasedPath
  <2>3. Renamed(s, t)[Rebase(q, s, t)] = fs[q] BY <1>1, <2>1, <2>2
  <2> QED BY <2>1, <2>3 DEF Is
<1>3. CASE q \notin Under(s) /\ q \in Under(t)
  <2>1. s # t BY <1>3
  <2>2. Present(fs, t)
    <3>1. CASE q = t BY <3>1 DEF Is, Present
    <3>2. CASE q # t BY <1>3, <3>2, UnderAbove DEF IsTree, Is, Present
    <3> QED BY <3>1, <3>2
  <2> QED BY <1>3, <2>1, <2>2
<1>4. CASE q \notin Under(s) /\ q \notin Under(t) BY <1>1, <1>4 DEF Is
<1> QED BY <1>2, <1>3, <1>4

(* Renaming onto a free name, or its own, loses nothing. *)
LEMMA RenameLosesNothing ==
    ASSUME fs \in [Paths -> Nodes], IsTree(fs), NEW s \in Paths, NEW t \in Paths, CanRename(s, t),
           NameIsFree(s, t), fs' = Renamed(s, t), UNCHANGED trash, Destroys({})
    PROVE  lost' = lost
BY RenameKeepsFiles, NothingDestroyed DEF NameIsFree

(* Nor does removing what is permitted to go, or is elsewhere too. *)
LEMMA RemovalLosesNothing ==
    ASSUME fs \in [Paths -> Nodes], NEW x \in Paths, NEW permitted, Destroys(permitted), UNCHANGED trash,
           fs' = [q \in Paths |-> IF q \in Under(x) THEN Absent ELSE fs[q]],
           ContentsIn(fs, Under(x)) \subseteq permitted \/ IsCopied(fs, x)
    PROVE  lost' = lost
<1>1. \A q \in Paths : q \notin Under(x) => fs'[q] = fs[q] OBVIOUS
<1>2. ASSUME NEW q \in Paths, Is(fs, q, "file")
      PROVE  fs[q] \in permitted \/ \E p \in Paths : Is(fs', p, "file") /\ fs'[p] = fs[q]
  <2>1. CASE q \notin Under(x) BY <1>1, <1>2, <2>1 DEF Is
  <2>2. CASE q \in Under(x)
    <3>1. q \in FilesIn(fs, Under(x)) /\ fs[q] \in ContentsIn(fs, Under(x))
      BY <1>2, <2>2 DEF FilesIn, ContentsIn
    <3>2. CASE ContentsIn(fs, Under(x)) \subseteq permitted BY <3>1, <3>2
    <3>3. CASE IsCopied(fs, x) BY <3>1, <3>3, <1>1, <1>2 DEF IsCopied, Is
    <3> QED BY <3>2, <3>3
  <2> QED BY <2>1, <2>2
<1> QED BY <1>2, NothingDestroyed

(* What copy_item leaves, by what it reports. *)
LEMMA CopyOutcome ==
    ASSUME NEW o \in OpIds, NEW onSuccess, CopyItem(o, onSuccess)
    PROVE  \E some \in SUBSET ({s \in Under(Source(o)) : Present(fs, s)}
                                   \ Blocked(Source(o), task[o].target, task[o].replaces)) :
              /\ fs' = Copied(Source(o), task[o].target, some, o)
              /\ \/ Goto(o, "over")
                 \/ /\ some = {s \in Under(Source(o)) : Present(fs, s)}
                    /\ IF onSuccess = "delete" THEN Goto(o, "delete") ELSE NextItem(o, Made(o))
<1> DEFINE src == Source(o)
           dst == task[o].target
           rep == task[o].replaces
           items == {s \in Under(src) : Present(fs, s)}
           stop == Blocked(src, dst, rep)
<1>1. PICK out \in CopyOutcomes(src, dst, rep, o) :
         /\ fs' = out.fs
         /\ IF out.ok
            THEN IF onSuccess = "delete" THEN Goto(o, "delete") ELSE NextItem(o, Made(o))
            ELSE Goto(o, "over")
  BY DEF CopyItem, GiveUp
<1>2. \/ out \in {[ok |-> FALSE, fs |-> Copied(src, dst, some, o)] : some \in SUBSET (items \ stop)}
      \/ items \cap stop = {} /\ out = [ok |-> TRUE, fs |-> Copied(src, dst, items, o)]
  BY <1>1 DEF CopyOutcomes
<1>3. \/ \E some \in SUBSET (items \ stop) : out.fs = Copied(src, dst, some, o) /\ ~out.ok
      \/ items \in SUBSET (items \ stop) /\ out.fs = Copied(src, dst, items, o) /\ out.ok
  BY <1>2
<1> QED BY <1>1, <1>3

(* A copy loses only what it was told to replace. *)
LEMMA CopyLosesNothing ==
    ASSUME FilesInv, NEW o \in OpIds, NEW onSuccess, At(o, "write"), CopyItem(o, onSuccess)
    PROVE  lost' = lost
<1> DEFINE src == Source(o)
           dst == task[o].target
           rep == task[o].replaces
<1>1. /\ fs \in [Paths -> Nodes] /\ IsTree(fs)
      /\ src \in Paths /\ dst \in Paths /\ rep \in BOOLEAN
  BY AtWork DEF At, TaskRecords
<1>2. PICK some \in SUBSET ({s \in Under(src) : Present(fs, s)} \ Blocked(src, dst, rep)) :
         fs' = Copied(src, dst, some, o)
  BY CopyOutcome
<1>3. \A p \in Paths : (Is(fs, p, "file") /\ fs'[p] # fs[p]) => rep /\ IsPrefix(dst, p)
  BY <1>1, <1>2, CopyKeepsTree
<1>4. ASSUME NEW q \in Paths, Is(fs, q, "file")
      PROVE  fs[q] \in Agreed(o) \/ \E p \in Paths : Is(fs', p, "file") /\ fs'[p] = fs[q]
  <2>1. CASE fs'[q] = fs[q] BY <1>4, <2>1 DEF Is
  <2>2. CASE fs'[q] # fs[q] BY <1>3, <1>4, <2>2 DEF Under, Agreed, ContentsIn, FilesIn
  <2> QED BY <2>1, <2>2
<1>5. UNCHANGED trash /\ Destroys(Agreed(o)) BY DEF CopyItem
<1> QED BY <1>4, <1>5, NothingDestroyed

(* Not told to merge a folder into one that holds it, a move that comes to copy goes to a place
   apart. *)
LEMMA MovesApart ==
    ASSUME FilesInv, MovesFit, Alone, ~MergesUp, NEW o \in OpIds, At(o, "write"), Kind(o) = "Move",
           MoveMayCopy(o)
    PROVE  Under(Source(o)) \cap Under(task[o].target) = {}
<1> DEFINE s == Source(o)
           t == task[o].target
<1>1. /\ fs \in [Paths -> Nodes] /\ IsTree(fs) /\ s \in Paths /\ t \in Paths /\ HasSource(o)
      /\ task[o].idx \in 1..Len(task[o].sources) /\ task[o].replaces \in BOOLEAN
  BY AtWork DEF At, TaskRecords
<1>2. ~IsStrictPrefix(s, t) /\ (task[o].replaces => t = DestPath(o) /\ s # t) BY DEF MovesFit, At
<1>3. CASE task[o].replaces
  <2>1. t = Append(task[o].dest, Name(s)) /\ s # t BY <1>2, <1>3 DEF DestPath
  <2>2. ~IsStrictPrefix(t, s)
    <3>1. PICK a \in scene.requests :
             task[o].kind = a.kind /\ task[o].sources = a.sources /\ task[o].dest = a.dest
      BY DEF MovesFit, IsAsked, At
    <3> QED BY <1>1, <2>1, <3>1 DEF MergesUp, Kind, Source
  <2> QED BY <1>1, <1>2, <2>1, <2>2, PathNames, PrefixOrder DEF Under, IsStrictPrefix
<1>4. CASE ~task[o].replaces
  <2>1. ~Present(fs, t) /\ Present(fs, s) BY <1>4 DEF MoveMayCopy
  <2>2. t # s /\ t \notin Above(s) BY <1>1, <2>1 DEF IsTree, Is, Present
  <2>3. ~IsStrictPrefix(t, s) BY <1>1, <2>2 DEF Above
  <2> QED BY <1>1, <1>2, <2>2, <2>3, PathNames, PrefixOrder DEF Under, IsStrictPrefix
<1> QED BY <1>3, <1>4

(* The copy a move has made when it comes to delete its source is whole. *)
LEMMA CopyIsComplete ==
    ASSUME FilesInv, MovesFit, Alone, ~MergesUp, NEW o \in OpIds, MoveByCopy(o), Goto(o, "delete")
    PROVE  IsCopied(fs', Source(o))
<1> DEFINE src == Source(o)
           dst == task[o].target
           rep == task[o].replaces
           items == {s \in Under(src) : Present(fs, s)}
           made == {Rebase(s, src, dst) : s \in items}
<1>1. /\ At(o, "write") /\ Kind(o) = "Move"
      /\ fs \in [Paths -> Nodes] /\ IsTree(fs) /\ task \in [OpIds -> TaskRecords]
      /\ src \in Paths /\ dst \in Paths /\ rep \in BOOLEAN
  BY AtWork DEF MoveByCopy, At, TaskRecords
<1>2. task'[o].pc = "delete" BY <1>1, GotoFields DEF Pcs
<1>3. ~Goto(o, "over") BY <1>1, <1>2, GotoFields DEF Pcs
<1>4. MoveMayCopy(o) /\ CopyItem(o, "delete") BY <1>3 DEF MoveByCopy, GiveUp
<1>5. fs' = Copied(src, dst, items, o) /\ items \in SUBSET (items \ Blocked(src, dst, rep))
  BY <1>3, <1>4, CopyOutcome
<1>6. Under(src) \cap Under(dst) = {} BY <1>1, <1>4, MovesApart
<1>7. ASSUME NEW s \in items PROVE Rebase(s, src, dst) \in Under(dst) /\ Rebase(Rebase(s, src, dst), dst, src) = s
  BY <1>5, <1>1, RebasedPath DEF Blocked
<1>8. \A q \in Paths :
         fs'[q] = IF q \in made /\ Is(fs, Rebase(q, dst, src), "file")
                  THEN CopyOf(fs[Rebase(q, dst, src)], o)
                  ELSE IF q \in made \cup UNION {Above(t) : t \in made} /\ ~Present(fs, q) THEN Dir ELSE fs[q]
  BY <1>5 DEF Copied
<1> SUFFICES ASSUME NEW q \in FilesIn(fs', Under(src))
             PROVE  \E p \in Paths \ Under(src) : fs'[p] = fs'[q]
  BY DEF IsCopied
<1>9. q \in Under(src) /\ q \in Paths /\ fs'[q].kind = "file" /\ q \notin made
  BY <1>6, <1>7 DEF FilesIn, Is, Under
<1>10. fs'[q] = fs[q] /\ Is(fs, q, "file") BY <1>8, <1>9, NodeKinds DEF Is
<1> DEFINE p == Rebase(q, src, dst)
<1>11. q \in items BY <1>9, <1>10 DEF Present, Is
<1>12. p \in made /\ p \in Under(dst) /\ Rebase(p, dst, src) = q BY <1>7, <1>11
<1>13. p \in Paths /\ p \notin Under(src) BY <1>6, <1>12 DEF Under
<1>14. fs'[p] = CopyOf(fs[q], o) BY <1>8, <1>10, <1>12, <1>13
<1>15. CopyOf(fs[q], o) = fs[q] BY <1>1 DEF CopyOf, Kind
<1> QED BY <1>10, <1>13, <1>14, <1>15

(* Names next to a place are below the same folders. *)
LEMMA NextToIsBelow ==
    ASSUME NEW s \in Paths, NEW d \in Paths, NEW t \in Paths, Parent(t) = Parent(d), IsStrictPrefix(s, t)
    PROVE  IsStrictPrefix(s, d)
<1>1. /\ s \in Seq(STRING) /\ Len(s) \in Nat \ {0} /\ d \in Seq(STRING) /\ Len(d) \in Nat \ {0}
      /\ t \in Seq(STRING) /\ Len(t) \in Nat \ {0}
  BY PathNames
<1>2. ASSUME NEW p \in Seq(STRING), Len(p) \in Nat \ {0}
      PROVE  Len(Parent(p)) = Len(p) - 1 /\ \A i \in 1..(Len(p) - 1) : Parent(p)[i] = p[i]
  <2> DEFINE n == Len(p) - 1
  <2>1. \A i \in 1..n : p[i] \in STRING BY <1>2, ElementOfSeq
  <2>2. /\ Len(SubSeq(p, 1, n)) = IF 1 <= n THEN n - 1 + 1 ELSE 0
        /\ \A i \in 1..(n - 1 + 1) : SubSeq(p, 1, n)[i] = p[1 + i - 1]
    BY <1>2, <2>1, SubSeqProperties
  <2>3. Parent(p) = SubSeq(p, 1, n) /\ n \in Nat BY <1>2 DEF Parent, Front
  <2> HIDE DEF n
  <2>4. Len(Parent(p)) = n /\ \A i \in 1..n : Parent(p)[i] = p[i] BY <2>2, <2>3
  <2> QED BY <2>4 DEF n
<1>3. IsPrefix(s, t) /\ s # t BY DEF IsStrictPrefix
<1>4. Len(s) <= Len(t) /\ (\A i \in 1..Len(s) : s[i] = t[i]) /\ Len(s) # Len(t)
  BY <1>1, <1>3, PrefixByNames, SeqEqual
<1>5. Len(t) - 1 = Len(d) - 1 /\ \A i \in 1..(Len(t) - 1) : t[i] = d[i] BY <1>1, <1>2
<1>6. Len(s) <= Len(d) /\ Len(s) # Len(d) /\ \A i \in 1..Len(s) : s[i] = d[i] BY <1>1, <1>4, <1>5
<1>7. IsPrefix(s, d) BY <1>1, <1>6, PrefixByNames
<1> QED BY <1>6, <1>7 DEF IsStrictPrefix

(* Where Settle lets an item go. *)
LEMMA SettleFits ==
    ASSUME FilesInv, NEW o \in OpIds, Settle(o)
    PROVE  /\ \A p \in OpIds \ {o} : task'[p] = task[p]
           /\ task'[o].kind = task[o].kind /\ task'[o].sources = task[o].sources
           /\ task'[o].dest = task[o].dest /\ task'[o].idx = task[o].idx
           /\ task'[o].pc \in {"replace", "write"}
           /\ ~IsStrictPrefix(Source(o), task'[o].target)
           /\ task'[o].replaces =>
                 /\ task'[o].target = DestPath(o)
                 /\ ~(Kind(o) = "Move" /\ Source(o) = DestPath(o))
<1>1. /\ At(o, "item") /\ HasSource(o) /\ Kind(o) \in Transfers
      /\ ~IsStrictPrefix(Source(o), DestPath(o))
      /\ ~(Kind(o) = "Move" /\ Source(o) = DestPath(o))
  BY DEF Settle
<1>2. PICK t \in Targets(o) :
         task' = [task EXCEPT ![o].pc = IF t.replaces THEN "replace" ELSE "write",
                              ![o].target = t.path, ![o].replaces = t.replaces]
  BY DEF Settle
<1>3. /\ DestPath(o) \in Paths /\ Unique[DestPath(o)] \in Paths /\ Source(o) \in Paths
      /\ Parent(Unique[DestPath(o)]) = Parent(DestPath(o))
      /\ task \in [OpIds -> TaskRecords]
  BY <1>1, AtWork, FilesAssumption DEF At, FilesAssumption
<1>4. \/ t.path = DestPath(o)
      \/ t.path = Unique[DestPath(o)] /\ ~t.replaces
  <2> DEFINE u == Unique[DestPath(o)]
             Spare == {[path |-> q, replaces |-> FALSE] : q \in {v \in {u} : ~Present(fs, v)}}
  <2>1. \A x \in Spare : x.path = u /\ ~x.replaces OBVIOUS
  <2>2. \/ t \in Spare
        \/ t = [path |-> DestPath(o), replaces |-> FALSE]
        \/ t = [path |-> DestPath(o), replaces |-> TRUE]
    <3>1. CASE Kind(o) = "Copy" /\ Source(o) = DestPath(o) BY <1>2, <3>1 DEF Targets
    <3>2. CASE ~(Kind(o) = "Copy" /\ Source(o) = DestPath(o)) /\ ~Present(fs, DestPath(o))
      BY <3>2, <1>2 DEF Targets
    <3>3. CASE ~(Kind(o) = "Copy" /\ Source(o) = DestPath(o)) /\ Present(fs, DestPath(o))
      BY <3>3, <1>2 DEF Targets
    <3> QED BY <3>1, <3>2, <3>3
  <2> QED BY <2>1, <2>2
<1>5. ~IsStrictPrefix(Source(o), t.path) BY <1>1, <1>3, <1>4, NextToIsBelow
<1>6. /\ \A p \in OpIds \ {o} : task'[p] = task[p]
      /\ task'[o].kind = task[o].kind /\ task'[o].sources = task[o].sources
      /\ task'[o].dest = task[o].dest /\ task'[o].idx = task[o].idx
      /\ task'[o].pc = (IF t.replaces THEN "replace" ELSE "write")
      /\ task'[o].target = t.path /\ task'[o].replaces = t.replaces
  BY <1>2, <1>3 DEF TaskRecords
<1>7. t.replaces => t.path = DestPath(o) BY <1>4
<1> QED BY <1>1, <1>5, <1>6, <1>7

(* What a step leaves of the tasks a move depends on. *)
LEMMA TaskMoves ==
    ASSUME FilesInv, NEW o \in OpIds, TaskStep(o)
    PROVE  /\ \A p \in OpIds \ {o} : task'[p] = task[p]
           /\ task[o].pc \notin {"new", "over"}
           /\ task'[o].kind = task[o].kind /\ task'[o].sources = task[o].sources
           /\ task'[o].dest = task[o].dest
           /\ \/ task'[o].pc \notin {"replace", "write", "delete"}
              \/ Settle(o)
              \/ At(o, "replace") /\ Goto(o, "write")
              \/ MoveByCopy(o) /\ Goto(o, "delete")
<1>1. At(o, "item") \/ At(o, "replace") \/ At(o, "write") \/ At(o, "delete") \/ At(o, "record")
  BY DEF TaskStep, Cancel, Settle, SkipItem, Refuse, Withdraw, CopyWrite, MoveByRename, MoveByCopy,
    DeleteMoved, DeleteItem, TrashItem, RenameItem, Create, Record, LoopDone
<1>2. task[o].pc \notin {"new", "over"} /\ task \in [OpIds -> TaskRecords] BY <1>1, AtWork DEF At
<1>3. ASSUME NEW pc \in Pcs, Goto(o, pc)
      PROVE  /\ \A p \in OpIds \ {o} : task'[p] = task[p]
             /\ task'[o].kind = task[o].kind /\ task'[o].sources = task[o].sources
             /\ task'[o].dest = task[o].dest /\ task'[o].pc = pc
  BY <1>2, <1>3, GotoFields
<1>4. ASSUME NEW made \in Seq(Pairs), NextItem(o, made)
      PROVE  /\ \A p \in OpIds \ {o} : task'[p] = task[p]
             /\ task'[o].kind = task[o].kind /\ task'[o].sources = task[o].sources
             /\ task'[o].dest = task[o].dest /\ task'[o].pc = "item"
  BY <1>2, <1>4, NextItemFields
<1>5. "over" \in Pcs /\ "write" \in Pcs /\ "delete" \in Pcs BY DEF Pcs
<1>6. CASE Goto(o, "over") BY <1>2, <1>3, <1>5, <1>6
<1>7. CASE \E made \in Seq(Pairs) : NextItem(o, made) BY <1>2, <1>4, <1>7
<1>8. CASE Settle(o) BY <1>2, <1>8, SettleFits
<1>9. CASE Withdraw(o) BY <1>9, <1>2, <1>3, <1>5 DEF Withdraw
<1>10. CASE MoveByCopy(o) /\ Goto(o, "delete") BY <1>2, <1>3, <1>5, <1>10
<1>11. ASSUME RenameItem(o), ~Goto(o, "over")
       PROVE  /\ \A p \in OpIds \ {o} : task'[p] = task[p]
              /\ task'[o].kind = task[o].kind /\ task'[o].sources = task[o].sources
              /\ task'[o].dest = task[o].dest /\ task'[o].pc = "record"
  BY <1>11, <1>2 DEF RenameItem, GiveUp, TaskRecords
<1>12. At(o, "write") \/ At(o, "delete") => Made(o) \in Seq(Pairs) BY MadeFits
<1>13. <<>> \in Seq(Pairs) BY EmptySeq
<1>14. CASE Cancel(o) \/ SkipItem(o) \/ Refuse(o) \/ DeleteItem(o) \/ Create(o) \/ Record(o)
  BY <1>6, <1>7, <1>13, <1>14 DEF Cancel, SkipItem, Refuse, DeleteItem, Create, Record, GiveUp
<1>15. CASE CopyWrite(o) BY <1>6, <1>7, <1>12, <1>15, CopyOutcome DEF CopyWrite
<1>16. CASE MoveByRename(o) \/ DeleteMoved(o)
  BY <1>6, <1>7, <1>12, <1>16 DEF MoveByRename, DeleteMoved, GiveUp
<1>17. CASE MoveByCopy(o) BY <1>6, <1>10, <1>17, CopyOutcome DEF MoveByCopy, GiveUp
<1>18. CASE TrashItem(o)
  <2>1. CASE Present(fs, Source(o))
    <3> DEFINE pair == [from |-> Source(o), to |-> <<o, task[o].idx>>]
    <3>1. NextItem(o, <<pair>>) /\ At(o, "item") /\ HasSource(o) BY <1>18, <2>1 DEF TrashItem
    <3>2. pair \in Pairs BY <1>2, <3>1, AtWork DEF TaskRecords, Pairs, Keys
    <3> HIDE DEF pair
    <3>3. <<pair>> \in Seq(Pairs) BY <3>2
    <3> QED BY <1>7, <3>1, <3>3
  <2> QED BY <1>6, <1>18, <2>1 DEF TrashItem, GiveUp
<1>19. CASE RenameItem(o) BY <1>2, <1>6, <1>11, <1>19
<1> QED BY <1>8, <1>9, <1>14, <1>15, <1>16, <1>17, <1>18, <1>19 DEF TaskStep

(* A move that awaits the deletion of its source is not interfered with. *)
LEMMA DeletionIsNext ==
    ASSUME FilesInv, FilesInv', Alone, [Next]_filesVars, NEW o \in OpIds, At(o, "delete"), At(o, "delete")'
    PROVE  fs' = fs
<1>1. o \in Running /\ (\A p \in Running : p = o) /\ undo.pc = "idle"
  BY DEF FilesInv, AloneFits, Running, At
<1>2. ~(Busy < scene.running) BY <1>1, NobodyAtWork
<1>3. CASE UNCHANGED filesVars BY <1>3 DEF filesVars
<1>4. ASSUME NEW p \in OpIds, TaskStep(p) PROVE FALSE
  BY <1>1, <1>4, TaskMoves DEF Running, Settle, MoveByCopy, At
<1>5. ASSUME NEW p \in OpIds, NEW r \in scene.requests, Request(p, r) PROVE FALSE
  BY <1>2, <1>5 DEF Request
<1>6. CASE UndoStep
  BY <1>1, <1>2, <1>6 DEF UndoStep, UndoPop, UndoCopy, UndoMoveGone, UndoMoveBlocked, UndoMoveClear,
    UndoMoveRename, UndoTrash, UndoDone, HasPair
<1> QED BY <1>3, <1>4, <1>5, <1>6 DEF Next

(* Every step keeps what is known of the moves. *)
LEMMA MovesStep == FilesInv /\ FilesInv' /\ MovesFit /\ [Next]_filesVars => MovesFit'
<1> SUFFICES ASSUME FilesInv, FilesInv', MovesFit, [Next]_filesVars, NEW o \in OpIds
             PROVE  /\ task'[o].pc # "new" => IsAsked(task[o])'
                    /\ task'[o].pc \in {"replace", "write"} =>
                          /\ ~IsStrictPrefix(Source(o)', task'[o].target)
                          /\ task'[o].replaces =>
                                /\ task'[o].target = DestPath(o)'
                                /\ ~(Kind(o)' = "Move" /\ Source(o)' = DestPath(o)')
                    /\ Alone' /\ ~MergesUp' /\ At(o, "delete")' => IsCopied(fs', Source(o)')
  BY DEF MovesFit, IsCopied, FilesIn, Is, Under
<1>1. scene' = scene
  BY ZenonT(30) DEF Next, filesVars, TaskStep, UndoStep, Cancel, Settle, SkipItem, Refuse, Withdraw,
    CopyWrite, CopyItem, MoveByRename, MoveByCopy, DeleteMoved, DeleteItem, TrashItem, RenameItem,
    Create, Record, Request, UndoPop, UndoCopy, UndoMoveGone, UndoMoveBlocked, UndoMoveClear,
    UndoMoveRename, UndoTrash, UndoDone
<1>2. (Alone' <=> Alone) /\ (MergesUp' <=> MergesUp) /\ (\A r : IsAsked(r)' <=> IsAsked(r))
  BY <1>1 DEF Alone, MergesUp, IsAsked
<1>3. CASE task'[o] = task[o] BY <1>3, DeletionIsNext, <1>2 DEF Source, DestPath, Kind, At, MovesFit
<1>4. CASE \E r \in scene.requests : Request(o, r)
  <2>1. PICK r \in scene.requests : Request(o, r) BY <1>4
  <2>2. task \in [OpIds -> TaskRecords]
        /\ task' = [task EXCEPT ![o] = [IdleTask EXCEPT !.kind = r.kind, !.sources = r.sources,
                                                        !.dest = r.dest, !.pc = "item"]]
    BY <2>1 DEF Request, FilesInv, FilesTypes
  <2>3. task'[o] = [IdleTask EXCEPT !.kind = r.kind, !.sources = r.sources, !.dest = r.dest, !.pc = "item"]
    BY <2>2
  <2>4. /\ task'[o].kind = r.kind /\ task'[o].sources = r.sources /\ task'[o].dest = r.dest
        /\ task'[o].pc = "item"
    BY <2>3 DEF IdleTask
  <2> QED BY <1>1, <2>1, <2>4 DEF IsAsked, At
<1>5. CASE TaskStep(o)
  <2>1. /\ task[o].pc \notin {"new", "over"}
        /\ task'[o].kind = task[o].kind /\ task'[o].sources = task[o].sources
        /\ task'[o].dest = task[o].dest
    BY <1>5, TaskMoves
  <2>2. IsAsked(task[o])' BY <1>1, <2>1 DEF MovesFit, IsAsked
  <2>3. CASE task'[o].pc \notin {"replace", "write", "delete"} BY <2>2, <2>3 DEF At
  <2>4. CASE Settle(o) BY <2>4, SettleFits, <2>2 DEF Source, DestPath, Kind, At
  <2>5. CASE At(o, "replace") /\ Goto(o, "write")
    <3>1. /\ task'[o].pc = "write" /\ task'[o].idx = task[o].idx
          /\ task'[o].target = task[o].target /\ task'[o].replaces = task[o].replaces
      BY <2>5, GotoFields DEF FilesInv, FilesTypes, Pcs
    <3>2. Source(o)' = Source(o) /\ DestPath(o)' = DestPath(o) /\ Kind(o)' = Kind(o)
      BY <2>1, <3>1 DEF Source, DestPath, Kind
    <3> QED BY <2>2, <2>5, <3>1, <3>2 DEF MovesFit, At
  <2>6. CASE MoveByCopy(o) /\ Goto(o, "delete")
    BY <2>6, GotoFields, <2>1, CopyIsComplete, <1>2, <2>2 DEF FilesInv, FilesTypes, Pcs, Source
  <2> QED BY <1>5, <2>3, <2>4, <2>5, <2>6, TaskMoves
<1>6. ASSUME NEW p \in OpIds \ {o}, TaskStep(p) PROVE task'[o] = task[o] BY <1>6, TaskMoves
<1>7. ASSUME NEW p \in OpIds \ {o}, NEW r \in scene.requests, Request(p, r) PROVE task'[o] = task[o]
  BY <1>7 DEF Request, FilesInv, FilesTypes
<1>8. CASE UndoStep \/ UNCHANGED filesVars
  <2>1. task' = task
    BY <1>8 DEF filesVars, UndoStep, UndoPop, UndoCopy, UndoMoveGone, UndoMoveBlocked, UndoMoveClear,
      UndoMoveRename, UndoTrash, UndoDone
  <2> QED BY <1>3, <2>1
<1> QED BY <1>3, <1>4, <1>5, <1>6, <1>7, <1>8 DEF Next

(* Nothing but an undo of a Copy or of a Trash takes content away that nobody gave up. *)
OperationsKeepContent == Alone /\ ~MergesUp /\ ~(UndoCopy \/ UndoTrash) => lost' = lost

(* Every step but those two. *)
LEMMA LossStep == FilesInv /\ MovesFit /\ [Next]_filesVars => OperationsKeepContent
<1> SUFFICES ASSUME FilesInv, MovesFit, [Next]_filesVars, Alone, ~MergesUp, ~(UndoCopy \/ UndoTrash)
             PROVE  lost' = lost
  BY DEF OperationsKeepContent
<1>1. fs \in [Paths -> Nodes] /\ IsTree(fs) BY DEF FilesInv, FilesTypes
<1>2. CASE UNCHANGED filesVars BY <1>2 DEF filesVars
<1>3. ASSUME NEW o \in OpIds, NEW r \in scene.requests, Request(o, r) PROVE lost' = lost
  BY <1>3 DEF Request
<1>4. ASSUME NEW o \in OpIds,
             Cancel(o) \/ Settle(o) \/ SkipItem(o) \/ Refuse(o) \/ Withdraw(o) \/ TrashItem(o) \/ Record(o)
      PROVE  lost' = lost
  BY <1>4 DEF Cancel, Settle, SkipItem, Refuse, Withdraw, TrashItem, Record
<1>5. ASSUME NEW o \in OpIds, CopyWrite(o) PROVE lost' = lost BY <1>5, CopyLosesNothing DEF CopyWrite
<1>6. ASSUME NEW o \in OpIds, MoveByCopy(o) PROVE lost' = lost BY <1>6, CopyLosesNothing DEF MoveByCopy
<1>7. ASSUME NEW o \in OpIds, MoveByRename(o) PROVE lost' = lost
  <2> DEFINE s == Source(o)
             t == task[o].target
  <2>1. /\ At(o, "write") /\ CanRename(s, t) /\ fs' = Renamed(s, t) /\ UNCHANGED trash
        /\ Destroys(Agreed(o))
    BY <1>7 DEF MoveByRename
  <2>2. s \in Paths /\ t \in Paths BY <2>1, AtWork DEF At
  <2>3. Present(fs, t) => task[o].replaces BY <2>1 DEF FilesInv, AloneFits
  <2>4. ASSUME NEW q \in Paths, Is(fs, q, "file")
        PROVE  fs[q] \in Agreed(o) \/ \E p \in Paths : Is(fs', p, "file") /\ fs'[p] = fs[q]
    BY <2>3, <2>4, <1>1, <2>1, <2>2, RenameKeepsFiles DEF Agreed, ContentsIn, FilesIn
  <2> QED BY <2>1, <2>4, NothingDestroyed
<1>8. ASSUME NEW o \in OpIds, DeleteMoved(o) PROVE lost' = lost
  <2>1. CASE Present(fs, task[o].target) /\ Present(fs, Source(o))
    BY <1>8, <2>1, AtWork, <1>1, RemovalLosesNothing DEF DeleteMoved, MovesFit, At
  <2> QED BY <1>8, <2>1 DEF DeleteMoved
<1>9. ASSUME NEW o \in OpIds, DeleteItem(o) PROVE lost' = lost
  BY <1>9, AtWork, NothingDestroyed, <1>1, RemovalLosesNothing DEF DeleteItem, At
<1>10. ASSUME NEW o \in OpIds, RenameItem(o) PROVE lost' = lost
  <2> DEFINE s == task[o].sources[1]
             t == task[o].dest
  <2>1. At(o, "item") /\ Kind(o) = "Rename" /\ UNCHANGED trash /\ Destroys({}) BY <1>10 DEF RenameItem
  <2>2. s \in Paths /\ t \in Paths
    BY <2>1, AtWork, EmptySeq, ElementOfSeq DEF At, IsRequest, Kind, Removals
  <2>3. CASE fs' = fs BY <2>1, <2>3, NothingDestroyed
  <2>4. CASE NameIsFree(s, t) /\ CanRename(s, t) /\ fs' = Renamed(s, t)
    BY <1>1, <2>1, <2>2, <2>4, RenameLosesNothing
  <2> QED BY <1>10, <2>3, <2>4 DEF RenameItem
<1>11. ASSUME NEW o \in OpIds, Create(o) PROVE lost' = lost
  <2> DEFINE x == task[o].dest
             new == IF Kind(o) = "CreateFile" THEN File(o, x) ELSE Dir
  <2>1. UNCHANGED trash /\ Destroys(ContentsIn(fs, {x})) BY <1>11 DEF Create
  <2>2. \/ fs' = fs
        \/ fs' = [q \in Paths |-> IF q = x THEN new
                                  ELSE IF q \in Above(x) /\ ~Present(fs, q) THEN Dir ELSE fs[q]]
    BY <1>11 DEF Create
  <2> HIDE DEF new
  <2>3. \A q \in Paths : Is(fs, q, "file") => q = x \/ fs'[q] = fs[q] BY <2>2 DEF Present, Is
  <2>4. \A q \in Paths : Is(fs, q, "file") /\ q = x => fs[q] \in ContentsIn(fs, {x})
    BY DEF ContentsIn, FilesIn
  <2>5. \A q \in Paths : Is(fs, q, "file") =>
            fs[q] \in ContentsIn(fs, {x}) \/ \E p \in Paths : Is(fs', p, "file") /\ fs'[p] = fs[q]
    BY <2>3, <2>4 DEF Is
  <2> QED BY <2>1, <2>5, NothingDestroyed
<1>12. CASE UndoPop \/ UndoMoveGone \/ UndoMoveBlocked \/ UndoMoveClear \/ UndoDone
  BY <1>12 DEF UndoPop, UndoMoveGone, UndoMoveBlocked, UndoMoveClear, UndoDone
<1>13. CASE UndoMoveRename
  <2>1. undo.pc = "rename" /\ UNCHANGED trash /\ Destroys({}) /\ ~InTheWay
    BY <1>13 DEF UndoMoveRename, FilesInv, AloneFits
  <2>2. From \in Paths /\ To \in Paths BY <2>1, UndoAtWork DEF FilesInv, RecordsFit
  <2>3. CASE fs' = fs BY <2>1, <2>3, NothingDestroyed
  <2>4. CASE CanRename(To, From) /\ fs' = Renamed(To, From)
    BY <2>1, <1>1, <2>2, <2>4, RenameLosesNothing DEF NameIsFree, InTheWay
  <2> QED BY <1>13, <2>3, <2>4 DEF UndoMoveRename
<1>14. ASSUME NEW o \in OpIds, TaskStep(o) PROVE lost' = lost
  BY <1>4, <1>5, <1>6, <1>7, <1>8, <1>9, <1>10, <1>11, <1>14 DEF TaskStep
<1> QED BY <1>2, <1>3, <1>12, <1>13, <1>14 DEF Next, UndoStep

(* One operation or undo at a time, and no folder moved up onto one that holds it: no copy,
   move, rename, deletion or creation, failed half way or not, and no undo of a move costs
   content nobody gave up. *)
THEOREM OperationsLoseNothing == Spec => [][OperationsKeepContent]_filesVars
<1>1. Init => MovesFit BY DEF Init, MovesFit, IdleTask, OpIds, At
<1>2. FilesInv /\ [Next]_filesVars => FilesInv' BY FilesStep
<1>3. FilesInv /\ MovesFit /\ [Next]_filesVars => MovesFit' BY <1>2, MovesStep
<1>4. FilesInv /\ MovesFit /\ [Next]_filesVars => [OperationsKeepContent]_filesVars BY LossStep
<1> QED BY <1>1, <1>2, <1>3, <1>4, FirstFilesFit, PTL DEF Spec

-------------------------------------------------------------------------------
(* The trash: what its variables are. *)

TrashPcs     == {"idle", "name", "info", "move", "copy", "remove", "unlist", "delete"}
Moving       == {"move", "copy", "remove"}
TrashRecords == [op : {"none", "trash", "restore", "delete", "empty"}, from : Origins \cup {NoItem},
                 orig : Origins \cup {NoItem}, name : TrashNames \cup {NoItem}, todo : SUBSET TrashNames,
                 moving : SUBSET Pieces, piece : Pieces \cup {NoItem}, pc : TrashPcs]
TrashSceneSet == [calls : SUBSET TrashCalls, running : Nat \ {0}, crashes : Nat, devices : BOOLEAN]
HeldEntries  == [name : TrashNames, orig : Origins]
TrashPc(t)    == trashTask[t].pc

(* What a call knows by what it is, and by where. *)
TaskIs(t) ==
    /\ trashTask[t].op = "trash" => trashTask[t].from \in Origins /\ trashTask[t].orig \in Origins
    /\ trashTask[t].op = "restore" => trashTask[t].orig \in Origins /\ trashTask[t].name \in TrashNames
    /\ TrashPc(t) \in {"name", "info"} => trashTask[t].op = "trash"
    /\ TrashPc(t) \in Moving => trashTask[t].op \in {"trash", "restore"}
    /\ TrashPc(t) \in Moving \cup {"info", "unlist"} => trashTask[t].name \in TrashNames

TrashTypes ==
    /\ place \in [Origins -> Items \cup {NoItem}] /\ files \in [TrashNames -> Items \cup {NoItem}]
    /\ info \in [TrashNames -> Origins \cup {NoItem}]
    /\ trashTask \in [TrashTasks -> TrashRecords] /\ held \in Seq(HeldEntries)
    /\ trashScene \in TrashSceneSet
    /\ \A t \in TrashTasks : TaskIs(t)

(* One call at a time. *)
OneCall == \A t, u \in TrashTasks : TrashPc(t) # "idle" /\ TrashPc(u) # "idle" => t = u

(* Every item lies under its own path, in the trash under a name whose info says that path; and
   one that is no folder is of one file. *)
Single(item) == ~item.folder => \A j, k \in InIt(item) : j = k
Fits(item, p) == item.id = p /\ item.link = NoItem /\ Single(item)
PlacesFit == \A p \in Origins : place[p] # NoItem => Fits(place[p], p)
InfosFit  == \A n \in TrashNames : files[n] # NoItem => Fits(files[n], info[n])

(* What a call finds as it left it: of a folder that is being moved, the files that are yet to
   be moved; of a file that was copied, the copy. *)
CopyFits(source, moving) == source.folder => InIt(source) \subseteq moving
RemoveFits(source, target, k) ==
    /\ k \in source.whole => k \in target.whole
    /\ ~source.folder => source.whole \subseteq {k}
Apart(source, target, ks) == (InIt(source) \ ks) \cap target.whole = {}
CallFits(t) ==
    /\ trashTask[t].op = "trash" => trashTask[t].orig = trashTask[t].from
    /\ TrashPc(t) \in {"info", "unlist"} \/ (TrashPc(t) = "move" /\ ~Outward(t))
         => files[trashTask[t].name] = NoItem
    /\ TrashPc(t) \in Moving => info[trashTask[t].name] = trashTask[t].orig
    /\ TrashPc(t) \in {"copy", "remove"} =>
          /\ SourceItem(t) # NoItem /\ TargetItem(t) # NoItem
          /\ CopyFits(SourceItem(t), trashTask[t].moving)
          /\ ~Outward(t) => Apart(SourceItem(t), TargetItem(t),
                                  IF TrashPc(t) = "copy" THEN {} ELSE {trashTask[t].piece})
          /\ SourceItem(t).folder => TargetItem(t).folder
    /\ TrashPc(t) = "copy" => SourceItem(t).folder
    /\ TrashPc(t) = "remove" => RemoveFits(SourceItem(t), TargetItem(t), trashTask[t].piece)

(* The undo stack: each entry is of something in the trash, of its own. *)
HeldFits ==
    /\ \A i \in 1..Len(held) : files[held[i].name] # NoItem /\ info[held[i].name] = held[i].orig
    /\ \A i, j \in 1..Len(held) : held[i].name = held[j].name => i = j
HeldApart(t) ==
    /\ TrashPc(t) # "delete" /\ trashTask[t].todo = {}
    /\ TrashPc(t) \in {"copy", "remove", "unlist"} \/ (TrashPc(t) = "move" /\ Outward(t))
         => \A i \in 1..Len(held) : held[i].name # trashTask[t].name

TrashOrder ==
    /\ OneCall /\ PlacesFit /\ InfosFit /\ \A t \in TrashTasks : CallFits(t)
    /\ trashScene.calls = {"undo"} => HeldFits /\ \A t \in TrashTasks : HeldApart(t)

TrashInv == TrashTypes /\ (Orderly => TrashOrder)

(* What a step leaves in the trash, and of each file. *)
LeavesTrashed ==
    \A n \in TrashNames : files[n] # NoItem =>
          \/ files'[n] # NoItem /\ files[n].whole \subseteq files'[n].whole
          \/ \E t \in TrashTasks : Outward(t) /\ NameOf(t) = n
          \/ \E t \in TrashTasks : TrashAt(t, "delete") /\ n \in trashTask[t].todo
LeavesItems ==
    \A k \in WholeIn(place) \cup WholeIn(files) :
          k \in WholeIn(place)' \cup WholeIn(files)' \/ Deleting(k) \/ RestoredOver(k)

TrashGood == TrashInv' /\ (Orderly => LeavesTrashed /\ LeavesItems)

(* The other calls stay as they are. *)
OnlyCall(t) == \A u \in TrashTasks \ {t} : trashTask'[u] = trashTask[u]

-------------------------------------------------------------------------------
(* A call goes on. *)
LEMMA GotoIs ==
    ASSUME trashTask \in [TrashTasks -> TrashRecords], NEW t \in TrashTasks, NEW pc \in TrashPcs, TrashGoto(t, pc)
    PROVE  /\ trashTask' \in [TrashTasks -> TrashRecords] /\ OnlyCall(t) /\ TrashPc(t)' = pc
           /\ trashTask'[t].from = trashTask[t].from /\ trashTask'[t].orig = trashTask[t].orig
           /\ trashTask'[t].name = trashTask[t].name /\ trashTask'[t].todo = trashTask[t].todo
           /\ trashTask'[t].op = trashTask[t].op
<1> DEFINE new == [trashTask[t] EXCEPT !.pc = pc]
<1>1. trashTask' = [trashTask EXCEPT ![t] = new] BY DEF TrashGoto
<1>2. trashTask[t] \in TrashRecords OBVIOUS
<1>3. /\ new \in TrashRecords /\ new.pc = pc /\ new.from = trashTask[t].from /\ new.orig = trashTask[t].orig
      /\ new.name = trashTask[t].name /\ new.todo = trashTask[t].todo /\ new.op = trashTask[t].op
  BY <1>2 DEF TrashRecords
<1> HIDE DEF new
<1>4. trashTask'[t] = new /\ trashTask' \in [TrashTasks -> TrashRecords] /\ OnlyCall(t)
  BY <1>1, <1>3 DEF OnlyCall
<1> QED BY <1>3, <1>4 DEF TrashPc

(* A task with nothing to do. *)
LEMMA IdleIs ==
    /\ TrashIdle \in TrashRecords /\ TrashIdle.pc = "idle" /\ TrashIdle.todo = {}
    /\ TrashIdle.from = NoItem /\ TrashIdle.orig = NoItem /\ TrashIdle.name = NoItem /\ TrashIdle.op = "none"
BY DEF TrashIdle, TrashRecords, TrashPcs

(* A call returns. *)
LEMMA ReturnIs ==
    ASSUME trashTask \in [TrashTasks -> TrashRecords], NEW t \in TrashTasks, TrashReturn(t)
    PROVE  /\ trashTask' \in [TrashTasks -> TrashRecords] /\ OnlyCall(t) /\ TrashPc(t)' = "idle"
           /\ trashTask'[t].todo = {} /\ trashTask'[t].op = "none"
BY IdleIs DEF TrashReturn, OnlyCall, TrashPc

(* A call begins. *)
LEMMA BeginIs ==
    ASSUME trashTask \in [TrashTasks -> TrashRecords], NEW t \in TrashTasks, NEW new \in TrashRecords, Begin(t, new)
    PROVE  trashTask' \in [TrashTasks -> TrashRecords] /\ OnlyCall(t) /\ trashTask'[t] = new
BY DEF Begin, OnlyCall

(* Free: nobody else is at work. *)
LEMMA FreeIs ==
    ASSUME NEW t \in TrashTasks, Free(t), trashScene.running = 1
    PROVE  \A u \in TrashTasks : TrashPc(u) = "idle"
<1> DEFINE busy == {u \in TrashTasks : trashTask[u] # TrashIdle}
<1>1. IsFiniteSet(busy) BY TrashAssumption, FS_Subset DEF TrashAssumption
<1>2. Cardinality(busy) \in Nat /\ Cardinality(busy) < 1 BY <1>1, FS_CardinalityType DEF Free
<1>3. busy = {} BY <1>1, <1>2, FS_EmptySet
<1> QED BY <1>3, IdleIs DEF TrashPc

(* The types after a step of one task. *)
LEMMA TypesStay ==
    ASSUME TrashTypes, NEW t \in TrashTasks, OnlyCall(t), trashTask' \in [TrashTasks -> TrashRecords], TaskIs(t)',
           place' \in [Origins -> Items \cup {NoItem}], files' \in [TrashNames -> Items \cup {NoItem}],
           info' \in [TrashNames -> Origins \cup {NoItem}], held' \in Seq(HeldEntries), trashScene' = trashScene
    PROVE  TrashTypes'
BY DEF TrashTypes, OnlyCall, TaskIs, TrashPc

(* The order after a step of one task, alone at work. *)
LEMMA OrderStays ==
    ASSUME TrashOrder, Orderly, NEW t \in TrashTasks, OnlyCall(t), TrashPc(t) # "idle" \/ Free(t),
           PlacesFit', InfosFit', CallFits(t)', trashScene' = trashScene,
           trashScene.calls = {"undo"} => HeldFits' /\ HeldApart(t)'
    PROVE  TrashOrder'
<1>1. \A u \in TrashTasks : u # t => TrashPc(u) = "idle" /\ TrashPc(u)' = "idle"
  BY FreeIs DEF TrashOrder, OneCall, OnlyCall, TrashPc, Orderly
<1>2. OneCall' BY <1>1 DEF OneCall
<1>3. \A u \in TrashTasks : CallFits(u)'
  <2> SUFFICES ASSUME NEW u \in TrashTasks, u # t PROVE CallFits(u)' OBVIOUS
  <2>1. trashTask'[u] = trashTask[u] /\ TrashPc(u)' = "idle" BY <1>1 DEF OnlyCall
  <2>2. trashTask[u].op = "trash" => trashTask[u].orig = trashTask[u].from BY DEF TrashOrder, CallFits
  <2> QED BY <2>1, <2>2 DEF CallFits, Moving
<1>4. trashScene.calls = {"undo"} => \A u \in TrashTasks : HeldApart(u)'
  BY <1>1 DEF OnlyCall, TrashOrder, HeldApart
<1> QED BY <1>2, <1>3, <1>4 DEF TrashOrder

(* Nothing moves. *)
LEMMA NothingMoves ==
    ASSUME UNCHANGED <<place, files>>
    PROVE  LeavesTrashed /\ LeavesItems
BY DEF LeavesTrashed, LeavesItems, WholeIn

(* The undo stack's entries. *)
LEMMA HeldIs ==
    ASSUME TrashTypes, NEW i \in 1..Len(held)
    PROVE  held[i] \in HeldEntries /\ held[i].name \in TrashNames /\ held[i].orig \in Origins
<1>1. held[i] \in HeldEntries BY DEF TrashTypes
<1> QED BY <1>1 DEF HeldEntries

(* Orderly speaks of the scene, which stays. *)
LEMMA OrderlyStays ==
    ASSUME trashScene'.running = trashScene.running, trashScene'.calls = trashScene.calls
    PROVE  Orderly' <=> Orderly
BY DEF Orderly

(* A file is somewhere, whole. *)
WholeOf(item) == IF item = NoItem THEN {} ELSE item.whole
HasWhole(k) ==
    \/ \E q \in Origins : k \in WholeOf(place[q])
    \/ \E n \in TrashNames : k \in WholeOf(files[n])

(* Nothing vanishes when whatever was whole somewhere still is. *)
LEMMA ItemsLeft ==
    ASSUME TrashTypes, place' \in [Origins -> Items \cup {NoItem}], files' \in [TrashNames -> Items \cup {NoItem}],
           \A k : HasWhole(k) => HasWhole(k)' \/ Deleting(k) \/ RestoredOver(k)
    PROVE  LeavesItems
BY DEF WholeIn, HasWhole, WholeOf, TrashTypes, LeavesItems

(* A step that changes no file, by a task that may be at work. *)
LEMMA StillStep ==
    ASSUME TrashInv, NEW t \in TrashTasks, OnlyCall(t), TrashPc(t) # "idle" \/ Free(t),
           trashTask' \in [TrashTasks -> TrashRecords], TaskIs(t)', held' \in Seq(HeldEntries),
           info' \in [TrashNames -> Origins \cup {NoItem}], UNCHANGED <<place, files, trashScene>>,
           Orderly /\ TrashOrder => /\ InfosFit' /\ CallFits(t)'
                                    /\ trashScene.calls = {"undo"} => HeldFits' /\ HeldApart(t)'
    PROVE  TrashGood
<1>1. TrashTypes' BY TypesStay DEF TrashInv, TrashTypes
<1>2. ASSUME Orderly PROVE TrashOrder' BY <1>2, OrderStays DEF TrashInv, TrashOrder, PlacesFit
<1>3. Orderly' <=> Orderly BY DEF Orderly
<1>4. LeavesTrashed /\ LeavesItems BY NothingMoves
<1> QED BY <1>1, <1>2, <1>3, <1>4 DEF TrashGood, TrashInv

-------------------------------------------------------------------------------
(* The calls: trash. *)

(* A call to trash begins: the path it records is the one it was given, for a file that is no
   link. *)
LEMMA BeginTrashStep ==
    ASSUME TrashInv, NEW t \in TrashTasks, BeginTrash(t)
    PROVE  TrashGood
<1>1. PICK p \in Origins :
         /\ Found(place[p])
         /\ Begin(t, [TrashIdle EXCEPT !.op = "trash", !.from = p, !.orig = Resolved(p), !.pc = "name"])
  BY DEF BeginTrash
<1> DEFINE orig == Resolved(p)
<1> DEFINE new == [TrashIdle EXCEPT !.op = "trash", !.from = p, !.orig = orig, !.pc = "name"]
<1>2. Free(t) /\ UNCHANGED <<place, files, info, held, trashScene>> BY DEF BeginTrash
<1>3. TrashTypes BY DEF TrashInv
<1>4. place[p] \in Items BY <1>1, <1>3 DEF Found, TrashTypes
<1>5. orig \in Origins /\ (place[p].link = NoItem => orig = p) BY <1>4 DEF Resolved, Items
<1> HIDE DEF orig
<1>6. /\ new \in TrashRecords /\ new.from = p /\ new.orig = orig /\ new.pc = "name" /\ new.todo = {}
      /\ new.op = "trash"
  BY <1>5, IdleIs DEF TrashRecords, TrashPcs
<1>7. Begin(t, new) BY <1>1 DEF orig
<1> HIDE DEF new
<1>8. trashTask' \in [TrashTasks -> TrashRecords] /\ OnlyCall(t) /\ trashTask'[t] = new
  BY <1>3, <1>6, <1>7, BeginIs DEF TrashTypes
<1>9. TaskIs(t)' BY <1>5, <1>6, <1>8 DEF TaskIs, TrashPc, Moving
<1>10. ASSUME Orderly, TrashOrder
       PROVE  /\ InfosFit' /\ CallFits(t)'
              /\ trashScene.calls = {"undo"} => HeldFits' /\ HeldApart(t)'
  <2>1. InfosFit' /\ (trashScene.calls = {"undo"} => HeldFits')
    BY <1>2, <1>10 DEF TrashOrder, InfosFit, HeldFits
  <2>2. orig = p BY <1>4, <1>5, <1>10, TrashAssumption DEF TrashOrder, PlacesFit, TrashAssumption, Fits
  <2>3. CallFits(t)' /\ HeldApart(t)'
    BY <1>6, <1>8, <2>2 DEF CallFits, HeldApart, TrashPc, Moving, Outward
  <2> QED BY <2>1, <2>3
<1> QED BY <1>2, <1>3, <1>8, <1>9, <1>10, StillStep DEF TrashTypes

(* trash picks a name under which nothing lies. *)
LEMMA PickNameStep ==
    ASSUME TrashInv, NEW t \in TrashTasks, PickName(t)
    PROVE  TrashGood
<1> DEFINE names == Candidates[trashTask[t].from]
<1> DEFINE free == {i \in DOMAIN names : ~NameTaken(names[i])}
<1>1. /\ TrashPc(t) = "name" /\ UNCHANGED <<place, files, info, held, trashScene>>
      /\ TrashReturn(t) \/ \E i \in free : trashTask' = [trashTask EXCEPT ![t].name = names[i], ![t].pc = "info"]
  BY DEF PickName, TrashAt, TrashPc
<1>2. TrashTypes BY DEF TrashInv
<1>3. /\ trashTask[t] \in TrashRecords /\ trashTask[t].from \in Origins /\ trashTask[t].orig \in Origins
      /\ trashTask \in [TrashTasks -> TrashRecords] /\ trashTask[t].op = "trash"
  BY <1>1, <1>2 DEF TrashTypes, TaskIs
<1>4. names \in Seq(TrashNames) BY <1>3, TrashAssumption DEF TrashAssumption
<1>5. Orderly /\ TrashOrder => InfosFit' /\ (trashScene.calls = {"undo"} => HeldFits')
  BY <1>1 DEF TrashOrder, InfosFit, HeldFits
<1>6. CASE TrashReturn(t)
  <2>1. /\ trashTask' \in [TrashTasks -> TrashRecords] /\ OnlyCall(t) /\ TrashPc(t)' = "idle"
        /\ trashTask'[t].todo = {} /\ trashTask'[t].op = "none"
    BY <1>3, <1>6, ReturnIs
  <2>2. TaskIs(t)' /\ CallFits(t)' /\ HeldApart(t)'
    BY <2>1 DEF TaskIs, CallFits, HeldApart, Moving, Outward
  <2> QED BY <1>1, <1>2, <1>5, <2>1, <2>2, StillStep DEF TrashTypes
<1>7. ASSUME NEW i \in free, trashTask' = [trashTask EXCEPT ![t].name = names[i], ![t].pc = "info"]
      PROVE  TrashGood
  <2> DEFINE n == names[i]
  <2> DEFINE new == [trashTask[t] EXCEPT !.name = n, !.pc = "info"]
  <2>1. n \in TrashNames /\ ~NameTaken(n) BY <1>4, <1>7
  <2>2. trashTask' = [trashTask EXCEPT ![t] = new] BY <1>3, <1>7
  <2> HIDE DEF n
  <2>3. /\ new \in TrashRecords /\ new.name = n /\ new.pc = "info" /\ new.from = trashTask[t].from
        /\ new.orig = trashTask[t].orig /\ new.todo = trashTask[t].todo /\ new.op = "trash"
    BY <1>3, <2>1 DEF TrashRecords, TrashPcs
  <2> HIDE DEF new
  <2>4. trashTask' \in [TrashTasks -> TrashRecords] /\ OnlyCall(t) /\ trashTask'[t] = new
    BY <1>3, <2>2, <2>3 DEF OnlyCall
  <2>5. TaskIs(t)' BY <1>3, <2>1, <2>3, <2>4 DEF TaskIs, TrashPc, Moving
  <2>6. ASSUME Orderly, TrashOrder PROVE CallFits(t)' /\ (trashScene.calls = {"undo"} => HeldApart(t)')
    <3>1. files[n] = NoItem BY <2>1, <2>6 DEF NameTaken, Found, TrashOrder, InfosFit, Fits
    <3>2. trashTask[t].orig = trashTask[t].from BY <1>3, <2>6 DEF TrashOrder, CallFits
    <3>3. CallFits(t)' BY <1>1, <2>3, <2>4, <3>1, <3>2 DEF CallFits, TrashPc, Moving, Outward
    <3>4. trashScene.calls = {"undo"} => HeldApart(t)'
      BY <2>3, <2>4, <2>6 DEF HeldApart, TrashPc, TrashOrder
    <3> QED BY <3>3, <3>4
  <2> QED BY <1>1, <1>2, <1>5, <2>4, <2>5, <2>6, StillStep DEF TrashTypes
<1> QED BY <1>1, <1>6, <1>7

(* trash writes the .trashinfo while nothing lies under the name. *)
LEMMA WriteInfoStep ==
    ASSUME TrashInv, NEW t \in TrashTasks, WriteInfo(t)
    PROVE  TrashGood
<1> DEFINE n == trashTask[t].name
<1> DEFINE orig == trashTask[t].orig
<1>1. /\ TrashPc(t) = "info" /\ info' = [info EXCEPT ![n] = orig] /\ TrashGoto(t, "move")
      /\ UNCHANGED <<place, files, held, trashScene>>
  BY DEF WriteInfo, TrashAt, TrashPc, NameOf
<1>2. TrashTypes BY DEF TrashInv
<1>3. /\ n \in TrashNames /\ orig \in Origins /\ trashTask[t].from \in Origins
      /\ trashTask \in [TrashTasks -> TrashRecords] /\ trashTask[t].op = "trash"
  BY <1>1, <1>2 DEF TrashTypes, TaskIs
<1>4. /\ trashTask' \in [TrashTasks -> TrashRecords] /\ OnlyCall(t) /\ TrashPc(t)' = "move"
      /\ trashTask'[t].from = trashTask[t].from /\ trashTask'[t].orig = orig
      /\ trashTask'[t].name = n /\ trashTask'[t].todo = trashTask[t].todo /\ trashTask'[t].op = "trash"
  BY <1>1, <1>3, GotoIs DEF TrashPcs
<1> HIDE DEF n, orig
<1>5. info' \in [TrashNames -> Origins \cup {NoItem}] /\ \A m \in TrashNames : info'[m] = IF m = n THEN orig ELSE info[m]
  BY <1>1, <1>2, <1>3 DEF TrashTypes
<1>6. TaskIs(t)' BY <1>3, <1>4 DEF TaskIs, Moving
<1>7. ASSUME Orderly, TrashOrder
      PROVE  /\ InfosFit' /\ CallFits(t)'
             /\ trashScene.calls = {"undo"} => HeldFits' /\ HeldApart(t)'
  <2>1. files[n] = NoItem /\ orig = trashTask[t].from
    BY <1>1, <1>3, <1>7 DEF TrashOrder, CallFits, n, orig
  <2>2. InfosFit' BY <1>1, <1>5, <1>7, <2>1 DEF TrashOrder, InfosFit
  <2>3. CallFits(t)' BY <1>1, <1>3, <1>4, <1>5, <2>1 DEF CallFits
  <2>4. ASSUME trashScene.calls = {"undo"} PROVE HeldFits' /\ HeldApart(t)'
    <3>1. \A i \in 1..Len(held) : held[i].name \in TrashNames /\ files[held[i].name] # NoItem
      BY <1>2, <1>7, <2>4, HeldIs DEF TrashOrder, HeldFits
    <3>2. HeldFits' BY <1>1, <1>5, <1>7, <2>1, <2>4, <3>1 DEF TrashOrder, HeldFits
    <3>3. HeldApart(t)' BY <1>4, <1>7, <2>4 DEF TrashOrder, HeldApart, Outward
    <3> QED BY <3>2, <3>3
  <2> QED BY <2>2, <2>3, <2>4
<1> QED BY <1>1, <1>2, <1>4, <1>5, <1>6, <1>7, StillStep DEF TrashTypes

(* A step that moves files, by the one task at work. *)
LEMMA MovingStep ==
    ASSUME TrashInv, NEW t \in TrashTasks, OnlyCall(t), TrashPc(t) # "idle",
           trashTask' \in [TrashTasks -> TrashRecords], TaskIs(t)', held' \in Seq(HeldEntries),
           place' \in [Origins -> Items \cup {NoItem}], files' \in [TrashNames -> Items \cup {NoItem}],
           UNCHANGED <<info, trashScene>>,
           Orderly /\ TrashOrder => /\ PlacesFit' /\ InfosFit' /\ CallFits(t)'
                                    /\ trashScene.calls = {"undo"} => HeldFits' /\ HeldApart(t)'
                                    /\ LeavesTrashed /\ LeavesItems
    PROVE  TrashGood
<1>1. TrashTypes' BY TypesStay DEF TrashInv, TrashTypes
<1>2. ASSUME Orderly PROVE TrashOrder' /\ LeavesTrashed /\ LeavesItems BY <1>2, OrderStays DEF TrashInv
<1>3. Orderly' <=> Orderly BY DEF Orderly
<1> QED BY <1>1, <1>2, <1>3 DEF TrashGood, TrashInv

(* A call that has returned has nothing to say. *)
LEMMA ReturnFits ==
    ASSUME TrashTypes, NEW t \in TrashTasks, TrashReturn(t)
    PROVE  /\ trashTask' \in [TrashTasks -> TrashRecords] /\ OnlyCall(t)
           /\ TaskIs(t)' /\ CallFits(t)' /\ HeldApart(t)'
BY ReturnIs DEF TrashTypes, TaskIs, CallFits, HeldApart, Moving, Outward

(* A file that appears under a free name of the trash is none the undo stack knows. *)
LEMMA HeldElsewhere ==
    ASSUME TrashTypes, HeldFits, NEW n \in TrashNames, files[n] = NoItem
    PROVE  \A i \in 1..Len(held) : held[i].name # n
BY DEF HeldFits

(* The undo stack after files of other names changed. *)
LEMMA HeldFitsStill ==
    ASSUME TrashTypes, HeldFits, NEW n \in TrashNames, \A i \in 1..Len(held) : held[i].name # n,
           \A m \in TrashNames \ {n} : files'[m] = files[m] /\ info'[m] = info[m], held' = held
    PROVE  HeldFits'
BY HeldIs DEF HeldFits

(* The undo stack with one entry more. *)
LEMMA HeldFitsOneMore ==
    ASSUME TrashTypes, HeldFits, NEW n \in TrashNames, NEW orig \in Origins, \A i \in 1..Len(held) : held[i].name # n,
           \A m \in TrashNames \ {n} : files'[m] = files[m] /\ info'[m] = info[m],
           files'[n] # NoItem, info'[n] = orig, held' = Append(held, [name |-> n, orig |-> orig])
    PROVE  HeldFits'
<1> DEFINE e == [name |-> n, orig |-> orig]
<1>1. e.name = n /\ e.orig = orig /\ e \in HeldEntries BY DEF HeldEntries
<1>2. held' = Append(held, e) OBVIOUS
<1> HIDE DEF e
<1>3. held \in Seq(HeldEntries) BY DEF TrashTypes
<1>4. /\ Len(held') = Len(held) + 1 /\ held'[Len(held) + 1] = e
      /\ \A i \in 1..Len(held) : held'[i] = held[i]
  BY <1>1, <1>2, <1>3
<1>5. \A i \in 1..Len(held) : held[i].name \in TrashNames \ {n} BY HeldIs
<1>6. \A i \in 1..Len(held') : i \in 1..Len(held) \/ i = Len(held) + 1 BY <1>3, <1>4
<1>7. ASSUME NEW i \in 1..Len(held') PROVE files'[held'[i].name] # NoItem /\ info'[held'[i].name] = held'[i].orig
  BY <1>4, <1>5, <1>1, <1>6 DEF HeldFits
<1>8. ASSUME NEW i \in 1..Len(held'), NEW j \in 1..Len(held'), held'[i].name = held'[j].name PROVE i = j
  BY <1>4, <1>8, <1>1, <1>5, <1>6 DEF HeldFits
<1> QED BY <1>7, <1>8 DEF HeldFits

(* A trashed file's entry. *)
LEMMA TrashedIs ==
    ASSUME TrashTypes, NEW t \in TrashTasks, Trashed(t), trashTask[t].name \in TrashNames, trashTask[t].orig \in Origins
    PROVE  /\ held' \in Seq(HeldEntries)
           /\ "undo" \in trashScene.calls =>
                 held' = Append(held, [name |-> trashTask[t].name, orig |-> trashTask[t].orig])
<1> DEFINE e == [name |-> trashTask[t].name, orig |-> trashTask[t].orig]
<1>1. e \in HeldEntries /\ held \in Seq(HeldEntries) BY DEF HeldEntries, TrashTypes
<1>2. held' = IF "undo" \in trashScene.calls THEN Append(held, e) ELSE held BY DEF Trashed, NameOf
<1> HIDE DEF e
<1>3. held' \in Seq(HeldEntries) BY <1>1, <1>2
<1> QED BY <1>2, <1>3 DEF e

-------------------------------------------------------------------------------
(* The moves: rename, and across devices file by file. *)

(* What a call that moves an item knows. *)
LEMMA MoverIs ==
    ASSUME TrashTypes, NEW t \in TrashTasks, TrashPc(t) \in Moving
    PROVE  /\ trashTask[t].name \in TrashNames /\ trashTask[t].orig \in Origins
           /\ trashTask[t].op \in {"trash", "restore"} /\ (~Outward(t) => trashTask[t].from \in Origins)
           /\ SourceItem(t) \in Items \cup {NoItem} /\ TargetItem(t) \in Items \cup {NoItem}
<1>1. /\ trashTask[t].name \in TrashNames /\ trashTask[t].orig \in Origins
      /\ trashTask[t].op \in {"trash", "restore"} /\ (~Outward(t) => trashTask[t].from \in Origins)
  BY DEF TrashTypes, TaskIs, Outward
<1> QED BY <1>1 DEF TrashTypes, SourceItem, TargetItem, NameOf

(* Its item and what is in the way of it are of the path it came from. *)
LEMMA MoverFits ==
    ASSUME TrashTypes, TrashOrder, NEW t \in TrashTasks, TrashPc(t) \in Moving
    PROVE  /\ info[trashTask[t].name] = trashTask[t].orig
           /\ SourceItem(t) # NoItem => Fits(SourceItem(t), trashTask[t].orig)
           /\ TargetItem(t) # NoItem => Fits(TargetItem(t), trashTask[t].orig)
           /\ ~Outward(t) => trashTask[t].orig = trashTask[t].from
           /\ TrashPc(t) = "move" /\ ~Outward(t) => TargetItem(t) = NoItem
<1>1. /\ info[trashTask[t].name] = trashTask[t].orig /\ (~Outward(t) => trashTask[t].orig = trashTask[t].from)
      /\ TrashPc(t) = "move" /\ ~Outward(t) => TargetItem(t) = NoItem
  BY MoverIs DEF TrashOrder, CallFits, Outward, TargetItem, NameOf
<1> QED BY <1>1, MoverIs DEF TrashOrder, PlacesFit, InfosFit, SourceItem, TargetItem, NameOf

(* Items after a file has gone, or come. *)
LEMMA ItemsAfter ==
    ASSUME NEW item \in Items, NEW k \in Pieces
    PROVE  /\ item # NoItem /\ Empty(item) \in Items /\ Without(item, k) \in Items
           /\ Whole(item, k) \in Items /\ Torn(item, k) \in Items
           /\ Empty(item).whole = {} /\ Empty(item).folder = item.folder
           /\ InIt(Without(item, k)) = InIt(item) \ {k} /\ Without(item, k).whole = item.whole \ {k}
           /\ Without(item, k).folder = item.folder
           /\ Whole(item, k).whole = item.whole \cup {k} /\ Torn(item, k).whole = item.whole \ {k}
           /\ Whole(item, k).folder = item.folder /\ Torn(item, k).folder = item.folder
<1>1. item # NoItem BY TrashAssumption DEF TrashAssumption
<1>2. Empty(item) \in Items /\ Without(item, k) \in Items /\ Whole(item, k) \in Items /\ Torn(item, k) \in Items
  BY DEF Items, Empty, Without, Whole, Torn
<1> QED BY <1>1, <1>2 DEF Items, Empty, Without, Whole, Torn, InIt

LEMMA FitsAfter ==
    ASSUME NEW item \in Items, NEW k \in Pieces, NEW p \in Origins, Fits(item, p)
    PROVE  /\ Fits(Empty(item), p) /\ Fits(Without(item, k), p)
           /\ Fits(Torn(Empty(item), k), p) /\ Fits(Whole(Empty(item), k), p)
           /\ item.folder => Fits(Whole(item, k), p) /\ Fits(Torn(item, k), p)
<1>1. /\ Empty(item) \in Items /\ Without(item, k) \in Items /\ Torn(item, k) \in Items
      /\ Whole(item, k) \in Items /\ Torn(Empty(item), k) \in Items /\ Whole(Empty(item), k) \in Items
  BY ItemsAfter
<1>2. item.id = p /\ item.link = NoItem /\ (~item.folder => \A j, i \in InIt(item) : j = i)
  BY DEF Fits, Single
<1>3. Fits(Empty(item), p) BY <1>1, <1>2 DEF Items, Fits, Single, InIt, Empty
<1>4. Fits(Without(item, k), p) BY <1>2 DEF Items, Fits, Single, InIt, Without
<1>5. Fits(Torn(Empty(item), k), p) /\ Fits(Whole(Empty(item), k), p)
  BY <1>1, <1>2 DEF Items, Fits, Single, InIt, Empty, Torn, Whole
<1>6. item.folder => Fits(Whole(item, k), p) /\ Fits(Torn(item, k), p)
  BY <1>2 DEF Items, Fits, Single, InIt, Torn, Whole
<1> QED BY <1>3, <1>4, <1>5, <1>6

(* Where the items are after a transfer. *)
LEMMA TransferIs ==
    ASSUME TrashTypes, NEW t \in TrashTasks, TrashPc(t) \in Moving, NEW source \in Items \cup {NoItem},
           NEW target \in Items \cup {NoItem}, Transfer(t, source, target)
    PROVE  /\ place' \in [Origins -> Items \cup {NoItem}] /\ files' \in [TrashNames -> Items \cup {NoItem}]
           /\ \A n \in TrashNames : files'[n] = IF n # trashTask[t].name THEN files[n]
                                                ELSE IF Outward(t) THEN source ELSE target
           /\ \A p \in Origins : place'[p] = IF Outward(t)
                                             THEN IF p = trashTask[t].orig THEN target ELSE place[p]
                                             ELSE IF p = trashTask[t].from THEN source ELSE place[p]
BY MoverIs DEF TrashTypes, Transfer, NameOf

(* They are where they belong, if what moved is of the same path. *)
LEMMA TransferFits ==
    ASSUME TrashTypes, TrashOrder, NEW t \in TrashTasks, TrashPc(t) \in Moving, NEW source \in Items \cup {NoItem},
           NEW target \in Items \cup {NoItem}, Transfer(t, source, target), info' = info,
           source # NoItem => Fits(source, trashTask[t].orig), target # NoItem => Fits(target, trashTask[t].orig)
    PROVE  PlacesFit' /\ InfosFit'
<1>1. info[trashTask[t].name] = trashTask[t].orig /\ (~Outward(t) => trashTask[t].orig = trashTask[t].from)
  BY MoverFits
<1>2. /\ \A n \in TrashNames : files'[n] = IF n # trashTask[t].name THEN files[n]
                                            ELSE IF Outward(t) THEN source ELSE target
      /\ \A p \in Origins : place'[p] = IF Outward(t)
                                         THEN IF p = trashTask[t].orig THEN target ELSE place[p]
                                         ELSE IF p = trashTask[t].from THEN source ELSE place[p]
  BY TransferIs
<1>3. \A p \in Origins : place[p] # NoItem => Fits(place[p], p) BY DEF TrashOrder, PlacesFit
<1>4. \A n \in TrashNames : files[n] # NoItem => Fits(files[n], info[n]) BY DEF TrashOrder, InfosFit
<1>5. ASSUME NEW p \in Origins, place'[p] # NoItem PROVE Fits(place'[p], p) BY <1>1, <1>2, <1>3, <1>5
<1>6. ASSUME NEW n \in TrashNames, files'[n] # NoItem PROVE Fits(files'[n], info[n])
  BY <1>1, <1>2, <1>4, <1>6
<1> QED BY <1>5, <1>6 DEF PlacesFit, InfosFit

(* Nothing is lost, if what was whole in either is so in one of them, or was to be restored
   over. *)
LEMMA TransferKeeps ==
    ASSUME TrashTypes, NEW t \in TrashTasks, TrashPc(t) \in Moving, NEW source \in Items \cup {NoItem},
           NEW target \in Items \cup {NoItem}, Transfer(t, source, target),
           \A k \in WholeOf(SourceItem(t)) \cup WholeOf(TargetItem(t)) :
              k \in WholeOf(source) \cup WholeOf(target) \/ RestoredOver(k),
           TargetItem(t) # NoItem /\ ~Outward(t) => target # NoItem /\ TargetItem(t).whole \subseteq target.whole
    PROVE  LeavesTrashed /\ LeavesItems
<1> DEFINE n0 == trashTask[t].name
<1> DEFINE q0 == IF Outward(t) THEN trashTask[t].orig ELSE trashTask[t].from
<1>1. /\ place' \in [Origins -> Items \cup {NoItem}] /\ files' \in [TrashNames -> Items \cup {NoItem}]
      /\ n0 \in TrashNames /\ q0 \in Origins
      /\ \A n \in TrashNames : n # n0 => files'[n] = files[n]
      /\ \A p \in Origins : p # q0 => place'[p] = place[p]
      /\ files'[n0] = IF Outward(t) THEN source ELSE target
      /\ place'[q0] = IF Outward(t) THEN target ELSE source
      /\ files[n0] = IF Outward(t) THEN SourceItem(t) ELSE TargetItem(t)
      /\ place[q0] = IF Outward(t) THEN TargetItem(t) ELSE SourceItem(t)
  BY MoverIs, TransferIs DEF SourceItem, TargetItem, NameOf
<1>2. NameOf(t) = n0 BY DEF NameOf
<1> HIDE DEF n0, q0
<1>3. LeavesTrashed
  <2> SUFFICES ASSUME NEW n \in TrashNames, files[n] # NoItem, ~Outward(t) \/ n # n0
               PROVE  files'[n] # NoItem /\ files[n].whole \subseteq files'[n].whole
    BY <1>2 DEF LeavesTrashed
  <2> QED BY <1>1
<1>4. ASSUME NEW k, HasWhole(k) PROVE HasWhole(k)' \/ RestoredOver(k)
  <2>1. CASE k \in WholeOf(SourceItem(t)) \cup WholeOf(TargetItem(t))
    <3>1. CASE RestoredOver(k) BY <3>1
    <3>2. CASE k \in WholeOf(source) \cup WholeOf(target) BY <1>1, <3>2 DEF HasWhole, WholeOf
    <3> QED BY <2>1, <3>1, <3>2
  <2>2. CASE k \notin WholeOf(SourceItem(t)) \cup WholeOf(TargetItem(t))
    <3>1. k \notin WholeOf(files[n0]) /\ k \notin WholeOf(place[q0]) BY <1>1, <2>2
    <3> QED BY <1>1, <1>4, <3>1 DEF HasWhole, WholeOf
  <2> QED BY <2>1, <2>2
<1> QED BY <1>1, <1>3, <1>4, ItemsLeft

(* The undo stack, whose entries are of other names. *)
LEMMA TransferHeld ==
    ASSUME TrashTypes, HeldFits, NEW t \in TrashTasks, TrashPc(t) \in Moving, NEW source \in Items \cup {NoItem},
           NEW target \in Items \cup {NoItem}, Transfer(t, source, target), info' = info, held' = held,
           \A i \in 1..Len(held) : held[i].name # trashTask[t].name
    PROVE  HeldFits'
<1> DEFINE n == trashTask[t].name
<1>1. n \in TrashNames /\ \A m \in TrashNames \ {n} : files'[m] = files[m] /\ info'[m] = info[m]
  BY MoverIs, TransferIs
<1>2. \A i \in 1..Len(held) : held[i].name # n OBVIOUS
<1> HIDE DEF n
<1> QED BY <1>1, <1>2, HeldFitsStill

(* No entry is of the name something is moved under. *)
LEMMA MoverApart ==
    ASSUME TrashTypes, TrashOrder, NEW t \in TrashTasks, TrashPc(t) \in Moving, trashScene.calls = {"undo"}
    PROVE  /\ HeldFits /\ trashTask[t].todo = {}
           /\ \A i \in 1..Len(held) : held[i].name # trashTask[t].name
<1>1. HeldFits /\ HeldApart(t) BY DEF TrashOrder
<1>2. CASE TrashPc(t) = "move" /\ ~Outward(t)
  <2>1. files[trashTask[t].name] = NoItem /\ trashTask[t].name \in TrashNames
    BY <1>2, MoverFits, MoverIs DEF TargetItem, NameOf
  <2> QED BY <1>1, <2>1, HeldElsewhere DEF HeldApart
<1> QED BY <1>1, <1>2 DEF HeldApart, Moving

(* What a transfer is to leave. *)
Kept(t, source, target) ==
    /\ source # NoItem => Fits(source, trashTask[t].orig)
    /\ target # NoItem => Fits(target, trashTask[t].orig)
    /\ \A k \in WholeOf(SourceItem(t)) \cup WholeOf(TargetItem(t)) :
          k \in WholeOf(source) \cup WholeOf(target) \/ RestoredOver(k)
    /\ TargetItem(t) # NoItem /\ ~Outward(t) => target # NoItem /\ TargetItem(t).whole \subseteq target.whole

(* The last step of a move. *)
LEMMA MoveEnds ==
    ASSUME TrashInv, NEW t \in TrashTasks, TrashPc(t) \in Moving, NEW target \in Items \cup {NoItem},
           Transfer(t, NoItem, target), Moved(t), UNCHANGED <<info, trashScene>>,
           Orderly /\ TrashOrder => Kept(t, NoItem, target) /\ target # NoItem
    PROVE  TrashGood
<1> DEFINE n == trashTask[t].name
<1> DEFINE orig == trashTask[t].orig
<1>1. TrashTypes /\ n \in TrashNames /\ orig \in Origins BY MoverIs DEF TrashInv
<1>2. /\ place' \in [Origins -> Items \cup {NoItem}] /\ files' \in [TrashNames -> Items \cup {NoItem}]
      /\ \A m \in TrashNames : files'[m] = IF m # n THEN files[m] ELSE IF Outward(t) THEN NoItem ELSE target
  BY <1>1, TransferIs
<1>3. ASSUME Orderly, TrashOrder PROVE PlacesFit' /\ InfosFit' /\ LeavesTrashed /\ LeavesItems
  BY <1>1, <1>3, TransferFits, TransferKeeps DEF Kept
<1>4. CASE Outward(t)
  <2>1. TrashGoto(t, "unlist") /\ held' = held BY <1>4 DEF Moved
  <2>2. /\ trashTask' \in [TrashTasks -> TrashRecords] /\ OnlyCall(t) /\ TrashPc(t)' = "unlist"
        /\ trashTask'[t].orig = orig /\ trashTask'[t].name = n /\ trashTask'[t].todo = trashTask[t].todo
        /\ trashTask'[t].op = "restore"
    BY <1>1, <1>4, <2>1, GotoIs DEF TrashPcs, TrashTypes, Outward
  <2> HIDE DEF n, orig
  <2>3. TaskIs(t)' /\ CallFits(t)' BY <1>1, <1>2, <1>4, <2>2 DEF TaskIs, CallFits, Moving
  <2>4. ASSUME Orderly, TrashOrder, trashScene.calls = {"undo"} PROVE HeldFits' /\ HeldApart(t)'
    <3>1. HeldFits /\ trashTask[t].todo = {} /\ \A i \in 1..Len(held) : held[i].name # trashTask[t].name
      BY <1>1, <2>4, MoverApart
    <3>2. HeldFits' BY <1>1, <2>1, <3>1, TransferHeld
    <3>3. TrashPc(t)' = "unlist" /\ trashTask'[t].todo = {} /\ \A i \in 1..Len(held') : held'[i].name # trashTask'[t].name
      BY <2>1, <2>2, <3>1 DEF n
    <3> QED BY <3>2, <3>3 DEF HeldApart
  <2>5. TrashPc(t) # "idle" /\ held' \in Seq(HeldEntries) BY <1>1, <2>1 DEF Moving, TrashTypes
  <2> QED BY <1>2, <1>3, <2>2, <2>3, <2>4, <2>5, MovingStep
<1>5. CASE ~Outward(t)
  <2>1. Trashed(t) /\ TrashReturn(t) BY <1>5 DEF Moved
  <2>2. /\ trashTask' \in [TrashTasks -> TrashRecords] /\ OnlyCall(t)
        /\ TaskIs(t)' /\ CallFits(t)' /\ HeldApart(t)'
    BY <1>1, <2>1, ReturnFits
  <2>3. /\ held' \in Seq(HeldEntries)
        /\ "undo" \in trashScene.calls => held' = Append(held, [name |-> n, orig |-> orig])
    BY <1>1, <2>1, TrashedIs
  <2>4. ASSUME Orderly, TrashOrder, trashScene.calls = {"undo"} PROVE HeldFits'
    <3>1. HeldFits /\ \A i \in 1..Len(held) : held[i].name # n BY <1>1, <2>4, MoverApart
    <3>2. info[n] = orig BY <1>1, <2>4, MoverFits
    <3>3. held' = Append(held, [name |-> n, orig |-> orig]) BY <2>3, <2>4
    <3>4. files'[n] # NoItem /\ info'[n] = orig BY <1>1, <1>2, <1>5, <2>4, <3>2
    <3>5. \A m \in TrashNames \ {n} : files'[m] = files[m] /\ info'[m] = info[m] BY <1>2
    <3> HIDE DEF n, orig
    <3> QED BY <1>1, <3>1, <3>3, <3>4, <3>5, HeldFitsOneMore
  <2>5. TrashPc(t) # "idle" BY DEF Moving
  <2> QED BY <1>2, <1>3, <2>2, <2>3, <2>4, <2>5, MovingStep
<1> QED BY <1>4, <1>5

(* A step of a move that is not its last. *)
GoesOn(t, source, target, moving, k, pc) ==
    /\ Kept(t, source, target) /\ target # NoItem /\ CopyFits(source, moving)
    /\ source.folder => target.folder
    /\ pc = "copy" => source.folder
    /\ pc = "remove" => RemoveFits(source, target, k)
    /\ ~Outward(t) => Apart(source, target, IF pc = "copy" THEN {} ELSE {k})

LEMMA MoveGoesOn ==
    ASSUME TrashInv, NEW t \in TrashTasks, TrashPc(t) \in Moving, NEW source \in Items,
           NEW target \in Items \cup {NoItem}, NEW moving \in SUBSET Pieces, NEW k \in Pieces \cup {NoItem}, NEW pc \in {"copy", "remove"},
           Transfer(t, source, target), UNCHANGED <<info, held, trashScene>>,
           trashTask' = [trashTask EXCEPT ![t].moving = moving, ![t].piece = k, ![t].pc = pc],
           Orderly /\ TrashOrder => GoesOn(t, source, target, moving, k, pc)
    PROVE  TrashGood
<1> DEFINE new == [trashTask[t] EXCEPT !.moving = moving, !.piece = k, !.pc = pc]
<1>1. TrashTypes /\ trashTask \in [TrashTasks -> TrashRecords] /\ source # NoItem
  BY TrashAssumption DEF TrashInv, TrashTypes, TrashAssumption
<1>2. trashTask' = [trashTask EXCEPT ![t] = new] BY <1>1
<1>3. /\ new \in TrashRecords /\ new.moving = moving /\ new.piece = k /\ new.pc = pc
      /\ new.op = trashTask[t].op /\ new.from = trashTask[t].from /\ new.orig = trashTask[t].orig
      /\ new.name = trashTask[t].name /\ new.todo = trashTask[t].todo
  <2>1. trashTask[t] \in TrashRecords BY <1>1
  <2> QED BY <2>1 DEF TrashRecords, TrashPcs
<1> HIDE DEF new
<1>4. /\ trashTask' \in [TrashTasks -> TrashRecords] /\ OnlyCall(t) /\ trashTask'[t] = new
      /\ TrashPc(t)' = pc /\ (Outward(t)' <=> Outward(t)) /\ TrashPc(t) # "idle"
  <2>1. Begin(t, new) BY <1>2 DEF Begin
  <2>2. trashTask' \in [TrashTasks -> TrashRecords] /\ OnlyCall(t) /\ trashTask'[t] = new
    BY <1>1, <1>3, <2>1, BeginIs
  <2> QED BY <1>3, <2>1, <2>2 DEF TrashPc, Outward, Moving
<1>5. /\ trashTask[t].name \in TrashNames /\ trashTask[t].orig \in Origins
      /\ trashTask[t].op \in {"trash", "restore"} /\ (~Outward(t) => trashTask[t].from \in Origins)
  BY <1>1, MoverIs
<1>6. /\ place' \in [Origins -> Items \cup {NoItem}] /\ files' \in [TrashNames -> Items \cup {NoItem}]
      /\ SourceItem(t)' = source /\ TargetItem(t)' = target
  BY <1>1, <1>3, <1>4, <1>5, TransferIs DEF SourceItem, TargetItem, NameOf
<1>7. TaskIs(t)' BY <1>3, <1>4, <1>5 DEF TaskIs, Moving, Outward
<1>8. ASSUME Orderly, TrashOrder
      PROVE  /\ PlacesFit' /\ InfosFit' /\ CallFits(t)' /\ LeavesTrashed /\ LeavesItems
             /\ trashScene.calls = {"undo"} => HeldFits' /\ HeldApart(t)'
  <2>1. PlacesFit' /\ InfosFit' /\ LeavesTrashed /\ LeavesItems
    BY <1>1, <1>8, TransferFits, TransferKeeps DEF Kept, GoesOn
  <2>2. info'[trashTask[t].name] = trashTask[t].orig /\ (~Outward(t) => trashTask[t].orig = trashTask[t].from)
    BY <1>1, <1>8, MoverFits
  <2>3. CallFits(t)' BY <1>1, <1>3, <1>4, <1>5, <1>6, <1>8, <2>2 DEF CallFits, Moving, Outward, GoesOn
  <2>4. ASSUME trashScene.calls = {"undo"} PROVE HeldFits' /\ HeldApart(t)'
    <3>1. /\ HeldFits /\ trashTask[t].todo = {}
          /\ \A i \in 1..Len(held) : held[i].name # trashTask[t].name
      BY <1>1, <1>8, <2>4, MoverApart
    <3>2. HeldFits' BY <1>1, <3>1, TransferHeld
    <3>3. HeldApart(t)' BY <1>3, <1>4, <3>1 DEF HeldApart
    <3> QED BY <3>2, <3>3
  <2> QED BY <2>1, <2>3, <2>4
<1> QED BY <1>1, <1>4, <1>6, <1>7, <1>8, MovingStep DEF TrashTypes

(* An item is renamed: it takes the place of a file, or of an empty folder. *)
LEMMA MoveWholeStep ==
    ASSUME TrashInv, NEW t \in TrashTasks, MoveWhole(t)
    PROVE  TrashGood
<1> DEFINE item == SourceItem(t)
<1>1. /\ TrashPc(t) = "move" /\ item # NoItem /\ Transfer(t, NoItem, item) /\ Moved(t)
      /\ UNCHANGED <<info, trashScene>>
      /\ TargetItem(t) # NoItem => (TargetItem(t).folder => InIt(TargetItem(t)) = {})
  BY DEF MoveWhole, TrashAt, TrashPc
<1>2. TrashTypes /\ TrashPc(t) \in Moving BY <1>1 DEF TrashInv, Moving
<1>3. item \in Items BY <1>1, <1>2, MoverIs
<1>4. ASSUME Orderly, TrashOrder PROVE Kept(t, NoItem, item)
  <2>1. Fits(item, trashTask[t].orig) /\ (TargetItem(t) # NoItem => Outward(t))
    BY <1>1, <1>2, <1>4, MoverFits
  <2>2. \A k \in WholeOf(TargetItem(t)) : RestoredOver(k)
    BY <1>1, <2>1 DEF WholeOf, RestoredOver, TrashPc
  <2> QED BY <1>1, <2>1, <2>2 DEF Kept, WholeOf
<1> HIDE DEF item
<1> QED BY <1>1, <1>2, <1>3, <1>4, MoveEnds

(* The rename fails: the .trashinfo of what was to be trashed goes, and nothing lies under it. *)
LEMMA MoveFailsStep ==
    ASSUME TrashInv, NEW t \in TrashTasks, MoveFails(t)
    PROVE  TrashGood
<1> DEFINE n == trashTask[t].name
<1>1. /\ TrashPc(t) = "move" /\ TrashReturn(t) /\ UNCHANGED <<place, files, held, trashScene>>
      /\ info' = info \/ (~Outward(t) /\ info' = [info EXCEPT ![n] = NoItem])
  BY DEF MoveFails, TrashAt, TrashPc, NameOf
<1>2. TrashTypes /\ TrashPc(t) \in Moving BY <1>1 DEF TrashInv, Moving
<1>3. n \in TrashNames BY <1>2, MoverIs
<1>4. /\ trashTask' \in [TrashTasks -> TrashRecords] /\ OnlyCall(t)
      /\ TaskIs(t)' /\ CallFits(t)' /\ HeldApart(t)'
  BY <1>1, <1>2, ReturnFits
<1>5. ASSUME Orderly, TrashOrder, ~Outward(t) PROVE files[n] = NoItem
  BY <1>1, <1>2, <1>5, MoverFits DEF TargetItem, NameOf
<1> HIDE DEF n
<1>6. /\ info' \in [TrashNames -> Origins \cup {NoItem}]
      /\ \A m \in TrashNames \ {n} : info'[m] = info[m]
  BY <1>1, <1>2, <1>3 DEF TrashTypes
<1>7. ASSUME Orderly, TrashOrder PROVE InfosFit' /\ (trashScene.calls = {"undo"} => HeldFits')
  <2>1. InfosFit' BY <1>1, <1>5, <1>6, <1>7 DEF TrashOrder, InfosFit
  <2>2. ASSUME trashScene.calls = {"undo"} PROVE HeldFits'
    BY <1>1, <1>2, <1>3, <1>6, <1>7, <2>2, MoverApart, HeldFitsStill DEF n
  <2> QED BY <2>1, <2>2
<1> QED BY <1>1, <1>2, <1>4, <1>6, <1>7, StillStep DEF TrashTypes

(* A folder is made where one is to be moved, if there is none. *)
LEMMA OpenFolderStep ==
    ASSUME TrashInv, NEW t \in TrashTasks, OpenFolder(t)
    PROVE  TrashGood
<1> DEFINE source == SourceItem(t)
<1> DEFINE target == IF TargetItem(t) = NoItem THEN Empty(source) ELSE TargetItem(t)
<1> DEFINE moving == InIt(source)
<1> DEFINE k == trashTask[t].piece
<1>1. /\ TrashPc(t) = "move" /\ source # NoItem /\ source.folder /\ Transfer(t, source, target)
      /\ UNCHANGED <<info, held, trashScene>> /\ (TargetItem(t) # NoItem => TargetItem(t).folder)
      /\ trashTask' = [trashTask EXCEPT ![t].moving = moving, ![t].pc = "copy"]
  BY DEF OpenFolder, TrashAt, TrashPc
<1>2. TrashTypes /\ TrashPc(t) \in Moving /\ trashTask \in [TrashTasks -> TrashRecords]
  BY <1>1 DEF TrashInv, Moving, TrashTypes
<1>3. source \in Items /\ TargetItem(t) \in Items \cup {NoItem} /\ trashTask[t].orig \in Origins
  BY <1>1, <1>2, MoverIs
<1>4. Empty(source) \in Items /\ Empty(source).whole = {} /\ target \in Items
  <2>1. Empty(source) \in Items /\ Empty(source).whole = {} BY <1>3 DEF Items, Empty
  <2> QED BY <1>3, <2>1
<1>5. moving \in SUBSET Pieces /\ k \in Pieces \cup {NoItem} BY <1>2, <1>3 DEF Items, InIt, TrashRecords
<1>6. trashTask' = [trashTask EXCEPT ![t].moving = moving, ![t].piece = k, ![t].pc = "copy"]
  <2>1. trashTask[t] \in TrashRecords BY <1>2
  <2>2. [trashTask[t] EXCEPT !.moving = moving, !.piece = k, !.pc = "copy"]
          = [trashTask[t] EXCEPT !.moving = moving, !.pc = "copy"]
    BY <2>1 DEF TrashRecords
  <2> QED BY <1>1, <1>2, <2>2
<1>7. ASSUME Orderly, TrashOrder PROVE GoesOn(t, source, target, moving, k, "copy")
  <2>1. Fits(source, trashTask[t].orig) /\ (TargetItem(t) # NoItem => Fits(TargetItem(t), trashTask[t].orig))
    BY <1>1, <1>2, <1>7, MoverFits
  <2>2. Fits(Empty(source), trashTask[t].orig) /\ Empty(source).folder = source.folder /\ Empty(source) # NoItem
    <3>1. Empty(source) # NoItem BY <1>4, TrashAssumption DEF TrashAssumption
    <3>2. source.id = trashTask[t].orig BY <2>1 DEF Fits
    <3> QED BY <1>3, <3>1, <3>2 DEF Items, Fits, Single, InIt, Empty
  <2>3. ~Outward(t) => TargetItem(t) = NoItem BY <1>1, <1>2, <1>7, MoverFits
  <2>4. Kept(t, source, target) BY <1>1, <1>4, <2>1, <2>2, <2>3 DEF Kept, WholeOf
  <2>5. ~Outward(t) => Apart(source, target, {}) BY <1>4, <2>3 DEF Apart
  <2>6. target # NoItem /\ target.folder /\ CopyFits(source, moving) BY <1>1, <2>2 DEF CopyFits
  <2> QED BY <1>1, <2>4, <2>5, <2>6 DEF GoesOn
<1>8. Transfer(t, source, target) /\ UNCHANGED <<info, held, trashScene>> BY <1>1
<1> HIDE DEF source, target, moving, k
<1> QED BY <1>2, <1>3, <1>4, <1>5, <1>6, <1>7, <1>8, MoveGoesOn

(* A file that is to be copied, and what comes to be where it is copied to. *)
LEMMA ToCopyIs ==
    ASSUME TrashTypes, NEW t \in TrashTasks, NEW k \in ToCopy(t)
    PROVE  /\ TrashPc(t) \in {"move", "copy"} /\ k \in Pieces /\ SourceItem(t) \in Items /\ Onto(t) \in Items
           /\ SourceItem(t).folder => Onto(t) = TargetItem(t)
           /\ ~SourceItem(t).folder => TrashPc(t) = "move" \/ ~Orderly \/ ~TrashOrder
           /\ Content(SourceItem(t)) = SourceItem(t) => k \in InIt(SourceItem(t))
<1>1. CASE TrashAt(t, "copy") /\ SourceItem(t) # NoItem /\ TargetItem(t) # NoItem
  <2>1. k \in InIt(SourceItem(t)) /\ TrashPc(t) = "copy" BY <1>1 DEF ToCopy, TrashAt, TrashPc
  <2>2. SourceItem(t) \in Items /\ TargetItem(t) \in Items BY <1>1, <2>1, MoverIs DEF Moving
  <2>3. TrashOrder => SourceItem(t).folder BY <2>1 DEF TrashOrder, CallFits
  <2>4. k \in Pieces /\ Empty(SourceItem(t)) \in Items BY <2>1, <2>2 DEF Items, InIt, Empty
  <2> QED BY <2>1, <2>2, <2>3, <2>4 DEF Onto
<1>2. CASE ~(TrashAt(t, "copy") /\ SourceItem(t) # NoItem /\ TargetItem(t) # NoItem)
  <2>1. /\ TrashPc(t) = "move" /\ Found(SourceItem(t)) /\ ~SourceItem(t).folder
        /\ k \in InIt(Content(SourceItem(t)))
    BY <1>2 DEF ToCopy, TrashAt, TrashPc
  <2>2. SourceItem(t) \in Items BY <2>1, MoverIs DEF Moving, Found
  <2>3. Content(SourceItem(t)) \in Items BY <2>1, <2>2 DEF Content, Found, TrashTypes, Items
  <2>4. k \in Pieces /\ Empty(SourceItem(t)) \in Items BY <2>1, <2>2, <2>3 DEF Items, InIt, Empty
  <2> QED BY <2>1, <2>2, <2>4 DEF Onto
<1> QED BY <1>1, <1>2

(* What a copy makes is of the path, and writes over nothing whole but what is restored over. *)
LEMMA CopiedIs ==
    ASSUME TrashTypes, TrashOrder, Orderly, NEW t \in TrashTasks, NEW k \in ToCopy(t)
    PROVE  /\ Fits(SourceItem(t), trashTask[t].orig) /\ Content(SourceItem(t)) = SourceItem(t)
           /\ k \in InIt(SourceItem(t)) /\ CopyFits(SourceItem(t), trashTask[t].moving)
           /\ Kept(t, SourceItem(t), Whole(Onto(t), k)) /\ Kept(t, SourceItem(t), Torn(Onto(t), k))
           /\ ~Outward(t) => Apart(SourceItem(t), Onto(t), {})
           /\ SourceItem(t).folder => Onto(t).folder
<1> DEFINE source == SourceItem(t)
<1> DEFINE target == TargetItem(t)
<1> DEFINE onto == Onto(t)
<1> DEFINE orig == trashTask[t].orig
<1>1. /\ TrashPc(t) \in {"move", "copy"} /\ k \in Pieces /\ source \in Items /\ onto \in Items
      /\ source.folder => onto = target
      /\ ~source.folder => TrashPc(t) = "move"
  BY ToCopyIs
<1>2. source # NoItem /\ orig \in Origins /\ TrashPc(t) \in Moving /\ target \in Items \cup {NoItem}
  BY <1>1, MoverIs, TrashAssumption DEF TrashAssumption, Moving
<1>3. /\ Fits(source, orig)
      /\ target # NoItem => Fits(target, orig)
      /\ TrashPc(t) = "move" /\ ~Outward(t) => target = NoItem
  BY <1>2, MoverFits
<1>4. Content(source) = source BY <1>3 DEF Content, Fits
<1>5. k \in InIt(source) BY <1>4, ToCopyIs
<1>6. CASE source.folder
  <2>1. TrashPc(t) = "copy" /\ target # NoItem /\ onto = target
    BY <1>1, <1>6 DEF ToCopy, TrashAt, TrashPc
  <2>2. CopyFits(source, trashTask[t].moving) /\ (~Outward(t) => Apart(source, target, {}))
    BY <2>1 DEF TrashOrder, CallFits
  <2>3. onto.folder /\ Fits(onto, orig) BY <1>3, <1>6, <2>1 DEF TrashOrder, CallFits
  <2>4. ~Outward(t) => k \notin target.whole BY <1>5, <2>2 DEF Apart
  <2>5. Outward(t) => \A j \in target.whole : RestoredOver(j) BY <2>1 DEF RestoredOver, TrashPc
  <2>6. /\ Whole(onto, k).whole = onto.whole \cup {k} /\ Torn(onto, k).whole = onto.whole \ {k}
        /\ Whole(onto, k) \in Items /\ Torn(onto, k) \in Items
    BY <1>1, ItemsAfter
  <2>7. Whole(onto, k) # NoItem /\ Torn(onto, k) # NoItem BY <2>6, TrashAssumption DEF TrashAssumption
  <2>8. Fits(Torn(onto, k), orig) /\ Fits(Whole(onto, k), orig) BY <1>1, <1>2, <2>1, <2>3, FitsAfter
  <2> HIDE DEF source, target, onto, orig
  <2>9. Kept(t, source, Whole(onto, k)) /\ Kept(t, source, Torn(onto, k))
    BY <1>3, <2>1, <2>4, <2>5, <2>6, <2>7, <2>8 DEF Kept, WholeOf, source, target, orig
  <2> QED BY <1>3, <1>4, <1>5, <2>1, <2>2, <2>3, <2>9 DEF source, target, onto, orig
<1>7. CASE ~source.folder
  <2>1. TrashPc(t) = "move" /\ onto = Empty(source) BY <1>1, <1>7 DEF Onto
  <2>2. onto.whole = {} /\ ~onto.folder BY <1>1, <1>7, <2>1 DEF Empty, Items
  <2>3. \A j \in WholeOf(target) : RestoredOver(j) BY <1>3, <2>1 DEF RestoredOver, WholeOf, TrashPc
  <2>4. Fits(Torn(onto, k), orig) /\ Fits(Whole(onto, k), orig) BY <1>1, <1>2, <1>3, <2>1, FitsAfter
  <2>5. CopyFits(source, trashTask[t].moving) /\ Apart(source, onto, {})
    BY <1>7, <2>2 DEF CopyFits, Apart
  <2>6. ~Outward(t) => target = NoItem BY <1>3, <2>1
  <2> HIDE DEF source, target, onto, orig
  <2>7. Kept(t, source, Whole(onto, k)) /\ Kept(t, source, Torn(onto, k))
    BY <1>2, <1>3, <2>3, <2>4, <2>6 DEF Kept, WholeOf, source, target, orig
  <2> QED BY <1>3, <1>4, <1>5, <1>7, <2>5, <2>7 DEF source, target, onto, orig
<1> QED BY <1>6, <1>7

(* A file is copied: it is whole there, if it was here. *)
LEMMA CopyFileStep ==
    ASSUME TrashInv, NEW t \in TrashTasks, CopyFile(t)
    PROVE  TrashGood
<1>1. PICK k \in ToCopy(t) :
         /\ Transfer(t, SourceItem(t), IF k \in Content(SourceItem(t)).whole THEN Whole(Onto(t), k)
                                                                            ELSE Torn(Onto(t), k))
         /\ trashTask' = [trashTask EXCEPT ![t].piece = k, ![t].pc = "remove"]
         /\ UNCHANGED <<info, held, trashScene>>
  BY DEF CopyFile
<1> DEFINE source == SourceItem(t)
<1> DEFINE onto == Onto(t)
<1> DEFINE target == IF k \in Content(source).whole THEN Whole(onto, k) ELSE Torn(onto, k)
<1> DEFINE moving == trashTask[t].moving
<1>2. TrashTypes /\ trashTask \in [TrashTasks -> TrashRecords] BY DEF TrashInv, TrashTypes
<1>3. TrashPc(t) \in Moving /\ k \in Pieces /\ source \in Items /\ onto \in Items
  BY <1>2, ToCopyIs DEF Moving
<1>4. target \in Items BY <1>3, ItemsAfter
<1>5. moving \in SUBSET Pieces BY <1>2 DEF TrashRecords
<1>6. trashTask' = [trashTask EXCEPT ![t].moving = moving, ![t].piece = k, ![t].pc = "remove"]
  <2>1. trashTask[t] \in TrashRecords BY <1>2
  <2>2. [trashTask[t] EXCEPT !.moving = moving, !.piece = k, !.pc = "remove"]
          = [trashTask[t] EXCEPT !.piece = k, !.pc = "remove"]
    BY <2>1 DEF TrashRecords
  <2> QED BY <1>1, <1>2, <2>2
<1>7. ASSUME Orderly, TrashOrder PROVE GoesOn(t, source, target, moving, k, "remove")
  <2>1. /\ Fits(source, trashTask[t].orig) /\ Content(source) = source /\ k \in InIt(source)
        /\ CopyFits(source, moving) /\ Kept(t, source, Whole(onto, k)) /\ Kept(t, source, Torn(onto, k))
        /\ ~Outward(t) => Apart(source, onto, {})
        /\ source.folder => onto.folder
    BY <1>2, <1>7, CopiedIs
  <2>2. /\ Whole(onto, k).whole = onto.whole \cup {k} /\ Torn(onto, k).whole = onto.whole \ {k}
        /\ Whole(onto, k).folder = onto.folder /\ Torn(onto, k).folder = onto.folder
    BY <1>3, ItemsAfter
  <2>3. ~source.folder => source.whole \subseteq {k} BY <2>1 DEF Fits, Single, InIt
  <2>4. RemoveFits(source, target, k) /\ (~Outward(t) => Apart(source, target, {k}))
    BY <2>1, <2>2, <2>3 DEF RemoveFits, Apart
  <2>5. Kept(t, source, target) /\ (source.folder => target.folder) /\ target # NoItem
    BY <1>4, <2>1, <2>2, TrashAssumption DEF TrashAssumption
  <2> QED BY <2>1, <2>4, <2>5 DEF GoesOn
<1>8. Transfer(t, source, target) /\ UNCHANGED <<info, held, trashScene>> BY <1>1
<1> HIDE DEF source, onto, target, moving
<1> QED BY <1>2, <1>3, <1>4, <1>5, <1>6, <1>7, <1>8, MoveGoesOn

(* What was copied is removed: it is whole where it was copied to. *)
LEMMA RemoveFileStep ==
    ASSUME TrashInv, NEW t \in TrashTasks, RemoveFile(t)
    PROVE  TrashGood
<1> DEFINE source == SourceItem(t)
<1> DEFINE target == TargetItem(t)
<1> DEFINE k == trashTask[t].piece
<1>1. /\ TrashPc(t) = "remove" /\ source # NoItem /\ UNCHANGED <<info, trashScene>>
      /\ IF source.folder
         THEN /\ k \in InIt(source) /\ Transfer(t, Without(source, k), target)
              /\ trashTask' = [trashTask EXCEPT ![t].moving = @ \ {k}, ![t].pc = "copy"]
              /\ UNCHANGED held
         ELSE Transfer(t, NoItem, target) /\ Moved(t)
  BY DEF RemoveFile, TrashAt, TrashPc
<1>2. TrashTypes /\ trashTask \in [TrashTasks -> TrashRecords] /\ TrashPc(t) \in Moving
  BY <1>1 DEF TrashInv, TrashTypes, Moving
<1>3. source \in Items /\ target \in Items \cup {NoItem} /\ trashTask[t].orig \in Origins
  BY <1>1, <1>2, MoverIs
<1>4. ASSUME Orderly, TrashOrder
      PROVE  /\ Fits(source, trashTask[t].orig) /\ target # NoItem /\ Fits(target, trashTask[t].orig)
             /\ CopyFits(source, trashTask[t].moving) /\ RemoveFits(source, target, k)
             /\ ~Outward(t) => Apart(source, target, {k})
             /\ source.folder => target.folder
  <2>1. CallFits(t) BY <1>4 DEF TrashOrder
  <2>2. target # NoItem /\ Fits(source, trashTask[t].orig) /\ Fits(target, trashTask[t].orig)
    BY <1>1, <1>2, <1>4, <2>1, MoverFits DEF CallFits
  <2> QED BY <1>1, <2>1, <2>2 DEF CallFits
<1>5. CASE source.folder
  <2> DEFINE rest == Without(source, k)
  <2> DEFINE moving == trashTask[t].moving \ {k}
  <2>1. trashTask[t] \in TrashRecords BY <1>2
  <2>2. k \in Pieces /\ k \in Pieces \cup {NoItem} /\ moving \in SUBSET Pieces
    BY <1>1, <1>3, <1>5, <2>1 DEF InIt, Items, TrashRecords
  <2>3. rest \in Items /\ InIt(rest) = InIt(source) \ {k} /\ rest.whole = source.whole \ {k} /\ rest.folder
    BY <1>3, <1>5, <2>2, ItemsAfter
  <2>4. trashTask' = [trashTask EXCEPT ![t].moving = moving, ![t].piece = k, ![t].pc = "copy"]
    <3>1. trashTask' = [trashTask EXCEPT ![t].moving = moving, ![t].pc = "copy"] BY <1>1, <1>2, <1>5
    <3>2. [trashTask[t] EXCEPT !.moving = moving, !.piece = k, !.pc = "copy"]
            = [trashTask[t] EXCEPT !.moving = moving, !.pc = "copy"]
      BY <2>1 DEF TrashRecords
    <3> QED BY <1>2, <3>1, <3>2
  <2>5. Transfer(t, rest, target) /\ UNCHANGED <<info, held, trashScene>> BY <1>1, <1>5
  <2>6. ASSUME Orderly, TrashOrder PROVE GoesOn(t, rest, target, moving, k, "copy")
    <3>1. Fits(rest, trashTask[t].orig) BY <1>3, <1>4, <2>2, <2>6, FitsAfter
    <3>2. Kept(t, rest, target)
      <4>1. rest # NoItem BY <2>3, TrashAssumption DEF TrashAssumption
      <4>2. \A j \in WholeOf(source) \cup WholeOf(target) : j \in WholeOf(rest) \cup WholeOf(target)
        BY <1>1, <1>4, <2>3, <2>6, <4>1 DEF WholeOf, RemoveFits
      <4> QED BY <1>4, <2>6, <3>1, <4>2 DEF Kept
    <3>3. CopyFits(rest, moving) BY <1>4, <1>5, <2>3, <2>6 DEF CopyFits
    <3>4. ~Outward(t) => Apart(rest, target, {}) BY <1>4, <2>3, <2>6 DEF Apart
    <3> QED BY <1>4, <1>5, <2>3, <2>6, <3>2, <3>3, <3>4 DEF GoesOn
  <2> HIDE DEF source, target, k, rest, moving
  <2> QED BY <1>2, <1>3, <2>2, <2>3, <2>4, <2>5, <2>6, MoveGoesOn
<1>6. CASE ~source.folder
  <2>1. Transfer(t, NoItem, target) /\ Moved(t) BY <1>1, <1>6
  <2>2. ASSUME Orderly, TrashOrder PROVE Kept(t, NoItem, target) /\ target # NoItem
    BY <1>1, <1>4, <1>6, <2>2 DEF Kept, WholeOf, RemoveFits
  <2> HIDE DEF source, target, k
  <2> QED BY <1>1, <1>2, <1>3, <2>1, <2>2, MoveEnds
<1> QED BY <1>5, <1>6

(* The emptied folder is removed. *)
LEMMA RemoveEmptiedStep ==
    ASSUME TrashInv, NEW t \in TrashTasks, RemoveEmptied(t)
    PROVE  TrashGood
<1> DEFINE source == SourceItem(t)
<1> DEFINE target == TargetItem(t)
<1>1. /\ TrashPc(t) = "copy" /\ trashTask[t].moving = {} /\ Transfer(t, NoItem, target) /\ Moved(t)
      /\ UNCHANGED <<info, trashScene>>
  BY DEF RemoveEmptied, TrashAt, TrashPc
<1>2. TrashTypes /\ TrashPc(t) \in Moving BY <1>1 DEF TrashInv, Moving
<1>3. target \in Items \cup {NoItem} BY <1>2, MoverIs
<1>4. ASSUME Orderly, TrashOrder PROVE Kept(t, NoItem, target) /\ target # NoItem
  <2>1. target # NoItem /\ CopyFits(source, {}) /\ source.folder BY <1>1, <1>4 DEF TrashOrder, CallFits
  <2>2. Fits(target, trashTask[t].orig) BY <1>2, <1>4, <2>1, MoverFits
  <2>3. WholeOf(source) = {} BY <2>1 DEF CopyFits, InIt, WholeOf
  <2> QED BY <2>1, <2>2, <2>3 DEF Kept, WholeOf
<1> HIDE DEF source, target
<1> QED BY <1>1, <1>2, <1>3, <1>4, MoveEnds

(* A call fails, and leaves a torn copy or nothing. *)
LEMMA TransferFailsStep ==
    ASSUME TrashInv, NEW t \in TrashTasks, TransferFails(t)
    PROVE  TrashGood
<1>1. /\ TrashPc(t) \in Moving /\ TrashReturn(t) /\ UNCHANGED <<info, held, trashScene>>
      /\ \/ \E k \in ToCopy(t) : Transfer(t, SourceItem(t), Torn(Onto(t), k))
         \/ UNCHANGED <<place, files>>
  BY DEF TransferFails, TrashPc, Moving
<1>2. TrashTypes BY DEF TrashInv
<1>3. /\ trashTask' \in [TrashTasks -> TrashRecords] /\ OnlyCall(t)
      /\ TaskIs(t)' /\ CallFits(t)' /\ HeldApart(t)'
  BY <1>1, <1>2, ReturnFits
<1>4. TrashPc(t) # "idle" BY <1>1 DEF Moving
<1>5. CASE UNCHANGED <<place, files>>
  <2>1. TrashOrder => InfosFit' /\ (trashScene.calls = {"undo"} => HeldFits')
    BY <1>1, <1>5 DEF TrashOrder, InfosFit, HeldFits
  <2> QED BY <1>1, <1>2, <1>3, <1>4, <1>5, <2>1, StillStep DEF TrashTypes
<1>6. ASSUME NEW k \in ToCopy(t), Transfer(t, SourceItem(t), Torn(Onto(t), k)) PROVE TrashGood
  <2> DEFINE source == SourceItem(t)
  <2> DEFINE target == Torn(Onto(t), k)
  <2>1. k \in Pieces /\ source \in Items /\ Onto(t) \in Items BY <1>2, ToCopyIs
  <2>2. target \in Items BY <2>1, ItemsAfter
  <2>3. Transfer(t, source, target) BY <1>6
  <2>4. Orderly /\ TrashOrder => Kept(t, source, target) BY <1>2, CopiedIs
  <2> HIDE DEF source, target
  <2>5. place' \in [Origins -> Items \cup {NoItem}] /\ files' \in [TrashNames -> Items \cup {NoItem}]
    BY <1>1, <1>2, <2>1, <2>2, <2>3, TransferIs
  <2>6. ASSUME Orderly, TrashOrder
        PROVE  /\ PlacesFit' /\ InfosFit' /\ LeavesTrashed /\ LeavesItems
               /\ trashScene.calls = {"undo"} => HeldFits'
    <3>1. PlacesFit' /\ InfosFit' /\ LeavesTrashed /\ LeavesItems
      BY <1>1, <1>2, <2>1, <2>2, <2>3, <2>4, <2>6, TransferFits, TransferKeeps DEF Kept
    <3>2. ASSUME trashScene.calls = {"undo"} PROVE HeldFits'
      BY <1>1, <1>2, <2>1, <2>2, <2>3, <2>6, <3>2, MoverApart, TransferHeld
    <3> QED BY <3>1, <3>2
  <2> QED BY <1>1, <1>2, <1>3, <1>4, <2>5, <2>6, MovingStep DEF TrashTypes
<1> QED BY <1>1, <1>5, <1>6


-------------------------------------------------------------------------------
(* The calls: restore. *)

(* A restore that begins. *)
LEMMA RestoringIs ==
    ASSUME TrashTypes, NEW t \in TrashTasks, NEW n \in TrashNames, NEW orig \in Origins, NEW entry,
           entry.name = n, entry.orig = orig, Begin(t, Restoring(entry))
    PROVE  /\ trashTask' \in [TrashTasks -> TrashRecords] /\ OnlyCall(t) /\ TaskIs(t)'
           /\ TrashPc(t)' = "move" /\ trashTask'[t].op = "restore" /\ trashTask'[t].name = n /\ trashTask'[t].orig = orig /\ trashTask'[t].todo = {}
<1> DEFINE new == [TrashIdle EXCEPT !.op = "restore", !.name = n, !.orig = orig, !.pc = "move"]
<1>1. new \in TrashRecords /\ new.name = n /\ new.orig = orig /\ new.pc = "move" /\ new.op = "restore" /\ new.todo = {}
  BY IdleIs DEF TrashRecords, TrashPcs
<1>2. Begin(t, new) BY DEF Restoring
<1> HIDE DEF new
<1>3. trashTask' \in [TrashTasks -> TrashRecords] /\ OnlyCall(t) /\ trashTask'[t] = new
  BY <1>1, <1>2, BeginIs DEF TrashTypes
<1> QED BY <1>1, <1>3 DEF TaskIs, TrashPc, Moving

(* A sequence without its last element. *)
LEMMA FrontIs ==
    ASSUME NEW S, NEW s \in Seq(S), s # <<>>
    PROVE  /\ Front(s) \in Seq(S) /\ Len(Front(s)) = Len(s) - 1 /\ Len(s) \in Nat \ {0}
           /\ \A i \in 1..Len(Front(s)) : Front(s)[i] = s[i]
<1>1. Len(s) \in Nat /\ Len(s) # 0 OBVIOUS
<1> DEFINE k == Len(s) - 1
<1>2. k \in Nat /\ k <= Len(s) BY <1>1
<1>3. Front(s) = SubSeq(s, 1, k) BY DEF Front
<1> HIDE DEF k
<1>4. Len(SubSeq(s, 1, k)) = k BY <1>1, <1>2
<1>5. \A i \in 1..k : SubSeq(s, 1, k)[i] = s[i] BY <1>1, <1>2
<1>6. SubSeq(s, 1, k) \in Seq(S) BY <1>1, <1>2
<1> QED BY <1>1, <1>3, <1>4, <1>5, <1>6 DEF k

(* Undo takes the last entry it holds: what it names lies in the trash, under the path it says. *)
LEMMA BeginUndoStep ==
    ASSUME TrashInv, NEW t \in TrashTasks, BeginUndo(t)
    PROVE  TrashGood
<1> DEFINE k == Len(held)
<1> DEFINE n == held[k].name
<1> DEFINE orig == held[k].orig
<1>1. /\ "undo" \in trashScene.calls /\ Free(t) /\ held # <<>> /\ Begin(t, Restoring(held[k]))
      /\ held' = Front(held) /\ UNCHANGED <<place, files, info, trashScene>>
  BY DEF BeginUndo, Last
<1>2. TrashTypes BY DEF TrashInv
<1>3. held \in Seq(HeldEntries) /\ Len(held) \in Nat /\ Len(held) # 0 BY <1>1, <1>2 DEF TrashTypes
<1>4. k \in 1..Len(held) BY <1>3
<1>5. n \in TrashNames /\ orig \in Origins BY <1>2, <1>4, HeldIs
<1>6. held' \in Seq(HeldEntries) /\ Len(held') = Len(held) - 1 /\ \A i \in 1..Len(held') : held'[i] = held[i]
  BY <1>1, <1>3, FrontIs
<1>7. \A i \in 1..Len(held') : i \in 1..Len(held) /\ i # k BY <1>3, <1>6
<1>8. /\ trashTask' \in [TrashTasks -> TrashRecords] /\ OnlyCall(t) /\ TaskIs(t)'
      /\ TrashPc(t)' = "move" /\ trashTask'[t].op = "restore" /\ trashTask'[t].name = n /\ trashTask'[t].orig = orig /\ trashTask'[t].todo = {}
  <2> DEFINE entry == held[k]
  <2>1. entry.name = n /\ entry.orig = orig /\ Begin(t, Restoring(entry)) BY <1>1
  <2> HIDE DEF entry, n, orig
  <2> QED BY <1>2, <1>5, <2>1, RestoringIs
<1>9. ASSUME Orderly, TrashOrder PROVE InfosFit' /\ CallFits(t)' /\ HeldFits' /\ HeldApart(t)'
  <2>1. HeldFits BY <1>1, <1>9 DEF Orderly, TrashOrder
  <2>2. info[n] = orig BY <1>4, <2>1 DEF HeldFits
  <2>3. \A i \in 1..Len(held') : held'[i].name # n BY <1>4, <1>6, <1>7, <2>1 DEF HeldFits
  <2> HIDE DEF n, orig, k
  <2>4. InfosFit' /\ CallFits(t)' BY <1>1, <1>8, <1>9, <2>2 DEF TrashOrder, InfosFit, CallFits, Outward
  <2>5. HeldFits' BY <1>1, <1>6, <1>7, <2>1, SMTT(20) DEF HeldFits
  <2>6. HeldApart(t)' BY <1>8, <2>3 DEF HeldApart
  <2> QED BY <2>4, <2>5, <2>6
<1>10. info' \in [TrashNames -> Origins \cup {NoItem}] /\ UNCHANGED <<place, files, trashScene>> /\ Free(t)
  BY <1>1, <1>2 DEF TrashTypes
<1> HIDE DEF n, orig, k
<1> QED BY <1>6, <1>8, <1>9, <1>10, StillStep

(* An item is restored by its name, to where its .trashinfo says. *)
LEMMA BeginRestoreByNameStep ==
    ASSUME TrashInv, NEW t \in TrashTasks, BeginRestoreByName(t)
    PROVE  TrashGood
<1>1. PICK n \in Listed : Begin(t, Restoring([name |-> n, orig |-> info[n]])) BY DEF BeginRestoreByName
<1> DEFINE orig == info[n]
<1> DEFINE entry == [name |-> n, orig |-> orig]
<1>2. "restore_by_name" \in trashScene.calls /\ Free(t) /\ UNCHANGED <<place, files, info, held, trashScene>>
  BY DEF BeginRestoreByName
<1>3. TrashTypes BY DEF TrashInv
<1>4. n \in TrashNames /\ orig \in Origins BY <1>3 DEF Listed, TrashTypes
<1>5. entry.name = n /\ entry.orig = orig /\ Begin(t, Restoring(entry)) BY <1>1
<1>6. orig = info[n] OBVIOUS
<1> HIDE DEF orig, entry
<1>7. /\ trashTask' \in [TrashTasks -> TrashRecords] /\ OnlyCall(t) /\ TaskIs(t)'
      /\ TrashPc(t)' = "move" /\ trashTask'[t].op = "restore" /\ trashTask'[t].name = n /\ trashTask'[t].orig = orig /\ trashTask'[t].todo = {}
  BY <1>3, <1>4, <1>5, RestoringIs
<1>8. trashScene.calls # {"undo"} BY <1>2
<1>9. ASSUME Orderly, TrashOrder PROVE InfosFit' /\ CallFits(t)'
  BY <1>2, <1>6, <1>7, <1>9 DEF TrashOrder, InfosFit, CallFits, Outward
<1> QED BY <1>2, <1>3, <1>7, <1>8, <1>9, StillStep DEF TrashTypes

(* The .trashinfo goes after the file. *)
LEMMA UnlistStep ==
    ASSUME TrashInv, NEW t \in TrashTasks, Unlist(t)
    PROVE  TrashGood
<1> DEFINE n == trashTask[t].name
<1>1. /\ TrashPc(t) = "unlist" /\ UNCHANGED <<place, files, held, trashScene>>
      /\ info' = [info EXCEPT ![n] = NoItem] \/ info' = info
      /\ \/ TrashReturn(t)
         \/ trashTask[t].todo # {} /\ TrashGoto(t, "delete")
  BY DEF Unlist, TrashAt, TrashPc, NameOf
<1>2. TrashTypes BY DEF TrashInv
<1>3. n \in TrashNames BY <1>1, <1>2 DEF TrashTypes, TaskIs
<1>4. ASSUME Orderly, TrashOrder PROVE files[n] = NoItem BY <1>1, <1>4 DEF TrashOrder, CallFits
<1>5. ASSUME trashScene.calls = {"undo"}, Orderly, TrashOrder
      PROVE  HeldFits /\ trashTask[t].todo = {} /\ \A i \in 1..Len(held) : held[i].name # n
  BY <1>1, <1>5 DEF TrashOrder, HeldApart
<1> HIDE DEF n
<1>6. info' \in [TrashNames -> Origins \cup {NoItem}] /\ \A m \in TrashNames \ {n} : info'[m] = info[m]
  BY <1>1, <1>2, <1>3 DEF TrashTypes
<1>7. ASSUME Orderly, TrashOrder PROVE InfosFit' /\ (trashScene.calls = {"undo"} => HeldFits')
  <2>1. InfosFit' BY <1>1, <1>4, <1>6, <1>7 DEF TrashOrder, InfosFit
  <2>2. ASSUME trashScene.calls = {"undo"} PROVE HeldFits'
    BY <1>1, <1>2, <1>3, <1>5, <1>6, <1>7, <2>2, HeldFitsStill
  <2> QED BY <2>1, <2>2
<1>8. CASE TrashReturn(t)
  <2>1. /\ trashTask' \in [TrashTasks -> TrashRecords] /\ OnlyCall(t)
        /\ TaskIs(t)' /\ CallFits(t)' /\ HeldApart(t)'
    BY <1>2, <1>8, ReturnFits
  <2> QED BY <1>1, <1>2, <1>6, <1>7, <2>1, StillStep DEF TrashTypes
<1>9. CASE trashTask[t].todo # {} /\ TrashGoto(t, "delete")
  <2>1. trashTask' \in [TrashTasks -> TrashRecords] /\ OnlyCall(t) /\ TrashPc(t)' = "delete"
    BY <1>2, <1>9, GotoIs DEF TrashPcs, TrashTypes
  <2>2. /\ trashTask'[t].from = trashTask[t].from /\ trashTask'[t].orig = trashTask[t].orig
        /\ trashTask'[t].name = trashTask[t].name /\ trashTask'[t].op = trashTask[t].op
    BY <1>2, <1>9, GotoIs DEF TrashPcs, TrashTypes
  <2>3. TaskIs(t)' BY <1>2, <2>1, <2>2 DEF TaskIs, Moving, TrashTypes
  <2>4. Orderly /\ TrashOrder => CallFits(t)' /\ trashScene.calls # {"undo"}
    BY <1>5, <1>9, <2>1, <2>2 DEF TrashOrder, CallFits, Moving
  <2> QED BY <1>1, <1>2, <1>6, <1>7, <2>1, <2>3, <2>4, StillStep DEF TrashTypes
<1> QED BY <1>1, <1>8, <1>9

(* The calls: delete. *)

(* One item is deleted, or the trash is emptied. *)
LEMMA BeginDeleteStep ==
    ASSUME TrashInv, NEW t \in TrashTasks, BeginDelete(t)
    PROVE  TrashGood
<1>1. PICK op \in {"delete", "empty"}, todo \in SUBSET TrashNames :
         Begin(t, [TrashIdle EXCEPT !.op = op, !.todo = todo, !.pc = "delete"])
  BY DEF BeginDelete, Listed
<1> DEFINE new == [TrashIdle EXCEPT !.op = op, !.todo = todo, !.pc = "delete"]
<1>2. "delete" \in trashScene.calls /\ Free(t) /\ UNCHANGED <<place, files, info, held, trashScene>>
  BY DEF BeginDelete
<1>3. TrashTypes BY DEF TrashInv
<1>4. new \in TrashRecords /\ new.pc = "delete" /\ new.op \notin {"trash", "restore"}
  BY IdleIs DEF TrashRecords, TrashPcs
<1>5. Begin(t, new) BY <1>1
<1> HIDE DEF new
<1>6. /\ trashTask' \in [TrashTasks -> TrashRecords] /\ OnlyCall(t) /\ TrashPc(t)' = "delete"
      /\ trashTask'[t].op \notin {"trash", "restore"}
  BY <1>3, <1>4, <1>5, BeginIs DEF TrashTypes, TrashPc
<1>7. TaskIs(t)' /\ CallFits(t)' /\ trashScene.calls # {"undo"}
  BY <1>2, <1>6 DEF TaskIs, CallFits, Moving, Outward
<1>8. ASSUME Orderly, TrashOrder PROVE InfosFit' BY <1>2, <1>8 DEF TrashOrder, InfosFit
<1> QED BY <1>2, <1>3, <1>6, <1>7, <1>8, StillStep DEF TrashTypes

(* What deletes leave. *)
LEMMA DeletesLeave ==
    ASSUME TrashTypes, NEW t \in TrashTasks, TrashAt(t, "delete"), NEW n \in trashTask[t].todo, n \in TrashNames,
           files' \in [TrashNames -> Items \cup {NoItem}], place' = place,
           \A m \in TrashNames \ {n} : files'[m] = files[m]
    PROVE  LeavesTrashed /\ LeavesItems
<1>1. LeavesTrashed BY DEF LeavesTrashed
<1>2. ASSUME NEW k, HasWhole(k) PROVE HasWhole(k)' \/ Deleting(k)
  BY <1>2 DEF HasWhole, WholeOf, Deleting
<1>3. place' \in [Origins -> Items \cup {NoItem}] BY DEF TrashTypes
<1> QED BY <1>1, <1>2, <1>3, ItemsLeft

(* An item is deleted, before its .trashinfo. *)
LEMMA DeleteOneStep ==
    ASSUME TrashInv, NEW t \in TrashTasks, DeleteOne(t)
    PROVE  TrashGood
<1>1. PICK n \in trashTask[t].todo :
         /\ files' = [files EXCEPT ![n] = NoItem]
         /\ trashTask' = [trashTask EXCEPT ![t].todo = @ \ {n}, ![t].name = n, ![t].pc = "unlist"]
  BY DEF DeleteOne
<1>2. TrashPc(t) = "delete" /\ TrashAt(t, "delete") /\ UNCHANGED <<place, info, held, trashScene>>
  BY DEF DeleteOne, TrashAt, TrashPc
<1>3. TrashTypes BY DEF TrashInv
<1>4. trashTask \in [TrashTasks -> TrashRecords] /\ trashTask[t] \in TrashRecords BY <1>3 DEF TrashTypes
<1>5. n \in TrashNames BY <1>4 DEF TrashRecords
<1> DEFINE todo == trashTask[t].todo \ {n}
<1> DEFINE new == [trashTask[t] EXCEPT !.todo = todo, !.name = n, !.pc = "unlist"]
<1>6. trashTask' = [trashTask EXCEPT ![t] = new] /\ todo \in SUBSET TrashNames
  BY <1>1, <1>4 DEF TrashRecords
<1> HIDE DEF todo
<1>7. /\ new \in TrashRecords /\ new.name = n /\ new.pc = "unlist" /\ new.op = trashTask[t].op
      /\ new.orig = trashTask[t].orig /\ new.from = trashTask[t].from
  BY <1>4, <1>5, <1>6 DEF TrashRecords, TrashPcs
<1> HIDE DEF new
<1>8. trashTask' \in [TrashTasks -> TrashRecords] /\ OnlyCall(t) /\ trashTask'[t] = new
  BY <1>4, <1>6, <1>7 DEF OnlyCall
<1>9. /\ files' \in [TrashNames -> Items \cup {NoItem}]
      /\ \A m \in TrashNames : files'[m] = IF m = n THEN NoItem ELSE files[m]
  BY <1>1, <1>3, <1>5 DEF TrashTypes
<1>10. TaskIs(t)' BY <1>3, <1>5, <1>7, <1>8 DEF TaskIs, TrashPc, Moving, TrashTypes
<1>11. LeavesTrashed /\ LeavesItems BY <1>2, <1>3, <1>5, <1>9, DeletesLeave
<1>12. ASSUME Orderly, TrashOrder
       PROVE  PlacesFit' /\ InfosFit' /\ CallFits(t)' /\ trashScene.calls # {"undo"}
  <2>1. PlacesFit' /\ InfosFit' /\ trashScene.calls # {"undo"}
    BY <1>2, <1>9, <1>12 DEF TrashOrder, PlacesFit, InfosFit, HeldApart
  <2>2. CallFits(t)' BY <1>5, <1>7, <1>8, <1>9, <1>12 DEF TrashOrder, CallFits, TrashPc, Moving
  <2> QED BY <2>1, <2>2
<1> QED BY <1>2, <1>3, <1>8, <1>9, <1>10, <1>11, <1>12, MovingStep DEF TrashTypes

(* An item is not deleted, or in part: its .trashinfo stays. *)
LEMMA DeleteFailsStep ==
    ASSUME TrashInv, NEW t \in TrashTasks, DeleteFails(t)
    PROVE  TrashGood
<1>1. PICK n \in trashTask[t].todo :
         /\ \/ UNCHANGED files
            \/ /\ files[n] # NoItem /\ files[n].folder
               /\ \E ks \in SUBSET Pieces : files' = [files EXCEPT ![n].whole = @ \ ks, ![n].torn = @ \ ks]
         /\ TrashReturn(t) \/ trashTask' = [trashTask EXCEPT ![t].todo = @ \ {n}]
  BY DEF DeleteFails
<1>2. TrashPc(t) = "delete" /\ TrashAt(t, "delete") /\ UNCHANGED <<place, info, held, trashScene>>
  BY DEF DeleteFails, TrashAt, TrashPc
<1>3. TrashTypes BY DEF TrashInv
<1>4. trashTask \in [TrashTasks -> TrashRecords] /\ trashTask[t] \in TrashRecords BY <1>3 DEF TrashTypes
<1>5. n \in TrashNames BY <1>4 DEF TrashRecords
<1>6. /\ trashTask' \in [TrashTasks -> TrashRecords] /\ OnlyCall(t) /\ TrashPc(t)' \in {"idle", "delete"}
      /\ \/ trashTask'[t].op = "none"
         \/ /\ trashTask'[t].op = trashTask[t].op /\ trashTask'[t].from = trashTask[t].from
            /\ trashTask'[t].orig = trashTask[t].orig /\ trashTask'[t].name = trashTask[t].name
  <2>1. CASE TrashReturn(t) BY <1>4, <2>1, ReturnIs
  <2>2. CASE trashTask' = [trashTask EXCEPT ![t].todo = @ \ {n}]
    <3> DEFINE todo == trashTask[t].todo \ {n}
    <3> DEFINE new == [trashTask[t] EXCEPT !.todo = todo]
    <3>1. trashTask' = [trashTask EXCEPT ![t] = new] /\ todo \in SUBSET TrashNames
      BY <1>4, <2>2 DEF TrashRecords
    <3> HIDE DEF todo
    <3>2. /\ new \in TrashRecords /\ new.pc = trashTask[t].pc /\ new.op = trashTask[t].op
          /\ new.from = trashTask[t].from /\ new.orig = trashTask[t].orig /\ new.name = trashTask[t].name
      BY <1>4, <3>1 DEF TrashRecords
    <3> HIDE DEF new
    <3> QED BY <1>2, <1>4, <3>1, <3>2 DEF OnlyCall, TrashPc
  <2> QED BY <1>1, <2>1, <2>2
<1>7. ASSUME files' # files
      PROVE  /\ files[n] \in Items /\ files[n].folder
             /\ \E ks \in SUBSET Pieces : files' = [files EXCEPT ![n] = [files[n] EXCEPT !.whole = @ \ ks, !.torn = @ \ ks]]
  BY <1>1, <1>3, <1>5, <1>7 DEF TrashTypes
<1>8. ASSUME NEW ks \in SUBSET Pieces, files[n] \in Items
      PROVE  LET new == [files[n] EXCEPT !.whole = @ \ ks, !.torn = @ \ ks]
             IN  new \in Items /\ new.id = files[n].id /\ new.link = files[n].link /\ new.folder = files[n].folder
  BY <1>8 DEF Items
<1>9. /\ files' \in [TrashNames -> Items \cup {NoItem}] /\ \A m \in TrashNames \ {n} : files'[m] = files[m]
      /\ \/ files' = files
         \/ /\ files[n] \in Items /\ files'[n].id = files[n].id /\ files'[n].link = files[n].link
            /\ files'[n].folder /\ files[n].folder
  <2>1. CASE files' = files BY <1>3, <2>1 DEF TrashTypes
  <2>2. CASE files' # files
    <3>1. PICK ks \in SUBSET Pieces : files' = [files EXCEPT ![n] = [files[n] EXCEPT !.whole = @ \ ks, !.torn = @ \ ks]]
      BY <1>7, <2>2
    <3> DEFINE new == [files[n] EXCEPT !.whole = @ \ ks, !.torn = @ \ ks]
    <3>2. files' = [files EXCEPT ![n] = new] /\ files[n] \in Items /\ files[n].folder
      BY <1>7, <2>2, <3>1
    <3>3. new \in Items /\ new.id = files[n].id /\ new.link = files[n].link /\ new.folder = files[n].folder
      BY <1>8, <3>2
    <3> HIDE DEF new
    <3> QED BY <1>3, <1>5, <3>2, <3>3 DEF TrashTypes
  <2> QED BY <2>1, <2>2
<1>10. TaskIs(t)' BY <1>3, <1>6 DEF TaskIs, Moving, TrashTypes
<1>11. LeavesTrashed /\ LeavesItems BY <1>2, <1>3, <1>5, <1>9, DeletesLeave
<1>12. ASSUME Orderly, TrashOrder
       PROVE  PlacesFit' /\ InfosFit' /\ CallFits(t)' /\ trashScene.calls # {"undo"}
  <2>1. PlacesFit' /\ trashScene.calls # {"undo"} BY <1>2, <1>12 DEF TrashOrder, PlacesFit, HeldApart
  <2>2. InfosFit'
    <3>1. NoItem \notin Items BY TrashAssumption DEF TrashAssumption
    <3> QED BY <1>2, <1>5, <1>9, <1>12, <3>1 DEF TrashOrder, InfosFit, Fits, Single
  <2>3. CallFits(t)' BY <1>6, <1>12 DEF TrashOrder, CallFits, Moving
  <2> QED BY <2>1, <2>2, <2>3
<1> QED BY <1>2, <1>3, <1>6, <1>9, <1>10, <1>11, <1>12, MovingStep DEF TrashTypes

(* A crash: no call is at work any more, and the undo stack is gone. *)
LEMMA CrashStep ==
    ASSUME TrashInv, Crash
    PROVE  TrashGood
<1>1. /\ trashScene.crashes > 0 /\ trashScene' = [trashScene EXCEPT !.crashes = @ - 1]
      /\ trashTask' = [t \in TrashTasks |-> TrashIdle] /\ held' = <<>>
      /\ UNCHANGED <<place, files, info>>
  BY DEF Crash
<1>2. TrashTypes BY DEF TrashInv
<1>3. trashScene' \in TrashSceneSet /\ trashScene'.running = trashScene.running /\ trashScene'.calls = trashScene.calls
  BY <1>1, <1>2 DEF TrashTypes, TrashSceneSet
<1>4. \A t \in TrashTasks : TrashPc(t)' = "idle" /\ trashTask'[t].todo = {} /\ trashTask'[t].op = "none"
  BY <1>1, IdleIs DEF TrashPc
<1>5. \A t \in TrashTasks : TaskIs(t)' /\ CallFits(t)' /\ HeldApart(t)'
  BY <1>4 DEF TaskIs, CallFits, HeldApart, Moving, Outward
<1>6. trashTask' \in [TrashTasks -> TrashRecords] /\ held' \in Seq(HeldEntries) BY <1>1, IdleIs
<1>7. TrashTypes' BY <1>1, <1>2, <1>3, <1>5, <1>6 DEF TrashTypes
<1>8. HeldFits' /\ OneCall' BY <1>1, <1>4 DEF HeldFits, OneCall
<1>9. TrashOrder => TrashOrder' BY <1>1, <1>5, <1>8 DEF TrashOrder, PlacesFit, InfosFit
<1>10. Orderly' <=> Orderly BY <1>3, OrderlyStays
<1> QED BY <1>1, <1>7, <1>9, <1>10, NothingMoves DEF TrashGood, TrashInv

(* The trash at first. *)
LEMMA TrashStarts == TrashInit => TrashInv
<1> SUFFICES ASSUME TrashInit PROVE TrashInv OBVIOUS
<1>1. /\ place = FirstItems /\ files = [n \in TrashNames |-> NoItem] /\ info = [n \in TrashNames |-> NoItem]
      /\ trashTask = [t \in TrashTasks |-> TrashIdle] /\ held = <<>> /\ trashScene \in TrashScenes
  BY DEF TrashInit
<1>2. \A t \in TrashTasks : TrashPc(t) = "idle" /\ trashTask[t].todo = {} /\ trashTask[t].op = "none"
  BY <1>1, IdleIs DEF TrashPc
<1>3. \A t \in TrashTasks : TaskIs(t) /\ CallFits(t) /\ HeldApart(t)
  BY <1>2 DEF TaskIs, CallFits, HeldApart, Moving, Outward
<1>4. trashScene \in TrashSceneSet /\ place \in [Origins -> Items \cup {NoItem}]
  BY <1>1, TrashAssumption DEF TrashAssumption, TrashSceneSet
<1>5. trashTask \in [TrashTasks -> TrashRecords] /\ held \in Seq(HeldEntries) BY <1>1, IdleIs
<1>6. /\ files \in [TrashNames -> Items \cup {NoItem}] /\ info \in [TrashNames -> Origins \cup {NoItem}]
      /\ \A n \in TrashNames : files[n] = NoItem
  BY <1>1
<1>7. TrashTypes BY <1>3, <1>4, <1>5, <1>6 DEF TrashTypes
<1>8. OneCall /\ InfosFit /\ HeldFits BY <1>1, <1>2, <1>6 DEF OneCall, InfosFit, HeldFits
<1>9. ASSUME Orderly PROVE PlacesFit
  <2> SUFFICES ASSUME NEW p \in Origins, FirstItems[p] # NoItem PROVE Fits(FirstItems[p], p)
    BY <1>1 DEF PlacesFit
  <2>1. FirstItems[p].id = p /\ FirstItems[p].link = NoItem BY <1>9 DEF Orderly
  <2>2. ~FirstItems[p].folder => \E k \in Pieces : FirstItems[p].whole = {k} /\ FirstItems[p].torn = {}
    BY <2>1, TrashAssumption DEF TrashAssumption
  <2> QED BY <2>1, <2>2 DEF Fits, Single, InIt
<1> QED BY <1>3, <1>7, <1>8, <1>9 DEF TrashInv, TrashOrder

(* One step of the trash. *)
LEMMA TrashSteps == TrashInv /\ [TrashNext]_trashVars => TrashGood
<1> SUFFICES ASSUME TrashInv, [TrashNext]_trashVars PROVE TrashGood OBVIOUS
<1>1. ASSUME NEW t \in TrashTasks, TrashTaskStep(t) PROVE TrashGood
  BY <1>1, BeginTrashStep, PickNameStep, WriteInfoStep, MoveWholeStep, MoveFailsStep, OpenFolderStep,
    CopyFileStep, RemoveFileStep, RemoveEmptiedStep, TransferFailsStep, BeginUndoStep,
    BeginRestoreByNameStep, UnlistStep, BeginDeleteStep, DeleteOneStep, DeleteFailsStep DEF
    TrashTaskStep
<1>2. CASE UNCHANGED trashVars
  <2>1. UNCHANGED <<place, files, info, trashTask, held, trashScene>> BY <1>2 DEF trashVars
  <2>2. TrashTypes' BY <2>1 DEF TrashInv, TrashTypes, TaskIs, TrashPc
  <2>3. Orderly' <=> Orderly BY <2>1 DEF Orderly
  <2>4. TrashOrder => TrashOrder'
    BY <2>1 DEF TrashOrder, OneCall, PlacesFit, InfosFit, CallFits, HeldFits, HeldApart, TrashPc,
      SourceItem, TargetItem, Outward, NameOf
  <2> QED BY <2>1, <2>2, <2>3, <2>4, NothingMoves DEF TrashGood, TrashInv
<1> QED BY <1>1, <1>2, CrashStep DEF TrashNext

(* TrashInv, always. *)
LEMMA TrashAlways == TrashSpec => []TrashInv
<1>1. TrashInv /\ [TrashNext]_trashVars => TrashInv' BY TrashSteps DEF TrashGood
<1> QED BY <1>1, TrashStarts, PTL DEF TrashSpec

(* trash writes the .trashinfo before it moves the file, restore and delete remove it after
   (trash.rs:40): of whichever files are trashed, under however many names, whichever
   filesystem calls fail and whenever the program dies, what lies in the trash is listed under
   the path it came from. *)
THEOREM ItemsAlwaysListed == TrashSpec => []EachItemIsListed
<1>1. TrashInv => EachItemIsListed
  <2> SUFFICES ASSUME TrashInv PROVE EachItemIsListed OBVIOUS
  <2>1. TrashTypes BY DEF TrashInv
  <2>2. TrashTypeOK BY <2>1 DEF TrashTypes, TrashTypeOK, TrashRecords, TrashPcs
  <2>3. ASSUME Orderly, NEW n \in TrashNames, files[n] # NoItem PROVE n \in Listed /\ info[n] = files[n].id
    <3>1. info[n] = files[n].id /\ files[n] \in Items
      BY <2>1, <2>3 DEF TrashInv, TrashOrder, InfosFit, TrashTypes, Fits
    <3>2. files[n].id \in Origins BY <3>1 DEF Items
    <3> QED BY <3>1, <3>2, TrashAssumption DEF Listed, TrashAssumption
  <2> QED BY <2>2, <2>3 DEF EachItemIsListed
<1> QED BY <1>1, TrashAlways, PTL

(* What lies in the trash under a name stays there until it is restored or deleted, and of
   every file, of a folder too, a whole copy is somewhere until it is deleted or restored over,
   whichever call fails and whenever the program dies (trash.rs:261, cross_device_move). *)
THEOREM TrashAlwaysKeeps == TrashSpec => TrashKeepsItems
<1>1. TrashInv /\ [TrashNext]_trashVars => (Orderly => LeavesTrashed /\ LeavesItems)
  BY TrashSteps DEF TrashGood
<1>2. TrashSpec => [][Orderly => LeavesTrashed /\ LeavesItems]_trashVars
  BY <1>1, TrashAlways, PTL DEF TrashSpec
<1>3. (Orderly => LeavesTrashed /\ LeavesItems) =>
      /\ (Orderly => \A n \in TrashNames : files[n] # NoItem =>
          \/ files'[n] # NoItem /\ files[n].whole \subseteq files'[n].whole
          \/ \E t \in TrashTasks : Outward(t) /\ NameOf(t) = n
          \/ \E t \in TrashTasks : TrashAt(t, "delete") /\ n \in trashTask[t].todo)
      /\ (Orderly => \A k \in WholeIn(place) \cup WholeIn(files) :
          k \in WholeIn(place)' \cup WholeIn(files)' \/ Deleting(k) \/ RestoredOver(k))
  BY DEF LeavesTrashed, LeavesItems
<1> QED BY <1>2, <1>3, PTL DEF TrashKeepsItems, TrashedIsKept, NothingVanishes
===============================================================================
