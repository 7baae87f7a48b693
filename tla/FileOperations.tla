---------------------------- MODULE FileOperations ----------------------------
(***************************************************************************)
(* What raven-ops does to the files: OperationExecutor's copy, move,     *)
(* rename, trash, delete and create, item by item, and UndoStack, which  *)
(* records what finished operations made and takes it back.              *)
(*                                                                       *)
(* Every operation, and an undo, is a task of its own.  One step is what *)
(* runs between two awaits that matter: settling an item's conflict,     *)
(* withdrawing older undo records, writing the item, deleting a moved    *)
(* source, pushing the record; checking and renaming are two steps of    *)
(* undo_move.  A tree is copied or renamed in one step.                  *)
(*                                                                       *)
(* A file's content is told apart by who wrote it there (`by`: an        *)
(* operation, 0 for what was there at first) and by the file it descends *)
(* from (`of`); renaming a file keeps its content, copying it makes new  *)
(* content.                                                              *)
(***************************************************************************)
EXTENDS Naturals, Sequences, FiniteSets, SequencesExt

CONSTANTS
    Paths,            \* the paths there may be: non-empty sequences of names; a longer one is
                      \* too long for the file system
    Roots,            \* folders (one per device) that always exist
    FirstDirs,        \* folders and
    FirstFiles,       \* files that exist at first
    Unique,           \* Unique[p]: what generate_unique_name tries next to p, p if no more
                      \* names are tried
    MaxOps,           \* bound on operations asked for
    MaxUndo,          \* max_records of the undo stack
    Scenes            \* what filesystems there may be, and users of them

Above(p) == {q \in Paths : IsStrictPrefix(q, p)}
Name(p)  == Last(p)
Parent(p) == Front(p)

Transfers == {"Copy", "Move"}
Removals  == {"Trash", "Delete"}

(* What may be asked for: of paths that are there to be named. *)
IsRequest(r) ==
    /\ r.kind \in Transfers \cup Removals \cup {"Rename", "CreateDirectory", "CreateFile"}
    /\ r.sources \in Seq(Paths) /\ (r.kind = "Rename" => r.sources # <<>>)
    /\ IF r.kind \in Removals THEN r.dest = <<>> ELSE r.dest \in Paths
    /\ r.kind \in Transfers =>
          \A i \in 1..Len(r.sources) :
              LET to == Append(r.dest, Name(r.sources[i])) IN
              IsStrictPrefix(r.sources[i], to) \/ to \in Paths

ASSUME FilesAssumption ==
    /\ \A p \in Paths : p \in Seq(STRING) /\ p # <<>> /\ \A n \in 1..Len(p) : SubSeq(p, 1, n) \in Paths
    /\ Roots \subseteq Paths /\ FirstDirs \subseteq Paths /\ FirstFiles \subseteq Paths
    /\ FirstFiles \cap (Roots \cup FirstDirs) = {}
    /\ \A p \in FirstDirs \cup FirstFiles \cup Roots : Above(p) \subseteq Roots \cup FirstDirs
    /\ Unique \in [Paths -> Paths] /\ \A p \in Paths : Parent(Unique[p]) = Parent(p)
    /\ MaxOps \in Nat /\ MaxUndo \in Nat \ {0}
    /\ \A s \in Scenes : /\ s.ops \in 0..MaxOps /\ s.running \in Nat \ {0}
                        /\ s.replaces \in BOOLEAN /\ s.devices \in BOOLEAN
                        /\ \A r \in s.requests : IsRequest(r)

VARIABLES
    fs,        \* fs[p]: what is at path p
    trash,     \* items in the trash, by operation and item
    task,      \* task[o]: operation o's request and progress
    records,   \* the undo stack, oldest first
    undo,      \* the undo at work: its record and progress
    stray,     \* history: contents no undoable record accounts for
    merged,    \* history: <<p, content>> for what was put at p over something
    lost,      \* history: contents destroyed though nobody asked for it
    scene,     \* requests, what the user may ask for ([kind, sources, dest]), ops, how
               \* often, and running, how many tasks are at work together; replaces: renaming
               \* onto a file replaces it (local) or fails (SFTP, SMB); devices: renames work
               \* only within one root
    mark       \* history: the operation begun last, unless it was told to
               \* replace something, and the files there when it began

filesVars == <<fs, trash, task, records, undo, stray, merged, lost, mark, scene>>

OpIds == 1..MaxOps
NoMark == [op |-> 0, files |-> {}]

Absent      == [kind |-> "none", by |-> 0, of |-> <<>>]
Dir         == [kind |-> "dir", by |-> 0, of |-> <<>>]
File(o, p)  == [kind |-> "file", by |-> o, of |-> p]

IdleTask == [kind |-> "none", sources |-> <<>>, dest |-> <<>>, pc |-> "new",
             idx |-> 1, target |-> <<>>, replaces |-> FALSE, made |-> <<>>]
IdleUndo == [pc |-> "idle", op |-> 0, kind |-> "none", pairs |-> <<>>, idx |-> 1,
             blocked |-> FALSE]

Init ==
    /\ fs = [p \in Paths |-> IF p \in Roots \cup FirstDirs THEN Dir
                             ELSE IF p \in FirstFiles THEN File(0, p) ELSE Absent]
    /\ trash = <<>>
    /\ task = [o \in OpIds |-> IdleTask]
    /\ records = <<>> /\ undo = IdleUndo
    /\ stray = {} /\ merged = {} /\ lost = {} /\ mark = NoMark /\ scene \in Scenes

-------------------------------------------------------------------------------
(* Trees. *)

Under(p)     == {q \in Paths : IsPrefix(p, q)}
Rebase(q, a, b) == b \o SubSeq(q, Len(a) + 1, Len(q))
Is(f, p, kind)  == f[p].kind = kind
Present(f, p)   == ~Is(f, p, "none")
FilesIn(f, ps)  == {q \in ps : Is(f, q, "file")}
ContentsIn(f, ps) == {f[q] : q \in FilesIn(f, ps)}
Contents == ContentsIn(fs, Paths)
                \cup UNION {ContentsIn(trash[k].tree, DOMAIN trash[k].tree) : k \in DOMAIN trash}
Map(f) == {<<q, f[q].of>> : q \in FilesIn(f, Paths)}
Overlap(p, q) == IsPrefix(p, q) \/ IsPrefix(q, p)

(* Mutant of Blocked: names taken meanwhile are not noticed. *)
BlockedNotExclusive(src, dst, replaces) ==
    {s \in Under(src) :
        LET t == Rebase(s, src, dst) IN
        \/ t \notin Paths
        \/ Is(fs, s, "dir") /\ Is(fs, t, "file")
        \/ Is(fs, s, "file") /\ Is(fs, t, "dir")}

(* Where copying `src` to `dst` cannot go on: a folder meets a file, or a file meets a folder
   or, unless replacing was agreed to, another file; or a path gets too long. *)
Blocked(src, dst, replaces) ==
    {s \in Under(src) :
        LET t == Rebase(s, src, dst) IN
        \/ t \notin Paths
        \/ Is(fs, s, "dir") /\ Is(fs, t, "file")
        \/ Is(fs, s, "file") /\ (Is(fs, t, "dir") \/ (Is(fs, t, "file") /\ ~replaces))
        \/ \E a \in Above(t) : Is(fs, a, "file")}

(* A copy is new content; a move takes the content along, copied or not. *)
CopyOf(c, o) == IF task[o].kind = "Move" THEN c ELSE File(o, c.of)

(* The tree after `some` of `src` was copied to `dst` by operation o, the folders on the way
   created. *)
Copied(src, dst, some, o) ==
    LET made == {Rebase(s, src, dst) : s \in some}
        dirs == made \cup UNION {Above(t) : t \in made}
    IN  [q \in Paths |->
            IF q \in made /\ Is(fs, Rebase(q, dst, src), "file")
            THEN CopyOf(fs[Rebase(q, dst, src)], o)
            ELSE IF q \in dirs /\ ~Present(fs, q) THEN Dir ELSE fs[q]]

(* Mutant of CopyOutcomes: a copy that got only half way reports success. *)
CopyOutcomesHalf(src, dst, replaces, o) ==
    LET items == {s \in Under(src) : Present(fs, s)}
        stop  == Blocked(src, dst, replaces)
    IN  {[ok |-> TRUE, fs |-> Copied(src, dst, some, o)] : some \in SUBSET (items \ stop)}

(* What copy_item may leave behind. It fails half way when something is blocked, gone, or an
   I/O error strikes, keeping what it copied so far. *)
CopyOutcomes(src, dst, replaces, o) ==
    LET items == {s \in Under(src) : Present(fs, s)}
        stop  == Blocked(src, dst, replaces)
    IN  {[ok |-> FALSE, fs |-> Copied(src, dst, some, o)] : some \in SUBSET (items \ stop)}
        \cup IF Present(fs, src) /\ items \cap stop = {}
             THEN {[ok |-> TRUE, fs |-> Copied(src, dst, items, o)]} ELSE {}

HasParent(t) == Parent(t) \in Paths /\ Is(fs, Parent(t), "dir")

CanRename(s, t) ==
    /\ Present(fs, s) /\ HasParent(t) /\ ~IsStrictPrefix(s, t)
    /\ \A q \in Under(s) : Present(fs, q) => Rebase(q, s, t) \in Paths
    /\ scene.devices => s[1] = t[1]
    /\ \/ s = t \/ ~Present(fs, t)
       \/ /\ scene.replaces /\ fs[s].kind = fs[t].kind
          /\ \A q \in Under(t) \ {t} : ~Present(fs, q)

Renamed(s, t) ==
    [q \in Paths |->
        IF q \in Under(t) THEN (IF Rebase(q, t, s) \in Paths THEN fs[Rebase(q, t, s)] ELSE Absent)
        ELSE IF q \in Under(s) THEN Absent ELSE fs[q]]

(* Every destroying step names what it may destroy; the rest is lost. *)
Destroys(permitted) ==
    lost' = lost \cup ((Contents \ Contents') \ permitted)

-------------------------------------------------------------------------------
(* The undo stack. *)

Results(r) == {r.pairs[i].to : i \in 1..Len(r.pairs)}

(* What lies at the results of a record that is no longer offered. *)
Unaccounted(f, r) ==
    IF r.kind \in Transfers
    THEN UNION {ContentsIn(f, Under(p)) : p \in Results(r)} ELSE {}

(* Mutant of Touches: only the very same path counts. *)
TouchesExactly(r, path) ==
    /\ r.undoable /\ r.kind \in Transfers
    /\ \E p \in Results(r) : p = path

Touches(r, path) ==
    /\ r.undoable /\ r.kind \in Transfers
    /\ \E p \in Results(r) : Overlap(p, path)

(* invalidate_touching, before something is written over `path`. *)
InvalidateTouching(path) ==
    /\ records' = [i \in 1..Len(records) |->
                      [records[i] EXCEPT !.undoable = @ /\ ~Touches(records[i], path)]]
    /\ stray' = stray \cup UNION {Unaccounted(fs, records[i]) :
                                     i \in {j \in 1..Len(records) : Touches(records[j], path)}}

(* push: append, then drop the oldest over the limit. *)
Push(r) ==
    LET all == Append(records, r) IN
    IF Len(all) <= MaxUndo
    THEN records' = all /\ stray' = stray
    ELSE records' = Tail(all) /\ stray' = stray \cup Unaccounted(fs, Head(all))

Undoable == {i \in 1..Len(records) : records[i].undoable}

-------------------------------------------------------------------------------
(* The operations. *)

Running == {o \in OpIds : task[o].pc \notin {"new", "over"}}
Busy    == Cardinality(Running) + (IF undo.pc = "idle" THEN 0 ELSE 1)

Request(o, r) ==
    /\ task[o].pc = "new" /\ o <= scene.ops /\ Busy < scene.running
    /\ \A other \in 1..(o - 1) : task[other].pc # "new"
    /\ task' = [task EXCEPT ![o] =
                   [IdleTask EXCEPT !.kind = r.kind, !.sources = r.sources,
                                    !.dest = r.dest, !.pc = "item"]]
    /\ mark' = [op |-> o, files |-> Map(fs)]
    /\ UNCHANGED <<fs, trash, records, undo, stray, merged, lost, scene>>

At(o, pc)    == task[o].pc = pc
Kind(o)      == task[o].kind
Source(o)    == task[o].sources[task[o].idx]
HasSource(o) == task[o].idx <= Len(task[o].sources)
DestPath(o)  == Append(task[o].dest, Name(Source(o)))

Goto(o, pc)  == task' = [task EXCEPT ![o].pc = pc]
NextItem(o, made) ==
    task' = [task EXCEPT ![o].pc = "item", ![o].idx = @ + 1, ![o].made = @ \o made]

(* The operation returns early (cancelled, or an item failed): nothing of what it made is
   recorded. `extra`: contents the failing item left. *)
GiveUp(o, extra) ==
    /\ Goto(o, "over")
    /\ stray' = stray \cup extra
                  \cup (IF Kind(o) \in Transfers
                        THEN UNION {ContentsIn(fs, Under(task[o].made[i].to)) :
                                       i \in 1..Len(task[o].made)}
                        ELSE {})

(* checkpoint (or the loop of delete and trash) sees a cancellation. *)
Cancel(o) ==
    /\ At(o, "item") /\ HasSource(o) /\ Kind(o) # "Rename"
    /\ GiveUp(o, {})
    /\ UNCHANGED <<fs, trash, records, undo, merged, lost, mark, scene>>

(* Where a copied or moved item may go: [target, replaces] for what the user or the configured
   strategy chose; none if it is skipped. *)
Targets(o) ==
    IF Kind(o) = "Copy" /\ Source(o) = DestPath(o)
    THEN {[path |-> q, replaces |-> FALSE] :
             q \in {u \in {Unique[DestPath(o)]} : ~Present(fs, u)}}
    ELSE IF ~Present(fs, DestPath(o))
    THEN {[path |-> DestPath(o), replaces |-> FALSE]}
    ELSE {[path |-> DestPath(o), replaces |-> TRUE]}
         \cup {[path |-> q, replaces |-> FALSE] :
                  q \in {u \in {Unique[DestPath(o)]} : ~Present(fs, u)}}

Settle(o) ==
    /\ At(o, "item") /\ HasSource(o) /\ Kind(o) \in Transfers
    /\ ~IsStrictPrefix(Source(o), DestPath(o))
    /\ ~(Kind(o) = "Move" /\ Source(o) = DestPath(o))
    /\ \E t \in Targets(o) :
          task' = [task EXCEPT ![o].pc = IF t.replaces THEN "replace" ELSE "write",
                               ![o].target = t.path, ![o].replaces = t.replaces]
    /\ UNCHANGED <<fs, trash, records, undo, stray, merged, lost, mark, scene>>

(* The item is in place already, or its conflict was answered with Skip. *)
SkipItem(o) ==
    /\ At(o, "item") /\ HasSource(o) /\ Kind(o) \in Transfers
    /\ ~IsStrictPrefix(Source(o), DestPath(o))
    /\ IF Source(o) = DestPath(o) THEN Kind(o) = "Move" ELSE Present(fs, DestPath(o))
    /\ NextItem(o, <<>>)
    /\ UNCHANGED <<fs, trash, records, undo, stray, merged, lost, mark, scene>>

(* refuse_into_itself, or generate_unique_name out of names to try. *)
Refuse(o) ==
    /\ At(o, "item") /\ HasSource(o) /\ Kind(o) \in Transfers
    /\ \/ IsStrictPrefix(Source(o), DestPath(o))
       \/ /\ DestPath(o) \in Paths
          /\ Present(fs, DestPath(o)) /\ Present(fs, Unique[DestPath(o)])
    /\ GiveUp(o, {})
    /\ UNCHANGED <<fs, trash, records, undo, merged, lost, mark, scene>>

(* Replacing was agreed to: earlier results about to be overwritten are no longer offered for
   undo. *)
Withdraw(o) ==
    /\ At(o, "replace")
    /\ InvalidateTouching(task[o].target)
    /\ Goto(o, "write")
    /\ mark' = NoMark
    /\ UNCHANGED <<fs, trash, undo, merged, lost, scene>>

Made(o) == IF task[o].replaces THEN <<>>
           ELSE <<[from |-> Source(o), to |-> task[o].target]>>

(* What a replacing write may destroy: what lies at the target. *)
Agreed(o) == IF task[o].replaces THEN ContentsIn(fs, Under(task[o].target)) ELSE {}

(* Where a replacing write put something under its target. *)
Overwrites(o) ==
    IF task[o].replaces
    THEN {q \in FilesIn(fs', Under(task[o].target)) : fs'[q] # fs[q]} ELSE {}
Written(o) == {fs'[q] : q \in Overwrites(o)}

(* copy_item, with everything it may leave behind when it fails. *)
CopyItem(o, onSuccess) ==
    \E out \in CopyOutcomes(Source(o), task[o].target, task[o].replaces, o) :
        /\ fs' = out.fs
        /\ merged' = merged \cup {<<q, fs'[q]>> : q \in Overwrites(o)}
        /\ IF out.ok
           THEN /\ IF onSuccess = "delete" THEN Goto(o, "delete") ELSE NextItem(o, Made(o))
                /\ stray' = stray \cup Written(o)
           ELSE GiveUp(o, ContentsIn(fs', Paths) \ ContentsIn(fs, Paths))
        /\ UNCHANGED <<trash, records, undo, mark, scene>>
        /\ Destroys(Agreed(o))

CopyWrite(o) == At(o, "write") /\ Kind(o) = "Copy" /\ CopyItem(o, "next")

(* move_item: rename when that works. *)
MoveByRename(o) ==
    /\ At(o, "write") /\ Kind(o) = "Move"
    /\ CanRename(Source(o), task[o].target)
    /\ fs' = Renamed(Source(o), task[o].target)
    /\ NextItem(o, Made(o))
    /\ merged' = merged \cup {<<q, fs'[q]>> : q \in Overwrites(o)}
    /\ stray' = stray \cup Written(o)
    /\ UNCHANGED <<trash, records, undo, mark, scene>>
    /\ Destroys(Agreed(o))

(* The fallback goes on only if nothing unagreed is in the way and the source is there. *)
MoveMayCopy(o) ==
    /\ task[o].replaces \/ ~Present(fs, task[o].target)
    /\ Present(fs, Source(o))

MoveByCopy(o) ==
    /\ At(o, "write") /\ Kind(o) = "Move"
    /\ ~CanRename(Source(o), task[o].target)
    /\ IF MoveMayCopy(o) THEN CopyItem(o, "delete")
       ELSE GiveUp(o, {}) /\ UNCHANGED <<fs, trash, records, undo, merged, lost, mark, scene>>

(* ... and the source is deleted once the copy is complete. *)
DeleteMoved(o) ==
    /\ At(o, "delete")
    /\ IF Present(fs, task[o].target) /\ Present(fs, Source(o))
       THEN /\ fs' = [q \in Paths |-> IF q \in Under(Source(o)) THEN Absent ELSE fs[q]]
            /\ NextItem(o, Made(o))
            /\ UNCHANGED <<trash, records, undo, stray, merged, mark, scene>>
            /\ Destroys({})
       ELSE /\ GiveUp(o, ContentsIn(fs, Under(task[o].target)))
            /\ UNCHANGED <<fs, trash, records, undo, merged, lost, mark, scene>>

DeleteItem(o) ==
    /\ At(o, "item") /\ HasSource(o) /\ Kind(o) = "Delete"
    /\ IF Present(fs, Source(o))
       THEN /\ fs' = [q \in Paths |-> IF q \in Under(Source(o)) THEN Absent ELSE fs[q]]
            /\ NextItem(o, <<>>)
            /\ UNCHANGED stray
       ELSE GiveUp(o, {}) /\ UNCHANGED fs
    /\ UNCHANGED <<trash, records, undo, merged, mark, scene>>
    /\ Destroys(ContentsIn(fs, Under(Source(o))))

(* One item to the trash, under a name of its own (TrashFs has the rest). *)
TrashItem(o) ==
    /\ At(o, "item") /\ HasSource(o) /\ Kind(o) = "Trash"
    /\ IF Present(fs, Source(o))
       THEN LET key == <<o, task[o].idx>>
                tree == [q \in Under(Source(o)) |-> fs[q]]
            IN  /\ trash' = [k \in DOMAIN trash \cup {key} |->
                                IF k = key THEN [path |-> Source(o), tree |-> tree]
                                ELSE trash[k]]
                /\ fs' = [q \in Paths |-> IF q \in Under(Source(o)) THEN Absent ELSE fs[q]]
                /\ NextItem(o, <<[from |-> Source(o), to |-> key]>>)
                /\ UNCHANGED stray
       ELSE GiveUp(o, {}) /\ UNCHANGED <<fs, trash>>
    /\ UNCHANGED <<records, undo, merged, lost, mark, scene>>

NameIsFree(s, t) == s = t \/ ~Present(fs, t)

(* execute_rename: refused when the new name is taken. *)
RenameItem(o) ==
    /\ At(o, "item") /\ Kind(o) = "Rename"
    /\ LET s == task[o].sources[1] t == task[o].dest IN
       IF NameIsFree(s, t) /\ CanRename(s, t)
       THEN /\ fs' = Renamed(s, t)
            /\ task' = [task EXCEPT ![o].pc = "record", ![o].made = <<[from |-> s, to |-> t]>>]
            /\ UNCHANGED stray
       ELSE GiveUp(o, {}) /\ UNCHANGED fs
    /\ UNCHANGED <<trash, records, undo, merged, mark, scene>>
    /\ Destroys({})

(* execute_create_dir and execute_create_file; a file of that name is truncated, and neither
   leaves a record. *)
Create(o) ==
    /\ At(o, "item") /\ Kind(o) \in {"CreateDirectory", "CreateFile"}
    /\ LET p == task[o].dest
           new == IF Kind(o) = "CreateFile" THEN File(o, p) ELSE Dir
           clear == IF Kind(o) = "CreateFile"
                    THEN HasParent(p) /\ ~Is(fs, p, "dir")
                    ELSE ~Is(fs, p, "file") /\ ~\E a \in Above(p) : Is(fs, a, "file")
       IN  /\ fs' = IF ~clear THEN fs
                    ELSE [q \in Paths |->
                             IF q = p THEN new
                             ELSE IF q \in Above(p) /\ ~Present(fs, q) THEN Dir ELSE fs[q]]
           /\ stray' = IF clear THEN stray \cup ({new} \ {Dir}) ELSE stray
           /\ UNCHANGED trash
           /\ Destroys(ContentsIn(fs, {p}))
    /\ Goto(o, "over")
    /\ UNCHANGED <<records, undo, merged, mark, scene>>

(* The loop is through: record what the operation made, exactly. *)
LoopDone(o) ==
    \/ At(o, "record")
    \/ At(o, "item") /\ ~HasSource(o) /\ Kind(o) \in {"Copy", "Move", "Delete", "Trash"}

RecordKind(o) == IF Kind(o) = "Rename" THEN "Move" ELSE Kind(o)

Record(o) ==
    /\ LoopDone(o)
    /\ IF RecordKind(o) \in Transfers /\ task[o].made = <<>>
       THEN UNCHANGED <<records, stray>>
       ELSE Push([op |-> o, kind |-> RecordKind(o), pairs |-> task[o].made,
                  undoable |-> RecordKind(o) # "Delete"])
    /\ Goto(o, "over")
    /\ UNCHANGED <<fs, trash, undo, merged, lost, mark, scene>>

-------------------------------------------------------------------------------
(* Undo: pop the newest record that is offered and take it back, pair by pair. The record is
   gone whatever comes of it. *)

UndoPop ==
    /\ undo.pc = "idle" /\ Busy < scene.running /\ Undoable # {}
    /\ LET i == CHOOSE j \in Undoable : \A k \in Undoable : k <= j IN
       /\ records' = RemoveAt(records, i)
       /\ undo' = [pc |-> "pair", op |-> records[i].op, kind |-> records[i].kind,
                   pairs |-> records[i].pairs, idx |-> 1, blocked |-> FALSE]
    /\ UNCHANGED <<fs, trash, task, stray, merged, lost, mark, scene>>

HasPair == undo.pc = "pair" /\ undo.idx <= Len(undo.pairs)
From == undo.pairs[undo.idx].from
To   == undo.pairs[undo.idx].to
NextPair == undo' = [undo EXCEPT !.pc = "pair", !.idx = @ + 1]

(* What the pairs not yet taken back leave without a record. *)
LeftOver == UNION {ContentsIn(fs, Under(undo.pairs[i].to)) : i \in undo.idx..Len(undo.pairs)}

UndoCopy ==
    /\ HasPair /\ undo.kind = "Copy"
    /\ fs' = [q \in Paths |-> IF q \in Under(To) THEN Absent ELSE fs[q]]
    /\ NextPair
    /\ UNCHANGED <<trash, task, records, stray, merged, mark, scene>>
    /\ Destroys({fs[q] : q \in {p \in FilesIn(fs, Under(To)) :
                    fs[p].by = undo.op \/ (fs[p] \in stray /\ <<p, fs[p]>> \notin merged)}})

(* undo_move, the look. The item may be gone, ... *)
UndoMoveGone ==
    /\ HasPair /\ undo.kind = "Move" /\ ~Present(fs, To)
    /\ NextPair
    /\ UNCHANGED <<fs, trash, task, records, stray, merged, lost, mark, scene>>

InTheWay == Present(fs, From) /\ From # To

(* ... something may be in its way, ... *)
UndoMoveBlocked ==
    /\ HasPair /\ undo.kind = "Move" /\ Present(fs, To) /\ InTheWay
    /\ undo' = [undo EXCEPT !.idx = @ + 1, !.blocked = TRUE]
    /\ stray' = stray \cup ContentsIn(fs, Under(To))
    /\ UNCHANGED <<fs, trash, task, records, merged, lost, mark, scene>>

(* ... or the way is clear; the parent is created (a failure ends it). *)
UndoMoveClear ==
    /\ HasPair /\ undo.kind = "Move" /\ Present(fs, To) /\ ~InTheWay
    /\ IF \E a \in Above(From) : Is(fs, a, "file")
       THEN undo' = IdleUndo /\ stray' = stray \cup LeftOver /\ UNCHANGED fs
       ELSE /\ undo' = [undo EXCEPT !.pc = "rename"]
            /\ fs' = [q \in Paths |-> IF q \in Above(From) /\ ~Present(fs, q) THEN Dir ELSE fs[q]]
            /\ UNCHANGED stray
    /\ UNCHANGED <<trash, task, records, merged, lost, mark, scene>>

(* undo_move, the rename; a failure ends the undo. *)
UndoMoveRename ==
    /\ undo.pc = "rename"
    /\ IF CanRename(To, From)
       THEN fs' = Renamed(To, From) /\ NextPair /\ UNCHANGED stray
       ELSE /\ undo' = IdleUndo /\ stray' = stray \cup LeftOver
            /\ UNCHANGED fs
    /\ UNCHANGED <<trash, task, records, merged, mark, scene>>
    /\ Destroys({})

(* undo_trash: restore renames onto the original path; a failure ends it. *)
UndoTrash ==
    /\ HasPair /\ undo.kind = "Trash"
    /\ LET fits == /\ To \in DOMAIN trash
                   /\ ~\E a \in Above(From) : Is(fs, a, "file")
                   /\ \/ ~Present(fs, From)
                      \/ /\ fs[From].kind = trash[To].tree[From].kind
                         /\ \A q \in Under(From) \ {From} : ~Present(fs, q)
       IN  IF fits
           THEN /\ fs' = [q \in Paths |->
                             IF q \in Under(From) THEN trash[To].tree[q]
                             ELSE IF q \in Above(From) /\ ~Present(fs, q) THEN Dir ELSE fs[q]]
                /\ trash' = [k \in DOMAIN trash \ {To} |-> trash[k]]
                /\ NextPair
           ELSE undo' = IdleUndo /\ UNCHANGED <<fs, trash>>
    /\ UNCHANGED <<task, records, stray, merged, mark, scene>>
    /\ Destroys(stray)

UndoDone ==
    /\ undo.pc = "pair" /\ undo.idx > Len(undo.pairs)
    /\ undo' = IdleUndo
    /\ UNCHANGED <<fs, trash, task, records, stray, merged, lost, mark, scene>>

-------------------------------------------------------------------------------
TaskStep(o) ==
    \/ Cancel(o) \/ Settle(o) \/ SkipItem(o) \/ Refuse(o) \/ Withdraw(o)
    \/ CopyWrite(o) \/ MoveByRename(o) \/ MoveByCopy(o) \/ DeleteMoved(o)
    \/ DeleteItem(o) \/ TrashItem(o) \/ RenameItem(o) \/ Create(o) \/ Record(o)

UndoStep ==
    \/ UndoPop \/ UndoCopy \/ UndoMoveGone \/ UndoMoveBlocked \/ UndoMoveClear
    \/ UndoMoveRename \/ UndoTrash \/ UndoDone

Next ==
    \/ \E o \in OpIds : TaskStep(o) \/ \E r \in scene.requests : Request(o, r)
    \/ UndoStep

Spec == Init /\ [][Next]_filesVars

-------------------------------------------------------------------------------
Nodes == {Absent, Dir} \cup {File(o, p) : o \in 0..MaxOps, p \in Paths}
Pcs   == {"new", "item", "replace", "write", "delete", "record", "over"}

TypeOK ==
    /\ fs \in [Paths -> Nodes]
    /\ \A p \in Paths : Present(fs, p) => \A a \in Above(p) : Is(fs, a, "dir")
    /\ \A o \in OpIds : task[o].pc \in Pcs /\ task[o].idx \in 1..(Len(task[o].sources) + 1)
    /\ \A i \in 1..Len(records) : records[i].op \in OpIds
    /\ Len(records) <= MaxUndo
    /\ undo.pc \in {"idle", "pair", "rename"}

(* Nothing else touches the files between two steps. *)
Alone == scene.running = 1

(* Some folder is moved up to where a folder that holds it has its name. *)
MergesUp ==
    \E r \in scene.requests : r.kind = "Move" /\ \E i \in 1..Len(r.sources) :
        IsStrictPrefix(Append(r.dest, Name(r.sources[i])), r.sources[i])

(* No operation and no undo, failed half way or not, costs content nobody gave up: content only
   goes where the user deletes it, agrees to replace it, or undoes the copy that made it.
   (Content that no record accounts for may be in an undo's way.) *)
NothingLostUnasked == TypeOK /\ (Alone /\ ~MergesUp => lost = {})

(* executor.rs:216-217 "a folder copied onto an existing folder merges into it", and :413-414
   "the source is only deleted once the copy has fully succeeded": what a move copied is still
   there when it has deleted its source. *)
MergesKeepFiles == [][Alone /\ (\E o \in OpIds : DeleteMoved(o)) => lost' = lost]_filesVars

(* undo.rs:222 "from then on those results hold data that operation did not create": an undo
   never deletes what was written over or merged into the copy it takes back. *)
UndoSparesOverwrites ==
    [][Alone /\ UndoCopy => \A p \in Under(To) : <<p, fs[p]>> \notin merged]_filesVars

(* executor.rs:55 "Without this nothing may replace `path`", and copy_recursive_new: whatever
   appeared since the conflict check, a file is only written over by an operation that was told
   to replace it, by New File, or by the undo of a Trash (TrashFs::restore has no check); of
   tasks together only where a rename does not replace. *)
OverwritesAgreed ==
    Alone \/ ~scene.replaces => \A p \in Paths :
        (Is(fs, p, "file") /\ Is(fs', p, "file") /\ fs'[p] # fs[p]) =>
            \/ UndoTrash
            \/ \E o \in OpIds :
                  /\ task'[o] # task[o]
                  /\ \/ task[o].replaces /\ IsPrefix(task[o].target, p)
                     \/ Kind(o) = "CreateFile" /\ task[o].dest = p
NoUnagreedOverwrite == [][OverwritesAgreed]_filesVars

(* undo.rs:265-266 "Copy: delete the copied files", "Move: move the files back", "Trash:
   restore files": an operation that wrote over nothing, undone next, leaves every file with
   its old content in its old place, also when it gave up names, was told to keep both, or
   skipped items. *)
UndoRestores ==
    [][(Alone /\ UndoDone /\ ~undo.blocked /\ undo.op = mark.op)
            => Map(fs) = mark.files]_filesVars

(* An undo takes back what its operation did, and nothing else. *)
UndoIsExact == UndoRestores /\ UndoSparesOverwrites
===============================================================================
