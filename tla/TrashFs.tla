------------------------------- MODULE TrashFs -------------------------------
(***************************************************************************)
(* The trash of raven-ops: every trashed item lies in the files          *)
(* directory under a name of its own, and a .trashinfo of that name in   *)
(* the info directory says where it came from.  Neither directory is     *)
(* locked: trash, restore and delete are sequences of filesystem calls   *)
(* that other tasks (operations and undo run side by side) and a crash   *)
(* can fall between.                                                     *)
(***************************************************************************)
EXTENDS Naturals, Sequences, SequencesExt, FiniteSets

CONSTANTS
    Origins,           \* where items live outside the trash
    Pieces,            \* files: an item is one, a folder of some, or a link
    FirstItems,        \* FirstItems[p]: what is at p at first
    TrashNames,        \* names in the trash
    Candidates,        \* Candidates[p]: the names tried for p, in order
    TrashTasks,        \* tasks
    MaxHeld,           \* bound on the entries the undo stack holds
    TrashScenes,       \* how it may be used
    NoItem             \* no item, no path, no name

(* An item: the path it is of, and the files in it, at any depth of a folder, that are whole
   and that a failed copy left torn. *)
AFile(id, k) == [id |-> id, link |-> NoItem, folder |-> FALSE, whole |-> {k}, torn |-> {}]
AFolder(id, ks) == [id |-> id, link |-> NoItem, folder |-> TRUE, whole |-> ks, torn |-> {}]
ALink(id, to) == [id |-> id, link |-> to, folder |-> FALSE, whole |-> {}, torn |-> {}]

Items == [id : Origins, link : Origins \cup {NoItem}, folder : BOOLEAN,
          whole : SUBSET Pieces, torn : SUBSET Pieces]
TrashCalls == {"undo", "restore_by_name", "delete"}

ASSUME TrashAssumption ==
    /\ FirstItems \in [Origins -> Items \cup {NoItem}] /\ Candidates \in [Origins -> Seq(TrashNames)]
    /\ NoItem \notin Items \cup Origins \cup TrashNames \cup Pieces
    /\ \A p \in Origins : FirstItems[p] # NoItem /\ ~FirstItems[p].folder /\ FirstItems[p].link = NoItem
                            => \E k \in Pieces : FirstItems[p].whole = {k} /\ FirstItems[p].torn = {}
    /\ IsFiniteSet(TrashTasks) /\ MaxHeld \in Nat
    /\ TrashScenes \subseteq [calls : SUBSET TrashCalls, running : Nat \ {0}, crashes : Nat,
                              devices : BOOLEAN]

VARIABLES
    place,          \* place[p]: the item at p
    files,          \* files[n]: the item in the files directory
    info,           \* info[n]: the original path in n's .trashinfo, if there is one
    trashTask,      \* trashTask[t]: its call and progress; todo, names yet to be deleted; moving,
                    \* files of a folder yet to be copied and removed; piece, the one just copied
    held,           \* TrashEntry values that trash returned (the undo stack's)
    trashScene      \* calls, those made (the program itself only trashes and undoes); running,
                    \* how many tasks are at work together; devices: renames into and out of
                    \* the trash fail with EXDEV; crashes, how many are still to come

trashVars == <<place, files, info, trashTask, held, trashScene>>

TrashIdle == [op |-> "none", from |-> NoItem, orig |-> NoItem, name |-> NoItem,
         todo |-> {}, moving |-> {}, piece |-> NoItem, pc |-> "idle"]

TrashInit ==
    /\ place = FirstItems
    /\ files = [n \in TrashNames |-> NoItem] /\ info = [n \in TrashNames |-> NoItem]
    /\ trashTask = [t \in TrashTasks |-> TrashIdle] /\ held = <<>> /\ trashScene \in TrashScenes

(* What try_exists and canonicalize see: a link counts if its target does. *)
Found(item) ==
    item # NoItem /\ (item.link # NoItem => place[item.link] # NoItem)

Resolved(p) == IF place[p].link = NoItem THEN p ELSE place[p].link

Free(t) ==
    /\ trashTask[t] = TrashIdle
    /\ Cardinality({u \in TrashTasks : trashTask[u] # TrashIdle}) < trashScene.running
TrashAt(t, pc) == trashTask[t].pc = pc
NameOf(t) == trashTask[t].name
Begin(t, call) == trashTask' = [trashTask EXCEPT ![t] = call]
TrashGoto(t, pc) == trashTask' = [trashTask EXCEPT ![t].pc = pc]
TrashReturn(t) == trashTask' = [trashTask EXCEPT ![t] = TrashIdle]

-------------------------------------------------------------------------------
(* trash: find out what the path is, pick a name, write the info, move. *)

BeginTrash(t) ==
    /\ Free(t) /\ Len(held) < MaxHeld
    /\ \E p \in Origins :
          /\ Found(place[p])
          /\ Begin(t, [TrashIdle EXCEPT !.op = "trash", !.from = p, !.orig = Resolved(p),
                                   !.pc = "name"])
    /\ UNCHANGED <<place, files, info, held, trashScene>>

NameTaken(n) == Found(files[n])

PickName(t) ==
    /\ TrashAt(t, "name")
    /\ LET names == Candidates[trashTask[t].from]
           free == {i \in DOMAIN names : ~NameTaken(names[i])} IN
       \/ free = {} /\ TrashReturn(t)
       \/ \E i \in free : /\ \A j \in free : i <= j
                          /\ trashTask' = [trashTask EXCEPT ![t].name = names[i], ![t].pc = "info"]
    /\ UNCHANGED <<place, files, info, held, trashScene>>

(* Mutant of WriteInfo: the info waits for the moved file. *)
WriteInfoLater(t) ==
    /\ TrashAt(t, "info")
    /\ TrashGoto(t, "move")
    /\ UNCHANGED <<place, files, info, held, trashScene>>

WriteInfo(t) ==
    /\ TrashAt(t, "info")
    /\ info' = [info EXCEPT ![NameOf(t)] = trashTask[t].orig]
    /\ TrashGoto(t, "move")
    /\ UNCHANGED <<place, files, held, trashScene>>

Trashed(t) == held' = IF "undo" \in trashScene.calls
                      THEN Append(held, [name |-> NameOf(t), orig |-> trashTask[t].orig]) ELSE held

-------------------------------------------------------------------------------
(* What trash and restore have in common: rename, and across devices cross_device_move. *)

Outward(t) == trashTask[t].op = "restore"
SourceItem(t) == IF Outward(t) THEN files[NameOf(t)] ELSE place[trashTask[t].from]
TargetItem(t) == IF Outward(t) THEN place[trashTask[t].orig] ELSE files[NameOf(t)]
Transfer(t, source, target) ==
    IF Outward(t)
    THEN /\ files' = [files EXCEPT ![NameOf(t)] = source]
         /\ place' = [place EXCEPT ![trashTask[t].orig] = target]
    ELSE /\ place' = [place EXCEPT ![trashTask[t].from] = source]
         /\ files' = [files EXCEPT ![NameOf(t)] = target]
Moved(t) == IF Outward(t) THEN TrashGoto(t, "unlist") /\ UNCHANGED held
            ELSE Trashed(t) /\ TrashReturn(t)

(* What is in an item; a link is copied as what it points to. *)
InIt(item) == item.whole \cup item.torn
Content(item) == IF item.link = NoItem THEN item ELSE place[item.link]
Empty(item) == [item EXCEPT !.link = NoItem, !.whole = {}, !.torn = {}]
Without(item, k) == [item EXCEPT !.whole = @ \ {k}, !.torn = @ \ {k}]
Whole(item, k) == [item EXCEPT !.whole = @ \cup {k}, !.torn = @ \ {k}]
Torn(item, k) == [item EXCEPT !.whole = @ \ {k}, !.torn = @ \cup {k}]

(* rename replaces a file, and a folder that is empty. *)
MoveWhole(t) ==
    /\ TrashAt(t, "move") /\ ~trashScene.devices /\ SourceItem(t) # NoItem
    /\ TargetItem(t) # NoItem => (TargetItem(t).folder = SourceItem(t).folder
                                 /\ (TargetItem(t).folder => InIt(TargetItem(t)) = {}))
    /\ Transfer(t, NoItem, SourceItem(t)) /\ Moved(t)
    /\ UNCHANGED <<info, trashScene>>

(* Then there is nothing to list (if the .trashinfo can be removed). *)
MoveFails(t) ==
    /\ TrashAt(t, "move")
    /\ UNCHANGED info \/ (~Outward(t) /\ info' = [info EXCEPT ![NameOf(t)] = NoItem])
    /\ TrashReturn(t)
    /\ UNCHANGED <<place, files, held, trashScene>>

(* A folder is made, and what the source holds is listed. *)
OpenFolder(t) ==
    /\ TrashAt(t, "move") /\ trashScene.devices /\ SourceItem(t) # NoItem /\ SourceItem(t).folder
    /\ TargetItem(t) # NoItem => TargetItem(t).folder
    /\ Transfer(t, SourceItem(t), IF TargetItem(t) = NoItem THEN Empty(SourceItem(t)) ELSE TargetItem(t))
    /\ trashTask' = [trashTask EXCEPT ![t].moving = InIt(SourceItem(t)), ![t].pc = "copy"]
    /\ UNCHANGED <<info, held, trashScene>>

(* One file after the other is copied, and removed. *)
ToCopy(t) ==
    IF TrashAt(t, "copy") /\ SourceItem(t) # NoItem /\ TargetItem(t) # NoItem
    THEN trashTask[t].moving \cap InIt(SourceItem(t))
    ELSE IF /\ TrashAt(t, "move") /\ trashScene.devices /\ Found(SourceItem(t)) /\ ~SourceItem(t).folder
            /\ ~Content(SourceItem(t)).folder /\ TargetItem(t) # NoItem => ~TargetItem(t).folder
    THEN InIt(Content(SourceItem(t))) ELSE {}
Onto(t) == IF SourceItem(t).folder THEN TargetItem(t) ELSE Empty(SourceItem(t))

(* Mutant of CopyFile: torn, but taken for whole. *)
CopyTorn(t) ==
    \E k \in ToCopy(t) :
       /\ Transfer(t, SourceItem(t), Torn(Onto(t), k))
       /\ trashTask' = [trashTask EXCEPT ![t].piece = k, ![t].pc = "remove"]
       /\ UNCHANGED <<info, held, trashScene>>

CopyFile(t) ==
    \E k \in ToCopy(t) :
       /\ Transfer(t, SourceItem(t), IF k \in Content(SourceItem(t)).whole THEN Whole(Onto(t), k)
                                                                  ELSE Torn(Onto(t), k))
       /\ trashTask' = [trashTask EXCEPT ![t].piece = k, ![t].pc = "remove"]
       /\ UNCHANGED <<info, held, trashScene>>

RemoveFile(t) ==
    /\ TrashAt(t, "remove") /\ SourceItem(t) # NoItem
    /\ LET k == trashTask[t].piece
       IN  IF SourceItem(t).folder
           THEN /\ k \in InIt(SourceItem(t)) /\ Transfer(t, Without(SourceItem(t), k), TargetItem(t))
                /\ trashTask' = [trashTask EXCEPT ![t].moving = @ \ {k}, ![t].pc = "copy"]
                /\ UNCHANGED held
           ELSE Transfer(t, NoItem, TargetItem(t)) /\ Moved(t)
    /\ UNCHANGED <<info, trashScene>>

RemoveEmptied(t) ==
    /\ TrashAt(t, "copy") /\ trashTask[t].moving = {} /\ SourceItem(t) # NoItem
    /\ Transfer(t, NoItem, TargetItem(t)) /\ Moved(t)
    /\ UNCHANGED <<info, trashScene>>

(* Whatever fails ends it: what was moved stays there, what was not, here. *)
TransferFails(t) ==
    /\ trashScene.devices /\ trashTask[t].pc \in {"move", "copy", "remove"}
    /\ \/ \E k \in ToCopy(t) : Transfer(t, SourceItem(t), Torn(Onto(t), k))
       \/ UNCHANGED <<place, files>>
    /\ TrashReturn(t)
    /\ UNCHANGED <<info, held, trashScene>>

-------------------------------------------------------------------------------
(* restore: an entry the undo stack holds, or one read by its name. *)

Restoring(entry) ==
    [TrashIdle EXCEPT !.op = "restore", !.name = entry.name, !.orig = entry.orig, !.pc = "move"]

BeginUndo(t) ==
    /\ "undo" \in trashScene.calls /\ Free(t) /\ held # <<>>
    /\ Begin(t, Restoring(Last(held)))
    /\ held' = Front(held)
    /\ UNCHANGED <<place, files, info, trashScene>>

Listed == {n \in TrashNames : info[n] # NoItem}

BeginRestoreByName(t) ==
    /\ "restore_by_name" \in trashScene.calls /\ Free(t)
    /\ \E n \in Listed : Begin(t, Restoring([name |-> n, orig |-> info[n]]))
    /\ UNCHANGED <<place, files, info, held, trashScene>>

(* The .trashinfo goes last, for restore and delete_permanently. *)
Unlist(t) ==
    /\ TrashAt(t, "unlist")
    /\ \/ info' = [info EXCEPT ![NameOf(t)] = NoItem]
       \/ UNCHANGED info
    /\ IF trashTask[t].todo = {} THEN TrashReturn(t) ELSE TrashGoto(t, "delete")
    /\ UNCHANGED <<place, files, held, trashScene>>

-------------------------------------------------------------------------------
(* delete_permanently, one entry or (empty) all that are listed. *)

BeginDelete(t) ==
    /\ "delete" \in trashScene.calls /\ Free(t)
    /\ \/ \E n \in Listed : Begin(t, [TrashIdle EXCEPT !.op = "delete", !.todo = {n}, !.pc = "delete"])
       \/ /\ Listed # {}
          /\ Begin(t, [TrashIdle EXCEPT !.op = "empty", !.todo = Listed, !.pc = "delete"])
    /\ UNCHANGED <<place, files, info, held, trashScene>>

(* What cannot be deleted, or of a folder not all, is skipped, with its .trashinfo. *)
DeleteOne(t) ==
    /\ TrashAt(t, "delete")
    /\ \E n \in trashTask[t].todo :
          /\ files[n] # NoItem
          /\ files' = [files EXCEPT ![n] = NoItem]
          /\ trashTask' = [trashTask EXCEPT ![t].todo = @ \ {n}, ![t].name = n, ![t].pc = "unlist"]
    /\ UNCHANGED <<place, info, held, trashScene>>

DeleteFails(t) ==
    /\ TrashAt(t, "delete")
    /\ \E n \in trashTask[t].todo :
          /\ \/ UNCHANGED files
             \/ /\ files[n] # NoItem /\ files[n].folder
                /\ \E ks \in SUBSET Pieces :
                      files' = [files EXCEPT ![n].whole = @ \ ks, ![n].torn = @ \ ks]
          /\ IF trashTask[t].todo = {n} THEN TrashReturn(t)
             ELSE trashTask' = [trashTask EXCEPT ![t].todo = @ \ {n}]
    /\ UNCHANGED <<place, info, held, trashScene>>

(* The program dies: its tasks and its undo stack are gone. *)
Crash ==
    /\ trashScene.crashes > 0 /\ (\E t \in TrashTasks : trashTask[t] # TrashIdle)
    /\ trashScene' = [trashScene EXCEPT !.crashes = @ - 1]
    /\ trashTask' = [t \in TrashTasks |-> TrashIdle] /\ held' = <<>>
    /\ UNCHANGED <<place, files, info>>

TrashTaskStep(t) ==
    \/ BeginTrash(t) \/ PickName(t) \/ WriteInfo(t) \/ BeginUndo(t) \/ BeginRestoreByName(t)
    \/ MoveWhole(t) \/ MoveFails(t) \/ OpenFolder(t) \/ CopyFile(t) \/ RemoveFile(t)
    \/ RemoveEmptied(t) \/ TransferFails(t) \/ Unlist(t)
    \/ BeginDelete(t) \/ DeleteOne(t) \/ DeleteFails(t)

TrashNext == Crash \/ \E t \in TrashTasks : TrashTaskStep(t)

TrashSpec == TrashInit /\ [][TrashNext]_trashVars

-------------------------------------------------------------------------------
TrashTypeOK ==
    /\ place \in [Origins -> Items \cup {NoItem}]
    /\ files \in [TrashNames -> Items \cup {NoItem}]
    /\ info \in [TrashNames -> Origins \cup {NoItem}]
    /\ \A t \in TrashTasks : trashTask[t].pc \in
          {"idle", "name", "info", "move", "copy", "remove", "unlist", "delete"}

(* One task is at work, on files that are no links, and who undoes by the entries of the undo
   stack does not empty the trash as well. *)
Orderly ==
    /\ trashScene.running = 1 /\ (trashScene.calls = {"undo"} \/ "undo" \notin trashScene.calls)
    /\ \A p \in Origins : FirstItems[p] # NoItem => FirstItems[p].id = p /\ FirstItems[p].link = NoItem

(* trash writes the .trashinfo before it moves the file, restore and delete remove it after:
   whenever the program dies, and between any two steps, each item in the trash is listed,
   under the path it came from. (An item's id is its first path.) *)
EachItemIsListed ==
    /\ TrashTypeOK
    /\ Orderly => \A n \in TrashNames : files[n] # NoItem => n \in Listed /\ info[n] = files[n].id

(* trash.rs:261 "Generate a unique name inside the trash files directory": what lies in the
   trash under a name stays there until it is restored or deleted: nothing else that is
   trashed, whole or in part, takes its place. *)
TrashedIsKept ==
    [][Orderly => \A n \in TrashNames : files[n] # NoItem =>
          \/ files'[n] # NoItem /\ files[n].whole \subseteq files'[n].whole
          \/ \E t \in TrashTasks : Outward(t) /\ NameOf(t) = n
          \/ \E t \in TrashTasks : TrashAt(t, "delete") /\ n \in trashTask[t].todo]_trashVars

(* Until it is deleted, or restored over, every file of every item is somewhere, whole: a
   folder moved in part, a copy that fails half way, a source that cannot be removed and a
   crash at any step never cost the only copy (cross_device_move both ways). *)
WholeIn(where) == UNION {where[q].whole : q \in {r \in DOMAIN where : where[r] # NoItem}}
Deleting(k) ==
    \E t \in TrashTasks : TrashAt(t, "delete")
       /\ \E n \in trashTask[t].todo : files[n] # NoItem /\ k \in files[n].whole
RestoredOver(k) ==
    \E t \in TrashTasks : /\ Outward(t) /\ trashTask[t].pc \in {"move", "copy"}
                         /\ TargetItem(t) # NoItem /\ k \in TargetItem(t).whole

NothingVanishes ==
    [][Orderly => \A k \in WholeIn(place) \cup WholeIn(files) :
          k \in WholeIn(place)' \cup WholeIn(files)' \/ Deleting(k) \/ RestoredOver(k)]_trashVars

(* What is trashed, restored and undone is never lost on the way. *)
TrashKeepsItems == TrashedIsKept /\ NothingVanishes
===============================================================================
