-------------------------------- MODULE Dragging --------------------------------
(***************************************************************************)
(* Dragging rows of a listing, or another program's files, over the      *)
(* window, and what a drop does: dnd.rs, and the drop targets of a       *)
(* listing.                                                              *)
(*                                                                       *)
(* A drop target answers with an action as the drag enters it and moves  *)
(* over it.  The value comes later.  What was found out about a drag is  *)
(* kept for the next target it meets.                                    *)
(***************************************************************************)
EXTENDS Listing

CONSTANTS
    Foreign,           \* sets of files another program may bring
    DragOffers,        \* the sets of actions it may offer
    FolderOf,          \* FolderOf[<<n, d>>]: the folder that a row of a folder is
    DeviceOf,          \* DeviceOf[d]: the file system of a folder
    Remote             \* folders that are not local

VARIABLES
    drag,          \* the drag: whether there is one, its number, files, what its source offers,
                   \* what the drop says is offered now, whether its value came, the keys held
    info,          \* CURRENT_DRAG
    over,          \* the target under the pointer, and what it knows (Hover)
    moved          \* the last command that was sent: what, where to, and what was so at the drop

dragVars == <<drag, info, over, moved>>

Both == {"copy", "move"}
NoDrag(n) ==
    [on |-> FALSE, n |-> n, files |-> {}, from |-> "raven", offers |-> {}, now |-> {}, ready |-> FALSE, key |-> "none"]
NoInfo == [of |-> 0, offered |-> {}, known |-> FALSE, devices |-> {}]
Nowhere == [at |-> "none", folder |-> NoShelf, same |-> "unknown", nothing |-> FALSE]

DragInit == drag = NoDrag(0) /\ info = NoInfo /\ over = Nowhere /\ moved = {}

-------------------------------------------------------------------------------
(* dnd.rs *)

Wanted(key, same) ==
    CASE key = "ctrl" -> "copy" [] key = "shift" -> "move"
      [] same = "yes" -> "move" [] OTHER -> "copy"
(* choose_action: the other one, if only that is offered. *)
ChooseDragAction(key, same, offered) ==
    LET w == Wanted(key, same)
    IN  IF w \in offered THEN w ELSE IF offered = {} THEN "none" ELSE CHOOSE o \in offered : TRUE

(* sources_to_transfer: neither into the folder they are in, nor into themselves. *)
ToTransfer(files, dest) ==
    {f \in files : f.of # dest /\ ~(<<f.name, f.of>> \in DOMAIN FolderOf /\ FolderOf[<<f.name, f.of>>] = dest)}

Fresh(n) == [NoInfo EXCEPT !.of = n]
(* Mutant: what is known is of whatever was dragged last. *)
AnyDragInfo(n) == IF info.of = 0 THEN Fresh(n) ELSE info
(* with_drag_info: what is known of this drag. *)
DragInfo(n) == IF info.of = n THEN info ELSE Fresh(n)

(* offered_actions: exact for Raven's own; else all that has been seen. *)
Seen(i) == [i EXCEPT !.offered = @ \cup drag.now]
Offered(i) == IF drag.from = "raven" THEN drag.offers ELSE Seen(i).offered

(* source_devices, once for a drag; a file that is gone has none. *)
WithDevices(i) ==
    IF i.known THEN {i}
    ELSE {[i EXCEPT !.known = TRUE, !.devices = v] : v \in {{}, {DeviceOf[f.of] : f \in drag.files}}}
(* same_filesystem_as *)
SameAs(i, dest) ==
    IF dest \in Remote THEN "no"
    ELSE IF i.devices = {} THEN "unknown"
    ELSE IF \A v \in i.devices : v = DeviceOf[dest] THEN "yes" ELSE "no"

(* Where a drop on the target goes: a row's folder, the pane's, a bookmark's or a tab's. *)
Destination(at, folder) == IF at = "listing" THEN listPanes[shownPane].path ELSE folder

(* refresh: once the value is there. *)
Refreshed(at, folder, i) ==
    IF ~drag.ready THEN [at |-> at, folder |-> folder, same |-> "unknown", nothing |-> FALSE]
    ELSE LET dest == Destination(at, folder)
         IN  [at |-> at, folder |-> folder, same |-> SameAs(i, dest), nothing |-> ToTransfer(drag.files, dest) = {}]

(* action_for; where the display server picks one action, it is then all that is offered. *)
Answer(o, i) ==
    IF o.nothing THEN info' = i /\ UNCHANGED drag
    ELSE /\ info' = IF drag.from = "raven" THEN i ELSE Seen(i)
         /\ LET a == ChooseDragAction(drag.key, o.same, Offered(i))
            IN  \/ UNCHANGED drag
                \/ drag.from = "other" /\ a # "none" /\ drag' = [drag EXCEPT !.now = {a}]

-------------------------------------------------------------------------------

(* drag_content: the selection, if the row is of it. *)
StartDrag ==
    /\ ~drag.on /\ Does("drag")
    /\ \E r \in Kept(rows, filterBar.text) :
          drag' = [NoDrag(drag.n + 1) EXCEPT
                       !.on = TRUE, !.files = IF r \in chosen THEN {Named(c) : c \in chosen} ELSE {Named(r)},
                                 !.offers = Both, !.now = Both]
    /\ UNCHANGED <<info, over, moved>>

BringFiles ==
    /\ ~drag.on /\ Does("drag")
    /\ \E files \in Foreign, offers \in DragOffers :
          drag' = [NoDrag(drag.n + 1) EXCEPT
                       !.on = TRUE, !.files = files, !.from = "other", !.offers = offers, !.now = offers]
    /\ UNCHANGED <<info, over, moved>>

EnterTarget ==
    /\ drag.on /\ over.at = "none"
    /\ \E target \in {[at |-> "listing", folder |-> NoShelf]}
                     \cup [at : {"row"}, folder : {FolderOf[<<r.name, r.of>>] : r \in {s \in rows : <<s.name, s.of>> \in DOMAIN FolderOf}}]
                     \cup [at : {"place"}, folder : Shelves \cup Remote] :
          \E i \in IF drag.ready THEN WithDevices(DragInfo(drag.n)) ELSE {DragInfo(drag.n)} :
             LET o == Refreshed(target.at, target.folder, i) IN over' = o /\ Answer(o, i)
    /\ UNCHANGED moved

(* value_notify: the target knows more, and has not answered again. *)
ValueComes ==
    /\ drag.on /\ ~drag.ready /\ over.at # "none"
    /\ \E i \in WithDevices(DragInfo(drag.n)) :
          /\ info' = i
          /\ over' = LET dest == Destination(over.at, over.folder)
                     IN  [over EXCEPT !.same = SameAs(i, dest), !.nothing = (ToTransfer(drag.files, dest) = {})]
    /\ drag' = [drag EXCEPT !.ready = TRUE] /\ UNCHANGED moved

PressKey == drag.on /\ drag' \in {[drag EXCEPT !.key = k] : k \in {"none", "ctrl", "shift"} \ {drag.key}}
            /\ UNCHANGED <<info, over, moved>>

MoveOver == drag.on /\ over.at # "none" /\ Answer(over, DragInfo(drag.n)) /\ UNCHANGED <<over, moved>>

LeaveTarget == over.at # "none" /\ over' = Nowhere /\ UNCHANGED <<drag, info, moved>>

(* perform_drop; what is under the pointer is looked up again. *)
DropHere ==
    /\ drag.on /\ drag.ready /\ over.at # "none" /\ ~over.nothing
    /\ \E i \in WithDevices(DragInfo(drag.n)) :
          LET dest == Destination(over.at, over.folder)
              files == ToTransfer(drag.files, dest)
              op == ChooseDragAction(drag.key, SameAs(i, dest), Offered(i))
          IN  /\ info' = Seen(i)
              /\ moved' = IF files = {} \/ op = "none" THEN {}
                          ELSE {[op |-> op, files |-> files, to |-> dest, of |-> drag.files,
                                             key |-> drag.key, offers |-> drag.offers]}
    /\ drag' = NoDrag(drag.n) /\ over' = Nowhere

GiveUp == drag.on /\ drag' = NoDrag(drag.n) /\ over' = Nowhere /\ UNCHANGED <<info, moved>>

DragStep ==
    \/ EnterTarget \/ ValueComes \/ PressKey \/ MoveOver \/ LeaveTarget \/ DropHere \/ GiveUp
DragNext ==
    \/ ListNext /\ UNCHANGED dragVars
    \/ (StartDrag \/ BringFiles) /\ UNCHANGED <<listPanes, shownPane, rows, chosen,
                                                filterBar, noMatches, work, recents>>
    \/ DragStep /\ UNCHANGED listVars

DragSpec == ListInit /\ DragInit /\ [][DragNext]_<<listVars, dragVars>>

-------------------------------------------------------------------------------
(* dnd.rs:10 "otherwise files are moved within one filesystem (a cheap rename) and copied
   across filesystems": what was found out about one drag is never used for another, and an
   offer the display server has narrowed does not turn a copy into a move. *)
MovesAreAskedFor ==
    \A m \in moved : m.op = "move" =>
        \/ m.key = "shift" \/ "copy" \notin m.offers
        \/ m.to \notin Remote /\ \A f \in m.of : DeviceOf[f.of] = DeviceOf[m.to]
===============================================================================
