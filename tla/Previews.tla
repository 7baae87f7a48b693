------------------------------- MODULE Previews -------------------------------
(***************************************************************************)
(* The preview panel of a window: it follows the selection of the active *)
(* pane, asks for previews that tasks generate in any order, plays one   *)
(* video, and lets go of files that are deleted or left behind.          *)
(*                                                                       *)
(* Selections are followed after a pause (a timer), panes are after the  *)
(* main loop is idle; the shown file is watched, and a save may make it  *)
(* disappear for a moment.                                               *)
(***************************************************************************)
EXTENDS Naturals, Sequences, SequencesExt, FiniteSets

CONSTANTS
    Items,          \* files and folders that may be selected
    ItemFolder,     \* FolderOf[f]: the folder an item is in
    KindOf,         \* KindOf[f]: "text", "image", "video", "document", "directory" or "other"
    Broken,         \* items whose contents cannot be read or decoded
    Media,          \* GTK has a backend that plays media
    PreviewScenes,  \* what happens: does, and how often (left)
    NoItem

Sides == {"left", "right"}
PreviewKinds == {"text", "image", "video", "document", "directory", "other"}

ASSUME PreviewAssumption == NoItem \notin Items /\ KindOf \in [Items -> PreviewKinds]

VARIABLES
    exists,       \* exists[f]
    side,         \* side[s]: the folder its pane is in, whether it lists Recent, its selected
                  \* row, and whether a listing or a check of Recent is on its way
    activeSide,
    panel,        \* the PreviewPanel
    waiting,      \* what the main loop has yet to run: <<"follow">> (the timer of the selection),
                  \* <<"sync">>, <<"reopen">>, and for item f <<"gone", f>> (the monitor's event),
                  \* <<"grace", f>>, <<"failed", n>> (stream n), <<"picture", f>>
    generating,   \* items whose previews tasks generate
    ready,        \* PreviewReady events
    failed,       \* items the last preview of which was an error, or was let go because the
                  \* item was gone (history)
    watching      \* the scene

previewVars == <<exists, side, activeSide, panel, waiting, generating, ready, failed, watching>>

NoStream == [item |-> NoItem, number |-> 0]
NewPanel == [visible |-> FALSE, requested |-> NoItem, shown |-> NoItem, page |-> "empty",
             content |-> NoItem, video |-> NoItem, stream |-> NoStream, streams |-> 0,
             picture |-> NoItem, slot |-> NoItem, watch |-> NoItem]

PreviewInit ==
    /\ watching \in PreviewScenes
    /\ exists = [f \in Items |-> TRUE]
    /\ side = [s \in Sides |-> [folder |-> watching.folder, recent |-> FALSE, row |-> NoItem,
                                listing |-> FALSE, checking |-> FALSE]]
    /\ activeSide = "left" /\ panel = NewPanel /\ waiting = {} /\ generating = {}
    /\ ready = <<>> /\ failed = {}

Selected == side[activeSide].row
May(what) == what \in watching.does /\ watching.left > 0
Spent == watching' = [watching EXCEPT !.left = @ - 1]

-------------------------------------------------------------------------------
(* The panel. *)

ReleaseVideo(p) == [p EXCEPT !.stream = NoStream]
StopVideo(p)    == [ReleaseVideo(p) EXCEPT !.video = NoItem]

(* show_header: another file is watched from now on. *)
ShowHeader(p, f) == [p EXCEPT !.shown = f, !.watch = f]

IsShowing(p, f) == p.requested = f

Request(p, f) ==
    IF IsShowing(p, f) THEN p
    ELSE [ShowHeader(StopVideo(p), f) EXCEPT !.requested = f, !.page = "loading",
                                             !.content = NoItem]

Clear(p) ==
    [StopVideo(p) EXCEPT !.requested = NoItem, !.shown = NoItem, !.watch = NoItem,
                         !.slot = NoItem, !.page = "empty", !.content = NoItem]

(* show_video_stream; a stream has a number of its own. *)
ShowVideoStream(p, f) ==
    [ReleaseVideo(p) EXCEPT !.stream = [item |-> f, number |-> p.streams + 1],
                            !.streams = @ + 1, !.page = "video"]

PageOf(f) == CASE KindOf[f] = "video" -> IF Media THEN "video" ELSE "frame"
               [] KindOf[f] \in {"document", "other"} -> IF f \in Broken THEN "unsupported" ELSE KindOf[f]
               [] OTHER -> KindOf[f]

ShowVideo(p, f) ==
    LET on == [p EXCEPT !.video = f] IN
    IF ~Media THEN p ELSE IF p.visible THEN ShowVideoStream(on, f) ELSE on

ShowImage(p, f) == [p EXCEPT !.slot = f]

SetPreview(p, f) ==
    IF p.requested # f THEN p
    ELSE LET on == [ShowHeader(StopVideo(p), f) EXCEPT !.slot = NoItem, !.page = PageOf(f),
                                                       !.content = f]
         IN  CASE KindOf[f] = "video" -> ShowVideo(on, f)
               [] KindOf[f] = "image" -> ShowImage(on, f)
               [] OTHER -> on

-------------------------------------------------------------------------------
(* The window follows the active pane. *)

(* Ask for a preview of f, unless it is shown or on its way. *)
AskPreview(p, f) ==
    /\ panel' = Request(p, f)
    /\ generating' = IF IsShowing(p, f) THEN generating ELSE generating \cup {f}
    /\ failed' = IF IsShowing(p, f) THEN failed ELSE failed \ {f}

KeepsShowing(p) == panel' = p /\ UNCHANGED <<generating, failed>>

PreviewSelection(p) == IF Selected = NoItem THEN KeepsShowing(Clear(p)) ELSE AskPreview(p, Selected)

BelongsToFolder(f, folder) == ItemFolder[f] = folder

SyncPreview(p, s) ==
    IF ~p.visible THEN KeepsShowing(p)
    ELSE IF s.row # NoItem THEN AskPreview(p, s.row)
    ELSE IF \/ p.shown = NoItem
            \/ exists[p.shown] /\ (s.recent \/ BelongsToFolder(p.shown, s.folder))
    THEN KeepsShowing(p) ELSE KeepsShowing(Clear(p))

(* connect_toggled, with connect_unmap and connect_map of the panel. *)
Toggle ==
    /\ May("toggle") /\ Spent
    /\ IF panel.visible
       THEN KeepsShowing([ReleaseVideo(panel) EXCEPT !.visible = FALSE]) /\ UNCHANGED waiting
       ELSE PreviewSelection([panel EXCEPT !.visible = TRUE]) /\ waiting' = waiting \cup {<<"reopen">>}
    /\ UNCHANGED <<exists, side, activeSide, ready>>

Reopen ==
    /\ <<"reopen">> \in waiting /\ waiting' = waiting \ {<<"reopen">>}
    /\ IF panel.visible /\ panel.video # NoItem /\ panel.stream = NoStream
       THEN panel' = ShowVideoStream(panel, panel.video) ELSE UNCHANGED panel
    /\ UNCHANGED <<exists, side, activeSide, generating, ready, failed, watching>>

(* A row is selected, or none: noticed only while the panel is there. *)
SelectRow(s) ==
    /\ May("select") /\ Spent /\ ~side[s].listing
    /\ \E f \in Items \cup {NoItem} :
          /\ f # side[s].row
          /\ f # NoItem => (exists[f] /\ (side[s].recent \/ ItemFolder[f] = side[s].folder))
          /\ side' = [side EXCEPT ![s].row = f]
    /\ waiting' = IF panel.visible THEN waiting \cup {<<"follow">>} ELSE waiting
    /\ UNCHANGED <<exists, activeSide, panel, generating, ready, failed>>

Follow ==
    /\ <<"follow">> \in waiting /\ waiting' = waiting \ {<<"follow">>} /\ PreviewSelection(panel)
    /\ UNCHANGED <<exists, side, activeSide, ready, watching>>

(* A click in the other pane; set_on_tab_changed comes to the same. *)
SwitchSide ==
    /\ May("switch") /\ Spent
    /\ activeSide' = CHOOSE s \in Sides : s # activeSide
    /\ waiting' = waiting \cup {<<"sync">>}
    /\ UNCHANGED <<exists, side, panel, generating, ready, failed>>

Sync ==
    /\ <<"sync">> \in waiting /\ waiting' = waiting \ {<<"sync">>}
    /\ SyncPreview(panel, side[activeSide])
    /\ UNCHANGED <<exists, side, activeSide, ready, watching>>

GoToFolder(s) ==
    /\ May("go") /\ Spent
    /\ \E d \in {ItemFolder[f] : f \in Items} :
          side' = [side EXCEPT ![s].folder = d, ![s].recent = FALSE, ![s].listing = TRUE]
    /\ UNCHANGED <<exists, activeSide, panel, waiting, generating, ready, failed>>

(* DirectoryLoaded: the rows are new, and none is selected. *)
DirectoryListed(s) ==
    /\ side[s].listing
    /\ side' = [side EXCEPT ![s].listing = FALSE, ![s].row = NoItem,
                            ![s].recent = FALSE]
    /\ SyncPreview(panel, side'[activeSide])
    /\ UNCHANGED <<exists, activeSide, waiting, ready, watching>>

(* The Recent row of the sidebar: empty until the files are checked, or with its old rows if it
   was there already. *)
ShowRecentFiles ==
    /\ May("recent") /\ Spent
    /\ side' = [side EXCEPT ![activeSide].recent = TRUE, ![activeSide].checking = TRUE,
                            ![activeSide].row = IF side[activeSide].recent THEN @ ELSE NoItem]
    /\ SyncPreview(panel, side'[activeSide])
    /\ UNCHANGED <<exists, activeSide, waiting, ready>>

(* The rows are new; nobody looks at the preview. *)
RecentListed(s) ==
    /\ side[s].checking
    /\ side' = [side EXCEPT ![s].checking = FALSE, ![s].row = IF side[s].recent THEN NoItem ELSE @]
    /\ UNCHANGED <<exists, activeSide, panel, waiting, generating, ready, failed, watching>>

-------------------------------------------------------------------------------
(* Previews: PreviewRouter and its providers in a task per request. *)

(* What each provider gives of an item: an error, or a page. A video and a document are shown
   even if nothing can be read of them. *)
TextPreview(f)      == IF exists[f] /\ f \notin Broken THEN "ready" ELSE "error"
ImagePreview(f)     == IF exists[f] /\ f \notin Broken THEN "ready" ELSE "error"
DirectoryPreview(f) == IF exists[f] /\ f \notin Broken THEN "ready" ELSE "error"
VideoPreview(f)     == "ready"
PdfPreview(f)       == "ready"

(* A folder is told by its metadata, everything else by its extension. *)
GenerateUncached(f) ==
    CASE KindOf[f] = "directory" /\ exists[f] -> DirectoryPreview(f)
      [] KindOf[f] = "text"     -> TextPreview(f)
      [] KindOf[f] = "image"    -> ImagePreview(f)
      [] KindOf[f] = "video"    -> VideoPreview(f)
      [] KindOf[f] = "document" -> PdfPreview(f)
      [] OTHER                  -> "ready"

(* An error is only logged. *)
GeneratePreview(f) ==
    /\ f \in generating /\ generating' = generating \ {f}
    /\ IF GenerateUncached(f) = "ready" THEN ready' = Append(ready, f) /\ UNCHANGED failed
       ELSE failed' = failed \cup {f} /\ UNCHANGED ready
    /\ UNCHANGED <<exists, side, activeSide, panel, waiting, watching>>

PreviewReady ==
    /\ ready # <<>> /\ ready' = Tail(ready)
    /\ panel' = SetPreview(panel, Head(ready))
    /\ waiting' = IF panel'.slot # NoItem /\ panel'.slot = Head(ready)
                  THEN waiting \cup {<<"picture", panel'.slot>>} ELSE waiting
    /\ UNCHANGED <<exists, side, activeSide, generating, failed, watching>>

(* The thumbnail of a picture is there, unless it could not be decoded. *)
PictureMade(f) ==
    /\ <<"picture", f>> \in waiting /\ waiting' = waiting \ {<<"picture", f>>}
    /\ \E made \in {exists[f], FALSE} :
          panel' = IF made /\ panel.slot = f THEN [panel EXCEPT !.picture = f] ELSE panel
    /\ UNCHANGED <<exists, side, activeSide, generating, ready, failed, watching>>

(* A stream notices that it cannot play; the panel hears of it when idle. *)
StreamFails ==
    /\ panel.stream # NoStream /\ May("unplayable") /\ Spent
    /\ waiting' = waiting \cup {<<"failed", panel.stream.number>>}
    /\ UNCHANGED <<exists, side, activeSide, panel, generating, ready, failed>>

FallBack(n) ==
    /\ <<"failed", n>> \in waiting /\ waiting' = waiting \ {<<"failed", n>>}
    /\ panel' = IF panel.stream.number = n THEN [ReleaseVideo(panel) EXCEPT !.page = "frame"]
                ELSE panel
    /\ UNCHANGED <<exists, side, activeSide, generating, ready, failed, watching>>

-------------------------------------------------------------------------------
(* Files go away and come back; a listing does not follow by itself, the watch on the shown
   file does. *)

FileGoes(f) ==
    /\ May("delete") /\ exists[f] /\ Spent
    /\ exists' = [exists EXCEPT ![f] = FALSE]
    /\ waiting' = IF panel.watch = f THEN waiting \cup {<<"gone", f>>} ELSE waiting
    /\ UNCHANGED <<side, activeSide, panel, generating, ready, failed>>

FileReturns(f) ==
    /\ May("save") /\ ~exists[f] /\ Spent
    /\ exists' = [exists EXCEPT ![f] = TRUE]
    /\ UNCHANGED <<side, activeSide, panel, waiting, generating, ready, failed>>

(* The monitor's event: lost if the file is no longer watched. *)
WatchedGone(f) ==
    /\ <<"gone", f>> \in waiting
    /\ waiting' = (waiting \ {<<"gone", f>>}) \cup (IF panel.watch = f THEN {<<"grace", f>>} ELSE {})
    /\ UNCHANGED <<exists, side, activeSide, panel, generating, ready, failed, watching>>

(* Mutant of GraceEnds: the panel is cleared whatever it shows by now. *)
GraceEndsAnyway(f) ==
    /\ <<"grace", f>> \in waiting /\ waiting' = waiting \ {<<"grace", f>>}
    /\ panel' = IF ~exists[f] THEN Clear(panel) ELSE panel
    /\ UNCHANGED <<exists, side, activeSide, generating, ready, failed, watching>>

GraceEnds(f) ==
    /\ <<"grace", f>> \in waiting /\ waiting' = waiting \ {<<"grace", f>>}
    /\ IF panel.shown = f /\ ~exists[f] THEN panel' = Clear(panel) /\ failed' = failed \cup {f}
       ELSE UNCHANGED <<panel, failed>>
    /\ UNCHANGED <<exists, side, activeSide, generating, ready, watching>>

PreviewNext ==
    \/ Toggle \/ Reopen \/ Follow \/ SwitchSide \/ Sync \/ ShowRecentFiles \/ PreviewReady
    \/ StreamFails
    \/ \E s \in Sides : SelectRow(s) \/ GoToFolder(s) \/ DirectoryListed(s) \/ RecentListed(s)
    \/ \E f \in Items :
          \/ GeneratePreview(f) \/ PictureMade(f) \/ FileGoes(f) \/ FileReturns(f)
          \/ WatchedGone(f) \/ GraceEnds(f)
    \/ \E n \in 1..panel.streams : FallBack(n)

PreviewSpec == PreviewInit /\ [][PreviewNext]_previewVars

-------------------------------------------------------------------------------
PreviewTypeOK ==
    /\ exists \in [Items -> BOOLEAN] /\ generating \subseteq Items /\ activeSide \in Sides
    /\ panel.page \in {"empty", "loading", "text", "image", "video", "frame", "document",
                       "directory", "unsupported", "other"}
    /\ panel.shown \in Items \cup {NoItem} /\ failed \subseteq Items

(* preview_panel.rs:259 "Previews of anything else arrive late from an earlier selection and
   are ignored": what the panel presents is what its title says, and a stream is open only in a
   panel on screen, for the video it presents. *)
PanelIsConsistent ==
    /\ panel.shown = panel.requested /\ panel.watch = panel.shown
    /\ panel.page \notin {"empty", "loading"} => panel.content = panel.shown
    /\ panel.stream # NoStream =>
          panel.visible /\ panel.stream.item = panel.shown /\ panel.video = panel.shown
    /\ panel.video # NoItem => panel.video = panel.shown

PreviewsQuiet ==
    /\ ready = <<>> /\ generating = {}
    /\ \A s \in Sides : ~side[s].listing /\ ~side[s].checking
    /\ waiting \subseteq {<<"picture", f>> : f \in Items}

(* window.rs:2574, 2590: once nothing is under way, an open panel presents the selected file of
   the active pane, or waits in vain for one whose preview failed; one that was let go stays so
   till it is selected again. With none selected the panel is empty or on a file that is still
   there and in this folder (in Recent, on any). *)
PanelFollowsSelection ==
    /\ PreviewTypeOK /\ PanelIsConsistent
    /\ (PreviewsQuiet /\ panel.visible) =>
          IF Selected # NoItem
          THEN exists[Selected] =>
                  /\ panel.shown = Selected \/ (panel.shown = NoItem /\ Selected \in failed)
                  /\ panel.page = "loading" => Selected \in failed
                  /\ (KindOf[Selected] = "video" /\ panel.page = "video") => panel.stream # NoStream
          ELSE panel.shown # NoItem =>
                  \/ side[activeSide].recent
                  \/ exists[panel.shown] /\ ItemFolder[panel.shown] = side[activeSide].folder

===============================================================================
