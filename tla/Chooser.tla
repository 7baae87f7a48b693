------------------------------- MODULE Chooser -------------------------------
(***************************************************************************)
(* The open and save dialogs Raven shows for other programs: the portal  *)
(* process (raven-dbus's FileChooser and its Request objects on a Tokio  *)
(* thread, `ravenfilemanager --portal` on the GTK thread) and one        *)
(* FileChooserDialog per call.                                           *)
(*                                                                       *)
(* A call registers its handle and goes through a channel to the GTK     *)
(* thread, which shows a dialog; the answer goes back through a oneshot. *)
(* The caller may close its request at any time.  The process quits when *)
(* a minute's timer finds no dialog, and the next call starts it again;  *)
(* only portal_state.toml outlives it.                                   *)
(*                                                                       *)
(* A path is a sequence of names below the root, <<>>; a text the user   *)
(* types is such a path, absolute or relative to the folder shown.       *)
(***************************************************************************)
EXTENDS Naturals, Sequences, SequencesExt, FiniteSets

CONSTANTS
    Calls,         \* calls of the portal's methods
    Apps,          \* the programs that call; NoApp is an empty app id
    NoApp,
    Disk,          \* Disk[p]: "none", "dir" or "file", what is at path p at first
    HiddenNames,   \* names that are hidden
    Accepts,       \* Accepts[f]: the names filter f accepts
    Home,          \* default_folder
    Places,        \* the folders of the places list
    Askers,        \* what may be asked, and how often the user acts
    None           \* no path, no filter, no answer

VARIABLES
    disk,      \* what is on disk
    call,      \* call[c]: progress, whether its handle is registered, and its answer
    dialog,    \* dialog[c]: the window of call c; while it asks about replacing: what it asks
               \* about, with what result, and what was there then (history)
    memory,    \* portal_state.toml: memory[a][m], where app a (None: any) last opened or saved
    portal,    \* the process: alive, open_dialogs, generation, its timers, and the timer the
               \* one before it quit on (history)
    asker      \* asks[c]: the request of c; texts that may be typed; left, how often the
               \* users may act; closes: callers may close their requests

chooserVars == <<disk, call, dialog, memory, portal, asker>>

Paths     == DOMAIN Disk
IsDir(p)  == p \in Paths /\ disk[p] = "dir"
IsFile(p) == p \in Paths /\ disk[p] = "file"
Exists(p) == IsDir(p) \/ IsFile(p)
Join(folder, name) == Append(folder, name)
Parent(p) == Front(p)

(* The default folder is there, and what is asked for is a request. *)
ASSUME ChooserAssumption ==
    /\ IsFiniteSet(Calls) /\ IsFiniteSet(Paths)
    /\ Disk \in [Paths -> {"none", "dir", "file"}] /\ Home \in Paths /\ Disk[Home] = "dir"
    /\ \A a \in Askers :
          /\ DOMAIN a = {"asks", "texts", "left", "closes"}
          /\ \A c \in DOMAIN a.asks : /\ a.asks[c].mode \in {"Open", "Save", "SaveFiles"}
                                      /\ a.asks[c].filters \in Seq(DOMAIN Accepts)

Asks(c)    == asker.asks[c]
Saving(c)  == IF Asks(c).mode = "Open" THEN "open" ELSE "save"
PicksFolder(c) == Asks(c).directory \/ Asks(c).mode = "SaveFiles"

NewCall   == [pc |-> "new", handle |-> FALSE, closed |-> FALSE, answer |-> None]
NewDialog == [pc |-> "none", folder |-> <<>>, loaded |-> FALSE, selected |-> {}, name |-> None,
              hidden |-> FALSE, filter |-> None, asked |-> {}, result |-> {},
              there |-> {}]
NotRunning == [alive |-> FALSE, open |-> 0, generation |-> 0, timers |-> {},
               quitOn |-> None]

(* `quiet`: no dialog was opened since the timer was set (history). *)
Timer(g)  == [generation |-> g, quiet |-> TRUE]

ChooserInit ==
    /\ disk = Disk
    /\ call = [c \in Calls |-> NewCall] /\ dialog = [c \in Calls |-> NewDialog]
    /\ memory = [a \in Apps \cup {None} |-> [open |-> None, save |-> None]]
    /\ portal = NotRunning /\ asker \in Askers

-------------------------------------------------------------------------------
(* The bus side: FileChooser.run and Request.close. *)

(* A call starts the process if it is not there. When the handle cannot be registered only
   cancelling is lost. *)
RunCall(c) ==
    /\ call[c].pc = "new" /\ c \in DOMAIN asker.asks
    /\ \E registered \in BOOLEAN :
          call' = [call EXCEPT ![c].pc = "sent", ![c].handle = registered]
    /\ portal' = IF portal.alive THEN portal
                 ELSE [NotRunning EXCEPT !.alive = TRUE, !.generation = 1, !.timers = {Timer(1)}]
    /\ UNCHANGED <<disk, dialog, memory, asker>>

RequestClose(c) ==
    /\ asker.closes /\ call[c].handle /\ ~call[c].closed
    /\ call[c].pc \in {"sent", "shown", "replied"}
    /\ call' = [call EXCEPT ![c].closed = TRUE]
    /\ UNCHANGED <<disk, dialog, memory, portal, asker>>

(* build_results: SaveFiles answers with its names in the chosen folder. *)
BuildResults(c, paths) ==
    IF Asks(c).mode = "SaveFiles"
    THEN {Join(p, n) : p \in paths, n \in Asks(c).files} ELSE paths

(* The reply arrives; the handle is removed. *)
ReturnCall(c) ==
    /\ call[c].pc = "replied"
    /\ call' = [call EXCEPT ![c].pc = "returned", ![c].handle = FALSE,
                            ![c].answer.paths = BuildResults(c, @)]
    /\ UNCHANGED <<disk, dialog, memory, portal, asker>>

-------------------------------------------------------------------------------
(* The process: its idle timers. *)

(* Mutant of ScheduleIdleExit: the older timers stay good. *)
ScheduleSameGeneration(p) ==
    IF p.open > 0 THEN p ELSE [p EXCEPT !.timers = @ \cup {Timer(p.generation)}]

ScheduleIdleExit(p) ==
    IF p.open > 0 THEN p
    ELSE [p EXCEPT !.generation = @ + 1, !.timers = @ \cup {Timer(p.generation + 1)}]

(* Quitting drops what waits in the channel: the bus fails those calls. (A reply that was sent
   is on the bus long before a timer set then.) *)
TimerFires(t) ==
    /\ t \in portal.timers /\ \A c \in Calls : call[c].pc # "replied"
    /\ IF portal.open = 0 /\ portal.generation = t.generation
       THEN /\ portal' = [NotRunning EXCEPT !.quitOn = t]
            /\ call' = [c \in Calls |->
                          IF call[c].pc \in {"sent", "shown"}
                          THEN [call[c] EXCEPT !.pc = "failed", !.handle = FALSE] ELSE call[c]]
       ELSE portal' = [portal EXCEPT !.timers = @ \ {t}] /\ UNCHANGED call
    /\ UNCHANGED <<disk, dialog, memory, asker>>

-------------------------------------------------------------------------------
(* What a dialog shows. *)

(* The next place is looked at when there is no folder at this one. *)
FirstFolder(place, next) == IF IsDir(place) THEN place ELSE next

(* The folder asked for, that of the file asked for, then where the program, and where anybody,
   was last. *)
StartFolder(c) ==
    LET program == Asks(c).app
        file == Asks(c).file
        of(a) == memory[a][Saving(c)]
        last == FirstFolder(of(None), Home)
        lastOfApp == IF program = NoApp THEN last ELSE FirstFolder(of(program), last)
        beside == IF file = None THEN lastOfApp ELSE FirstFolder(Parent(file), lastOfApp)
    IN  FirstFolder(Asks(c).folder, beside)

FirstFilter(c) ==
    IF PicksFolder(c) THEN None
    ELSE IF Asks(c).filter # None THEN Asks(c).filter
    ELSE IF Asks(c).filters # <<>> THEN Head(Asks(c).filters) ELSE None

(* The filters offered: the current one goes first if it is not among them. *)
Offered(c) ==
    ToSet(Asks(c).filters) \cup (IF Asks(c).filter = None THEN {} ELSE {Asks(c).filter})

RowVisible(c, p) ==
    /\ Exists(p) /\ (dialog[c].hidden \/ Last(p) \notin HiddenNames)
    /\ \/ IsDir(p)
       \/ /\ ~PicksFolder(c)
          /\ dialog[c].filter = None \/ Last(p) \in Accepts[dialog[c].filter]

(* The list is empty until the folder has been read. *)
Rows(c) == IF dialog[c].loaded
           THEN {p \in Paths : p # <<>> /\ Parent(p) = dialog[c].folder /\ RowVisible(c, p)} ELSE {}

SuggestedName(c) ==
    IF Asks(c).mode # "Save" THEN None
    ELSE IF Asks(c).name # None THEN Asks(c).name
    ELSE IF Asks(c).file # None THEN [absolute |-> FALSE, path |-> <<Last(Asks(c).file)>>]
    ELSE None

Opened(p) ==
    [p EXCEPT !.open = @ + 1, !.timers = {[t EXCEPT !.quiet = FALSE] : t \in @}]

Present(c) ==
    /\ portal.alive /\ call[c].pc = "sent"
    /\ call' = [call EXCEPT ![c].pc = "shown"]
    /\ portal' = Opened(portal)
    /\ dialog' = [dialog EXCEPT ![c] =
                     [NewDialog EXCEPT !.pc = "open", !.folder = StartFolder(c),
                                       !.filter = FirstFilter(c), !.name = SuggestedName(c)]]
    /\ UNCHANGED <<disk, memory, asker>>

Loaded(c) ==
    /\ dialog[c].pc = "open" /\ ~dialog[c].loaded
    /\ dialog' = [dialog EXCEPT ![c].loaded = TRUE]
    /\ UNCHANGED <<disk, call, memory, portal, asker>>

(* navigate: a path that is no folder changes nothing but the status. *)
Shows(d, p) ==
    IF IsDir(p) THEN [d EXCEPT !.folder = p, !.loaded = FALSE, !.selected = {}] ELSE d

ResolveTyped(folder, text) == IF text.absolute THEN text.path ELSE folder \o text.path

-------------------------------------------------------------------------------
(* Answers. *)

RememberedFolder(c, d, paths) ==
    CASE Asks(c).mode = "Save" -> Parent(CHOOSE p \in paths : TRUE)
      [] Asks(c).mode = "SaveFiles" -> CHOOSE p \in paths : TRUE
      [] OTHER -> d.folder

Remember(c, folder) ==
    [a \in DOMAIN memory |->
        IF a = None \/ (a = Asks(c).app /\ a # NoApp)
        THEN [memory[a] EXCEPT ![Saving(c)] = folder] ELSE memory[a]]

(* finish_and_close, the dialog being `d` when it answers with `paths` ({}: cancelled). *)
Finish(c, d, paths) ==
    /\ dialog' = [dialog EXCEPT ![c] = [d EXCEPT !.pc = "done"]]
    /\ call' = [call EXCEPT ![c].pc = "replied",
                    ![c].answer = [ok |-> paths # {}, paths |-> paths,
                                   filter |-> IF paths = {} \/ Asks(c).filters = <<>> THEN None
                                              ELSE d.filter]]
    /\ portal' = ScheduleIdleExit([portal EXCEPT !.open = @ - 1])
    /\ memory' = IF paths = {} THEN memory ELSE Remember(c, RememberedFolder(c, d, paths))

Stays(c, d) == dialog' = [dialog EXCEPT ![c] = d] /\ UNCHANGED <<call, portal, memory>>

ConfirmReplace(c, d, existing, result) ==
    Stays(c, [d EXCEPT !.pc = "asking", !.asked = existing, !.result = result,
                        !.there = {p \in Paths : Exists(p)}])

AcceptSave(c, d) ==
    LET target == ResolveTyped(d.folder, d.name) IN
    CASE d.name = None -> Stays(c, d)
      [] d.name # None /\ IsDir(target) -> Stays(c, [Shows(d, target) EXCEPT !.name = None])
      [] d.name # None /\ ~IsDir(target) /\ ~IsDir(Parent(target)) -> Stays(c, d)
      [] OTHER -> IF Exists(target) THEN ConfirmReplace(c, d, {target}, {target})
                  ELSE Finish(c, d, {target})

(* One of the selected folders, or the one shown. *)
AcceptSaveFiles(c, d) ==
    LET dirs == {p \in d.selected : IsDir(p)} IN
    \E dest \in IF dirs = {} THEN {d.folder} ELSE dirs :
        LET existing == {p \in {Join(dest, n) : n \in Asks(c).files} : Exists(p)} IN
        IF existing = {} THEN Finish(c, d, {dest}) ELSE ConfirmReplace(c, d, existing, {dest})

(* Mutant of AcceptOpen: selected folders are answered among the files. *)
AcceptOpenAnything(c, d) ==
    IF d.selected # {} THEN Finish(c, d, d.selected) ELSE Stays(c, d)

AcceptOpen(c, d) ==
    LET dirs == {p \in d.selected : IsDir(p)}
        files == d.selected \ dirs
    IN  IF PicksFolder(c) THEN Finish(c, d, IF dirs = {} THEN {d.folder} ELSE dirs)
        ELSE IF files # {} THEN Finish(c, d, files)
        ELSE IF Cardinality(dirs) = 1 THEN Stays(c, Shows(d, CHOOSE p \in dirs : TRUE))
        ELSE Stays(c, d)

AcceptAs(c, d) ==
    CASE Asks(c).mode = "Open" -> AcceptOpen(c, d)
      [] Asks(c).mode = "Save" -> AcceptSave(c, d)
      [] OTHER -> AcceptSaveFiles(c, d)

-------------------------------------------------------------------------------
(* What the user does in a dialog. *)

Acts(c) ==
    /\ dialog[c].pc = "open" /\ asker.left > 0
    /\ asker' = [asker EXCEPT !.left = @ - 1]
Now(c) == dialog[c]

Accept(c) == Acts(c) /\ AcceptAs(c, Now(c)) /\ UNCHANGED disk

Navigate(c) ==
    /\ Acts(c)
    /\ \E p \in Places \cup (IF Now(c).folder = <<>> THEN {} ELSE {Parent(Now(c).folder)}) :
          Stays(c, Shows(Now(c), p))
    /\ UNCHANGED disk

ActivateRow(c) ==
    /\ Acts(c)
    /\ \E p \in Rows(c) :
          CASE IsDir(p) -> Stays(c, Shows(Now(c), p))
            [] ~IsDir(p) /\ Asks(c).mode = "Open" ->
                  AcceptAs(c, [Now(c) EXCEPT !.selected = IF p \in @ THEN @ ELSE {p}])
            [] OTHER -> AcceptAs(c, [Now(c) EXCEPT
                                        !.name = [absolute |-> FALSE, path |-> <<Last(p)>>]])
    /\ UNCHANGED disk

(* A single selection unless several files may be opened; the first file selected names a file
   to save. *)
Select(c) ==
    /\ Acts(c)
    /\ \E rows \in SUBSET Rows(c) :
          /\ rows # Now(c).selected
          /\ Cardinality(rows) <= 1 \/ (Asks(c).multiple /\ Asks(c).mode = "Open")
          /\ LET files == {p \in rows : ~IsDir(p)} IN
             Stays(c, [Now(c) EXCEPT !.selected = rows,
                          !.name = IF Asks(c).mode = "Save" /\ files # {}
                                   THEN [absolute |-> FALSE,
                                         path |-> <<Last(CHOOSE p \in files : TRUE)>>]
                                   ELSE @])
    /\ UNCHANGED disk

TypeName(c) ==
    /\ Acts(c) /\ Asks(c).mode = "Save"
    /\ \E text \in asker.texts : Stays(c, [Now(c) EXCEPT !.name = text])
    /\ UNCHANGED disk

LocationActivated(c) ==
    /\ Acts(c)
    /\ \E text \in asker.texts :
          LET target == ResolveTyped(Now(c).folder, text) IN
          CASE IsDir(target) -> Stays(c, Shows(Now(c), target))
            [] IsFile(target) /\ Asks(c).mode = "Open" /\ ~PicksFolder(c) ->
                  Finish(c, Now(c), {target})
            [] ~IsDir(target) /\ Asks(c).mode = "Save" /\ IsDir(Parent(target)) ->
                  AcceptAs(c, [Shows(Now(c), Parent(target)) EXCEPT
                                  !.name = [absolute |-> FALSE, path |-> <<Last(target)>>]])
            [] OTHER -> Stays(c, Now(c))
    /\ UNCHANGED disk

(* The rows that stay visible stay selected. *)
Refilter(c) ==
    /\ Acts(c) /\ ~PicksFolder(c)
    /\ \E hidden \in BOOLEAN, f \in IF Offered(c) = {} THEN {Now(c).filter} ELSE Offered(c) :
          dialog' = [dialog EXCEPT ![c].hidden = hidden, ![c].filter = f,
                        ![c].selected = {p \in @ : IsDir(p) \/ f = None \/ Last(p) \in Accepts[f]}
                                        \cap {p \in @ : hidden \/ Last(p) \notin HiddenNames}]
    /\ UNCHANGED <<disk, call, memory, portal>>

NewFolder(c) ==
    /\ Acts(c) /\ (Asks(c).mode # "Open" \/ PicksFolder(c))
    /\ \E p \in Paths :
          /\ p # <<>> /\ Parent(p) = Now(c).folder /\ ~Exists(p) /\ IsDir(Parent(p))
          /\ disk' = [disk EXCEPT ![p] = "dir"]
          /\ dialog' = [dialog EXCEPT ![c].folder = p, ![c].loaded = FALSE, ![c].selected = {}]
    /\ UNCHANGED <<call, memory, portal>>

(* Cancel, Escape and the window's close button. *)
Dismiss(c) ==
    /\ dialog[c].pc = "open" /\ Finish(c, Now(c), {})
    /\ UNCHANGED <<disk, asker>>

AnswerReplace(c) ==
    /\ dialog[c].pc = "asking"
    /\ \/ Finish(c, Now(c), Now(c).result)
       \/ Stays(c, [Now(c) EXCEPT !.pc = "open", !.asked = {}, !.result = {},
                                !.there = {}])
    /\ UNCHANGED <<disk, asker>>

(* The GTK thread learns that the caller closed its request. *)
Withdrawn(c) ==
    /\ call[c].closed /\ dialog[c].pc \in {"open", "asking"}
    /\ Finish(c, Now(c), {})
    /\ UNCHANGED <<disk, asker>>

-------------------------------------------------------------------------------
(* The caller writes what it was answered; a folder goes away (but not under a dialog: what
   such a dialog shows is then out of date; nor the default folder). *)

CallerWrites(c) ==
    /\ call[c].pc = "returned" /\ Asks(c).mode # "Open" /\ call[c].answer.ok
    /\ \E p \in call[c].answer.paths :
          p \in Paths /\ disk[p] = "none" /\ disk' = [disk EXCEPT ![p] = "file"]
    /\ UNCHANGED <<call, dialog, memory, portal, asker>>

FolderVanishes ==
    /\ asker.left > 0
    /\ \A c \in Calls : call[c].pc \notin {"shown", "replied"}
    /\ \E p \in Paths :
          /\ IsDir(p) /\ ~IsPrefix(p, Home)
          /\ disk' = [q \in Paths |-> IF IsPrefix(p, q) THEN "none" ELSE disk[q]]
    /\ asker' = [asker EXCEPT !.left = @ - 1]
    /\ UNCHANGED <<call, dialog, memory, portal>>

UserStep(c) ==
    \/ Accept(c) \/ Navigate(c) \/ ActivateRow(c) \/ Select(c) \/ TypeName(c)
    \/ LocationActivated(c) \/ Refilter(c) \/ NewFolder(c)

CallStep(c) ==
    \/ RunCall(c) \/ RequestClose(c) \/ ReturnCall(c) \/ Present(c) \/ Loaded(c)
    \/ UserStep(c) \/ Dismiss(c) \/ AnswerReplace(c) \/ Withdrawn(c) \/ CallerWrites(c)

ChooserNext ==
    \/ \E c \in Calls : CallStep(c)
    \/ \E t \in portal.timers : TimerFires(t)
    \/ FolderVanishes

(* The loops of the two threads run, timers fire, and a user answers or closes a window before
   long. *)
ChooserFairness ==
    \A c \in Calls :
        /\ WF_chooserVars(Present(c)) /\ WF_chooserVars(ReturnCall(c))
        /\ WF_chooserVars(Dismiss(c)) /\ WF_chooserVars(AnswerReplace(c))

ChooserSpec == ChooserInit /\ [][ChooserNext]_chooserVars /\ ChooserFairness

-------------------------------------------------------------------------------
ChooserTypeOK ==
    /\ disk \in [Paths -> {"none", "dir", "file"}]
    /\ \A c \in Calls :
          /\ call[c].pc \in {"new", "sent", "shown", "replied", "returned", "failed"}
          /\ dialog[c].pc \in {"none", "open", "asking", "done"}
    /\ portal.open \in Nat /\ portal.generation \in Nat

(* build_results and accept: a call is answered in the terms it was asked in, whatever was
   selected, typed and filtered before: one path unless several were asked for, folders when a
   folder is to be picked, files otherwise, SaveFiles with each of its names in one folder, and
   a filter that was offered. While its call waits, a dialog is open, counted, and shows a
   folder that is there. *)
AnswerFits(c) ==
    LET a == call[c].answer IN
    /\ (call[c].pc = "replied" /\ a.ok) =>
        /\ a.filter \in Offered(c) \cup {None}
        /\ Asks(c).mode = "Open" =>
              \A p \in a.paths : Exists(p) /\ (IsDir(p) <=> PicksFolder(c))
        /\ (Asks(c).mode = "Open" /\ Asks(c).multiple) \/ Cardinality(a.paths) = 1
    /\ (call[c].pc = "returned" /\ a.ok /\ Asks(c).mode = "SaveFiles") =>
           \E f \in Paths : a.paths = {Join(f, n) : n \in Asks(c).files}

CallsGetTheirAnswers ==
    /\ ChooserTypeOK
    /\ \A c \in Calls :
          /\ AnswerFits(c)
          /\ call[c].pc = "shown" <=> dialog[c].pc \in {"open", "asking"}
          /\ dialog[c].pc = "open" => IsDir(dialog[c].folder)
    /\ portal.open = Cardinality({c \in Calls : dialog[c].pc \in {"open", "asking"}})

(* confirm_replace: whichever way a save is accepted (the button, a row, a typed path, a name
   the caller suggested), what exists at the answered paths when the dialog answers is what the
   user was asked about (but for what came there while the question was open). *)
ReplacesOnlyAsked ==
    [][\A c \in Calls :
          (call[c].pc = "shown" /\ call'[c].pc = "replied" /\ Asks(c).mode # "Open") =>
              \A p \in BuildResults(c, call'[c].answer.paths) :
                 Exists(p) =>
                    \/ p \in dialog[c].asked
                    \/ dialog[c].pc = "asking" /\ p \notin dialog[c].there
      ]_chooserVars

(* portal_mode.rs:7 "The process exits after a minute with no dialog open": it never quits
   under a dialog, nor on a timer that was set before the last dialog was. *)
QuitsAfterAQuietMinute ==
    [][(portal.alive /\ ~portal'.alive) =>
          /\ \A c \in Calls : dialog[c].pc \notin {"open", "asking"}
          /\ portal'.quitOn.quiet]_chooserVars

(* Every call ends: answered once its dialog is, or failed by the bus when the process quit
   before it took the call from the channel. *)
PortalCallsEnd ==
    \A c \in Calls : (call[c].pc = "sent") ~> (call[c].pc \in {"returned", "failed"})

(* A dialog replaces what its user agreed to, answers its call, and has a process to do so. *)
DialogsAnswer == ReplacesOnlyAsked /\ QuitsAfterAQuietMinute /\ PortalCallsEnd
===============================================================================
