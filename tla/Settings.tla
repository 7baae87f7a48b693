------------------------------- MODULE Settings -------------------------------
(***************************************************************************)
(* config.toml and actions.toml, and who changes them: the settings      *)
(* window, the sidebar, the view and zoom controls, of one window of the *)
(* program or of two, which are processes with a copy of the             *)
(* configuration each.                                                   *)
(*                                                                       *)
(* A save writes the whole copy over the file, which is empty meanwhile. *)
(* It may fail: before the file is touched, or when part of it is there; *)
(* nobody is told, and the window goes on with its copy.                 *)
(* Rows of lists in the settings window know their item by its index.    *)
(***************************************************************************)
EXTENDS Naturals, Sequences, SequencesExt, FiniteSets

CONSTANTS
    Windows,         \* processes
    Bookmarked,      \* folders to pin to the sidebar
    Actions,         \* what shortcuts are for, in the order of default_keybindings
    DefaultKey,      \* DefaultKey[a]
    Keys,            \* what may be pressed
    Sizes,           \* icon sizes
    Themes,          \* looks to choose from
    OldFile,         \* what config.toml may be before the first start: NoFile or configurations
    MaxItems,        \* associations or custom actions ever made (bound)
    SettingScenes    \* does, windows in use, and how often (left) something is done

(* What may be on file: a configuration as the program writes it, of this version or an older
   one, in which no action is bound twice. *)
Shortcuts == [action : ToSet(Actions), key : Keys \cup {DefaultKey[a] : a \in ToSet(Actions)}]
OneEach(bindings) == \A i, j \in DOMAIN bindings : bindings[i].action = bindings[j].action => i = j
Wordings == {"new", "edited", "builtin"}
Configs ==
    [is : {"config"}, bookmarks : Seq(Bookmarked), associations : Seq([id : Nat, text : Wordings]),
     view : {"list", "icons"}, size : Sizes, bindings : {b \in Seq(Shortcuts) : OneEach(b)},
     style : {0, 1}, theme : Themes, general : BOOLEAN, layout : BOOLEAN]
NoFile == [is |-> "no file"]

ASSUME SettingAssumption ==
    /\ Actions \in Seq(ToSet(Actions))
    /\ \A i, j \in DOMAIN Actions : Actions[i] = Actions[j] => i = j
    /\ SettingScenes \subseteq [does : SUBSET STRING, windows : SUBSET Windows, left : Nat]
    /\ (\A s \in SettingScenes : IsFiniteSet(s.windows)) /\ OldFile \subseteq {NoFile} \cup Configs

VARIABLES
    desktop,      \* desktop.toml: the look of the whole desktop, and whether it is all there
    saved,        \* config.toml: NoFile, Half, or a configuration
    actionsFile,  \* actions.toml: NoFile, Half, or custom actions
    win,          \* win[w]: whether it runs, its configuration and custom actions, the timers
                  \* that will save or refresh, whether it is saving, the rows of the settings
                  \* window, the look it has, whether it watches desktop.toml; whether that
                  \* changed before it did, and what the last save of failed (history)
    made,         \* items made so far, which number them
    wanted,       \* per list what the user of the settings made of it (history)
    changing      \* the scene

settingVars == <<desktop, saved, actionsFile, win, made, wanted, changing>>

Half == [is |-> "half"]
Item(n, text) == [id |-> n, text |-> text]
DefaultKeybindings == [i \in 1..Len(Actions) |-> [action |-> Actions[i], key |-> DefaultKey[Actions[i]]]]
DefaultConfig == [is |-> "config", bookmarks |-> << >>, associations |-> << >>, view |-> "list",
                  size |-> CHOOSE s \in Sizes : TRUE, bindings |-> DefaultKeybindings, style |-> 1,
                  theme |-> "raven", general |-> FALSE, layout |-> TRUE]
Builtin == <<Item(0, "builtin")>>
NoRows == [open |-> FALSE, associations |-> {}, actions |-> {}, bindings |-> {}, capturing |-> {}]
Off == [on |-> FALSE, config |-> DefaultConfig, actions |-> << >>, timers |-> {}, writing |-> FALSE,
        rows |-> NoRows, look |-> "dark", watching |-> FALSE, missed |-> FALSE, unsaved |-> {}]

MayDo(w, what) == /\ win[w].on /\ ~win[w].writing /\ what \in changing.does /\ changing.left > 0
                 /\ changing' = [changing EXCEPT !.left = @ - 1]

-------------------------------------------------------------------------------
(* Loading and saving. *)

Bound(bindings) == {bindings[i].action : i \in DOMAIN bindings}
(* The numbers of a set, one after another. *)
Ascending(S) == CHOOSE f \in [1..Cardinality(S) -> S] : \A i, j \in DOMAIN f : i < j => f[i] < f[j]
(* The defaults of actions that are not bound, in their order. *)
WithMissingDefaults(bindings) ==
    LET missing == Ascending({i \in DOMAIN Actions : Actions[i] \notin Bound(bindings)})
    IN  bindings \o [i \in DOMAIN missing |-> DefaultKeybindings[missing[i]]]

(* A file that cannot be parsed, or is empty, reads as the defaults. *)
LoadedFrom(file) ==
    LET config == IF file.is = "config" THEN file ELSE DefaultConfig
        whole == [config EXCEPT !.bindings = WithMissingDefaults(@)]
    IN  IF whole.style = 0 THEN [whole EXCEPT !.theme = "raven", !.style = 1] ELSE whole

SettingInit ==
    /\ changing \in SettingScenes
    /\ desktop = [look |-> "dark", whole |-> TRUE]
    /\ saved \in OldFile /\ actionsFile = NoFile
    /\ win = [w \in Windows |-> Off] /\ made = 0
    /\ wanted = [associations |-> << >>, actions |-> << >>, keys |-> << >>, bookmarks |-> << >>,
                 theme |-> LoadedFrom(saved).theme]

(* The colours of a theme; those of the desktop, or the defaults if desktop.toml is not all
   there, for the theme that follows it. *)
Look(theme) == IF theme # "raven" THEN theme ELSE IF desktop.whole THEN desktop.look ELSE "dark"

MayFail == "fails" \in changing.does

(* The write has begun, and the file is empty until it ends; or there is no directory or no
   file to write to. *)
Save(w, state) ==
    \/ saved' = Half /\ win' = [win EXCEPT ![w] = [state EXCEPT !.writing = TRUE]]
    \/ MayFail /\ saved' = saved /\ win' = [win EXCEPT ![w] = [state EXCEPT !.unsaved = @ \cup {"config"}]]
Change(w, config) == Save(w, [win[w] EXCEPT !.config = config])

SaveEnds(w) ==
    /\ win[w].writing
    /\ saved' = win[w].config
    /\ win' = [win EXCEPT ![w].writing = FALSE, ![w].unsaved = @ \ {"config"}]
    /\ UNCHANGED <<desktop, actionsFile, made, wanted, changing>>

(* What is left of a file that is cut short: nothing that can be parsed, or the sections before
   the cut, the associations being the last. *)
CutShort(config) ==
    {Half, [config EXCEPT !.associations = << >>],
     [config EXCEPT !.bookmarks = << >>, !.bindings = << >>, !.associations = << >>]}

SaveFails(w) ==
    /\ win[w].writing /\ MayFail
    /\ saved' \in CutShort(win[w].config)
    /\ win' = [win EXCEPT ![w].writing = FALSE, ![w].unsaved = @ \cup {"config"}]
    /\ UNCHANGED <<desktop, actionsFile, made, wanted, changing>>

(* custom_actions.rs: load. *)
ActionsFrom(file) == IF file.is = "actions" THEN file.list ELSE Builtin

WantAsLoaded(config, actions) ==
    wanted' = [wanted EXCEPT !.associations = config.associations, !.actions = actions,
                             !.keys = config.bindings, !.bookmarks = config.bookmarks]

Launch(w) ==
    /\ ~win[w].on /\ w \in changing.windows
    /\ "launch" \in changing.does /\ changing.left > 0 /\ changing' = [changing EXCEPT !.left = @ - 1]
    /\ LET config == LoadedFrom(saved)
           actions == ActionsFrom(actionsFile)
           state == [Off EXCEPT !.on = TRUE, !.config = config, !.actions = actions,
                                !.look = Look(config.theme)]
       IN  /\ IF saved.is = "config" /\ saved.style = 0 THEN Save(w, state)
              ELSE win' = [win EXCEPT ![w] = state] /\ UNCHANGED saved
           /\ WantAsLoaded(config, actions)
    /\ UNCHANGED <<desktop, actionsFile, made>>

(* The window is closed, with what its timers had yet to save, and what could not be saved. *)
Quit(w) ==
    /\ MayDo(w, "quit") /\ win' = [win EXCEPT ![w] = Off]
    /\ wanted' = IF "config" \in win[w].unsaved
                 THEN [wanted EXCEPT !.theme = LoadedFrom(saved).theme] ELSE wanted
    /\ UNCHANGED <<desktop, saved, actionsFile, made>>

Crash(w) ==
    /\ win[w].on /\ "crash" \in changing.does /\ win' = [win EXCEPT ![w] = Off]
    /\ UNCHANGED <<desktop, saved, actionsFile, made, wanted, changing>>

-------------------------------------------------------------------------------
(* The sidebar, the view buttons, the zoom. *)

Without(list, f) == SelectSeq(list, LAMBDA b : b # f)

Pin(w, f) ==
    /\ MayDo(w, "pin") /\ ~Contains(win[w].config.bookmarks, f)
    /\ Change(w, [win[w].config EXCEPT !.bookmarks = Append(@, f)])
    /\ wanted' = [wanted EXCEPT !.bookmarks = Append(@, f)]
    /\ UNCHANGED <<desktop, actionsFile, made>>

Unpin(w, f) ==
    /\ MayDo(w, "pin") /\ Contains(win[w].config.bookmarks, f)
    /\ Change(w, [win[w].config EXCEPT !.bookmarks = Without(@, f)])
    /\ wanted' = [wanted EXCEPT !.bookmarks = Without(@, f)]
    /\ UNCHANGED <<desktop, actionsFile, made>>

SetViewMode(w, mode) ==
    /\ MayDo(w, "view") /\ win[w].config.view # mode
    /\ Change(w, [win[w].config EXCEPT !.view = mode])
    /\ UNCHANGED <<desktop, actionsFile, made, wanted>>

(* The settings window's theme row. *)
SetTheme(w, theme) ==
    /\ MayDo(w, "theme") /\ win[w].rows.open /\ win[w].config.theme # theme
    /\ Save(w, [win[w] EXCEPT !.config.theme = theme, !.look = Look(theme)])
    /\ wanted' = [wanted EXCEPT !.theme = theme]
    /\ UNCHANGED <<desktop, actionsFile, made>>

(* The switches of the general page, and of the layout: hidden files, questions before
   deleting, the sidebar... Each saves at once. *)
GeneralSwitch(w, on) ==
    /\ MayDo(w, "switch") /\ win[w].rows.open /\ win[w].config.general # on
    /\ Change(w, [win[w].config EXCEPT !.general = on])
    /\ UNCHANGED <<desktop, actionsFile, made, wanted>>

LayoutSwitch(w, on) ==
    /\ MayDo(w, "switch") /\ win[w].rows.open /\ win[w].config.layout # on
    /\ Change(w, [win[w].config EXCEPT !.layout = on])
    /\ UNCHANGED <<desktop, actionsFile, made, wanted>>

(* The size is saved once it has stayed for a while: each change starts the wait anew. *)
Zoom(w, size) ==
    /\ MayDo(w, "zoom") /\ win[w].config.size # size
    /\ win' = [win EXCEPT ![w].config.size = size, ![w].timers = @ \cup {"zoom"}]
    /\ UNCHANGED <<desktop, saved, actionsFile, made, wanted>>

ZoomSettled(w) ==
    /\ win[w].on /\ ~win[w].writing /\ "zoom" \in win[w].timers
    /\ Save(w, [win[w] EXCEPT !.timers = @ \ {"zoom"}])
    /\ UNCHANGED <<desktop, actionsFile, made, wanted, changing>>

(* themes.rs: the monitor of the directory starts after the look is first read. *)
WatchDesktop(w) ==
    /\ win[w].on /\ ~win[w].watching /\ win' = [win EXCEPT ![w].watching = TRUE]
    /\ UNCHANGED <<desktop, saved, actionsFile, made, wanted, changing>>

(* The file is seen to change: the look is read again when that is over. *)
DesktopEvent ==
    win' = [w \in Windows |->
              IF win[w].watching THEN [win[w] EXCEPT !.timers = @ \cup {"desktop"}]
              ELSE [win[w] EXCEPT !.missed = win[w].on]]

(* Raven Settings writes the file, in two steps like everybody. *)
WriteDesktop(look) ==
    /\ "desktop" \in changing.does /\ changing.left > 0 /\ desktop.whole /\ desktop.look # look
    /\ changing' = [changing EXCEPT !.left = @ - 1]
    /\ desktop' = [look |-> look, whole |-> FALSE] /\ DesktopEvent
    /\ UNCHANGED <<saved, actionsFile, made, wanted>>

DesktopWritten ==
    /\ ~desktop.whole /\ desktop' = [desktop EXCEPT !.whole = TRUE] /\ DesktopEvent
    /\ UNCHANGED <<saved, actionsFile, made, wanted, changing>>

DesktopSettled(w) ==
    /\ win[w].on /\ "desktop" \in win[w].timers
    /\ win' = [win EXCEPT ![w].look = Look(win[w].config.theme), ![w].timers = @ \ {"desktop"}]
    /\ UNCHANGED <<desktop, saved, actionsFile, made, wanted, changing>>

-------------------------------------------------------------------------------
(* The settings window. A row is made for an item, and keeps the index it had then. *)

RowsOf(list) == {[index |-> i, id |-> list[i].id] : i \in DOMAIN list}
KeyRows(bindings) == {[index |-> i, action |-> bindings[i].action] : i \in DOMAIN bindings}
Edited(list, i, text) == IF i \in DOMAIN list THEN [list EXCEPT ![i].text = text] ELSE list
Removed(list, i) == IF i \in DOMAIN list THEN RemoveAt(list, i) ELSE list
Where(list, id) == CHOOSE i \in DOMAIN list : list[i].id = id
Rows(w) == win[w].rows

OpenSettings(w) ==
    /\ MayDo(w, "settings") /\ ~Rows(w).open
    /\ win' = [win EXCEPT ![w].rows =
                 [open |-> TRUE, associations |-> RowsOf(win[w].config.associations),
                  actions |-> RowsOf(win[w].actions), bindings |-> KeyRows(win[w].config.bindings),
                  capturing |-> {}]]
    /\ UNCHANGED <<desktop, saved, actionsFile, made, wanted>>

(* build_file_associations_page: a new one is not saved until something is. *)
AddAssociation(w) ==
    /\ MayDo(w, "associations") /\ Rows(w).open /\ made < MaxItems /\ made' = made + 1
    /\ LET list == Append(win[w].config.associations, Item(made', "new"))
       IN  /\ win' = [win EXCEPT ![w].config.associations = list,
                        ![w].rows.associations = @ \cup {[index |-> Len(list), id |-> made']}]
           /\ wanted' = [wanted EXCEPT !.associations = Append(@, Item(made', "new"))]
    /\ UNCHANGED <<desktop, saved, actionsFile>>

(* build_association_row: the entries. *)
EditAssociation(w, r) ==
    /\ MayDo(w, "associations") /\ r \in Rows(w).associations
    /\ LET list == win[w].config.associations
       IN  IF r.index \in DOMAIN list
           THEN Change(w, [win[w].config EXCEPT !.associations = Edited(list, r.index, "edited")])
           ELSE UNCHANGED <<win, saved>>
    /\ wanted' = [wanted EXCEPT !.associations = Edited(@, Where(@, r.id), "edited")]
    /\ UNCHANGED <<desktop, actionsFile, made>>

(* The delete button: the other rows keep their indexes. *)
RemoveAssociation(w, r) ==
    /\ MayDo(w, "associations") /\ r \in Rows(w).associations
    /\ LET list == win[w].config.associations
           left == [win[w] EXCEPT !.rows.associations = @ \ {r},
                                  !.config.associations = Removed(list, r.index)]
       IN  IF r.index \in DOMAIN list THEN Save(w, left)
           ELSE win' = [win EXCEPT ![w] = left] /\ UNCHANGED saved
    /\ wanted' = [wanted EXCEPT !.associations = Removed(@, Where(@, r.id))]
    /\ UNCHANGED <<desktop, actionsFile, made>>

(* settings_actions.rs: every change is saved, and the page is made anew when the list gets
   longer or shorter. A file that is cut short has what is before the cut, or cannot be parsed. *)
AsFile(list) == [is |-> "actions", list |-> list]
Persist(w, list, rows) ==
    \/ /\ actionsFile' = AsFile(list)
       /\ win' = [win EXCEPT ![w].actions = list, ![w].rows.actions = rows,
                             ![w].unsaved = @ \ {"actions"}]
    \/ /\ MayFail
       /\ actionsFile' \in {actionsFile, Half} \cup {AsFile(SubSeq(list, 1, n)) : n \in 0..(Len(list) - 1)}
       /\ win' = [win EXCEPT ![w].actions = list, ![w].rows.actions = rows,
                             ![w].unsaved = @ \cup {"actions"}]

AddAction(w) ==
    /\ MayDo(w, "actions") /\ Rows(w).open /\ made < MaxItems /\ made' = made + 1
    /\ LET list == Append(win[w].actions, Item(made', "new")) IN Persist(w, list, RowsOf(list))
    /\ wanted' = [wanted EXCEPT !.actions = Append(@, Item(made', "new"))]
    /\ UNCHANGED <<desktop, saved>>

EditAction(w, r) ==
    /\ MayDo(w, "actions") /\ r \in Rows(w).actions /\ r.index \in DOMAIN win[w].actions
    /\ Persist(w, Edited(win[w].actions, r.index, "edited"), Rows(w).actions)
    /\ wanted' = [wanted EXCEPT !.actions = Edited(@, Where(@, r.id), "edited")]
    /\ UNCHANGED <<desktop, saved, made>>

(* Mutant: only the row goes. *)
RemoveActionRow(w, r) ==
    /\ MayDo(w, "actions") /\ r \in Rows(w).actions /\ r.index \in DOMAIN win[w].actions
    /\ Persist(w, Removed(win[w].actions, r.index), Rows(w).actions \ {r})
    /\ wanted' = [wanted EXCEPT !.actions = Removed(@, Where(@, r.id))]
    /\ UNCHANGED <<desktop, saved, made>>

RemoveAction(w, r) ==
    /\ MayDo(w, "actions") /\ r \in Rows(w).actions /\ r.index \in DOMAIN win[w].actions
    /\ LET list == Removed(win[w].actions, r.index) IN Persist(w, list, RowsOf(list))
    /\ wanted' = [wanted EXCEPT !.actions = Removed(@, Where(@, r.id))]
    /\ UNCHANGED <<desktop, saved, made>>

RestoreActions(w) ==
    /\ MayDo(w, "actions") /\ Rows(w).open /\ Persist(w, Builtin, RowsOf(Builtin))
    /\ wanted' = [wanted EXCEPT !.actions = Builtin]
    /\ UNCHANGED <<desktop, saved, made>>

(* build_keybinding_row: a row waits for a key, or for Escape. *)
Capture(w, r) ==
    /\ MayDo(w, "keys") /\ r \in Rows(w).bindings \ Rows(w).capturing
    /\ win' = [win EXCEPT ![w].rows.capturing = @ \cup {r}]
    /\ UNCHANGED <<desktop, saved, actionsFile, made, wanted>>

Press(w, r, key) ==
    /\ MayDo(w, "keys") /\ r \in Rows(w).capturing
    /\ LET state == [win[w] EXCEPT !.rows.capturing = @ \ {r}]
       IN  IF key = "Escape" THEN win' = [win EXCEPT ![w] = state] /\ UNCHANGED <<saved, wanted>>
           ELSE /\ Save(w, [state EXCEPT !.config.bindings =
                             IF r.index \in DOMAIN @ THEN [@ EXCEPT ![r.index].key = key] ELSE @])
                /\ wanted' = [wanted EXCEPT !.keys =
                      [i \in DOMAIN @ |-> IF @[i].action = r.action THEN [@[i] EXCEPT !.key = key]
                                          ELSE @[i]]]
    /\ UNCHANGED <<desktop, actionsFile, made>>

ResetKeys(w) ==
    /\ MayDo(w, "keys") /\ Rows(w).open
    /\ Save(w, [win[w] EXCEPT !.config.bindings = DefaultKeybindings,
                    !.rows.bindings = KeyRows(DefaultKeybindings), !.rows.capturing = {}])
    /\ wanted' = [wanted EXCEPT !.keys = DefaultKeybindings]
    /\ UNCHANGED <<desktop, actionsFile, made>>

SettingNext ==
    \E w \in Windows :
       \/ WatchDesktop(w) \/ DesktopSettled(w) \/ DesktopWritten
       \/ \E look \in {"dark", "light"} : WriteDesktop(look)
       \/ SaveEnds(w) \/ SaveFails(w) \/ Launch(w) \/ Quit(w) \/ Crash(w) \/ ZoomSettled(w)
       \/ \E f \in Bookmarked : Pin(w, f) \/ Unpin(w, f)
       \/ \E mode \in {"list", "icons"} : SetViewMode(w, mode)
       \/ \E theme \in Themes : SetTheme(w, theme)
       \/ \E on \in BOOLEAN : GeneralSwitch(w, on) \/ LayoutSwitch(w, on)
       \/ \E size \in Sizes : Zoom(w, size)
       \/ OpenSettings(w) \/ AddAssociation(w) \/ AddAction(w) \/ RestoreActions(w) \/ ResetKeys(w)
       \/ \E r \in Rows(w).associations : EditAssociation(w, r) \/ RemoveAssociation(w, r)
       \/ \E r \in Rows(w).actions : EditAction(w, r) \/ RemoveAction(w, r)
       \/ \E r \in Rows(w).bindings : Capture(w, r) \/ \E key \in Keys : Press(w, r, key)

SettingSpec == SettingInit /\ [][SettingNext]_settingVars

-------------------------------------------------------------------------------
AtRest(w) == win[w].on /\ ~win[w].writing /\ "zoom" \notin win[w].timers
Alone == Cardinality(changing.windows) = 1 /\ "crash" \notin changing.does
AllBlank(list) == \A i \in DOMAIN list : list[i].text = "new"

(* config.rs: what a window that is the only one has been told can be read from the files once
   it has settled, but for associations nothing was said of yet, and for a file whose last save
   failed: the next that does not makes up for it, as each save is of all there is. *)
SettledIsSaved ==
    Alone => \A w \in Windows : AtRest(w) =>
       LET config == win[w].config
           onFile == LoadedFrom(saved)
           told == Len(onFile.associations)
       IN  /\ "config" \notin win[w].unsaved =>
                /\ [onFile EXCEPT !.associations = << >>] = [config EXCEPT !.associations = << >>]
                /\ IsPrefix(onFile.associations, config.associations)
                /\ AllBlank(SubSeq(config.associations, told + 1, Len(config.associations)))
           /\ "actions" \notin win[w].unsaved => win[w].actions = ActionsFrom(actionsFile)

(* config.rs:612 "so a config written by an older version still reaches the newer actions",
   config.rs:206 and settings_actions.rs:127 "so indexes stay right": every action has a
   shortcut in every window, whatever was on file; and the one settings window changes the
   shortcut, the action and the bookmark that its user means. A look chosen since the switch to
   the present one stays (config.rs:680 "never overridden again"), also in windows opened later
   if the save it was closed after did not fail. *)
EditsReachTheirItem ==
    \A w \in Windows : win[w].on =>
       /\ Bound(win[w].config.bindings) = ToSet(Actions)
       /\ Alone => /\ win[w].actions = wanted.actions
                   /\ win[w].config.bindings = wanted.keys
                   /\ win[w].config.bookmarks = wanted.bookmarks
                   /\ win[w].config.theme = wanted.theme

(* themes.rs:345 "Follow `desktop.toml`, so a change made in Raven Settings shows here at
   once": once the file has settled, a window has the look of its theme, or of the desktop,
   unless the file changed before the window watched it. *)
LookFollowsDesktop ==
    \A w \in Windows : win[w].on /\ desktop.whole /\ "desktop" \notin win[w].timers
                     /\ ~win[w].missed => win[w].look = Look(win[w].config.theme)

(* What the user sets is on file, in force, and of the item it was set for. *)
SettingsAreKept == SettledIsSaved /\ EditsReachTheirItem /\ LookFollowsDesktop
===============================================================================
