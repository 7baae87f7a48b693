------------------------------ MODULE Plugins ------------------------------
(***************************************************************************)
(* The plugin manager, the blocking tasks that wait for its lock, and    *)
(* what the window shows of it: the menu of actions and the settings     *)
(* page.                                                                 *)
(*                                                                       *)
(* A load, an unload, a chosen action and a broadcast are each a task of *)
(* their own; the lock goes to any of them, and is held while scripts    *)
(* run. A task that waits stands for its command in the channel as well. *)
(* A load or unload runs no script, so it is one step.  Plugins that     *)
(* need the Lua or WASM runtime are refused where a missing script is.   *)
(***************************************************************************)
EXTENDS Naturals, Sequences, FiniteSets, SequencesExt

CONSTANTS
    Copies,            \* plugin folders
    IdOf,              \* IdOf[c]: the id in the manifest of c
    Offers,            \* Offers[c]: the actions c registers
    Missing,           \* folders whose entry point is missing
    Blank,             \* folders with a further action that has no name
    Selections,        \* what can be selected, apart from nothing
    PluginFolders,     \* what can be listed
    None,
    PluginUsers        \* what there is, and what the user does: see UserSet

WantNames == {"settings", "switch", "select", "pane", "action", "navigate"}
PluginIds == {IdOf[c] : c \in Copies}
PluginSides == {"left", "right"}

\* The folders in the plugin directories, enabled_plugins when the program
\* starts, what the user does and how often, and whether a switch is flipped
\* again only when its last command is done.
UserSet ==
    [installed : SUBSET Copies, listed : SUBSET PluginIds, does : SUBSET WantNames, left : Nat, patient : BOOLEAN]

\* The blocking tasks: startup tells of no folder.
Tasks ==
    [no : Nat \cup {None}, what : {"broadcast"}, folder : PluginFolders \cup {None}]
        \cup [no : Nat, what : {"load", "unload"}, id : PluginIds, copy : Copies]
        \cup [no : Nat, what : {"action"}, id : PluginIds, action : UNION {Offers[c] : c \in Copies},
              paths : Selections \cup {None}]

ASSUME PluginsAssumption ==
    /\ Missing \cup Blank \subseteq Copies /\ PluginUsers \subseteq UserSet
    /\ None \notin Copies \cup PluginIds \cup Selections \cup PluginFolders \cup Tasks \cup UNION {Offers[c] : c \in Copies}

VARIABLES
    enabled,          \* enabled_plugins
    disabled,         \* disabled_plugins
    booting,          \* folders that startup has still to load
    loaded,           \* PluginManager.plugins: the folder behind each id
    registry,         \* ActionRegistry: <<id, action>>
    tasks,            \* blocking tasks that have not ended
    lock,             \* the one that holds the manager
    running,          \* the script it waits for
    todo,             \* plugins its broadcast has still to call
    heard,            \* the directory each plugin was last told of
    pluginEvents,     \* for the window
    shown,            \* loaded_plugins of the window
    menu,             \* plugin_actions of the window
    switch,           \* the switches of the settings page
    sel,              \* what is selected in each pane
    side,             \* the pane that is active
    published,        \* SharedSelection
    scheduled,        \* an idle callback will publish the selection
    pluginUser        \* what there is, and what the user does yet

config == <<enabled, disabled>>
manager == <<loaded, registry>>
script == <<running, todo, heard>>
window == <<shown, menu>>
selection == <<sel, side, published, scheduled>>
pluginVars == <<config, booting, manager, tasks, lock, script, pluginEvents, window,
                switch, selection, pluginUser>>

IsEnabledIn(id, on, off) == id \notin off /\ (on = {} \/ id \in on)
IsEnabled(id) == IsEnabledIn(id, enabled, disabled)
LoadedIds == {id \in PluginIds : loaded[id] # None}

PluginInit ==
    /\ pluginUser \in PluginUsers /\ enabled = pluginUser.listed /\ disabled = {}
    /\ booting = {c \in pluginUser.installed : IsEnabledIn(IdOf[c], pluginUser.listed, {})}
    /\ loaded = [id \in PluginIds |-> None] /\ registry = {}
    /\ tasks = {[no |-> None, what |-> "broadcast", folder |-> None]}
    /\ lock = None /\ running = None /\ todo = {} /\ heard = [id \in PluginIds |-> None]
    /\ pluginEvents = << >> /\ shown = {} /\ menu = {} /\ switch = None
    /\ sel = [x \in PluginSides |-> None] /\ published = None
    /\ side = "left" /\ scheduled = FALSE

Error(id) == [what |-> "error", id |-> id]

(***************************************************************************)
(* Loading and unloading.                                                *)
(***************************************************************************)
Without(id) == {a \in registry : a[1] # id}
Announced(after) ==
    IF after = registry THEN << >> ELSE <<[what |-> "actions", actions |-> after]>>

Refused(id) == [host |-> loaded[id], actions |-> registry, sent |-> <<Error(id)>>]

AfterLoad(c) ==
    LET id == IdOf[c]
        after == registry \cup ({id} \X Offers[c]) IN
    IF loaded[id] # None \/ c \in Missing THEN Refused(id)
    ELSE IF c \in Blank THEN [Refused(id) EXCEPT !.actions = Without(id)]
    ELSE [host |-> c, actions |-> after,
          sent |-> <<[what |-> "loaded", id |-> id]>> \o Announced(after)]

\* Mutant: the actions are compared before they are removed.
AfterUnloadEarly(id) ==
    IF loaded[id] = None THEN Refused(id)
    ELSE [host |-> None, actions |-> Without(id), sent |-> <<[what |-> "unloaded", id |-> id]>>]
AfterUnload(id) ==
    IF loaded[id] = None THEN Refused(id)
    ELSE [host |-> None, actions |-> Without(id),
          sent |-> Announced(Without(id)) \o <<[what |-> "unloaded", id |-> id]>>]

Put(id, after) == loaded' = [loaded EXCEPT ![id] = after.host] /\ registry' = after.actions

Fails(c) == loaded[IdOf[c]] # None \/ c \in Missing \cup Blank

\* Startup loads what is enabled, and only logs what fails.
StartupLoad(c) ==
    /\ c \in booting
    /\ LET after == AfterLoad(c) IN
        /\ Put(IdOf[c], after)
        /\ pluginEvents' = IF Fails(c) THEN pluginEvents ELSE pluginEvents \o after.sent
    /\ booting' = booting \ {c}
    /\ UNCHANGED <<config, tasks, lock, script, window, switch, selection, pluginUser>>

Locks(t, what) == booting = {} /\ lock = None /\ t \in tasks /\ t.what = what

LoadPlugin(t) ==
    /\ Locks(t, "load")
    /\ LET after == AfterLoad(t.copy) IN Put(t.id, after) /\ pluginEvents' = pluginEvents \o after.sent
    /\ tasks' = tasks \ {t}
    /\ UNCHANGED <<config, booting, lock, script, window, switch, selection, pluginUser>>

UnloadPlugin(t) ==
    /\ Locks(t, "unload")
    /\ LET after == AfterUnload(t.id) IN Put(t.id, after) /\ pluginEvents' = pluginEvents \o after.sent
    /\ tasks' = tasks \ {t}
    /\ UNCHANGED <<config, booting, lock, script, window, switch, selection, pluginUser>>

(***************************************************************************)
(* Scripts.                                                              *)
(***************************************************************************)
Script(id, action, paths) ==
    [id |-> id, copy |-> loaded[id], action |-> action, paths |-> paths, selection |-> published]

\* A chosen action whose plugin is gone, or does not have it any more.
RefuseAction(t) ==
    /\ Locks(t, "action") /\ (loaded[t.id] = None \/ <<t.id, t.action>> \notin registry)
    /\ tasks' = tasks \ {t} /\ pluginEvents' = Append(pluginEvents, Error(t.id))
    /\ UNCHANGED <<config, booting, manager, lock, script, window, switch, selection, pluginUser>>

InvokeAction(t) ==
    /\ Locks(t, "action") /\ loaded[t.id] # None /\ <<t.id, t.action>> \in registry
    /\ lock' = t /\ running' = Script(t.id, t.action, t.paths)
    /\ UNCHANGED <<config, booting, manager, tasks, todo, heard, pluginEvents, window,
                   switch, selection, pluginUser>>

Broadcast(t) ==
    /\ Locks(t, "broadcast")
    /\ lock' = t /\ todo' = LoadedIds
    /\ UNCHANGED <<config, booting, manager, tasks, running, heard, pluginEvents, window,
                   switch, selection, pluginUser>>

CallHook(id) ==
    /\ lock # None /\ running = None /\ id \in todo
    /\ running' = Script(id, None, None)
    /\ heard' = [heard EXCEPT ![id] = lock.folder] /\ todo' = todo \ {id}
    /\ UNCHANGED <<config, booting, manager, tasks, lock, pluginEvents, window, switch,
                   selection, pluginUser>>

BroadcastEnds ==
    /\ lock # None /\ running = None /\ todo = {}
    /\ lock' = None /\ tasks' = tasks \ {lock}
    /\ UNCHANGED <<config, booting, manager, script, pluginEvents, window, switch,
                   selection, pluginUser>>

\* A script that fails is reported; a broadcast goes on to the next plugin.
AfterScript(ok) ==
    [events |-> IF ok THEN pluginEvents ELSE Append(pluginEvents, Error(running.id)), todo |-> todo]
ScriptEnds(ok) ==
    /\ running # None /\ running' = None
    /\ pluginEvents' = AfterScript(ok).events /\ todo' = AfterScript(ok).todo
    /\ IF running.action = None THEN UNCHANGED <<lock, tasks>>
       ELSE lock' = None /\ tasks' = tasks \ {lock}
    /\ UNCHANGED <<config, booting, manager, heard, window, switch, selection, pluginUser>>

(***************************************************************************)
(* The window.                                                           *)
(***************************************************************************)
ReadEvent ==
    /\ pluginEvents # << >> /\ pluginEvents' = Tail(pluginEvents)
    /\ LET e == Head(pluginEvents) IN
        /\ shown' = CASE e.what = "loaded" -> shown \cup {e.id}
                      [] e.what = "unloaded" -> shown \ {e.id}
                      [] OTHER -> shown
        /\ menu' = IF e.what = "actions" THEN e.actions ELSE menu
    /\ UNCHANGED <<config, booting, manager, tasks, lock, script, switch, selection, pluginUser>>

Wants(name) ==
    name \in pluginUser.does /\ pluginUser.left > 0 /\ pluginUser' = [pluginUser EXCEPT !.left = @ - 1]
Spawn(task) == tasks' = tasks \cup {task}

\* The settings page is opened, or its folders are scanned again.
Rescan ==
    /\ Wants("settings")
    /\ switch' = [c \in pluginUser.installed |-> IdOf[c] \in shown]
    /\ UNCHANGED <<config, booting, manager, tasks, lock, script, pluginEvents, window, selection>>

\* Mutant of Chosen: a plugin that is switched on is always listed.
ChosenListed(id, on) ==
    IF on THEN [enabled |-> enabled \cup {id}, disabled |-> disabled \ {id}]
    ELSE [enabled |-> enabled \ {id}, disabled |-> disabled \cup {id}]

\* set_plugin_enabled
Chosen(id, on) ==
    IF on THEN [enabled |-> IF enabled = {} THEN {} ELSE enabled \cup {id}, disabled |-> disabled \ {id}]
    ELSE [enabled |-> enabled \ {id}, disabled |-> disabled \cup {id}]

Waits(id) == \E t \in tasks : t.what \in {"load", "unload"} /\ t.id = id

Flip(c) ==
    /\ switch # None /\ (pluginUser.patient => ~Waits(IdOf[c]))
    /\ Wants("switch")
    /\ LET id == IdOf[c]
           on == ~switch[c] IN
        /\ enabled' = Chosen(id, on).enabled /\ disabled' = Chosen(id, on).disabled
        /\ Spawn([no |-> pluginUser'.left, what |-> IF on THEN "load" ELSE "unload", id |-> id, copy |-> c])
        /\ switch' = [switch EXCEPT ![c] = on]
    /\ UNCHANGED <<booting, manager, lock, script, pluginEvents, window, selection>>

\* Any change of a selection, or of the pane that is active, is published when the window is idle.
Select(x, s) ==
    /\ Wants("select") /\ s # sel[x]
    /\ sel' = [sel EXCEPT ![x] = s] /\ scheduled' = TRUE
    /\ UNCHANGED <<config, booting, manager, tasks, lock, script, pluginEvents, window,
                   switch, side, published>>

SwitchSide ==
    /\ Wants("pane")
    /\ side' = CHOOSE x \in PluginSides : x # side
    /\ scheduled' = TRUE
    /\ UNCHANGED <<config, booting, manager, tasks, lock, script, pluginEvents, window,
                   switch, sel, published>>

Publish ==
    /\ scheduled /\ scheduled' = FALSE /\ published' = sel[side]
    /\ UNCHANGED <<config, booting, manager, tasks, lock, script, pluginEvents, window,
                   switch, sel, side, pluginUser>>

ChooseAction(id, action) ==
    /\ <<id, action>> \in menu /\ Wants("action")
    /\ published' = sel[side]
    /\ Spawn([no |-> pluginUser'.left, what |-> "action", id |-> id, action |-> action, paths |-> sel[side]])
    /\ UNCHANGED <<config, booting, manager, lock, script, pluginEvents, window, switch,
                   sel, side, scheduled>>

Navigate(folder) ==
    /\ Wants("navigate")
    /\ Spawn([no |-> pluginUser'.left, what |-> "broadcast", folder |-> folder])
    /\ UNCHANGED <<config, booting, manager, lock, script, pluginEvents, window, switch, selection>>

TaskStep ==
    \/ \E c \in booting : StartupLoad(c)
    \/ \E t \in tasks :
        \/ LoadPlugin(t) \/ UnloadPlugin(t)
        \/ RefuseAction(t) \/ InvokeAction(t) \/ Broadcast(t)
    \/ \E id \in PluginIds : CallHook(id)
    \/ BroadcastEnds
ScriptStep == \E ok \in BOOLEAN : ScriptEnds(ok)
WindowStep == ReadEvent \/ Publish
UserStep ==
    \/ Rescan
    \/ \E c \in pluginUser.installed : Flip(c)
    \/ \E x \in PluginSides, s \in Selections \cup {None} : Select(x, s)
    \/ SwitchSide
    \/ \E a \in menu : ChooseAction(a[1], a[2])
    \/ \E f \in PluginFolders : Navigate(f)
PluginNext == TaskStep \/ ScriptStep \/ WindowStep \/ UserStep

PluginSpec == PluginInit /\ [][PluginNext]_pluginVars
\* The runtime runs its blocking tasks, scripts end, and the window is not stuck.
PluginFairSpec ==
    PluginSpec /\ WF_pluginVars(TaskStep) /\ WF_pluginVars(ScriptStep) /\ WF_pluginVars(WindowStep)

(***************************************************************************)
(* Properties.                                                           *)
(***************************************************************************)
\* The state is what the code's types and its locks allow: the task inside the
\* manager is one that has not ended, and a script runs for a task inside.
PluginTypeOK ==
    /\ enabled \subseteq PluginIds /\ disabled \subseteq PluginIds /\ booting \subseteq Copies
    /\ loaded \in [PluginIds -> Copies \cup {None}] /\ \A id \in LoadedIds : IdOf[loaded[id]] = id
    /\ tasks \subseteq Tasks /\ lock \in tasks \cup {None}
    /\ running # None => lock # None
    /\ todo \subseteq PluginIds /\ heard \in [PluginIds -> PluginFolders \cup {None}]
    /\ shown \subseteq PluginIds /\ switch \in [pluginUser.installed -> BOOLEAN] \cup {None}
    /\ sel \in [PluginSides -> Selections \cup {None}] /\ side \in PluginSides
    /\ published \in Selections \cup {None}
    /\ scheduled \in BOOLEAN /\ pluginUser \in UserSet

\* The registry holds the actions of the plugins that are loaded, and no
\* others: a load that fails halfway and an unload leave none behind
\* (actions.rs: the manager drops a plugin's actions when it unloads).
RegistryIsOfLoaded == registry = UNION {{id} \X Offers[loaded[id]] : id \in LoadedIds}

\* When the window has read what it was sent, it offers just the actions that
\* are registered, and lists just the plugins that are loaded.
MenuIsCurrent == pluginEvents = << >> => menu = registry /\ shown = LoadedIds

\* What is offered is what the plugins that are loaded have.
MenuIsOfLoaded == PluginTypeOK /\ RegistryIsOfLoaded /\ MenuIsCurrent

\* A script is run for the plugin that is loaded under its id, which stays
\* loaded while it runs; and for an action, which it registered: also when the
\* menu it was chosen from is out of date, or another copy was loaded since.
RunsWhatIsLoaded ==
    running # None =>
        /\ loaded[running.id] = running.copy
        /\ running.action # None => running.action \in Offers[running.copy]

\* When a broadcast ends every plugin that is loaded has been called, whether
\* or not the ones before it failed.
BroadcastReachesAll ==
    [][lock # None /\ lock.what = "broadcast" /\ lock' = None =>
        \A id \in LoadedIds : heard[id] = lock.folder]_pluginVars

\* When no load or unload waits, the plugins that are loaded are those that
\* the settings have on: where all can be loaded, for a user who waits and
\* does not empty the list of enabled plugins, which would enable the others.
LoadedAsChosen ==
    pluginUser.patient /\ (pluginUser.listed = {} \/ enabled # {})
    /\ pluginUser.installed \cap (Missing \cup Blank) = {}
    /\ booting = {} /\ ~(\E id \in PluginIds : Waits(id)) =>
        \A c \in pluginUser.installed : loaded[IdOf[c]] # None <=> IsEnabled(IdOf[c])

\* A plugin's switch decides for that plugin alone, unless it takes the last
\* entry out of enabled_plugins: an empty list enables all.
ChoiceSparesOthers ==
    [][enabled = {} \/ enabled' # {} =>
        \E id \in PluginIds : \A other \in PluginIds \ {id} : IsEnabled(other)' = IsEnabled(other)]_pluginVars

\* With no callback due, what plugins are given is the selection of the pane that is active.
PublishedIsActive == ~scheduled => published = sel[side]

\* What is offered, run and told is what is loaded, registered and selected.
PluginsAreAsShown == MenuIsOfLoaded /\ RunsWhatIsLoaded /\ PublishedIsActive

\* Whatever was asked of the plugins is answered: every task gets the lock and
\* ends, and the window reads what it was sent.
TasksEnd == <>[](tasks = {} /\ lock = None /\ pluginEvents = << >>)

\* What is loaded is what the user chose, plugin by plugin; all of it hears of
\* a new folder, and whatever waits for the lock gets it.
ChoicesAreKept == []LoadedAsChosen /\ ChoiceSparesOthers /\ BroadcastReachesAll /\ TasksEnd
=============================================================================
