------------------------------- MODULE MCEngines -------------------------------
(***************************************************************************)
(* Automation, Plugins and Tags for TLC: a run explores one of them.     *)
(* Plugins are never quite idle: what the program does with them at its  *)
(* start is over before another is looked at.                            *)
(***************************************************************************)
EXTENDS Automation, Plugins, Tags

-------------------------------------------------------------------------------
(* Scenes of Automation for TLC: one rule of every trigger, and two of created files that act
   on each other's, in a directory with one or two names. *)

CONSTANTS r1, r2, f, g

Rule(trigger, sees, actions) == [trigger |-> trigger, sees |-> sees, actions |-> actions]

Lifecycle == {Rule("created", TRUE, <<"move">>), Rule("modified", FALSE, <<"copy">>),
              Rule("bad_schedule", TRUE, <<"copy">>)}
AllTriggers == {Rule("created", TRUE, <<"move", "copy">>), Rule("deleted", FALSE, <<"run">>),
                Rule("schedule", TRUE, <<"trash">>), Rule("manual", FALSE, <<"delete">>)}
ForCreated == {Rule("created", TRUE, <<"rename">>), Rule("created", FALSE, <<"move", "delete">>)}
MCDefinitions == Lifecycle \cup AllTriggers \cup ForCreated

Scene(ids, definitions, files, n, left) ==
    [ids |-> ids, definitions |-> definitions, files |-> files, changes |-> n, commands |-> left]
MCScenes == {Scene({r1}, Lifecycle, {f}, 2, 4), Scene({r1}, AllTriggers, {f, g}, 3, 2),
             Scene({r1, r2}, ForCreated, {f, g}, 2, 1)}

-------------------------------------------------------------------------------
(* Instances of Plugins for TLC: two good copies of one plugin, of which only the first has an
   action, another plugin, and two broken copies of the first, one without an entry point and
   one with a nameless action. *)

CONSTANTS c1, c2, c3, missing, blank, a, b, act
MCIdOf == c1 :> a @@ c2 :> a @@ c3 :> b @@ missing :> a @@ blank :> a
MCOffers == c1 :> {act} @@ c2 :> {} @@ c3 :> {act} @@ missing :> {} @@ blank :> {act}

User(copies, does, left) ==
    [installed |-> copies, listed |-> {}, does |-> does, left |-> left, patient |-> FALSE]
Waiting(copies, listed) ==
    [installed |-> copies, listed |-> listed, does |-> {"settings", "switch"}, left |-> 4, patient |-> TRUE]
MCUsers ==
    {User({c1, c2}, {"settings", "switch", "action"}, 4),
     User({missing, blank, c3}, {"settings", "switch", "action"}, 4),
     Waiting({c1, c2}, {}), Waiting({c1, c3}, {a}), Waiting({c1, c3}, {a, b}),
     User({c1, c3}, {"settings", "switch", "navigate"}, 3),
     User({c1}, {"select", "pane", "action"}, 4)}

-------------------------------------------------------------------------------
(* Tags for TLC: two files in one folder and one in another, a tag whose rule matches one of
   them; one window whose user moves on, or has two panes, or whose saves fail, and windows
   that end and start anew, after each other, together, or in a save. *)

CONSTANTS tf, tg, th, home, away, images, w1, w2

MCRows == [d \in {home, away} |-> IF d = home THEN <<tf, tg>> ELSE <<th>>]
MCMatchedBy == [r \in RuleNames |-> IF r = images THEN {tf} ELSE {}]
MCTagScenes == {
    [windows |-> {w1}, does |-> {"go", "switch", "tag"}, left |-> 3],
    [windows |-> {w1}, does |-> {"tag", "fail"}, left |-> 3],
    [windows |-> {w1, w2}, does |-> {"tag", "quit"}, left |-> 3]}

-------------------------------------------------------------------------------
VARIABLE part    \* the part that is at work

enginesVars == <<automationVars, pluginVars, tagVars, part>>

PluginsStarted == booting = {} /\ tasks = {} /\ pluginEvents = << >> /\ ~scheduled

EnginesInit ==
    /\ part \in {"automation", "plugins", "tags"}
    /\ AutomationInit /\ PluginInit /\ TagInit
    /\ part # "automation" => /\ automationScene = CHOOSE s \in AutomationScenes : TRUE
                              /\ \A r \in Ids : rules[r] = Nothing
    /\ part # "plugins" => pluginUser = CHOOSE u \in PluginUsers : ~u.patient
    /\ part # "tags" => tagging.windows = TagWindows
EnginesNext ==
    /\ UNCHANGED part
    /\ \/ part = "automation" /\ PluginsStarted /\ AutomationNext /\ UNCHANGED <<pluginVars, tagVars>>
       \/ part = "tags" /\ PluginsStarted /\ TagNext /\ UNCHANGED <<automationVars, pluginVars>>
       \/ /\ part # "plugins" /\ (TaskStep \/ ScriptStep \/ WindowStep)
          /\ UNCHANGED <<automationVars, tagVars>>
       \/ part = "plugins" /\ PluginNext /\ UNCHANGED <<automationVars, tagVars>>
EnginesSpec ==
    /\ EnginesInit /\ [][EnginesNext]_enginesVars
    /\ \A k \in TaskKeys : WF_automationVars(RuleTaskStep(k))
    /\ WF_pluginVars(TaskStep) /\ WF_pluginVars(ScriptStep) /\ WF_pluginVars(WindowStep)
===============================================================================
