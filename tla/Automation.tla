----------------------------- MODULE Automation -----------------------------
(***************************************************************************)
(* The automation engine of raven-automation: rules, one watcher or      *)
(* timer task for each enabled rule, and the actions they run on files.  *)
(*                                                                       *)
(* The command loop owns the engine, so its methods run one at a time.   *)
(* The tasks run beside it, and beside whoever else works in the watched *)
(* directory.  A task's steps are its polls, from one await to the next; *)
(* abort drops it at its await, and a filesystem call it has begun may   *)
(* still have its effect.  All rules watch one directory; MoveTo and     *)
(* CopyTo lead out of it.                                                *)
(***************************************************************************)
EXTENDS Naturals, Sequences, SequencesExt, FiniteSets

CONSTANTS
    Ids,                    \* rule ids
    Definitions,            \* what rules may say: trigger, sees, actions
    Files,                  \* names in the watched directory
    Slots,                  \* tasks a rule may have at once, aborted ones included
    AutomationScenes,       \* what there is and happens
    Nothing                 \* no rule, no file

FileTriggers == {"created", "modified", "deleted"}
Triggers == FileTriggers \cup {"schedule", "bad_schedule", "manual"}

ASSUME AutomationAssumption ==
    /\ \A d \in Definitions :
          d.trigger \in Triggers /\ d.sees \in BOOLEAN /\ d.actions \in Seq(STRING) \ {<<>>}
    /\ Slots \subseteq Nat \ {0} /\ IsFiniteSet(Files)
    /\ Nothing \notin Definitions \cup Files \cup [def : Definitions, enabled : BOOLEAN]
    /\ AutomationScenes \subseteq [ids : SUBSET Ids, definitions : SUBSET Definitions,
                                  files : SUBSET Files, changes : Nat, commands : Nat]

VARIABLES
    rules,                \* rules[r]: the definition and whether it is enabled
    engineRunning,        \* is the engine started
    handle,               \* watcher_handles: handle[r] is the slot of r's task, 0 for none
    ruleTasks,            \* ruleTasks[<<r, s>>]: slot 0 is trigger_rule, in the command loop
    file,                 \* file[f]: its last change (length and mtime), 0 if it is absent
    changes,              \* changes by others so far
    automationScene       \* ids, definitions and files, those there are; changes, the bound on changes
                          \* by others; commands, how many the user still gives

engineVars == <<rules, engineRunning, handle>>
automationVars == <<rules, engineRunning, handle, ruleTasks, file, changes, automationScene>>

NoTask == [def |-> Nothing, live |-> FALSE, pc |-> "free", queue |-> <<>>,
           file |-> Nothing, seen |-> 0, left |-> <<>>]
RuleTask(d, pc) == [NoTask EXCEPT !.def = d, !.live = TRUE, !.pc = pc]
TaskKeys == Ids \X (Slots \cup {0})

AutomationInit ==
    /\ automationScene \in AutomationScenes
    /\ \E some \in [automationScene.ids -> {Nothing} \cup [def : automationScene.definitions, enabled : BOOLEAN]] :
          rules = [r \in Ids |-> IF r \in automationScene.ids THEN some[r] ELSE Nothing]
    /\ engineRunning = FALSE /\ handle = [r \in Ids |-> 0]
    /\ ruleTasks = [k \in TaskKeys |-> NoTask]
    /\ file = [f \in Files |-> 0] /\ changes = 0

Enabled(r) == rules[r] # Nothing /\ rules[r].enabled

-------------------------------------------------------------------------------
(* The engine's methods. *)

Command ==
    /\ \A r \in Ids : ruleTasks[<<r, 0>>].pc = "free"
    /\ automationScene.commands > 0 /\ automationScene' = [automationScene EXCEPT !.commands = @ - 1]

(* What of a task is left when it is aborted: the call it has begun. *)
Aborted(task) == IF task.pc = "calling" THEN [task EXCEPT !.live = FALSE] ELSE NoTask

Abort(ts, rs) ==
    [k \in TaskKeys |-> IF k[1] \in rs /\ handle[k[1]] = k[2] /\ k[2] # 0 THEN Aborted(ts[k]) ELSE ts[k]]

(* activate: a manual rule and one with a schedule it cannot read get no task. *)
Activates(d) == d.trigger \in FileTriggers \cup {"schedule"}

FreeSlots(ts, r) == {s \in Slots : ts[<<r, s>>].pc = "free"}
FreeSlot(ts, r) == CHOOSE s \in FreeSlots(ts, r) : TRUE

Spawned(d) == RuleTask(d, IF d.trigger = "schedule" THEN "sleeping" ELSE "spawned")

(* Give each of rs, with the definition def[r], its task. *)
Activate(ts, rs, def) ==
    LET spawn == {r \in rs : Activates(def[r])} IN
    /\ \A r \in spawn : FreeSlots(ts, r) # {}
    /\ ruleTasks' = [k \in TaskKeys |-> IF k[1] \in spawn /\ k[2] = FreeSlot(ts, k[1])
                                    THEN Spawned(def[k[1]]) ELSE ts[k]]
    /\ handle' = [r \in Ids |-> IF r \in spawn THEN FreeSlot(ts, r)
                                ELSE IF r \in rs THEN 0 ELSE handle[r]]

(* Mutant of AddRule: the rule it replaces keeps its task. *)
AddRuleBeside(r, d, enabled) ==
    /\ Command
    /\ rules' = [rules EXCEPT ![r] = [def |-> d, enabled |-> enabled]]
    /\ IF engineRunning /\ enabled THEN Activate(ruleTasks, {r}, [q \in {r} |-> d])
       ELSE UNCHANGED <<ruleTasks, handle>>
    /\ UNCHANGED <<engineRunning, file, changes>>

AddRule(r, d, enabled) ==
    /\ Command
    /\ rules' = [rules EXCEPT ![r] = [def |-> d, enabled |-> enabled]]
    /\ IF engineRunning /\ enabled THEN Activate(Abort(ruleTasks, {r}), {r}, [q \in {r} |-> d])
       ELSE ruleTasks' = Abort(ruleTasks, {r}) /\ handle' = [handle EXCEPT ![r] = 0]
    /\ UNCHANGED <<engineRunning, file, changes>>

RemoveRule(r) ==
    /\ Command
    /\ rules' = [rules EXCEPT ![r] = Nothing]
    /\ ruleTasks' = Abort(ruleTasks, {r}) /\ handle' = [handle EXCEPT ![r] = 0]
    /\ UNCHANGED <<engineRunning, file, changes>>

EnableRule(r) ==
    /\ Command /\ rules[r] # Nothing
    /\ rules' = [rules EXCEPT ![r].enabled = TRUE]
    /\ IF engineRunning /\ handle[r] = 0 THEN Activate(ruleTasks, {r}, [q \in {r} |-> rules[r].def])
       ELSE UNCHANGED <<ruleTasks, handle>>
    /\ UNCHANGED <<engineRunning, file, changes>>

DisableRule(r) ==
    /\ Command /\ rules[r] # Nothing
    /\ rules' = [rules EXCEPT ![r].enabled = FALSE]
    /\ IF engineRunning THEN ruleTasks' = Abort(ruleTasks, {r}) /\ handle' = [handle EXCEPT ![r] = 0]
       ELSE UNCHANGED <<ruleTasks, handle>>
    /\ UNCHANGED <<engineRunning, file, changes>>

StartTask ==
    /\ Command /\ ~engineRunning /\ engineRunning' = TRUE
    /\ Activate(ruleTasks, {r \in Ids : Enabled(r)}, [r \in {q \in Ids : Enabled(q)} |-> rules[r].def])
    /\ UNCHANGED <<rules, file, changes>>

Stop ==
    /\ Command /\ engineRunning /\ engineRunning' = FALSE
    /\ ruleTasks' = Abort(ruleTasks, Ids) /\ handle' = [r \in Ids |-> 0]
    /\ UNCHANGED <<rules, file, changes>>

-------------------------------------------------------------------------------
(* What a task does with a file. *)

Update(k, task) == ruleTasks' = [ruleTasks EXCEPT ![k] = task]

Event(kind, f) == [kind |-> kind, file |-> f]

(* Where a task waits when it is through; a watcher's queue stays with it. *)
Rests(k, d, queue) ==
    IF k[2] = 0 THEN NoTask
    ELSE [RuleTask(d, IF d.trigger = "schedule" THEN "sleeping" ELSE "waiting") EXCEPT !.queue = queue]

Acts(d, f, queue) ==
    [RuleTask(d, "calling") EXCEPT !.file = f, !.queue = queue, !.left = d.actions]

(* trigger_rule and a timer go on with the next file of their scan. *)
Scans(k) == k[2] = 0 \/ ruleTasks[k].def.trigger = "schedule"

NextFile(k, d, queue) ==
    IF Scans(k) /\ queue # <<>> THEN Acts(d, Head(queue).file, Tail(queue)) ELSE Rests(k, d, queue)

(* evaluate_conditions: true with no conditions; what looks at the file itself is false once
   the file is gone, and may go either way before. *)
Matches(d, f, match) == match \in BOOLEAN /\ (d.sees => (match => file[f] # 0)) /\ (~d.sees => match)

(* run_watcher up to its first await: watching may fail, and that ends the task. *)
Watch(k) ==
    /\ ruleTasks[k].pc = "spawned"
    /\ \E pc \in {"waiting", "ended"} : Update(k, [ruleTasks[k] EXCEPT !.pc = pc])
    /\ UNCHANGED <<engineVars, file, changes, automationScene>>

(* Mutant of RelevantTo: any event will do. *)
RelevantAny(d, event) == event.kind \in FileTriggers /\ (d.trigger # "deleted" => file[event.file] # 0)

RelevantTo(d, event) ==
    event.kind = d.trigger /\ (d.trigger # "deleted" => file[event.file] # 0)

Receive(k) ==
    /\ ruleTasks[k].pc = "waiting" /\ ruleTasks[k].queue # <<>>
    /\ LET d == ruleTasks[k].def
           event == Head(ruleTasks[k].queue)
           rest == Tail(ruleTasks[k].queue) IN
       IF ~RelevantTo(d, event) THEN Update(k, [ruleTasks[k] EXCEPT !.queue = rest])
       ELSE IF d.trigger = "deleted"
       THEN \E match \in BOOLEAN :
               Matches(d, event.file, match) /\ Update(k, IF match THEN Acts(d, event.file, rest) ELSE Rests(k, d, rest))
       ELSE Update(k, [ruleTasks[k] EXCEPT !.queue = rest, !.pc = "settling",
                                       !.file = event.file, !.seen = file[event.file]])
    /\ UNCHANGED <<engineVars, file, changes, automationScene>>

(* wait_until_settled: the file is gone, held still or is out of time. *)
AutomationSettled(k) ==
    /\ ruleTasks[k].pc = "settling"
    /\ \E match \in BOOLEAN :
          /\ Matches(ruleTasks[k].def, ruleTasks[k].file, match)
          /\ LET d == ruleTasks[k].def IN
             Update(k, IF match THEN Acts(d, ruleTasks[k].file, ruleTasks[k].queue) ELSE Rests(k, d, ruleTasks[k].queue))
    /\ UNCHANGED <<engineVars, file, changes, automationScene>>

SettlePoll(k) ==
    /\ ruleTasks[k].pc = "settling" /\ file[ruleTasks[k].file] \notin {0, ruleTasks[k].seen}
    /\ Update(k, [ruleTasks[k] EXCEPT !.seen = file[ruleTasks[k].file]])
    /\ UNCHANGED <<engineVars, file, changes, automationScene>>

(* process_rule_on_paths: find the files that match, then act on each. *)
ScanFolder(k, d) ==
    LET present == {f \in Files : file[f] # 0} IN
    \E found \in SUBSET present :
       /\ ~d.sees => found = present
       /\ \E order \in SetToSeqs(found) :
             Update(k, NextFile(k, d, [i \in DOMAIN order |-> Event("scan", order[i])]))

Tick(k) ==
    /\ ruleTasks[k].pc = "sleeping"
    /\ ScanFolder(k, ruleTasks[k].def)
    /\ UNCHANGED <<engineVars, file, changes, automationScene>>

TriggerRule(r) ==
    /\ Command /\ rules[r] # Nothing
    /\ ScanFolder(<<r, 0>>, rules[r].def)
    /\ UNCHANGED <<engineVars, file, changes>>

-------------------------------------------------------------------------------
(* The directory: what a change is, and the events notify makes of it. *)

Watching(task) ==
    task.live /\ task.pc \in {"waiting", "settling", "calling"} /\ task.def.trigger \in FileTriggers

Notified(ts, events) ==
    [k \in TaskKeys |-> IF k[2] # 0 /\ Watching(ts[k]) THEN [ts[k] EXCEPT !.queue = @ \o events] ELSE ts[k]]

FileChange(events) ==
    /\ changes < automationScene.changes /\ changes' = changes + 1
    /\ ruleTasks' = Notified(ruleTasks, events)
    /\ UNCHANGED <<engineVars, automationScene>>

CreateFile(f) ==
    /\ file[f] = 0 /\ file' = [file EXCEPT ![f] = changes + 1]
    /\ FileChange(<<Event("created", f)>>)

WriteFile(f) ==
    /\ file[f] # 0 /\ file' = [file EXCEPT ![f] = changes + 1]
    /\ FileChange(<<Event("modified", f)>>)

RemoveFile(f) ==
    /\ file[f] # 0 /\ file' = [file EXCEPT ![f] = 0]
    /\ FileChange(<<Event("deleted", f)>>)

(* Moved in, as a finished download is: for notify, a name was modified. *)
MoveFileIn(f) ==
    /\ file[f] = 0 /\ file' = [file EXCEPT ![f] = changes + 1]
    /\ FileChange(<<Event("modified", f)>>)

(* What an action does to the files, if it can: a renamed file takes the other name whatever
   has it (a failed action changes nothing). *)
Effects(action, f) ==
    {[file |-> file, events |-> <<>>]} \cup
    (IF file[f] = 0 THEN {} ELSE
       CASE action = "move" -> {[file |-> [file EXCEPT ![f] = 0], events |-> <<Event("modified", f)>>]}
         [] action \in {"delete", "trash"} ->
              {[file |-> [file EXCEPT ![f] = 0],
                events |-> <<Event(IF action = "delete" THEN "deleted" ELSE "modified", f)>>]}
         [] action = "rename" ->
              {[file |-> [file EXCEPT ![g] = file[f], ![f] = 0],
                events |-> <<Event("modified", f), Event("modified", g)>>] : g \in automationScene.files \ {f}}
         [] OTHER -> {})

(* A call ends; a live task reports it and goes on, whatever came of it. *)
CallDone(k) ==
    /\ ruleTasks[k].pc = "calling"
    /\ \E effect \in Effects(Head(ruleTasks[k].left), ruleTasks[k].file) :
          LET left == Tail(ruleTasks[k].left)
              heard == Notified(ruleTasks, effect.events) IN
          /\ file' = effect.file
          /\ ruleTasks' = [heard EXCEPT ![k] =
                          IF ~ruleTasks[k].live THEN NoTask
                          ELSE IF left # <<>> THEN [heard[k] EXCEPT !.left = left]
                          ELSE NextFile(k, ruleTasks[k].def, heard[k].queue)]
    /\ UNCHANGED <<engineVars, changes, automationScene>>

RuleTaskStep(k) ==
    Watch(k) \/ Receive(k) \/ AutomationSettled(k) \/ SettlePoll(k) \/ CallDone(k)

AutomationNext ==
    \/ \E r \in automationScene.ids, d \in automationScene.definitions, enabled \in BOOLEAN : AddRule(r, d, enabled)
    \/ \E r \in automationScene.ids : RemoveRule(r) \/ EnableRule(r) \/ DisableRule(r) \/ TriggerRule(r)
    \/ StartTask \/ Stop
    \/ \E k \in TaskKeys : RuleTaskStep(k) \/ Tick(k)
    \/ \E f \in automationScene.files : CreateFile(f) \/ WriteFile(f) \/ RemoveFile(f) \/ MoveFileIn(f)

AutomationSpec == AutomationInit /\ [][AutomationNext]_automationVars

(* The runtime polls every task that is ready, and calls end; what users, other programs and
   timers do is up to them. *)
AutomationFairSpec == AutomationSpec /\ \A k \in TaskKeys : WF_automationVars(RuleTaskStep(k))

-------------------------------------------------------------------------------
AutomationTypeOK ==
    /\ rules \in [Ids -> {Nothing} \cup [def : Definitions, enabled : BOOLEAN]]
    /\ engineRunning \in BOOLEAN /\ handle \in [Ids -> Slots \cup {0}]
    /\ changes \in 0..automationScene.changes /\ file \in [Files -> 0..automationScene.changes]
    /\ \A k \in TaskKeys :
          /\ ruleTasks[k].def \in Definitions \cup {Nothing}
          /\ ruleTasks[k].file \in Files \cup {Nothing}
          /\ ruleTasks[k].pc \in {"free", "spawned", "waiting", "settling", "calling", "sleeping", "ended"}
          /\ ruleTasks[k].pc = "calling" => ruleTasks[k].left # <<>>

(* Every live background task is in watcher_handles, where the engine can find it, and works
   for a rule that is enabled, as it now reads, in an engine that runs: after a replace,
   remove, disable or stop nothing of the old rule acts on files, but for the call it is in. *)
NoTaskOutlivesItsRule ==
    \A k \in TaskKeys : (k[2] # 0 /\ ruleTasks[k].live) =>
        engineRunning /\ handle[k[1]] = k[2] /\ Enabled(k[1]) /\ rules[k[1]].def = ruleTasks[k].def

(* ... and an engine that runs has a task for each enabled rule that needs one. *)
EnabledRulesAreActive ==
    engineRunning => \A r \in Ids : (Enabled(r) /\ Activates(rules[r].def)) =>
        handle[r] # 0 /\ ruleTasks[<<r, handle[r]>>].live

(* Rules and tasks are in step, whatever became of either. *)
TasksFollowRules == AutomationTypeOK /\ NoTaskOutlivesItsRule /\ EnabledRulesAreActive

(* A rule for created files does not feed on what rules do to files: when others leave the
   directory and the rules alone, the tasks come to rest. (Only timers go on.) *)
AtRest ==
    \A k \in TaskKeys : \/ ruleTasks[k].pc \in {"free", "sleeping", "ended"}
                        \/ ruleTasks[k].pc = "waiting" /\ ruleTasks[k].queue = <<>>
Quiesces == [](changes = automationScene.changes /\ automationScene.commands = 0 => <>AtRest)
===============================================================================
