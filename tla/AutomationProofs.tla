--------------------------- MODULE AutomationProofs ---------------------------
(***************************************************************************)
(* Proofs about Automation for any rules, any files and any number of    *)
(* tasks, about RuleEditor for any rules on file: once the commands of   *)
(* the settings' page are handled, the engine has what is on file; and   *)
(* about Tags for any windows, folders and tags: tags by hand last, and  *)
(* are counted.                                                          *)
(***************************************************************************)
EXTENDS Integers, Automation, RuleEditor, Tags, FiniteSetTheorems, SequenceTheorems, WellFoundedInduction, TLAPS

-------------------------------------------------------------------------------
(* The inductive invariant. *)

EventKinds == FileTriggers \cup {"scan"}
Events == [kind : EventKinds, file : Files]
TaskStates == {"free", "spawned", "waiting", "settling", "calling", "sleeping", "ended"}
RuleTasks == [def : Definitions \cup {Nothing}, live : BOOLEAN, pc : TaskStates, queue : Seq(Events),
              file : Files \cup {Nothing}, seen : Nat, left : Seq(STRING)]

(* A task that is at work has a rule, one that looks at a file or acts on it has the file, one
   in a call has an action; only a task in a call goes on when it is aborted. *)
SoundTask(t) ==
    /\ t \in RuleTasks
    /\ t.pc # "free" => t.def \in Definitions
    /\ t.pc \in {"settling", "calling"} => t.file \in Files
    /\ t.pc = "calling" => t.left # <<>>
    /\ t.pc = "free" => ~t.live
    /\ t.pc \notin {"free", "calling"} => t.live

SoundTasks(ts) == ts \in [TaskKeys -> RuleTasks] /\ \A k \in TaskKeys : SoundTask(ts[k])

SceneOK == automationScene \in [ids : SUBSET Ids, definitions : SUBSET Definitions,
                                files : SUBSET Files, changes : Nat, commands : Nat]
DirectoryOK ==
    changes \in 0..automationScene.changes /\ file \in [Files -> 0..automationScene.changes]
EngineOK ==
    /\ rules \in [Ids -> {Nothing} \cup [def : Definitions, enabled : BOOLEAN]]
    /\ engineRunning \in BOOLEAN /\ handle \in [Ids -> Slots \cup {0}]

(* What watcher_handles has was not aborted. *)
HandlesAreLive == \A r \in Ids : handle[r] # 0 => ruleTasks[<<r, handle[r]>>].live

AutomationInv ==
    /\ SceneOK /\ DirectoryOK /\ EngineOK /\ SoundTasks(ruleTasks)
    /\ NoTaskOutlivesItsRule /\ HandlesAreLive /\ EnabledRulesAreActive

(* The invariant is stronger than what a run checks. *)
LEMMA InvImpliesRules == AutomationInv => TasksFollowRules
<1> SUFFICES ASSUME AutomationInv PROVE TasksFollowRules OBVIOUS
<1>1. ASSUME NEW k \in TaskKeys
      PROVE  /\ ruleTasks[k].def \in Definitions \cup {Nothing}
             /\ ruleTasks[k].file \in Files \cup {Nothing}
             /\ ruleTasks[k].pc \in TaskStates
             /\ ruleTasks[k].pc = "calling" => ruleTasks[k].left # <<>>
  BY DEF AutomationInv, SoundTasks, SoundTask, RuleTasks
<1> QED BY <1>1 DEF AutomationInv, TasksFollowRules, AutomationTypeOK, TaskStates, DirectoryOK, EngineOK

-------------------------------------------------------------------------------
(* What the operators make of a task. *)

(* A handle without a task. *)
LEMMA NoTaskIsSound == SoundTask(NoTask) /\ NoTask.live = FALSE
  BY DEF NoTask, SoundTask, RuleTasks, TaskStates

(* A task that was just spawned. *)
LEMMA RuleTaskFields ==
    ASSUME NEW d \in Definitions, NEW pc \in TaskStates
    PROVE  /\ RuleTask(d, pc) \in RuleTasks
           /\ RuleTask(d, pc).def = d /\ RuleTask(d, pc).live /\ RuleTask(d, pc).pc = pc
BY NoTaskIsSound DEF SoundTask, RuleTask, RuleTasks

(* A task that acts on a file. *)
LEMMA ActsIsSound ==
    ASSUME NEW d \in Definitions, NEW f \in Files, NEW queue \in Seq(Events)
    PROVE  SoundTask(Acts(d, f, queue)) /\ Acts(d, f, queue).live /\ Acts(d, f, queue).def = d
<1> DEFINE task == RuleTask(d, "calling")
<1>1. task \in RuleTasks /\ task.def = d /\ task.live /\ task.pc = "calling"
  BY RuleTaskFields DEF TaskStates
<1>2. d.actions \in Seq(STRING) /\ d.actions # <<>> BY AutomationAssumption
<1>3. Acts(d, f, queue) = [task EXCEPT !.file = f, !.queue = queue, !.left = d.actions] BY DEF Acts
<1> HIDE DEF task
<1> QED BY <1>1, <1>2, <1>3 DEF SoundTask, RuleTasks

(* A task that waits for its next event or time. *)
LEMMA RestsIsSound ==
    ASSUME NEW k \in TaskKeys, NEW d \in Definitions, NEW queue \in Seq(Events)
    PROVE  /\ SoundTask(Rests(k, d, queue))
           /\ k[2] # 0 => Rests(k, d, queue).live /\ Rests(k, d, queue).def = d
<1>1. CASE k[2] = 0 BY <1>1, NoTaskIsSound DEF Rests
<1>2. CASE k[2] # 0
  <2> DEFINE pc == IF d.trigger = "schedule" THEN "sleeping" ELSE "waiting"
             task == RuleTask(d, pc)
  <2>1. pc \in {"sleeping", "waiting"} OBVIOUS
  <2>2. Rests(k, d, queue) = [task EXCEPT !.queue = queue] BY <1>2 DEF Rests
  <2> HIDE DEF pc
  <2>3. task \in RuleTasks /\ task.def = d /\ task.live /\ task.pc = pc
    BY <2>1, RuleTaskFields DEF TaskStates
  <2> HIDE DEF task
  <2> QED BY <2>1, <2>2, <2>3 DEF SoundTask, RuleTasks
<1> QED BY <1>1, <1>2

(* A scan that goes on to its next file, or ends. *)
LEMMA NextFileIsSound ==
    ASSUME NEW k \in TaskKeys, NEW d \in Definitions, NEW queue \in Seq(Events)
    PROVE  /\ SoundTask(NextFile(k, d, queue))
           /\ k[2] # 0 => NextFile(k, d, queue).live /\ NextFile(k, d, queue).def = d
<1>1. CASE Scans(k) /\ queue # <<>>
  <2>1. Head(queue) \in Events /\ Tail(queue) \in Seq(Events) BY <1>1
  <2>2. Head(queue).file \in Files BY <2>1 DEF Events
  <2> QED BY <1>1, <2>1, <2>2, ActsIsSound DEF NextFile
<1>2. CASE ~(Scans(k) /\ queue # <<>>) BY <1>2, RestsIsSound DEF NextFile
<1> QED BY <1>1, <1>2

(* A task that is aborted is not alive. *)
LEMMA AbortedIsSound ==
    ASSUME NEW t, SoundTask(t)
    PROVE  SoundTask(Aborted(t)) /\ ~Aborted(t).live
  BY NoTaskIsSound DEF Aborted, SoundTask, RuleTasks, TaskStates

(* Events change nothing but the queues of the tasks. *)
LEMMA NotifiedIsSound ==
    ASSUME NEW ts, SoundTasks(ts), NEW events \in Seq(Events)
    PROVE  /\ SoundTasks(Notified(ts, events))
           /\ \A k \in TaskKeys :
                 LET t == Notified(ts, events)[k] IN
                 /\ t.live = ts[k].live /\ t.def = ts[k].def /\ t.queue \in Seq(Events)
                 /\ t.left = ts[k].left /\ t.pc = ts[k].pc /\ t.file = ts[k].file
<1> DEFINE after(k) == IF k[2] # 0 /\ Watching(ts[k]) THEN [ts[k] EXCEPT !.queue = @ \o events] ELSE ts[k]
<1>1. Notified(ts, events) = [k \in TaskKeys |-> after(k)] BY DEF Notified
<1>2. ASSUME NEW k \in TaskKeys
      PROVE  /\ SoundTask(after(k)) /\ after(k).live = ts[k].live /\ after(k).def = ts[k].def
             /\ after(k).queue \in Seq(Events)
             /\ after(k).left = ts[k].left /\ after(k).pc = ts[k].pc /\ after(k).file = ts[k].file
  <2>1. SoundTask(ts[k]) BY DEF SoundTasks
  <2>2. ts[k].queue \o events \in Seq(Events) BY <2>1 DEF SoundTask, RuleTasks
  <2> QED BY <2>1, <2>2 DEF SoundTask, RuleTasks
<1>3. \A k \in TaskKeys : after(k) \in RuleTasks BY <1>2 DEF SoundTask
<1> HIDE DEF after
<1> QED BY <1>1, <1>2, <1>3 DEF SoundTasks

-------------------------------------------------------------------------------
(* Steps that leave rules and handles alone, and every background task alive, or dead, for the
   rule it had. *)

Keeps(ts) ==
    /\ SoundTasks(ts)
    /\ \A k \in TaskKeys : k[2] # 0 =>
          ts[k].live = ruleTasks[k].live /\ (ts[k].live => ts[k].def = ruleTasks[k].def)

RulesKept == SoundTasks(ruleTasks) /\ NoTaskOutlivesItsRule /\ HandlesAreLive /\ EnabledRulesAreActive

(* Where the engine is left alone, that is all its rules ask of a task. *)
LEMMA KeepingTasks ==
    ASSUME AutomationInv, Keeps(ruleTasks'), UNCHANGED engineVars
    PROVE  RulesKept'
<1> USE DEF AutomationInv, Keeps, engineVars
<1>1. \A r \in Ids, s \in Slots : <<r, s>> \in TaskKeys /\ <<r, s>>[1] = r /\ <<r, s>>[2] = s /\ s # 0
  BY AutomationAssumption DEF TaskKeys
<1>2. NoTaskOutlivesItsRule' BY DEF NoTaskOutlivesItsRule, Enabled
<1>3. HandlesAreLive' BY <1>1 DEF HandlesAreLive, EngineOK
<1>4. EnabledRulesAreActive' BY <1>3 DEF EnabledRulesAreActive, HandlesAreLive, Enabled
<1> QED BY <1>2, <1>3, <1>4 DEF RulesKept

(* A task that goes on for the rule it had, as long as it was. *)
LEMMA UpdateKeeps ==
    ASSUME AutomationInv, NEW k \in TaskKeys, NEW t, SoundTask(t), Update(k, t),
           k[2] # 0 => t.live = ruleTasks[k].live /\ (t.live => t.def = ruleTasks[k].def)
    PROVE  Keeps(ruleTasks')
BY DEF AutomationInv, SoundTasks, SoundTask, Update, Keeps

(* A task other than trigger_rule's goes on. *)
LEMMA GoingOnKeeps ==
    ASSUME AutomationInv, NEW k \in TaskKeys, NEW t, SoundTask(t), Update(k, t),
           k[2] # 0 => t.live /\ t.def = ruleTasks[k].def,
           ruleTasks[k].pc \notin {"free", "calling"}
    PROVE  Keeps(ruleTasks')
  BY UpdateKeeps DEF AutomationInv, SoundTasks, SoundTask, RuleTasks

(* Each step of a task keeps it: the watch is set up or fails, *)
LEMMA WatchKeeps ==
    ASSUME AutomationInv, NEW k \in TaskKeys, Watch(k)
    PROVE  Keeps(ruleTasks')
<1> DEFINE old == ruleTasks[k]
<1>1. SoundTask(old) /\ old.pc = "spawned" BY DEF Watch, AutomationInv, SoundTasks
<1>2. PICK pc \in {"waiting", "ended"} : Update(k, [old EXCEPT !.pc = pc]) BY DEF Watch
<1>3. SoundTask([old EXCEPT !.pc = pc]) /\ [old EXCEPT !.pc = pc].live /\ [old EXCEPT !.pc = pc].def = old.def
  BY <1>1 DEF SoundTask, RuleTasks, TaskStates
<1> QED BY <1>1, <1>2, <1>3, GoingOnKeeps

(* a file is looked at again while it settles, *)
LEMMA SettlePollKeeps ==
    ASSUME AutomationInv, NEW k \in TaskKeys, SettlePoll(k)
    PROVE  Keeps(ruleTasks')
<1> DEFINE old == ruleTasks[k]
           new == [old EXCEPT !.seen = file[old.file]]
<1>1. SoundTask(old) /\ old.pc = "settling" /\ Update(k, new)
  BY DEF SettlePoll, AutomationInv, SoundTasks
<1>2. file[old.file] \in Nat BY <1>1 DEF SoundTask, AutomationInv, DirectoryOK, SceneOK
<1>3. SoundTask(new) /\ new.live /\ new.def = old.def BY <1>1, <1>2 DEF SoundTask, RuleTasks
<1> QED BY <1>1, <1>3, GoingOnKeeps

(* it has settled, or is given up, *)
LEMMA SettledKeeps ==
    ASSUME AutomationInv, NEW k \in TaskKeys, AutomationSettled(k)
    PROVE  Keeps(ruleTasks')
<1> DEFINE old == ruleTasks[k]
<1>1. SoundTask(old) /\ old.pc = "settling" BY DEF AutomationSettled, AutomationInv, SoundTasks
<1>2. old.def \in Definitions /\ old.file \in Files /\ old.queue \in Seq(Events)
  BY <1>1 DEF SoundTask, RuleTasks
<1>3. \/ Update(k, Acts(old.def, old.file, old.queue))
      \/ Update(k, Rests(k, old.def, old.queue))
  BY DEF AutomationSettled
<1> QED BY <1>1, <1>2, <1>3, ActsIsSound, RestsIsSound, GoingOnKeeps

(* an event is received, *)
LEMMA ReceiveKeeps ==
    ASSUME AutomationInv, NEW k \in TaskKeys, Receive(k)
    PROVE  Keeps(ruleTasks')
<1> DEFINE old == ruleTasks[k]
           event == Head(old.queue)
           rest == Tail(old.queue)
<1>1. SoundTask(old) /\ old.pc = "waiting" /\ old.queue # <<>> BY DEF Receive, AutomationInv, SoundTasks
<1>2. old.def \in Definitions /\ old.queue \in Seq(Events) BY <1>1 DEF SoundTask, RuleTasks
<1>3. event \in Events /\ rest \in Seq(Events) BY <1>1, <1>2
<1>4. event.file \in Files BY <1>3 DEF Events
<1>5. file[event.file] \in Nat BY <1>4 DEF AutomationInv, DirectoryOK, SceneOK
<1> DEFINE settling == [old EXCEPT !.queue = rest, !.pc = "settling", !.file = event.file,
                                   !.seen = file[event.file]]
           passing == [old EXCEPT !.queue = rest]
<1>6. SoundTask(passing) /\ passing.live /\ passing.def = old.def BY <1>1, <1>3 DEF SoundTask, RuleTasks
<1>7. SoundTask(settling) /\ settling.live /\ settling.def = old.def
  BY <1>1, <1>2, <1>3, <1>4, <1>5 DEF SoundTask, RuleTasks, TaskStates
<1>8. \/ Update(k, passing) \/ Update(k, settling)
      \/ Update(k, Acts(old.def, event.file, rest)) \/ Update(k, Rests(k, old.def, rest))
  BY DEF Receive
<1> HIDE DEF passing, settling, event, rest
<1> QED BY <1>1, <1>2, <1>3, <1>4, <1>6, <1>7, <1>8, ActsIsSound, RestsIsSound, GoingOnKeeps

(* For any elements, which the provers find only as such. *)
LEMMA TailInSeq ==
    ASSUME NEW S, NEW s \in Seq(S), s # <<>>
    PROVE  Tail(s) \in Seq(S)
  OBVIOUS

(* Sequences of one and of two events. *)
LEMMA EventsInSequence ==
    /\ \A kind \in EventKinds, f \in Files : Event(kind, f) \in Events
    /\ \A e \in Events : <<e>> \in Seq(Events)
    /\ \A e1, e2 \in Events : <<e1, e2>> \in Seq(Events)
  BY DEF Event, Events

(* A scan makes a queue of the files it found, in any order. *)
LEMMA ScanOrder ==
    ASSUME NEW found \in SUBSET Files, NEW order \in SetToSeqs(found)
    PROVE  [i \in DOMAIN order |-> Event("scan", order[i])] \in Seq(Events)
<1>1. Cardinality(found) \in Nat BY AutomationAssumption, FS_Subset, FS_CardinalityType
<1>2. order \in [1..Cardinality(found) -> found] BY DEF SetToSeqs
<1>3. \A i \in 1..Cardinality(found) : Event("scan", order[i]) \in Events
  BY <1>2, EventsInSequence DEF EventKinds
<1> QED BY <1>1, <1>2, <1>3

(* The files found are queued for the task that scans, *)
LEMMA ScanKeeps ==
    ASSUME AutomationInv, NEW k \in TaskKeys, NEW d \in Definitions, ScanFolder(k, d),
           k[2] # 0 => ruleTasks[k].live /\ ruleTasks[k].def = d
    PROVE  Keeps(ruleTasks')
<1>0. PICK found \in SUBSET {f \in Files : file[f] # 0} :
         \E order \in SetToSeqs(found) :
            Update(k, NextFile(k, d, [i \in DOMAIN order |-> Event("scan", order[i])]))
  BY DEF ScanFolder
<1>1. PICK order \in SetToSeqs(found) :
         Update(k, NextFile(k, d, [i \in DOMAIN order |-> Event("scan", order[i])]))
  BY <1>0
<1> DEFINE queue == [i \in DOMAIN order |-> Event("scan", order[i])]
<1>2. queue \in Seq(Events) BY ScanOrder
<1> HIDE DEF queue
<1> QED BY <1>1, <1>2, NextFileIsSound, UpdateKeeps DEF queue

(* which is a scheduler whose time has come, *)
LEMMA TickKeeps ==
    ASSUME AutomationInv, NEW k \in TaskKeys, Tick(k)
    PROVE  Keeps(ruleTasks')
BY ScanKeeps DEF Tick, AutomationInv, SoundTasks, SoundTask

(* or trigger_rule. *)
LEMMA TriggerRuleKeeps ==
    ASSUME AutomationInv, NEW r \in Ids, TriggerRule(r)
    PROVE  Keeps(ruleTasks')
BY ScanKeeps DEF TriggerRule, AutomationInv, EngineOK, TaskKeys

(* What a call may do to the directory. *)
LEMMA EffectsAreSound ==
    ASSUME AutomationInv, NEW action, NEW f \in Files, NEW effect \in Effects(action, f)
    PROVE  effect.events \in Seq(Events) /\ effect.file \in [Files -> 0..automationScene.changes]
<1> DEFINE Stamps == 0..automationScene.changes
<1>1. file \in [Files -> Stamps] /\ 0 \in Stamps BY DEF AutomationInv, DirectoryOK, SceneOK
<1>2. \A g \in Files, kind \in {"modified", "deleted"} :
         Event(kind, g) \in Events /\ <<Event(kind, g)>> \in Seq(Events)
  BY EventsInSequence DEF EventKinds, FileTriggers
<1>3. [file EXCEPT ![f] = 0] \in [Files -> Stamps] BY <1>1
<1>4. CASE effect = [file |-> file, events |-> <<>>] BY <1>1, <1>4
<1>5. CASE effect = [file |-> [file EXCEPT ![f] = 0], events |-> <<Event("modified", f)>>]
  BY <1>2, <1>3, <1>5
<1>6. CASE effect = [file |-> [file EXCEPT ![f] = 0], events |-> <<Event("deleted", f)>>]
  BY <1>2, <1>3, <1>6
<1>7. ASSUME NEW g \in Files,
             effect = [file |-> [file EXCEPT ![g] = file[f], ![f] = 0],
                       events |-> <<Event("modified", f), Event("modified", g)>>]
      PROVE  effect.events \in Seq(Events) /\ effect.file \in [Files -> Stamps]
  BY <1>1, <1>2, EventsInSequence, <1>7 DEF EventKinds
<1>8. automationScene.files \subseteq Files BY DEF AutomationInv, SceneOK
<1> HIDE DEF Stamps
<1> QED BY <1>4, <1>5, <1>6, <1>7, <1>8 DEF Effects, Stamps

(* The call of an action returns: the directory changes, the task goes on. *)
LEMMA CallDoneKeeps ==
    ASSUME AutomationInv, NEW k \in TaskKeys, CallDone(k)
    PROVE  Keeps(ruleTasks') /\ DirectoryOK'
<1> DEFINE old == ruleTasks[k]
           left == Tail(old.left)
<1>1. SoundTask(old) /\ old.pc = "calling" BY DEF CallDone, AutomationInv, SoundTasks
<1>2. old.def \in Definitions /\ old.file \in Files /\ left \in Seq(STRING)
  BY <1>1, TailInSeq DEF SoundTask, RuleTasks
<1>3. PICK effect \in Effects(Head(old.left), old.file) :
         LET heard == Notified(ruleTasks, effect.events) IN
         /\ file' = effect.file
         /\ ruleTasks' = [heard EXCEPT ![k] =
                            IF ~old.live THEN NoTask
                            ELSE IF left # <<>> THEN [heard[k] EXCEPT !.left = left]
                            ELSE NextFile(k, old.def, heard[k].queue)]
  BY DEF CallDone
<1> DEFINE heard == Notified(ruleTasks, effect.events)
           new == IF ~old.live THEN NoTask
                  ELSE IF left # <<>> THEN [heard[k] EXCEPT !.left = left]
                  ELSE NextFile(k, old.def, heard[k].queue)
<1>4. effect.events \in Seq(Events) /\ effect.file \in [Files -> 0..automationScene.changes]
  BY <1>2, EffectsAreSound
<1>5. SoundTasks(ruleTasks) BY DEF AutomationInv
<1>6. /\ SoundTasks(heard)
      /\ \A j \in TaskKeys : heard[j].live = ruleTasks[j].live /\ heard[j].def = ruleTasks[j].def
      /\ heard[k].queue \in Seq(Events) /\ heard[k].pc = "calling" /\ heard[k].file = old.file
  BY <1>1, <1>4, <1>5, NotifiedIsSound
<1>7. ruleTasks' = [heard EXCEPT ![k] = new] BY <1>3
<1>8. SoundTask(heard[k]) /\ heard[k].live = old.live /\ heard[k].def = old.def BY <1>6 DEF SoundTasks
<1> HIDE DEF heard, left, old
<1>9. SoundTask(new) /\ (k[2] # 0 => new.live = old.live /\ (new.live => new.def = old.def))
  <2>1. CASE ~old.live BY <2>1, <1>1, NoTaskIsSound DEF SoundTask, RuleTasks
  <2>2. CASE old.live /\ left # <<>> BY <2>2, <1>2, <1>6, <1>8 DEF SoundTask, RuleTasks
  <2>3. CASE old.live /\ left = <<>> BY <2>3, <1>2, <1>6, NextFileIsSound
  <2> QED BY <2>1, <2>2, <2>3, <1>1 DEF SoundTask, RuleTasks
<1> HIDE DEF new
<1>10. \A j \in TaskKeys : ruleTasks'[j] = IF j = k THEN new ELSE heard[j] BY <1>6, <1>7 DEF SoundTasks
<1>11. ruleTasks' \in [TaskKeys -> RuleTasks] BY <1>6, <1>7, <1>9 DEF SoundTasks, SoundTask
<1>12. Keeps(ruleTasks') BY <1>6, <1>9, <1>10, <1>11 DEF Keeps, SoundTasks, old
<1>13. DirectoryOK' BY <1>3, <1>4 DEF AutomationInv, DirectoryOK, CallDone
<1> QED BY <1>12, <1>13

-------------------------------------------------------------------------------
(* The engine's methods, rule by rule. *)

RuleOK(r) ==
    /\ \A s \in Slots : ruleTasks[<<r, s>>].live =>
          engineRunning /\ handle[r] = s /\ Enabled(r) /\ rules[r].def = ruleTasks[<<r, s>>].def
    /\ handle[r] # 0 => ruleTasks[<<r, handle[r]>>].live
    /\ engineRunning /\ Enabled(r) /\ Activates(rules[r].def) => handle[r] # 0

(* The tasks of a rule, and the one that trigger_rule runs in. *)
LEMMA KeysOfRule ==
    /\ 0 \notin Slots
    /\ \A r \in Ids, s \in Slots \cup {0} : <<r, s>> \in TaskKeys
  BY AutomationAssumption DEF TaskKeys

AllRulesOK == \A r \in Ids : RuleOK(r)

(* What the engine promises can be told rule by rule. *)
LEMMA RuleByRule == RulesKept <=> SoundTasks(ruleTasks) /\ AllRulesOK
<1>1. ASSUME RulesKept, NEW r \in Ids PROVE RuleOK(r)
  <2>1. \A s \in Slots : ruleTasks[<<r, s>>].live =>
           engineRunning /\ handle[r] = s /\ Enabled(r) /\ rules[r].def = ruleTasks[<<r, s>>].def
    BY KeysOfRule, <1>1 DEF RulesKept, NoTaskOutlivesItsRule
  <2> QED BY <1>1, <2>1 DEF RulesKept, RuleOK, HandlesAreLive, EnabledRulesAreActive
<1>2. ASSUME SoundTasks(ruleTasks), \A r \in Ids : RuleOK(r) PROVE RulesKept
  <2>1. NoTaskOutlivesItsRule
    <3> SUFFICES ASSUME NEW k \in TaskKeys, k[2] # 0, ruleTasks[k].live
                 PROVE  engineRunning /\ handle[k[1]] = k[2] /\ Enabled(k[1]) /\ rules[k[1]].def = ruleTasks[k].def
      BY DEF NoTaskOutlivesItsRule
    <3>1. PICK r \in Ids, s \in Slots : k = <<r, s>> BY DEF TaskKeys
    <3>2. k[1] = r /\ k[2] = s /\ ruleTasks[<<r, s>>].live BY <3>1
    <3> QED BY <1>2, <3>1, <3>2 DEF RuleOK
  <2>2. HandlesAreLive /\ EnabledRulesAreActive
    BY <1>2 DEF RuleOK, HandlesAreLive, EnabledRulesAreActive
  <2> QED BY <1>2, <2>1, <2>2 DEF RulesKept
<1>3. RulesKept => SoundTasks(ruleTasks) BY DEF RulesKept
<1> QED BY <1>1, <1>2, <1>3 DEF AllRulesOK

(* No live task is left of the rules whose handles abort_handle takes. *)
LEMMA AbortEnds ==
    ASSUME AutomationInv, NEW rs \in SUBSET Ids
    PROVE  LET ts == Abort(ruleTasks, rs) IN
           /\ SoundTasks(ts)
           /\ \A r \in rs, s \in Slots : ~ts[<<r, s>>].live
           /\ \A r \in Ids \ rs, s \in Slots : ts[<<r, s>>] = ruleTasks[<<r, s>>]
<1> DEFINE ts == Abort(ruleTasks, rs)
           hit(k) == k[1] \in rs /\ handle[k[1]] = k[2] /\ k[2] # 0
<1>1. ts = [k \in TaskKeys |-> IF hit(k) THEN Aborted(ruleTasks[k]) ELSE ruleTasks[k]] BY DEF Abort
<1>2. \A k \in TaskKeys : ts[k] = IF hit(k) THEN Aborted(ruleTasks[k]) ELSE ruleTasks[k] BY <1>1
<1>3. \A k \in TaskKeys : SoundTask(ruleTasks[k]) BY DEF AutomationInv, SoundTasks
<1>4. SoundTasks(ts) BY <1>2, <1>3, AbortedIsSound, <1>1 DEF SoundTask, SoundTasks
<1>5. ASSUME NEW r \in rs, NEW s \in Slots PROVE ~ts[<<r, s>>].live
  <2>1. <<r, s>> \in TaskKeys /\ s # 0 /\ <<r, s>>[1] = r /\ <<r, s>>[2] = s BY KeysOfRule
  <2>2. CASE handle[r] = s BY <1>2, <1>3, <2>1, <2>2, AbortedIsSound
  <2>3. CASE handle[r] # s BY <2>1, <2>3, <1>2 DEF AutomationInv, NoTaskOutlivesItsRule
  <2> QED BY <2>2, <2>3
<1>6. ASSUME NEW r \in Ids \ rs, NEW s \in Slots PROVE ts[<<r, s>>] = ruleTasks[<<r, s>>]
  BY KeysOfRule, <1>2
<1> QED BY <1>4, <1>5, <1>6

(* Each of rs that needs a task gets one, and nothing else changes. *)
LEMMA ActivateSpawns ==
    ASSUME NEW ts, SoundTasks(ts), NEW rs \in SUBSET Ids, NEW def \in [rs -> Definitions],
           handle \in [Ids -> Slots \cup {0}], Activate(ts, rs, def),
           \A r \in rs, s \in Slots : ~ts[<<r, s>>].live
    PROVE  /\ SoundTasks(ruleTasks') /\ handle' \in [Ids -> Slots \cup {0}]
           /\ \A r \in rs :
                 /\ Activates(def[r]) => handle'[r] \in Slots /\ ruleTasks'[<<r, handle'[r]>>].live
                 /\ ~Activates(def[r]) => handle'[r] = 0
                 /\ \A s \in Slots : ruleTasks'[<<r, s>>].live =>
                       s = handle'[r] /\ ruleTasks'[<<r, s>>].def = def[r]
           /\ \A r \in Ids \ rs :
                 handle'[r] = handle[r] /\ \A s \in Slots : ruleTasks'[<<r, s>>] = ts[<<r, s>>]
<1> DEFINE spawn == {r \in rs : Activates(def[r])}
           hit(k) == k[1] \in spawn /\ k[2] = FreeSlot(ts, k[1])
<1>1. ruleTasks' = [k \in TaskKeys |-> IF hit(k) THEN Spawned(def[k[1]]) ELSE ts[k]] BY DEF Activate
<1>2. handle' = [r \in Ids |-> IF r \in spawn THEN FreeSlot(ts, r) ELSE IF r \in rs THEN 0 ELSE handle[r]]
  BY DEF Activate
<1>3. \A r \in spawn : FreeSlot(ts, r) \in Slots /\ FreeSlot(ts, r) # 0
  BY KeysOfRule DEF Activate, FreeSlot, FreeSlots
<1>4. ASSUME NEW d \in Definitions PROVE SoundTask(Spawned(d)) /\ Spawned(d).live /\ Spawned(d).def = d
  <2> DEFINE pc == IF d.trigger = "schedule" THEN "sleeping" ELSE "spawned"
  <2>1. pc \in {"sleeping", "spawned"} /\ Spawned(d) = RuleTask(d, pc) BY DEF Spawned
  <2> HIDE DEF pc
  <2> QED BY <2>1, RuleTaskFields DEF SoundTask, TaskStates
<1>5. \A k \in TaskKeys : ruleTasks'[k] = IF hit(k) THEN Spawned(def[k[1]]) ELSE ts[k] BY <1>1
<1>6. \A r \in Ids : handle'[r] = IF r \in spawn THEN FreeSlot(ts, r) ELSE IF r \in rs THEN 0 ELSE handle[r]
  BY <1>2
<1>7. SoundTasks(ruleTasks') BY <1>4, <1>5, <1>1 DEF SoundTasks, SoundTask
<1>8. handle' \in [Ids -> Slots \cup {0}] BY <1>2, <1>3
<1>9. ASSUME NEW r \in rs, NEW s \in Slots
      PROVE  ruleTasks'[<<r, s>>] = IF r \in spawn /\ s = FreeSlot(ts, r) THEN Spawned(def[r]) ELSE ts[<<r, s>>]
  BY KeysOfRule, <1>5
<1>10. ASSUME NEW r \in rs
       PROVE  /\ Activates(def[r]) => handle'[r] \in Slots /\ ruleTasks'[<<r, handle'[r]>>].live
              /\ ~Activates(def[r]) => handle'[r] = 0
              /\ \A s \in Slots : ruleTasks'[<<r, s>>].live =>
                    s = handle'[r] /\ ruleTasks'[<<r, s>>].def = def[r]
  BY <1>3, <1>4, <1>6, <1>9
<1>11. ASSUME NEW r \in Ids \ rs
       PROVE  handle'[r] = handle[r] /\ \A s \in Slots : ruleTasks'[<<r, s>>] = ts[<<r, s>>]
  BY <1>5, <1>6, KeysOfRule
<1> HIDE DEF spawn
<1> QED BY <1>7, <1>8, <1>10, <1>11
(* A command leaves the scene's bounds and the directory as they are. *)
LEMMA CommandKeepsScene ==
    ASSUME AutomationInv, Command, UNCHANGED <<file, changes>>
    PROVE  SceneOK' /\ DirectoryOK'
BY DEF AutomationInv, Command, SceneOK, DirectoryOK

(* The invariant in parts, for what one step leaves alone. *)
LEMMA InvParts ==
    AutomationInv <=> SceneOK /\ DirectoryOK /\ EngineOK /\ RulesKept
  BY DEF AutomationInv, RulesKept

(* What an engine whose rule r is changed must see to: r's tasks. *)
LEMMA OneRuleChanges ==
    ASSUME AutomationInv, NEW r \in Ids, EngineOK', SoundTasks(ruleTasks)',
           engineRunning' = engineRunning, RuleOK(r)',
           \A q \in Ids \ {r} :
              /\ rules'[q] = rules[q] /\ handle'[q] = handle[q]
              /\ \A s \in Slots : ruleTasks'[<<q, s>>] = ruleTasks[<<q, s>>]
    PROVE  RulesKept'
<1>1. \A q \in Ids : RuleOK(q) BY RuleByRule, InvParts DEF AllRulesOK
<1>2. ASSUME NEW q \in Ids PROVE RuleOK(q)'
  <2>1. CASE q = r BY <2>1
  <2>2. CASE q # r BY <1>1, <2>2 DEF AutomationInv, EngineOK, RuleOK, Enabled
  <2> QED BY <2>1, <2>2
<1>3. AllRulesOK' BY <1>2 DEF AllRulesOK
<1> QED BY <1>3, RuleByRule, PTL

(* r's rule is gone, or not enabled, or the engine rests: so is its task. *)
LEMMA AbortOne ==
    ASSUME AutomationInv, NEW r \in Ids, rules' \in [Ids -> {Nothing} \cup [def : Definitions, enabled : BOOLEAN]],
           \A q \in Ids \ {r} : rules'[q] = rules[q], engineRunning' = engineRunning,
           ~engineRunning \/ ~Enabled(r)',
           ruleTasks' = Abort(ruleTasks, {r}), handle' = [handle EXCEPT ![r] = 0]
    PROVE  EngineOK' /\ RulesKept'
<1>1. EngineOK' BY DEF AutomationInv, EngineOK
<1>2. /\ SoundTasks(ruleTasks')
      /\ \A s \in Slots : ~ruleTasks'[<<r, s>>].live
      /\ \A q \in Ids \ {r}, s \in Slots : ruleTasks'[<<q, s>>] = ruleTasks[<<q, s>>]
  BY AbortEnds
<1>3. handle'[r] = 0 /\ \A q \in Ids \ {r} : handle'[q] = handle[q] BY DEF AutomationInv, EngineOK
<1>4. RuleOK(r)' BY <1>2, <1>3 DEF RuleOK
<1> QED BY <1>1, <1>2, <1>3, <1>4, OneRuleChanges

(* r's rule has a new task, and none besides. *)
LEMMA ActivateOne ==
    ASSUME AutomationInv, NEW r \in Ids, NEW d \in Definitions, engineRunning, engineRunning' = TRUE,
           rules' \in [Ids -> {Nothing} \cup [def : Definitions, enabled : BOOLEAN]],
           Enabled(r)', rules'[r].def = d, \A q \in Ids \ {r} : rules'[q] = rules[q],
           NEW ts, SoundTasks(ts), Activate(ts, {r}, [q \in {r} |-> d]),
           \A s \in Slots : ~ts[<<r, s>>].live,
           \A q \in Ids \ {r}, s \in Slots : ts[<<q, s>>] = ruleTasks[<<q, s>>]
    PROVE  EngineOK' /\ RulesKept'
<1> DEFINE rs == {r}
           def == [q \in rs |-> d]
<1>1. rs \in SUBSET Ids /\ r \in rs /\ (\A q \in rs : q = r) /\ def \in [rs -> Definitions] /\ def[r] = d
  OBVIOUS
<1>2. /\ Activate(ts, rs, def) /\ handle \in [Ids -> Slots \cup {0}]
      /\ \A q \in rs, s \in Slots : ~ts[<<q, s>>].live
  BY DEF AutomationInv, EngineOK
<1> HIDE DEF def, rs
<1>3. /\ SoundTasks(ruleTasks') /\ handle' \in [Ids -> Slots \cup {0}]
      /\ \A q \in rs :
            /\ Activates(def[q]) => handle'[q] \in Slots /\ ruleTasks'[<<q, handle'[q]>>].live
            /\ ~Activates(def[q]) => handle'[q] = 0
            /\ \A s \in Slots : ruleTasks'[<<q, s>>].live =>
                  s = handle'[q] /\ ruleTasks'[<<q, s>>].def = def[q]
      /\ \A q \in Ids \ rs :
            handle'[q] = handle[q] /\ \A s \in Slots : ruleTasks'[<<q, s>>] = ts[<<q, s>>]
  BY <1>1, <1>2, ActivateSpawns, SMTT(20)
<1>4. EngineOK' BY <1>3 DEF EngineOK, AutomationInv
<1>5. RuleOK(r)' BY <1>1, <1>3, KeysOfRule DEF RuleOK
<1> QED BY <1>1, <1>3, <1>4, <1>5, OneRuleChanges

(* Each method of the engine touches the tasks of its rule alone: *)
LEMMA AddRuleKeeps ==
    ASSUME AutomationInv, NEW r \in Ids, NEW d \in Definitions, NEW enabled \in BOOLEAN,
           AddRule(r, d, enabled)
    PROVE  EngineOK' /\ RulesKept'
<1> DEFINE new == [def |-> d, enabled |-> enabled]
<1>1. rules \in [Ids -> {Nothing} \cup [def : Definitions, enabled : BOOLEAN]]
  BY DEF AutomationInv, EngineOK
<1>2. rules' = [rules EXCEPT ![r] = new] /\ engineRunning' = engineRunning BY DEF AddRule
<1>3. CASE engineRunning /\ enabled
  <2>1. Activate(Abort(ruleTasks, {r}), {r}, [q \in {r} |-> d]) BY <1>3 DEF AddRule
  <2>2. /\ SoundTasks(Abort(ruleTasks, {r}))
        /\ \A s \in Slots : ~Abort(ruleTasks, {r})[<<r, s>>].live
        /\ \A q \in Ids \ {r}, s \in Slots : Abort(ruleTasks, {r})[<<q, s>>] = ruleTasks[<<q, s>>]
    BY AbortEnds
  <2>3. /\ rules' \in [Ids -> {Nothing} \cup [def : Definitions, enabled : BOOLEAN]]
        /\ rules'[r] = new /\ \A q \in Ids \ {r} : rules'[q] = rules[q]
    BY <1>1, <1>2
  <2>4. new # Nothing BY AutomationAssumption
  <2>5. Enabled(r)' /\ rules'[r].def = d BY <1>3, <2>3, <2>4 DEF Enabled
  <2> QED BY <1>2, <1>3, <2>1, <2>2, <2>3, <2>5, ActivateOne
<1>4. CASE ~(engineRunning /\ enabled) BY <1>4, <1>1, <1>2, AbortOne DEF AddRule, Enabled
<1> QED BY <1>3, <1>4

(* remove_rule aborts them, *)
LEMMA RemoveRuleKeeps ==
    ASSUME AutomationInv, NEW r \in Ids, RemoveRule(r)
    PROVE  EngineOK' /\ RulesKept'
BY AbortOne DEF AutomationInv, EngineOK, RemoveRule, Enabled

(* The rule r reads as before, but for whether it is enabled. *)
LEMMA SwitchedRule ==
    ASSUME AutomationInv, NEW r \in Ids, rules[r] # Nothing, NEW on \in BOOLEAN,
           rules' = [rules EXCEPT ![r].enabled = on]
    PROVE  /\ rules' \in [Ids -> {Nothing} \cup [def : Definitions, enabled : BOOLEAN]]
           /\ rules'[r] \in [def : Definitions, enabled : BOOLEAN] /\ rules'[r] # Nothing
           /\ rules[r].def \in Definitions /\ rules'[r].def = rules[r].def /\ rules'[r].enabled = on
           /\ \A q \in Ids \ {r} : rules'[q] = rules[q]
<1> DEFINE RuleStates == [def : Definitions, enabled : BOOLEAN]
           new == [rules[r] EXCEPT !.enabled = on]
<1>1. rules \in [Ids -> {Nothing} \cup RuleStates] /\ rules[r] \in RuleStates
  BY DEF AutomationInv, EngineOK
<1>2. new \in RuleStates /\ new.def = rules[r].def /\ new.enabled = on /\ rules[r].def \in Definitions
  BY <1>1
<1>3. new # Nothing BY <1>2, AutomationAssumption
<1>4. rules' = [rules EXCEPT ![r] = new] OBVIOUS
<1> HIDE DEF new, RuleStates
<1>5. rules'[r] = new /\ \A q \in Ids \ {r} : rules'[q] = rules[q] BY <1>1, <1>4
<1>6. rules' \in [Ids -> {Nothing} \cup RuleStates] BY <1>1, <1>2, <1>4
<1> QED BY <1>2, <1>3, <1>5, <1>6 DEF RuleStates

(* so does disable_rule, *)
LEMMA DisableRuleKeeps ==
    ASSUME AutomationInv, NEW r \in Ids, DisableRule(r)
    PROVE  EngineOK' /\ RulesKept'
<1>1. rules[r] # Nothing /\ rules' = [rules EXCEPT ![r].enabled = FALSE] /\ engineRunning' = engineRunning
  BY DEF DisableRule
<1>2. /\ rules' \in [Ids -> {Nothing} \cup [def : Definitions, enabled : BOOLEAN]]
      /\ rules'[r].enabled = FALSE /\ \A q \in Ids \ {r} : rules'[q] = rules[q]
  BY <1>1, SwitchedRule
<1>3. ~Enabled(r)' BY <1>2 DEF Enabled
<1>4. CASE engineRunning BY <1>1, <1>2, <1>3, <1>4, AbortOne DEF DisableRule
<1>5. CASE ~engineRunning
  <2>1. UNCHANGED <<ruleTasks, handle>> BY <1>5 DEF DisableRule
  <2>2. EngineOK' BY <1>1, <1>2, <2>1 DEF AutomationInv, EngineOK
  <2>3. RuleOK(r) BY RuleByRule, InvParts DEF AllRulesOK
  <2>4. RuleOK(r)' BY <1>1, <1>5, <2>1, <2>3 DEF RuleOK
  <2>5. SoundTasks(ruleTasks)' BY <2>1 DEF AutomationInv, SoundTasks
  <2> QED BY <1>1, <1>2, <2>1, <2>2, <2>4, <2>5, OneRuleChanges
<1> QED BY <1>4, <1>5

(* enable_rule spawns one. *)
LEMMA EnableRuleKeeps ==
    ASSUME AutomationInv, NEW r \in Ids, EnableRule(r)
    PROVE  EngineOK' /\ RulesKept'
<1>1. rules[r] # Nothing /\ rules' = [rules EXCEPT ![r].enabled = TRUE] /\ engineRunning' = engineRunning
  BY DEF EnableRule
<1>2. /\ rules' \in [Ids -> {Nothing} \cup [def : Definitions, enabled : BOOLEAN]]
      /\ rules'[r] \in [def : Definitions, enabled : BOOLEAN] /\ rules'[r] # Nothing
      /\ rules[r].def \in Definitions /\ rules'[r].def = rules[r].def /\ rules'[r].enabled = TRUE
      /\ \A q \in Ids \ {r} : rules'[q] = rules[q]
  BY <1>1, SwitchedRule
<1>3. RuleOK(r) /\ SoundTasks(ruleTasks) BY RuleByRule, InvParts DEF AllRulesOK
<1>4. CASE engineRunning /\ handle[r] = 0
  <2>1. Activate(ruleTasks, {r}, [q \in {r} |-> rules[r].def]) BY <1>4 DEF EnableRule
  <2>2. \A s \in Slots : ~ruleTasks[<<r, s>>].live BY <1>3, <1>4, KeysOfRule DEF RuleOK
  <2>3. Enabled(r)' BY <1>2 DEF Enabled
  <2> QED BY <1>1, <1>2, <1>3, <1>4, <2>1, <2>2, <2>3, ActivateOne
<1>5. CASE ~(engineRunning /\ handle[r] = 0)
  <2>1. UNCHANGED <<ruleTasks, handle>> BY <1>5 DEF EnableRule
  <2>2. EngineOK' BY <1>1, <1>2, <2>1 DEF AutomationInv, EngineOK
  <2>3. Enabled(r)' BY <1>2 DEF Enabled
  <2>4. RuleOK(r)' BY <1>1, <1>2, <1>3, <1>5, <2>1, <2>3 DEF RuleOK
  <2>5. SoundTasks(ruleTasks)' BY <1>3, <2>1 DEF SoundTasks
  <2> QED BY <1>1, <1>2, <2>1, <2>2, <2>4, <2>5, OneRuleChanges
<1> QED BY <1>4, <1>5

(* start spawns those of all enabled rules at once, *)
LEMMA StartKeeps ==
    ASSUME AutomationInv, StartTask
    PROVE  EngineOK' /\ RulesKept'
<1> DEFINE rs == {r \in Ids : Enabled(r)}
           def == [r \in rs |-> rules[r].def]
<1>1. /\ ~engineRunning /\ engineRunning' = TRUE /\ rules' = rules
      /\ Activate(ruleTasks, rs, def)
  BY DEF StartTask
<1>2. rs \in SUBSET Ids /\ def \in [rs -> Definitions] /\ \A r \in rs : def[r] = rules[r].def
  BY DEF AutomationInv, EngineOK, Enabled
<1>3. \A r \in Ids : RuleOK(r) /\ handle[r] \in Slots \cup {0}
  BY RuleByRule, InvParts DEF AllRulesOK, EngineOK
<1>4. \A r \in Ids : handle[r] = 0 /\ \A s \in Slots : ~ruleTasks[<<r, s>>].live
  BY <1>1, <1>3 DEF RuleOK
<1>5. \A r \in Ids : r \in rs <=> Enabled(r)' BY <1>1 DEF Enabled
<1> HIDE DEF rs, def
<1>6. /\ SoundTasks(ruleTasks') /\ handle' \in [Ids -> Slots \cup {0}]
      /\ \A r \in rs :
            /\ Activates(def[r]) => handle'[r] \in Slots /\ ruleTasks'[<<r, handle'[r]>>].live
            /\ ~Activates(def[r]) => handle'[r] = 0
            /\ \A s \in Slots : ruleTasks'[<<r, s>>].live =>
                  s = handle'[r] /\ ruleTasks'[<<r, s>>].def = def[r]
      /\ \A r \in Ids \ rs :
            handle'[r] = handle[r] /\ \A s \in Slots : ruleTasks'[<<r, s>>] = ruleTasks[<<r, s>>]
  <2>1. SoundTasks(ruleTasks) /\ handle \in [Ids -> Slots \cup {0}] BY DEF AutomationInv, EngineOK
  <2>2. \A r \in rs, s \in Slots : ~ruleTasks[<<r, s>>].live BY <1>2, <1>4
  <2> QED BY <1>1, <1>2, <2>1, <2>2, ActivateSpawns
<1>7. EngineOK' BY <1>1, <1>6 DEF AutomationInv, EngineOK
<1>8. ASSUME NEW r \in Ids PROVE RuleOK(r)' BY <1>1, <1>2, <1>5, <1>6, KeysOfRule, <1>4 DEF RuleOK
<1>9. (SoundTasks(ruleTasks) /\ AllRulesOK)' BY <1>6, <1>8 DEF AllRulesOK
<1> QED BY <1>7, <1>9, RuleByRule, PTL

(* and stop aborts them all. *)
LEMMA StopKeeps ==
    ASSUME AutomationInv, Stop
    PROVE  EngineOK' /\ RulesKept'
<1>1. /\ SoundTasks(ruleTasks')
      /\ \A r \in Ids, s \in Slots : ~ruleTasks'[<<r, s>>].live
  BY AbortEnds DEF Stop
<1>2. engineRunning' = FALSE /\ handle' = [r \in Ids |-> 0] /\ rules' = rules BY DEF Stop
<1>3. EngineOK' BY <1>2 DEF AutomationInv, EngineOK
<1>4. (SoundTasks(ruleTasks) /\ AllRulesOK)' BY <1>1, <1>2 DEF AllRulesOK, RuleOK
<1> QED BY <1>3, <1>4, RuleByRule, PTL

-------------------------------------------------------------------------------
(* The theorem. *)

(* The engine starts without rules and tasks. *)
LEMMA AutomationInitInv == AutomationInit => AutomationInv
<1> SUFFICES ASSUME AutomationInit PROVE AutomationInv OBVIOUS
<1> DEFINE RuleStates == {Nothing} \cup [def : Definitions, enabled : BOOLEAN]
<1>1. SceneOK BY AutomationAssumption DEF AutomationInit, SceneOK
<1>2. DirectoryOK BY <1>1 DEF AutomationInit, SceneOK, DirectoryOK
<1>3. rules \in [Ids -> RuleStates] BY <1>1 DEF AutomationInit, SceneOK
<1>4. EngineOK BY <1>3 DEF AutomationInit, EngineOK
<1>5. \A k \in TaskKeys : ruleTasks[k] = NoTask BY DEF AutomationInit
<1>6. SoundTasks(ruleTasks) BY <1>5, NoTaskIsSound DEF AutomationInit, SoundTasks, SoundTask
<1>7. NoTaskOutlivesItsRule /\ HandlesAreLive /\ EnabledRulesAreActive
  BY <1>5, NoTaskIsSound DEF AutomationInit, NoTaskOutlivesItsRule, HandlesAreLive, EnabledRulesAreActive
<1> QED BY <1>1, <1>2, <1>4, <1>6, <1>7 DEF AutomationInv

(* Steps of tasks leave rules, handles and scene as they are. *)
LEMMA TaskStepInv ==
    ASSUME AutomationInv, NEW k \in TaskKeys, RuleTaskStep(k) \/ Tick(k)
    PROVE  AutomationInv'
<1>1. UNCHANGED <<engineVars, automationScene>>
  BY DEF RuleTaskStep, Tick, Watch, Receive, AutomationSettled, SettlePoll, CallDone
<1>2. Keeps(ruleTasks') /\ DirectoryOK'
  <2>1. CASE CallDone(k) BY <2>1, CallDoneKeeps
  <2>2. CASE Watch(k) \/ Receive(k) \/ AutomationSettled(k) \/ SettlePoll(k) \/ Tick(k)
    BY <2>2, WatchKeeps, ReceiveKeeps, SettledKeeps, SettlePollKeeps, TickKeeps DEF Tick, Watch,
      Receive, AutomationSettled, SettlePoll, AutomationInv, DirectoryOK
  <2> QED BY <2>1, <2>2 DEF RuleTaskStep
<1>3. RulesKept' BY <1>1, <1>2, KeepingTasks
<1>4. SceneOK' /\ EngineOK' BY <1>1 DEF AutomationInv, SceneOK, EngineOK, engineVars
<1> QED BY <1>2, <1>3, <1>4, InvParts, PTL

(* Other programs change the directory. *)
LEMMA FileStepInv ==
    ASSUME AutomationInv, NEW f \in automationScene.files,
           CreateFile(f) \/ WriteFile(f) \/ RemoveFile(f) \/ MoveFileIn(f)
    PROVE  AutomationInv'
<1>1. f \in Files BY DEF AutomationInv, SceneOK
<1>2. PICK kind \in FileTriggers : FileChange(<<Event(kind, f)>>)
  BY DEF CreateFile, WriteFile, RemoveFile, MoveFileIn, FileTriggers
<1>3. file' = [file EXCEPT ![f] = changes + 1] \/ file' = [file EXCEPT ![f] = 0]
  BY DEF CreateFile, WriteFile, RemoveFile, MoveFileIn
<1>4. <<Event(kind, f)>> \in Seq(Events) BY <1>1, EventsInSequence DEF EventKinds
<1>5. /\ UNCHANGED <<engineVars, automationScene>>
      /\ changes < automationScene.changes /\ changes' = changes + 1
      /\ ruleTasks' = Notified(ruleTasks, <<Event(kind, f)>>)
  BY <1>2 DEF FileChange
<1>6. SceneOK' /\ EngineOK' BY <1>5 DEF AutomationInv, SceneOK, EngineOK, engineVars
<1>7. DirectoryOK' BY <1>5, <1>3 DEF AutomationInv, SceneOK, DirectoryOK
<1>8. Keeps(ruleTasks') BY <1>4, <1>5, NotifiedIsSound DEF AutomationInv, Keeps
<1>9. RulesKept' BY <1>5, <1>8, KeepingTasks
<1> QED BY <1>6, <1>7, <1>9, InvParts, PTL

(* trigger_rule, which leaves the rules alone. *)
LEMMA TriggerStepInv ==
    ASSUME AutomationInv, NEW r \in Ids, TriggerRule(r)
    PROVE  AutomationInv'
<1>1. Command /\ UNCHANGED <<engineVars, file, changes>> BY DEF TriggerRule
<1>2. EngineOK' BY <1>1 DEF AutomationInv, EngineOK, engineVars
<1>3. RulesKept' BY <1>1, TriggerRuleKeeps, KeepingTasks
<1>4. SceneOK' /\ DirectoryOK' BY <1>1, CommandKeepsScene
<1> QED BY <1>2, <1>3, <1>4, InvParts, PTL

(* The commands to the engine. *)
LEMMA CommandStepInv ==
    ASSUME AutomationInv,
           \/ \E r \in automationScene.ids, d \in automationScene.definitions, enabled \in BOOLEAN :
                 AddRule(r, d, enabled)
           \/ \E r \in automationScene.ids : RemoveRule(r) \/ EnableRule(r) \/ DisableRule(r)
           \/ StartTask \/ Stop
    PROVE  AutomationInv'
<1>1. automationScene.ids \subseteq Ids /\ automationScene.definitions \subseteq Definitions
  BY DEF AutomationInv, SceneOK
<1>2. Command /\ UNCHANGED <<file, changes>>
  BY DEF AddRule, RemoveRule, EnableRule, DisableRule, StartTask, Stop
<1>3. EngineOK' /\ RulesKept'
  BY <1>1, AddRuleKeeps, RemoveRuleKeeps, EnableRuleKeeps, DisableRuleKeeps, StartKeeps, StopKeeps
<1>4. SceneOK' /\ DirectoryOK' BY <1>2, CommandKeepsScene
<1> QED BY <1>3, <1>4, InvParts, PTL

(* Every step keeps the invariant. *)
LEMMA AutomationStepInv == AutomationInv /\ [AutomationNext]_automationVars => AutomationInv'
<1> SUFFICES ASSUME AutomationInv, [AutomationNext]_automationVars PROVE AutomationInv' OBVIOUS
<1>1. CASE AutomationNext
  BY <1>1, CommandStepInv, TriggerStepInv, TaskStepInv, FileStepInv DEF AutomationInv, SceneOK,
    AutomationNext
<1>2. CASE UNCHANGED automationVars
  BY <1>2 DEF automationVars, AutomationInv, SceneOK, DirectoryOK, EngineOK, SoundTasks,
    NoTaskOutlivesItsRule, HandlesAreLive, EnabledRulesAreActive, Enabled
<1> QED BY <1>1, <1>2

(* Whatever rules are added, replaced, removed, enabled and disabled while the engine starts
   and stops, tasks end in calls and files come and go: no live task outlives its rule, and an
   engine that runs has a live task for each enabled rule that needs one. *)
THEOREM TasksAlwaysFollowRules == AutomationSpec => []TasksFollowRules
<1>1. AutomationSpec => []AutomationInv BY AutomationInitInv, AutomationStepInv, PTL DEF AutomationSpec
<1> QED BY <1>1, InvImpliesRules, PTL

-------------------------------------------------------------------------------
(* RuleEditor: the page, the files and the commands of the engine. *)

(* What has the fields of a rule, and no others. *)
IsRule(r) == r = [id |-> r.id, name |-> r.name, enabled |-> r.enabled, watch |-> r.watch,
                  conditions |-> r.conditions, actions |-> r.actions]

SameButSwitch(r, s) ==
    r.id = s.id /\ r.name = s.name /\ r.watch = s.watch /\ r.conditions = s.conditions /\ r.actions = s.actions

RulesById(f) ==
    /\ f = [id \in RuleIds |-> f[id]]
    /\ \A id \in RuleIds : f[id] = NoRule \/ (IsRule(f[id]) /\ f[id].id = id)

(* A sequence, of whatever. *)
IsSequence(s) == s \in Seq({s[i] : i \in DOMAIN s})

(* The engine once it has handled a command. *)
After(e, o) ==
    CASE o.kind = "add" -> [e EXCEPT ![o.rule.id] = o.rule]
      [] o.kind = "remove" -> [e EXCEPT ![o.rule.id] = NoRule]
      [] OTHER -> IF e[o.rule.id] = NoRule THEN e
                  ELSE [e EXCEPT ![o.rule.id].enabled = (o.kind = "enable")]

(* The commands on their way lead from what the engine has to what is on file, by way of the
   engines es. *)
LeadsTo(es, e, os, f) ==
    /\ es[0] = e /\ es[Len(os)] = f
    /\ \A i \in 1..Len(os) : es[i] = After(es[i - 1], os[i])

(* The rows of the page are of rules on file, but for the switch, unless their file could not
   be written. *)
RowsFit == \A r \in page.rows :
    /\ IsRule(r) /\ r.id \in RuleIds
    /\ r.id \notin unsaved => ruleFiles[r.id] # NoRule /\ SameButSwitch(r, ruleFiles[r.id])

(* The commands lead to rules that are on file unless these could not be written or deleted. *)
ToldOf(f) == RulesById(f) /\ \A id \in RuleIds \ unsaved : f[id] = ruleFiles[id]
EngineIsLed == \E es, f : LeadsTo(es, engine, orders, f) /\ ToldOf(f)

EditorInv ==
    /\ RulesById(ruleFiles) /\ IsSequence(orders)
    /\ page = [open |-> page.open, rows |-> page.rows, on |-> page.on]
    /\ dialog.rule = NoRule \/ dialog.rule.id \in RuleIds
    /\ RowsFit /\ EngineIsLed

(* A rule is not what stands for no rule. *)
LEMMA RuleIsNotNone == ASSUME NEW r, IsRule(r) PROVE r # NoRule
BY DEF IsRule, NoRule

(* Rules that differ in their switch are the same once it is set, and rules still. *)
LEMMA SwitchedIsRule ==
    ASSUME NEW r, NEW s, NEW on, IsRule(r), IsRule(s), SameButSwitch(r, s)
    PROVE  /\ [r EXCEPT !.enabled = on] = [s EXCEPT !.enabled = on]
           /\ IsRule([r EXCEPT !.enabled = on]) /\ SameButSwitch([r EXCEPT !.enabled = on], s)
           /\ [r EXCEPT !.enabled = on].id = r.id
<1> DEFINE R(q) == [id |-> q.id, name |-> q.name, enabled |-> on, watch |-> q.watch,
                    conditions |-> q.conditions, actions |-> q.actions]
<1>1. ASSUME NEW q, IsRule(q) PROVE [q EXCEPT !.enabled = on] = R(q)
  <2> DEFINE old == [id |-> q.id, name |-> q.name, enabled |-> q.enabled, watch |-> q.watch,
                     conditions |-> q.conditions, actions |-> q.actions]
  <2>1. q = old BY <1>1 DEF IsRule
  <2>2. [old EXCEPT !.enabled = on] = R(old) OBVIOUS
  <2>3. R(old) = R(q) OBVIOUS
  <2> QED BY <2>1, <2>2, <2>3
<1>2. R(r) = R(s) BY DEF SameButSwitch
<1>3. IsRule(R(r)) /\ SameButSwitch(R(r), s) /\ R(r).id = r.id BY DEF IsRule, SameButSwitch
<1> HIDE DEF R
<1> QED BY <1>1, <1>2, <1>3

(* A sequence with an element more, whatever its elements are. *)
LEMMA SequencesGrow ==
    ASSUME NEW s, NEW e, IsSequence(s)
    PROVE  /\ IsSequence(Append(s, e)) /\ Len(Append(s, e)) = Len(s) + 1 /\ Len(s) \in Nat
           /\ \A i \in 1..Len(s) : Append(s, e)[i] = s[i]
           /\ Append(s, e)[Len(s) + 1] = e
<1> DEFINE S == {s[i] : i \in DOMAIN s} \cup {e}
          t == Append(s, e)
<1>1. s \in Seq(S) BY SeqMonotonic DEF IsSequence
<1>2. t \in Seq(S) /\ Len(t) = Len(s) + 1 /\ Len(s) \in Nat BY <1>1
<1>3. /\ \A i \in 1..Len(s) : t[i] = s[i]
      /\ t[Len(s) + 1] = e BY <1>1
<1>4. DOMAIN t = 1..(Len(s) + 1) /\ DOMAIN s = 1..Len(s) BY <1>1, <1>2, LenProperties
<1>5. S \subseteq {t[i] : i \in DOMAIN t} BY <1>2, <1>3, <1>4
<1>6. t \in Seq({t[i] : i \in DOMAIN t})
  <2> HIDE DEF t, S
  <2> QED BY <1>2, <1>5, SeqMonotonic
<1> QED BY <1>2, <1>3, <1>6 DEF IsSequence

(* One without its first. *)
LEMMA SequencesShrink ==
    ASSUME NEW s, IsSequence(s), s # << >>
    PROVE  /\ IsSequence(Tail(s)) /\ Len(Tail(s)) = Len(s) - 1 /\ Len(s) \in Nat \ {0}
           /\ \A i \in 1..Len(Tail(s)) : Tail(s)[i] = s[i + 1]
           /\ Head(s) = s[1]
<1> DEFINE S == {s[i] : i \in DOMAIN s}
          t == Tail(s)
<1>1. s \in Seq(S) BY DEF IsSequence
<1>2. /\ t \in Seq(S) /\ Len(t) = Len(s) - 1 /\ Len(s) \in Nat \ {0}
      /\ \A i \in 1..Len(t) : t[i] = s[i + 1]
      /\ Head(s) = s[1]
  <2> HIDE DEF S
  <2> QED BY <1>1, HeadTailProperties, EmptySeq
<1>3. t \in Seq({t[i] : i \in DOMAIN t})
  <2> HIDE DEF t, S
  <2>1. Len(t) \in Nat /\ t \in [1..Len(t) -> S] /\ DOMAIN t = 1..Len(t) BY <1>2, LenProperties
  <2> DEFINE T == {t[i] : i \in DOMAIN t}
  <2>2. t \in [1..Len(t) -> T] BY <2>1
  <2> HIDE DEF T
  <2>3. t \in Seq(T) BY <2>1, <2>2
  <2> QED BY <2>3 DEF T
<1> QED BY <1>2, <1>3 DEF IsSequence

(* A command that makes of the files what it will make of the engine leads on. *)
LEMMA OneMoreOrder ==
    ASSUME NEW es, NEW e, NEW os, NEW f, NEW o, IsSequence(os), LeadsTo(es, e, os, f)
    PROVE  \E ds : LeadsTo(ds, e, Append(os, o), After(f, o))
<1> DEFINE n == Len(os)
          ds == [i \in 0..(n + 1) |-> IF i = n + 1 THEN After(f, o) ELSE es[i]]
          t  == Append(os, o)
<1>1. n \in Nat /\ Len(t) = n + 1 /\ (\A i \in 1..n : t[i] = os[i]) /\ t[n + 1] = o BY SequencesGrow
<1>2. ds[0] = e /\ ds[n + 1] = After(f, o) /\ ds[n] = f /\ \A i \in 0..n : ds[i] = es[i]
    BY <1>1 DEF LeadsTo
<1>3. ASSUME NEW i \in 1..(n + 1) PROVE ds[i] = After(ds[i - 1], t[i])
  <2>1. CASE i = n + 1 BY <1>1, <1>2, <2>1
  <2>2. CASE i # n + 1 BY <1>1, <2>2, <1>2 DEF LeadsTo
  <2> QED BY <2>1, <2>2
<1> HIDE DEF ds, t
<1>4. LeadsTo(ds, e, t, After(f, o)) BY <1>1, <1>2, <1>3 DEF LeadsTo
<1> QED BY <1>4 DEF t

(* Once the engine has handled the first command, the others lead on. *)
LEMMA OneOrderLess ==
    ASSUME NEW es, NEW e, NEW os, NEW f, IsSequence(os), LeadsTo(es, e, os, f), os # << >>
    PROVE  \E ds : LeadsTo(ds, After(e, Head(os)), Tail(os), f)
<1> DEFINE n == Len(os)
          ds == [i \in 0..(n - 1) |-> es[i + 1]]
          t  == Tail(os)
<1>1. n \in Nat \ {0} /\ Len(t) = n - 1 /\ (\A i \in 1..(n - 1) : t[i] = os[i + 1]) /\ Head(os) = os[1]
    BY SequencesShrink
<1>2. ds[0] = After(e, Head(os)) /\ ds[n - 1] = f BY <1>1 DEF LeadsTo
<1>3. ASSUME NEW i \in 1..(n - 1) PROVE ds[i] = After(ds[i - 1], t[i])
  <2>1. ds[i] = es[i + 1] /\ ds[i - 1] = es[i] BY <1>1
  <2>2. es[i + 1] = After(es[i], os[i + 1]) BY <1>1 DEF LeadsTo
  <2>3. t[i] = os[i + 1] BY <1>1
  <2> QED BY <2>1, <2>2, <2>3
<1> HIDE DEF ds, t
<1>4. LeadsTo(ds, After(e, Head(os)), t, f) BY <1>1, <1>2, <1>3 DEF LeadsTo
<1> QED BY <1>4 DEF t

(* A file written, or none in its place. *)
FilePut(f, id, r) == [f EXCEPT ![id] = r]
LEMMA FilesPut ==
    ASSUME NEW f, NEW id \in RuleIds, NEW r, RulesById(f), r = NoRule \/ (IsRule(r) /\ r.id = id)
    PROVE  /\ RulesById(FilePut(f, id, r)) /\ FilePut(f, id, r)[id] = r
           /\ \A j \in RuleIds : j # id => FilePut(f, id, r)[j] = f[j]
<1> DEFINE g == FilePut(f, id, r)
<1>1. f = [j \in RuleIds |-> f[j]] BY DEF RulesById
<1>2. g = [j \in RuleIds |-> IF j = id THEN r ELSE f[j]] BY <1>1 DEF FilePut
<1>3. \A j \in RuleIds : g[j] = IF j = id THEN r ELSE f[j] BY <1>2
<1>4. g = [j \in RuleIds |-> g[j]] BY <1>2
<1> HIDE DEF g
<1>5. \A j \in RuleIds : f[j] = NoRule \/ (IsRule(f[j]) /\ f[j].id = j) BY DEF RulesById
<1>6. RulesById(g) BY <1>3, <1>4, <1>5 DEF RulesById
<1> QED BY <1>3, <1>6 DEF g

(* A row drawn from the files has what its rule has there. *)
LEMMA RowsDrawn ==
    ASSUME NEW f, NEW r \in Rules(f), RulesById(f)
    PROVE  IsRule(r) /\ r.id \in RuleIds /\ f[r.id] # NoRule /\ SameButSwitch(r, f[r.id])
BY DEF Rules, RulesById, SameButSwitch

(* What a step must show: the files, the commands and the rows. *)
LEMMA EditorStep ==
    ASSUME RulesById(ruleFiles'), IsSequence(orders'),
           page' = [open |-> page'.open, rows |-> page'.rows, on |-> page'.on],
           dialog'.rule = NoRule \/ dialog'.rule.id \in RuleIds, RowsFit', EngineIsLed'
    PROVE  EditorInv'
BY DEF EditorInv

(* A page drawn again has the rows of the files. *)
LEMMA RenderFits ==
    ASSUME RulesById(ruleFiles'), Render(ruleFiles')
    PROVE  RowsFit' /\ page' = [open |-> page'.open, rows |-> page'.rows, on |-> page'.on]
BY RowsDrawn DEF Render, RowsFit

(* What a command makes of rules: they are rules still. *)
LEMMA OrderKeepsRules ==
    ASSUME NEW f, RulesById(f), NEW o, o.rule.id \in RuleIds, o.kind = "add" => IsRule(o.rule)
    PROVE  /\ RulesById(After(f, o))
           /\ \A j \in RuleIds : j # o.rule.id => After(f, o)[j] = f[j]
           /\ o.kind = "add" => After(f, o)[o.rule.id] = o.rule
           /\ o.kind = "remove" => After(f, o)[o.rule.id] = NoRule
           /\ o.kind \notin {"add", "remove"} /\ f[o.rule.id] # NoRule =>
                 After(f, o)[o.rule.id] = [f[o.rule.id] EXCEPT !.enabled = (o.kind = "enable")]
<1> DEFINE id == o.rule.id
          on == (o.kind = "enable")
<1>1. CASE o.kind = "add"
  <2> DEFINE g == After(f, o)
  <2>1. g = FilePut(f, id, o.rule) BY <1>1 DEF After, FilePut
  <2> HIDE DEF g
  <2>2. RulesById(g) /\ g[id] = o.rule /\ \A k \in RuleIds : k # id => g[k] = f[k]
      BY <1>1, <2>1, FilesPut
  <2> QED BY <1>1, <2>2 DEF g
<1>2. CASE o.kind = "remove"
  <2> DEFINE g == After(f, o)
  <2>1. g = FilePut(f, id, NoRule) BY <1>2 DEF After, FilePut
  <2> HIDE DEF g
  <2>2. RulesById(g) /\ g[id] = NoRule /\ \A k \in RuleIds : k # id => g[k] = f[k] BY <2>1, FilesPut
  <2> QED BY <1>2, <2>2 DEF g
<1>3. CASE o.kind \notin {"add", "remove"} /\ f[id] = NoRule BY <1>3 DEF After
<1>4. CASE o.kind \notin {"add", "remove"} /\ f[id] # NoRule
  <2> DEFINE new == [f[id] EXCEPT !.enabled = on]
  <2>1. After(f, o) = [f EXCEPT ![id].enabled = on] BY <1>4 DEF After
  <2>2. [f EXCEPT ![id].enabled = on] = [f EXCEPT ![id] = new] OBVIOUS
  <2>3. IsRule(f[id]) /\ f[id].id = id BY <1>4 DEF RulesById
  <2>4. SameButSwitch(f[id], f[id]) BY DEF SameButSwitch
  <2>5. IsRule(new) /\ new.id = id BY <2>3, <2>4, SwitchedIsRule
  <2> HIDE DEF new
  <2> DEFINE g == After(f, o)
  <2>6. g = FilePut(f, id, new) BY <2>1, <2>2 DEF FilePut
  <2> HIDE DEF g
  <2>7. RulesById(g) /\ g[id] = new /\ \A k \in RuleIds : k # id => g[k] = f[k] BY <2>5, <2>6, FilesPut
  <2> QED BY <1>4, <2>7 DEF new, g
<1> QED BY <1>1, <1>2, <1>3, <1>4

(* A command that is given: it leads to what it makes of the rules the others led to. *)
LEMMA OrderLeads ==
    ASSUME EditorInv, NEW kind, NEW rule, Order(kind, rule), UNCHANGED engine,
           rule.id \in RuleIds, kind = "add" => IsRule(rule),
           \A f : ToldOf(f) => \A id \in RuleIds \ unsaved' :
                 After(f, [kind |-> kind, rule |-> rule])[id] = ruleFiles'[id]
    PROVE  IsSequence(orders') /\ EngineIsLed'
<1> DEFINE o == [kind |-> kind, rule |-> rule]
<1>1. orders' = Append(orders, o) BY DEF Order
<1>2. PICK es, f : LeadsTo(es, engine, orders, f) /\ ToldOf(f) BY DEF EditorInv, EngineIsLed
<1>3. IsSequence(orders) BY DEF EditorInv
<1>4. o.kind = kind /\ o.rule = rule OBVIOUS
<1>5. \A id \in RuleIds \ unsaved' : After(f, o)[id] = ruleFiles'[id] BY <1>2
<1> HIDE DEF o
<1>6. IsSequence(Append(orders, o)) BY <1>3, SequencesGrow
<1>7. PICK ds : LeadsTo(ds, engine, Append(orders, o), After(f, o)) BY <1>2, <1>3, OneMoreOrder
<1>8. RulesById(After(f, o)) BY <1>2, <1>4, OrderKeepsRules DEF ToldOf
<1>9. ToldOf(After(f, o))' BY <1>5, <1>8 DEF ToldOf
<1> QED BY <1>1, <1>6, <1>7, <1>9 DEF EngineIsLed

(* No page, no command, and the engine as loaded. *)
LEMMA InitOfEditor == RuleInit => EditorInv
<1> SUFFICES ASSUME RuleInit PROVE EditorInv OBVIOUS
<1>1. RulesById(ruleFiles)
  <2>1. ruleFiles \in OnFile BY DEF RuleInit
  <2>2. ASSUME NEW id \in RuleIds PROVE ruleFiles[id] = NoRule \/ (IsRule(ruleFiles[id]) /\ ruleFiles[id].id = id)
    <3> DEFINE r == ruleFiles[id]
    <3>1. CASE r = NoRule BY <3>1
    <3>2. CASE r = [id |-> id, name |-> r.name, enabled |-> r.enabled, watch |-> r.watch,
                    conditions |-> r.conditions, actions |-> r.actions]
        BY <3>2 DEF IsRule
    <3> QED BY <2>1, <3>1, <3>2, RulesAssumption
  <2>3. ruleFiles = [id \in RuleIds |-> ruleFiles[id]] BY <2>1, RulesAssumption
  <2> QED BY <2>2, <2>3 DEF RulesById
<1>2. orders = << >> /\ engine = ruleFiles /\ page = NoPage /\ dialog = NoRuleDialog /\ unsaved = {}
    BY DEF RuleInit
<1>3. IsSequence(orders) BY EmptySeq, <1>2 DEF IsSequence
<1>4. LeadsTo([i \in {0} |-> engine], engine, orders, ruleFiles) BY <1>2 DEF LeadsTo
<1>5. dialog.rule = NoRule BY <1>2 DEF NoRuleDialog
<1>6. RowsFit /\ page = [open |-> page.open, rows |-> page.rows, on |-> page.on] BY <1>2 DEF RowsFit, NoPage
<1>7. EngineIsLed BY <1>1, <1>4 DEF EngineIsLed, ToldOf
<1> QED BY <1>1, <1>2, <1>3, <1>5, <1>6, <1>7 DEF EditorInv

(* A file that could not be written is as it was, or none. *)
LEMMA FilesLeft ==
    ASSUME RulesById(ruleFiles), NEW id \in RuleIds, WriteFails(id)
    PROVE  RulesById(ruleFiles') /\ (\A j \in RuleIds : j # id => ruleFiles'[j] = ruleFiles[j])
<1>1. CASE ruleFiles' = ruleFiles BY <1>1
<1>2. CASE ruleFiles' = FilePut(ruleFiles, id, NoRule) BY <1>2, FilesPut
<1> QED BY <1>1, <1>2 DEF WriteFails, FilePut

(* A rule is put on file, or not, and the engine is told. *)
LEMMA StoreStep ==
    ASSUME EditorInv, NEW rule, StoreRule(rule), IsRule(rule), rule.id \in RuleIds, UNCHANGED engine,
           dialog'.rule = NoRule
    PROVE  EditorInv'
<1> DEFINE id == rule.id
          o == [kind |-> "add", rule |-> rule]
<1>0. RulesById(ruleFiles) BY DEF EditorInv
<1>1. /\ RulesById(ruleFiles') /\ \A j \in RuleIds : j # id => ruleFiles'[j] = ruleFiles[j]
      /\ id \notin unsaved' => ruleFiles'[id] = rule
      /\ unsaved \ {id} \subseteq unsaved'
  <2>1. CASE ruleFiles' = FilePut(ruleFiles, id, rule) /\ unsaved' = unsaved \ {id}
      BY <1>0, <2>1, FilesPut
  <2>2. CASE WriteFails(id)
    <3>1. unsaved' = unsaved \cup {id} BY <2>2 DEF WriteFails
    <3> QED BY <1>0, <2>2, <3>1, FilesLeft
  <2> QED BY <2>1, <2>2 DEF StoreRule, FilePut
<1>2. ASSUME NEW f, ToldOf(f), NEW j \in RuleIds \ unsaved' PROVE After(f, o)[j] = ruleFiles'[j]
  <2>1. o.kind = "add" /\ o.rule = rule OBVIOUS
  <2> HIDE DEF o
  <2>3. RulesById(f) /\ o.rule.id \in RuleIds /\ (o.kind = "add" => IsRule(o.rule)) BY <1>2, <2>1 DEF ToldOf
  <2>4. After(f, o)[o.rule.id] = o.rule /\ \A k \in RuleIds : k # o.rule.id => After(f, o)[k] = f[k]
      BY ONLY <2>1, <2>3, OrderKeepsRules, Zenon
  <2>2. After(f, o)[id] = rule /\ \A k \in RuleIds : k # id => After(f, o)[k] = f[k] BY <2>1, <2>4
  <2> QED BY <1>1, <1>2, <2>2 DEF ToldOf
<1>3. Order("add", rule) /\ Render(ruleFiles') BY DEF StoreRule
<1>4. IsSequence(orders') /\ EngineIsLed' BY <1>2, <1>3, OrderLeads
<1> QED BY <1>1, <1>3, <1>4, RenderFits, EditorStep

(* SaveRule preserves the invariant: the rule saved has its id from the dialog or the name. *)
LEMMA SaveStep == ASSUME EditorInv, SaveRule PROVE EditorInv'
<1>1. CASE Valid(dialog)
  <2>1. PICK id \in IF dialog.rule = NoRule THEN {i \in RuleIds : ruleFiles[i] = NoRule /\ i \notin unsaved}
                    ELSE {dialog.rule.id} :
            StoreRule(BuildRule(dialog, id))
      BY <1>1 DEF SaveRule
  <2>2. dialog' = NoRuleDialog /\ UNCHANGED engine BY <1>1 DEF SaveRule
  <2>3. id \in RuleIds BY DEF EditorInv
  <2> DEFINE rule == BuildRule(dialog, id)
  <2>4. IsRule(rule) /\ rule.id = id BY DEF BuildRule, IsRule
  <2>5. dialog'.rule = NoRule BY <2>2 DEF NoRuleDialog
  <2> HIDE DEF rule
  <2>6. StoreRule(rule) BY <2>1 DEF rule
  <2> QED BY <2>2, <2>3, <2>4, <2>5, <2>6, StoreStep
<1>2. CASE ~Valid(dialog)
  <2>1. dialog' = [dialog EXCEPT !.refused = TRUE] /\ UNCHANGED <<ruleFiles, orders, page, engine, unsaved>>
      BY <1>2 DEF SaveRule
  <2>2. dialog'.rule = dialog.rule BY <2>1
  <2>3. RowsFit' /\ EngineIsLed' BY <2>1 DEF EditorInv, RowsFit, EngineIsLed, ToldOf
  <2> QED BY <2>1, <2>2, <2>3 DEF EditorInv
<1> QED BY <1>1, <1>2

(* DeleteRule preserves the invariant. *)
LEMMA DeleteStep == ASSUME EditorInv, NEW rule \in page.rows, DeleteRule(rule) PROVE EditorInv'
<1> DEFINE id == rule.id
          o == [kind |-> "remove", rule |-> rule]
<1>0. RulesById(ruleFiles) /\ id \in RuleIds BY DEF EditorInv, RowsFit
<1>1. /\ RulesById(ruleFiles') /\ \A j \in RuleIds : j # id => ruleFiles'[j] = ruleFiles[j]
      /\ id \notin unsaved' => ruleFiles'[id] = NoRule
      /\ unsaved \ {id} \subseteq unsaved'
  <2>1. CASE ruleFiles' = FilePut(ruleFiles, id, NoRule) /\ unsaved' = unsaved \ {id}
      BY <1>0, <2>1, FilesPut
  <2>2. CASE DeleteFails(id) BY <1>0, <2>2 DEF DeleteFails
  <2> QED BY <2>1, <2>2 DEF DeleteRule, FilePut
<1>2. ASSUME NEW f, ToldOf(f), NEW j \in RuleIds \ unsaved' PROVE After(f, o)[j] = ruleFiles'[j]
  <2>1. o.kind = "remove" /\ o.rule = rule OBVIOUS
  <2> HIDE DEF o
  <2>3. RulesById(f) /\ o.rule.id \in RuleIds /\ (o.kind = "add" => IsRule(o.rule)) BY <1>0, <1>2, <2>1 DEF ToldOf
  <2>4. After(f, o)[o.rule.id] = NoRule /\ \A k \in RuleIds : k # o.rule.id => After(f, o)[k] = f[k]
      BY ONLY <2>1, <2>3, OrderKeepsRules, Zenon
  <2>2. After(f, o)[id] = NoRule /\ \A k \in RuleIds : k # id => After(f, o)[k] = f[k] BY <2>1, <2>4
  <2> QED BY <1>1, <1>2, <2>2 DEF ToldOf
<1>3. Order("remove", rule) /\ Render(ruleFiles') /\ UNCHANGED <<engine, dialog>> BY DEF DeleteRule
<1>4. IsSequence(orders') /\ EngineIsLed' BY <1>0, <1>2, <1>3, OrderLeads
<1>5. dialog'.rule = NoRule \/ dialog'.rule.id \in RuleIds BY <1>3 DEF EditorInv
<1> QED BY <1>1, <1>3, <1>4, <1>5, RenderFits, EditorStep

(* The switch writes the rule of its row, which is that of the file but for the switch. *)
LEMMA SwitchStep ==
    ASSUME EditorInv, NEW rule \in page.rows, NEW on \in BOOLEAN, SwitchRule(rule, on) PROVE EditorInv'
<1> DEFINE id == rule.id
          new == [rule EXCEPT !.enabled = on]
          kind == IF on THEN "enable" ELSE "disable"
          o == [kind |-> kind, rule |-> rule]
<1>1. /\ (ruleFiles' = [ruleFiles EXCEPT ![id] = new] /\ UNCHANGED unsaved) \/ WriteFails(id)
      /\ Order(kind, rule) /\ UNCHANGED <<engine, dialog>>
      /\ page' = [page EXCEPT !.on[id] = on]
    BY DEF SwitchRule
<1>2. /\ RulesById(ruleFiles) /\ id \in RuleIds /\ IsRule(rule)
      /\ id \notin unsaved => ruleFiles[id] # NoRule /\ SameButSwitch(rule, ruleFiles[id])
    BY DEF EditorInv, RowsFit
<1>3. IsRule(new) /\ new.id = id /\ SameButSwitch(new, rule)
  <2>1. SameButSwitch(rule, rule) BY DEF SameButSwitch
  <2> QED BY <1>2, <2>1, SwitchedIsRule
<1>4. id \notin unsaved => /\ [ruleFiles[id] EXCEPT !.enabled = on] = new /\ SameButSwitch(new, ruleFiles[id])
  <2>1. SUFFICES ASSUME id \notin unsaved
                 PROVE  [ruleFiles[id] EXCEPT !.enabled = on] = new /\ SameButSwitch(new, ruleFiles[id])
      OBVIOUS
  <2>2. IsRule(ruleFiles[id]) BY <1>2, <2>1 DEF RulesById
  <2> QED BY <1>2, <2>1, <2>2, SwitchedIsRule
<1>5. kind \notin {"add", "remove"} /\ (kind = "enable") = on OBVIOUS
<1> HIDE DEF new, kind
<1>6. /\ RulesById(ruleFiles') /\ (\A j \in RuleIds : j # id => ruleFiles'[j] = ruleFiles[j])
      /\ id \notin unsaved' => ruleFiles'[id] = new
      /\ unsaved \subseteq unsaved'
  <2>1. CASE ruleFiles' = FilePut(ruleFiles, id, new) /\ UNCHANGED unsaved BY <1>2, <1>3, <2>1, FilesPut
  <2>2. CASE WriteFails(id)
    <3>1. unsaved' = unsaved \cup {id} BY <2>2 DEF WriteFails
    <3> QED BY <1>2, <2>2, <3>1, FilesLeft
  <2> QED BY <1>1, <2>1, <2>2 DEF FilePut
<1>7. ASSUME NEW f, ToldOf(f), NEW j \in RuleIds \ unsaved' PROVE After(f, o)[j] = ruleFiles'[j]
  <2>1. o.kind = kind /\ o.rule = rule OBVIOUS
  <2> HIDE DEF o
  <2>6. RulesById(f) /\ o.rule.id \in RuleIds /\ o.kind \notin {"add", "remove"} BY <1>2, <1>5, <1>7, <2>1 DEF ToldOf
  <2>7. o.kind = "add" => IsRule(o.rule) BY <2>6
  <2>8. \A k \in RuleIds : k # o.rule.id => After(f, o)[k] = f[k]
      BY ONLY <2>6, <2>7, OrderKeepsRules, Zenon
  <2>2. \A k \in RuleIds : k # id => After(f, o)[k] = f[k] BY <2>1, <2>8
  <2>3. f[id] # NoRule => After(f, o)[id] = [f[id] EXCEPT !.enabled = on]
      BY <1>5, <2>1, <2>6, OrderKeepsRules
  <2>4. CASE j = id
    <3>1. f[id] = ruleFiles[id] /\ ruleFiles[id] # NoRule BY <1>2, <1>6, <1>7, <2>4 DEF ToldOf
    <3> QED BY <1>4, <1>6, <1>7, <2>3, <2>4, <3>1
  <2>5. CASE j # id BY <1>6, <1>7, <2>2, <2>5 DEF ToldOf
  <2> QED BY <2>4, <2>5
<1>8. IsSequence(orders') /\ EngineIsLed' BY <1>1, <1>2, <1>5, <1>7, OrderLeads
<1>9. page' = [open |-> page'.open, rows |-> page'.rows, on |-> page'.on] /\ page'.rows = page.rows
  <2>1. page = [open |-> page.open, rows |-> page.rows, on |-> page.on] BY DEF EditorInv
  <2> QED BY <1>1, <2>1
<1>10. ASSUME NEW r \in page'.rows
       PROVE  /\ IsRule(r) /\ r.id \in RuleIds
              /\ r.id \notin unsaved' => ruleFiles'[r.id] # NoRule /\ SameButSwitch(r, ruleFiles'[r.id])
  <2>1. /\ IsRule(r) /\ r.id \in RuleIds
        /\ r.id \notin unsaved => ruleFiles[r.id] # NoRule /\ SameButSwitch(r, ruleFiles[r.id])
      BY <1>9 DEF EditorInv, RowsFit
  <2>2. CASE r.id = id
    <3>1. new # NoRule BY <1>3, RuleIsNotNone
    <3> QED BY <1>4, <1>6, <2>1, <2>2, <3>1 DEF SameButSwitch
  <2>3. CASE r.id # id BY <1>6, <2>1, <2>3
  <2> QED BY <2>1, <2>2, <2>3
<1>11. RowsFit' BY <1>10 DEF RowsFit
<1>12. dialog'.rule = NoRule \/ dialog'.rule.id \in RuleIds BY <1>1 DEF EditorInv
<1> QED BY <1>6, <1>8, <1>9, <1>11, <1>12, EditorStep

(* HandleOrder preserves the invariant: one command less. *)
LEMMA HandleStep == ASSUME EditorInv, HandleOrder PROVE EditorInv'
<1>1. orders # << >> /\ orders' = Tail(orders) /\ UNCHANGED <<ruleFiles, page, dialog, unsaved>> BY DEF HandleOrder
<1>2. engine' = After(engine, Head(orders)) BY DEF HandleOrder, After
<1>3. PICK es, f : LeadsTo(es, engine, orders, f) /\ ToldOf(f) BY DEF EditorInv, EngineIsLed
<1>4. IsSequence(orders) BY DEF EditorInv
<1>5. \E ds : LeadsTo(ds, After(engine, Head(orders)), Tail(orders), f) BY <1>1, <1>3, <1>4, OneOrderLess
<1>6. IsSequence(Tail(orders)) BY <1>1, <1>4, SequencesShrink
<1>7. RowsFit' BY <1>1 DEF EditorInv, RowsFit
<1>8. ToldOf(f)' BY <1>1, <1>3 DEF ToldOf
<1>9. EngineIsLed' BY <1>1, <1>2, <1>5, <1>8 DEF EngineIsLed
<1> QED BY <1>1, <1>6, <1>7, <1>9 DEF EditorInv

(* StartAgain preserves the invariant: the engine loads the files. *)
LEMMA StartAgainStep == ASSUME EditorInv, StartAgain PROVE EditorInv'
<1>1. /\ page' = NoPage /\ dialog' = NoRuleDialog /\ orders' = << >>
      /\ engine' = ruleFiles /\ UNCHANGED ruleFiles
    BY DEF StartAgain
<1>2. IsSequence(orders') BY EmptySeq, <1>1 DEF IsSequence
<1>3. LeadsTo([i \in {0} |-> engine'], engine', orders', ruleFiles') BY <1>1 DEF LeadsTo
<1>4. dialog'.rule = NoRule BY <1>1 DEF NoRuleDialog
<1>5. RowsFit' /\ page' = [open |-> page'.open, rows |-> page'.rows, on |-> page'.on] BY <1>1 DEF RowsFit, NoPage
<1>6. RulesById(ruleFiles') BY <1>1 DEF EditorInv
<1>7. EngineIsLed' BY <1>3, <1>6 DEF EngineIsLed, ToldOf
<1> QED BY <1>2, <1>4, <1>5, <1>6, <1>7, EditorStep

(* So do the steps that only change the page and its dialog. *)
LEMMA PageStep ==
    ASSUME EditorInv, OpenPage \/ ClosePage \/ ClickAddRule \/ Cancel \/ (\E rule \in page.rows : EditRule(rule))
                      \/ \E d \in Typed : Type(d)
    PROVE  EditorInv'
<1>1. UNCHANGED <<ruleFiles, engine, orders, unsaved>>
    BY DEF OpenPage, ClosePage, ClickAddRule, Cancel, EditRule, Type
<1>2. dialog'.rule = NoRule \/ dialog'.rule.id \in RuleIds
  <2>1. CASE OpenPage \/ ClosePage BY <2>1 DEF OpenPage, ClosePage, EditorInv
  <2>2. CASE Cancel BY <2>2 DEF Cancel, NoRuleDialog
  <2>5. CASE ClickAddRule
    <3> DEFINE first == <<Row("move", << >>)>>
    <3>1. dialog' = [NoRuleDialog EXCEPT !.open = TRUE, !.actions = first] BY <2>5 DEF ClickAddRule
    <3> HIDE DEF first
    <3>2. dialog'.rule = NoRule BY <3>1 DEF NoRuleDialog
    <3> QED BY <3>2
  <2>3. CASE \E rule \in page.rows : EditRule(rule) BY <2>3 DEF EditRule, Form, EditorInv, RowsFit
  <2>4. CASE \E d \in Typed : Type(d)
    <3>1. PICK d \in Typed : Type(d) BY <2>4
    <3> DEFINE n == d.name
              w == d.watch
              c == d.conditions
              a == d.actions
              e == d.enabled
    <3>2. dialog' = [dialog EXCEPT !.name = n, !.watch = w, !.conditions = c, !.actions = a,
                                   !.enabled = e, !.refused = FALSE]
        BY <3>1 DEF Type
    <3> HIDE DEF n, w, a, c, e
    <3>3. dialog'.rule = dialog.rule BY <3>2
    <3> QED BY <3>3 DEF EditorInv
  <2> QED BY <2>1, <2>2, <2>3, <2>4, <2>5
<1>3. RowsFit' /\ page' = [open |-> page'.open, rows |-> page'.rows, on |-> page'.on]
  <2>1. CASE OpenPage BY <2>1, <1>1, RenderFits DEF OpenPage, EditorInv, Render
  <2>2. CASE ClosePage BY <2>2 DEF ClosePage, RowsFit, NoPage
  <2>3. CASE ~OpenPage /\ ~ClosePage
      BY <2>3, <1>1 DEF ClickAddRule, Cancel, EditRule, Type, EditorInv, RowsFit
  <2> QED BY <2>1, <2>2, <2>3
<1>4. EngineIsLed' BY <1>1 DEF EditorInv, EngineIsLed, ToldOf
<1> QED BY <1>1, <1>2, <1>3, <1>4 DEF EditorInv

(* Every step preserves the invariant. *)
LEMMA NextOfEditor == EditorInv /\ [RuleNext]_ruleVars => EditorInv'
<1> SUFFICES ASSUME EditorInv, [RuleNext]_ruleVars PROVE EditorInv' OBVIOUS
<1>1. CASE UNCHANGED ruleVars BY <1>1 DEF ruleVars, EditorInv, RowsFit, EngineIsLed, ToldOf
<1>2. CASE RuleNext
    BY SaveStep, HandleStep, StartAgainStep, DeleteStep, SwitchStep, PageStep, <1>2 DEF RuleNext
<1> QED BY <1>1, <1>2

(* settings_automation.rs:71: once the engine has handled the commands of the page, it has the
   rules that are on file, as they are there, but where a file could not be written or deleted:
   the whole of EngineFollowsFiles, for any rules and however many are edited, deleted and
   switched meanwhile, whichever of that fails. *)
THEOREM EngineAlwaysFollows == RuleSpec => []EngineFollowsFiles
<1>1. EditorInv => EngineFollowsFiles
  <2> SUFFICES ASSUME EditorInv, orders = << >>, NEW id \in RuleIds \ unsaved PROVE engine[id] = ruleFiles[id]
      BY DEF EngineFollowsFiles
  <2>1. PICK es, f : LeadsTo(es, engine, orders, f) /\ ToldOf(f) BY DEF EditorInv, EngineIsLed
  <2>2. engine = f BY <2>1 DEF LeadsTo
  <2> QED BY <2>1, <2>2 DEF ToldOf
<1>2. RuleInit => EditorInv BY InitOfEditor
<1>3. EditorInv /\ [RuleNext]_ruleVars => EditorInv' BY NextOfEditor
<1> QED BY <1>1, <1>2, <1>3, PTL DEF RuleSpec

-------------------------------------------------------------------------------
(* Tags: what windows, their commands and their answers are. *)

(* What may be tagged by hand, and what the windows and the history are made of. *)
Given == [TaggedFiles -> SUBSET RuleNames]
Databases == [is : {"tags"}, rules : SUBSET RuleNames, manual : Given]
Edits == [kind : {"add", "remove"}, path : TaggedFiles, tag : RuleNames]
Asks == [kind : {"count", "list"}, pane : Sides, path : TagFolders, n : Nat]
Counted == [kind : {"count", "list"}, pane : Sides, path : TagFolders, n : Nat, counted : BOOLEAN,
            counts : [RuleNames -> Nat]]
TagWindowStates == [on : BOOLEAN, db : Databases, commands : Seq(Edits \cup Asks), saving : BOOLEAN,
            counting : SUBSET Counted, answers : Seq(Counted), path : [Sides -> TagFolders],
            rows : [Sides -> TagFolders], active : Sides, selected : SUBSET TaggedFiles,
            menu : [open : BOOLEAN, all : SUBSET RuleNames, current : SUBSET RuleNames],
            counts : [RuleNames -> Nat], asked : Nat]
Taggings == [windows : SUBSET TagWindows, does : {s.does : s \in TagScenes}, left : Nat, wanted : Given,
             hurried : BOOLEAN, overtaken : BOOLEAN, shared : BOOLEAN, cut : BOOLEAN, dropped : BOOLEAN]

(* Types; only selections of finitely many files are made, and a window that does not run has
   nothing. *)
TagTypes ==
    /\ tagging \in Taggings /\ tagsFile \in {NoTags} \cup Databases
    /\ tagWin \in [TagWindows -> TagWindowStates]
    /\ \A w \in TagWindows : IsFiniteSet(tagWin[w].selected) /\ (tagWin[w].on \/ tagWin[w] = Closed)

(* A command that asks for counts. *)
IsAsk(c) == c.kind \in {"count", "list"}

(* Requests are numbered in the order they are made: the last command is a request, the last of
   all; those that wait were asked after those that are counted and told; no two are counted
   under one number. *)
AsksFit(s) ==
    /\ s.commands # << >> => IsAsk(s.commands[Len(s.commands)]) /\ s.commands[Len(s.commands)].n = s.asked
    /\ \A i \in DOMAIN s.commands : IsAsk(s.commands[i]) =>
         /\ s.commands[i].n <= s.asked
         /\ \A j \in DOMAIN s.commands : i < j /\ IsAsk(s.commands[j]) => s.commands[i].n < s.commands[j].n
         /\ \A c \in s.counting \cup ToSet(s.answers) : c.n < s.commands[i].n
    /\ \A c \in s.counting : /\ c.n <= s.asked /\ \A e \in s.counting : c.n = e.n => c = e
                             /\ \A i \in DOMAIN s.answers : s.answers[i].n # c.n
    /\ \A i \in DOMAIN s.answers : s.answers[i].n <= s.asked

(* Unless one overtakes another, the answers for a pane are in the order they were asked for, a
   listing right before its counts. *)
InTurn(s) ==
    \A i \in DOMAIN s.answers :
       /\ \A c \in s.counting : c.pane = s.answers[i].pane => s.answers[i].n < c.n
       /\ \A j \in DOMAIN s.answers : i < j /\ s.answers[i].pane = s.answers[j].pane =>
             \/ s.answers[i].n < s.answers[j].n
             \/ /\ s.answers[i].n = s.answers[j].n /\ s.answers[i].path = s.answers[j].path
                /\ s.answers[i].kind = "list" /\ s.answers[j].kind = "count"

(* The last request is for the active pane, and for the folder the pane will be in; a listing
   of the other pane is of the folder it is in. *)
PathsFit(s) ==
    /\ \A c \in Outstanding(s) :
         /\ c.n = s.asked => c.pane = s.active
         /\ c.kind = "list" /\ c.pane # s.active => c.path = s.path[c.pane]
         /\ (\A e \in Outstanding(s) : ~(e.kind = "list" /\ e.n = s.asked)) =>
               /\ c.n = s.asked => c.path = s.path[s.active]
               /\ c.kind = "list" /\ c.pane = s.active => c.path = s.path[c.pane]

(* What was counted last is as the engine is now, and so is the sidebar once it is told. *)
LastIsRight(s) ==
    /\ \A c \in s.counting : c.counted /\ c.n = s.asked => c.counts = TagCounts(s.db, c.path)
    /\ \A c \in ToSet(s.answers) : c.n = s.asked => c.counts = TagCounts(s.db, c.path)
    /\ (\A c \in Outstanding(s) : c.n # s.asked) =>
         /\ \A c \in Outstanding(s) : c.pane # s.active
         /\ s.counts = TagCounts(s.db, s.path[s.active])

(* All of it, as far as nothing was overtaken, and nobody went on in a hurry. *)
Fits(s, overtaken, hurried) ==
    /\ AsksFit(s)
    /\ ~overtaken => InTurn(s)
    /\ ~overtaken /\ ~hurried => PathsFit(s) /\ LastIsRight(s)

(* What the commands make of a file's tag: the last that is about both decides, without one the
   engine has it. *)
EditOf(c, f, t) == c.kind \in {"add", "remove"} /\ c.path = f /\ c.tag = t
Makes(s, f, t, given) ==
    /\ (\A i \in DOMAIN s.commands : ~EditOf(s.commands[i], f, t)) => (t \in s.db.manual[f] <=> given)
    /\ \A i \in DOMAIN s.commands :
          EditOf(s.commands[i], f, t) /\ (\A j \in DOMAIN s.commands : i < j => ~EditOf(s.commands[j], f, t))
            => (s.commands[i].kind = "add" <=> given)

(* The rules are in every engine, and on file unless one is being saved. *)
RulesFit == ~tagging.cut =>
    /\ \A w \in TagWindows : tagWin[w].on => tagWin[w].db.rules = RuleNames
    /\ (\A w \in TagWindows : ~tagWin[w].saving) => tagsFile = NoTags \/ tagsFile.rules = RuleNames

(* What is on file is what was made of the tags by hand. *)
FileIs(manual) ==
    \/ tagsFile = NoTags /\ manual = Untagged
    \/ tagsFile = [DefaultTags EXCEPT !.manual = manual]

(* With one window after another: what is asked for is what the engine has, once its commands
   have run, and what is on file, once they are saved. *)
EditsFit == ~tagging.cut /\ ~tagging.dropped /\ ~tagging.shared =>
    /\ \A w, v \in TagWindows : tagWin[w].on /\ tagWin[v].on => w = v
    /\ \A w \in TagWindows : tagWin[w].on =>
         /\ \A f \in TaggedFiles : \A t \in RuleNames : Makes(tagWin[w], f, t, t \in tagging.wanted[f])
         /\ tagWin[w].saving \/ FileIs(tagWin[w].db.manual)
    /\ (\A w \in TagWindows : ~tagWin[w].on) => FileIs(tagging.wanted)

-------------------------------------------------------------------------------
(* Sequences. *)

(* The elements of a sequence are of its type. *)
LEMMA ToSetOfSeq ==
    ASSUME NEW S, NEW s \in Seq(S)
    PROVE  ToSet(s) \subseteq S
  BY DEF ToSet

(* They are the head and the elements of the tail. *)
LEMMA ToSetOfTail ==
    ASSUME NEW S, NEW s \in Seq(S), s # << >>
    PROVE  Head(s) \in ToSet(s) /\ ToSet(s) = {Head(s)} \cup ToSet(Tail(s)) /\ ToSet(Tail(s)) \subseteq ToSet(s)
<1>1. DOMAIN s = 1..Len(s) /\ Len(s) \in Nat \ {0} /\ Head(s) = s[1] BY EmptySeq
<1>2. DOMAIN Tail(s) = 1..(Len(s) - 1) /\ \A i \in 1..(Len(s) - 1) : Tail(s)[i] = s[i + 1] OBVIOUS
<1>3. Head(s) \in ToSet(s) BY <1>1 DEF ToSet
<1>4. ASSUME NEW x \in ToSet(Tail(s)) PROVE x \in ToSet(s) BY <1>2, <1>1 DEF ToSet
<1>5. ASSUME NEW x \in ToSet(s) PROVE x = Head(s) \/ x \in ToSet(Tail(s))
  <2>1. PICK i \in 1..Len(s) : x = s[i] BY <1>1 DEF ToSet
  <2>2. CASE i = 1 BY <2>1, <2>2, <1>1
  <2>3. CASE i # 1
    <3>1. i - 1 \in 1..(Len(s) - 1) /\ i = (i - 1) + 1 BY <2>1, <2>3, <1>1
    <3> QED BY <2>1, <3>1, <1>2 DEF ToSet
  <2> QED BY <2>2, <2>3
<1> QED BY <1>3, <1>4, <1>5

(* Those of two sequences put together are those of both. *)
LEMMA ToSetOfConcat ==
    ASSUME NEW S, NEW s \in Seq(S), NEW t \in Seq(S)
    PROVE  ToSet(s \o t) = ToSet(s) \cup ToSet(t)
<1>1. /\ DOMAIN s = 1..Len(s) /\ DOMAIN t = 1..Len(t) /\ Len(s) \in Nat /\ Len(t) \in Nat
      /\ DOMAIN (s \o t) = 1..(Len(s) + Len(t))
      /\ \A i \in 1..(Len(s) + Len(t)) : (s \o t)[i] = IF i <= Len(s) THEN s[i] ELSE t[i - Len(s)]
  BY ConcatProperties, LenProperties
<1>2. ASSUME NEW x \in ToSet(s \o t) PROVE x \in ToSet(s) \cup ToSet(t)
  <2>1. PICK i \in 1..(Len(s) + Len(t)) : x = (s \o t)[i] BY <1>1 DEF ToSet
  <2>2. CASE i <= Len(s) BY <1>1, <2>1, <2>2 DEF ToSet
  <2>3. CASE i > Len(s) BY <1>1, <2>1, <2>3 DEF ToSet
  <2> QED BY <1>1, <2>2, <2>3
<1>3. ASSUME NEW x \in ToSet(s) PROVE x \in ToSet(s \o t) BY <1>1 DEF ToSet
<1>4. ASSUME NEW x \in ToSet(t) PROVE x \in ToSet(s \o t)
  <2>1. PICK i \in 1..Len(t) : x = t[i] BY <1>1 DEF ToSet
  <2>2. Len(s) + i \in 1..(Len(s) + Len(t)) /\ ~(Len(s) + i <= Len(s)) /\ (Len(s) + i) - Len(s) = i
    BY <1>1, <2>1
  <2>3. (s \o t)[Len(s) + i] = t[i] BY <1>1, <2>2
  <2> QED BY <1>1, <2>1, <2>2, <2>3 DEF ToSet
<1> QED BY <1>2, <1>3, <1>4

-------------------------------------------------------------------------------
(* Types. *)

(* What a window is that does not run, and what is on file with no tags by hand. *)
LEMMA NobodysState ==
    /\ Untagged \in Given /\ DefaultTags \in Databases /\ EmptyTags \in Databases
    /\ Closed \in TagWindowStates /\ IsFiniteSet(Closed.selected)
<1>1. Untagged \in Given BY DEF Untagged, Given
<1>2. DefaultTags \in Databases /\ EmptyTags \in Databases BY <1>1 DEF DefaultTags, EmptyTags, Databases
<1>3. Home \in TagFolders BY TagAssumption DEF TagFolders
<1>4. Closed \in TagWindowStates BY <1>2, <1>3 DEF Closed, TagWindowStates, NoMenu, Sides
<1>5. Closed.selected = {} BY DEF Closed
<1> QED BY <1>1, <1>2, <1>4, <1>5, FS_EmptySet

(* The rows of a folder are finitely many files. *)
LEMMA RowsAreFiles ==
    ASSUME NEW d \in TagFolders
    PROVE  /\ Rows[d] \in Seq(TaggedFiles) /\ ToSet(Rows[d]) \subseteq TaggedFiles
           /\ IsFiniteSet(ToSet(Rows[d]))
<1>1. Rows[d] \in Seq(ToSet(Rows[d])) /\ ToSet(Rows[d]) \subseteq TaggedFiles
  BY TagAssumption DEF TagFolders, TaggedFiles
<1>2. Rows[d] \in Seq(TaggedFiles) BY <1>1, SeqMonotonic
<1>3. DOMAIN Rows[d] = 1..Len(Rows[d]) /\ Len(Rows[d]) \in Nat BY <1>2, LenProperties
<1>4. IsFiniteSet(1..Len(Rows[d])) BY <1>3, FS_Interval
<1>5. IsFiniteSet({Rows[d][i] : i \in 1..Len(Rows[d])})
  <2>1. Rows[d] \in [1..Len(Rows[d]) -> {Rows[d][i] : i \in 1..Len(Rows[d])}] BY <1>2, <1>3
  <2>2. Rows[d] \in Surjection(1..Len(Rows[d]), {Rows[d][i] : i \in 1..Len(Rows[d])})
    BY <2>1 DEF Surjection
  <2> QED BY <1>4, <2>2, FS_Surjection
<1> QED BY <1>1, <1>2, <1>3, <1>5 DEF ToSet

(* Counts are numbers. *)
LEMMA CountsAreNumbers ==
    ASSUME NEW db \in Databases, NEW d \in TagFolders
    PROVE  TagCounts(db, d) \in [RuleNames -> Nat]
<1>1. ASSUME NEW t \in RuleNames
      PROVE  Cardinality({x \in ToSet(Rows[d]) : t \in TagsForEntry(db, x)}) \in Nat
  BY RowsAreFiles, FS_Subset, FS_CardinalityType
<1> QED BY <1>1 DEF TagCounts

(* The tags of a file are those there are. *)
LEMMA EntryTags ==
    ASSUME NEW db \in Databases, NEW x \in TaggedFiles
    PROVE  TagsForEntry(db, x) \subseteq RuleNames
  BY DEF TagsForEntry, Databases, Given

(* An edit changes nothing but the tags of a file by hand. *)
LEMMA DatabasesStay ==
    ASSUME NEW db \in Databases, NEW x \in TaggedFiles, NEW t \in RuleNames
    PROVE  /\ AddManual(db, x, t) \in Databases /\ RemoveManual(db, x, t) \in Databases
           /\ AddManual(db, x, t).rules = db.rules /\ RemoveManual(db, x, t).rules = db.rules
           /\ AddManual(db, x, t).manual = [db.manual EXCEPT ![x] = @ \cup {t}]
           /\ RemoveManual(db, x, t).manual = [db.manual EXCEPT ![x] = @ \ {t}]
  BY DEF AddManual, RemoveManual, Databases, Given

(* What is loaded is a database. *)
LEMMA LoadedIsDatabase == ASSUME NEW onFile \in {NoTags} \cup Databases PROVE LoadedTags(onFile) \in Databases
<1>1. onFile \in Databases => onFile.is # "no file" BY DEF Databases
<1>2. CASE onFile = NoTags BY <1>2, NobodysState DEF LoadedTags, NoTags
<1>3. CASE onFile \in Databases BY <1>1, <1>3 DEF LoadedTags
<1> QED BY <1>2, <1>3

(* Asking adds a command with the number that was asked last. *)
LEMMA AskFields ==
    ASSUME NEW s \in TagWindowStates, NEW k \in {"count", "list"}, NEW p \in Sides, NEW d \in TagFolders
    PROVE  LET t == Ask(s, k, p, d) IN
           /\ t \in TagWindowStates
           /\ t.commands = s.commands \o <<[kind |-> k, pane |-> p, path |-> d, n |-> s.asked + 1]>>
           /\ t.asked = s.asked + 1 /\ t.on = s.on /\ t.db = s.db /\ t.saving = s.saving
           /\ t.counting = s.counting /\ t.answers = s.answers /\ t.path = s.path /\ t.rows = s.rows
           /\ t.active = s.active /\ t.selected = s.selected /\ t.menu = s.menu /\ t.counts = s.counts
<1> DEFINE c == [kind |-> k, pane |-> p, path |-> d, n |-> s.asked + 1]
<1>1. s.asked \in Nat /\ s.commands \in Seq(Edits \cup Asks) BY DEF TagWindowStates
<1>2. c \in Asks BY <1>1 DEF Asks
<1> DEFINE t == Ask(s, k, p, d)
<1>3. t = [s EXCEPT !.asked = s.asked + 1, !.commands = Append(s.commands, c)] BY DEF Ask
<1> HIDE DEF c
<1>4. Append(s.commands, c) \in Seq(Edits \cup Asks) /\ Append(s.commands, c) = s.commands \o <<c>>
  BY <1>1, <1>2
<1> DEFINE cs == Append(s.commands, c)
<1> HIDE DEF t, cs
<1>5. t = [s EXCEPT !.asked = s.asked + 1, !.commands = cs] BY <1>3 DEF cs
<1>6. cs \in Seq(Edits \cup Asks) /\ cs = s.commands \o <<c>> BY <1>4 DEF cs
<1>7. t \in TagWindowStates
  <2> DEFINE m == s.asked + 1
  <2>1. m \in Nat BY <1>1
  <2>2. t = [s EXCEPT !.asked = m, !.commands = cs] BY <1>5
  <2> HIDE DEF m
  <2> QED BY <2>1, <2>2, <1>6 DEF TagWindowStates
<1>8. /\ t.commands = cs /\ t.asked = s.asked + 1 /\ t.on = s.on /\ t.db = s.db /\ t.saving = s.saving
      /\ t.counting = s.counting /\ t.answers = s.answers /\ t.path = s.path /\ t.rows = s.rows
      /\ t.active = s.active /\ t.selected = s.selected /\ t.menu = s.menu /\ t.counts = s.counts
  BY <1>5 DEF TagWindowStates
<1> QED BY <1>6, <1>7, <1>8 DEF t, c

(* Edits, one of each selected file. *)
EditsOf(files, remove, t) ==
    [i \in 1..Cardinality(files) |->
        [kind |-> IF remove THEN "remove" ELSE "add", path |-> SetToSeq(files)[i], tag |-> t]]

(* They are one edit of each file, all alike. *)
LEMMA EditsFacts ==
    ASSUME NEW files \in SUBSET TaggedFiles, IsFiniteSet(files), NEW remove \in BOOLEAN, NEW t \in RuleNames
    PROVE  LET es == EditsOf(files, remove, t) IN
           /\ es \in Seq(Edits)
           /\ \A i \in 1..Len(es) : /\ es[i].kind = IF remove THEN "remove" ELSE "add"
                                    /\ es[i].path \in files /\ es[i].tag = t
           /\ \A x \in files : \E i \in 1..Len(es) : es[i].path = x
<1> DEFINE n == Cardinality(files)
           all == SetToSeq(files)
<1>1. n \in Nat /\ \E m \in Bijection(1..n, files) : TRUE BY FS_CardinalityType DEF ExistsBijection
<1>2. PICK m \in Bijection(1..n, files) : TRUE BY <1>1
<1>3. m \in [1..n -> files] /\ IsInjective(m) BY <1>2 DEF Bijection, Injection
<1>4. all \in [1..n -> files] /\ IsInjective(all) BY <1>3 DEF SetToSeq
<1> HIDE DEF all
<1>5. IsFiniteSet(1..n) /\ Cardinality(1..n) = n BY <1>1, FS_Interval
<1>6. all \in Injection(1..n, files) BY <1>4 DEF Injection
<1>7. all \in Surjection(1..n, files) BY <1>5, <1>6, FS_Injection
<1>8. \A x \in files : \E i \in 1..n : all[i] = x BY <1>7 DEF Surjection
<1> DEFINE es == EditsOf(files, remove, t)
<1>9. es = [i \in 1..n |-> [kind |-> IF remove THEN "remove" ELSE "add", path |-> all[i], tag |-> t]]
  BY DEF EditsOf, all
<1> HIDE DEF es, n
<1>10. \A i \in 1..n : all[i] \in files /\ all[i] \in TaggedFiles BY <1>4
<1>11. \A i \in 1..n : es[i] \in Edits BY <1>9, <1>10 DEF Edits
<1>12. DOMAIN es = 1..n /\ es \in [1..n -> Edits] BY <1>9, <1>11
<1>13. es \in Seq(Edits) /\ Len(es) = n BY <1>1, <1>12
<1>14. \A i \in 1..n : /\ es[i].kind = IF remove THEN "remove" ELSE "add"
                       /\ es[i].path = all[i] /\ es[i].tag = t
  BY <1>9
<1> QED BY <1>8, <1>10, <1>13, <1>14 DEF es

(* A window that is put leaves the others as they are. *)
LEMMA PutTypes ==
    ASSUME TagTypes, NEW w \in TagWindows, NEW s \in TagWindowStates, IsFiniteSet(s.selected), s.on \/ s = Closed,
           PutTags(w, s)
    PROVE  /\ tagWin' \in [TagWindows -> TagWindowStates] /\ tagWin'[w] = s
           /\ \A v \in TagWindows : v # w => tagWin'[v] = tagWin[v]
           /\ \A v \in TagWindows : IsFiniteSet(tagWin'[v].selected) /\ (tagWin'[v].on \/ tagWin'[v] = Closed)
BY DEF PutTags, TagTypes

(* The types hold to begin with. *)
LEMMA TagInitTypes == TagInit => TagTypes
<1> SUFFICES ASSUME TagInit PROVE TagTypes OBVIOUS
<1>1. tagging \in Taggings
  <2>1. PICK s \in TagScenes : tagging =
            [windows |-> s.windows, does |-> s.does, left |-> s.left, wanted |-> Untagged,
             hurried |-> FALSE, overtaken |-> FALSE, shared |-> FALSE, cut |-> FALSE, dropped |-> FALSE]
    BY DEF TagInit
  <2>2. s.windows \subseteq TagWindows /\ s.left \in Nat /\ s.does \in {z.does : z \in TagScenes}
    BY TagAssumption
  <2>3. Untagged \in Given BY NobodysState
  <2> QED BY <2>1, <2>2, <2>3 DEF Taggings
<1>2. tagWin = [w \in TagWindows |-> Closed] /\ tagsFile = NoTags BY DEF TagInit
<1> QED BY <1>1, <1>2, NobodysState DEF TagTypes

-------------------------------------------------------------------------------
(* What each step makes of a window, and of the rest. *)

(* Only window w changes, to s, and the types stay. *)
Becomes(w, s) ==
    /\ TagTypes' /\ tagWin'[w] = s /\ s \in TagWindowStates
    /\ \A v \in TagWindows : v # w => tagWin'[v] = tagWin[v]

(* The history but for what is named. *)
CutAsBefore == tagging'.cut = tagging.cut
DroppedAsBefore == tagging'.dropped = tagging.dropped
SharedAsBefore == tagging'.shared = tagging.shared
HurriedAsBefore == tagging'.hurried = tagging.hurried
OvertakenAsBefore == tagging'.overtaken = tagging.overtaken
WantedAsBefore == tagging'.wanted = tagging.wanted
MostAsBefore ==
    CutAsBefore /\ DroppedAsBefore /\ SharedAsBefore /\ OvertakenAsBefore

(* A request is added, behind some edits. *)
Added(s, es, r, cs) == cs = (s.commands \o es) \o <<r>>
Asked(s, t, es, k, p, d) ==
    /\ Added(s, es, [kind |-> k, pane |-> p, path |-> d, n |-> s.asked + 1], t.commands)
    /\ t.asked = s.asked + 1 /\ t.on = s.on /\ t.db = s.db /\ t.saving = s.saving
    /\ t.counting = s.counting /\ t.answers = s.answers /\ t.counts = s.counts /\ t.active = p

(* Nothing that the counts depend on changes. *)
NoneAsked(s, t) ==
    /\ t.commands = s.commands /\ t.asked = s.asked /\ t.on = s.on /\ t.db = s.db
    /\ t.counting = s.counting /\ t.answers = s.answers /\ t.counts = s.counts /\ t.active = s.active
    /\ t.path = s.path

(* A window that is put is what becomes of it. *)
LEMMA BecomesIf ==
    ASSUME TagTypes, NEW w \in TagWindows, NEW s \in TagWindowStates, IsFiniteSet(s.selected), s.on \/ s = Closed,
           PutTags(w, s), tagging' \in Taggings, tagsFile' \in {NoTags} \cup Databases
    PROVE  Becomes(w, s)
  BY PutTypes DEF Becomes, TagTypes

(* The parts of a window and their types. *)
LEMMA OfTypes ==
    ASSUME TagTypes, NEW w \in TagWindows
    PROVE  /\ tagWin[w] \in TagWindowStates /\ IsFiniteSet(tagWin[w].selected) /\ tagging \in Taggings
           /\ tagsFile \in {NoTags} \cup Databases /\ (tagWin[w].on \/ tagWin[w] = Closed)
           /\ tagWin[w].db \in Databases /\ tagWin[w].commands \in Seq(Edits \cup Asks)
           /\ tagWin[w].counting \in SUBSET Counted /\ tagWin[w].answers \in Seq(Counted)
           /\ tagWin[w].path \in [Sides -> TagFolders] /\ tagWin[w].rows \in [Sides -> TagFolders]
           /\ tagWin[w].active \in Sides /\ tagWin[w].selected \in SUBSET TaggedFiles
           /\ tagWin[w].on \in BOOLEAN /\ tagWin[w].saving \in BOOLEAN /\ tagWin[w].asked \in Nat
           /\ tagWin[w].menu \in [open : BOOLEAN, all : SUBSET RuleNames, current : SUBSET RuleNames]
           /\ tagWin[w].counts \in [RuleNames -> Nat]
BY DEF TagTypes, TagWindowStates

(* The parts of one that does not run. *)
LEMMA ClosedIsOff ==
    /\ Closed.on = FALSE /\ Closed.saving = FALSE /\ Closed.commands = << >> /\ Closed.counting = {}
    /\ Closed.answers = << >> /\ Closed.asked = 0 /\ Closed.active = 1 /\ Closed.selected = {}
    /\ Closed.menu = NoMenu
  BY DEF Closed

(* What a user does changes the history, and not the file. *)
LEMMA DoesTypes ==
    ASSUME TagTypes, NEW w \in TagWindows, NEW what, Does(w, what)
    PROVE  /\ tagging' \in Taggings /\ tagsFile' = tagsFile /\ tagWin[w].on
           /\ tagging'.hurried = (tagging.hurried \/ Unlisted(w, tagWin[w].active))
           /\ MostAsBefore /\ WantedAsBefore
<1> DEFINE h == tagging.hurried \/ Unlisted(w, tagWin[w].active)
<1>1. tagging \in Taggings /\ tagging.left \in Nat /\ tagging.hurried \in BOOLEAN
  BY DEF TagTypes, Taggings
<1>2. tagging' = [tagging EXCEPT !.left = tagging.left - 1, !.hurried = h] /\ tagging.left > 0
  BY DEF Does
<1>3. h \in BOOLEAN /\ tagging.left - 1 \in Nat BY <1>1, <1>2 DEF Unlisted
<1> DEFINE left == tagging.left - 1
<1> HIDE DEF h, left
<1>4. tagging' = [tagging EXCEPT !.left = left, !.hurried = h] /\ left \in Nat /\ h \in BOOLEAN
  BY <1>2, <1>3 DEF left
<1>5. tagging' \in Taggings BY <1>1, <1>4 DEF Taggings
<1>6. tagging'.hurried = h /\ MostAsBefore /\ WantedAsBefore
  BY <1>1, <1>4 DEF Taggings, MostAsBefore, WantedAsBefore, CutAsBefore, DroppedAsBefore,
    SharedAsBefore, OvertakenAsBefore
<1> QED BY <1>5, <1>6 DEF Does, h

(* A window that starts. *)
LEMMA LaunchShape ==
    ASSUME TagTypes, NEW w \in TagWindows, LaunchTags(w)
    PROVE  \E t : /\ Becomes(w, t) /\ tagsFile' = tagsFile /\ ~tagWin[w].on
                  /\ t.on /\ t.db = LoadedTags(tagsFile) /\ ~t.saving /\ t.counting = {} /\ t.answers = << >>
                  /\ t.commands = <<[kind |-> "list", pane |-> 1, path |-> Home, n |-> 1]>>
                  /\ t.active = 1 /\ t.asked = 1 /\ t.path = Closed.path
                  /\ DroppedAsBefore /\ HurriedAsBefore /\ OvertakenAsBefore /\ WantedAsBefore
                  /\ tagging'.shared = (tagging.shared \/ \E v \in TagWindows : tagWin[v].on)
                  /\ tagging'.cut = (tagging.cut \/ \E v \in TagWindows : tagWin[v].saving)
<1> DEFINE s == [Closed EXCEPT !.on = TRUE, !.db = LoadedTags(tagsFile)]
           t == Ask(s, "list", 1, Home)
<1>1. LoadedTags(tagsFile) \in Databases BY LoadedIsDatabase DEF TagTypes
<1>2. s \in TagWindowStates /\ s.on /\ s.db = LoadedTags(tagsFile) /\ s.path = Closed.path /\ s.saving = FALSE
      /\ s.commands = << >> /\ s.counting = {} /\ s.answers = << >> /\ s.asked = 0 /\ s.active = 1
      /\ s.selected = Closed.selected
  <2> DEFINE db == LoadedTags(tagsFile)
  <2>1. s = [Closed EXCEPT !.on = TRUE, !.db = db] /\ db \in Databases /\ Closed \in TagWindowStates
    BY <1>1, NobodysState
  <2> HIDE DEF s, db
  <2>2. s \in TagWindowStates BY <2>1 DEF TagWindowStates
  <2>3. s.on /\ s.db = db /\ s.path = Closed.path /\ s.saving = Closed.saving /\ s.commands = Closed.commands
        /\ s.counting = Closed.counting /\ s.answers = Closed.answers /\ s.asked = Closed.asked
        /\ s.active = Closed.active /\ s.selected = Closed.selected
    BY <2>1 DEF TagWindowStates
  <2> QED BY <2>2, <2>3, ClosedIsOff DEF db
<1>3. Home \in TagFolders /\ 1 \in Sides BY TagAssumption DEF TagFolders, Sides
<1> HIDE DEF s
<1>4. /\ t \in TagWindowStates /\ t.commands = << >> \o <<[kind |-> "list", pane |-> 1, path |-> Home, n |-> 0 + 1]>>
      /\ t.asked = 0 + 1 /\ t.on /\ t.db = LoadedTags(tagsFile) /\ t.saving = FALSE
      /\ t.counting = {} /\ t.answers = << >> /\ t.path = Closed.path /\ t.active = 1
      /\ t.selected = Closed.selected
  <2>1. /\ t \in TagWindowStates
        /\ t.commands = s.commands \o <<[kind |-> "list", pane |-> 1, path |-> Home, n |-> s.asked + 1]>>
        /\ t.asked = s.asked + 1 /\ t.on = s.on /\ t.db = s.db /\ t.saving = s.saving
        /\ t.counting = s.counting /\ t.answers = s.answers /\ t.path = s.path
        /\ t.active = s.active /\ t.selected = s.selected
    <3>1. s \in TagWindowStates /\ "list" \in {"count", "list"} /\ 1 \in Sides /\ Home \in TagFolders
      BY <1>2, <1>3
    <3> QED BY <3>1, AskFields
  <2> HIDE DEF t
  <2> QED BY <2>1, <1>2
<1>5. PutTags(w, t) /\ tagsFile' = tagsFile /\ ~tagWin[w].on BY DEF LaunchTags, s
<1> HIDE DEF t
<1>6. /\ tagging' \in Taggings /\ DroppedAsBefore /\ HurriedAsBefore /\ OvertakenAsBefore /\ WantedAsBefore
      /\ tagging'.shared = (tagging.shared \/ \E v \in TagWindows : tagWin[v].on)
      /\ tagging'.cut = (tagging.cut \/ \E v \in TagWindows : tagWin[v].saving)
  <2> DEFINE sh == tagging.shared \/ \E v \in TagWindows : tagWin[v].on
             ct == tagging.cut \/ \E v \in TagWindows : tagWin[v].saving
             left == tagging.left - 1
  <2>1. tagging \in Taggings /\ tagging.left \in Nat /\ tagging.shared \in BOOLEAN /\ tagging.cut \in BOOLEAN
    BY DEF TagTypes, Taggings
  <2>2. tagging' = [tagging EXCEPT !.left = left, !.shared = sh, !.cut = ct] /\ tagging.left > 0
    BY DEF LaunchTags
  <2>3. left \in Nat /\ sh \in BOOLEAN /\ ct \in BOOLEAN BY <2>1, <2>2
  <2> HIDE DEF sh, ct, left
  <2>4. tagging' \in Taggings BY <2>1, <2>2, <2>3 DEF Taggings
  <2>5. /\ DroppedAsBefore /\ HurriedAsBefore /\ OvertakenAsBefore /\ WantedAsBefore
        /\ tagging'.shared = sh /\ tagging'.cut = ct
    BY <2>1, <2>2 DEF Taggings, DroppedAsBefore, HurriedAsBefore, OvertakenAsBefore, WantedAsBefore
  <2> QED BY <2>4, <2>5 DEF sh, ct
<1>7. Becomes(w, t) BY <1>4, <1>5, <1>6, NobodysState, BecomesIf, OfTypes
<1>8. t.commands = <<[kind |-> "list", pane |-> 1, path |-> Home, n |-> 1]>> /\ t.asked = 1
  <2> DEFINE r == [kind |-> "list", pane |-> 1, path |-> Home, n |-> 1]
  <2>1. t.commands = << >> \o <<r>> /\ t.asked = 1 BY <1>4
  <2> HIDE DEF r
  <2>2. << >> \o <<r>> = <<r>> OBVIOUS
  <2> QED BY <2>1, <2>2 DEF r
<1> QED BY <1>4, <1>5, <1>6, <1>7, <1>8

(* A window that ends. *)
LEMMA QuitShape ==
    ASSUME TagTypes, NEW w \in TagWindows, QuitTags(w)
    PROVE  /\ Becomes(w, Closed) /\ tagsFile' = tagsFile /\ tagWin[w].on
           /\ SharedAsBefore /\ HurriedAsBefore /\ OvertakenAsBefore /\ WantedAsBefore
           /\ tagging'.cut = (tagging.cut \/ tagWin[w].saving)
           /\ tagging'.dropped = (tagging.dropped \/ tagWin[w].commands # << >>)
<1> DEFINE ct == tagging.cut \/ tagWin[w].saving
           dr == tagging.dropped \/ tagWin[w].commands # << >>
<1>1. tagging \in Taggings /\ tagging.dropped \in BOOLEAN /\ tagging.cut \in BOOLEAN /\ tagWin[w].saving \in BOOLEAN
  BY OfTypes DEF Taggings
<1>2. tagging' = [tagging EXCEPT !.cut = ct, !.dropped = dr] /\ tagsFile' = tagsFile /\ tagWin[w].on
      /\ PutTags(w, Closed)
  BY DEF QuitTags
<1>3. ct \in BOOLEAN /\ dr \in BOOLEAN BY <1>1
<1> HIDE DEF ct, dr
<1>4. tagging' \in Taggings BY <1>1, <1>2, <1>3 DEF Taggings
<1>5. /\ SharedAsBefore /\ HurriedAsBefore /\ OvertakenAsBefore /\ WantedAsBefore
      /\ tagging'.cut = ct /\ tagging'.dropped = dr
  BY <1>1, <1>2 DEF Taggings, SharedAsBefore, HurriedAsBefore, OvertakenAsBefore, WantedAsBefore
<1>6. Becomes(w, Closed) BY <1>2, <1>4, NobodysState, BecomesIf, OfTypes
<1> QED BY <1>2, <1>5, <1>6 DEF ct, dr

(* A folder that is opened, or gone to. *)
LEMMA GoShape ==
    ASSUME TagTypes, NEW w \in TagWindows, NEW d \in TagFolders, Go(w, d)
    PROVE  \E t : /\ Becomes(w, t) /\ tagsFile' = tagsFile /\ tagWin[w].on
                  /\ Asked(tagWin[w], t, << >>, "list", tagWin[w].active, d)
                  /\ \A q \in Sides : q # tagWin[w].active => t.path[q] = tagWin[w].path[q]
                  /\ t.active = tagWin[w].active
                  /\ MostAsBefore /\ WantedAsBefore
                  /\ tagging'.hurried = (tagging.hurried \/ Unlisted(w, tagWin[w].active))
<1> DEFINE s == tagWin[w]
           p == s.active
<1>1. /\ Does(w, "go")
      /\ \/ PutTags(w, Ask([s EXCEPT !.path[p] = d], "list", p, d))
         \/ PutTags(w, Ask(s, "list", p, d))
  BY DEF Go
<1>2. s \in TagWindowStates /\ p \in Sides /\ s.path \in [Sides -> TagFolders] /\ IsFiniteSet(s.selected)
      /\ s.commands \in Seq(Edits \cup Asks)
  BY OfTypes
<1>3. /\ tagging' \in Taggings /\ tagsFile' = tagsFile /\ s.on
      /\ tagging'.hurried = (tagging.hurried \/ Unlisted(w, p))
      /\ MostAsBefore /\ WantedAsBefore
  BY <1>1, DoesTypes
<1> HIDE DEF s
<1>4. PICK z \in {s, [s EXCEPT !.path[p] = d]} : PutTags(w, Ask(z, "list", p, d)) BY <1>1
<1>5. /\ z \in TagWindowStates /\ z.commands = s.commands /\ z.asked = s.asked /\ z.on = s.on /\ z.db = s.db
      /\ z.saving = s.saving /\ z.counting = s.counting /\ z.answers = s.answers /\ z.active = s.active
      /\ z.counts = s.counts /\ z.selected = s.selected
      /\ \A q \in Sides : q # p => z.path[q] = s.path[q]
  <2>1. CASE z = s BY <1>2, <2>1
  <2>2. CASE z = [s EXCEPT !.path[p] = d]
    <3> DEFINE path == [s.path EXCEPT ![p] = d]
    <3>1. z = [s EXCEPT !.path = path] BY <2>2
    <3>2. path \in [Sides -> TagFolders] /\ \A q \in Sides : q # p => path[q] = s.path[q] BY <1>2
    <3> HIDE DEF path, p
    <3>3. z \in TagWindowStates BY <1>2, <3>1, <3>2 DEF TagWindowStates
    <3>4. /\ z.commands = s.commands /\ z.asked = s.asked /\ z.on = s.on /\ z.db = s.db
          /\ z.saving = s.saving /\ z.counting = s.counting /\ z.answers = s.answers /\ z.active = s.active
          /\ z.counts = s.counts /\ z.selected = s.selected /\ z.path = path
      BY <1>2, <3>1 DEF TagWindowStates
    <3> QED BY <3>2, <3>3, <3>4
  <2> QED BY <1>4, <2>1, <2>2
<1> DEFINE t == Ask(z, "list", p, d)
<1>6. /\ t \in TagWindowStates
      /\ t.commands = z.commands \o <<[kind |-> "list", pane |-> p, path |-> d, n |-> z.asked + 1]>>
      /\ t.asked = z.asked + 1 /\ t.on = z.on /\ t.db = z.db /\ t.saving = z.saving
      /\ t.counting = z.counting /\ t.answers = z.answers /\ t.path = z.path
      /\ t.active = z.active /\ t.selected = z.selected /\ t.counts = z.counts
  BY <1>2, <1>5, AskFields, SMTT(20)
<1> HIDE DEF t
<1>7. PutTags(w, t) BY <1>4 DEF t
<1>8. Becomes(w, t) BY <1>2, <1>3, <1>5, <1>6, <1>7, BecomesIf, OfTypes
<1>9. s.commands = s.commands \o << >> BY <1>2, ConcatEmptySeq
<1>10. Asked(s, t, << >>, "list", p, d) /\ t.active = p /\ \A q \in Sides : q # p => t.path[q] = s.path[q]
  BY <1>5, <1>6, <1>9 DEF Asked, Added
<1> QED BY <1>3, <1>8, <1>10 DEF s

(* The other pane becomes the active one. *)
LEMMA SwitchShape ==
    ASSUME TagTypes, NEW w \in TagWindows, SetActiveSide(w)
    PROVE  \E t, p : /\ Becomes(w, t) /\ tagsFile' = tagsFile /\ tagWin[w].on
                     /\ p \in Sides /\ p # tagWin[w].active /\ t.path = tagWin[w].path
                     /\ Asked(tagWin[w], t, << >>, "count", p, tagWin[w].path[p])
                     /\ MostAsBefore /\ WantedAsBefore
                     /\ tagging'.hurried = (tagging.hurried \/ Unlisted(w, tagWin[w].active))
<1> DEFINE s == tagWin[w]
           p == 3 - s.active
           z == [s EXCEPT !.active = p, !.selected = {}]
           d == z.path[p]
           t == Ask(z, "count", p, d)
<1>1. Does(w, "switch") /\ PutTags(w, t) BY DEF SetActiveSide
<1>2. s \in TagWindowStates /\ s.active \in Sides /\ s.path \in [Sides -> TagFolders]
      /\ s.commands \in Seq(Edits \cup Asks)
  BY OfTypes
<1>3. /\ tagging' \in Taggings /\ tagsFile' = tagsFile /\ s.on
      /\ tagging'.hurried = (tagging.hurried \/ Unlisted(w, s.active))
      /\ MostAsBefore /\ WantedAsBefore
  BY <1>1, DoesTypes
<1>4. p \in Sides /\ p # s.active BY <1>2 DEF Sides
<1> HIDE DEF p, s
<1>5. /\ z \in TagWindowStates /\ z.commands = s.commands /\ z.asked = s.asked /\ z.on = s.on /\ z.db = s.db
      /\ z.saving = s.saving /\ z.counting = s.counting /\ z.answers = s.answers /\ z.active = p
      /\ z.counts = s.counts /\ z.selected = {} /\ z.path = s.path
  BY <1>2, <1>4 DEF TagWindowStates
<1> HIDE DEF z
<1>6. d = s.path[p] /\ d \in TagFolders BY <1>2, <1>4, <1>5
<1> HIDE DEF d
<1>7. /\ t \in TagWindowStates
      /\ t.commands = z.commands \o <<[kind |-> "count", pane |-> p, path |-> d, n |-> z.asked + 1]>>
      /\ t.asked = z.asked + 1 /\ t.on = z.on /\ t.db = z.db /\ t.saving = z.saving
      /\ t.counting = z.counting /\ t.answers = z.answers /\ t.path = z.path
      /\ t.active = z.active /\ t.selected = z.selected /\ t.counts = z.counts
  <2>1. z \in TagWindowStates /\ "count" \in {"count", "list"} /\ p \in Sides /\ d \in TagFolders
    BY <1>4, <1>5, <1>6
  <2> QED BY <2>1, AskFields
<1> HIDE DEF t
<1>8. Becomes(w, t)
  <2>1. IsFiniteSet(t.selected) /\ t.on BY <1>3, <1>5, <1>7, FS_EmptySet
  <2> QED BY <1>1, <1>3, <1>7, <2>1, BecomesIf, OfTypes
<1>9. s.commands = s.commands \o << >> BY <1>2, ConcatEmptySeq
<1>10. Asked(s, t, << >>, "count", p, s.path[p]) BY <1>5, <1>6, <1>7, <1>9 DEF Asked, Added
<1>11. t.path = s.path BY <1>5, <1>7
<1> QED BY <1>3, <1>4, <1>8, <1>10, <1>11 DEF s

(* The first row of a selection is one of the rows. *)
LEMMA FirstIsARow ==
    ASSUME NEW S, NEW rows \in Seq(S), NEW selection, selection # {}, selection \subseteq ToSet(rows)
    PROVE  FirstRow(rows, selection) \in S
<1> DEFINE I == {i \in 1..Len(rows) : rows[i] \in selection}
           n == SelectInSeq(rows, LAMBDA f : f \in selection)
<1>1. DOMAIN rows = 1..Len(rows) /\ Len(rows) \in Nat BY LenProperties
<1>2. I # {} /\ I \subseteq Nat BY <1>1 DEF ToSet
<1>3. n = IF I # {} THEN CHOOSE x \in I : \A y \in I : x =< y ELSE 0 BY DEF SelectInSeq, Min
<1> HIDE DEF I, n
<1>4. PICK m \in I : \A y \in I : ~(<<y, m>> \in OpToRel(<, Nat)) BY <1>2, WFMin, NatLessThanWellFounded
<1>5. \A y \in I : m =< y
  <2>1. \A y \in I : ~(y < m) BY <1>2, <1>4 DEF OpToRel
  <2> QED BY <1>2, <2>1
<1>6. n \in I BY <1>2, <1>3, <1>5
<1> QED BY <1>1, <1>6, ElementOfSeq DEF I, n, FirstRow

(* The menu is opened, or closed. *)
LEMMA OpenMenuShape ==
    ASSUME TagTypes, NEW w \in TagWindows, NEW selection \in SUBSET TaggedFiles, OpenTagMenu(w, selection)
    PROVE  \E t : /\ Becomes(w, t) /\ tagsFile' = tagsFile /\ tagWin[w].on
                  /\ NoneAsked(tagWin[w], t) /\ t.saving = tagWin[w].saving
                  /\ MostAsBefore /\ WantedAsBefore
                  /\ tagging'.hurried = (tagging.hurried \/ Unlisted(w, tagWin[w].active))
<1> DEFINE s == tagWin[w]
           rows == Rows[s.rows[s.active]]
           menuEngine == LoadedTags(tagsFile)
           first == FirstRow(rows, selection)
           current == TagsForEntry(menuEngine, first)
           menu == [open |-> TRUE, all |-> menuEngine.rules \cup current, current |-> current]
           t == [s EXCEPT !.selected = selection, !.menu = menu]
<1>1. /\ selection # {} /\ selection \subseteq ToSet(rows) /\ Does(w, "tag") /\ PutTags(w, t)
  BY DEF OpenTagMenu
<1>2. s \in TagWindowStates /\ s.rows[s.active] \in TagFolders BY OfTypes
<1>3. /\ tagging' \in Taggings /\ tagsFile' = tagsFile /\ s.on
      /\ tagging'.hurried = (tagging.hurried \/ Unlisted(w, s.active))
      /\ MostAsBefore /\ WantedAsBefore
  BY <1>1, DoesTypes
<1>4. menuEngine \in Databases BY LoadedIsDatabase DEF TagTypes
<1>5. IsFiniteSet(selection) BY <1>1, <1>2, RowsAreFiles, FS_Subset
<1>6. current \subseteq RuleNames BY <1>2, RowsAreFiles, <1>1, FirstIsARow, <1>4, EntryTags
<1>7. menu \in [open : BOOLEAN, all : SUBSET RuleNames, current : SUBSET RuleNames]
  BY <1>4, <1>6 DEF Databases
<1> HIDE DEF menu, s
<1>8. /\ t \in TagWindowStates /\ t.selected = selection /\ t.on = s.on /\ NoneAsked(s, t) /\ t.saving = s.saving
  BY <1>2, <1>7 DEF TagWindowStates, NoneAsked
<1> HIDE DEF t
<1>9. Becomes(w, t) BY <1>1, <1>3, <1>5, <1>8, BecomesIf, OfTypes
<1> QED BY <1>3, <1>8, <1>9 DEF s

(* The menu is closed. *)
LEMMA CloseMenuShape ==
    ASSUME TagTypes, NEW w \in TagWindows, CloseTagMenu(w)
    PROVE  \E t : /\ Becomes(w, t) /\ tagsFile' = tagsFile /\ tagging' = tagging
                  /\ NoneAsked(tagWin[w], t) /\ t.saving = tagWin[w].saving
<1> DEFINE s == tagWin[w]
           t == [s EXCEPT !.menu = NoMenu]
<1>1. PutTags(w, t) /\ tagsFile' = tagsFile /\ tagging' = tagging /\ s.menu.open BY DEF CloseTagMenu
<1>2. s \in TagWindowStates /\ IsFiniteSet(s.selected) BY OfTypes
<1>3. s.on BY <1>1, OfTypes, ClosedIsOff DEF NoMenu
<1> HIDE DEF s
<1>4. t \in TagWindowStates /\ t.selected = s.selected /\ t.on = s.on /\ NoneAsked(s, t) /\ t.saving = s.saving
  BY <1>2 DEF TagWindowStates, NoneAsked, NoMenu
<1> HIDE DEF t
<1>5. Becomes(w, t) BY <1>1, <1>2, <1>3, <1>4, BecomesIf, OfTypes
<1> QED BY <1>1, <1>4, <1>5 DEF s

(* What a toggle makes of what users want. *)
Toggled(given, files, remove, t) ==
    [x \in TaggedFiles |-> IF x \notin files THEN given[x]
                           ELSE IF remove THEN given[x] \ {t} ELSE given[x] \cup {t}]

(* A tag is toggled: the selected files have it, or no more, and an edit of each is asked for. *)
LEMMA ToggleShape ==
    ASSUME TagTypes, NEW w \in TagWindows, NEW tag \in RuleNames, ToggleTag(w, tag)
    PROVE  \E t, remove :
              /\ Becomes(w, t) /\ tagsFile' = tagsFile /\ tagWin[w].on /\ remove \in BOOLEAN
              /\ t.path = tagWin[w].path
              /\ \/ tagWin[w].selected = {} /\ NoneAsked(tagWin[w], t) /\ t.saving = tagWin[w].saving
                 \/ Asked(tagWin[w], t, EditsOf(tagWin[w].selected, remove, tag), "count", tagWin[w].active,
                          tagWin[w].path[tagWin[w].active])
              /\ tagging'.wanted = Toggled(tagging.wanted, tagWin[w].selected, remove, tag)
              /\ MostAsBefore
              /\ tagging'.hurried = (tagging.hurried \/ Unlisted(w, tagWin[w].active))
<1> DEFINE s == tagWin[w]
           z == [s EXCEPT !.menu = NoMenu]
           remove == tag \in s.menu.current
           p == s.active
<1>1. s \in TagWindowStates /\ IsFiniteSet(s.selected) /\ s.selected \in SUBSET TaggedFiles /\ p \in Sides
      /\ s.path \in [Sides -> TagFolders] /\ s.commands \in Seq(Edits \cup Asks)
  BY OfTypes
<1>2. z \in TagWindowStates /\ z.selected = s.selected /\ z.menu = NoMenu /\ NoneAsked(s, z) /\ z.saving = s.saving
  <2> HIDE DEF s
  <2> QED BY <1>1 DEF TagWindowStates, NoneAsked, NoMenu
<1> DEFINE es == EditsOf(s.selected, remove, tag)
           t == IF s.selected = {} THEN z ELSE ThenRecount(z, es)
           wanted == Toggled(tagging.wanted, s.selected, remove, tag)
           h == tagging.hurried \/ Unlisted(w, p)
<1>3. PutTags(w, t) /\ s.menu.open /\ tagsFile' = tagsFile
  <2> DEFINE edits == [i \in 1..Cardinality(z.selected) |->
                    [kind |-> IF tag \in s.menu.current THEN "remove" ELSE "add",
                     path |-> SetToSeq(z.selected)[i], tag |-> tag]]
  <2>1. PutTags(w, IF z.selected = {} THEN z ELSE ThenRecount(z, edits)) /\ s.menu.open /\ tagsFile' = tagsFile
    BY DEF ToggleTag
  <2>2. edits = es BY <1>2 DEF EditsOf
  <2> HIDE DEF z, edits, es
  <2> QED BY <1>2, <2>1, <2>2
<1>4. tagging' = [tagging EXCEPT !.wanted = wanted, !.hurried = h]
  <2>1. tagging' = [tagging EXCEPT
                          !.wanted = [f \in TaggedFiles |-> IF f \notin z.selected THEN tagging.wanted[f]
                                        ELSE IF tag \in s.menu.current THEN tagging.wanted[f] \ {tag}
                                             ELSE tagging.wanted[f] \cup {tag}],
                          !.hurried = tagging.hurried \/ Unlisted(w, z.active)]
    BY DEF ToggleTag
  <2>2. z.active = p /\ z.selected = s.selected BY <1>2 DEF NoneAsked
  <2> HIDE DEF z
  <2> QED BY <2>1, <2>2 DEF Toggled
<1>5. s.on BY <1>3, OfTypes, ClosedIsOff DEF NoMenu
<1>6. remove \in BOOLEAN OBVIOUS
<1>7. tagging' \in Taggings /\ MostAsBefore /\ tagging'.wanted = wanted /\ tagging'.hurried = h
  <2>1. tagging \in Taggings /\ tagging.wanted \in Given /\ tagging.hurried \in BOOLEAN
    BY DEF TagTypes, Taggings
  <2>2. wanted \in Given /\ h \in BOOLEAN BY <2>1 DEF Toggled, Given, Unlisted
  <2> HIDE DEF wanted, h
  <2>3. tagging' \in Taggings BY <1>4, <2>1, <2>2 DEF Taggings
  <2>4. tagging'.wanted = wanted /\ tagging'.hurried = h /\ MostAsBefore
    BY <1>4, <2>1 DEF Taggings, MostAsBefore, CutAsBefore, DroppedAsBefore, SharedAsBefore, OvertakenAsBefore
  <2> QED BY <2>3, <2>4
<1> HIDE DEF remove, z, wanted, h
<1>8. es \in Seq(Edits) BY <1>1, <1>6, EditsFacts
<1> HIDE DEF es
<1>9. /\ t \in TagWindowStates /\ t.selected = s.selected /\ t.on = s.on /\ t.path = s.path
      /\ \/ s.selected = {} /\ NoneAsked(s, t) /\ t.saving = s.saving
         \/ Asked(s, t, es, "count", p, s.path[p])
  <2>1. CASE s.selected = {}
    <3>1. t = z BY <2>1
    <3> HIDE DEF t, s
    <3> QED BY <1>2, <2>1, <3>1 DEF NoneAsked
  <2>2. CASE s.selected # {}
    <3> DEFINE cs == z.commands \o es
               y == [z EXCEPT !.commands = cs]
               d == y.path[y.active]
    <3>1. t = Ask(y, "count", y.active, d)
      <4>1. t = ThenRecount(z, es) BY <2>2
      <4>2. ThenRecount(z, es) = Ask([z EXCEPT !.commands = z.commands \o es], "count", z.active, z.path[z.active])
        BY DEF ThenRecount
      <4> HIDE DEF t
      <4>3. y.active = z.active /\ y.path = z.path BY <1>2 DEF TagWindowStates
      <4> QED BY <4>1, <4>2, <4>3
    <3> HIDE DEF t, s
    <3>2. cs = s.commands \o es /\ cs \in Seq(Edits \cup Asks)
      BY <1>8, SeqMonotonic, <1>2, <1>1, ConcatProperties DEF NoneAsked
    <3> HIDE DEF cs
    <3>3. /\ y \in TagWindowStates /\ y.commands = cs /\ y.asked = z.asked /\ y.on = z.on /\ y.db = z.db
          /\ y.saving = z.saving /\ y.counting = z.counting /\ y.answers = z.answers /\ y.active = z.active
          /\ y.counts = z.counts /\ y.selected = z.selected /\ y.path = z.path
      BY <1>2, <3>2 DEF TagWindowStates
    <3> HIDE DEF y
    <3>4. d = s.path[p] /\ d \in TagFolders /\ y.active = p BY <1>1, <1>2, <3>3 DEF NoneAsked
    <3> HIDE DEF d
    <3>5. /\ t \in TagWindowStates
          /\ t.commands = y.commands \o <<[kind |-> "count", pane |-> p, path |-> d, n |-> y.asked + 1]>>
          /\ t.asked = y.asked + 1 /\ t.on = y.on /\ t.db = y.db /\ t.saving = y.saving
          /\ t.counting = y.counting /\ t.answers = y.answers /\ t.path = y.path
          /\ t.active = y.active /\ t.selected = y.selected /\ t.counts = y.counts
      <4>1. y \in TagWindowStates /\ "count" \in {"count", "list"} /\ p \in Sides /\ d \in TagFolders
        BY <1>1, <3>3, <3>4
      <4>2. t = Ask(y, "count", p, d) BY <3>1, <3>4
      <4> QED BY <4>1, <4>2, AskFields
    <3> QED BY <1>2, <3>2, <3>3, <3>4, <3>5 DEF NoneAsked, Asked, Added
  <2> QED BY <2>1, <2>2
<1> HIDE DEF t, s
<1>10. Becomes(w, t) BY <1>1, <1>3, <1>5, <1>7, <1>9, BecomesIf, OfTypes
<1> QED BY <1>3, <1>5, <1>6, <1>7, <1>9, <1>10 DEF s, es, wanted, h

(* An answer is handled. *)
LEMMA AnswerShape ==
    ASSUME TagTypes, NEW w \in TagWindows, HandleTagAnswer(w)
    PROVE  LET s == tagWin[w]
               a == Head(s.answers)
           IN  \E t : /\ Becomes(w, t) /\ tagsFile' = tagsFile /\ tagging' = tagging /\ s.answers # << >> /\ s.on
                      /\ t.commands = s.commands /\ t.asked = s.asked /\ t.on = s.on /\ t.db = s.db
                      /\ t.counting = s.counting /\ t.answers = Tail(s.answers) /\ t.active = s.active
                      /\ t.saving = s.saving
                      /\ a.kind = "list" => t.counts = s.counts /\ t.path = [s.path EXCEPT ![a.pane] = a.path]
                      /\ a.kind = "count" =>
                            t.path = s.path /\ t.counts = IF a.pane = s.active THEN a.counts ELSE s.counts
<1> DEFINE s == tagWin[w]
           a == Head(s.answers)
           rest == Tail(s.answers)
           path == [s.path EXCEPT ![a.pane] = a.path]
           rows == [s.rows EXCEPT ![a.pane] = a.path]
           selected == IF a.pane = s.active THEN {} ELSE s.selected
           counts == IF a.pane = s.active THEN a.counts ELSE s.counts
           t == IF a.kind = "list"
                THEN [s EXCEPT !.answers = rest, !.path = path, !.rows = rows, !.selected = selected]
                ELSE [s EXCEPT !.answers = rest, !.counts = counts]
<1>1. s \in TagWindowStates /\ IsFiniteSet(s.selected) /\ s.answers \in Seq(Counted)
      /\ s.path \in [Sides -> TagFolders] /\ s.rows \in [Sides -> TagFolders] /\ s.counts \in [RuleNames -> Nat]
      /\ s.selected \in SUBSET TaggedFiles
  BY OfTypes
<1>2. s.answers # << >> /\ PutTags(w, t) /\ tagsFile' = tagsFile /\ tagging' = tagging
  <2> DEFINE z == [s EXCEPT !.answers = rest]
  <2>1. /\ s.answers # << >> /\ tagsFile' = tagsFile /\ tagging' = tagging
        /\ PutTags(w, IF a.kind = "list"
                 THEN [z EXCEPT !.path[a.pane] = a.path, !.rows[a.pane] = a.path,
                                !.selected = IF a.pane = z.active THEN {} ELSE z.selected]
                 ELSE [z EXCEPT !.counts = IF a.pane = z.active THEN a.counts ELSE z.counts])
    BY DEF HandleTagAnswer
  <2>2. z.active = s.active /\ z.selected = s.selected /\ z.counts = s.counts /\ z.path = s.path /\ z.rows = s.rows
    BY <1>1 DEF TagWindowStates
  <2>3. [z EXCEPT !.path[a.pane] = a.path, !.rows[a.pane] = a.path,
                  !.selected = IF a.pane = z.active THEN {} ELSE z.selected]
        = [s EXCEPT !.answers = rest, !.path = path, !.rows = rows, !.selected = selected]
    <3> HIDE DEF s
    <3> QED BY <1>1, <2>2 DEF TagWindowStates
  <2>4. [z EXCEPT !.counts = IF a.pane = z.active THEN a.counts ELSE z.counts]
        = [s EXCEPT !.answers = rest, !.counts = counts]
    <3> HIDE DEF s
    <3> QED BY <1>1, <2>2 DEF TagWindowStates
  <2> QED BY <2>1, <2>3, <2>4
<1>3. s.on BY <1>2, OfTypes, ClosedIsOff
<1>4. a \in Counted /\ rest \in Seq(Counted) BY <1>1, <1>2, HeadTailProperties
<1>5. a.pane \in Sides /\ a.path \in TagFolders /\ a.kind \in {"count", "list"} /\ a.counts \in [RuleNames -> Nat]
  BY <1>4 DEF Counted
<1> HIDE DEF s, a, rest
<1>6. /\ path \in [Sides -> TagFolders] /\ rows \in [Sides -> TagFolders] /\ selected \in SUBSET TaggedFiles
      /\ counts \in [RuleNames -> Nat] /\ IsFiniteSet(selected)
  BY <1>1, <1>5, FS_EmptySet
<1> HIDE DEF path, rows, selected, counts
<1>7. t \in TagWindowStates /\ IsFiniteSet(t.selected)
  <2>1. CASE a.kind = "list"
    <3>1. t = [s EXCEPT !.answers = rest, !.path = path, !.rows = rows, !.selected = selected] BY <2>1
    <3> HIDE DEF t
    <3> QED BY <1>1, <1>4, <1>6, <3>1 DEF TagWindowStates
  <2>2. CASE a.kind # "list"
    <3>1. t = [s EXCEPT !.answers = rest, !.counts = counts] BY <2>2
    <3> HIDE DEF t
    <3> QED BY <1>1, <1>4, <1>6, <3>1 DEF TagWindowStates
  <2> QED BY <2>1, <2>2
<1>8. /\ t.commands = s.commands /\ t.asked = s.asked /\ t.on = s.on /\ t.db = s.db
      /\ t.counting = s.counting /\ t.answers = rest /\ t.active = s.active /\ t.saving = s.saving
  BY <1>1 DEF TagWindowStates
<1>9. /\ a.kind = "list" => t.counts = s.counts /\ t.path = path
      /\ a.kind = "count" => t.path = s.path /\ t.counts = counts
  BY <1>1 DEF TagWindowStates
<1> HIDE DEF t
<1>10. Becomes(w, t) BY <1>2, <1>3, <1>7, <1>8, BecomesIf, OfTypes
<1> QED BY <1>2, <1>3, <1>8, <1>9, <1>10 DEF s, a, rest, path, counts

(* A command is taken: an edit is made of the engine's database, and its save begins. *)
LEMMA TakeEditShape ==
    ASSUME TagTypes, NEW w \in TagWindows, TakeTagCommand(w), Head(tagWin[w].commands).kind \in {"add", "remove"}
    PROVE  LET s == tagWin[w]
               c == Head(s.commands)
           IN  \E t : /\ Becomes(w, t) /\ s.on /\ s.commands # << >> /\ ~s.saving /\ c \in Edits
                      /\ t.commands = Tail(s.commands) /\ t.asked = s.asked /\ t.on = s.on
                      /\ t.db = IF c.kind = "add" THEN AddManual(s.db, c.path, c.tag)
                                                  ELSE RemoveManual(s.db, c.path, c.tag)
                      /\ t.counting = s.counting /\ t.answers = s.answers /\ t.active = s.active
                      /\ t.path = s.path /\ t.counts = s.counts
                      /\ t.saving \/ tagging'.cut
                      /\ ~tagging'.cut => ~tagging.cut
                      /\ DroppedAsBefore /\ SharedAsBefore /\ HurriedAsBefore /\ OvertakenAsBefore /\ WantedAsBefore
<1> DEFINE s == tagWin[w]
           c == Head(s.commands)
           rest == Tail(s.commands)
           db == IF c.kind = "add" THEN AddManual(s.db, c.path, c.tag) ELSE RemoveManual(s.db, c.path, c.tag)
<1>1. s \in TagWindowStates /\ IsFiniteSet(s.selected) /\ s.commands \in Seq(Edits \cup Asks) /\ s.db \in Databases
  BY OfTypes
<1>2. /\ s.commands # << >> /\ ~s.saving BY DEF TakeTagCommand
<1>3. PICK begun \in BOOLEAN :
         /\ PutTags(w, [s EXCEPT !.commands = rest, !.saving = begun, !.db = db])
         /\ tagsFile' = (IF begun THEN EmptyTags ELSE tagsFile)
         /\ tagging' = [tagging EXCEPT !.cut = tagging.cut \/ ~begun]
  <2> DEFINE z == [s EXCEPT !.commands = rest]
  <2>1. PICK begun \in {TRUE} \cup {b \in {FALSE} : "fail" \in tagging.does} :
           /\ PutTags(w, [z EXCEPT !.saving = begun, !.db = IF c.kind = "add" THEN AddManual(z.db, c.path, c.tag)
                                                                  ELSE RemoveManual(z.db, c.path, c.tag)])
           /\ tagsFile' = (IF begun THEN EmptyTags ELSE tagsFile)
           /\ tagging' = [tagging EXCEPT !.cut = tagging.cut \/ ~begun]
    BY DEF TakeTagCommand
  <2>2. z.db = s.db BY <1>1 DEF TagWindowStates
  <2>3. [z EXCEPT !.saving = begun, !.db = IF c.kind = "add" THEN AddManual(z.db, c.path, c.tag)
                                                                  ELSE RemoveManual(z.db, c.path, c.tag)]
        = [s EXCEPT !.commands = rest, !.saving = begun, !.db = db]
    <3>1. (IF c.kind = "add" THEN AddManual(z.db, c.path, c.tag) ELSE RemoveManual(z.db, c.path, c.tag)) = db
      BY <2>2
    <3> HIDE DEF s, c, rest, db
    <3> QED BY <1>1, <3>1 DEF TagWindowStates
  <2> QED BY <2>1, <2>3
<1>4. s.on BY <1>2, OfTypes, ClosedIsOff
<1>5. c \in Edits \cup Asks /\ rest \in Seq(Edits \cup Asks) BY <1>1, <1>2, HeadTailProperties
<1>6. c \in Edits BY <1>5 DEF Asks
<1>7. db \in Databases BY <1>1, <1>6, DatabasesStay DEF Edits
<1> HIDE DEF c, rest, db
<1> DEFINE t == [s EXCEPT !.commands = rest, !.saving = begun, !.db = db]
<1> HIDE DEF s
<1>8. t \in TagWindowStates BY <1>1, <1>5, <1>7 DEF TagWindowStates
<1>9. /\ t.commands = rest /\ t.asked = s.asked /\ t.on = s.on /\ t.db = db /\ t.selected = s.selected
      /\ t.counting = s.counting /\ t.answers = s.answers /\ t.active = s.active
      /\ t.path = s.path /\ t.counts = s.counts /\ t.saving = begun
  BY <1>1 DEF TagWindowStates
<1>10. PutTags(w, t) BY <1>3
<1> HIDE DEF t
<1>11. /\ tagging' \in Taggings /\ tagging'.cut = (tagging.cut \/ ~begun)
       /\ DroppedAsBefore /\ SharedAsBefore /\ HurriedAsBefore /\ OvertakenAsBefore /\ WantedAsBefore
  <2> DEFINE ct == tagging.cut \/ ~begun
  <2>1. tagging \in Taggings /\ tagging' = [tagging EXCEPT !.cut = ct] /\ tagging.cut \in BOOLEAN
    BY <1>3 DEF TagTypes, Taggings
  <2>2. ct \in BOOLEAN BY <2>1
  <2> HIDE DEF ct
  <2>3. tagging' \in Taggings BY <2>1, <2>2 DEF Taggings
  <2>4. tagging'.cut = ct /\ DroppedAsBefore /\ SharedAsBefore /\ HurriedAsBefore /\ OvertakenAsBefore
        /\ WantedAsBefore
    BY <2>1 DEF Taggings, DroppedAsBefore, SharedAsBefore, HurriedAsBefore, OvertakenAsBefore, WantedAsBefore
  <2> QED BY <2>3, <2>4 DEF ct
<1>12. tagsFile' \in {NoTags} \cup Databases BY OfTypes, NobodysState, <1>3
<1>13. Becomes(w, t) BY <1>1, <1>4, <1>8, <1>9, <1>10, <1>11, <1>12, BecomesIf, OfTypes
<1> QED BY <1>2, <1>4, <1>6, <1>9, <1>11, <1>13 DEF s, c, rest, db

(* A count is asked of a task. *)
LEMMA TakeAskShape ==
    ASSUME TagTypes, NEW w \in TagWindows, TakeTagCommand(w), Head(tagWin[w].commands).kind \notin {"add", "remove"}
    PROVE  LET s == tagWin[w]
               c == Head(s.commands)
           IN  \E t, e : /\ Becomes(w, t) /\ s.on /\ s.commands # << >> /\ c \in Asks /\ e \in Counted
                         /\ tagsFile' = tagsFile /\ tagging' = tagging
                         /\ e.kind = c.kind /\ e.pane = c.pane /\ e.path = c.path /\ e.n = c.n /\ ~e.counted
                         /\ t.commands = Tail(s.commands) /\ t.asked = s.asked /\ t.on = s.on /\ t.db = s.db
                         /\ t.counting = s.counting \cup {e} /\ t.answers = s.answers /\ t.active = s.active
                         /\ t.path = s.path /\ t.counts = s.counts /\ t.saving = s.saving
<1> DEFINE s == tagWin[w]
           c == Head(s.commands)
           rest == Tail(s.commands)
           e == [kind |-> c.kind, pane |-> c.pane, path |-> c.path, n |-> c.n, counted |-> FALSE,
                 counts |-> s.counts]
           counting == s.counting \cup {e}
           t == [s EXCEPT !.commands = rest, !.counting = counting]
<1>1. s \in TagWindowStates /\ IsFiniteSet(s.selected) /\ s.commands \in Seq(Edits \cup Asks)
      /\ s.counts \in [RuleNames -> Nat] /\ s.counting \in SUBSET Counted
  BY OfTypes
<1>2. s.commands # << >> /\ tagsFile' = tagsFile /\ tagging' = tagging /\ PutTags(w, t)
  <2> DEFINE z == [s EXCEPT !.commands = rest]
  <2>1. /\ s.commands # << >> /\ tagsFile' = tagsFile /\ tagging' = tagging
        /\ PutTags(w, [z EXCEPT !.counting = z.counting \cup {[kind |-> c.kind, pane |-> c.pane, path |-> c.path,
                                                  n |-> c.n, counted |-> FALSE, counts |-> z.counts]}])
    BY DEF TakeTagCommand
  <2>2. z.counts = s.counts /\ z.counting = s.counting BY <1>1 DEF TagWindowStates
  <2>3. [z EXCEPT !.counting = z.counting \cup {[kind |-> c.kind, pane |-> c.pane, path |-> c.path,
                                                  n |-> c.n, counted |-> FALSE, counts |-> z.counts]}] = t
    <3>1. z.counting \cup {[kind |-> c.kind, pane |-> c.pane, path |-> c.path,
                            n |-> c.n, counted |-> FALSE, counts |-> z.counts]} = counting
      BY <2>2
    <3> HIDE DEF s, c, rest, counting
    <3> QED BY <1>1, <3>1 DEF TagWindowStates
  <2> QED BY <2>1, <2>3
<1>3. s.on BY <1>2, OfTypes, ClosedIsOff
<1>4. c \in Edits \cup Asks /\ rest \in Seq(Edits \cup Asks) BY <1>1, <1>2, HeadTailProperties
<1>5. c \in Asks BY <1>4 DEF Edits
<1> HIDE DEF c, rest, s
<1>6. /\ e \in Counted /\ e.kind = c.kind /\ e.pane = c.pane /\ e.path = c.path /\ e.n = c.n /\ ~e.counted
  BY <1>1, <1>5 DEF Asks, Counted
<1> HIDE DEF e
<1>7. counting \in SUBSET Counted BY <1>1, <1>6
<1> HIDE DEF counting
<1>8. /\ t \in TagWindowStates /\ t.commands = rest /\ t.asked = s.asked /\ t.on = s.on /\ t.db = s.db
      /\ t.selected = s.selected
      /\ t.counting = counting /\ t.answers = s.answers /\ t.active = s.active
      /\ t.path = s.path /\ t.counts = s.counts /\ t.saving = s.saving
  BY <1>1, <1>4, <1>7 DEF TagWindowStates
<1> HIDE DEF t
<1>9. Becomes(w, t) BY <1>1, <1>2, <1>3, <1>8, BecomesIf, OfTypes
<1> QED BY <1>2, <1>3, <1>5, <1>6, <1>8, <1>9 DEF s, c, rest, counting

(* A save ends, or fails. *)
LEMMA SavedShape ==
    ASSUME TagTypes, NEW w \in TagWindows, SaveTagsEnds(w)
    PROVE  \E t : /\ Becomes(w, t) /\ tagWin[w].on /\ tagWin[w].saving /\ ~t.saving /\ NoneAsked(tagWin[w], t)
                  /\ tagging' = tagging /\ tagsFile' = tagWin[w].db
<1> DEFINE s == tagWin[w]
           t == [s EXCEPT !.saving = FALSE]
<1>1. s.saving /\ PutTags(w, t) /\ tagging' = tagging /\ tagsFile' = s.db BY DEF SaveTagsEnds
<1>2. s \in TagWindowStates /\ IsFiniteSet(s.selected) /\ s.db \in Databases BY OfTypes
<1>3. s.on BY <1>1, OfTypes, ClosedIsOff
<1> HIDE DEF s
<1>4. t \in TagWindowStates /\ t.selected = s.selected /\ t.on = s.on /\ NoneAsked(s, t) /\ ~t.saving
  BY <1>2 DEF TagWindowStates, NoneAsked
<1> HIDE DEF t
<1>5. Becomes(w, t) BY <1>1, <1>2, <1>3, <1>4, BecomesIf, OfTypes
<1> QED BY <1>1, <1>3, <1>4, <1>5 DEF s

(* A save that fails cuts it short. *)
LEMMA SaveFailsShape ==
    ASSUME TagTypes, NEW w \in TagWindows, SaveTagsFails(w)
    PROVE  \E t : /\ Becomes(w, t) /\ tagWin[w].on /\ ~t.saving /\ NoneAsked(tagWin[w], t)
                  /\ tagging'.cut /\ tagsFile' = tagsFile /\ OvertakenAsBefore /\ HurriedAsBefore
<1> DEFINE s == tagWin[w]
           t == [s EXCEPT !.saving = FALSE]
<1>1. s.saving /\ PutTags(w, t) /\ tagging' = [tagging EXCEPT !.cut = TRUE] /\ tagsFile' = tagsFile
  BY DEF SaveTagsFails
<1>2. s \in TagWindowStates /\ IsFiniteSet(s.selected) /\ tagging \in Taggings BY OfTypes
<1>3. s.on BY <1>1, OfTypes, ClosedIsOff
<1> HIDE DEF s
<1>4. t \in TagWindowStates /\ t.selected = s.selected /\ t.on = s.on /\ NoneAsked(s, t) /\ ~t.saving
  BY <1>2 DEF TagWindowStates, NoneAsked
<1> HIDE DEF t
<1>5. tagging' \in Taggings /\ tagging'.cut /\ OvertakenAsBefore /\ HurriedAsBefore
  BY <1>1, <1>2 DEF Taggings, OvertakenAsBefore, HurriedAsBefore
<1>6. Becomes(w, t) BY <1>1, <1>2, <1>3, <1>4, <1>5, BecomesIf, OfTypes
<1> QED BY <1>1, <1>3, <1>4, <1>5, <1>6 DEF s

(* Two sequences of one are one of two. *)
LEMMA TwoAreAPair ==
    ASSUME NEW S, NEW x \in S, NEW y \in S
    PROVE  <<x>> \o <<y>> = <<x, y>>
<1> DEFINE a == <<x>>
             b == <<y>>
             both == a \o b
             z == <<x, y>>
<1>1. a \in Seq(S) /\ b \in Seq(S) /\ Len(a) = 1 /\ Len(b) = 1 /\ a[1] = x /\ b[1] = y OBVIOUS
<1>2. z \in Seq(S) /\ Len(z) = 2 /\ z[1] = x /\ z[2] = y OBVIOUS
<1> HIDE DEF a, b, z
<1>3. /\ both \in Seq(S) /\ Len(both) = Len(a) + Len(b)
        /\ \A i \in 1..(Len(a) + Len(b)) : both[i] = IF i <= Len(a) THEN a[i] ELSE b[i - Len(a)]
  BY <1>1, ConcatProperties
<1> HIDE DEF both
<1>4. Len(both) = 2 /\ both[1] = x /\ both[2] = y BY <1>1, <1>3
<1>5. \A i \in 1..Len(both) : both[i] = z[i] BY <1>2, <1>4
<1>6. both = z BY <1>2, <1>3, <1>4, <1>5, SeqEqual
<1> QED BY <1>6 DEF both, a, b, z

(* What is in such sequences. *)
LEMMA PairsAreSeqs ==
    ASSUME NEW S, NEW x \in S, NEW y \in S
    PROVE  /\ <<x>> \in Seq(S) /\ <<x, y>> \in Seq(S)
           /\ Len(<<x>>) = 1 /\ Len(<<x, y>>) = 2 /\ <<x, y>>[1] = x /\ <<x, y>>[2] = y /\ <<x>>[1] = x
           /\ ToSet(<<x>>) = {x} /\ ToSet(<<x, y>>) = {x, y}
<1>1. <<x>> \in Seq(S) /\ <<x, y>> \in Seq(S) /\ Len(<<x>>) = 1 /\ Len(<<x, y>>) = 2 OBVIOUS
<1>2. <<x, y>>[1] = x /\ <<x, y>>[2] = y /\ <<x>>[1] = x OBVIOUS
<1>4. DOMAIN <<x>> = {1} /\ DOMAIN <<x, y>> = {1, 2} OBVIOUS
<1>5. ToSet(<<x>>) = {x} BY <1>2, <1>4 DEF ToSet
<1>6. ToSet(<<x, y>>) = {x, y}
  <2> DEFINE z == <<x, y>>
  <2>1. DOMAIN z = {1, 2} /\ z[1] = x /\ z[2] = y BY <1>2, <1>4
  <2> HIDE DEF z
  <2>2. ToSet(z) = {z[1], z[2]} BY <2>1 DEF ToSet
  <2> QED BY <2>1, <2>2 DEF z
<1> QED BY <1>1, <1>2, <1>5, <1>6

(* A task counts, or tells what it counted. *)
LEMMA CountShape ==
    ASSUME TagTypes, NEW w \in TagWindows, NEW c \in tagWin[w].counting, CountTags(w, c)
    PROVE  LET s == tagWin[w]
           IN  \E t, e : /\ Becomes(w, t) /\ s.on /\ c \in Counted /\ e \in Counted /\ ~c.counted
                         /\ tagsFile' = tagsFile /\ tagging' = tagging
                         /\ e.kind = c.kind /\ e.pane = c.pane /\ e.path = c.path /\ e.n = c.n
                         /\ e.counts = TagCounts(s.db, c.path)
                         /\ t.commands = s.commands /\ t.asked = s.asked /\ t.on = s.on /\ t.db = s.db
                         /\ t.counting = (s.counting \ {c}) \cup {e} /\ t.answers = s.answers /\ t.active = s.active
                         /\ t.path = s.path /\ t.counts = s.counts /\ t.saving = s.saving
<1> DEFINE s == tagWin[w]
           counts == TagCounts(s.db, c.path)
           e == [c EXCEPT !.counted = TRUE, !.counts = counts]
           counting == (s.counting \ {c}) \cup {e}
           t == [s EXCEPT !.counting = counting]
<1>1. s \in TagWindowStates /\ IsFiniteSet(s.selected) /\ s.counting \in SUBSET Counted /\ s.db \in Databases
  BY OfTypes
<1>2. tagsFile' = tagsFile /\ tagging' = tagging /\ PutTags(w, t) /\ ~c.counted /\ c \in s.counting
  BY DEF CountTags
<1>3. s.on BY <1>2, OfTypes, ClosedIsOff
<1>4. c \in Counted BY <1>1, <1>2
<1>5. counts \in [RuleNames -> Nat] BY <1>1, <1>4, CountsAreNumbers DEF Counted
<1> HIDE DEF s, counts
<1>6. /\ e \in Counted /\ e.kind = c.kind /\ e.pane = c.pane /\ e.path = c.path /\ e.n = c.n /\ e.counts = counts
  BY <1>4, <1>5 DEF Counted
<1> HIDE DEF e
<1>7. counting \in SUBSET Counted BY <1>1, <1>6
<1> HIDE DEF counting
<1>8. /\ t \in TagWindowStates /\ t.commands = s.commands /\ t.asked = s.asked /\ t.on = s.on /\ t.db = s.db
      /\ t.selected = s.selected
      /\ t.counting = counting /\ t.answers = s.answers /\ t.active = s.active
      /\ t.path = s.path /\ t.counts = s.counts /\ t.saving = s.saving
  BY <1>1, <1>7 DEF TagWindowStates
<1> HIDE DEF t
<1>9. Becomes(w, t) BY <1>1, <1>2, <1>3, <1>8, BecomesIf, OfTypes
<1> QED BY <1>2, <1>3, <1>4, <1>6, <1>8, <1>9 DEF s, counting, counts

(* What a task tells is behind what was told before. *)
Told(before, c, e, answers) ==
    \/ c.kind = "list" /\ answers = before \o <<c, e>>
    \/ c.kind = "count" /\ answers = before \o <<e>>

(* A task tells its counts, behind the listing if it listed. *)
LEMMA TellShape ==
    ASSUME TagTypes, NEW w \in TagWindows, NEW c \in tagWin[w].counting, TellCounts(w, c)
    PROVE  LET s == tagWin[w]
           IN  \E t, e :
                  /\ Becomes(w, t) /\ s.on /\ c \in Counted /\ e \in Counted /\ c.counted
                  /\ tagsFile' = tagsFile /\ CutAsBefore /\ DroppedAsBefore /\ SharedAsBefore /\ HurriedAsBefore
                  /\ WantedAsBefore
                  /\ tagging'.overtaken = (tagging.overtaken \/ \E x \in s.counting : x.pane = c.pane /\ x.n < c.n)
                  /\ e.kind = "count" /\ e.pane = c.pane /\ e.path = c.path /\ e.n = c.n /\ e.counts = c.counts
                  /\ Told(s.answers, c, e, t.answers)
                  /\ t.commands = s.commands /\ t.asked = s.asked /\ t.on = s.on /\ t.db = s.db
                  /\ t.counting = s.counting \ {c} /\ t.active = s.active
                  /\ t.path = s.path /\ t.counts = s.counts /\ t.saving = s.saving
<1> DEFINE s == tagWin[w]
           e == [c EXCEPT !.kind = "count"]
           counting == s.counting \ {c}
           answers == (s.answers \o (IF c.kind = "list" THEN <<c>> ELSE << >>)) \o <<e>>
           t == [s EXCEPT !.counting = counting, !.answers = answers]
           told == IF c.kind = "list" THEN <<c, e>> ELSE <<e>>
           ov == tagging.overtaken \/ \E x \in s.counting : x.pane = c.pane /\ x.n < c.n
<1>1. s \in TagWindowStates /\ IsFiniteSet(s.selected) /\ s.counting \in SUBSET Counted /\ s.answers \in Seq(Counted)
  BY OfTypes
<1>2. tagsFile' = tagsFile /\ PutTags(w, t) /\ c.counted /\ c \in s.counting
      /\ tagging' = [tagging EXCEPT !.overtaken = ov]
  BY DEF TellCounts
<1>3. s.on BY <1>2, OfTypes, ClosedIsOff
<1>4. c \in Counted /\ c.kind \in {"count", "list"} BY <1>1, <1>2 DEF Counted
<1>5. /\ tagging' \in Taggings /\ CutAsBefore /\ DroppedAsBefore /\ SharedAsBefore /\ HurriedAsBefore
      /\ WantedAsBefore /\ tagging'.overtaken = ov
  <2>1. tagging \in Taggings /\ ov \in BOOLEAN BY DEF TagTypes, Taggings
  <2> HIDE DEF ov
  <2> QED BY <1>2, <2>1 DEF Taggings, CutAsBefore, DroppedAsBefore, SharedAsBefore, HurriedAsBefore, WantedAsBefore
<1>6. e \in Counted /\ e.kind = "count" /\ e.pane = c.pane /\ e.path = c.path /\ e.n = c.n /\ e.counts = c.counts
  BY <1>4 DEF Counted
<1> HIDE DEF s, e
<1>7. answers = s.answers \o told /\ told \in Seq(Counted)
  <2>1. CASE c.kind = "list"
    <3>1. answers = (s.answers \o <<c>>) \o <<e>> /\ told = <<c, e>> BY <2>1
    <3>2. <<c>> \in Seq(Counted) /\ <<e>> \in Seq(Counted) /\ <<c>> \o <<e>> = <<c, e>>
      BY <1>4, <1>6, TwoAreAPair
    <3>3. (s.answers \o <<c>>) \o <<e>> = s.answers \o (<<c>> \o <<e>>) BY <1>1, <3>2, ConcatAssociative
    <3>4. <<c, e>> \in Seq(Counted) BY <1>4, <1>6
    <3> HIDE DEF told, answers
    <3> QED BY <3>1, <3>2, <3>3, <3>4
  <2>2. CASE c.kind # "list"
    <3>1. answers = (s.answers \o << >>) \o <<e>> /\ told = <<e>> BY <2>2
    <3>2. s.answers \o << >> = s.answers BY <1>1, ConcatEmptySeq
    <3>3. <<e>> \in Seq(Counted) BY <1>6
    <3> HIDE DEF told, answers
    <3> QED BY <3>1, <3>2, <3>3
  <2> QED BY <2>1, <2>2
<1>8. counting \in SUBSET Counted /\ answers \in Seq(Counted)
  <2> HIDE DEF told, answers
  <2> QED BY <1>1, <1>7, ConcatProperties
<1>9. \/ c.kind = "list" /\ told = <<c, e>>
      \/ c.kind = "count" /\ told = <<e>>
  BY <1>4
<1> HIDE DEF counting, answers, told
<1>10. /\ t \in TagWindowStates /\ t.commands = s.commands /\ t.asked = s.asked /\ t.on = s.on /\ t.db = s.db
       /\ t.selected = s.selected
       /\ t.counting = counting /\ t.answers = answers /\ t.active = s.active
       /\ t.path = s.path /\ t.counts = s.counts /\ t.saving = s.saving
  BY <1>1, <1>8 DEF TagWindowStates
<1> HIDE DEF t
<1>11. Becomes(w, t) BY <1>1, <1>2, <1>3, <1>5, <1>10, BecomesIf, OfTypes
<1>12. /\ Becomes(w, t) /\ s.on /\ c \in Counted /\ e \in Counted /\ c.counted
       /\ tagsFile' = tagsFile /\ CutAsBefore /\ DroppedAsBefore /\ SharedAsBefore /\ HurriedAsBefore
       /\ WantedAsBefore
       /\ tagging'.overtaken = (tagging.overtaken \/ \E x \in s.counting : x.pane = c.pane /\ x.n < c.n)
       /\ e.kind = "count" /\ e.pane = c.pane /\ e.path = c.path /\ e.n = c.n /\ e.counts = c.counts
  BY <1>2, <1>3, <1>4, <1>5, <1>6, <1>11
<1>13. /\ t.commands = s.commands /\ t.asked = s.asked /\ t.on = s.on /\ t.db = s.db
       /\ t.counting = s.counting \ {c} /\ t.active = s.active
       /\ t.path = s.path /\ t.counts = s.counts /\ t.saving = s.saving
  BY <1>7, <1>10 DEF counting
<1>14. Told(s.answers, c, e, t.answers) BY <1>7, <1>9, <1>10 DEF Told
<1> HIDE DEF ov
<1> QED BY <1>12, <1>13, <1>14 DEF s

-------------------------------------------------------------------------------
(* Requests, from the command to the answer. *)

(* The parts that requests are about. *)
StateFields(s) ==
    /\ s.commands \in Seq(Edits \cup Asks) /\ s.counting \in SUBSET Counted /\ s.answers \in Seq(Counted)
    /\ s.path \in [Sides -> TagFolders] /\ s.active \in Sides /\ s.asked \in Nat /\ s.db \in Databases
    /\ s.counts \in [RuleNames -> Nat]

(* Every window has them. *)
LEMMA FieldsOf == ASSUME NEW s \in TagWindowStates PROVE StateFields(s)
  BY DEF StateFields, TagWindowStates

(* What edits, requests and answers are. *)
LEMMA KindsOf ==
    /\ \A c \in Edits : c.kind \in {"add", "remove"} /\ c.path \in TaggedFiles /\ c.tag \in RuleNames
    /\ \A c \in Asks \cup Counted : c.kind \in {"count", "list"} /\ c.pane \in Sides /\ c.path \in TagFolders /\ c.n \in Nat
    /\ \A c \in Edits \cup Asks : IsAsk(c) => c \in Asks
    /\ \A c \in Edits \cup Asks : ~IsAsk(c) => c \in Edits
    /\ \A c \in Asks \cup Counted : IsAsk(c)
  BY DEF Edits, Asks, Counted, IsAsk

(* A command is an edit or a request. *)
LEMMA CommandAt ==
    ASSUME NEW s, StateFields(s), NEW i \in DOMAIN s.commands
    PROVE  /\ i \in 1..Len(s.commands) /\ s.commands[i] \in Edits \cup Asks /\ Len(s.commands) \in Nat
           /\ IsAsk(s.commands[i]) => s.commands[i] \in Asks /\ s.commands[i].n \in Nat
           /\ s.commands[i] \in ToSet(s.commands)
BY LenProperties, ElementOfSeq, KindsOf DEF StateFields, ToSet

(* An answer has a number, a pane and a folder. *)
LEMMA AnswerAt ==
    ASSUME NEW s, StateFields(s), NEW i \in DOMAIN s.answers
    PROVE  /\ i \in 1..Len(s.answers) /\ s.answers[i] \in Counted /\ Len(s.answers) \in Nat
           /\ s.answers[i].n \in Nat /\ s.answers[i].pane \in Sides /\ s.answers[i].path \in TagFolders
           /\ s.answers[i] \in ToSet(s.answers)
BY LenProperties, ElementOfSeq, KindsOf DEF StateFields, ToSet

(* What is outstanding is in one of three places. *)
LEMMA OutIs ==
    ASSUME NEW s, StateFields(s)
    PROVE  /\ Outstanding(s) = {c \in ToSet(s.commands) : IsAsk(c)} \cup s.counting \cup ToSet(s.answers)
           /\ \A c \in Outstanding(s) :
                 /\ c.kind \in {"count", "list"} /\ c.pane \in Sides /\ c.path \in TagFolders /\ c.n \in Nat
BY ToSetOfSeq, KindsOf DEF Outstanding, IsAsk, StateFields

(* None was asked after the last. *)
LEMMA OutNumbers ==
    ASSUME NEW s, StateFields(s), AsksFit(s)
    PROVE  \A c \in Outstanding(s) : c.n <= s.asked
<1> SUFFICES ASSUME NEW c \in Outstanding(s) PROVE c.n <= s.asked OBVIOUS
<1>1. CASE c \in ToSet(s.commands) /\ IsAsk(c) BY <1>1 DEF ToSet, AsksFit
<1>2. CASE c \in s.counting BY <1>2 DEF AsksFit
<1>3. CASE c \in ToSet(s.answers) BY <1>3 DEF ToSet, AsksFit
<1> QED BY <1>1, <1>2, <1>3, OutIs

(* What fits still does when more is excused. *)
LEMMA FitsStay ==
    ASSUME NEW s, NEW o \in BOOLEAN, NEW h \in BOOLEAN, NEW o2 \in BOOLEAN, NEW h2 \in BOOLEAN,
           o => o2, h => h2, Fits(s, o, h)
    PROVE  Fits(s, o2, h2)
  BY DEF Fits

(* What nothing is asked of stays as it was. *)
LEMMA NoneAskedFits ==
    ASSUME NEW s, NEW t, NoneAsked(s, t), NEW o \in BOOLEAN, NEW h \in BOOLEAN, Fits(s, o, h)
    PROVE  Fits(t, o, h)
BY DEF Outstanding, NoneAsked, AsksFit, InTurn, PathsFit, LastIsRight, Fits

(* A request goes on from place to place. *)
OutCarries(s, t) ==
    /\ \A x \in Outstanding(t) : \E y \in Outstanding(s) :
          x.pane = y.pane /\ x.path = y.path /\ x.n = y.n /\ (x.kind = "list" => y.kind = "list")
    /\ \A y \in Outstanding(s) : \E x \in Outstanding(t) : x.n = y.n /\ (y.kind = "list" => x.kind = "list")

(* A request that goes on is for the pane and the folder it was for. *)
LEMMA CarriedPaths ==
    ASSUME NEW s, NEW t, OutCarries(s, t), t.path = s.path, t.active = s.active, t.asked = s.asked, PathsFit(s)
    PROVE  PathsFit(t)
<1>1. ASSUME NEW x \in Outstanding(t)
      PROVE  /\ x.n = t.asked => x.pane = t.active
             /\ x.kind = "list" /\ x.pane # t.active => x.path = t.path[x.pane]
             /\ (\A e \in Outstanding(t) : ~(e.kind = "list" /\ e.n = t.asked)) =>
                   /\ x.n = t.asked => x.path = t.path[t.active]
                   /\ x.kind = "list" /\ x.pane = t.active => x.path = t.path[x.pane]
  BY DEF OutCarries, PathsFit
<1> QED BY <1>1 DEF PathsFit

(* The sidebar is right once the last is told, wherever it is. *)
LEMMA CarriedLast ==
    ASSUME NEW s, NEW t, OutCarries(s, t), t.path = s.path, t.active = s.active, t.asked = s.asked,
           t.db = s.db, t.counts = s.counts, LastIsRight(s)
    PROVE  (\A c \in Outstanding(t) : c.n # t.asked) =>
              /\ \A c \in Outstanding(t) : c.pane # t.active
              /\ t.counts = TagCounts(t.db, t.path[t.active])
BY DEF OutCarries, LastIsRight

(* Where the commands are when some edits and a request are added. *)
LEMMA AddedCommands ==
    ASSUME NEW s, StateFields(s), NEW es \in Seq(Edits), NEW r \in Asks, NEW cs, Added(s, es, r, cs)
    PROVE  /\ cs \in Seq(Edits \cup Asks) /\ Len(cs) = Len(s.commands) + Len(es) + 1 /\ Len(cs) \in Nat
           /\ DOMAIN cs = 1..Len(cs) /\ Len(s.commands) \in Nat /\ Len(es) \in Nat
           /\ \A i \in 1..Len(cs) :
                 /\ i <= Len(s.commands) => i \in DOMAIN s.commands /\ cs[i] = s.commands[i]
                 /\ i > Len(s.commands) /\ i # Len(cs) =>
                       i - Len(s.commands) \in 1..Len(es) /\ cs[i] = es[i - Len(s.commands)] /\ cs[i] \in Edits
           /\ cs[Len(cs)] = r /\ cs # << >>
           /\ ToSet(cs) = ToSet(s.commands) \cup ToSet(es) \cup {r}
<1> DEFINE C == Edits \cup Asks
           u == s.commands \o es
           one == <<r>>
           n == Len(s.commands)
           m == Len(es)
<1>1. s.commands \in Seq(C) /\ es \in Seq(C) /\ es \in Seq(Edits) /\ one \in Seq(C)
  BY SeqMonotonic DEF StateFields
<1>2. /\ u \in Seq(C) /\ Len(u) = n + m
      /\ \A i \in 1..(n + m) : u[i] = IF i <= n THEN s.commands[i] ELSE es[i - n]
  <2> HIDE DEF C
  <2> QED BY <1>1, ConcatProperties
<1>3. n \in Nat /\ m \in Nat /\ DOMAIN s.commands = 1..n BY <1>1, LenProperties
<1>4. Len(one) = 1 /\ one[1] = r /\ ToSet(one) = {r} BY PairsAreSeqs
<1> HIDE DEF C, u, one
<1>5. /\ cs \in Seq(C) /\ Len(cs) = Len(u) + Len(one)
      /\ \A i \in 1..(Len(u) + Len(one)) : cs[i] = IF i <= Len(u) THEN u[i] ELSE one[i - Len(u)]
  <2>1. cs = u \o one BY DEF u, one, Added
  <2>2. /\ u \o one \in Seq(C) /\ Len(u \o one) = Len(u) + Len(one)
        /\ \A i \in 1..(Len(u) + Len(one)) : (u \o one)[i] = IF i <= Len(u) THEN u[i] ELSE one[i - Len(u)]
    <3>1. u \in Seq(C) /\ one \in Seq(C) BY <1>1, <1>2
    <3> QED BY <3>1, ConcatProperties
  <2> QED BY <2>1, <2>2
<1>6. DOMAIN cs = 1..Len(cs) /\ Len(cs) \in Nat BY <1>5, LenProperties
<1>7. ToSet(cs) = ToSet(s.commands) \cup ToSet(es) \cup {r}
  <2>1. ToSet(u) = ToSet(s.commands) \cup ToSet(es) BY <1>1, ToSetOfConcat DEF u
  <2>2. ToSet(cs) = ToSet(u) \cup ToSet(one)
    <3>1. cs = u \o one BY DEF u, one, Added
    <3> QED BY <1>1, <1>2, <3>1, ToSetOfConcat
  <2> QED BY <1>4, <2>1, <2>2
<1>8. Len(cs) = n + m + 1 /\ cs[n + m + 1] = r BY <1>2, <1>3, <1>4, <1>5, SMTT(20)
<1>9. ASSUME NEW i \in 1..Len(cs), i <= n PROVE i \in DOMAIN s.commands /\ cs[i] = s.commands[i]
  BY <1>2, <1>3, <1>4, <1>5, <1>9
<1>10. ASSUME NEW i \in 1..Len(cs), i > n, i # Len(cs)
       PROVE  i - n \in 1..m /\ cs[i] = es[i - n] /\ cs[i] \in Edits
  <2>1. i - n \in 1..m /\ i \in 1..(n + m) /\ ~(i <= n)
    <3>1. n \in Nat /\ m \in Nat /\ Len(cs) = n + m + 1 BY <1>3, <1>8
    <3> HIDE DEF n, m
    <3> QED BY <3>1, <1>10
  <2>2. cs[i] = u[i] /\ u[i] = es[i - n] BY <1>2, <1>3, <1>4, <1>5, <1>8, <2>1
  <2>3. es[i - n] \in Edits BY <1>1, <2>1, ElementOfSeq
  <2> QED BY <2>1, <2>2, <2>3
<1>11. cs # << >> BY <1>3, <1>8
<1> QED BY <1>3, <1>5, <1>6, <1>7, <1>8, <1>9, <1>10, <1>11 DEF C

(* One that is asked anew is the last. *)
LEMMA AskedFits ==
    ASSUME NEW s, NEW t, StateFields(s), StateFields(t), NEW o \in BOOLEAN, NEW h \in BOOLEAN, NEW h2 \in BOOLEAN,
           Fits(s, o, h), NEW es \in Seq(Edits), NEW k \in {"count", "list"}, NEW p \in Sides, NEW d \in TagFolders,
           Asked(s, t, es, k, p, d),
           ~h2 => /\ ~h
                  /\ \A c \in Outstanding(s) : c.kind = "list" /\ c.pane = s.active => c.path = s.path[s.active],
           k = "list" => p = s.active /\ \A q \in Sides : q # p => t.path[q] = s.path[q],
           k = "count" => t.path = s.path /\ d = s.path[p]
    PROVE  Fits(t, o, h2)
<1> DEFINE r == [kind |-> k, pane |-> p, path |-> d, n |-> s.asked + 1]
           cs == t.commands
           n == Len(s.commands)
<1>1. s.asked \in Nat /\ t.asked = s.asked + 1 /\ t.counting = s.counting /\ t.answers = s.answers
      /\ t.active = p /\ t.db = s.db /\ Added(s, es, r, cs)
  BY DEF StateFields, Asked
<1>2. r \in Asks /\ r.n = s.asked + 1 /\ r.pane = p /\ r.path = d /\ r.kind = k /\ IsAsk(r)
  BY <1>1 DEF Asks, IsAsk
<1> HIDE DEF r, cs
<1>3. /\ Len(cs) \in Nat /\ DOMAIN cs = 1..Len(cs) /\ Len(s.commands) \in Nat
      /\ \A i \in 1..Len(cs) :
            /\ i <= n => i \in DOMAIN s.commands /\ cs[i] = s.commands[i]
            /\ i > n /\ i # Len(cs) => cs[i] \in Edits
      /\ cs[Len(cs)] = r /\ cs # << >> /\ Len(cs) = n + Len(es) + 1 /\ Len(es) \in Nat
      /\ ToSet(cs) = ToSet(s.commands) \cup ToSet(es) \cup {r}
  BY <1>1, <1>2, AddedCommands
<1>4. \A i \in DOMAIN cs : IsAsk(cs[i]) =>
         \/ i <= n /\ i \in DOMAIN s.commands /\ cs[i] = s.commands[i]
         \/ i = Len(cs) /\ cs[i] = r
  BY <1>3, KindsOf DEF IsAsk
<1>5. AsksFit(s) /\ \A c \in Outstanding(s) : c.n <= s.asked /\ c.n \in Nat
  BY OutNumbers, OutIs DEF Fits
<1>6. Outstanding(t) = Outstanding(s) \cup {r}
  BY ToSetOfSeq, KindsOf, <1>1, OutIs, <1>2, <1>3 DEF IsAsk, cs
<1>7. AsksFit(t)
  <2>1. cs # << >> => IsAsk(cs[Len(cs)]) /\ cs[Len(cs)].n = t.asked BY <1>1, <1>2, <1>3
  <2>2. ASSUME NEW i \in DOMAIN cs, IsAsk(cs[i])
        PROVE  /\ cs[i].n <= t.asked
               /\ \A j \in DOMAIN cs : i < j /\ IsAsk(cs[j]) => cs[i].n < cs[j].n
               /\ \A c \in t.counting \cup ToSet(t.answers) : c.n < cs[i].n
    <3>1. CASE i <= n /\ i \in DOMAIN s.commands /\ cs[i] = s.commands[i]
      <4>1. cs[i].n \in Nat /\ cs[i].n <= s.asked BY <1>5, <2>2, <3>1, CommandAt DEF AsksFit
      <4>2. ASSUME NEW j \in DOMAIN cs, i < j, IsAsk(cs[j]) PROVE cs[i].n < cs[j].n
        <5>1. CASE j <= n /\ j \in DOMAIN s.commands /\ cs[j] = s.commands[j]
          BY <1>5, <2>2, <3>1, <4>2, <5>1 DEF AsksFit
        <5>2. CASE j = Len(cs) /\ cs[j] = r BY <1>2, <5>2, <1>1, <4>1
        <5> QED BY <1>4, <4>2, <5>1, <5>2
      <4>3. \A c \in t.counting \cup ToSet(t.answers) : c.n < cs[i].n
        BY <1>1, <1>5, <2>2, <3>1 DEF AsksFit
      <4>4. cs[i].n <= t.asked BY <1>1, <4>1
      <4> QED BY <4>2, <4>3, <4>4
    <3>2. CASE i = Len(cs) /\ cs[i] = r BY <1>3, <3>2, <1>1, OutIs, <1>2, <1>5
    <3> QED BY <1>4, <2>2, <3>1, <3>2
  <2>3. \A c \in t.counting : /\ c.n <= t.asked /\ \A e \in t.counting : c.n = e.n => c = e
                              /\ \A i \in DOMAIN t.answers : t.answers[i].n # c.n
    <3>1. ASSUME NEW c \in t.counting PROVE c.n <= t.asked BY <1>1, <1>5, OutIs
    <3> QED BY <1>1, <1>5, <3>1 DEF AsksFit
  <2>4. \A i \in DOMAIN t.answers : t.answers[i].n <= t.asked
    <3>1. ASSUME NEW i \in DOMAIN t.answers PROVE t.answers[i].n <= t.asked
      BY <1>1, <1>5, AnswerAt DEF AsksFit
    <3> QED BY <3>1
  <2> QED BY <2>1, <2>2, <2>3, <2>4 DEF AsksFit, cs
<1>8. ~o => InTurn(t) BY <1>1 DEF Fits, InTurn
<1>9. ASSUME ~o, ~h2 PROVE PathsFit(t) /\ LastIsRight(t)
  <2>1. PathsFit(s) BY <1>9 DEF Fits
  <2>2. \A c \in Outstanding(s) : c.n # t.asked BY <1>1, <1>5
  <2>3. \A c \in Outstanding(s) : c.kind = "list" => c.path = s.path[c.pane] BY <1>9, <2>1 DEF PathsFit
  <2>4. ASSUME NEW c \in Outstanding(s), c.kind = "list", c.pane # p PROVE c.path = t.path[c.pane]
    BY OutIs, <2>3, <2>4
  <2>5. r \in Outstanding(t) /\ r.n = t.asked BY <1>1, <1>2, <1>6
  <2>6. ASSUME NEW c \in Outstanding(t)
        PROVE  /\ c.n = t.asked => c.pane = t.active
               /\ c.kind = "list" /\ c.pane # t.active => c.path = t.path[c.pane]
               /\ (\A e \in Outstanding(t) : ~(e.kind = "list" /\ e.n = t.asked)) =>
                     /\ c.n = t.asked => c.path = t.path[t.active]
                     /\ c.kind = "list" /\ c.pane = t.active => c.path = t.path[c.pane]
    <3>1. CASE c = r BY <1>2, <2>5, <1>1, <3>1
    <3>2. CASE c \in Outstanding(s) BY <2>2, <3>2, <1>1, <2>4, <1>2, <2>5, <2>3
    <3> QED BY <1>6, <3>1, <3>2
  <2>7. PathsFit(t) BY <2>6 DEF PathsFit
  <2>8. \A c \in t.counting \cup ToSet(t.answers) : c.n # t.asked BY <1>1, <2>2, OutIs
  <2>9. LastIsRight(t) BY <2>5, <2>8 DEF LastIsRight
  <2> QED BY <2>7, <2>9
<1> QED BY <1>7, <1>8, <1>9 DEF Fits

(* What the commands are when the first is taken. *)
LEMMA TailAt ==
    ASSUME NEW S, NEW q \in Seq(S), q # << >>
    PROVE  /\ Tail(q) \in Seq(S) /\ DOMAIN Tail(q) = 1..Len(Tail(q)) /\ Len(Tail(q)) \in Nat
           /\ Len(Tail(q)) = Len(q) - 1 /\ DOMAIN q = 1..Len(q) /\ Len(q) \in Nat /\ Len(q) >= 1
           /\ 1 \in DOMAIN q /\ q[1] = Head(q)
           /\ \A i \in DOMAIN Tail(q) : i \in Nat /\ i + 1 \in DOMAIN q /\ Tail(q)[i] = q[i + 1]
<1>1. Len(q) \in Nat \ {0} /\ DOMAIN q = 1..Len(q) /\ q[1] = Head(q) BY EmptySeq
<1>2. Tail(q) \in Seq(S) /\ Len(Tail(q)) = Len(q) - 1 /\ \A i \in 1..Len(Tail(q)) : Tail(q)[i] = q[i + 1]
  BY HeadTailProperties
<1>3. DOMAIN Tail(q) = 1..Len(Tail(q)) /\ Len(Tail(q)) \in Nat BY <1>2, LenProperties
<1> DEFINE r == Tail(q)
<1> HIDE DEF r
<1>4. \A i \in DOMAIN r : i \in Nat /\ i + 1 \in DOMAIN q /\ r[i] = q[i + 1] BY <1>1, <1>2, <1>3 DEF r
<1> QED BY <1>1, <1>2, <1>3, <1>4 DEF r

(* The requests that are left are in order. *)
LEMMA TailAsks ==
    ASSUME NEW s, StateFields(s), AsksFit(s), s.commands # << >>, NEW rest, rest = Tail(s.commands)
    PROVE  /\ rest # << >> => IsAsk(rest[Len(rest)]) /\ rest[Len(rest)].n = s.asked
           /\ rest = << >> => IsAsk(Head(s.commands))
           /\ \A i \in DOMAIN rest : IsAsk(rest[i]) =>
                 /\ rest[i].n <= s.asked
                 /\ IsAsk(Head(s.commands)) => Head(s.commands).n < rest[i].n
                 /\ \A j \in DOMAIN rest : i < j /\ IsAsk(rest[j]) => rest[i].n < rest[j].n
                 /\ \A c \in s.counting \cup ToSet(s.answers) : c.n < rest[i].n
           /\ IsAsk(Head(s.commands)) =>
                 /\ Head(s.commands).n <= s.asked
                 /\ \A c \in s.counting \cup ToSet(s.answers) : c.n < Head(s.commands).n
<1> DEFINE q == s.commands
           n == Len(q)
           m == Len(rest)
<1>1. s.commands \in Seq(Edits \cup Asks) BY DEF StateFields
<1> HIDE DEF n, m
<1>2. /\ DOMAIN rest = 1..m /\ m \in Nat /\ m = n - 1 /\ DOMAIN q = 1..n /\ n \in Nat /\ n >= 1
      /\ 1 \in DOMAIN q /\ q[1] = Head(q)
      /\ \A i \in DOMAIN rest : i \in Nat /\ i + 1 \in DOMAIN q /\ rest[i] = q[i + 1]
  BY <1>1, TailAt DEF n, m
<1>3. IsAsk(q[n]) /\ q[n].n = s.asked BY DEF AsksFit, n
<1>4. rest # << >> => IsAsk(rest[m]) /\ rest[m].n = s.asked
  <2>1. rest # << >> => m # 0 BY <1>1, TailAt, EmptySeq DEF m
  <2>2. m # 0 => m \in DOMAIN rest /\ m + 1 = n BY <1>2
  <2> QED BY <1>2, <1>3, <2>1, <2>2
<1>5. rest = << >> => IsAsk(Head(q))
  <2>1. rest = << >> => m = 0 BY DEF m
  <2>2. m = 0 => n = 1 BY <1>2
  <2> QED BY <1>2, <1>3, <2>1, <2>2
<1>6. ASSUME NEW i \in DOMAIN rest, IsAsk(rest[i])
      PROVE  /\ rest[i].n <= s.asked
             /\ IsAsk(Head(q)) => Head(q).n < rest[i].n
             /\ \A j \in DOMAIN rest : i < j /\ IsAsk(rest[j]) => rest[i].n < rest[j].n
             /\ \A c \in s.counting \cup ToSet(s.answers) : c.n < rest[i].n
  <2>1. i + 1 \in DOMAIN q /\ rest[i] = q[i + 1] /\ IsAsk(q[i + 1]) /\ i \in DOMAIN rest BY <1>2, <1>6
  <2>2. q[i + 1].n <= s.asked /\ \A c \in s.counting \cup ToSet(s.answers) : c.n < q[i + 1].n
    BY <2>1 DEF AsksFit
  <2>3. 1 < i + 1 /\ \A j \in DOMAIN rest : i < j => i + 1 < j + 1 BY <1>2, <2>1
  <2>4. IsAsk(q[1]) => q[1].n < q[i + 1].n BY <1>2, <2>1, <2>3 DEF AsksFit
  <2>5. ASSUME NEW j \in DOMAIN rest, i < j, IsAsk(rest[j]) PROVE rest[i].n < rest[j].n
    BY <1>2, <2>3, <2>5, <2>1 DEF AsksFit
  <2> QED BY <1>2, <2>1, <2>2, <2>4, <2>5
<1>7. IsAsk(Head(q)) => Head(q).n <= s.asked /\ \A c \in s.counting \cup ToSet(s.answers) : c.n < Head(q).n
  BY <1>2 DEF AsksFit
<1> QED BY <1>4, <1>5, <1>6, <1>7 DEF m

(* An edit is taken: requests are behind it. *)
LEMMA TakeEditFits ==
    ASSUME NEW s, NEW t, StateFields(s), StateFields(t), NEW o \in BOOLEAN, NEW h \in BOOLEAN, Fits(s, o, h),
           s.commands # << >>, Head(s.commands) \in Edits, t.commands = Tail(s.commands), t.asked = s.asked,
           t.counting = s.counting, t.answers = s.answers, t.active = s.active, t.path = s.path, t.counts = s.counts
    PROVE  Fits(t, o, h)
<1> DEFINE rest == t.commands
<1>1. AsksFit(s) /\ ~IsAsk(Head(s.commands)) /\ rest = Tail(s.commands) BY KindsOf DEF Fits, IsAsk
<1> HIDE DEF rest
<1>2. /\ rest # << >> => IsAsk(rest[Len(rest)]) /\ rest[Len(rest)].n = s.asked
      /\ rest # << >>
      /\ \A i \in DOMAIN rest : IsAsk(rest[i]) =>
            /\ rest[i].n <= s.asked
            /\ \A j \in DOMAIN rest : i < j /\ IsAsk(rest[j]) => rest[i].n < rest[j].n
            /\ \A c \in s.counting \cup ToSet(s.answers) : c.n < rest[i].n
  BY <1>1, TailAsks
<1>3. AsksFit(t)
  <2>1. \A c \in t.counting : /\ c.n <= t.asked /\ \A e \in t.counting : c.n = e.n => c = e
                              /\ \A i \in DOMAIN t.answers : t.answers[i].n # c.n
    BY <1>1 DEF AsksFit
  <2>2. \A i \in DOMAIN t.answers : t.answers[i].n <= t.asked BY <1>1 DEF AsksFit
  <2>3. \A i \in DOMAIN rest : IsAsk(rest[i]) =>
            /\ rest[i].n <= t.asked
            /\ \A j \in DOMAIN rest : i < j /\ IsAsk(rest[j]) => rest[i].n < rest[j].n
            /\ \A c \in t.counting \cup ToSet(t.answers) : c.n < rest[i].n
    BY <1>2
  <2> QED BY <1>2, <2>1, <2>2, <2>3 DEF AsksFit, rest
<1>4. Outstanding(t) = Outstanding(s)
  <2>1. ToSet(s.commands) = {Head(s.commands)} \cup ToSet(rest) BY <1>1, ToSetOfTail DEF StateFields
  <2>2. /\ Outstanding(s) = {c \in ToSet(s.commands) : IsAsk(c)} \cup s.counting \cup ToSet(s.answers)
        /\ Outstanding(t) = {c \in ToSet(rest) : IsAsk(c)} \cup s.counting \cup ToSet(s.answers)
    BY OutIs DEF rest
  <2> QED BY <1>1, <2>1, <2>2
<1>5. ~o => InTurn(t) BY DEF Fits, InTurn
<1>6. ~o /\ ~h => PathsFit(t) BY <1>4 DEF PathsFit, Fits
<1>7. LastIsRight(t)
  <2>1. Len(rest) \in DOMAIN rest /\ IsAsk(rest[Len(rest)]) /\ rest[Len(rest)].n = t.asked
    BY <1>2, EmptySeq, LenProperties DEF StateFields, rest
  <2>2. \A c \in t.counting \cup ToSet(t.answers) : c.n < t.asked BY <1>2, <2>1
  <2>3. \A c \in t.counting \cup ToSet(t.answers) : c.n # t.asked BY OutIs, <2>2 DEF StateFields
  <2>4. rest[Len(rest)] \in Outstanding(t) BY <2>1, OutIs DEF ToSet, rest
  <2> QED BY <2>1, <2>3, <2>4 DEF LastIsRight
<1> QED BY <1>3, <1>5, <1>6, <1>7 DEF Fits

(* A request is taken: a task has it. *)
LEMMA TakeAskFits ==
    ASSUME NEW s, NEW t, StateFields(s), StateFields(t), NEW o \in BOOLEAN, NEW h \in BOOLEAN, Fits(s, o, h),
           s.commands # << >>, Head(s.commands) \in Asks, t.commands = Tail(s.commands), t.asked = s.asked,
           NEW e \in Counted, e.kind = Head(s.commands).kind, e.pane = Head(s.commands).pane,
           e.path = Head(s.commands).path, e.n = Head(s.commands).n, ~e.counted,
           t.counting = s.counting \cup {e}, t.answers = s.answers, t.active = s.active, t.path = s.path,
           t.db = s.db, t.counts = s.counts
    PROVE  Fits(t, o, h)
<1> DEFINE rest == t.commands
           c == Head(s.commands)
<1>1. AsksFit(s) /\ IsAsk(c) /\ rest = Tail(s.commands) BY KindsOf DEF Fits
<1> HIDE DEF rest
<1>2. /\ rest # << >> => IsAsk(rest[Len(rest)]) /\ rest[Len(rest)].n = s.asked
      /\ \A i \in DOMAIN rest : IsAsk(rest[i]) =>
            /\ rest[i].n <= s.asked /\ c.n < rest[i].n
            /\ \A j \in DOMAIN rest : i < j /\ IsAsk(rest[j]) => rest[i].n < rest[j].n
            /\ \A x \in s.counting \cup ToSet(s.answers) : x.n < rest[i].n
      /\ c.n <= s.asked /\ \A x \in s.counting \cup ToSet(s.answers) : x.n < c.n
  BY <1>1, TailAsks
<1>3. \A x \in s.counting \cup ToSet(s.answers) : x.n # e.n BY OutIs, KindsOf, <1>2
<1>4. AsksFit(t)
  <2>1. \A i \in DOMAIN rest : IsAsk(rest[i]) =>
            /\ rest[i].n <= t.asked
            /\ \A j \in DOMAIN rest : i < j /\ IsAsk(rest[j]) => rest[i].n < rest[j].n
            /\ \A x \in t.counting \cup ToSet(t.answers) : x.n < rest[i].n
    BY <1>2
  <2>2. \A x \in t.counting : /\ x.n <= t.asked /\ \A y \in t.counting : x.n = y.n => x = y
                              /\ \A i \in DOMAIN t.answers : t.answers[i].n # x.n
    BY AnswerAt, <1>1, <1>2, <1>3 DEF AsksFit
  <2>3. \A i \in DOMAIN t.answers : t.answers[i].n <= t.asked BY <1>1 DEF AsksFit
  <2> QED BY <1>2, <2>1, <2>2, <2>3 DEF AsksFit, rest
<1>5. OutCarries(s, t)
  <2>1. ToSet(s.commands) = {c} \cup ToSet(rest) BY <1>1, ToSetOfTail DEF StateFields
  <2>2. /\ Outstanding(s) = {x \in ToSet(s.commands) : IsAsk(x)} \cup s.counting \cup ToSet(s.answers)
        /\ Outstanding(t) = {x \in ToSet(rest) : IsAsk(x)} \cup (s.counting \cup {e}) \cup ToSet(s.answers)
    BY OutIs DEF rest
  <2> QED BY <1>1, <2>1, <2>2 DEF OutCarries
<1>6. ~o => InTurn(t)
  <2>1. ASSUME NEW i \in DOMAIN s.answers PROVE s.answers[i].n < e.n BY AnswerAt, <1>2
  <2>2. InTurn(s) => InTurn(t) BY <2>1 DEF InTurn
  <2> QED BY <2>2 DEF Fits
<1>7. ~o /\ ~h => PathsFit(t) /\ LastIsRight(t) BY <1>5, CarriedPaths, CarriedLast DEF Fits, LastIsRight
<1> QED BY <1>4, <1>6, <1>7 DEF Fits

(* A task has counted. *)
LEMMA CountFits ==
    ASSUME NEW s, NEW t, StateFields(s), StateFields(t), NEW o \in BOOLEAN, NEW h \in BOOLEAN, Fits(s, o, h),
           NEW c \in s.counting, NEW e \in Counted, e.kind = c.kind, e.pane = c.pane, e.path = c.path, e.n = c.n,
           e.counts = TagCounts(s.db, c.path), t.counting = (s.counting \ {c}) \cup {e},
           t.commands = s.commands, t.asked = s.asked, t.answers = s.answers, t.active = s.active,
           t.path = s.path, t.db = s.db, t.counts = s.counts
    PROVE  Fits(t, o, h)
<1>1. AsksFit(s) BY DEF Fits
<1>2. AsksFit(t) BY <1>1 DEF AsksFit
<1>3. OutCarries(s, t) BY OutIs DEF OutCarries
<1>4. ~o => InTurn(t) BY DEF InTurn, Fits
<1>5. ~o /\ ~h => PathsFit(t) /\ LastIsRight(t) BY <1>3, CarriedPaths, CarriedLast DEF Fits, LastIsRight
<1> QED BY <1>2, <1>4, <1>5 DEF Fits

(* What a task tells is behind what was told before. *)
LEMMA ToldAnswers ==
    ASSUME NEW q \in Seq(Counted), NEW c \in Counted, NEW e \in Counted, NEW as, Told(q, c, e, as)
    PROVE  /\ \A i \in DOMAIN as :
                 \/ i \in DOMAIN q /\ as[i] = q[i]
                 \/ as[i] = e /\ \A j \in DOMAIN as : j <= i
                 \/ c.kind = "list" /\ as[i] = c /\ \A j \in DOMAIN as : i < j => as[j] = e
           /\ \A i, j \in DOMAIN as : i < j /\ j \in DOMAIN q => i \in DOMAIN q
           /\ ToSet(as) = ToSet(q) \cup (IF c.kind = "list" THEN {c, e} ELSE {e})
           /\ DOMAIN as \subseteq Nat
<1> DEFINE n == Len(q)
<1>1. DOMAIN q = 1..n /\ n \in Nat BY LenProperties
<1>2. CASE c.kind = "list"
  <2> DEFINE told == <<c, e>>
  <2>1. told \in Seq(Counted) /\ Len(told) = 2 /\ told[1] = c /\ told[2] = e /\ ToSet(told) = {c, e}
    <3>1. told \in Seq(Counted) /\ Len(told) = 2 /\ told[1] = c /\ told[2] = e OBVIOUS
    <3> HIDE DEF told
    <3>2. DOMAIN told = 1..2 BY <3>1, LenProperties
    <3>3. DOMAIN told = {1, 2} BY <3>2
    <3> QED BY <3>1, <3>3 DEF ToSet
  <2>2. as = q \o told BY <1>2 DEF Told
  <2> HIDE DEF told
  <2>3. /\ as \in Seq(Counted) /\ Len(as) = n + Len(told)
        /\ \A i \in 1..(n + Len(told)) : as[i] = IF i <= n THEN q[i] ELSE told[i - n]
    BY <2>1, <2>2, ConcatProperties
  <2>4. DOMAIN as = 1..Len(as) /\ ToSet(as) = ToSet(q) \cup ToSet(told)
    BY <2>1, <2>2, <2>3, LenProperties, ToSetOfConcat
  <2> HIDE DEF n
  <2>5. Len(as) = n + 2 /\ as[n + 1] = c /\ as[n + 2] = e /\ \A i \in 1..n : as[i] = q[i]
    <3>1. n + 1 \in 1..(n + 2) /\ n + 2 \in 1..(n + 2) /\ (n + 1) - n = 1 /\ (n + 2) - n = 2
          /\ ~(n + 1 <= n) /\ ~(n + 2 <= n) /\ \A i \in 1..n : i \in 1..(n + 2) /\ i <= n
      BY <1>1
    <3> QED BY <2>1, <2>3, <3>1
  <2>6. \A i \in 1..(n + 2) : i \in 1..n \/ i = n + 1 \/ i = n + 2 BY <1>1
  <2>7. DOMAIN as = 1..(n + 2) /\ ToSet(as) = ToSet(q) \cup {c, e} BY <2>1, <2>4, <2>5
  <2>8. \A i \in 1..(n + 2) : i <= n + 2 /\ (n + 1 < i => i = n + 2) /\ \A j \in 1..(n + 2) : j < i /\ i \in 1..n => j \in 1..n
    BY <1>1
  <2>9. \A i \in DOMAIN as :
            \/ i \in DOMAIN q /\ as[i] = q[i]
            \/ as[i] = e /\ \A j \in DOMAIN as : j <= i
            \/ c.kind = "list" /\ as[i] = c /\ \A j \in DOMAIN as : i < j => as[j] = e
    <3>1. TAKE i \in DOMAIN as
    <3>2. CASE i \in 1..n BY <1>1, <2>5, <3>2
    <3>3. CASE i = n + 1 BY <2>7, <2>8, <3>3, <2>5, <1>2
    <3>4. CASE i = n + 2 BY <2>7, <2>8, <3>4, <2>5
    <3> QED BY <2>6, <2>7, <3>1, <3>2, <3>3, <3>4
  <2>10. \A i, j \in DOMAIN as : i < j /\ j \in DOMAIN q => i \in DOMAIN q BY <1>1, <2>7, <2>8
  <2>11. DOMAIN as \subseteq Nat BY <1>1, <2>7
  <2> QED BY <1>2, <2>7, <2>9, <2>10, <2>11
<1>3. CASE c.kind = "count"
  <2> DEFINE told == <<e>>
  <2>1. told \in Seq(Counted) /\ Len(told) = 1 /\ told[1] = e /\ ToSet(told) = {e}
    <3>1. told \in Seq(Counted) /\ Len(told) = 1 /\ told[1] = e OBVIOUS
    <3> HIDE DEF told
    <3>2. DOMAIN told = 1..1 BY <3>1, LenProperties
    <3>3. DOMAIN told = {1} BY <3>2
    <3> QED BY <3>1, <3>3 DEF ToSet
  <2>2. as = q \o told BY <1>3 DEF Told
  <2> HIDE DEF told
  <2>3. /\ as \in Seq(Counted) /\ Len(as) = n + Len(told)
        /\ \A i \in 1..(n + Len(told)) : as[i] = IF i <= n THEN q[i] ELSE told[i - n]
    BY <2>1, <2>2, ConcatProperties
  <2>4. DOMAIN as = 1..Len(as) /\ ToSet(as) = ToSet(q) \cup ToSet(told)
    BY <2>1, <2>2, <2>3, LenProperties, ToSetOfConcat
  <2> HIDE DEF n
  <2>5. Len(as) = n + 1 /\ as[n + 1] = e /\ \A i \in 1..n : as[i] = q[i]
    <3>1. n + 1 \in 1..(n + 1) /\ (n + 1) - n = 1
          /\ ~(n + 1 <= n) /\ \A i \in 1..n : i \in 1..(n + 1) /\ i <= n
      BY <1>1
    <3> QED BY <2>1, <2>3, <3>1
  <2>6. \A i \in 1..(n + 1) : i \in 1..n \/ i = n + 1 BY <1>1
  <2>7. DOMAIN as = 1..(n + 1) /\ ToSet(as) = ToSet(q) \cup {e} BY <2>1, <2>4, <2>5
  <2>8. \A i \in 1..(n + 1) : i <= n + 1 /\ \A j \in 1..(n + 1) : j < i /\ i \in 1..n => j \in 1..n
    BY <1>1
  <2>9. \A i \in DOMAIN as :
            \/ i \in DOMAIN q /\ as[i] = q[i]
            \/ as[i] = e /\ \A j \in DOMAIN as : j <= i
    <3>1. TAKE i \in DOMAIN as
    <3>2. CASE i \in 1..n BY <1>1, <2>5, <3>2
    <3>3. CASE i = n + 1 BY <2>7, <2>8, <3>3, <2>5
    <3> QED BY <2>6, <2>7, <3>1, <3>2, <3>3
  <2>10. \A i, j \in DOMAIN as : i < j /\ j \in DOMAIN q => i \in DOMAIN q BY <1>1, <2>7, <2>8
  <2>11. DOMAIN as \subseteq Nat BY <1>1, <2>7
  <2> QED BY <1>3, <2>7, <2>9, <2>10, <2>11
<1> QED BY <1>2, <1>3 DEF Told

(* A task tells what it counted, after those that were asked before it for its pane, or it
   overtakes one. *)
LEMMA TellFits ==
    ASSUME NEW s, NEW t, StateFields(s), StateFields(t), NEW o \in BOOLEAN, NEW h \in BOOLEAN, NEW o2 \in BOOLEAN,
           Fits(s, o, h), NEW c \in s.counting, c.counted, NEW e \in Counted,
           e.kind = "count", e.pane = c.pane, e.path = c.path, e.n = c.n, e.counts = c.counts,
           Told(s.answers, c, e, t.answers), t.counting = s.counting \ {c},
           ~o2 => ~o /\ \A x \in s.counting : x.pane = c.pane => ~(x.n < c.n),
           t.commands = s.commands, t.asked = s.asked, t.active = s.active,
           t.path = s.path, t.db = s.db, t.counts = s.counts
    PROVE  Fits(t, o2, h)
<1> DEFINE q == s.answers
           as == t.answers
<1>1. AsksFit(s) /\ c \in Counted /\ c.n \in Nat BY KindsOf DEF Fits, StateFields
<1>2. /\ \A i \in DOMAIN as :
            \/ i \in DOMAIN q /\ as[i] = q[i]
            \/ as[i] = e /\ \A j \in DOMAIN as : j <= i
            \/ c.kind = "list" /\ as[i] = c /\ \A j \in DOMAIN as : i < j => as[j] = e
      /\ \A i, j \in DOMAIN as : i < j /\ j \in DOMAIN q => i \in DOMAIN q
      /\ ToSet(as) = ToSet(q) \cup (IF c.kind = "list" THEN {c, e} ELSE {e})
      /\ DOMAIN as \subseteq Nat
  <2>1. q \in Seq(Counted) /\ c \in Counted /\ e \in Counted /\ Told(q, c, e, as)
    BY <1>1 DEF StateFields
  <2> HIDE DEF q, as
  <2> QED BY <2>1, ToldAnswers
<1> HIDE DEF as
<1>3. \A x \in s.counting : /\ x.n <= s.asked /\ \A y \in s.counting : x.n = y.n => x = y
                            /\ \A i \in DOMAIN q : q[i].n # x.n
  BY <1>1 DEF AsksFit
<1>4. AsksFit(t)
  <2>1. \A i \in DOMAIN t.commands : IsAsk(t.commands[i]) =>
            /\ t.commands[i].n <= t.asked
            /\ \A j \in DOMAIN t.commands : i < j /\ IsAsk(t.commands[j]) => t.commands[i].n < t.commands[j].n
            /\ \A x \in t.counting \cup ToSet(as) : x.n < t.commands[i].n
    <3>1. \A x \in t.counting \cup ToSet(as) : \E y \in s.counting \cup ToSet(q) : x.n = y.n BY <1>2
    <3>2. \A i \in DOMAIN s.commands : IsAsk(s.commands[i]) =>
              /\ s.commands[i].n <= s.asked
              /\ \A j \in DOMAIN s.commands : i < j /\ IsAsk(s.commands[j]) => s.commands[i].n < s.commands[j].n
              /\ \A x \in s.counting \cup ToSet(q) : x.n < s.commands[i].n
      BY <1>1 DEF AsksFit
    <3> HIDE DEF q
    <3> QED BY <3>1, <3>2, ZenonT(30)
  <2>2. \A x \in t.counting : /\ x.n <= t.asked /\ \A y \in t.counting : x.n = y.n => x = y
                              /\ \A i \in DOMAIN as : as[i].n # x.n
    <3>1. \A i \in DOMAIN as : (i \in DOMAIN q /\ as[i] = q[i]) \/ as[i].n = c.n BY <1>2
    <3>2. \A x \in t.counting : x \in s.counting /\ x # c OBVIOUS
    <3>3. \A x \in t.counting : x.n # c.n BY <1>3, <3>2
    <3> HIDE DEF q
    <3>4. \A x \in t.counting : \A i \in DOMAIN as : as[i].n # x.n
      <4>1. ASSUME NEW x \in t.counting, NEW i \in DOMAIN as PROVE as[i].n # x.n
        <5>1. x.n # c.n /\ \A j \in DOMAIN q : q[j].n # x.n BY <1>3, <3>2, <3>3
        <5>2. (i \in DOMAIN q /\ as[i] = q[i]) \/ as[i].n = c.n BY <3>1
        <5> QED BY <5>1, <5>2
      <4> QED BY <4>1
    <3>5. \A x \in t.counting : x.n <= t.asked /\ \A y \in t.counting : x.n = y.n => x = y BY <1>3, <3>2
    <3> QED BY <3>4, <3>5
  <2>3. \A i \in DOMAIN as : as[i].n <= t.asked
    <3>1. \A i \in DOMAIN as : (i \in DOMAIN q /\ as[i] = q[i]) \/ as[i].n = c.n BY <1>2
    <3>2. \A i \in DOMAIN q : q[i].n <= s.asked BY <1>1 DEF AsksFit
    <3> HIDE DEF q
    <3> QED BY <1>3, <3>1, <3>2
  <2>4. t.commands # << >> => IsAsk(t.commands[Len(t.commands)]) /\ t.commands[Len(t.commands)].n = t.asked
    BY <1>1 DEF AsksFit
  <2> QED BY <2>1, <2>2, <2>3, <2>4 DEF AsksFit, as
<1>5. OutCarries(s, t)
  <2>1. /\ Outstanding(s) = {x \in ToSet(s.commands) : IsAsk(x)} \cup s.counting \cup ToSet(q)
        /\ Outstanding(t) = {x \in ToSet(s.commands) : IsAsk(x)} \cup (s.counting \ {c}) \cup ToSet(as)
    BY OutIs DEF as
  <2>2. c.kind \in {"count", "list"} BY <1>1, KindsOf
  <2> HIDE DEF q
  <2>3. ASSUME NEW x \in Outstanding(t)
        PROVE  \E y \in Outstanding(s) :
                  x.pane = y.pane /\ x.path = y.path /\ x.n = y.n /\ (x.kind = "list" => y.kind = "list")
    BY <1>2, <2>1
  <2>4. ASSUME NEW y \in Outstanding(s)
        PROVE  \E x \in Outstanding(t) : x.n = y.n /\ (y.kind = "list" => x.kind = "list")
    BY <1>2, <2>1, <2>2
  <2> QED BY <2>3, <2>4 DEF OutCarries
<1>6. ~o2 => InTurn(t)
  <2> SUFFICES ASSUME ~o2 PROVE InTurn(t) OBVIOUS
  <2>1. InTurn(s) /\ \A x \in s.counting : x.pane = c.pane => ~(x.n < c.n) BY DEF Fits
  <2>2. ASSUME NEW i \in DOMAIN as, NEW x \in t.counting, x.pane = as[i].pane PROVE as[i].n < x.n
    <3>1. x \in s.counting /\ x # c /\ x.n \in Nat /\ x.n # c.n BY <1>3, KindsOf DEF StateFields
    <3>2. CASE i \in DOMAIN q /\ as[i] = q[i] BY <2>1, <2>2, <3>1, <3>2 DEF InTurn
    <3>3. CASE as[i].n = c.n /\ as[i].pane = c.pane BY <2>1, <2>2, <3>1, <3>3, <1>1
    <3> QED BY <1>2, <3>2, <3>3
  <2>3. ASSUME NEW i \in DOMAIN as, NEW j \in DOMAIN as, i < j, as[i].pane = as[j].pane
        PROVE  \/ as[i].n < as[j].n
               \/ /\ as[i].n = as[j].n /\ as[i].path = as[j].path /\ as[i].kind = "list" /\ as[j].kind = "count"
    <3>1. CASE c.kind = "list" /\ as[i] = c /\ as[j] = e BY <3>1
    <3>2. CASE i \in DOMAIN q /\ as[i] = q[i] /\ j \in DOMAIN q /\ as[j] = q[j]
      BY <2>1, <2>3, <3>2 DEF InTurn
    <3>3. CASE i \in DOMAIN q /\ as[i] = q[i] /\ as[j].n = c.n /\ as[j].pane = c.pane
      <4>1. q[i].n < c.n BY <2>3, <3>3, <2>1 DEF InTurn
      <4> QED BY <3>3, <4>1
    <3>4. ~(j <= i)
      <4>1. i \in Nat /\ j \in Nat BY <1>2
      <4> QED BY <2>3, <4>1
    <3>5. (i \in DOMAIN q /\ as[i] = q[i]) \/ (c.kind = "list" /\ as[i] = c /\ as[j] = e)
      BY <1>2, <2>3, <3>4
    <3>6. (j \in DOMAIN q /\ as[j] = q[j]) \/ (as[j].n = c.n /\ as[j].pane = c.pane) BY <1>2
    <3> QED BY <3>1, <3>2, <3>3, <3>5, <3>6
  <2> QED BY <2>2, <2>3 DEF InTurn, as
<1>7. ~o2 /\ ~h => PathsFit(t) /\ LastIsRight(t)
  <2> SUFFICES ASSUME ~o2, ~h PROVE PathsFit(t) /\ LastIsRight(t) OBVIOUS
  <2>1. PathsFit(s) /\ LastIsRight(s) BY DEF Fits
  <2>2. PathsFit(t) BY <1>5, <2>1, CarriedPaths
  <2>3. (\A x \in Outstanding(t) : x.n # t.asked) =>
            (\A x \in Outstanding(t) : x.pane # t.active) /\ t.counts = TagCounts(t.db, t.path[t.active])
    BY <1>5, <2>1, CarriedLast
  <2>4. \A x \in t.counting : x.counted /\ x.n = t.asked => x.counts = TagCounts(t.db, x.path)
    BY <2>1 DEF LastIsRight
  <2>5. \A x \in ToSet(as) : x.n = t.asked => x.counts = TagCounts(t.db, x.path)
    <3>1. \A x \in ToSet(q) : x.n = s.asked => x.counts = TagCounts(s.db, x.path)
      BY <2>1 DEF LastIsRight
    <3>2. c.n = s.asked => c.counts = TagCounts(s.db, c.path) BY <2>1 DEF LastIsRight
    <3>3. \A x \in ToSet(as) : x \in ToSet(q) \/ x = c \/ x = e BY <1>2
    <3> HIDE DEF q
    <3> QED BY <3>1, <3>2, <3>3
  <2> QED BY <2>2, <2>3, <2>4, <2>5 DEF LastIsRight, as
<1> QED BY <1>4, <1>6, <1>7 DEF Fits

(* A listing that is told is followed by its counts. *)
Listed(q) == \A i \in DOMAIN q : q[i].kind = "list" => \E j \in DOMAIN q : i < j /\ q[j].n = q[i].n

(* It is behind it when it is told. *)
LEMMA TellListed ==
    ASSUME NEW q \in Seq(Counted), NEW c \in Counted, NEW e \in Counted, NEW as, Told(q, c, e, as),
           e.kind = "count", e.n = c.n, Listed(q)
    PROVE  Listed(as)
<1> DEFINE n == Len(q)
           told == IF c.kind = "list" THEN <<c, e>> ELSE <<e>>
           m == Len(told)
<1>1. c.kind \in {"count", "list"} BY KindsOf
<1>2. as = q \o told BY <1>1 DEF Told
<1>3. /\ told \in Seq(Counted) /\ m \in 1..2 /\ told[m] = e
      /\ \A i \in 1..m : i = m \/ (told[i] = c /\ told[i].n = e.n)
  <2>1. CASE c.kind = "list"
    <3>1. told = <<c, e>> BY <2>1
    <3>2. <<c, e>> \in Seq(Counted) /\ Len(<<c, e>>) = 2 /\ <<c, e>>[1] = c /\ <<c, e>>[2] = e OBVIOUS
    <3> HIDE DEF told
    <3>3. m = 2 /\ told \in Seq(Counted) /\ told[1] = c /\ told[2] = e BY <3>1, <3>2
    <3> QED BY <3>3
  <2>2. CASE c.kind # "list"
    <3>1. told = <<e>> BY <2>2
    <3>2. <<e>> \in Seq(Counted) /\ Len(<<e>>) = 1 /\ <<e>>[1] = e OBVIOUS
    <3> HIDE DEF told
    <3>3. m = 1 /\ told \in Seq(Counted) /\ told[1] = e BY <3>1, <3>2
    <3> QED BY <3>3
  <2> QED BY <2>1, <2>2
<1> HIDE DEF told
<1>4. /\ as \in Seq(Counted) /\ Len(as) = n + m
      /\ \A i \in 1..(n + m) : as[i] = IF i <= n THEN q[i] ELSE told[i - n]
  BY <1>2, <1>3, ConcatProperties
<1>5. DOMAIN q = 1..n /\ n \in Nat /\ DOMAIN as = 1..(n + m) BY <1>4, LenProperties
<1> HIDE DEF n, m
<1>6. ASSUME NEW i \in DOMAIN as, as[i].kind = "list" PROVE \E j \in DOMAIN as : i < j /\ as[j].n = as[i].n
  <2>0. i \in 1..(n + m) /\ (i <= n => i \in 1..n) /\ (~(i <= n) => i - n \in 1..m)
        /\ \A j \in 1..n : j \in 1..(n + m) /\ j <= n
    BY <1>3, <1>5
  <2>1. CASE i <= n BY <1>4, <1>5, <2>0, <2>1, <1>6 DEF Listed
  <2>2. CASE ~(i <= n)
    <3>1. i - n \in 1..m /\ as[i] = told[i - n] BY <1>4, <2>0, <2>2
    <3>2. i - n # m /\ told[i - n].n = e.n BY <1>3, <1>6, <3>1
    <3>3. i < n + m /\ n + m \in DOMAIN as /\ ~(n + m <= n) /\ (n + m) - n = m BY <1>3, <1>5, <3>1, <3>2
    <3>4. as[n + m] = e BY <1>3, <1>4, <1>5, <3>3
    <3> QED BY <3>1, <3>2, <3>3, <3>4
  <2> QED BY <2>1, <2>2
<1> QED BY <1>6 DEF Listed

(* It still is when an answer before is handled, and it is left when the listing is. *)
LEMMA TailListed ==
    ASSUME NEW q \in Seq(Counted), q # << >>, Listed(q)
    PROVE  Listed(Tail(q)) /\ (Head(q).kind = "list" => \E x \in ToSet(Tail(q)) : x.n = Head(q).n)
<1> DEFINE r == Tail(q)
<1>1. /\ DOMAIN r = 1..Len(r) /\ Len(r) \in Nat /\ Len(r) = Len(q) - 1 /\ DOMAIN q = 1..Len(q) /\ Len(q) \in Nat
      /\ 1 \in DOMAIN q /\ q[1] = Head(q)
      /\ \A i \in DOMAIN r : i \in Nat /\ i + 1 \in DOMAIN q /\ r[i] = q[i + 1]
  BY TailAt
<1> HIDE DEF r
<1>2. \A j \in DOMAIN q : 1 < j => j - 1 \in DOMAIN r /\ r[j - 1] = q[j] BY <1>1
<1>3. ASSUME NEW i \in DOMAIN r, r[i].kind = "list" PROVE \E j \in DOMAIN r : i < j /\ r[j].n = r[i].n
  <2>1. PICK j \in DOMAIN q : i + 1 < j /\ q[j].n = q[i + 1].n BY <1>1, <1>3 DEF Listed
  <2>2. 1 < j /\ i < j - 1 BY <1>1, <2>1
  <2> QED BY <1>1, <1>2, <2>1, <2>2
<1>4. ASSUME Head(q).kind = "list" PROVE \E x \in ToSet(r) : x.n = Head(q).n
  <2>1. PICK j \in DOMAIN q : 1 < j /\ q[j].n = q[1].n BY <1>1, <1>4 DEF Listed
  <2> QED BY <1>1, <1>2, <2>1 DEF ToSet
<1> QED BY <1>3, <1>4 DEF Listed, r

(* What is outstanding behind an answer was asked later, or is its counts. *)
LEMMA BehindAnswer ==
    ASSUME NEW s, NEW t, StateFields(s), StateFields(t), s.answers # << >>, t.answers = Tail(s.answers),
           t.commands = s.commands, t.counting = s.counting, AsksFit(s)
    PROVE  LET a == Head(s.answers)
           IN  /\ a \in Counted /\ a \in Outstanding(s) /\ a.n <= s.asked /\ a \in ToSet(s.answers)
               /\ Outstanding(s) = Outstanding(t) \cup {a}
               /\ InTurn(s) => \A x \in Outstanding(t) : x.pane = a.pane =>
                     \/ a.n < x.n
                     \/ a.n = x.n /\ a.path = x.path /\ a.kind = "list" /\ x.kind = "count"
<1> DEFINE a == Head(s.answers)
           q == s.answers
           r == Tail(q)
<1>1. /\ DOMAIN r = 1..Len(r) /\ Len(r) \in Nat /\ DOMAIN q = 1..Len(q)
      /\ 1 \in DOMAIN q /\ q[1] = a
      /\ \A i \in DOMAIN r : i \in Nat /\ i + 1 \in DOMAIN q /\ r[i] = q[i + 1]
  BY TailAt DEF StateFields
<1>2. a \in ToSet(q) /\ ToSet(q) = {a} \cup ToSet(r) /\ ToSet(q) \subseteq Counted
  BY ToSetOfTail, ToSetOfSeq DEF StateFields
<1>3. /\ Outstanding(s) = {x \in ToSet(s.commands) : IsAsk(x)} \cup s.counting \cup ToSet(q)
      /\ Outstanding(t) = {x \in ToSet(s.commands) : IsAsk(x)} \cup s.counting \cup ToSet(r)
  BY OutIs
<1> HIDE DEF a, r
<1>4. Outstanding(s) = Outstanding(t) \cup {a} /\ a \in Outstanding(s) /\ a \in Counted BY <1>2, <1>3
<1>5. a.n <= s.asked BY <1>4, OutNumbers
<1>6. ASSUME InTurn(s), NEW x \in Outstanding(t), x.pane = a.pane
      PROVE  \/ a.n < x.n
             \/ a.n = x.n /\ a.path = x.path /\ a.kind = "list" /\ x.kind = "count"
  <2>1. CASE x \in ToSet(s.commands) /\ IsAsk(x) BY <2>1, <1>2 DEF ToSet, AsksFit
  <2>2. CASE x \in s.counting BY <1>1, <1>6, <2>2 DEF InTurn
  <2>3. CASE x \in ToSet(r)
    <3>1. PICK i \in DOMAIN r : x = r[i] BY <2>3 DEF ToSet
    <3>2. i + 1 \in DOMAIN s.answers /\ x = s.answers[i + 1] /\ 1 < i + 1 /\ s.answers[1] = a /\ 1 \in DOMAIN s.answers
      BY <1>1, <3>1
    <3> QED BY <1>6, <3>2 DEF InTurn
  <2> QED BY <1>3, <2>1, <2>2, <2>3
<1> QED BY <1>2, <1>4, <1>5, <1>6 DEF a

(* Requests stay in order when an answer is handled. *)
LEMMA AnswerAsks ==
    ASSUME NEW s, NEW t, StateFields(s), StateFields(t), s.answers # << >>, t.answers = Tail(s.answers),
           t.commands = s.commands, t.counting = s.counting, t.asked = s.asked
    PROVE  (AsksFit(s) => AsksFit(t)) /\ (InTurn(s) => InTurn(t))
<1> DEFINE q == s.answers
           r == t.answers
<1>1. /\ \A i \in DOMAIN r : i \in Nat /\ i + 1 \in DOMAIN q /\ r[i] = q[i + 1]
      /\ ToSet(r) \subseteq ToSet(q)
  BY TailAt, ToSetOfTail DEF StateFields
<1>2. \A i, j \in DOMAIN r : i < j => i + 1 < j + 1 BY <1>1
<1>3. ASSUME AsksFit(s) PROVE AsksFit(t) BY <1>1, <1>3 DEF AsksFit
<1>4. ASSUME InTurn(s) PROVE InTurn(t)
  <2>1. \A i \in DOMAIN r : \A c \in t.counting : c.pane = r[i].pane => r[i].n < c.n
    BY <1>1, <1>4 DEF InTurn
  <2>2. ASSUME NEW i \in DOMAIN r, NEW j \in DOMAIN r, i < j, r[i].pane = r[j].pane
        PROVE  \/ r[i].n < r[j].n
               \/ /\ r[i].n = r[j].n /\ r[i].path = r[j].path /\ r[i].kind = "list" /\ r[j].kind = "count"
    BY <1>1, <1>2, <2>2, <1>4 DEF InTurn
  <2> QED BY <2>1, <2>2 DEF InTurn
<1> QED BY <1>3, <1>4

(* Nothing that was asked for the pane of the answer to the last request is outstanding behind
   it, but its counts. *)
LEMMA LastAnswer ==
    ASSUME NEW s, NEW t, StateFields(s), StateFields(t), s.answers # << >>, t.answers = Tail(s.answers),
           t.commands = s.commands, t.counting = s.counting, AsksFit(s), InTurn(s), Head(s.answers).n = s.asked
    PROVE  \A x \in Outstanding(t) : x.pane = Head(s.answers).pane =>
              x.n = s.asked /\ x.path = Head(s.answers).path /\ Head(s.answers).kind = "list" /\ x.kind = "count"
<1> SUFFICES ASSUME NEW x \in Outstanding(t), x.pane = Head(s.answers).pane
             PROVE  x.n = s.asked /\ x.path = Head(s.answers).path /\ Head(s.answers).kind = "list" /\ x.kind = "count"
  OBVIOUS
<1> DEFINE a == Head(s.answers)
<1>1. /\ Outstanding(s) = Outstanding(t) \cup {a}
      /\ a.n < x.n \/ (a.n = x.n /\ a.path = x.path /\ a.kind = "list" /\ x.kind = "count")
  <2> HIDE DEF a
  <2>1. /\ Outstanding(s) = Outstanding(t) \cup {a}
        /\ InTurn(s) => \A y \in Outstanding(t) : y.pane = a.pane =>
               a.n < y.n \/ (a.n = y.n /\ a.path = y.path /\ a.kind = "list" /\ y.kind = "count")
    BY BehindAnswer DEF a
  <2>2. x.pane = a.pane BY DEF a
  <2> QED BY <2>1, <2>2
<1>2. x.n <= s.asked /\ x.n \in Nat /\ s.asked \in Nat BY <1>1, OutNumbers, OutIs DEF StateFields
<1>3. ~(a.n < x.n) BY <1>2
<1> QED BY <1>1, <1>3

(* A listing makes its folder the pane's, which is where the later requests are for. *)
LEMMA AnswerPaths ==
    ASSUME NEW s, NEW t, StateFields(s), StateFields(t), s.answers # << >>, t.answers = Tail(s.answers),
           t.commands = s.commands, t.counting = s.counting, t.asked = s.asked, t.active = s.active,
           AsksFit(s), InTurn(s), PathsFit(s),
           Head(s.answers).kind = "list" => t.path = [s.path EXCEPT ![Head(s.answers).pane] = Head(s.answers).path],
           Head(s.answers).kind = "count" => t.path = s.path
    PROVE  PathsFit(t)
<1> DEFINE a == Head(s.answers)
<1>1. /\ a \in Counted /\ a \in Outstanding(s) /\ a.n <= s.asked
      /\ Outstanding(s) = Outstanding(t) \cup {a}
  BY BehindAnswer
<1>2. a.kind \in {"count", "list"} /\ a.pane \in Sides /\ s.path \in [Sides -> TagFolders] /\ s.active \in Sides
      /\ \A x \in Outstanding(t) : x.pane \in Sides
  BY <1>1, KindsOf, OutIs DEF StateFields
<1>3. a.n = s.asked => \A x \in Outstanding(t) : x.pane = a.pane =>
              x.n = s.asked /\ x.path = a.path /\ a.kind = "list" /\ x.kind = "count"
  BY LastAnswer
<1>4. a.kind = "list" => t.path = [s.path EXCEPT ![a.pane] = a.path] OBVIOUS
<1>5. a.kind = "count" => t.path = s.path OBVIOUS
<1> HIDE DEF a
<1>6. a.kind = "list" => t.path[a.pane] = a.path /\ \A p \in Sides : p # a.pane => t.path[p] = s.path[p]
  BY <1>2, <1>4
<1>7. ASSUME NEW x \in Outstanding(t)
      PROVE  /\ x.n = t.asked => x.pane = t.active
             /\ x.kind = "list" /\ x.pane # t.active => x.path = t.path[x.pane]
  <2>1. x \in Outstanding(s) BY <1>1
  <2>2. x.n = s.asked => x.pane = s.active BY <2>1 DEF PathsFit
  <2>3. \A p \in Sides : p # s.active => t.path[p] = s.path[p] BY <1>1, <1>2, <1>5, <1>6 DEF PathsFit
  <2>4. x.kind = "list" /\ x.pane # s.active => x.path = s.path[x.pane] BY <2>1 DEF PathsFit
  <2> QED BY <1>2, <2>2, <2>3, <2>4
<1>8. ASSUME \A e \in Outstanding(t) : ~(e.kind = "list" /\ e.n = t.asked), NEW x \in Outstanding(t)
      PROVE  /\ x.n = t.asked => x.path = t.path[t.active]
             /\ x.kind = "list" /\ x.pane = t.active => x.path = t.path[x.pane]
  <2>0. x \in Outstanding(s) /\ (x.n = t.asked => x.pane = s.active) BY <1>1, <1>7
  <2>1. CASE a.kind = "list" /\ a.n = s.asked BY <1>1, <2>1, <1>6, <1>3, <2>0 DEF PathsFit
  <2>2. CASE ~(a.kind = "list" /\ a.n = s.asked)
    BY <1>1, <1>8, <2>2, <1>2, <1>5, <1>6, <2>0 DEF PathsFit
  <2> QED BY <2>1, <2>2
<1> QED BY <1>7, <1>8 DEF PathsFit

(* The last counts are those of the folder of the active pane. *)
LEMMA AnswerLast ==
    ASSUME NEW s, NEW t, StateFields(s), StateFields(t), s.answers # << >>, t.answers = Tail(s.answers),
           t.commands = s.commands, t.counting = s.counting, t.asked = s.asked, t.active = s.active, t.db = s.db,
           AsksFit(s), InTurn(s), PathsFit(s), LastIsRight(s), Listed(s.answers),
           Head(s.answers).kind = "list" =>
              t.counts = s.counts /\ t.path = [s.path EXCEPT ![Head(s.answers).pane] = Head(s.answers).path],
           Head(s.answers).kind = "count" =>
              t.path = s.path /\ t.counts = IF Head(s.answers).pane = s.active THEN Head(s.answers).counts ELSE s.counts
    PROVE  LastIsRight(t)
<1> DEFINE a == Head(s.answers)
<1>1. /\ a \in Counted /\ a \in Outstanding(s) /\ a.n <= s.asked /\ a \in ToSet(s.answers)
      /\ Outstanding(s) = Outstanding(t) \cup {a}
  BY BehindAnswer
<1>2. a.kind \in {"count", "list"} /\ a.pane \in Sides /\ s.path \in [Sides -> TagFolders] /\ s.active \in Sides
  BY <1>1, KindsOf DEF StateFields
<1>3. a.n = s.asked => \A x \in Outstanding(t) : x.pane = a.pane =>
              x.n = s.asked /\ x.path = a.path /\ a.kind = "list" /\ x.kind = "count"
  BY LastAnswer
<1>4. a.kind = "list" => t.counts = s.counts /\ t.path = [s.path EXCEPT ![a.pane] = a.path] OBVIOUS
<1>5. a.kind = "count" => t.path = s.path /\ t.counts = IF a.pane = s.active THEN a.counts ELSE s.counts
  OBVIOUS
<1>6. ToSet(t.answers) \subseteq ToSet(s.answers) /\ ToSet(t.answers) \subseteq Outstanding(t)
  <2>1. ToSet(Tail(s.answers)) \subseteq ToSet(s.answers) BY ToSetOfTail DEF StateFields
  <2>2. ToSet(t.answers) \subseteq Outstanding(t) BY OutIs
  <2> QED BY <2>1, <2>2
<1>7. a.kind = "list" => \E x \in ToSet(t.answers) : x.n = a.n BY TailListed DEF StateFields
<1> HIDE DEF a
<1>8. \A c \in t.counting : c.counted /\ c.n = t.asked => c.counts = TagCounts(t.db, c.path)
  BY DEF LastIsRight
<1>9. \A c \in ToSet(t.answers) : c.n = t.asked => c.counts = TagCounts(t.db, c.path)
  BY <1>6 DEF LastIsRight
<1>10. ASSUME \A c \in Outstanding(t) : c.n # t.asked
       PROVE  (\A c \in Outstanding(t) : c.pane # t.active) /\ t.counts = TagCounts(t.db, t.path[t.active])
  <2>1. CASE a.n = s.asked
    <3>1. a.kind = "count" BY <1>2, <1>6, <1>7, <1>10, <2>1
    <3>2. a.pane = s.active BY <1>1, <2>1 DEF PathsFit
    <3>3. \A e \in Outstanding(s) : ~(e.kind = "list" /\ e.n = s.asked) BY <1>1, <1>10, <3>1
    <3>4. a.path = s.path[s.active] BY <1>1, <2>1, <3>3 DEF PathsFit
    <3>5. a.counts = TagCounts(s.db, a.path) BY <1>1, <2>1 DEF LastIsRight
    <3>6. \A c \in Outstanding(t) : c.pane # t.active BY <1>3, <2>1, <3>1, <3>2
    <3> QED BY <1>5, <3>1, <3>2, <3>4, <3>5, <3>6
  <2>2. CASE a.n # s.asked BY <1>1, <1>10, <2>2, <1>2, <1>4, <1>5 DEF LastIsRight
  <2> QED BY <2>1, <2>2
<1> QED BY <1>8, <1>9, <1>10 DEF LastIsRight

(* An answer is handled. *)
LEMMA AnswerFits ==
    ASSUME NEW s, NEW t, StateFields(s), StateFields(t), s.answers # << >>, t.answers = Tail(s.answers),
           t.commands = s.commands, t.counting = s.counting, t.asked = s.asked, t.active = s.active, t.db = s.db,
           NEW o \in BOOLEAN, NEW h \in BOOLEAN, Fits(s, o, h), Listed(s.answers),
           Head(s.answers).kind = "list" =>
              t.counts = s.counts /\ t.path = [s.path EXCEPT ![Head(s.answers).pane] = Head(s.answers).path],
           Head(s.answers).kind = "count" =>
              t.path = s.path /\ t.counts = IF Head(s.answers).pane = s.active THEN Head(s.answers).counts ELSE s.counts
    PROVE  Fits(t, o, h)
BY AnswerAsks, AnswerPaths, AnswerLast DEF Fits

(* The first request of a window. *)
LEMMA LaunchFits ==
    ASSUME NEW t, StateFields(t), t.counting = {}, t.answers = << >>, t.active = 1, t.asked = 1,
           t.commands = <<[kind |-> "list", pane |-> 1, path |-> Home, n |-> 1]>>,
           NEW o \in BOOLEAN, NEW h \in BOOLEAN
    PROVE  Fits(t, o, h)
<1> DEFINE r == [kind |-> "list", pane |-> 1, path |-> Home, n |-> 1]
           cs == <<r>>
<1>1. r \in Asks /\ IsAsk(r) /\ r.n = 1 /\ r.kind = "list" /\ r.pane = 1
  BY TagAssumption DEF Asks, IsAsk, TagFolders, Sides
<1>2. Len(cs) = 1 /\ DOMAIN cs = {1} /\ cs[1] = r OBVIOUS
<1>3. t.commands = cs OBVIOUS
<1> HIDE DEF r, cs
<1>4. DOMAIN t.answers = {} /\ ToSet(t.answers) = {} /\ ToSet(t.commands) = {r} BY <1>2, <1>3 DEF ToSet
<1>5. Outstanding(t) = {r} BY <1>1, <1>4, OutIs
<1>6. AsksFit(t) BY <1>1, <1>2, <1>3, <1>4 DEF AsksFit
<1>7. InTurn(t) BY <1>4 DEF InTurn
<1>8. PathsFit(t) BY <1>1, <1>5 DEF PathsFit
<1>9. LastIsRight(t) BY <1>1, <1>4, <1>5 DEF LastIsRight
<1> QED BY <1>6, <1>7, <1>8, <1>9 DEF Fits

-------------------------------------------------------------------------------
(* What is counted fits what was asked for, whatever is done. *)

(* What is counted fits, in each window that runs. *)
FitAt(s) == s.on => Fits(s, tagging.overtaken, tagging.hurried) /\ Listed(s.answers)
CountsStayFit == \A w \in TagWindows : FitAt(tagWin[w])

(* The other windows fit as long as the history only grows. *)
LEMMA OthersFit ==
    ASSUME TagTypes, CountsStayFit, NEW w \in TagWindows, NEW t, Becomes(w, t),
           tagging.overtaken => tagging'.overtaken, tagging.hurried => tagging'.hurried,
           t.on => Fits(t, tagging'.overtaken, tagging'.hurried) /\ Listed(t.answers)
    PROVE  CountsStayFit'
<1>1. tagging.overtaken \in BOOLEAN /\ tagging.hurried \in BOOLEAN BY DEF TagTypes, Taggings
<1>2. tagging'.overtaken \in BOOLEAN /\ tagging'.hurried \in BOOLEAN BY DEF Becomes, TagTypes, Taggings
<1>3. ASSUME NEW v \in TagWindows PROVE FitAt(tagWin[v])'
  <2>1. CASE v = w BY <2>1 DEF Becomes, FitAt
  <2>2. CASE v # w BY <2>2, <1>1, <1>2, FitsStay DEF Becomes, CountsStayFit, FitAt
  <2> QED BY <2>1, <2>2
<1> QED BY <1>3 DEF CountsStayFit

(* A window that asks for nothing stays as fit as it was. *)
LEMMA NoneAskedStayFit ==
    ASSUME TagTypes, CountsStayFit, NEW w \in TagWindows, NEW t, Becomes(w, t), NoneAsked(tagWin[w], t),
           OvertakenAsBefore, HurriedAsBefore
    PROVE  CountsStayFit'
BY NoneAskedFits, OthersFit DEF TagTypes, Taggings, OvertakenAsBefore, HurriedAsBefore, CountsStayFit,
  NoneAsked, FitAt

(* Who does not hurry goes on when the folder is listed. *)
LEMMA HurriedIs ==
    ASSUME TagTypes, NEW w \in TagWindows,
           tagging'.hurried = (tagging.hurried \/ Unlisted(w, tagWin[w].active)), MostAsBefore
    PROVE  /\ tagging.hurried => tagging'.hurried
           /\ tagging.overtaken \in BOOLEAN /\ tagging.hurried \in BOOLEAN /\ tagging'.hurried \in BOOLEAN
           /\ tagging'.overtaken = tagging.overtaken
           /\ ~tagging'.hurried =>
                /\ ~tagging.hurried
                /\ \A c \in Outstanding(tagWin[w]) :
                      c.kind = "list" /\ c.pane = tagWin[w].active => c.path = tagWin[w].path[tagWin[w].active]
BY DEF TagTypes, Taggings, Unlisted, MostAsBefore, OvertakenAsBefore

(* A step that asks for one more. *)
LEMMA AskedStayFit ==
    ASSUME TagTypes, CountsStayFit, NEW w \in TagWindows, NEW t, Becomes(w, t), tagWin[w].on,
           NEW es \in Seq(Edits), NEW k \in {"count", "list"}, NEW p \in Sides, NEW d \in TagFolders,
           Asked(tagWin[w], t, es, k, p, d),
           k = "list" => p = tagWin[w].active /\ \A q \in Sides : q # p => t.path[q] = tagWin[w].path[q],
           k = "count" => t.path = tagWin[w].path /\ d = tagWin[w].path[p],
           tagging'.hurried = (tagging.hurried \/ Unlisted(w, tagWin[w].active)), MostAsBefore
    PROVE  CountsStayFit'
<1> DEFINE s == tagWin[w]
           o == tagging.overtaken
           h == tagging.hurried
           h2 == tagging'.hurried
<1>1. /\ h => h2
      /\ o \in BOOLEAN /\ h \in BOOLEAN /\ h2 \in BOOLEAN
      /\ tagging'.overtaken = o
      /\ ~h2 => /\ ~h
                /\ \A c \in Outstanding(s) : c.kind = "list" /\ c.pane = s.active => c.path = s.path[s.active]
  BY HurriedIs
<1>2. Fits(s, o, h) /\ Listed(s.answers) BY DEF CountsStayFit, FitAt
<1>3. StateFields(s) /\ StateFields(t) BY OfTypes, FieldsOf DEF Becomes
<1>4. t.on /\ t.answers = s.answers BY DEF Asked
<1>5. Fits(t, o, h2)
  <2> HIDE DEF s, o, h, h2
  <2>1. /\ Asked(s, t, es, k, p, d)
        /\ k = "list" => p = s.active /\ \A q \in Sides : q # p => t.path[q] = s.path[q]
        /\ k = "count" => t.path = s.path /\ d = s.path[p]
    BY DEF s
  <2> QED BY <1>1, <1>2, <1>3, <2>1, AskedFits
<1> QED BY <1>1, <1>2, <1>4, <1>5, OthersFit

(* Each step leaves what is counted fit: a window starts, *)
LEMMA LaunchStaysFit ==
    ASSUME TagTypes, CountsStayFit, NEW w \in TagWindows, LaunchTags(w) PROVE CountsStayFit'
<1>1. PICK t : /\ Becomes(w, t) /\ t.counting = {} /\ t.answers = << >>
               /\ t.commands = <<[kind |-> "list", pane |-> 1, path |-> Home, n |-> 1]>>
               /\ t.active = 1 /\ t.asked = 1 /\ HurriedAsBefore /\ OvertakenAsBefore
  BY LaunchShape
<1>2. StateFields(t) BY <1>1, FieldsOf DEF Becomes
<1>3. tagging'.overtaken \in BOOLEAN /\ tagging'.hurried \in BOOLEAN
  BY <1>1 DEF Becomes, TagTypes, Taggings
<1>4. Fits(t, tagging'.overtaken, tagging'.hurried) BY <1>1, <1>2, <1>3, LaunchFits
<1>5. Listed(t.answers) BY <1>1 DEF Listed
<1>6. (tagging.overtaken => tagging'.overtaken) /\ (tagging.hurried => tagging'.hurried)
  BY <1>1 DEF HurriedAsBefore, OvertakenAsBefore
<1> QED BY <1>1, <1>4, <1>5, <1>6, OthersFit

(* or ends, *)
LEMMA QuitStaysFit ==
    ASSUME TagTypes, CountsStayFit, NEW w \in TagWindows, QuitTags(w) PROVE CountsStayFit'
BY QuitShape, ClosedIsOff, OthersFit DEF HurriedAsBefore, OvertakenAsBefore

(* goes to a folder, *)
LEMMA GoStaysFit ==
    ASSUME TagTypes, CountsStayFit, NEW w \in TagWindows, NEW d \in TagFolders, Go(w, d) PROVE CountsStayFit'
<1>1. PICK t : /\ Becomes(w, t) /\ tagWin[w].on
               /\ Asked(tagWin[w], t, << >>, "list", tagWin[w].active, d)
               /\ \A q \in Sides : q # tagWin[w].active => t.path[q] = tagWin[w].path[q]
               /\ MostAsBefore
               /\ tagging'.hurried = (tagging.hurried \/ Unlisted(w, tagWin[w].active))
  BY GoShape
<1>2. << >> \in Seq(Edits) /\ tagWin[w].active \in Sides BY OfTypes
<1> QED BY <1>1, <1>2, AskedStayFit

(* switches panes, *)
LEMMA SwitchStaysFit ==
    ASSUME TagTypes, CountsStayFit, NEW w \in TagWindows, SetActiveSide(w) PROVE CountsStayFit'
<1>1. PICK t, p : /\ Becomes(w, t) /\ tagWin[w].on
                  /\ p \in Sides /\ t.path = tagWin[w].path
                  /\ Asked(tagWin[w], t, << >>, "count", p, tagWin[w].path[p])
                  /\ MostAsBefore
                  /\ tagging'.hurried = (tagging.hurried \/ Unlisted(w, tagWin[w].active))
  BY SwitchShape
<1>2. << >> \in Seq(Edits) /\ tagWin[w].path[p] \in TagFolders BY <1>1, OfTypes
<1> QED BY <1>1, <1>2, AskedStayFit

(* opens its menu, *)
LEMMA OpenMenuStaysFit ==
    ASSUME TagTypes, CountsStayFit, NEW w \in TagWindows, NEW selection \in SUBSET TaggedFiles,
           OpenTagMenu(w, selection)
    PROVE  CountsStayFit'
BY OpenMenuShape, HurriedIs, NoneAskedFits, FitsStay, OthersFit DEF CountsStayFit, NoneAsked, FitAt

(* or closes it, *)
LEMMA CloseMenuStaysFit ==
    ASSUME TagTypes, CountsStayFit, NEW w \in TagWindows, CloseTagMenu(w) PROVE CountsStayFit'
BY CloseMenuShape, NoneAskedStayFit DEF OvertakenAsBefore, HurriedAsBefore

(* toggles a tag, *)
LEMMA ToggleStaysFit ==
    ASSUME TagTypes, CountsStayFit, NEW w \in TagWindows, NEW tag \in RuleNames, ToggleTag(w, tag)
    PROVE  CountsStayFit'
<1>1. PICK t, remove :
              /\ Becomes(w, t) /\ tagWin[w].on /\ remove \in BOOLEAN
              /\ t.path = tagWin[w].path
              /\ \/ tagWin[w].selected = {} /\ NoneAsked(tagWin[w], t)
                 \/ Asked(tagWin[w], t, EditsOf(tagWin[w].selected, remove, tag), "count", tagWin[w].active,
                          tagWin[w].path[tagWin[w].active])
              /\ MostAsBefore
              /\ tagging'.hurried = (tagging.hurried \/ Unlisted(w, tagWin[w].active))
  BY ToggleShape
<1>2. CASE NoneAsked(tagWin[w], t)
  <2>2. /\ tagging.hurried => tagging'.hurried
        /\ tagging.overtaken \in BOOLEAN /\ tagging.hurried \in BOOLEAN /\ tagging'.hurried \in BOOLEAN
        /\ tagging'.overtaken = tagging.overtaken
    BY <1>1, HurriedIs
  <2>3. FitAt(tagWin[w]) /\ t.on = tagWin[w].on /\ t.answers = tagWin[w].answers
    BY <1>2 DEF CountsStayFit, NoneAsked
  <2>4. t.on => Fits(t, tagging.overtaken, tagging.hurried) /\ Listed(t.answers)
    BY <1>2, <2>2, <2>3, NoneAskedFits DEF FitAt
  <2>5. t.on => Fits(t, tagging'.overtaken, tagging'.hurried) /\ Listed(t.answers)
    BY <2>2, <2>4, FitsStay
  <2> QED BY <1>1, <2>2, <2>5, OthersFit
<1>3. CASE Asked(tagWin[w], t, EditsOf(tagWin[w].selected, remove, tag), "count", tagWin[w].active,
                 tagWin[w].path[tagWin[w].active])
  <2>1. EditsOf(tagWin[w].selected, remove, tag) \in Seq(Edits) BY OfTypes, <1>1, EditsFacts
  <2>2. tagWin[w].active \in Sides /\ tagWin[w].path[tagWin[w].active] \in TagFolders BY OfTypes
  <2> DEFINE es == EditsOf(tagWin[w].selected, remove, tag)
             p == tagWin[w].active
             d == tagWin[w].path[p]
  <2>3. es \in Seq(Edits) /\ p \in Sides /\ d \in TagFolders /\ Asked(tagWin[w], t, es, "count", p, d)
        /\ t.path = tagWin[w].path /\ d = tagWin[w].path[p]
    BY <1>1, <1>3, <2>1, <2>2
  <2> HIDE DEF es, p, d
  <2> QED BY <1>1, <2>3, AskedStayFit
<1> QED BY <1>1, <1>2, <1>3

(* handles an answer, *)
LEMMA AnswerStaysFit ==
    ASSUME TagTypes, CountsStayFit, NEW w \in TagWindows, HandleTagAnswer(w) PROVE CountsStayFit'
<1> DEFINE s == tagWin[w]
           a == Head(s.answers)
<1>1. PICK t : /\ Becomes(w, t) /\ tagging' = tagging /\ s.answers # << >> /\ s.on
               /\ t.commands = s.commands /\ t.asked = s.asked /\ t.on = s.on /\ t.db = s.db
               /\ t.counting = s.counting /\ t.answers = Tail(s.answers) /\ t.active = s.active
               /\ a.kind = "list" => t.counts = s.counts /\ t.path = [s.path EXCEPT ![a.pane] = a.path]
               /\ a.kind = "count" =>
                     t.path = s.path /\ t.counts = IF a.pane = s.active THEN a.counts ELSE s.counts
  BY AnswerShape
<1>2. Fits(s, tagging.overtaken, tagging.hurried) /\ Listed(s.answers) BY <1>1 DEF CountsStayFit, FitAt
<1>3. StateFields(s) /\ StateFields(t) BY <1>1, OfTypes, FieldsOf DEF Becomes
<1>4. tagging.overtaken \in BOOLEAN /\ tagging.hurried \in BOOLEAN BY DEF TagTypes, Taggings
<1>5. Fits(t, tagging.overtaken, tagging.hurried)
  <2> HIDE DEF s
  <2> QED BY <1>1, <1>2, <1>3, <1>4, AnswerFits
<1>6. Listed(t.answers) BY <1>1, <1>2, <1>3, TailListed DEF StateFields
<1> QED BY <1>1, <1>5, <1>6, OthersFit

(* its command loop takes a command, *)
LEMMA TakeStaysFit ==
    ASSUME TagTypes, CountsStayFit, NEW w \in TagWindows, TakeTagCommand(w) PROVE CountsStayFit'
<1> DEFINE s == tagWin[w]
           c == Head(s.commands)
<1>1. tagging.overtaken \in BOOLEAN /\ tagging.hurried \in BOOLEAN BY DEF TagTypes, Taggings
<1>2. s.on => Fits(s, tagging.overtaken, tagging.hurried) /\ Listed(s.answers)
  BY DEF CountsStayFit, FitAt
<1>3. StateFields(s) BY OfTypes, FieldsOf
<1>4. CASE c.kind \in {"add", "remove"}
  <2>1. PICK t : /\ Becomes(w, t) /\ s.on /\ s.commands # << >> /\ c \in Edits
                 /\ t.commands = Tail(s.commands) /\ t.asked = s.asked
                 /\ t.counting = s.counting /\ t.answers = s.answers /\ t.active = s.active
                 /\ t.path = s.path /\ t.counts = s.counts
                 /\ HurriedAsBefore /\ OvertakenAsBefore
    BY <1>4, TakeEditShape
  <2>2. StateFields(t) BY <2>1, FieldsOf DEF Becomes
  <2>3. Fits(t, tagging.overtaken, tagging.hurried) /\ Listed(t.answers)
    <3> HIDE DEF s
    <3> QED BY <1>1, <1>2, <1>3, <2>1, <2>2, TakeEditFits
  <2>4. tagging'.overtaken = tagging.overtaken /\ tagging'.hurried = tagging.hurried
    BY <2>1 DEF HurriedAsBefore, OvertakenAsBefore
  <2> QED BY <2>1, <2>3, <2>4, OthersFit
<1>5. CASE c.kind \notin {"add", "remove"}
  <2>1. PICK t, e : /\ Becomes(w, t) /\ s.on /\ s.commands # << >> /\ c \in Asks /\ e \in Counted
                    /\ tagging' = tagging
                    /\ e.kind = c.kind /\ e.pane = c.pane /\ e.path = c.path /\ e.n = c.n /\ ~e.counted
                    /\ t.commands = Tail(s.commands) /\ t.asked = s.asked /\ t.db = s.db
                    /\ t.counting = s.counting \cup {e} /\ t.answers = s.answers /\ t.active = s.active
                    /\ t.path = s.path /\ t.counts = s.counts
    BY <1>5, TakeAskShape
  <2>2. StateFields(t) BY <2>1, FieldsOf DEF Becomes
  <2>3. Fits(t, tagging.overtaken, tagging.hurried) /\ Listed(t.answers)
    <3> HIDE DEF s
    <3> QED BY <1>1, <1>2, <1>3, <2>1, <2>2, TakeAskFits
  <2> QED BY <2>1, <2>3, OthersFit
<1> QED BY <1>4, <1>5

(* a task counts, *)
LEMMA CountStaysFit ==
    ASSUME TagTypes, CountsStayFit, NEW w \in TagWindows, NEW c \in tagWin[w].counting, CountTags(w, c)
    PROVE  CountsStayFit'
<1> DEFINE s == tagWin[w]
<1>1. PICK t, e : /\ Becomes(w, t) /\ s.on /\ e \in Counted
                  /\ tagging' = tagging
                  /\ e.kind = c.kind /\ e.pane = c.pane /\ e.path = c.path /\ e.n = c.n
                  /\ e.counts = TagCounts(s.db, c.path)
                  /\ t.commands = s.commands /\ t.asked = s.asked /\ t.db = s.db
                  /\ t.counting = (s.counting \ {c}) \cup {e} /\ t.answers = s.answers /\ t.active = s.active
                  /\ t.path = s.path /\ t.counts = s.counts
  BY CountShape
<1>2. Fits(s, tagging.overtaken, tagging.hurried) /\ Listed(s.answers) BY <1>1 DEF CountsStayFit, FitAt
<1>3. StateFields(s) /\ StateFields(t) /\ c \in s.counting BY <1>1, OfTypes, FieldsOf DEF Becomes
<1>4. tagging.overtaken \in BOOLEAN /\ tagging.hurried \in BOOLEAN BY DEF TagTypes, Taggings
<1>5. Fits(t, tagging.overtaken, tagging.hurried) /\ Listed(t.answers)
  <2> HIDE DEF s
  <2> QED BY <1>1, <1>2, <1>3, <1>4, CountFits
<1> QED BY <1>1, <1>5, OthersFit

(* and tells its counts. *)
LEMMA TellStaysFit ==
    ASSUME TagTypes, CountsStayFit, NEW w \in TagWindows, NEW c \in tagWin[w].counting, TellCounts(w, c)
    PROVE  CountsStayFit'
<1> DEFINE s == tagWin[w]
           o == tagging.overtaken
           h == tagging.hurried
           o2 == tagging'.overtaken
<1>1. PICK t, e : /\ Becomes(w, t) /\ s.on /\ c \in Counted /\ e \in Counted /\ c.counted
                  /\ HurriedAsBefore
                  /\ o2 = (o \/ \E x \in s.counting : x.pane = c.pane /\ x.n < c.n)
                  /\ e.kind = "count" /\ e.pane = c.pane /\ e.path = c.path /\ e.n = c.n /\ e.counts = c.counts
                  /\ Told(s.answers, c, e, t.answers)
                  /\ t.commands = s.commands /\ t.asked = s.asked /\ t.db = s.db
                  /\ t.counting = s.counting \ {c} /\ t.active = s.active
                  /\ t.path = s.path /\ t.counts = s.counts
  BY TellShape
<1>2. Fits(s, o, h) /\ Listed(s.answers) BY <1>1 DEF CountsStayFit, FitAt
<1>3. StateFields(s) /\ StateFields(t) /\ c \in s.counting BY <1>1, OfTypes, FieldsOf DEF Becomes
<1>4. o \in BOOLEAN /\ h \in BOOLEAN /\ o2 \in BOOLEAN BY <1>1 DEF Becomes, TagTypes, Taggings
<1>5. (o => o2) /\ (~o2 => ~o /\ \A x \in s.counting : x.pane = c.pane => ~(x.n < c.n)) BY <1>1
<1>6. Fits(t, o2, h)
  <2> HIDE DEF s, o, h, o2
  <2> QED BY <1>1, <1>2, <1>3, <1>4, <1>5, TellFits, ZenonT(30)
<1>7. Listed(t.answers)
  <2> HIDE DEF s
  <2>1. s.answers \in Seq(Counted) BY <1>3 DEF StateFields
  <2> QED BY <1>1, <1>2, <2>1, TellListed
<1>8. tagging'.hurried = tagging.hurried BY <1>1 DEF HurriedAsBefore
<1> QED BY <1>1, <1>5, <1>6, <1>7, <1>8, OthersFit

-------------------------------------------------------------------------------
(* Rules are kept, and tags by hand are what was made of them. *)

(* What is loaded is what is on file, or the default. *)
LEMMA LoadedIs ==
    ASSUME NEW onFile \in {NoTags} \cup Databases
    PROVE  /\ onFile = NoTags => LoadedTags(onFile) = DefaultTags
           /\ onFile # NoTags => LoadedTags(onFile) = onFile
<1>1. NoTags.is = "no file" /\ \A db \in Databases : db.is = "tags" BY DEF NoTags, Databases
<1> QED BY <1>1 DEF LoadedTags

(* A step that changes no engine and no file. *)
LEMMA RulesStay ==
    ASSUME TagTypes, RulesFit, NEW w \in TagWindows, NEW t, Becomes(w, t),
           ~tagging'.cut => /\ ~tagging.cut /\ t.saving = tagWin[w].saving /\ tagsFile' = tagsFile
                            /\ t.on => tagWin[w].on /\ t.db = tagWin[w].db
    PROVE  RulesFit'
BY DEF RulesFit, Becomes

(* A window that starts loads the rules, unless one is being saved. *)
LEMMA LaunchKeepsRules ==
    ASSUME TagTypes, RulesFit, NEW w \in TagWindows, LaunchTags(w) PROVE RulesFit'
<1>1. PICK t : /\ Becomes(w, t) /\ tagsFile' = tagsFile /\ ~tagWin[w].on
               /\ t.db = LoadedTags(tagsFile) /\ ~t.saving
               /\ tagging'.cut = (tagging.cut \/ \E v \in TagWindows : tagWin[v].saving)
  BY LaunchShape
<1> SUFFICES ASSUME ~tagging'.cut
             PROVE  /\ \A v \in TagWindows : tagWin'[v].on => tagWin'[v].db.rules = RuleNames
                    /\ (\A v \in TagWindows : ~tagWin'[v].saving) => tagsFile' = NoTags \/ tagsFile'.rules = RuleNames
  BY DEF RulesFit
<1>2. tagging.cut \in BOOLEAN BY DEF TagTypes, Taggings
<1>3. ~tagging.cut /\ \A v \in TagWindows : ~tagWin[v].saving BY <1>1, <1>2
<1>4. /\ \A v \in TagWindows : tagWin[v].on => tagWin[v].db.rules = RuleNames
      /\ tagsFile = NoTags \/ tagsFile.rules = RuleNames
  BY <1>3 DEF RulesFit
<1>5. tagWin'[w] = t /\ \A v \in TagWindows : v # w => tagWin'[v] = tagWin[v] BY <1>1 DEF Becomes
<1>6. t.db.rules = RuleNames BY <1>1, <1>4, LoadedIs DEF DefaultTags, TagTypes
<1> QED BY <1>1, <1>4, <1>5, <1>6

(* An edit is not of the rules, and a save of it begins. *)
LEMMA TakeKeepsRules ==
    ASSUME TagTypes, RulesFit, NEW w \in TagWindows, TakeTagCommand(w) PROVE RulesFit'
<1> DEFINE s == tagWin[w]
           c == Head(s.commands)
<1>1. CASE c.kind \notin {"add", "remove"} BY <1>1, TakeAskShape, RulesStay
<1>2. CASE c.kind \in {"add", "remove"}
  <2>1. PICK t : /\ Becomes(w, t) /\ s.on /\ c \in Edits
                 /\ t.db = IF c.kind = "add" THEN AddManual(s.db, c.path, c.tag)
                                             ELSE RemoveManual(s.db, c.path, c.tag)
                 /\ t.saving \/ tagging'.cut
                 /\ ~tagging'.cut => ~tagging.cut
    BY <1>2, TakeEditShape
  <2> SUFFICES ASSUME ~tagging'.cut
               PROVE  /\ \A v \in TagWindows : tagWin'[v].on => tagWin'[v].db.rules = RuleNames
                      /\ (\A v \in TagWindows : ~tagWin'[v].saving) =>
                             tagsFile' = NoTags \/ tagsFile'.rules = RuleNames
    BY DEF RulesFit
  <2>2. \A v \in TagWindows : tagWin[v].on => tagWin[v].db.rules = RuleNames BY <2>1 DEF RulesFit
  <2>3. tagWin'[w] = t /\ \A v \in TagWindows : v # w => tagWin'[v] = tagWin[v] BY <2>1 DEF Becomes
  <2>4. t.db.rules = s.db.rules
    <3>1. s.db \in Databases /\ c.path \in TaggedFiles /\ c.tag \in RuleNames BY <2>1, OfTypes, KindsOf
    <3>2. /\ AddManual(s.db, c.path, c.tag).rules = s.db.rules
          /\ RemoveManual(s.db, c.path, c.tag).rules = s.db.rules
      <4> DEFINE db == s.db
                 x == c.path
                 g == c.tag
      <4>1. db \in Databases /\ x \in TaggedFiles /\ g \in RuleNames BY <3>1
      <4> HIDE DEF db, x, g
      <4>2. AddManual(db, x, g).rules = db.rules /\ RemoveManual(db, x, g).rules = db.rules
        BY <4>1, DatabasesStay, ZenonT(30)
      <4> QED BY <4>2 DEF db, x, g
    <3> QED BY <2>1, <3>2
  <2>5. t.saving BY <2>1
  <2> QED BY <2>1, <2>2, <2>3, <2>4, <2>5
<1> QED BY <1>1, <1>2

(* What is saved has the rules. *)
LEMMA SavedKeepsRules ==
    ASSUME TagTypes, RulesFit, NEW w \in TagWindows, SaveTagsEnds(w) PROVE RulesFit'
BY SavedShape DEF RulesFit, Becomes, NoneAsked

(* A step of window w. *)
TagStep(w) ==
    \/ LaunchTags(w) \/ QuitTags(w) \/ SetActiveSide(w) \/ CloseTagMenu(w) \/ HandleTagAnswer(w)
    \/ TakeTagCommand(w) \/ SaveTagsEnds(w) \/ SaveTagsFails(w)
    \/ \E d \in TagFolders : Go(w, d)
    \/ \E selection \in SUBSET TaggedFiles : OpenTagMenu(w, selection)
    \/ \E t \in RuleNames : ToggleTag(w, t)
    \/ \E c \in tagWin[w].counting : CountTags(w, c) \/ TellCounts(w, c)

(* Every step keeps the rules. *)
LEMMA RulesStayKept ==
    ASSUME TagTypes, RulesFit, NEW w \in TagWindows, TagStep(w)
    PROVE  RulesFit'
<1>0. tagging.cut \in BOOLEAN BY DEF TagTypes, Taggings
<1>1. CASE LaunchTags(w) BY <1>1, LaunchKeepsRules
<1>2. CASE QuitTags(w) BY <1>2, QuitShape, OfTypes, <1>0, ClosedIsOff, RulesStay
<1>3. CASE SetActiveSide(w) BY <1>3, SwitchShape, RulesStay DEF Asked, MostAsBefore, CutAsBefore
<1>4. CASE CloseTagMenu(w) BY <1>4, CloseMenuShape, RulesStay DEF NoneAsked
<1>5. CASE HandleTagAnswer(w) BY <1>5, AnswerShape, RulesStay
<1>6. CASE TakeTagCommand(w) BY <1>6, TakeKeepsRules
<1>7. CASE SaveTagsEnds(w) BY <1>7, SavedKeepsRules
<1>8. CASE SaveTagsFails(w) BY <1>8, SaveFailsShape DEF RulesFit
<1>9. CASE \E d \in TagFolders : Go(w, d)
  BY <1>9, GoShape, RulesStay DEF Asked, MostAsBefore, CutAsBefore
<1>10. CASE \E selection \in SUBSET TaggedFiles : OpenTagMenu(w, selection)
  BY <1>10, OpenMenuShape, RulesStay DEF NoneAsked, MostAsBefore, CutAsBefore
<1>11. CASE \E t \in RuleNames : ToggleTag(w, t)
  BY <1>11, ToggleShape, RulesStay DEF Asked, NoneAsked, MostAsBefore, CutAsBefore
<1>12. CASE \E c \in tagWin[w].counting : CountTags(w, c) \/ TellCounts(w, c)
  <2>0. PICK c \in tagWin[w].counting : CountTags(w, c) \/ TellCounts(w, c) BY <1>12
  <2>1. CASE CountTags(w, c) BY <2>1, CountShape, RulesStay
  <2>2. CASE TellCounts(w, c) BY <2>2, TellShape, RulesStay DEF CutAsBefore
  <2> QED BY <2>0, <2>1, <2>2
<1> QED BY <1>1, <1>2, <1>3, <1>4, <1>5, <1>6, <1>7, <1>8, <1>9, <1>10, <1>11, <1>12 DEF TagStep

(* What the last edit of a file and a tag makes of it, when edits are added: what they make of
   it, or as before. *)
LEMMA AddedMakes ==
    ASSUME NEW s, StateFields(s), NEW es \in Seq(Edits), NEW r \in Asks, NEW t, Added(s, es, r, t.commands),
           t.db = s.db, NEW f, NEW x, NEW given \in BOOLEAN, NEW now \in BOOLEAN, Makes(s, f, x, given),
           \A i \in 1..Len(es) : EditOf(es[i], f, x) => (es[i].kind = "add" <=> now),
           (\A i \in 1..Len(es) : ~EditOf(es[i], f, x)) => (given <=> now)
    PROVE  Makes(t, f, x, now)
<1> DEFINE cs == t.commands
           n == Len(s.commands)
           m == Len(es)
<1>1. /\ Len(cs) = n + m + 1 /\ Len(cs) \in Nat
      /\ DOMAIN cs = 1..Len(cs) /\ n \in Nat /\ m \in Nat
      /\ \A i \in 1..Len(cs) :
            /\ i <= n => i \in DOMAIN s.commands /\ cs[i] = s.commands[i]
            /\ i > n /\ i # Len(cs) => i - n \in 1..m /\ cs[i] = es[i - n]
      /\ cs[Len(cs)] = r
  <2>1. Added(s, es, r, cs) OBVIOUS
  <2> HIDE DEF cs, n, m
  <2>2. /\ Len(cs) = Len(s.commands) + Len(es) + 1 /\ Len(cs) \in Nat
        /\ DOMAIN cs = 1..Len(cs) /\ Len(s.commands) \in Nat /\ Len(es) \in Nat
        /\ \A i \in 1..Len(cs) :
              /\ i <= Len(s.commands) => i \in DOMAIN s.commands /\ cs[i] = s.commands[i]
              /\ i > Len(s.commands) /\ i # Len(cs) =>
                    i - Len(s.commands) \in 1..Len(es) /\ cs[i] = es[i - Len(s.commands)] /\ cs[i] \in Edits
        /\ cs[Len(cs)] = r
    BY <2>1, AddedCommands
  <2> QED BY <2>2 DEF n, m
<1>2. ~EditOf(r, f, x) BY KindsOf DEF EditOf
<1>3. DOMAIN s.commands = 1..n BY LenProperties DEF StateFields
<1> HIDE DEF cs, n, m
<1>4. \A j \in 1..m : n + j \in DOMAIN cs /\ cs[n + j] = es[j] /\ \A i \in 1..n : i < n + j BY <1>1
<1>5. \A i \in 1..n : i \in DOMAIN cs /\ cs[i] = s.commands[i] BY <1>1
<1>6. ASSUME \A i \in DOMAIN cs : ~EditOf(cs[i], f, x) PROVE x \in t.db.manual[f] <=> now
  BY <1>3, <1>5, <1>6, <1>4 DEF Makes, m
<1>7. ASSUME NEW i \in DOMAIN cs, EditOf(cs[i], f, x), \A j \in DOMAIN cs : i < j => ~EditOf(cs[j], f, x)
      PROVE  cs[i].kind = "add" <=> now
  <2>1. CASE i > n BY <1>1, <1>2, <1>7, <2>1 DEF m
  <2>2. CASE ~(i > n)
    <3>1. i \in DOMAIN s.commands /\ cs[i] = s.commands[i] /\ i \in 1..n BY <1>1, <1>3, <2>2
    <3>2. \A j \in 1..m : ~EditOf(es[j], f, x) BY <1>4, <1>7, <3>1
    <3>3. \A j \in DOMAIN s.commands : i < j => ~EditOf(s.commands[j], f, x) BY <1>3, <1>5, <1>7
    <3>4. s.commands[i].kind = "add" <=> given BY <1>7, <3>1, <3>3 DEF Makes
    <3> QED BY <3>1, <3>2, <3>4 DEF m
  <2> QED BY <2>1, <2>2
<1> QED BY <1>6, <1>7 DEF Makes, cs

(* The commands are there, but for the first. *)
LEMMA TailMakes ==
    ASSUME NEW s, StateFields(s), s.commands # << >>, NEW t, t.commands = Tail(s.commands),
           NEW f, NEW x, NEW given \in BOOLEAN, Makes(s, f, x, given),
           EditOf(Head(s.commands), f, x) => (x \in t.db.manual[f] <=> Head(s.commands).kind = "add"),
           ~EditOf(Head(s.commands), f, x) => (x \in t.db.manual[f] <=> x \in s.db.manual[f])
    PROVE  Makes(t, f, x, given)
<1> DEFINE q == s.commands
           r == t.commands
<1>1. /\ DOMAIN r = 1..Len(r) /\ Len(r) \in Nat /\ Len(r) = Len(q) - 1 /\ DOMAIN q = 1..Len(q) /\ Len(q) \in Nat
      /\ 1 \in DOMAIN q /\ q[1] = Head(q)
      /\ \A i \in DOMAIN r : i \in Nat /\ i + 1 \in DOMAIN q /\ r[i] = q[i + 1]
  BY TailAt DEF StateFields
<1> HIDE DEF q, r
<1>2. \A j \in DOMAIN q : 1 < j => j - 1 \in DOMAIN r /\ r[j - 1] = q[j] BY <1>1
<1>3. \A j \in DOMAIN q : j = 1 \/ 1 < j BY <1>1
<1>4. ASSUME \A i \in DOMAIN r : ~EditOf(r[i], f, x) PROVE x \in t.db.manual[f] <=> given
  <2>1. \A j \in DOMAIN q : 1 < j => ~EditOf(q[j], f, x) BY <1>2, <1>4
  <2>2. CASE EditOf(q[1], f, x) BY <1>1, <2>1, <2>2 DEF Makes, q
  <2>3. CASE ~EditOf(q[1], f, x) BY <1>3, <2>1, <2>3, <1>1 DEF Makes, q
  <2> QED BY <2>2, <2>3
<1>5. ASSUME NEW i \in DOMAIN r, EditOf(r[i], f, x), \A j \in DOMAIN r : i < j => ~EditOf(r[j], f, x)
      PROVE  r[i].kind = "add" <=> given
  <2>1. i + 1 \in DOMAIN q /\ r[i] = q[i + 1] BY <1>1
  <2>2. \A j \in DOMAIN q : i + 1 < j => ~EditOf(q[j], f, x) BY <1>1, <1>2, <1>5
  <2>3. q[i + 1].kind = "add" <=> given BY <1>5, <2>1, <2>2 DEF Makes, q
  <2> QED BY <2>1, <2>3
<1> QED BY <1>4, <1>5 DEF Makes, r

(* No save was cut short, no command dropped, and no two windows ran at once. *)
Undisturbed == ~tagging.cut /\ ~tagging.dropped /\ ~tagging.shared
(* A step of the window that runs, which leaves none but it. *)
LEMMA EditsStay ==
    ASSUME TagTypes, EditsFit, NEW w \in TagWindows, NEW t, Becomes(w, t), tagWin[w].on, t.on,
           Undisturbed' =>
              /\ Undisturbed
              /\ \A f \in TaggedFiles : \A x \in RuleNames :
                    Makes(tagWin[w], f, x, x \in tagging.wanted[f]) => Makes(t, f, x, x \in tagging'.wanted[f])
              /\ tagWin[w].saving \/ FileIs(tagWin[w].db.manual) => t.saving \/ FileIs(t.db.manual)'
    PROVE  EditsFit'
BY DEF EditsFit, Undisturbed, Becomes, FileIs

(* What is on file stays there. *)
LEMMA FileAsBefore ==
    ASSUME tagsFile' = tagsFile, NEW manual, FileIs(manual)
    PROVE  FileIs(manual)'
  BY DEF FileIs

(* A step that adds nothing to the history leaves it undisturbed, or not. *)
LEMMA UndisturbedIs == MostAsBefore => (Undisturbed' <=> Undisturbed)
  BY DEF MostAsBefore, CutAsBefore, DroppedAsBefore, SharedAsBefore, Undisturbed

(* A step of a window that is not about tags. *)
LEMMA SameEditsStay ==
    ASSUME TagTypes, EditsFit, NEW w \in TagWindows, NEW t, Becomes(w, t), tagWin[w].on, t.on,
           Undisturbed' => Undisturbed, WantedAsBefore, tagsFile' = tagsFile,
           t.saving = tagWin[w].saving, t.db = tagWin[w].db,
           \A f \in TaggedFiles : \A x \in RuleNames :
              Makes(tagWin[w], f, x, x \in tagging.wanted[f]) => Makes(t, f, x, x \in tagging.wanted[f])
    PROVE  EditsFit'
BY FileAsBefore, EditsStay DEF WantedAsBefore

(* A request for counts, too, is not about tags. *)
LEMMA AskedEditsStay ==
    ASSUME TagTypes, EditsFit, NEW w \in TagWindows, NEW t, Becomes(w, t), tagWin[w].on,
           NEW k \in {"count", "list"}, NEW p \in Sides, NEW d \in TagFolders,
           Asked(tagWin[w], t, << >>, k, p, d), MostAsBefore, WantedAsBefore, tagsFile' = tagsFile
    PROVE  EditsFit'
<1> DEFINE s == tagWin[w]
           r == [kind |-> k, pane |-> p, path |-> d, n |-> s.asked + 1]
<1>1. StateFields(s) /\ s.asked \in Nat BY OfTypes, FieldsOf
<1>2. r \in Asks BY <1>1 DEF Asks
<1>3. Added(s, << >>, r, t.commands) /\ t.on /\ t.db = s.db /\ t.saving = s.saving BY DEF Asked
<1>4. << >> \in Seq(Edits) /\ Len(<< >>) = 0 OBVIOUS
<1>5. ASSUME NEW f \in TaggedFiles, NEW x \in RuleNames, Makes(s, f, x, x \in tagging.wanted[f])
      PROVE  Makes(t, f, x, x \in tagging.wanted[f])
  <2> DEFINE given == x \in tagging.wanted[f]
             es == << >>
  <2>1. given \in BOOLEAN /\ Makes(s, f, x, given) BY <1>5
  <2>2. es \in Seq(Edits) /\ 1..Len(es) = {} /\ Added(s, es, r, t.commands) BY <1>3, <1>4
  <2> HIDE DEF given, es, s, r
  <2>3. Makes(t, f, x, given) BY <1>1, <1>2, <1>3, <2>1, <2>2, AddedMakes
  <2> QED BY <2>3 DEF given
<1> QED BY <1>3, <1>5, SameEditsStay, UndisturbedIs

(* The tags of the selected files, by hand, are what is asked for. *)
LEMMA ToggledMakes ==
    ASSUME NEW s, StateFields(s), NEW files \in SUBSET TaggedFiles, IsFiniteSet(files), NEW remove \in BOOLEAN,
           NEW tag \in RuleNames, NEW r \in Asks, NEW t, Added(s, EditsOf(files, remove, tag), r, t.commands),
           t.db = s.db, NEW wanted \in Given, NEW f \in TaggedFiles, NEW x \in RuleNames,
           Makes(s, f, x, x \in wanted[f])
    PROVE  Makes(t, f, x, x \in Toggled(wanted, files, remove, tag)[f])
<1> DEFINE es == EditsOf(files, remove, tag)
           given == x \in wanted[f]
           now == x \in Toggled(wanted, files, remove, tag)[f]
<1>1. /\ es \in Seq(Edits)
      /\ \A i \in 1..Len(es) : /\ es[i].kind = IF remove THEN "remove" ELSE "add"
                               /\ es[i].path \in files /\ es[i].tag = tag
      /\ \A z \in files : \E i \in 1..Len(es) : es[i].path = z
  BY EditsFacts
<1>2. given \in BOOLEAN /\ now \in BOOLEAN /\ Makes(s, f, x, given) OBVIOUS
<1>3. /\ f \in files /\ x = tag => (now <=> ~remove)
      /\ f \notin files \/ x # tag => (now <=> given)
  BY DEF Toggled
<1>4. Added(s, es, r, t.commands) OBVIOUS
<1> HIDE DEF es, given, now
<1>5. ASSUME NEW i \in 1..Len(es), EditOf(es[i], f, x) PROVE es[i].kind = "add" <=> now
  BY <1>1, <1>5, <1>3 DEF EditOf
<1>6. ASSUME \A i \in 1..Len(es) : ~EditOf(es[i], f, x) PROVE given <=> now
  <2>1. f \notin files \/ x # tag BY <1>1, <1>6 DEF EditOf
  <2> QED BY <1>3, <2>1
<1>7. Makes(t, f, x, now) BY <1>1, <1>2, <1>4, <1>5, <1>6, AddedMakes
<1> QED BY <1>7 DEF now

(* What is toggled is asked for. *)
LEMMA ToggleKeepsEdits ==
    ASSUME TagTypes, EditsFit, NEW w \in TagWindows, NEW tag \in RuleNames, ToggleTag(w, tag) PROVE EditsFit'
<1> DEFINE s == tagWin[w]
           p == s.active
           d == s.path[p]
           r == [kind |-> "count", pane |-> p, path |-> d, n |-> s.asked + 1]
<1>1. PICK t, remove :
         /\ Becomes(w, t) /\ tagsFile' = tagsFile /\ tagWin[w].on /\ remove \in BOOLEAN
         /\ t.path = tagWin[w].path
         /\ \/ tagWin[w].selected = {} /\ NoneAsked(tagWin[w], t) /\ t.saving = tagWin[w].saving
            \/ Asked(tagWin[w], t, EditsOf(tagWin[w].selected, remove, tag), "count", tagWin[w].active,
                     tagWin[w].path[tagWin[w].active])
         /\ tagging'.wanted = Toggled(tagging.wanted, tagWin[w].selected, remove, tag)
         /\ MostAsBefore
  BY ToggleShape
<1>2. /\ StateFields(s) /\ s.selected \in SUBSET TaggedFiles /\ IsFiniteSet(s.selected) /\ s.asked \in Nat
      /\ p \in Sides /\ d \in TagFolders
  BY OfTypes, FieldsOf
<1>3. tagging.wanted \in Given BY DEF TagTypes, Taggings
<1>4. r \in Asks BY <1>2 DEF Asks
<1>5. t.on /\ t.saving = s.saving /\ t.db = s.db BY <1>1 DEF NoneAsked, Asked
<1>6. ASSUME NEW f \in TaggedFiles, NEW x \in RuleNames, Makes(s, f, x, x \in tagging.wanted[f])
      PROVE  Makes(t, f, x, x \in tagging'.wanted[f])
  <2>1. CASE s.selected = {} /\ NoneAsked(s, t) BY <1>1, <2>1, <1>6 DEF Toggled, NoneAsked, Makes
  <2>2. CASE Asked(s, t, EditsOf(s.selected, remove, tag), "count", p, d)
    <3> DEFINE files == s.selected
               wanted == tagging.wanted
    <3>1. Added(s, EditsOf(files, remove, tag), r, t.commands) /\ t.db = s.db BY <2>2 DEF Asked
    <3>2. files \in SUBSET TaggedFiles /\ IsFiniteSet(files) /\ wanted \in Given /\ Makes(s, f, x, x \in wanted[f])
      BY <1>2, <1>3, <1>6
    <3>3. tagging'.wanted = Toggled(wanted, files, remove, tag) /\ remove \in BOOLEAN BY <1>1
    <3> HIDE DEF s, r, files, wanted
    <3>4. Makes(t, f, x, x \in Toggled(wanted, files, remove, tag)[f])
      BY <1>2, <1>4, <3>1, <3>2, <3>3, ToggledMakes
    <3> QED BY <3>3, <3>4
  <2> QED BY <1>1, <2>1, <2>2
<1>7. s.saving \/ FileIs(s.db.manual) => t.saving \/ FileIs(t.db.manual)' BY <1>1, <1>5, FileAsBefore
<1> QED BY <1>1, <1>5, <1>6, <1>7, UndisturbedIs, EditsStay

(* The parts of the history. *)
LEMMA UndisturbedTypes ==
    ASSUME TagTypes
    PROVE  tagging.cut \in BOOLEAN /\ tagging.dropped \in BOOLEAN /\ tagging.shared \in BOOLEAN
           /\ tagging.wanted \in Given
  BY DEF TagTypes, Taggings

(* What is on file, as a database that is loaded. *)
LEMMA FileIsLoaded ==
    ASSUME NEW manual \in Given, FileIs(manual)
    PROVE  LoadedTags(tagsFile).manual = manual
<1>1. DefaultTags \in Databases /\ DefaultTags.manual = Untagged /\ DefaultTags # NoTags
  BY NobodysState DEF DefaultTags, Databases, NoTags
<1>2. CASE tagsFile = NoTags /\ manual = Untagged BY <1>1, <1>2, LoadedIs
<1>3. CASE tagsFile = [DefaultTags EXCEPT !.manual = manual]
  <2>1. tagsFile \in Databases /\ tagsFile.manual = manual BY <1>1, <1>3 DEF Databases
  <2>2. tagsFile # NoTags
    <3>1. tagsFile.is = "tags" BY <2>1 DEF Databases
    <3>2. NoTags.is = "no file" BY DEF NoTags
    <3> QED BY <3>1, <3>2
  <2> QED BY <2>1, <2>2, LoadedIs
<1> QED BY <1>2, <1>3 DEF FileIs

(* A window that starts alone has what the one before it left on file, *)
LEMMA LaunchKeepsEdits ==
    ASSUME TagTypes, EditsFit, NEW w \in TagWindows, LaunchTags(w) PROVE EditsFit'
<1> DEFINE r == [kind |-> "list", pane |-> 1, path |-> Home, n |-> 1]
<1>1. PICK t : /\ Becomes(w, t) /\ tagsFile' = tagsFile /\ ~tagWin[w].on /\ t.on
               /\ t.db = LoadedTags(tagsFile)
               /\ t.commands = <<r>>
               /\ DroppedAsBefore /\ WantedAsBefore
               /\ tagging'.shared = (tagging.shared \/ \E v \in TagWindows : tagWin[v].on)
               /\ tagging'.cut = (tagging.cut \/ \E v \in TagWindows : tagWin[v].saving)
  BY LaunchShape
<1> SUFFICES ASSUME Undisturbed'
             PROVE  /\ \A u, v \in TagWindows : tagWin'[u].on /\ tagWin'[v].on => u = v
                    /\ \A v \in TagWindows : tagWin'[v].on =>
                         /\ \A f \in TaggedFiles : \A x \in RuleNames :
                               Makes(tagWin'[v], f, x, x \in tagging'.wanted[f])
                         /\ tagWin'[v].saving \/ FileIs(tagWin[v].db.manual)'
                    /\ (\A v \in TagWindows : ~tagWin'[v].on) => FileIs(tagging.wanted)'
  BY DEF EditsFit, Undisturbed
<1>2. ~tagging.cut /\ ~tagging.dropped /\ ~tagging.shared /\ \A v \in TagWindows : ~tagWin[v].on
  BY <1>1, UndisturbedTypes DEF Undisturbed, DroppedAsBefore
<1>3. FileIs(tagging.wanted) BY <1>2 DEF EditsFit
<1>4. t.db.manual = tagging.wanted /\ tagging'.wanted = tagging.wanted
  BY <1>1, <1>3, FileIsLoaded, UndisturbedTypes DEF WantedAsBefore
<1>5. tagWin'[w] = t /\ \A v \in TagWindows : v # w => tagWin'[v] = tagWin[v] BY <1>1 DEF Becomes
<1>6. \A v \in TagWindows : tagWin'[v].on => v = w BY <1>2, <1>5
<1>7. FileIs(tagWin[w].db.manual)' BY <1>1, <1>3, <1>4, <1>5 DEF FileIs
<1>8. ASSUME NEW f \in TaggedFiles, NEW x \in RuleNames PROVE Makes(t, f, x, x \in tagging'.wanted[f])
  BY <1>1, <1>4 DEF Makes, EditOf
<1>9. \E v \in TagWindows : tagWin'[v].on BY <1>1, <1>5
<1> QED BY <1>5, <1>6, <1>7, <1>8, <1>9

(* What a window without commands has is what was made of the tags. *)
LEMMA AllMade ==
    ASSUME NEW s, s.db \in Databases, s.commands = << >>, NEW wanted \in Given,
           \A f \in TaggedFiles : \A x \in RuleNames : Makes(s, f, x, x \in wanted[f])
    PROVE  s.db.manual = wanted
<1>1. DOMAIN s.commands = {} OBVIOUS
<1>2. ASSUME NEW f \in TaggedFiles PROVE s.db.manual[f] = wanted[f] BY <1>1 DEF Makes, Databases, Given
<1>3. s.db.manual \in Given BY DEF Databases
<1> QED BY <1>2, <1>3 DEF Given

(* one that ends with its commands run and saved leaves it there, *)
LEMMA QuitKeepsEdits ==
    ASSUME TagTypes, EditsFit, NEW w \in TagWindows, QuitTags(w) PROVE EditsFit'
<1>1. /\ Becomes(w, Closed) /\ tagsFile' = tagsFile /\ tagWin[w].on
      /\ SharedAsBefore /\ WantedAsBefore
      /\ tagging'.cut = (tagging.cut \/ tagWin[w].saving)
      /\ tagging'.dropped = (tagging.dropped \/ tagWin[w].commands # << >>)
  BY QuitShape
<1> SUFFICES ASSUME Undisturbed'
             PROVE  /\ \A u, v \in TagWindows : tagWin'[u].on /\ tagWin'[v].on => u = v
                    /\ \A v \in TagWindows : tagWin'[v].on =>
                         /\ \A f \in TaggedFiles : \A x \in RuleNames :
                               Makes(tagWin'[v], f, x, x \in tagging'.wanted[f])
                         /\ tagWin'[v].saving \/ FileIs(tagWin[v].db.manual)'
                    /\ (\A v \in TagWindows : ~tagWin'[v].on) => FileIs(tagging.wanted)'
  BY DEF EditsFit, Undisturbed
<1>2. /\ ~tagging.cut /\ ~tagging.dropped /\ ~tagging.shared
      /\ ~tagWin[w].saving /\ tagWin[w].commands = << >>
  BY <1>1, UndisturbedTypes, OfTypes DEF Undisturbed, SharedAsBefore
<1>3. /\ \A u, v \in TagWindows : tagWin[u].on /\ tagWin[v].on => u = v
      /\ \A f \in TaggedFiles : \A x \in RuleNames : Makes(tagWin[w], f, x, x \in tagging.wanted[f])
      /\ FileIs(tagWin[w].db.manual)
  BY <1>1, <1>2 DEF EditsFit
<1>4. tagWin[w].db.manual = tagging.wanted
  <2> DEFINE s == tagWin[w]
             wanted == tagging.wanted
  <2>1. /\ s.db \in Databases /\ s.commands = << >> /\ wanted \in Given
        /\ \A f \in TaggedFiles : \A x \in RuleNames : Makes(s, f, x, x \in wanted[f])
    BY <1>2, <1>3, OfTypes, UndisturbedTypes
  <2> HIDE DEF s, wanted
  <2>2. s.db.manual = wanted BY <2>1, AllMade
  <2> QED BY <2>2 DEF s, wanted
<1>5. FileIs(tagging.wanted)' BY <1>1, <1>3, <1>4 DEF FileIs, WantedAsBefore
<1>6. \A v \in TagWindows : ~tagWin'[v].on BY <1>1, <1>3, ClosedIsOff DEF Becomes
<1> QED BY <1>5, <1>6

(* one that takes an edit saves it, *)
LEMMA TakeKeepsEdits ==
    ASSUME TagTypes, EditsFit, NEW w \in TagWindows, TakeTagCommand(w) PROVE EditsFit'
<1> DEFINE s == tagWin[w]
           c == Head(s.commands)
<1>0. StateFields(s) /\ s.db \in Databases BY OfTypes, FieldsOf
<1>1. CASE c.kind \notin {"add", "remove"}
  <2>1. PICK t : /\ Becomes(w, t) /\ s.on /\ tagsFile' = tagsFile /\ tagging' = tagging
                 /\ s.commands # << >> /\ t.commands = Tail(s.commands)
                 /\ t.on = s.on /\ t.db = s.db /\ t.saving = s.saving
    BY <1>1, TakeAskShape
  <2>2. ASSUME NEW f \in TaggedFiles, NEW x \in RuleNames, Makes(s, f, x, x \in tagging.wanted[f])
        PROVE  Makes(t, f, x, x \in tagging.wanted[f])
    <3> DEFINE given == x \in tagging.wanted[f]
    <3>1. given \in BOOLEAN /\ Makes(s, f, x, given) BY <2>2
    <3>2. ~EditOf(Head(s.commands), f, x) BY <1>1 DEF EditOf
    <3> HIDE DEF given, s
    <3>3. Makes(t, f, x, given) BY <1>0, <2>1, <3>1, <3>2, TailMakes
    <3> QED BY <3>3 DEF given
  <2>3. (Undisturbed' => Undisturbed) /\ WantedAsBefore BY <2>1 DEF Undisturbed, WantedAsBefore
  <2> QED BY <2>1, <2>2, <2>3, SameEditsStay
<1>2. CASE c.kind \in {"add", "remove"}
  <2>1. PICK t : /\ Becomes(w, t) /\ s.on /\ s.commands # << >> /\ c \in Edits
                 /\ t.commands = Tail(s.commands) /\ t.on = s.on
                 /\ t.db = IF c.kind = "add" THEN AddManual(s.db, c.path, c.tag)
                                             ELSE RemoveManual(s.db, c.path, c.tag)
                 /\ t.saving \/ tagging'.cut
                 /\ ~tagging'.cut => ~tagging.cut
                 /\ DroppedAsBefore /\ SharedAsBefore /\ WantedAsBefore
    BY <1>2, TakeEditShape
  <2>2. c.path \in TaggedFiles /\ c.tag \in RuleNames /\ s.db.manual \in Given
    BY <1>0, <2>1, KindsOf DEF Databases
  <2>3. /\ c.kind = "add" => t.db.manual = [s.db.manual EXCEPT ![c.path] = @ \cup {c.tag}]
        /\ c.kind # "add" => t.db.manual = [s.db.manual EXCEPT ![c.path] = @ \ {c.tag}]
    <3> DEFINE db == s.db
               z == c.path
               g == c.tag
    <3>1. db \in Databases /\ z \in TaggedFiles /\ g \in RuleNames BY <1>0, <2>2
    <3>2. t.db = IF c.kind = "add" THEN AddManual(db, z, g) ELSE RemoveManual(db, z, g) BY <2>1
    <3> HIDE DEF db, z, g
    <3>3. /\ AddManual(db, z, g).manual = [db.manual EXCEPT ![z] = @ \cup {g}]
          /\ RemoveManual(db, z, g).manual = [db.manual EXCEPT ![z] = @ \ {g}]
      BY <3>1, DatabasesStay
    <3>4. /\ c.kind = "add" => t.db.manual = [db.manual EXCEPT ![z] = @ \cup {g}]
          /\ c.kind # "add" => t.db.manual = [db.manual EXCEPT ![z] = @ \ {g}]
      <4> HIDE DEF c
      <4> QED BY <3>2, <3>3
    <3> QED BY <3>4 DEF db, z, g
  <2>4. ASSUME NEW f \in TaggedFiles, NEW x \in RuleNames, Makes(s, f, x, x \in tagging.wanted[f])
        PROVE  Makes(t, f, x, x \in tagging.wanted[f])
    <3> DEFINE given == x \in tagging.wanted[f]
    <3>1. given \in BOOLEAN /\ Makes(s, f, x, given) BY <2>4
    <3>2. EditOf(c, f, x) <=> c.path = f /\ c.tag = x BY <1>2 DEF EditOf
    <3> DEFINE before == s.db.manual
               after == t.db.manual
    <3>3. /\ before \in [TaggedFiles -> SUBSET RuleNames]
          /\ c.kind = "add" => after = [before EXCEPT ![c.path] = @ \cup {c.tag}]
          /\ c.kind # "add" => after = [before EXCEPT ![c.path] = @ \ {c.tag}]
      BY <2>2, <2>3 DEF Given
    <3> HIDE DEF given, before, after, s, c
    <3>4. /\ EditOf(c, f, x) => (x \in after[f] <=> c.kind = "add")
          /\ ~EditOf(c, f, x) => (x \in after[f] <=> x \in before[f])
      BY <2>2, <3>2, <3>3
    <3>5. /\ EditOf(Head(s.commands), f, x) => (x \in t.db.manual[f] <=> Head(s.commands).kind = "add")
          /\ ~EditOf(Head(s.commands), f, x) => (x \in t.db.manual[f] <=> x \in s.db.manual[f])
      BY <3>4 DEF before, after, c
    <3>6. Makes(t, f, x, given) BY <1>0, <2>1, <3>1, <3>5, TailMakes
    <3> QED BY <3>6 DEF given
  <2>5. \A f \in TaggedFiles : \A x \in RuleNames :
          Makes(s, f, x, x \in tagging.wanted[f]) => Makes(t, f, x, x \in tagging'.wanted[f])
    BY <2>1, <2>4 DEF WantedAsBefore
  <2>6. Undisturbed' => Undisturbed /\ t.saving BY <2>1 DEF Undisturbed, DroppedAsBefore, SharedAsBefore
  <2> QED BY <2>1, <2>5, <2>6, EditsStay
<1> QED BY <1>1, <1>2

(* and then it is on file. *)
LEMMA SavedKeepsEdits ==
    ASSUME TagTypes, RulesFit, EditsFit, NEW w \in TagWindows, SaveTagsEnds(w) PROVE EditsFit'
<1> DEFINE s == tagWin[w]
<1>1. PICK t : /\ Becomes(w, t) /\ s.on /\ NoneAsked(s, t) /\ tagging' = tagging /\ tagsFile' = s.db
  BY SavedShape
<1>2. t.on /\ t.db = s.db /\ t.commands = s.commands /\ s.db \in Databases
  BY <1>1, OfTypes DEF NoneAsked
<1>3. ASSUME Undisturbed PROVE FileIs(t.db.manual)'
  <2>1. s.db.rules = RuleNames BY <1>1, <1>3 DEF RulesFit, Undisturbed
  <2> DEFINE db == s.db
  <2>2. db \in Databases /\ db.rules = RuleNames /\ tagsFile' = db /\ t.db = db BY <1>1, <1>2, <2>1
  <2> HIDE DEF db
  <2>3. db = [DefaultTags EXCEPT !.manual = db.manual] BY <2>2 DEF DefaultTags, Databases
  <2> QED BY <2>2, <2>3 DEF FileIs
<1>4. (Undisturbed' => Undisturbed) /\ tagging'.wanted = tagging.wanted BY <1>1 DEF Undisturbed
<1>5. \A f \in TaggedFiles : \A x \in RuleNames :
        Makes(s, f, x, x \in tagging.wanted[f]) => Makes(t, f, x, x \in tagging'.wanted[f])
  BY <1>2, <1>4 DEF Makes
<1> QED BY <1>1, <1>2, <1>3, <1>4, <1>5, EditsStay

(* A step that leaves the commands as they are, and the engine. *)
LEMMA SameCommandsStay ==
    ASSUME TagTypes, EditsFit, NEW w \in TagWindows, NEW t, Becomes(w, t), tagWin[w].on, t.on = tagWin[w].on,
           Undisturbed' => Undisturbed, WantedAsBefore, tagsFile' = tagsFile,
           t.saving = tagWin[w].saving, t.db = tagWin[w].db, t.commands = tagWin[w].commands
    PROVE  EditsFit'
<1>1. \A f \in TaggedFiles : \A x \in RuleNames :
         Makes(tagWin[w], f, x, x \in tagging.wanted[f]) => Makes(t, f, x, x \in tagging.wanted[f])
  BY DEF Makes
<1>2. t.on OBVIOUS
<1> QED BY <1>1, <1>2, SameEditsStay

(* Every step keeps what was made of the tags. *)
LEMMA EditsStayKept ==
    ASSUME TagTypes, RulesFit, EditsFit, NEW w \in TagWindows, TagStep(w)
    PROVE  EditsFit'
<1>1. CASE LaunchTags(w) BY <1>1, LaunchKeepsEdits
<1>2. CASE QuitTags(w) BY <1>2, QuitKeepsEdits
<1>3. CASE SetActiveSide(w) BY <1>3, SwitchShape, OfTypes, AskedEditsStay
<1>4. CASE CloseTagMenu(w)
  BY <1>4, CloseMenuShape, OfTypes, ClosedIsOff, SameCommandsStay DEF CloseTagMenu, NoMenu, NoneAsked,
    Undisturbed, WantedAsBefore
<1>5. CASE HandleTagAnswer(w) BY <1>5, AnswerShape, SameCommandsStay DEF Undisturbed, WantedAsBefore
<1>6. CASE TakeTagCommand(w) BY <1>6, TakeKeepsEdits
<1>7. CASE SaveTagsEnds(w) BY <1>7, SavedKeepsEdits
<1>8. CASE SaveTagsFails(w) BY <1>8, SaveFailsShape DEF EditsFit
<1>9. CASE \E d \in TagFolders : Go(w, d) BY <1>9, GoShape, OfTypes, AskedEditsStay
<1>10. CASE \E selection \in SUBSET TaggedFiles : OpenTagMenu(w, selection)
  BY <1>10, OpenMenuShape, UndisturbedIs, SameCommandsStay DEF NoneAsked
<1>11. CASE \E t \in RuleNames : ToggleTag(w, t) BY <1>11, ToggleKeepsEdits
<1>12. CASE \E c \in tagWin[w].counting : CountTags(w, c) \/ TellCounts(w, c)
  <2>0. PICK c \in tagWin[w].counting : CountTags(w, c) \/ TellCounts(w, c) BY <1>12
  <2>1. CASE CountTags(w, c) BY <2>1, CountShape, SameCommandsStay DEF Undisturbed, WantedAsBefore
  <2>2. CASE TellCounts(w, c)
    BY <2>2, TellShape, SameCommandsStay DEF Undisturbed, CutAsBefore, DroppedAsBefore, SharedAsBefore
  <2> QED BY <2>0, <2>1, <2>2
<1> QED BY <1>1, <1>2, <1>3, <1>4, <1>5, <1>6, <1>7, <1>8, <1>9, <1>10, <1>11, <1>12 DEF TagStep

(* Every step leaves what is counted fit, and the types. *)
LEMMA CountsStayKept ==
    ASSUME TagTypes, CountsStayFit, NEW w \in TagWindows, TagStep(w)
    PROVE  CountsStayFit' /\ TagTypes'
<1>1. CASE LaunchTags(w) BY <1>1, LaunchStaysFit, LaunchShape DEF Becomes
<1>2. CASE QuitTags(w) BY <1>2, QuitStaysFit, QuitShape DEF Becomes
<1>3. CASE SetActiveSide(w) BY <1>3, SwitchStaysFit, SwitchShape DEF Becomes
<1>4. CASE CloseTagMenu(w) BY <1>4, CloseMenuStaysFit, CloseMenuShape DEF Becomes
<1>5. CASE HandleTagAnswer(w) BY <1>5, AnswerStaysFit, AnswerShape DEF Becomes
<1>6. CASE TakeTagCommand(w) BY <1>6, TakeStaysFit, TakeEditShape, TakeAskShape DEF Becomes
<1>7. CASE SaveTagsEnds(w)
  BY <1>7, SavedShape, NoneAskedStayFit DEF Becomes, OvertakenAsBefore, HurriedAsBefore
<1>8. CASE SaveTagsFails(w) BY <1>8, SaveFailsShape, NoneAskedStayFit DEF Becomes
<1>9. CASE \E d \in TagFolders : Go(w, d) BY <1>9, GoStaysFit, GoShape DEF Becomes
<1>10. CASE \E selection \in SUBSET TaggedFiles : OpenTagMenu(w, selection)
  BY <1>10, OpenMenuStaysFit, OpenMenuShape DEF Becomes
<1>11. CASE \E t \in RuleNames : ToggleTag(w, t) BY <1>11, ToggleStaysFit, ToggleShape DEF Becomes
<1>12. CASE \E c \in tagWin[w].counting : CountTags(w, c) \/ TellCounts(w, c)
  BY <1>12, CountStaysFit, CountShape, TellStaysFit, TellShape DEF Becomes
<1> QED BY <1>1, <1>2, <1>3, <1>4, <1>5, <1>6, <1>7, <1>8, <1>9, <1>10, <1>11, <1>12 DEF TagStep

-------------------------------------------------------------------------------
(* The inductive invariant. *)
TagInv == TagTypes /\ CountsStayFit /\ RulesFit /\ EditsFit

(* It holds to begin with, *)
LEMMA TagInvInit == TagInit => TagInv
BY TagInitTypes, ClosedIsOff DEF TagInit, CountsStayFit, FitAt, RulesFit, EditsFit, FileIs, TagInv

(* after every step, *)
LEMMA TagInvStays == TagInv /\ [TagNext]_tagVars => TagInv'
<1> SUFFICES ASSUME TagInv, [TagNext]_tagVars PROVE TagInv' OBVIOUS
<1>1. CASE TagNext BY <1>1, CountsStayKept, RulesStayKept, EditsStayKept DEF TagNext, TagStep, TagInv
<1>2. CASE UNCHANGED tagVars
  <2>1. tagWin' = tagWin /\ tagsFile' = tagsFile /\ tagging' = tagging BY <1>2 DEF tagVars
  <2>2. TagTypes' /\ CountsStayFit' BY <2>1 DEF TagInv, TagTypes, CountsStayFit, FitAt
  <2>3. RulesFit' /\ EditsFit' BY <2>1 DEF TagInv, RulesFit, EditsFit, FileIs
  <2> QED BY <2>2, <2>3 DEF TagInv
<1> QED BY <1>1, <1>2

(* and what is tagged by hand is kept where it holds. *)
LEMMA TagInvKeeps == TagInv => TagsAreKept
<1> SUFFICES ASSUME TagInv PROVE TagsAreKept OBVIOUS
<1>0. TagTypes /\ CountsStayFit /\ RulesFit /\ EditsFit BY DEF TagInv
<1>1. ASSUME ~tagging.cut, ~tagging.dropped, ~tagging.shared, \A w \in TagWindows : Idle(w)
      PROVE  /\ FileIs(tagging.wanted)
             /\ \A w \in TagWindows : tagWin[w].on => tagWin[w].db.manual = tagging.wanted
  <2>1. \A w \in TagWindows : tagWin[w].commands = << >> /\ ~tagWin[w].saving BY <1>1 DEF Idle
  <2>2. ASSUME NEW w \in TagWindows, tagWin[w].on
        PROVE  tagWin[w].db.manual = tagging.wanted /\ FileIs(tagWin[w].db.manual)
    <3> DEFINE s == tagWin[w]
               wanted == tagging.wanted
    <3>1. /\ s.db \in Databases /\ s.commands = << >> /\ wanted \in Given
          /\ \A f \in TaggedFiles : \A x \in RuleNames : Makes(s, f, x, x \in wanted[f])
          /\ FileIs(s.db.manual)
      BY <1>0, <1>1, <2>1, <2>2, OfTypes, UndisturbedTypes DEF EditsFit
    <3> HIDE DEF s, wanted
    <3>2. s.db.manual = wanted BY <3>1, AllMade
    <3> QED BY <3>1, <3>2 DEF s, wanted
  <2>3. CASE \E w \in TagWindows : tagWin[w].on BY <2>2, <2>3
  <2>4. CASE \A w \in TagWindows : ~tagWin[w].on BY <1>0, <1>1, <2>4 DEF EditsFit
  <2> QED BY <2>2, <2>3, <2>4
<1>2. ASSUME FileIs(tagging.wanted)
      PROVE  /\ tagsFile = NoTags => tagging.wanted = Untagged
             /\ tagsFile # NoTags => tagsFile = [DefaultTags EXCEPT !.manual = tagging.wanted]
  <2>1. CASE tagsFile = NoTags /\ tagging.wanted = Untagged BY <2>1
  <2>2. CASE tagsFile = [DefaultTags EXCEPT !.manual = tagging.wanted]
    <3> DEFINE wanted == tagging.wanted
               loaded == [DefaultTags EXCEPT !.manual = wanted]
    <3>1. loaded.is = "tags" /\ NoTags.is = "no file"
      <4> HIDE DEF wanted
      <4> QED BY DEF DefaultTags, NoTags
    <3> HIDE DEF loaded
    <3>2. loaded # NoTags BY <3>1
    <3> QED BY <2>2, <3>2 DEF loaded
  <2> QED BY <1>2, <2>1, <2>2 DEF FileIs
<1>3. ~tagging.cut => \A w \in TagWindows : tagWin[w].on => tagWin[w].db.rules = RuleNames
  BY <1>0 DEF RulesFit
<1>4. TagsOutliveWindows BY <1>1, <1>2, <1>3 DEF TagsOutliveWindows
<1>5. CountsAreOfActivePane BY <1>0 DEF CountsAreOfActivePane, CountsStayFit, FitAt, Fits, LastIsRight
<1> QED BY <1>4, <1>5 DEF TagsAreKept

(* Tags by hand last and are counted: TagsAreKept always holds, for any windows, folders, files
   and tags, and whatever is done. What users of one window after another made of the tags is
   on file and in the engine once the commands have run, the rules are never lost (unless a
   save was cut short or read halfway), and the sidebar counts the files of the active pane's
   folder as they are tagged once all is answered. *)
THEOREM TagsAreAlwaysKept == TagSpec => []TagsAreKept
  BY TagInvInit, TagInvStays, TagInvKeeps, PTL DEF TagSpec
===============================================================================
