--------------------------- MODULE OperationControl ---------------------------
(***************************************************************************)
(* How one file operation is steered while it runs.  The window sends    *)
(* commands (start, pause, resume, cancel, answer a conflict) down one   *)
(* channel; the backend loop handles them in order; every operation is a *)
(* task of its own in OperationExecutor::execute, item by item, with the *)
(* checkpoint between items and the conflict prompt inside one; what     *)
(* happens is reported to the window over an event channel, also in      *)
(* order. Resolving a conflict is spawned, so answers overtake commands. *)
(*                                                                       *)
(* What an item's copy, move or deletion does to the filesystem is in    *)
(* FileOperations; here acting on an item only counts.                   *)
(***************************************************************************)
EXTENDS Naturals, Sequences, FiniteSets

CONSTANTS
    Operations,              \* operation ids, never reused (next_op_id only grows)
    Removals,                \* the operations that delete or trash: no pause, no conflicts
    Items,                   \* how many items each operation has
    MaxToggles,              \* bound on clicks of an operation's pause button
    DefaultStrategy          \* default_conflict_strategy of the configuration

Answers == {"Skip", "Overwrite", "Rename", "SkipAll", "OverwriteAll", "RenameAll"}
ForAll  == {"SkipAll", "OverwriteAll", "RenameAll"}
Skips   == {"Skip", "SkipAll"}

ASSUME ControlAssumption ==
    /\ Removals \subseteq Operations
    /\ Items \in Nat \ {0} /\ MaxToggles \in Nat
    /\ DefaultStrategy \in Answers \cup {"Ask"}

None == "none"

VARIABLES
    pc,             \* pc[o]: where o's task is
    at,             \* at[o]: the item it is on
    cancelMarks,    \* OperationQueue's cancellation marks
    paused,         \* OperationQueue's pause marks
    prompts,        \* pending_conflicts: operations with an answer channel
    answer,         \* answer[o]: what was sent into o's answer channel (at most
                    \* one resolution, with the item whose question the user saw)
    sticky,         \* sticky_strategies: an "apply to all" answer
    commands,       \* the window's command channel
    resolving,      \* resolve_pending calls spawned and not yet run
    events,         \* the event channel to the window
    row,            \* row[o]: o's card in the operation panel
    toggled,        \* toggled[o]: its pause button is down
    toggles,        \* clicks made on it (bounded by MaxToggles)
    dialog,         \* dialog[o]: the item the open conflict dialog asks about, or 0
    late            \* history: items acted on since o was marked cancelled

executorVars == <<pc, at, prompts, answer, sticky>>
markVars     == <<cancelMarks, paused>>
windowVars   == <<row, toggled, toggles, dialog>>
controlVars  == <<executorVars, markVars, windowVars, late, commands,
                  resolving, events>>

ControlInit ==
    /\ pc = [o \in Operations |-> "idle"] /\ at = [o \in Operations |-> 1]
    /\ cancelMarks = {} /\ paused = {} /\ prompts = {} /\ resolving = {}
    /\ answer = [o \in Operations |-> {}] /\ sticky = [o \in Operations |-> None]
    /\ commands = <<>> /\ events = <<>>
    /\ row = [o \in Operations |-> "absent"] /\ toggled = [o \in Operations |-> FALSE]
    /\ toggles = [o \in Operations |-> 0] /\ dialog = [o \in Operations |-> 0]
    /\ late = [o \in Operations |-> 0]

Cmd(name, o) == [cmd |-> name, op |-> o]
Event(name, o) == [event |-> name, op |-> o, item |-> at[o]]
Send(cmds) == commands' = commands \o cmds
Emit(name, o) == events' = Append(events, Event(name, o))

-------------------------------------------------------------------------------
(* The window: what the user does. *)

Request(o) ==
    /\ pc[o] = "idle" /\ \A i \in 1..Len(commands) : commands[i].op # o
    /\ Send(<<Cmd("start", o)>>)
    /\ UNCHANGED <<executorVars, markVars, windowVars, late, resolving, events>>

TogglePause(o) ==
    /\ row[o] = "shown" /\ toggles[o] < MaxToggles
    /\ toggled' = [toggled EXCEPT ![o] = ~@]
    /\ toggles' = [toggles EXCEPT ![o] = @ + 1]
    /\ Send(<<Cmd(IF toggled[o] THEN "resume" ELSE "pause", o)>>)
    /\ UNCHANGED <<executorVars, markVars, late, row, dialog, resolving, events>>

(* The panel's cancel button: a paused operation is resumed first. *)
ClickCancel(o) ==
    /\ row[o] = "shown"
    /\ Send(IF toggled[o] THEN <<Cmd("resume", o), Cmd("cancel", o)>>
                          ELSE <<Cmd("cancel", o)>>)
    /\ toggled' = [toggled EXCEPT ![o] = FALSE]
    /\ row' = [row EXCEPT ![o] = "cancelling"]
    /\ UNCHANGED <<executorVars, markVars, late, toggles, dialog, resolving, events>>

Resolution(o, strategy) ==
    [cmd |-> "resolve", op |-> o, strategy |-> strategy, item |-> dialog[o]]

(* Mutants of AnswerConflict: the dialog can be answered again; closing it without a choice
   sends nothing. *)
AnswerAgain(o, strategy) ==
    /\ dialog[o] # 0 /\ Len(commands) < 4
    /\ Send(<<Resolution(o, strategy)>>)
    /\ UNCHANGED <<executorVars, markVars, late, row, toggled, toggles,
                   dialog, resolving, events>>
CloseSilently(o, strategy) ==
    /\ dialog[o] # 0
    /\ dialog' = [dialog EXCEPT ![o] = 0]
    /\ IF strategy = "Skip" THEN Send(<<>>) ELSE Send(<<Resolution(o, strategy)>>)
    /\ UNCHANGED <<executorVars, markVars, late, row, toggled, toggles,
                   resolving, events>>

(* Every way out of the dialog answers, once; closing it counts as Skip. *)
AnswerConflict(o, strategy) ==
    /\ dialog[o] # 0
    /\ dialog' = [dialog EXCEPT ![o] = 0]
    /\ Send(<<Resolution(o, strategy)>>)
    /\ UNCHANGED <<executorVars, markVars, late, row, toggled, toggles,
                   resolving, events>>

(* ... except Cancel Operation, which cancels instead of answering. *)
CancelFromDialog(o) ==
    /\ dialog[o] # 0
    /\ dialog' = [dialog EXCEPT ![o] = 0]
    /\ Send(<<Cmd("cancel", o)>>)
    /\ UNCHANGED <<executorVars, markVars, late, row, toggled, toggles,
                   resolving, events>>

(* The window's event handler: a new question replaces the dialog of the last one, the end of
   the operation takes card and dialog down. *)
HandleEvent ==
    /\ events # <<>>
    /\ events' = Tail(events)
    /\ LET e == Head(events) IN
         /\ row' = [row EXCEPT ![e.op] =
                       CASE e.event = "started" -> "shown"
                         [] e.event = "over" -> "absent" [] OTHER -> @]
         /\ dialog' = [dialog EXCEPT ![e.op] =
                          CASE e.event = "conflict" -> e.item
                            [] e.event = "over" -> 0 [] OTHER -> @]
    /\ UNCHANGED <<executorVars, markVars, late, toggled, toggles,
                   commands, resolving>>

-------------------------------------------------------------------------------
(* The backend loop takes one command at a time. *)

NextCommand(name, o) ==
    /\ commands # <<>> /\ Head(commands).cmd = name /\ Head(commands).op = o
    /\ commands' = Tail(commands)

(* The id is drawn when the command is handled, so it is a fresh one. *)
HandleStart(o) ==
    /\ NextCommand("start", o) /\ pc[o] = "idle"
    /\ Emit("started", o)
    /\ pc' = [pc EXCEPT ![o] = "spawned"]
    /\ UNCHANGED <<at, prompts, answer, sticky, markVars, windowVars,
                   late, resolving>>

HandlePause(o) ==
    /\ NextCommand("pause", o)
    /\ paused' = paused \cup {o}
    /\ UNCHANGED <<executorVars, cancelMarks, windowVars, late, resolving, events>>

HandleResume(o) ==
    /\ NextCommand("resume", o)
    /\ paused' = paused \ {o}
    /\ UNCHANGED <<executorVars, cancelMarks, windowVars, late, resolving, events>>

(* Nothing is ever pending in the queue here, so cancel leaves a mark. *)
HandleCancel(o) ==
    /\ NextCommand("cancel", o)
    /\ cancelMarks' = cancelMarks \cup {o}
    /\ UNCHANGED <<executorVars, paused, windowVars, late, resolving, events>>

HandleResolve(o) ==
    /\ NextCommand("resolve", o)
    /\ resolving' = resolving \cup {Head(commands)}
    /\ UNCHANGED <<executorVars, markVars, windowVars, late, events>>

(* resolve_pending: hand the answer to whoever waits, if anyone still does. *)
ResolvePending(r) ==
    /\ r \in resolving
    /\ resolving' = resolving \ {r}
    /\ answer' = [answer EXCEPT ![r.op] = IF r.op \in prompts THEN {r} ELSE @]
    /\ prompts' = prompts \ {r.op}
    /\ UNCHANGED <<pc, at, sticky, markVars, windowVars, late, commands, events>>

-------------------------------------------------------------------------------
(* The operation's task. *)

Goto(o, label) == pc' = [pc EXCEPT ![o] = label]

(* execute returns and the spawned task reports it. *)
Leave(o) ==
    /\ Goto(o, "over")
    /\ prompts' = prompts \ {o}
    /\ answer' = [answer EXCEPT ![o] = {}]
    /\ sticky' = [sticky EXCEPT ![o] = None]
    /\ Emit("over", o)

(* A cancellation seen is cleared and ends the operation. *)
SeeCancel(o) ==
    /\ o \in cancelMarks
    /\ cancelMarks' = cancelMarks \ {o}
    /\ Leave(o)
    /\ UNCHANGED <<at, paused, windowVars, late, commands, resolving>>

Start(o) ==
    /\ pc[o] = "spawned"
    /\ \/ SeeCancel(o)
       \/ /\ o \notin cancelMarks
          /\ Goto(o, "between")
          /\ UNCHANGED <<at, prompts, answer, sticky, markVars, windowVars,
                         late, commands, resolving, events>>

(* Between items: the first half of checkpoint, all a removal does. *)
Checkpoint(o) ==
    /\ pc[o] = "between" /\ at[o] <= Items
    /\ \/ SeeCancel(o)
       \/ /\ o \notin cancelMarks
          /\ Goto(o, IF o \in Removals THEN "acting" ELSE "held")
          /\ UNCHANGED <<at, prompts, answer, sticky, markVars, windowVars,
                         late, commands, resolving, events>>

(* The second half of checkpoint: sleep until not paused. *)
PassPause(o) ==
    /\ pc[o] = "held" /\ o \notin paused
    /\ Goto(o, "resolving")
    /\ UNCHANGED <<at, prompts, answer, sticky, markVars, windowVars,
                   late, commands, resolving, events>>

(* What a strategy makes of the item: on to the next, or act on it. *)
Follow(o, strategy) ==
    IF strategy \in Skips
    THEN Goto(o, "between") /\ at' = [at EXCEPT ![o] = @ + 1]
    ELSE Goto(o, "acting") /\ UNCHANGED at

(* resolve_conflict without a conflict, or with one that is decided already. *)
ResolveItem(o) ==
    /\ pc[o] = "resolving"
    /\ \/ Goto(o, "acting") /\ UNCHANGED at
       \/ sticky[o] # None /\ Follow(o, sticky[o])
       \/ sticky[o] = None /\ DefaultStrategy # "Ask" /\ Follow(o, DefaultStrategy)
    /\ UNCHANGED <<prompts, answer, sticky, markVars, windowVars, late,
                   commands, resolving, events>>

(* ask_user registers an answer channel and sends the question. *)
AskUser(o) ==
    /\ pc[o] = "resolving" /\ sticky[o] = None /\ DefaultStrategy = "Ask"
    /\ Goto(o, "asking")
    /\ prompts' = prompts \cup {o}
    /\ answer' = [answer EXCEPT ![o] = {}]
    /\ Emit("conflict", o)
    /\ UNCHANGED <<at, sticky, markVars, windowVars, late, commands, resolving>>

TakeAnswer(o) ==
    /\ pc[o] = "asking"
    /\ \E r \in answer[o] :
          /\ Follow(o, r.strategy)
          /\ sticky' = [sticky EXCEPT ![o] =
                           IF r.strategy \in ForAll THEN r.strategy ELSE @]
    /\ answer' = [answer EXCEPT ![o] = {}]
    /\ UNCHANGED <<prompts, markVars, windowVars, late, commands, resolving, events>>

(* The poll beside the answer; when both are ready either may win. *)
PollCancelled(o) == pc[o] = "asking" /\ SeeCancel(o)

(* Act on the item; an error ends the whole operation. *)
Act(o) ==
    /\ pc[o] = "acting"
    /\ late' = [late EXCEPT ![o] = IF o \in cancelMarks THEN @ + 1 ELSE @]
    /\ \/ /\ Goto(o, "between") /\ at' = [at EXCEPT ![o] = @ + 1]
          /\ UNCHANGED <<prompts, answer, sticky, events>>
       \/ Leave(o) /\ UNCHANGED at
    /\ UNCHANGED <<markVars, windowVars, commands, resolving>>

Finish(o) ==
    /\ pc[o] = "between" /\ at[o] > Items
    /\ Leave(o)
    /\ UNCHANGED <<at, markVars, windowVars, late, commands, resolving>>

-------------------------------------------------------------------------------
UserStep(o) ==
    \/ Request(o) \/ TogglePause(o) \/ ClickCancel(o) \/ CancelFromDialog(o)
    \/ \E s \in Answers : AnswerConflict(o, s)

HandleCommand ==
    \E o \in Operations :
        HandleStart(o) \/ HandlePause(o) \/ HandleResume(o) \/ HandleCancel(o)
        \/ HandleResolve(o)

TaskStep(o) ==
    \/ Start(o) \/ Checkpoint(o) \/ PassPause(o) \/ ResolveItem(o) \/ AskUser(o)
    \/ TakeAnswer(o) \/ PollCancelled(o) \/ Act(o) \/ Finish(o)

ControlNext ==
    \/ HandleCommand \/ HandleEvent
    \/ \E r \in resolving : ResolvePending(r)
    \/ \E o \in Operations : UserStep(o) \/ TaskStep(o)

ControlSpec == ControlInit /\ [][ControlNext]_controlVars

(* The runtime keeps polling tasks and both loops keep running; the user owes nothing. *)
SystemFairness ==
    /\ WF_controlVars(HandleCommand) /\ WF_controlVars(HandleEvent)
    /\ WF_controlVars(\E r \in resolving : ResolvePending(r))
    /\ \A o \in Operations : WF_controlVars(TaskStep(o))

ControlFairSpec == ControlSpec /\ SystemFairness

-------------------------------------------------------------------------------
Labels == {"idle", "spawned", "between", "held", "resolving", "asking", "acting", "over"}

ControlTypeOK ==
    /\ pc \in [Operations -> Labels] /\ at \in [Operations -> 1..(Items + 1)]
    /\ cancelMarks \subseteq Operations /\ paused \subseteq Operations /\ prompts \subseteq Operations
    /\ row \in [Operations -> {"absent", "shown", "cancelling"}]
    /\ toggles \in [Operations -> 0..MaxToggles] /\ dialog \in [Operations -> 0..Items]
    /\ sticky \in [Operations -> ForAll \cup {None}]

(* An answer only ever settles the question it was given to: while it travels (command channel,
   spawned task, answer channel) the operation stays on that item, or it is over. *)
InFlight(o) ==
    {commands[i] : i \in {j \in 1..Len(commands) :
                             commands[j].cmd = "resolve" /\ commands[j].op = o}}
    \cup {r \in resolving : r.op = o}
    \cup answer[o]

AnswersMeetTheirQuestion ==
    \A o \in Operations : \A r \in InFlight(o) :
        pc[o] = "over" \/ (pc[o] = "asking" /\ r.item = at[o])

(* A task blocked on the user can always be reached: its answer channel is registered or its
   answer is already in it; and nobody else has one. *)
PromptsAreOwned ==
    \A o \in Operations :
        (o \in prompts) <=> (pc[o] = "asking" /\ answer[o] = {})

(* executor.rs: "Answers only ever apply to the operation they were given for": nothing stays
   decided once the operation is over. *)
AnswersEndWithOperation ==
    \A o \in Operations : sticky[o] # None => pc[o] \notin {"idle", "spawned", "over"}

(* Once the window has read all its events, an operation that is over has neither a card nor a
   dialog left, whatever crossed on the way. *)
NothingLeftInWindow ==
    events = <<>> =>
        \A o \in Operations : pc[o] = "over" => row[o] = "absent" /\ dialog[o] = 0

(* From the moment the backend marks an operation cancelled it acts on at most one more item. *)
CancelCostsOneItem == \A o \in Operations : late[o] <= 1

(* Questions, answers, cards and dialogs belong to an operation, and end with it; and so does a
   cancelled one, soon. *)
NothingOutlivesOperation ==
    /\ ControlTypeOK /\ AnswersMeetTheirQuestion /\ PromptsAreOwned
    /\ AnswersEndWithOperation /\ NothingLeftInWindow /\ CancelCostsOneItem

(* An operation under way ends at last, or it is paused, or its question is open before the
   user: it never just stays where it is. One that is cancelled ends, from every state, without
   help of the user. *)
OperationsEnd ==
    \A o \in Operations :
        /\ (pc[o] \notin {"idle", "over"}) ~> (pc[o] = "over" \/ o \in paused \/ dialog[o] # 0)
        /\ (o \in cancelMarks) ~> (pc[o] = "over")
===============================================================================
