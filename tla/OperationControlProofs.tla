------------------------ MODULE OperationControlProofs ------------------------
(***************************************************************************)
(* Proofs about OperationControl for any operations, any number of items *)
(* and any clicks on the pause button; and about Settings: what is set   *)
(* is on file, and in force.                                             *)
(***************************************************************************)
EXTENDS OperationControl, Settings, Integers, FiniteSetTheorems, WellFoundedInduction, TLAPS

-------------------------------------------------------------------------------
(* The inductive invariant. *)

Resolutions == [cmd : {"resolve"}, op : Operations, strategy : Answers, item : 0..Items]
PlainCommands == [cmd : {"start", "pause", "resume", "cancel"}, op : Operations]
Commands == PlainCommands \cup Resolutions
Questions == [event : {"conflict"}, op : Operations, item : 1..Items]
Reports == [event : {"started", "over"}, op : Operations, item : 1..(Items + 1)]
Events == Questions \cup Reports

(* On an item there is an item. *)
OnItem == {"held", "resolving", "asking", "acting"}

ControlTypes ==
    /\ ControlTypeOK
    /\ \A o \in Operations : pc[o] \in OnItem => at[o] <= Items
    /\ commands \in Seq(Commands) /\ events \in Seq(Events) /\ resolving \subseteq Resolutions
    /\ answer \in [Operations -> SUBSET Resolutions]
    /\ \A o \in Operations : \A r \in answer[o] : r.op = o
    /\ toggled \in [Operations -> BOOLEAN] /\ late \in [Operations -> Nat]

(* Where a question of o and its answer can be: in the event channel, in the dialog, in the
   command channel, with a resolve_pending that was spawned, in the answer channel. *)
Asked(o)      == {i \in 1..Len(events) : events[i].event = "conflict" /\ events[i].op = o}
InDialog(o)   == dialog[o] # 0
Answered(o)   == {i \in 1..Len(commands) : commands[i].cmd = "resolve" /\ commands[i].op = o}
Resolving(o)  == {r \in resolving : r.op = o}

(* A question of an operation that is not over is in one of these places, once, and it is of
   the item that the operation waits on. *)
OneQuestion(o) ==
    pc[o] # "over" =>
       /\ \A i \in Asked(o) :
             /\ pc[o] = "asking" /\ events[i].item = at[o] /\ Asked(o) = {i}
             /\ ~InDialog(o) /\ Answered(o) = {} /\ Resolving(o) = {} /\ answer[o] = {}
       /\ InDialog(o) =>
             /\ pc[o] = "asking" /\ dialog[o] = at[o]
             /\ Answered(o) = {} /\ Resolving(o) = {} /\ answer[o] = {}
       /\ \A i \in Answered(o) :
             /\ pc[o] = "asking" /\ commands[i].item = at[o] /\ Answered(o) = {i}
             /\ Resolving(o) = {} /\ answer[o] = {}
       /\ \A r \in Resolving(o) :
             pc[o] = "asking" /\ r.item = at[o] /\ Resolving(o) = {r} /\ answer[o] = {}
       /\ \A r \in answer[o] : pc[o] = "asking" /\ r.item = at[o] /\ answer[o] = {r}

PromptIsOwned(o) == (o \in prompts) <=> (pc[o] = "asking" /\ answer[o] = {})

AnswerEnds(o) == sticky[o] # None => pc[o] \notin {"idle", "spawned", "over"}

(* The end of an operation is the last that the window hears of it. *)
EndIsHeard(o) ==
    pc[o] = "over" =>
       \/ \E i \in 1..Len(events) :
             /\ events[i].event = "over" /\ events[i].op = o
             /\ \A j \in 1..Len(events) : events[j].op = o => j <= i
       \/ /\ \A j \in 1..Len(events) : events[j].op # o
          /\ row[o] = "absent" /\ dialog[o] = 0

(* Once it has acted on an item in spite of the mark, a cancelled operation is over, or it is
   between items, where it sees the mark. *)
CancelIsSeen(o) ==
    late[o] = 0 \/ (late[o] = 1 /\ (pc[o] = "over" \/ (pc[o] = "between" /\ o \in cancelMarks)))

OperationOK(o) ==
    OneQuestion(o) /\ PromptIsOwned(o) /\ AnswerEnds(o) /\ EndIsHeard(o) /\ CancelIsSeen(o)

ControlInv == ControlTypes /\ \A o \in Operations : OperationOK(o)

(* The invariant is stronger than what a run checks. *)
LEMMA InvImpliesNothingOutlives == ControlInv => NothingOutlivesOperation
<1> SUFFICES ASSUME ControlInv PROVE NothingOutlivesOperation OBVIOUS
<1>1. AnswersMeetTheirQuestion
  <2> SUFFICES ASSUME NEW o \in Operations, NEW r \in InFlight(o), pc[o] # "over"
               PROVE  pc[o] = "asking" /\ r.item = at[o]
    BY DEF AnswersMeetTheirQuestion
  <2>1. OneQuestion(o) BY DEF ControlInv, OperationOK
  <2>2. CASE r \in answer[o] BY <2>1, <2>2 DEF OneQuestion
  <2>3. CASE r \in resolving /\ r.op = o BY <2>1, <2>3 DEF OneQuestion, Resolving
  <2>4. ASSUME NEW i \in 1..Len(commands), commands[i].cmd = "resolve", commands[i].op = o, r = commands[i]
        PROVE  pc[o] = "asking" /\ r.item = at[o]
    BY <2>1, <2>4 DEF OneQuestion, Answered
  <2> QED BY <2>2, <2>3, <2>4 DEF InFlight
<1>2. PromptsAreOwned /\ AnswersEndWithOperation
  BY DEF ControlInv, OperationOK, PromptIsOwned, AnswerEnds, PromptsAreOwned, AnswersEndWithOperation
<1>3. NothingLeftInWindow
  <2> SUFFICES ASSUME events = <<>>, NEW o \in Operations, pc[o] = "over"
               PROVE  row[o] = "absent" /\ dialog[o] = 0
    BY DEF NothingLeftInWindow
  <2> QED BY DEF ControlInv, OperationOK, EndIsHeard
<1>4. CancelCostsOneItem BY DEF ControlInv, OperationOK, CancelIsSeen, CancelCostsOneItem
<1> QED BY <1>1, <1>2, <1>3, <1>4 DEF NothingOutlivesOperation, ControlInv, ControlTypes

(* Nothing has been asked, and nothing is over. *)
LEMMA ControlInitInv == ControlInit => ControlInv
<1> SUFFICES ASSUME ControlInit PROVE ControlInv OBVIOUS
<1>1. ControlTypes BY ControlAssumption DEF ControlInit, ControlTypes, ControlTypeOK, Labels, OnItem
<1>2. ASSUME NEW o \in Operations PROVE OperationOK(o)
  BY DEF ControlInit, OperationOK, OneQuestion, PromptIsOwned, AnswerEnds, EndIsHeard, CancelIsSeen,
    Asked, InDialog, Answered, Resolving
<1> QED BY <1>1, <1>2 DEF ControlInv

-------------------------------------------------------------------------------
(* The two channels. *)

(* An event is sent behind those that wait. *)
LEMMA AppendEntries ==
    ASSUME NEW S, NEW s \in Seq(S), NEW e \in S
    PROVE  /\ Append(s, e) \in Seq(S) /\ Len(Append(s, e)) = Len(s) + 1
           /\ \A i \in 1..Len(s) : Append(s, e)[i] = s[i]
           /\ Append(s, e)[Len(s) + 1] = e
  OBVIOUS

(* Commands that are sent together come behind those that wait. *)
LEMMA ConcatEntries ==
    ASSUME NEW S, NEW s \in Seq(S), NEW c \in Seq(S)
    PROVE  /\ s \o c \in Seq(S) /\ Len(s \o c) = Len(s) + Len(c)
           /\ \A i \in 1..Len(s) : (s \o c)[i] = s[i]
           /\ \A i \in 1..Len(c) : (s \o c)[Len(s) + i] = c[i]
  OBVIOUS

(* Taking the first moves the others up. *)
LEMMA TailEntries ==
    ASSUME NEW S, NEW s \in Seq(S), s # <<>>
    PROVE  /\ Tail(s) \in Seq(S) /\ Len(Tail(s)) = Len(s) - 1 /\ Len(s) >= 1
           /\ Head(s) = s[1] /\ Head(s) \in S
           /\ \A i \in 1..(Len(s) - 1) : Tail(s)[i] = s[i + 1]
  OBVIOUS

(* What a channel has of one kind is the same before and after, moved by d: F holds of entries
   of that kind in s, G in t. *)
Moved(s, t, F, G, d) ==
    /\ \A i \in F : i - d \in G /\ t[i - d] = s[i]
    /\ \A i \in G : i + d \in F /\ s[i + d] = t[i]

EventsOf(o) == {i \in 1..Len(events) : events[i].op = o}
EventsSame(o) == \E d \in {0, 1} : Moved(events, events', EventsOf(o), EventsOf(o)', d)
AnsweredSame(o) == \E d \in {0, 1} : Moved(commands, commands', Answered(o), Answered(o)', d)

(* No event comes or goes. *)
LEMMA EventsUnchanged ==
    ASSUME ControlTypes, NEW o \in Operations, UNCHANGED events
    PROVE  EventsSame(o) /\ events' \in Seq(Events)
  BY DEF EventsSame, Moved, EventsOf, ControlTypes

(* An event of another operation is sent. *)
LEMMA EmitOther ==
    ASSUME ControlTypes, NEW o \in Operations, NEW p \in Operations, p # o,
           NEW name, Event(name, p) \in Events, Emit(name, p)
    PROVE  EventsSame(o) /\ events' \in Seq(Events)
<1>1. Event(name, p) \in Events /\ Event(name, p).op = p BY DEF Event
<1>2. /\ events' \in Seq(Events) /\ Len(events') = Len(events) + 1
      /\ \A i \in 1..Len(events) : events'[i] = events[i]
      /\ events'[Len(events) + 1] = Event(name, p)
  BY <1>1, AppendEntries DEF Emit, ControlTypes
<1>3. Moved(events, events', EventsOf(o), EventsOf(o)', 0) BY <1>1, <1>2 DEF Moved, EventsOf
<1> QED BY <1>2, <1>3 DEF EventsSame

(* No command comes or goes. *)
LEMMA CommandsUnchanged ==
    ASSUME ControlTypes, NEW o \in Operations, UNCHANGED commands
    PROVE  AnsweredSame(o) /\ commands' \in Seq(Commands)
  BY DEF AnsweredSame, Moved, Answered, ControlTypes

(* Commands that answer no question of o are sent. *)
LEMMA SendOther ==
    ASSUME ControlTypes, NEW o \in Operations, NEW cmds \in Seq(Commands), Send(cmds),
           \A i \in 1..Len(cmds) : cmds[i].cmd # "resolve" \/ cmds[i].op # o
    PROVE  AnsweredSame(o) /\ commands' \in Seq(Commands)
<1>1. /\ commands' \in Seq(Commands) /\ Len(commands') = Len(commands) + Len(cmds)
      /\ \A i \in 1..Len(commands) : commands'[i] = commands[i]
      /\ \A i \in 1..Len(cmds) : commands'[Len(commands) + i] = cmds[i]
  BY ConcatEntries DEF Send, ControlTypes
<1>2. ASSUME NEW i \in Answered(o)' PROVE i \in 1..Len(commands)
  <2>1. i \in 1..(Len(commands) + Len(cmds)) /\ commands'[i].cmd = "resolve" /\ commands'[i].op = o
    BY <1>1 DEF Answered
  <2>2. CASE i > Len(commands)
    <3>1. (i - Len(commands)) \in 1..Len(cmds) /\ Len(commands) + (i - Len(commands)) = i
      BY <2>1, <2>2 DEF ControlTypes
    <3> QED BY <1>1, <2>1, <3>1
  <2> QED BY <2>1, <2>2 DEF ControlTypes
<1>3. Moved(commands, commands', Answered(o), Answered(o)', 0)
  BY <1>1, <1>2 DEF Moved, Answered, ControlTypes
<1> QED BY <1>1, <1>3 DEF AnsweredSame

(* A command that answers no question of o is taken. *)
LEMMA TakeOther ==
    ASSUME ControlTypes, NEW o \in Operations, NEW name, NEW p, NextCommand(name, p),
           name # "resolve" \/ p # o
    PROVE  AnsweredSame(o) /\ commands' \in Seq(Commands)
<1>1. /\ commands' \in Seq(Commands) /\ Len(commands') = Len(commands) - 1 /\ Len(commands) >= 1
      /\ Head(commands) = commands[1]
      /\ \A i \in 1..(Len(commands) - 1) : commands'[i] = commands[i + 1]
  BY TailEntries DEF NextCommand, ControlTypes
<1>2. 1 \notin Answered(o) BY <1>1 DEF Answered, NextCommand
<1>3. \A i \in Answered(o) : i - 1 \in 1..(Len(commands) - 1) /\ (i - 1) + 1 = i
  BY <1>2 DEF Answered, ControlTypes
<1>4. Moved(commands, commands', Answered(o), Answered(o)', 1) BY <1>1, <1>3 DEF Moved, Answered
<1> QED BY <1>1, <1>4 DEF AnsweredSame

(* The event that the window reads is of another operation. *)
LEMMA ReadOther ==
    ASSUME ControlTypes, NEW o \in Operations, events # <<>>, events' = Tail(events), Head(events).op # o
    PROVE  EventsSame(o) /\ events' \in Seq(Events)
<1>1. /\ events' \in Seq(Events) /\ Len(events') = Len(events) - 1 /\ Len(events) >= 1
      /\ Head(events) = events[1]
      /\ \A i \in 1..(Len(events) - 1) : events'[i] = events[i + 1]
  BY TailEntries DEF ControlTypes
<1>2. 1 \notin EventsOf(o) BY <1>1 DEF EventsOf
<1>3. \A i \in EventsOf(o) : i - 1 \in 1..(Len(events) - 1) /\ (i - 1) + 1 = i
  BY <1>2 DEF EventsOf, ControlTypes
<1>4. Moved(events, events', EventsOf(o), EventsOf(o)', 1) BY <1>1, <1>3 DEF Moved, EventsOf
<1> QED BY <1>1, <1>4 DEF EventsSame

-------------------------------------------------------------------------------
(* Questions that a step does not touch. *)

NoQuestion(o) ==
    Asked(o) = {} /\ ~InDialog(o) /\ Answered(o) = {} /\ Resolving(o) = {} /\ answer[o] = {}

(* An operation that does not ask has no question anywhere. *)
LEMMA NobodyAsks ==
    ASSUME NEW o \in Operations, OneQuestion(o), pc[o] \notin {"asking", "over"}
    PROVE  NoQuestion(o)
  BY DEF OneQuestion, NoQuestion

AskedSame(o) == \E d \in {0, 1} : Moved(events, events', Asked(o), Asked(o)', d)

(* Questions move with the events they are. *)
LEMMA AskedMoves ==
    ASSUME ControlTypes, NEW o \in Operations, EventsSame(o)
    PROVE  AskedSame(o)
<1>1. PICK d \in {0, 1} : Moved(events, events', EventsOf(o), EventsOf(o)', d) BY DEF EventsSame
<1>2. Asked(o) = {i \in EventsOf(o) : events[i].event = "conflict"} BY DEF Asked, EventsOf
<1>3. Asked(o)' = {i \in EventsOf(o)' : events'[i].event = "conflict"} BY DEF Asked, EventsOf
<1>4. Moved(events, events', Asked(o), Asked(o)', d) BY <1>1, <1>2, <1>3 DEF Moved
<1> QED BY <1>4 DEF AskedSame

(* A question stays one if its operation stays where it is; a dialog may close. *)
LEMMA QuestionStays ==
    ASSUME ControlTypes, NEW o \in Operations, OneQuestion(o), AskedSame(o), AnsweredSame(o),
           Resolving(o)' = Resolving(o), pc'[o] = pc[o], at'[o] = at[o], answer'[o] = answer[o],
           dialog'[o] \in {dialog[o], 0}
    PROVE  OneQuestion(o)'
<1> SUFFICES ASSUME pc[o] # "over" PROVE OneQuestion(o)' BY DEF OneQuestion
<1>0. Asked(o) \in SUBSET Int /\ Asked(o)' \in SUBSET Int /\ Answered(o) \in SUBSET Int /\ Answered(o)' \in SUBSET Int
  BY DEF Asked, Answered
<1>1. PICK d \in {0, 1} : Moved(events, events', Asked(o), Asked(o)', d) BY DEF AskedSame
<1>2. /\ Asked(o) = {} => Asked(o)' = {}
      /\ \A i \in Asked(o)' : i + d \in Asked(o) /\ events'[i] = events[i + d] /\ (Asked(o) = {i + d} => Asked(o)' = {i})
  <2>1. Asked(o) = {} => Asked(o)' = {} BY <1>1 DEF Moved
  <2>2. ASSUME NEW i \in Asked(o)' PROVE i + d \in Asked(o) /\ events'[i] = events[i + d]
    BY <1>1 DEF Moved
  <2>3. ASSUME NEW i \in Asked(o)', Asked(o) = {i + d}, NEW j \in Asked(o)' PROVE j = i
    <3>1. i \in Int /\ j \in Int BY <1>0
    <3>2. j + d = i + d BY <2>2, <2>3
    <3> QED BY <3>1, <3>2
  <2> QED BY <2>1, <2>2, <2>3
<1>3. PICK c \in {0, 1} : Moved(commands, commands', Answered(o), Answered(o)', c) BY DEF AnsweredSame
<1>4. /\ Answered(o) = {} => Answered(o)' = {}
      /\ \A i \in Answered(o)' : /\ i + c \in Answered(o) /\ commands'[i] = commands[i + c]
                                /\ (Answered(o) = {i + c} => Answered(o)' = {i})
  <2>1. Answered(o) = {} => Answered(o)' = {} BY <1>3 DEF Moved
  <2>2. ASSUME NEW i \in Answered(o)' PROVE i + c \in Answered(o) /\ commands'[i] = commands[i + c]
    BY <1>3 DEF Moved
  <2>3. ASSUME NEW i \in Answered(o)', Answered(o) = {i + c}, NEW j \in Answered(o)' PROVE j = i
    <3>1. i \in Int /\ j \in Int BY <1>0
    <3>2. j + c = i + c BY <2>2, <2>3
    <3> QED BY <3>1, <3>2
  <2> QED BY <2>1, <2>2, <2>3
<1>5. InDialog(o)' => InDialog(o) /\ dialog'[o] = dialog[o] BY DEF InDialog
<1>6. ASSUME NEW i \in Asked(o)'
      PROVE  /\ pc'[o] = "asking" /\ events'[i].item = at'[o] /\ Asked(o)' = {i}
             /\ ~InDialog(o)' /\ Answered(o)' = {} /\ Resolving(o)' = {} /\ answer'[o] = {}
  <2>1. i + d \in Asked(o) /\ events'[i] = events[i + d] /\ (Asked(o) = {i + d} => Asked(o)' = {i})
    BY <1>2
  <2>2. /\ pc[o] = "asking" /\ events[i + d].item = at[o] /\ Asked(o) = {i + d}
        /\ ~InDialog(o) /\ Answered(o) = {} /\ Resolving(o) = {} /\ answer[o] = {}
    BY <2>1 DEF OneQuestion
  <2> QED BY <2>1, <2>2, <1>4, <1>5
<1>7. ASSUME InDialog(o)'
      PROVE  /\ pc'[o] = "asking" /\ dialog'[o] = at'[o]
             /\ Answered(o)' = {} /\ Resolving(o)' = {} /\ answer'[o] = {}
  BY <1>7, <1>4, <1>5 DEF OneQuestion
<1>8. ASSUME NEW i \in Answered(o)'
      PROVE  /\ pc'[o] = "asking" /\ commands'[i].item = at'[o] /\ Answered(o)' = {i}
             /\ Resolving(o)' = {} /\ answer'[o] = {}
  BY <1>4 DEF OneQuestion
<1>9. ASSUME NEW r \in Resolving(o)'
      PROVE  pc'[o] = "asking" /\ r.item = at'[o] /\ Resolving(o)' = {r} /\ answer'[o] = {}
  BY DEF OneQuestion
<1>10. ASSUME NEW r \in answer'[o] PROVE pc'[o] = "asking" /\ r.item = at'[o] /\ answer'[o] = {r}
  BY DEF OneQuestion
<1> QED BY <1>6, <1>7, <1>8, <1>9, <1>10 DEF OneQuestion

(* What is over stays the last the window hears, or has heard. *)
LEMMA EndStaysHeard ==
    ASSUME ControlTypes, NEW o \in Operations, EndIsHeard(o), EventsSame(o), pc'[o] = pc[o],
           events' \in Seq(Events),
           dialog'[o] \in {dialog[o], 0}, row'[o] = row[o] \/ row[o] # "absent"
    PROVE  EndIsHeard(o)'
<1> SUFFICES ASSUME pc[o] = "over" PROVE EndIsHeard(o)' BY DEF EndIsHeard
<1>1. PICK d \in {0, 1} : Moved(events, events', EventsOf(o), EventsOf(o)', d) BY DEF EventsSame
<1>2. CASE \A j \in 1..Len(events) : events[j].op # o
  <2>1. \A j \in 1..Len(events') : events'[j].op # o BY <1>1, <1>2 DEF Moved, EventsOf
  <2>2. row[o] = "absent" /\ dialog[o] = 0 BY <1>2 DEF EndIsHeard
  <2> QED BY <2>1, <2>2 DEF EndIsHeard
<1>3. ASSUME NEW i \in 1..Len(events), events[i].event = "over", events[i].op = o,
             \A j \in 1..Len(events) : events[j].op = o => j <= i
      PROVE  EndIsHeard(o)'
  <2>1. i \in EventsOf(o) BY <1>3 DEF EventsOf
  <2>2. i - d \in EventsOf(o)' /\ events'[i - d] = events[i] BY <1>1, <2>1 DEF Moved
  <2>3. ASSUME NEW j \in 1..Len(events'), events'[j].op = o PROVE j <= i - d
    <3>1. j \in EventsOf(o)' BY <2>3 DEF EventsOf
    <3>2. j + d \in EventsOf(o) BY <1>1, <3>1 DEF Moved
    <3>3. j + d <= i BY <1>3, <3>2 DEF EventsOf
    <3> QED BY <3>3
  <2>4. i - d \in 1..Len(events') /\ events'[i - d].event = "over" /\ events'[i - d].op = o
    BY <1>3, <2>2 DEF EventsOf
  <2> QED BY <2>3, <2>4 DEF EndIsHeard
<1> QED BY <1>2, <1>3 DEF EndIsHeard

(* A step does not touch o. *)
Untouched(o) ==
    /\ EventsSame(o) /\ AnsweredSame(o) /\ Resolving(o)' = Resolving(o)
    /\ pc'[o] = pc[o] /\ at'[o] = at[o] /\ answer'[o] = answer[o] /\ sticky'[o] = sticky[o]
    /\ late'[o] = late[o] /\ (o \in prompts' <=> o \in prompts) /\ (o \in cancelMarks => o \in cancelMarks')
    /\ dialog'[o] \in {dialog[o], 0} /\ (row'[o] = row[o] \/ row[o] # "absent")

(* Then what holds of o still does. *)
LEMMA UntouchedIsOK ==
    ASSUME ControlTypes, ControlTypes', NEW o \in Operations, OperationOK(o), Untouched(o)
    PROVE  OperationOK(o)'
<1>1. OneQuestion(o)' BY AskedMoves, QuestionStays DEF OperationOK, Untouched
<1>2. EndIsHeard(o)' BY EndStaysHeard DEF OperationOK, Untouched, ControlTypes
<1>3. PromptIsOwned(o)' /\ AnswerEnds(o)' /\ CancelIsSeen(o)'
  BY DEF OperationOK, Untouched, PromptIsOwned, AnswerEnds, CancelIsSeen
<1> QED BY <1>1, <1>2, <1>3 DEF OperationOK

(* One operation is touched. *)
LEMMA OneTouched ==
    ASSUME ControlInv, ControlTypes', NEW o \in Operations, OperationOK(o)',
           \A q \in Operations \ {o} : Untouched(q)
    PROVE  ControlInv'
  BY UntouchedIsOK DEF ControlInv

-------------------------------------------------------------------------------
(* The window's commands touch no operation, but for the answer to a conflict. *)

PlainSend(cmds) ==
    /\ cmds \in Seq(Commands) /\ Send(cmds)
    /\ \A i \in 1..Len(cmds) : cmds[i].cmd # "resolve"

(* A command that is no answer. *)
LEMMA CmdIsPlain ==
    ASSUME NEW name \in {"start", "pause", "resume", "cancel"}, NEW o \in Operations
    PROVE  Cmd(name, o) \in Commands /\ Cmd(name, o).cmd # "resolve" /\ Cmd(name, o).op = o
  BY DEF Cmd, Commands, PlainCommands

(* One command is sent, *)
LEMMA OneEntry == ASSUME NEW S, NEW e \in S PROVE <<e>> \in Seq(S) /\ Len(<<e>>) = 1 /\ <<e>>[1] = e
  OBVIOUS

(* or two. *)
LEMMA TwoEntries ==
    ASSUME NEW S, NEW e \in S, NEW f \in S
    PROVE  <<e, f>> \in Seq(S) /\ Len(<<e, f>>) = 2 /\ <<e, f>>[1] = e /\ <<e, f>>[2] = f
  OBVIOUS

(* A window step that only sends plain commands: what else it changes are dialogs it closes and
   cards it marks. *)
LEMMA PlainSendKeeps ==
    ASSUME ControlInv, ControlTypes', NEW cmds, PlainSend(cmds),
           UNCHANGED <<executorVars, markVars, late, resolving, events>>,
           \A q \in Operations : dialog'[q] \in {dialog[q], 0} /\ (row'[q] = row[q] \/ row[q] # "absent")
    PROVE  ControlInv'
<1>1. ASSUME NEW q \in Operations PROVE Untouched(q)
  <2>1. EventsSame(q) BY EventsUnchanged DEF ControlInv
  <2>2. AnsweredSame(q) BY SendOther DEF PlainSend, ControlInv
  <2> QED BY <2>1, <2>2 DEF Untouched, executorVars, markVars, Resolving
<1> QED BY <1>1, UntouchedIsOK DEF ControlInv

(* An operation is asked for. *)
LEMMA RequestKeeps == ASSUME ControlInv, NEW o \in Operations, Request(o) PROVE ControlInv'
<1>1. PlainSend(<<Cmd("start", o)>>) BY CmdIsPlain, OneEntry DEF Request, PlainSend
<1>2. commands' \in Seq(Commands) BY <1>1, ConcatEntries DEF PlainSend, Send, ControlInv, ControlTypes
<1>3. ControlTypes'
  BY <1>2 DEF Request, ControlInv, ControlTypes, ControlTypeOK, executorVars, markVars, windowVars
<1> QED BY <1>1, <1>3, PlainSendKeeps DEF Request, windowVars, ControlInv, ControlTypes, ControlTypeOK

(* The pause button is clicked. *)
LEMMA TogglePauseKeeps == ASSUME ControlInv, NEW o \in Operations, TogglePause(o) PROVE ControlInv'
<1> DEFINE name == IF toggled[o] THEN "resume" ELSE "pause"
<1>1. PlainSend(<<Cmd(name, o)>>) BY CmdIsPlain, OneEntry DEF TogglePause, PlainSend
<1>2. commands' \in Seq(Commands) BY <1>1, ConcatEntries DEF PlainSend, Send, ControlInv, ControlTypes
<1>3. ControlTypes'
  BY <1>2, ControlAssumption, SMTT(20) DEF TogglePause, ControlInv, ControlTypes, ControlTypeOK, executorVars, markVars
<1> QED BY <1>1, <1>3, PlainSendKeeps DEF TogglePause

(* The cancel button is clicked: the card says so, and the pause is lifted. *)
LEMMA ClickCancelKeeps == ASSUME ControlInv, NEW o \in Operations, ClickCancel(o) PROVE ControlInv'
<1> DEFINE cmds == IF toggled[o] THEN <<Cmd("resume", o), Cmd("cancel", o)>> ELSE <<Cmd("cancel", o)>>
<1>1. PlainSend(cmds)
  <2>1. CASE toggled[o] BY <2>1, CmdIsPlain, TwoEntries DEF ClickCancel, PlainSend
  <2>2. CASE ~toggled[o] BY <2>2, CmdIsPlain, OneEntry DEF ClickCancel, PlainSend
  <2> QED BY <2>1, <2>2
<1>2. commands' \in Seq(Commands) BY <1>1, ConcatEntries DEF PlainSend, Send, ControlInv, ControlTypes
<1>3. ControlTypes'
  BY <1>2 DEF ClickCancel, ControlInv, ControlTypes, ControlTypeOK, executorVars, markVars
<1>4. \A q \in Operations : dialog'[q] \in {dialog[q], 0} /\ (row'[q] = row[q] \/ row[q] # "absent")
  BY DEF ClickCancel, ControlInv, ControlTypes, ControlTypeOK
<1> HIDE DEF cmds
<1> QED BY <1>1, <1>3, <1>4, PlainSendKeeps DEF ClickCancel

(* The dialog is closed by Cancel Operation: its question stays unanswered. *)
LEMMA CancelFromDialogKeeps ==
    ASSUME ControlInv, NEW o \in Operations, CancelFromDialog(o) PROVE ControlInv'
<1>1. PlainSend(<<Cmd("cancel", o)>>) BY CmdIsPlain, OneEntry DEF CancelFromDialog, PlainSend
<1>2. commands' \in Seq(Commands) BY <1>1, ConcatEntries DEF PlainSend, Send, ControlInv, ControlTypes
<1>3. ControlTypes'
  BY <1>2, ControlAssumption DEF CancelFromDialog, ControlInv, ControlTypes, ControlTypeOK, executorVars, markVars
<1>4. \A q \in Operations : dialog'[q] \in {dialog[q], 0} /\ row'[q] = row[q]
  BY DEF CancelFromDialog, ControlInv, ControlTypes, ControlTypeOK
<1> QED BY <1>1, <1>3, <1>4, PlainSendKeeps DEF CancelFromDialog

(* The answer takes the place of the question in the dialog. *)
LEMMA AnswerConflictKeeps ==
    ASSUME ControlInv, NEW o \in Operations, NEW s \in Answers, AnswerConflict(o, s) PROVE ControlInv'
<1> DEFINE r == Resolution(o, s)
<1>0. ControlTypes /\ OperationOK(o) /\ OneQuestion(o) BY DEF ControlInv, OperationOK
<1>1. r \in Resolutions /\ r \in Commands /\ r.cmd = "resolve" /\ r.op = o /\ r.item = dialog[o]
  BY DEF Resolution, Resolutions, Commands, ControlInv, ControlTypes, ControlTypeOK
<1>2. Send(<<r>>) BY DEF AnswerConflict
<1> HIDE DEF r
<1>3. <<r>> \in Seq(Commands) /\ Len(<<r>>) = 1 /\ <<r>>[1] = r BY <1>1, OneEntry
<1>4. /\ commands' \in Seq(Commands) /\ Len(commands') = Len(commands) + 1
      /\ \A i \in 1..Len(commands) : commands'[i] = commands[i]
      /\ commands'[Len(commands) + 1] = r
  BY <1>0, <1>2, <1>3, ConcatEntries DEF Send, ControlTypes
<1>5. ControlTypes'
  BY <1>4, ControlAssumption DEF AnswerConflict, ControlInv, ControlTypes, ControlTypeOK, executorVars, markVars
<1>6. \A q \in Operations : /\ dialog'[q] \in {dialog[q], 0} /\ EventsSame(q)
                            /\ row'[q] = row[q]
  BY EventsUnchanged DEF AnswerConflict, ControlInv, ControlTypes, ControlTypeOK
<1>7. ASSUME NEW q \in Operations \ {o} PROVE Untouched(q)
  <2> DEFINE cmds == <<r>>
  <2>1. cmds \in Seq(Commands) /\ Send(cmds) /\ (\A i \in 1..Len(cmds) : cmds[i].cmd # "resolve" \/ cmds[i].op # q)
    BY <1>1, <1>2, <1>3
  <2> HIDE DEF cmds
  <2>2. AnsweredSame(q) BY <1>0, <2>1, SendOther
  <2> QED BY <2>2, <1>6 DEF AnswerConflict, Untouched, executorVars, markVars, Resolving
<1>8. OneQuestion(o)'
  <2> SUFFICES ASSUME pc[o] # "over" PROVE OneQuestion(o)'
    BY DEF OneQuestion, AnswerConflict, executorVars
  <2>1. /\ InDialog(o) /\ pc[o] = "asking" /\ dialog[o] = at[o]
        /\ Asked(o) = {} /\ Answered(o) = {} /\ Resolving(o) = {} /\ answer[o] = {}
    BY <1>0 DEF OneQuestion, AnswerConflict, InDialog
  <2>2. Asked(o)' = {} /\ Resolving(o)' = {} /\ answer'[o] = {} /\ pc'[o] = "asking" /\ at'[o] = at[o]
    BY <2>1 DEF AnswerConflict, Asked, Resolving, executorVars
  <2>3. ~InDialog(o)' BY DEF InDialog, AnswerConflict, ControlInv, ControlTypes, ControlTypeOK
  <2>4. Answered(o)' = {Len(commands) + 1}
    <3>1. Len(commands) + 1 \in Answered(o)' BY <1>0, <1>1, <1>4 DEF Answered, ControlTypes
    <3>2. ASSUME NEW i \in Answered(o)', i # Len(commands) + 1 PROVE FALSE
      <4>1. i \in 1..(Len(commands) + 1) /\ commands'[i].cmd = "resolve" /\ commands'[i].op = o
        BY <1>4 DEF Answered
      <4>2. i \in 1..Len(commands) BY <3>2, <4>1, <1>0 DEF ControlTypes
      <4>3. i \in Answered(o) BY <4>1, <4>2, <1>4 DEF Answered
      <4> QED BY <4>3, <2>1
    <3> QED BY <3>1, <3>2
  <2> QED BY <2>1, <2>2, <2>3, <2>4, <1>1, <1>4 DEF OneQuestion
<1>9. EndIsHeard(o)'
  BY <1>0, <1>5, <1>6, EndStaysHeard DEF OperationOK, ControlTypes, AnswerConflict, executorVars
<1>10. PromptIsOwned(o)' /\ AnswerEnds(o)' /\ CancelIsSeen(o)'
  BY <1>0 DEF OperationOK, PromptIsOwned, AnswerEnds, CancelIsSeen, AnswerConflict, executorVars, markVars
<1>11. OperationOK(o)' BY <1>8, <1>9, <1>10 DEF OperationOK
<1> QED BY <1>5, <1>7, <1>11, OneTouched

-------------------------------------------------------------------------------
(* The backend loop and what it spawns. *)

(* The command taken from the channel, and what is left. *)
LEMMA TakeCommand ==
    ASSUME ControlTypes, NEW name, NEW o \in Operations, NextCommand(name, o)
    PROVE  /\ commands' \in Seq(Commands) /\ Len(commands') = Len(commands) - 1 /\ Len(commands) >= 1
           /\ Head(commands) = commands[1] /\ Head(commands) \in Commands
           /\ \A i \in 1..(Len(commands) - 1) : commands'[i] = commands[i + 1]
  BY TailEntries DEF NextCommand, ControlTypes

(* A mark is set or lifted: no operation is touched. *)
LEMMA MarkKeeps ==
    ASSUME ControlInv, NEW o \in Operations, NEW name \in {"pause", "resume", "cancel"}, NextCommand(name, o),
           cancelMarks \subseteq cancelMarks', cancelMarks' \subseteq Operations, paused' \subseteq Operations,
           UNCHANGED <<executorVars, windowVars, late, resolving, events>>
    PROVE  ControlInv'
<1>1. ControlTypes /\ commands' \in Seq(Commands) BY TakeCommand DEF ControlInv
<1>2. ControlTypes' BY <1>1 DEF ControlInv, ControlTypes, ControlTypeOK, executorVars, windowVars
<1>3. ASSUME NEW q \in Operations PROVE Untouched(q)
  <2>1. EventsSame(q) /\ AnsweredSame(q) BY <1>1, EventsUnchanged, TakeOther
  <2> QED BY <2>1 DEF Untouched, executorVars, windowVars, Resolving
<1> QED BY <1>2, <1>3, UntouchedIsOK DEF ControlInv

(* Pause, resume and cancel are such marks. *)
LEMMA HandleMarksKeep ==
    ASSUME ControlInv, NEW o \in Operations, HandlePause(o) \/ HandleResume(o) \/ HandleCancel(o)
    PROVE  ControlInv'
<1>1. CASE HandlePause(o) BY <1>1, MarkKeeps DEF HandlePause, ControlInv, ControlTypes, ControlTypeOK
<1>2. CASE HandleResume(o) BY <1>2, MarkKeeps DEF HandleResume, ControlInv, ControlTypes, ControlTypeOK
<1>3. CASE HandleCancel(o) BY <1>3, MarkKeeps DEF HandleCancel, ControlInv, ControlTypes, ControlTypeOK
<1> QED BY <1>1, <1>2, <1>3

(* What o emits, and where it ends up in the channel. *)
LEMMA EmitEntries ==
    ASSUME ControlTypes, NEW o \in Operations, NEW name, Event(name, o) \in Events, Emit(name, o)
    PROVE  /\ events' \in Seq(Events) /\ Len(events') = Len(events) + 1
           /\ \A i \in 1..Len(events) : events'[i] = events[i]
           /\ events'[Len(events) + 1] = Event(name, o)
  BY AppendEntries DEF Emit, ControlTypes

(* An operation is spawned: nothing was asked for it before. *)
LEMMA HandleStartKeeps == ASSUME ControlInv, NEW o \in Operations, HandleStart(o) PROVE ControlInv'
<1>0. ControlTypes /\ OperationOK(o) /\ Emit("started", o) /\ NextCommand("start", o)
  BY DEF ControlInv, HandleStart
<1>1. Event("started", o) \in Events
  BY DEF Event, Events, Reports, ControlInv, ControlTypes, ControlTypeOK
<1>2. commands' \in Seq(Commands) /\ events' \in Seq(Events) BY <1>0, <1>1, TakeCommand, EmitEntries
<1>3. ControlTypes'
  BY <1>2 DEF HandleStart, ControlInv, ControlTypes, ControlTypeOK, Labels, OnItem, markVars, windowVars
<1>4. ASSUME NEW q \in Operations \ {o} PROVE Untouched(q)
  <2>1. EventsSame(q) /\ AnsweredSame(q) BY <1>0, <1>1, EmitOther, TakeOther
  <2> QED BY <2>1 DEF Untouched, HandleStart, Resolving, markVars, windowVars, ControlInv, ControlTypes, ControlTypeOK
<1>5. NoQuestion(o) BY <1>0, NobodyAsks DEF OperationOK, HandleStart
<1>6. Asked(o)' = {}
  <2> SUFFICES ASSUME NEW i \in Asked(o)' PROVE FALSE OBVIOUS
  <2>1. i \in 1..(Len(events) + 1) /\ events'[i].event = "conflict" /\ events'[i].op = o
    BY <1>0, <1>1, EmitEntries DEF Asked
  <2>2. i # Len(events) + 1 BY <2>1, <1>0, <1>1, EmitEntries DEF Event
  <2>3. i \in Asked(o) BY <2>1, <2>2, <1>0, <1>1, EmitEntries DEF Asked, ControlTypes
  <2> QED BY <2>3, <1>5 DEF NoQuestion
<1>7. Answered(o)' = {}
  <2>1. AnsweredSame(o) BY <1>0, TakeOther
  <2> QED BY <2>1, <1>5 DEF AnsweredSame, Moved, NoQuestion
<1>8. OneQuestion(o)'
  <2>1. NoQuestion(o)' BY <1>5, <1>6, <1>7 DEF NoQuestion, HandleStart, InDialog, Resolving, windowVars
  <2> QED BY <2>1 DEF NoQuestion, OneQuestion
<1>9. pc[o] = "idle" /\ pc'[o] = "spawned" BY <1>0 DEF HandleStart, ControlTypes, ControlTypeOK
<1>10. PromptIsOwned(o)' /\ AnswerEnds(o)' /\ EndIsHeard(o)' /\ CancelIsSeen(o)'
  BY <1>0, <1>9 DEF OperationOK, PromptIsOwned, AnswerEnds, EndIsHeard, CancelIsSeen, HandleStart
<1>11. OperationOK(o)' BY <1>8, <1>10 DEF OperationOK
<1> QED BY <1>3, <1>4, <1>11, OneTouched

(* The answer moves from the command channel to a spawned call. *)
LEMMA HandleResolveKeeps == ASSUME ControlInv, NEW o \in Operations, HandleResolve(o) PROVE ControlInv'
<1> DEFINE r == Head(commands)
<1>0. ControlTypes /\ OperationOK(o) /\ OneQuestion(o) /\ NextCommand("resolve", o)
  BY DEF ControlInv, HandleResolve, OperationOK
<1>1. /\ commands' \in Seq(Commands) /\ Len(commands') = Len(commands) - 1 /\ Len(commands) >= 1
      /\ r = commands[1] /\ r \in Commands
      /\ \A i \in 1..(Len(commands) - 1) : commands'[i] = commands[i + 1]
  BY <1>0, TakeCommand
<1>2. r.cmd = "resolve" /\ r.op = o /\ r \in Resolutions
  BY <1>0, <1>1 DEF NextCommand, Commands, PlainCommands, Resolutions
<1>3. resolving' = resolving \cup {r} BY DEF HandleResolve
<1> HIDE DEF r
<1>4. ControlTypes'
  BY <1>1, <1>2, <1>3 DEF HandleResolve, ControlInv, ControlTypes, ControlTypeOK, executorVars, markVars, windowVars
<1>5. ASSUME NEW q \in Operations PROVE EventsSame(q) BY <1>0, EventsUnchanged DEF HandleResolve
<1>6. ASSUME NEW q \in Operations \ {o} PROVE Untouched(q)
  <2>1. AnsweredSame(q) BY <1>0, TakeOther
  <2>2. Resolving(q)' = Resolving(q) BY <1>2, <1>3 DEF Resolving
  <2> QED BY <2>1, <2>2, <1>5 DEF Untouched, HandleResolve, executorVars, markVars, windowVars
<1>7. OneQuestion(o)'
  <2> SUFFICES ASSUME pc[o] # "over" PROVE OneQuestion(o)'
    BY DEF OneQuestion, HandleResolve, executorVars
  <2>1. 1 \in Answered(o) BY <1>1, <1>2 DEF Answered
  <2>2. /\ pc[o] = "asking" /\ r.item = at[o] /\ Answered(o) = {1} /\ Asked(o) = {} /\ ~InDialog(o)
        /\ Resolving(o) = {} /\ answer[o] = {}
    BY <2>1, <1>0, <1>1 DEF OneQuestion
  <2>3. Answered(o)' = {}
    <3> SUFFICES ASSUME NEW i \in Answered(o)' PROVE FALSE OBVIOUS
    <3>1. i \in 1..(Len(commands) - 1) /\ commands'[i].cmd = "resolve" /\ commands'[i].op = o
      BY <1>1 DEF Answered
    <3>2. i + 1 \in Answered(o) /\ i + 1 # 1
      <4>1. i + 1 \in 1..Len(commands) /\ commands'[i] = commands[i + 1] /\ i + 1 # 1
        BY <3>1, <1>0, <1>1 DEF ControlTypes
      <4> QED BY <3>1, <4>1 DEF Answered
    <3> QED BY <3>2, <2>2
  <2>4. Resolving(o)' = {r} BY <2>2, <1>2, <1>3 DEF Resolving
  <2>5. Asked(o)' = {} /\ ~InDialog(o)' /\ pc'[o] = "asking" /\ at'[o] = at[o] /\ answer'[o] = {}
    BY <2>2 DEF HandleResolve, Asked, InDialog, executorVars, windowVars
  <2> QED BY <2>2, <2>3, <2>4, <2>5 DEF OneQuestion
<1>8. EndIsHeard(o)'
  BY <1>0, <1>4, <1>5, EndStaysHeard DEF OperationOK, ControlTypes, HandleResolve, executorVars, windowVars
<1>9. PromptIsOwned(o)' /\ AnswerEnds(o)' /\ CancelIsSeen(o)'
  BY <1>0 DEF OperationOK, PromptIsOwned, AnswerEnds, CancelIsSeen, HandleResolve, executorVars, markVars
<1>10. OperationOK(o)' BY <1>7, <1>8, <1>9 DEF OperationOK
<1> QED BY <1>4, <1>6, <1>10, OneTouched

(* The answer reaches the task, if it still waits. *)
LEMMA ResolvePendingKeeps == ASSUME ControlInv, NEW r \in resolving, ResolvePending(r) PROVE ControlInv'
<1> DEFINE o == r.op
<1>0. o \in Operations /\ r \in Resolutions /\ ControlTypes BY DEF ControlInv, ControlTypes, Resolutions
<1> HIDE DEF o
<1>1. OperationOK(o) /\ OneQuestion(o) BY <1>0 DEF ControlInv, OperationOK
<1>2. /\ resolving' = resolving \ {r} /\ prompts' = prompts \ {o}
      /\ answer' = [answer EXCEPT ![o] = IF o \in prompts THEN {r} ELSE @]
      /\ UNCHANGED <<pc, at, sticky, markVars, windowVars, late, commands, events>>
  BY DEF ResolvePending, o
<1>3. ControlTypes'
  <2>1. answer' \in [Operations -> SUBSET Resolutions] /\ (\A q \in Operations : \A x \in answer'[q] : x.op = q)
    BY <1>0, <1>2 DEF ControlTypes, o
  <2> QED BY <1>2, <2>1 DEF ControlInv, ControlTypes, ControlTypeOK, markVars, windowVars
<1>4. ASSUME NEW q \in Operations PROVE EventsSame(q) /\ AnsweredSame(q)
  BY <1>0, <1>2, EventsUnchanged, CommandsUnchanged
<1>5. ASSUME NEW q \in Operations \ {o} PROVE Untouched(q)
  <2>1. Resolving(q)' = Resolving(q) BY <1>2 DEF Resolving, o
  <2> QED BY <2>1, <1>0, <1>2, <1>4 DEF Untouched, markVars, windowVars, ControlTypes, ControlTypeOK
<1>6. OneQuestion(o)' /\ PromptIsOwned(o)'
  <2>1. CASE pc[o] = "over"
    <3>1. o \notin prompts' BY <1>2
    <3> QED BY <2>1, <3>1, <1>2 DEF OneQuestion, PromptIsOwned
  <2>2. CASE pc[o] # "over"
    <3>1. r \in Resolving(o) BY DEF Resolving, o
    <3>2. /\ pc[o] = "asking" /\ r.item = at[o] /\ Resolving(o) = {r} /\ answer[o] = {}
          /\ Asked(o) = {} /\ ~InDialog(o) /\ Answered(o) = {}
      BY <2>2, <3>1, <1>1 DEF OneQuestion
    <3>3. o \in prompts BY <3>2, <1>1 DEF OperationOK, PromptIsOwned
    <3>4. answer'[o] = {r} BY <1>0, <1>2, <3>3 DEF ControlTypes
    <3>5. Resolving(o)' = {} BY <3>2, <1>2 DEF Resolving
    <3>6. Asked(o)' = {} /\ ~InDialog(o)' /\ Answered(o)' = {} /\ pc'[o] = "asking" /\ at'[o] = at[o]
      BY <3>2, <1>2 DEF Asked, InDialog, Answered, windowVars
    <3>7. OneQuestion(o)' BY <3>2, <3>4, <3>5, <3>6 DEF OneQuestion
    <3>8. PromptIsOwned(o)' BY <1>2, <3>4 DEF PromptIsOwned
    <3> QED BY <3>7, <3>8
  <2> QED BY <2>1, <2>2
<1>7. EndIsHeard(o)'
  BY <1>0, <1>1, <1>2, <1>3, <1>4, EndStaysHeard DEF OperationOK, ControlTypes, windowVars
<1>8. AnswerEnds(o)' /\ CancelIsSeen(o)'
  BY <1>1, <1>2 DEF OperationOK, AnswerEnds, CancelIsSeen, markVars
<1>9. OperationOK(o)' BY <1>6, <1>7, <1>8 DEF OperationOK
<1> QED BY <1>0, <1>3, <1>5, <1>9, OneTouched

-------------------------------------------------------------------------------
(* The window reads an event. *)

(* A question opens its dialog; the end takes card and dialog down. *)
LEMMA HandleEventKeeps == ASSUME ControlInv, HandleEvent PROVE ControlInv'
<1>0. ControlTypes /\ events # <<>> /\ events' = Tail(events) BY DEF ControlInv, HandleEvent
<1>1. PICK e \in Events :
      /\ events' \in Seq(Events) /\ Len(events') = Len(events) - 1 /\ Len(events) >= 1
      /\ e = Head(events) /\ e = events[1]
      /\ \A i \in 1..(Len(events) - 1) : events'[i] = events[i + 1]
  BY <1>0, TailEntries DEF ControlTypes
<1> DEFINE o == e.op
<1>2. /\ row' = [row EXCEPT ![o] = CASE e.event = "started" -> "shown"
                                     [] e.event = "over" -> "absent" [] OTHER -> @]
      /\ dialog' = [dialog EXCEPT ![o] = CASE e.event = "conflict" -> e.item
                                           [] e.event = "over" -> 0 [] OTHER -> @]
      /\ UNCHANGED <<executorVars, markVars, late, toggled, toggles, commands, resolving>>
  BY <1>1 DEF HandleEvent
<1>3. /\ o \in Operations /\ e.event \in {"started", "conflict", "over"}
      /\ (e.event = "conflict" => e.item \in 1..Items)
  BY DEF Events, Questions, Reports
<1>4. Head(events).op = o BY <1>1
<1> HIDE DEF o
<1>5. OperationOK(o) /\ OneQuestion(o) BY <1>3 DEF ControlInv, OperationOK
<1>6. ControlTypes'
  <2>1. row' \in [Operations -> {"absent", "shown", "cancelling"}] /\ dialog' \in [Operations -> 0..Items]
    BY <1>2, <1>3, ControlAssumption DEF ControlInv, ControlTypes, ControlTypeOK
  <2> QED BY <1>1, <1>2, <2>1 DEF ControlInv, ControlTypes, ControlTypeOK, executorVars, markVars
<1>7. ASSUME NEW q \in Operations \ {o} PROVE Untouched(q)
  <2>1. EventsSame(q) BY <1>0, <1>4, ReadOther
  <2>2. AnsweredSame(q) BY <1>0, <1>2, CommandsUnchanged
  <2> QED BY <2>1, <2>2, <1>2, <1>0 DEF Untouched, executorVars, markVars, Resolving, ControlTypes, ControlTypeOK
<1>8. AnsweredSame(o) BY <1>0, <1>2, <1>3, CommandsUnchanged
<1>9. OneQuestion(o)'
  <2>1. CASE pc[o] = "over" BY <2>1, <1>2 DEF OneQuestion, executorVars
  <2>2. CASE pc[o] # "over" /\ e.event = "conflict"
    <3>1. 1 \in Asked(o) BY <2>2, <1>1 DEF Asked, o
    <3>2. /\ pc[o] = "asking" /\ e.item = at[o] /\ Asked(o) = {1}
          /\ Answered(o) = {} /\ Resolving(o) = {} /\ answer[o] = {}
      BY <2>2, <3>1, <1>1, <1>5 DEF OneQuestion
    <3>3. Asked(o)' = {}
      <4> SUFFICES ASSUME NEW i \in Asked(o)' PROVE FALSE OBVIOUS
      <4>1. i \in 1..(Len(events) - 1) /\ events'[i].event = "conflict" /\ events'[i].op = o
        BY <1>1 DEF Asked
      <4>2. i + 1 \in 1..Len(events) /\ events'[i] = events[i + 1] /\ i + 1 # 1
        BY <4>1, <1>0, <1>1 DEF ControlTypes
      <4>3. i + 1 \in Asked(o) BY <4>1, <4>2 DEF Asked
      <4> QED BY <4>2, <4>3, <3>2
    <3>4. dialog'[o] = at[o] BY <1>0, <1>2, <1>3, <2>2, <3>2 DEF ControlTypes, ControlTypeOK
    <3>5. Answered(o)' = {} /\ Resolving(o)' = {} /\ answer'[o] = {} /\ pc'[o] = "asking" /\ at'[o] = at[o]
      BY <3>2, <1>2 DEF Answered, Resolving, executorVars
    <3> QED BY <3>3, <3>4, <3>5 DEF OneQuestion
  <2>3. CASE e.event # "conflict"
    <3>1. ASSUME NEW i \in Asked(o) PROVE i - 1 \in Asked(o)' /\ events'[i - 1] = events[i]
      <4>1. i \in 1..Len(events) /\ events[i].event = "conflict" /\ events[i].op = o BY DEF Asked
      <4>2. i # 1 BY <4>1, <2>3, <1>1
      <4>3. i - 1 \in 1..(Len(events) - 1) /\ (i - 1) + 1 = i BY <4>1, <4>2, <1>0 DEF ControlTypes
      <4> QED BY <4>1, <4>3, <1>1 DEF Asked
    <3>2. ASSUME NEW i \in Asked(o)' PROVE i + 1 \in Asked(o) /\ events[i + 1] = events'[i]
      <4>1. i \in 1..(Len(events) - 1) /\ events'[i].event = "conflict" /\ events'[i].op = o
        BY <1>1 DEF Asked
      <4>2. i + 1 \in 1..Len(events) /\ events'[i] = events[i + 1] BY <4>1, <1>0, <1>1 DEF ControlTypes
      <4> QED BY <4>1, <4>2 DEF Asked
    <3>3. AskedSame(o) BY <3>1, <3>2 DEF AskedSame, Moved
    <3>4. dialog'[o] \in {dialog[o], 0} BY <1>0, <1>2, <1>3, <2>3 DEF ControlTypes, ControlTypeOK
    <3> QED BY <3>3, <3>4, <1>0, <1>2, <1>3, <1>5, <1>8, QuestionStays DEF executorVars, Resolving
  <2> QED BY <2>1, <2>2, <2>3
<1>10. EndIsHeard(o)'
  <2> SUFFICES ASSUME pc[o] = "over" PROVE EndIsHeard(o)' BY <1>2 DEF EndIsHeard, executorVars
  <2>1. PICK i \in 1..Len(events) : /\ events[i].event = "over" /\ events[i].op = o
                                    /\ \A j \in 1..Len(events) : events[j].op = o => j <= i
    <3>1. 1 \in 1..Len(events) /\ events[1].op = o BY <1>0, <1>1 DEF ControlTypes, o
    <3> QED BY <1>5, <3>1 DEF OperationOK, EndIsHeard
  <2>2. ASSUME NEW j \in 1..Len(events'), events'[j].op = o PROVE j + 1 <= i
    <3>1. j + 1 \in 1..Len(events) /\ events'[j] = events[j + 1] BY <1>0, <1>1 DEF ControlTypes
    <3> QED BY <2>1, <2>2, <3>1
  <2>3. CASE i = 1
    <3>1. \A j \in 1..Len(events') : events'[j].op # o BY <2>2, <2>3
    <3>2. e.event = "over" BY <2>1, <2>3, <1>1
    <3>3. row'[o] = "absent" /\ dialog'[o] = 0 BY <3>2, <1>0, <1>2, <1>3 DEF ControlTypes, ControlTypeOK
    <3> QED BY <3>1, <3>3 DEF EndIsHeard
  <2>4. CASE i # 1
    <3>1. i - 1 \in 1..Len(events') /\ events'[i - 1] = events[i] BY <2>4, <1>0, <1>1 DEF ControlTypes
    <3>2. \A j \in 1..Len(events') : events'[j].op = o => j <= i - 1 BY <2>2
    <3> QED BY <2>1, <3>1, <3>2 DEF EndIsHeard
  <2> QED BY <2>3, <2>4
<1>11. PromptIsOwned(o)' /\ AnswerEnds(o)' /\ CancelIsSeen(o)'
  BY <1>2, <1>5 DEF OperationOK, PromptIsOwned, AnswerEnds, CancelIsSeen, executorVars, markVars
<1>12. OperationOK(o)' BY <1>9, <1>10, <1>11 DEF OperationOK
<1> QED BY <1>3, <1>6, <1>7, <1>12, OneTouched

-------------------------------------------------------------------------------
(* The operation's task touches no other operation. *)

TaskOf(o) ==
    /\ \A q \in Operations \ {o} :
          /\ pc'[q] = pc[q] /\ at'[q] = at[q] /\ answer'[q] = answer[q] /\ sticky'[q] = sticky[q]
          /\ late'[q] = late[q] /\ (q \in prompts' <=> q \in prompts)
          /\ (q \in cancelMarks => q \in cancelMarks')
    /\ UNCHANGED <<windowVars, commands, resolving>>

(* Then only its own operation has to be looked at, if it says nothing, *)
LEMMA TaskKeepsSilently ==
    ASSUME ControlInv, ControlTypes', NEW o \in Operations, TaskOf(o), UNCHANGED events, OperationOK(o)'
    PROVE  ControlInv'
<1>1. ASSUME NEW q \in Operations \ {o} PROVE Untouched(q)
  <2>1. EventsSame(q) /\ AnsweredSame(q) BY EventsUnchanged, CommandsUnchanged DEF ControlInv, TaskOf
  <2> QED BY <2>1 DEF Untouched, TaskOf, windowVars, Resolving
<1> QED BY <1>1, OneTouched

(* or if it tells the window of itself. *)
LEMMA TaskKeepsEmitting ==
    ASSUME ControlInv, ControlTypes', NEW o \in Operations, TaskOf(o), NEW name,
           Event(name, o) \in Events, Emit(name, o), OperationOK(o)'
    PROVE  ControlInv'
<1>1. ASSUME NEW q \in Operations \ {o} PROVE Untouched(q)
  <2>1. EventsSame(q) /\ AnsweredSame(q) BY EmitOther, CommandsUnchanged DEF ControlInv, TaskOf
  <2> QED BY <2>1 DEF Untouched, TaskOf, windowVars, Resolving
<1> QED BY <1>1, OneTouched

(* It moves on, with no question before or after. *)
LEMMA Proceeds ==
    ASSUME ControlTypes, NEW o \in Operations, OperationOK(o),
           pc[o] \notin {"asking", "over"}, pc'[o] \notin {"idle", "spawned", "asking", "over"},
           UNCHANGED <<prompts, answer, sticky, windowVars, commands, resolving, events>>,
           CancelIsSeen(o)'
    PROVE  OperationOK(o)'
<1>1. NoQuestion(o) BY NobodyAsks DEF OperationOK
<1>2. NoQuestion(o)' BY <1>1 DEF NoQuestion, Asked, InDialog, Answered, Resolving, windowVars
<1>3. OneQuestion(o)' BY <1>2 DEF NoQuestion, OneQuestion
<1> QED BY <1>3 DEF OperationOK, PromptIsOwned, AnswerEnds, EndIsHeard

(* It returns: the operation is over and says so. *)
LEMMA Leaves ==
    ASSUME ControlInv, NEW o \in Operations, pc[o] # "over", Leave(o), TaskOf(o), UNCHANGED <<at, paused>>,
           cancelMarks' \subseteq Operations, late' \in [Operations -> Nat], late'[o] <= 1
    PROVE  ControlInv'
<1>0. ControlTypes BY DEF ControlInv
<1>1. Event("over", o) \in Events /\ Event("over", o).event = "over" /\ Event("over", o).op = o
  BY <1>0 DEF Event, Events, Reports, ControlTypes, ControlTypeOK
<1>2. /\ events' \in Seq(Events) /\ Len(events') = Len(events) + 1
      /\ events'[Len(events) + 1] = Event("over", o)
  BY <1>0, <1>1, EmitEntries DEF Leave
<1>3. ControlTypes'
  BY <1>0, <1>2 DEF Leave, Goto, TaskOf, ControlTypes, ControlTypeOK, Labels, OnItem, windowVars
<1>4. pc'[o] = "over" /\ o \notin prompts' /\ sticky'[o] = None
  BY <1>0 DEF Leave, Goto, ControlTypes, ControlTypeOK
<1>5. EndIsHeard(o)'
  <2>1. Len(events) + 1 \in 1..Len(events') /\ \A j \in 1..Len(events') : j <= Len(events) + 1
    BY <1>0, <1>2 DEF ControlTypes
  <2> QED BY <1>1, <1>2, <2>1 DEF EndIsHeard
<1>6. OneQuestion(o)' /\ PromptIsOwned(o)' /\ AnswerEnds(o)'
  BY <1>4 DEF OneQuestion, PromptIsOwned, AnswerEnds
<1>7. CancelIsSeen(o)' BY <1>4 DEF CancelIsSeen
<1>8. OperationOK(o)' BY <1>5, <1>6, <1>7 DEF OperationOK
<1>9. Emit("over", o) BY DEF Leave
<1> QED BY <1>1, <1>3, <1>8, <1>9, TaskKeepsEmitting

(* It returns because it saw its mark, which is taken away with it. *)
LEMMA SeeCancelKeeps == ASSUME ControlInv, NEW o \in Operations, pc[o] # "over", SeeCancel(o) PROVE ControlInv'
<1>1. ControlTypes /\ CancelIsSeen(o) BY DEF ControlInv, OperationOK
<1>2. TaskOf(o) BY <1>1 DEF SeeCancel, Leave, Goto, TaskOf, windowVars, ControlTypes, ControlTypeOK
<1>3. late' \in [Operations -> Nat] /\ late'[o] <= 1 /\ cancelMarks' \subseteq Operations
  BY <1>1 DEF SeeCancel, ControlTypes, ControlTypeOK, CancelIsSeen
<1> QED BY <1>2, <1>3, Leaves DEF SeeCancel

(* The steps that only move on. *)
MovesOn(o) ==
    /\ pc' = [pc EXCEPT ![o] = pc'[o]] /\ pc'[o] \in {"between", "held", "resolving", "acting"}
    /\ \/ UNCHANGED at /\ (pc'[o] \in OnItem => at[o] <= Items)
       \/ at' = [at EXCEPT ![o] = @ + 1] /\ pc'[o] = "between" /\ pc[o] \in OnItem
    /\ UNCHANGED <<markVars, windowVars, commands, resolving, events>>

(* It goes on to the next item only from one that there is. *)
LEMMA MovesOnTypes ==
    ASSUME ControlTypes, NEW o \in Operations, MovesOn(o), prompts' \subseteq Operations,
           answer' \in [Operations -> SUBSET Resolutions], \A q \in Operations : \A r \in answer'[q] : r.op = q,
           sticky' \in [Operations -> ForAll \cup {None}], late' \in [Operations -> Nat]
    PROVE  ControlTypes'
<1>1. pc' \in [Operations -> Labels] BY DEF MovesOn, ControlTypes, ControlTypeOK, Labels
<1>2. at' \in [Operations -> 1..(Items + 1)]
  <2>1. CASE UNCHANGED at BY <2>1 DEF ControlTypes, ControlTypeOK
  <2>2. CASE at' = [at EXCEPT ![o] = @ + 1] /\ pc[o] \in OnItem
    <3>1. at \in [Operations -> 1..(Items + 1)] /\ at[o] <= Items /\ Items \in Nat
      BY <2>2, ControlAssumption DEF ControlTypes, ControlTypeOK
    <3>2. at[o] + 1 \in 1..(Items + 1) BY <3>1
    <3> QED BY <2>2, <3>1, <3>2
  <2> QED BY <2>1, <2>2 DEF MovesOn
<1>3. \A q \in Operations : pc'[q] \in OnItem => at'[q] <= Items
  BY DEF MovesOn, ControlTypes, ControlTypeOK, OnItem
<1> QED BY <1>1, <1>2, <1>3 DEF MovesOn, ControlTypes, ControlTypeOK, markVars, windowVars

(* What moves on has not acted in spite of a mark. *)
LEMMA MovesOnKeeps ==
    ASSUME ControlInv, NEW o \in Operations, MovesOn(o), UNCHANGED <<prompts, answer, sticky, late>>,
           pc[o] \notin {"asking", "over"}, pc[o] = "between" => o \notin cancelMarks
    PROVE  ControlInv'
<1>1. ControlTypes /\ OperationOK(o) BY DEF ControlInv
<1>2. ControlTypes' BY <1>1, MovesOnTypes DEF ControlTypes, ControlTypeOK
<1>3. late[o] = 0 BY <1>1 DEF OperationOK, CancelIsSeen
<1>4. CancelIsSeen(o)' BY <1>3 DEF CancelIsSeen
<1>5. OperationOK(o)' BY <1>1, <1>4, Proceeds DEF MovesOn
<1>6. TaskOf(o) BY <1>1 DEF MovesOn, TaskOf, windowVars, markVars, ControlTypes, ControlTypeOK
<1> QED BY <1>2, <1>5, <1>6, TaskKeepsSilently DEF MovesOn

(* The permit was waited for. *)
LEMMA StartKeeps == ASSUME ControlInv, NEW o \in Operations, Start(o) PROVE ControlInv'
<1>1. CASE SeeCancel(o) BY <1>1, SeeCancelKeeps DEF Start
<1>2. CASE ~SeeCancel(o)
  <2>1. MovesOn(o) BY <1>2 DEF Start, MovesOn, Goto, OnItem, ControlInv, ControlTypes, ControlTypeOK
  <2> QED BY <1>2, <2>1, MovesOnKeeps DEF Start
<1> QED BY <1>1, <1>2

(* The checkpoint between items. *)
LEMMA CheckpointKeeps == ASSUME ControlInv, NEW o \in Operations, Checkpoint(o) PROVE ControlInv'
<1>1. CASE SeeCancel(o) BY <1>1, SeeCancelKeeps DEF Checkpoint
<1>2. CASE ~SeeCancel(o)
  <2>1. MovesOn(o) BY <1>2 DEF Checkpoint, MovesOn, Goto, ControlInv, ControlTypes, ControlTypeOK
  <2> QED BY <1>2, <2>1, MovesOnKeeps DEF Checkpoint
<1> QED BY <1>1, <1>2

(* The pause is over. *)
LEMMA PassPauseKeeps == ASSUME ControlInv, NEW o \in Operations, PassPause(o) PROVE ControlInv'
<1>1. MovesOn(o) BY DEF PassPause, MovesOn, Goto, OnItem, ControlInv, ControlTypes, ControlTypeOK
<1> QED BY <1>1, MovesOnKeeps DEF PassPause

(* No conflict, or one that is decided already. *)
LEMMA ResolveItemKeeps == ASSUME ControlInv, NEW o \in Operations, ResolveItem(o) PROVE ControlInv'
<1>1. MovesOn(o)
  BY DEF ResolveItem, Follow, MovesOn, Goto, OnItem, ControlInv, ControlTypes, ControlTypeOK
<1> QED BY <1>1, MovesOnKeeps DEF ResolveItem

(* The question is asked: it is in the event channel, and nowhere else. *)
LEMMA AskUserKeeps == ASSUME ControlInv, NEW o \in Operations, AskUser(o) PROVE ControlInv'
<1>0. ControlTypes /\ OperationOK(o) /\ pc[o] = "resolving" /\ at[o] \in 1..Items /\ Emit("conflict", o)
  BY DEF ControlInv, AskUser, ControlTypes, ControlTypeOK, OnItem
<1>1. /\ Event("conflict", o) \in Events /\ Event("conflict", o).event = "conflict"
      /\ Event("conflict", o).op = o /\ Event("conflict", o).item = at[o]
  BY <1>0 DEF Event, Events, Questions
<1>2. /\ events' \in Seq(Events) /\ Len(events') = Len(events) + 1
      /\ \A i \in 1..Len(events) : events'[i] = events[i]
      /\ events'[Len(events) + 1] = Event("conflict", o)
  BY <1>0, <1>1, EmitEntries
<1>3. ControlTypes'
  BY <1>0, <1>2 DEF AskUser, Goto, ControlTypes, ControlTypeOK, Labels, OnItem, markVars, windowVars
<1>4. TaskOf(o) BY <1>0 DEF AskUser, Goto, TaskOf, windowVars, markVars, ControlTypes, ControlTypeOK
<1>5. NoQuestion(o) BY <1>0, NobodyAsks DEF OperationOK
<1>6. pc'[o] = "asking" /\ at'[o] = at[o] /\ answer'[o] = {} /\ o \in prompts' /\ late'[o] = late[o] /\ late[o] = 0
  BY <1>0 DEF AskUser, Goto, ControlTypes, ControlTypeOK, OperationOK, CancelIsSeen
<1>7. Asked(o)' = {Len(events) + 1}
  <2>1. Len(events) + 1 \in Asked(o)' BY <1>0, <1>1, <1>2 DEF Asked, ControlTypes
  <2>2. ASSUME NEW i \in Asked(o)', i # Len(events) + 1 PROVE FALSE
    <3>1. i \in 1..(Len(events) + 1) /\ events'[i].event = "conflict" /\ events'[i].op = o
      BY <1>2 DEF Asked
    <3>2. i \in 1..Len(events) BY <1>0, <2>2, <3>1 DEF ControlTypes
    <3>3. i \in Asked(o) BY <1>2, <3>1, <3>2 DEF Asked
    <3> QED BY <1>5, <3>3 DEF NoQuestion
  <2> QED BY <2>1, <2>2
<1>8. ~InDialog(o)' /\ Answered(o)' = {} /\ Resolving(o)' = {}
  BY <1>5 DEF NoQuestion, AskUser, InDialog, Answered, Resolving, windowVars
<1>9. OneQuestion(o)' BY <1>1, <1>2, <1>6, <1>7, <1>8 DEF OneQuestion
<1>10. OperationOK(o)'
  BY <1>6, <1>9 DEF OperationOK, PromptIsOwned, AnswerEnds, EndIsHeard, CancelIsSeen
<1> QED BY <1>0, <1>1, <1>3, <1>4, <1>10, TaskKeepsEmitting

(* The answer is taken: nothing of the question is left. *)
LEMMA TakeAnswerKeeps == ASSUME ControlInv, NEW o \in Operations, TakeAnswer(o) PROVE ControlInv'
<1>0. ControlTypes /\ OperationOK(o) /\ OneQuestion(o) /\ pc[o] = "asking"
  BY DEF ControlInv, OperationOK, TakeAnswer
<1>1. PICK r \in answer[o] : /\ Follow(o, r.strategy)
                             /\ sticky' = [sticky EXCEPT ![o] = IF r.strategy \in ForAll THEN r.strategy ELSE @]
  BY DEF TakeAnswer
<1>2. answer' = [answer EXCEPT ![o] = {}] /\ UNCHANGED <<prompts, markVars, windowVars, late, commands, resolving, events>>
  BY DEF TakeAnswer
<1>3. MovesOn(o) BY <1>0, <1>1, <1>2 DEF Follow, Goto, MovesOn, OnItem, ControlTypes, ControlTypeOK
<1>4. ControlTypes' BY <1>0, <1>1, <1>2, <1>3, MovesOnTypes DEF ControlTypes, ControlTypeOK
<1>5. TaskOf(o) BY <1>0, <1>1, <1>2, <1>3 DEF MovesOn, TaskOf, markVars, ControlTypes, ControlTypeOK
<1>6. Asked(o) = {} /\ ~InDialog(o) /\ Answered(o) = {} /\ Resolving(o) = {} /\ o \notin prompts /\ late[o] = 0
  BY <1>0, <1>1 DEF OneQuestion, OperationOK, PromptIsOwned, CancelIsSeen
<1>7. NoQuestion(o)'
  BY <1>0, <1>2, <1>6 DEF NoQuestion, Asked, InDialog, Answered, Resolving, windowVars, ControlTypes
<1>8. OneQuestion(o)' BY <1>7 DEF OneQuestion, NoQuestion
<1>9. OperationOK(o)'
  BY <1>2, <1>3, <1>6, <1>8 DEF MovesOn, OperationOK, PromptIsOwned, AnswerEnds, EndIsHeard, CancelIsSeen
<1> QED BY <1>2, <1>4, <1>5, <1>9, TaskKeepsSilently

(* The item is acted on, once in spite of a mark. *)
LEMMA ActKeeps == ASSUME ControlInv, NEW o \in Operations, Act(o) PROVE ControlInv'
<1>0. ControlTypes /\ OperationOK(o) /\ pc[o] = "acting" BY DEF ControlInv, Act
<1>1. late[o] = 0 BY <1>0 DEF OperationOK, CancelIsSeen
<1>2. late' \in [Operations -> Nat] /\ late'[o] = (IF o \in cancelMarks THEN 1 ELSE 0)
  BY <1>0, <1>1 DEF Act, ControlTypes
<1>3. CASE Leave(o)
  <2>1. TaskOf(o)
    BY <1>0, <1>3 DEF Act, Leave, Goto, TaskOf, windowVars, markVars, ControlTypes, ControlTypeOK
  <2>2. pc'[o] = "over" BY <1>0, <1>3 DEF Leave, Goto, ControlTypes, ControlTypeOK
  <2>3. UNCHANGED <<at, paused, cancelMarks>>
    BY <1>0, <2>2 DEF Act, Goto, markVars, ControlTypes, ControlTypeOK
  <2>4. late'[o] <= 1 /\ cancelMarks' \subseteq Operations
    BY <1>0, <1>2, <2>3 DEF ControlTypes, ControlTypeOK
  <2> QED BY <1>0, <1>2, <1>3, <2>1, <2>3, <2>4, Leaves
<1>4. CASE ~Leave(o)
  <2>1. MovesOn(o) /\ UNCHANGED <<prompts, answer, sticky>> /\ pc'[o] = "between"
    BY <1>0, <1>4 DEF Act, MovesOn, Goto, OnItem, ControlTypes, ControlTypeOK
  <2>2. ControlTypes' BY <1>0, <1>2, <2>1, MovesOnTypes DEF ControlTypes, ControlTypeOK
  <2>3. CancelIsSeen(o)' BY <1>2, <2>1 DEF CancelIsSeen, MovesOn, markVars
  <2>4. OperationOK(o)' BY <1>0, <2>1, <2>3, Proceeds DEF MovesOn
  <2>5. TaskOf(o) BY <1>0, <2>1 DEF Act, MovesOn, TaskOf, markVars, ControlTypes, ControlTypeOK
  <2> QED BY <2>1, <2>2, <2>4, <2>5, TaskKeepsSilently DEF MovesOn
<1> QED BY <1>3, <1>4

(* The last item is done. *)
LEMMA FinishKeeps == ASSUME ControlInv, NEW o \in Operations, Finish(o) PROVE ControlInv'
<1>1. ControlTypes /\ CancelIsSeen(o) BY DEF ControlInv, OperationOK
<1>2. TaskOf(o)
  BY <1>1 DEF Finish, Leave, Goto, TaskOf, windowVars, markVars, ControlTypes, ControlTypeOK
<1>3. late' \in [Operations -> Nat] /\ late'[o] <= 1 /\ cancelMarks' \subseteq Operations
  BY <1>1 DEF Finish, markVars, ControlTypes, ControlTypeOK, CancelIsSeen
<1> QED BY <1>2, <1>3, Leaves DEF Finish, markVars

-------------------------------------------------------------------------------

(* Every step keeps the invariant. *)
LEMMA ControlStepInv == ControlInv /\ [ControlNext]_controlVars => ControlInv'
<1> SUFFICES ASSUME ControlInv, [ControlNext]_controlVars PROVE ControlInv' OBVIOUS
<1>1. CASE UNCHANGED controlVars
  <2>1. UNCHANGED <<executorVars, markVars, late, resolving, events>> /\ UNCHANGED <<commands, windowVars>>
    BY <1>1 DEF controlVars
  <2>2. ControlTypes'
    BY <2>1 DEF ControlInv, ControlTypes, ControlTypeOK, executorVars, markVars, windowVars
  <2>3. ASSUME NEW q \in Operations PROVE Untouched(q)
    <3>1. EventsSame(q) /\ AnsweredSame(q) BY <2>1, EventsUnchanged, CommandsUnchanged DEF ControlInv
    <3> QED BY <2>1, <3>1 DEF Untouched, executorVars, markVars, windowVars, Resolving
  <2> QED BY <2>2, <2>3, UntouchedIsOK DEF ControlInv
<1>2. CASE HandleCommand
  BY <1>2, HandleStartKeeps, HandleMarksKeep, HandleResolveKeeps DEF HandleCommand
<1>3. CASE HandleEvent BY <1>3, HandleEventKeeps
<1>4. CASE \E r \in resolving : ResolvePending(r) BY <1>4, ResolvePendingKeeps
<1>5. ASSUME NEW o \in Operations, UserStep(o) PROVE ControlInv'
  BY <1>5, RequestKeeps, TogglePauseKeeps, ClickCancelKeeps, CancelFromDialogKeeps, AnswerConflictKeeps DEF UserStep
<1>6. ASSUME NEW o \in Operations, TaskStep(o) PROVE ControlInv'
  <2>1. CASE PollCancelled(o) BY <2>1, SeeCancelKeeps DEF PollCancelled
  <2> QED BY <1>6, <2>1, StartKeeps, CheckpointKeeps, PassPauseKeeps, ResolveItemKeeps, AskUserKeeps,
      TakeAnswerKeeps, ActKeeps, FinishKeeps DEF TaskStep
<1> QED BY <1>1, <1>2, <1>3, <1>4, <1>5, <1>6 DEF ControlNext

(* However commands, answers, events and the task's steps cross, an answer only ever settles
   the question it was given to, a waiting task can be reached, nothing decided, shown or asked
   stays when its operation is over, and a cancelled operation acts on one more item at most. *)
THEOREM NothingEverOutlivesOperation == ControlSpec => []NothingOutlivesOperation
<1>1. ControlInit => ControlInv BY ControlInitInv
<1>2. ControlInv /\ [ControlNext]_controlVars => ControlInv' BY ControlStepInv
<1>3. ControlInv => NothingOutlivesOperation BY InvImpliesNothingOutlives
<1> QED BY <1>1, <1>2, <1>3, PTL DEF ControlSpec

-------------------------------------------------------------------------------
(* Shortcuts. *)

(* f lists the numbers of S, smaller ones first. *)
ListsInOrder(f, S) ==
    /\ f \in [1..Cardinality(S) -> S]
    /\ \A i, j \in 1..Cardinality(S) : i < j => f[i] < f[j]

(* The numbers up to n can be listed in their order, those of any part of them too: for the
   least n for which not, the last number may be left out first. *)
LEMMA OrdersExist ==
    ASSUME NEW n \in Nat, NEW S \in SUBSET (1..n)
    PROVE  IsFiniteSet(S) /\ \E f : ListsInOrder(f, S)
<1> DEFINE Orders(k) == \A T \in SUBSET (1..k) : \E f : ListsInOrder(f, T)
<1> DEFINE Bad == {k \in Nat : ~Orders(k)}
<1>1. ASSUME NEW k \in Nat, NEW T \in SUBSET (1..k) PROVE IsFiniteSet(T) /\ Cardinality(T) \in Nat
  <2>1. IsFiniteSet(1..k) BY FS_Interval
  <2> QED BY <2>1, FS_Subset, FS_CardinalityType
<1>2. SUFFICES ASSUME Bad # {} PROVE FALSE BY <1>1
<1>3. PICK k \in Bad : \A m \in Bad : ~(m < k)
  <2>1. PICK k \in Bad : \A m \in Bad : <<m, k>> \notin OpToRel(<, Nat)
    BY <1>2, WFMin, NatLessThanWellFounded
  <2> QED BY <2>1 DEF OpToRel
<1>4. PICK T \in SUBSET (1..k) : ~\E f : ListsInOrder(f, T) BY <1>3
<1> k \in Nat BY <1>3
<1>5. k # 0
  <2>1. ASSUME k = 0 PROVE ListsInOrder(<< >>, T)
    <3>1. T = {} BY <2>1
    <3>2. Cardinality(T) = 0 BY <3>1, FS_EmptySet
    <3> QED BY <3>1, <3>2 DEF ListsInOrder
  <2> QED BY <2>1, <1>4
<1>6. k - 1 \in Nat /\ Orders(k - 1) BY <1>3, <1>5
<1>7. k \in T BY <1>4, <1>6
<1> DEFINE R == T \ {k}
<1>8. R \in SUBSET (1..k - 1) /\ T = R \cup {k} /\ k \notin R BY <1>7
<1>9. Cardinality(R) \in Nat /\ Cardinality(T) = Cardinality(R) + 1 BY <1>1, <1>6, <1>8, FS_AddElement
<1>10. PICK f : ListsInOrder(f, R) BY <1>6, <1>8
<1> DEFINE g == [i \in 1..Cardinality(T) |-> IF i = Cardinality(T) THEN k ELSE f[i]]
<1> HIDE DEF R, Bad
<1>11. \A i \in 1..Cardinality(T) : \/ i = Cardinality(T) /\ g[i] = k
                                    \/ i \in 1..Cardinality(R) /\ g[i] = f[i]
  BY <1>9
<1>12. \A i \in 1..Cardinality(R) : f[i] \in R /\ f[i] < k
  <2>1. \A i \in 1..Cardinality(R) : f[i] \in R BY <1>10 DEF ListsInOrder
  <2>2. \A x \in R : x < k BY <1>8
  <2> QED BY <2>1, <2>2
<1>13. g \in [1..Cardinality(T) -> T] BY <1>7, <1>8, <1>11, <1>12
<1>14. \A i, j \in 1..Cardinality(T) : i < j => g[i] < g[j]
  BY <1>9, <1>10, <1>11, <1>12 DEF ListsInOrder
<1> QED BY <1>4, <1>13, <1>14 DEF ListsInOrder

(* Ascending lists the numbers, each of them once. *)
LEMMA AscendingLists ==
    ASSUME NEW n \in Nat, NEW S \in SUBSET (1..n)
    PROVE  /\ Cardinality(S) \in Nat /\ Ascending(S) \in [1..Cardinality(S) -> S]
           /\ \A i, j \in 1..Cardinality(S) : Ascending(S)[i] = Ascending(S)[j] => i = j
           /\ \A x \in S : \E i \in 1..Cardinality(S) : Ascending(S)[i] = x
<1> DEFINE f == Ascending(S)
<1>1. IsFiniteSet(S) /\ Cardinality(S) \in Nat BY OrdersExist, FS_CardinalityType
<1>2. ListsInOrder(f, S) BY OrdersExist DEF ListsInOrder, Ascending
<1> HIDE DEF f
<1>3. \A i, j \in 1..Cardinality(S) : f[i] = f[j] => i = j
  <2>1. \A i \in 1..Cardinality(S) : f[i] \in S BY <1>2 DEF ListsInOrder
  <2> SUFFICES ASSUME NEW i \in 1..Cardinality(S), NEW j \in 1..Cardinality(S), f[i] = f[j] PROVE i = j
    OBVIOUS
  <2>2. \A x \in S : x \in Nat OBVIOUS
  <2>3. f[i] \in Nat /\ f[j] \in Nat BY <2>1, <2>2
  <2>4. ~(i < j) /\ ~(j < i) BY <1>2, <2>3 DEF ListsInOrder
  <2> QED BY <1>1, <2>4
<1>4. f \in Injection(1..Cardinality(S), S) BY <1>2, <1>3 DEF ListsInOrder, Injection, IsInjective
<1>5. Cardinality(1..Cardinality(S)) = Cardinality(S) BY <1>1, FS_Interval
<1>6. f \in Surjection(1..Cardinality(S), S) BY <1>1, <1>4, <1>5, FS_Injection
<1>7. \A x \in S : \E i \in 1..Cardinality(S) : f[i] = x BY <1>6 DEF Surjection
<1> QED BY <1>1, <1>2, <1>3, <1>7 DEF f, ListsInOrder

(* Shortcuts that are of different actions, all of which are known. *)
SomeBound(bindings) == bindings \in Seq(Shortcuts) /\ OneEach(bindings)
AllBound(bindings) == SomeBound(bindings) /\ Bound(bindings) = ToSet(Actions)

(* The default shortcuts are of all actions. *)
LEMMA DefaultsBindAll == AllBound(DefaultKeybindings)
  BY SettingAssumption DEF SettingAssumption, AllBound, SomeBound, OneEach, Bound, DefaultKeybindings,
    Shortcuts, ToSet

(* A shortcut is of an action. *)
LEMMA ShortcutsAct == \A b \in Shortcuts : b.action \in ToSet(Actions)
  BY DEF Shortcuts

(* With the missing ones, whatever shortcuts there were are of all actions, and where none is
   missing nothing changes. *)
LEMMA MissingAreBound ==
    ASSUME NEW bs, SomeBound(bs)
    PROVE  AllBound(WithMissingDefaults(bs)) /\ (AllBound(bs) => WithMissingDefaults(bs) = bs)
<1> DEFINE M == {i \in DOMAIN Actions : Actions[i] \notin Bound(bs)}
           m == Ascending(M)
           more == [i \in DOMAIN m |-> DefaultKeybindings[m[i]]]
           all == WithMissingDefaults(bs)
<1>1. Len(Actions) \in Nat /\ DOMAIN Actions = 1..Len(Actions) /\ M \in SUBSET (1..Len(Actions))
  BY SettingAssumption DEF SettingAssumption
<1>2. /\ Cardinality(M) \in Nat /\ m \in [1..Cardinality(M) -> M]
      /\ \A i, j \in 1..Cardinality(M) : m[i] = m[j] => i = j
      /\ \A x \in M : \E i \in 1..Cardinality(M) : m[i] = x
  BY <1>1, AscendingLists
<1>3. all = bs \o more BY DEF WithMissingDefaults
<1>4. M \subseteq DOMAIN Actions /\ \A x \in M : Actions[x] \notin Bound(bs) OBVIOUS
<1>5. \A x \in DOMAIN Actions : Actions[x] \in Bound(bs) \/ x \in M OBVIOUS
<1> HIDE DEF m, M, all
<1>6. \A i \in 1..Cardinality(M) : /\ m[i] \in DOMAIN Actions /\ more[i] \in Shortcuts
                                   /\ more[i].action = Actions[m[i]] /\ more[i].action \notin Bound(bs)
  BY <1>1, <1>2, <1>4, DefaultsBindAll DEF AllBound, SomeBound, DefaultKeybindings
<1>7. more \in Seq(Shortcuts) /\ Len(more) = Cardinality(M) /\ DOMAIN more = 1..Cardinality(M)
  BY <1>2, <1>6
<1> HIDE DEF more
<1>8. bs \in Seq(Shortcuts) /\ \A i \in DOMAIN bs : bs[i].action \in Bound(bs) /\ bs[i].action \in ToSet(Actions)
  BY ShortcutsAct DEF SomeBound, Bound
<1>9. /\ all \in Seq(Shortcuts)
      /\ \A i \in DOMAIN all : \/ i \in DOMAIN bs /\ all[i] = bs[i]
                               \/ i - Len(bs) \in 1..Cardinality(M) /\ all[i] = more[i - Len(bs)]
      /\ \A i \in DOMAIN bs : i \in DOMAIN all /\ all[i] = bs[i]
      /\ \A i \in 1..Cardinality(M) : i + Len(bs) \in DOMAIN all /\ all[i + Len(bs)] = more[i]
  BY <1>2, <1>3, <1>7, <1>8
<1>10. OneEach(all)
  <2> SUFFICES ASSUME NEW i \in DOMAIN all, NEW j \in DOMAIN all, all[i].action = all[j].action PROVE i = j
    BY DEF OneEach
  <2>1. i \in Nat /\ j \in Nat /\ Len(bs) \in Nat BY <1>8, <1>9
  <2>2. CASE i \in DOMAIN bs /\ all[i] = bs[i] /\ j \in DOMAIN bs /\ all[j] = bs[j]
    BY <2>2 DEF SomeBound, OneEach
  <2>3. CASE /\ i - Len(bs) \in 1..Cardinality(M) /\ all[i] = more[i - Len(bs)]
             /\ j - Len(bs) \in 1..Cardinality(M) /\ all[j] = more[j - Len(bs)]
    BY <2>3, <1>6, SettingAssumption, <1>2, <2>1 DEF SettingAssumption
  <2> QED BY <2>2, <2>3, <1>6, <1>8, <1>9
<1>11. Bound(all) = ToSet(Actions)
  <2>1. \A a \in Bound(all) : a \in ToSet(Actions) BY <1>9, ShortcutsAct DEF Bound
  <2>2. \A x \in DOMAIN Actions : Actions[x] \in Bound(all)
    <3> SUFFICES ASSUME NEW x \in DOMAIN Actions PROVE Actions[x] \in Bound(all) OBVIOUS
    <3>1. CASE Actions[x] \in Bound(bs) BY <3>1, <1>9 DEF Bound
    <3>2. CASE x \in M
      <4>1. PICK i \in 1..Cardinality(M) : m[i] = x BY <3>2, <1>2
      <4>2. all[i + Len(bs)].action = Actions[x] /\ i + Len(bs) \in DOMAIN all BY <4>1, <1>6, <1>9
      <4> QED BY <4>2 DEF Bound
    <3> QED BY <3>1, <3>2, <1>5
  <2> QED BY <2>1, <2>2 DEF ToSet
<1>12. ASSUME Bound(bs) = ToSet(Actions) PROVE all = bs
  <2>1. M = {} BY <1>12, <1>4 DEF ToSet
  <2>2. more = << >> BY <2>1, <1>7, FS_EmptySet
  <2> QED BY <2>2, <1>3, <1>8
<1> QED BY <1>9, <1>10, <1>11, <1>12 DEF AllBound, SomeBound, all

-------------------------------------------------------------------------------
(* Configurations. *)

SettingItems == [id : Nat, text : Wordings]
ConfigFields == {"is", "bookmarks", "associations", "view", "size", "bindings", "style", "theme",
                 "general", "layout"}
IsConfig(c) ==
    /\ c = [f \in ConfigFields |-> c[f]] /\ c.is = "config" /\ c.style \in {0, 1}
    /\ c.associations \in Seq(SettingItems) /\ SomeBound(c.bindings)

(* What a window has, and what may be on file. *)
ConfigFits(c) == IsConfig(c) /\ c.style = 1 /\ AllBound(c.bindings)
FileFits(file) == file \in {NoFile, Half} \/ IsConfig(file)

(* A change of a field leaves a configuration one. *)
LEMMA ConfigsChange ==
    ASSUME NEW c, ConfigFits(c), NEW x
    PROVE  /\ ConfigFits([c EXCEPT !.bookmarks = x]) /\ ConfigFits([c EXCEPT !.view = x])
           /\ ConfigFits([c EXCEPT !.size = x]) /\ ConfigFits([c EXCEPT !.theme = x])
           /\ ConfigFits([c EXCEPT !.general = x]) /\ ConfigFits([c EXCEPT !.layout = x])
           /\ x \in Seq(SettingItems) => ConfigFits([c EXCEPT !.associations = x])
           /\ AllBound(x) => ConfigFits([c EXCEPT !.bindings = x])
  BY DEF ConfigFits, IsConfig, ConfigFields, AllBound

(* The default is one. *)
LEMMA DefaultFits ==
    /\ ConfigFits(DefaultConfig) /\ DefaultConfig.associations = << >> /\ DefaultConfig.theme = "raven"
BY DefaultsBindAll DEF AllBound, ConfigFits, IsConfig, ConfigFields, DefaultConfig

(* So is whatever is read, and one that a window had is read as it was. *)
LEMMA LoadedFits ==
    ASSUME NEW file, FileFits(file)
    PROVE  /\ ConfigFits(LoadedFrom(file))
           /\ ConfigFits(file) => LoadedFrom(file) = file
           /\ file.is # "config" => file \in {NoFile, Half} /\ LoadedFrom(file) = DefaultConfig
           /\ file.is = "config" => IsConfig(file) /\ LoadedFrom(file).associations = file.associations
<1> DEFINE config == IF file.is = "config" THEN file ELSE DefaultConfig
           bindings == WithMissingDefaults(config.bindings)
           whole == [config EXCEPT !.bindings = bindings]
<1>1. \/ file \in {NoFile, Half} /\ config = DefaultConfig /\ file.is # "config"
      \/ IsConfig(file) /\ config = file
  <2>1. NoFile.is # "config" /\ Half.is # "config" BY DEF NoFile, Half
  <2>2. CASE file \in {NoFile, Half} BY <2>1, <2>2
  <2>3. CASE IsConfig(file) BY <2>3 DEF IsConfig
  <2> QED BY <2>2, <2>3 DEF FileFits
<1>2. IsConfig(config) BY <1>1, DefaultFits DEF ConfigFits
<1>3. AllBound(bindings) /\ (AllBound(config.bindings) => bindings = config.bindings)
  BY <1>2, MissingAreBound DEF IsConfig
<1>4. LoadedFrom(file) = IF whole.style = 0 THEN [whole EXCEPT !.theme = "raven", !.style = 1] ELSE whole
  BY <1>3 DEF LoadedFrom
<1> HIDE DEF bindings, config
<1>5. ConfigFits(LoadedFrom(file)) /\ LoadedFrom(file).associations = config.associations
  BY <1>2, <1>3, <1>4 DEF ConfigFits, IsConfig, ConfigFields, AllBound
<1>6. ASSUME ConfigFits(config) PROVE LoadedFrom(file) = config
  BY <1>3, <1>4, <1>6 DEF ConfigFits, IsConfig, ConfigFields
<1>7. IsConfig(file) => file.is = "config" BY DEF IsConfig
<1> QED BY <1>1, <1>5, <1>6, <1>7, DefaultFits DEF ConfigFits, NoFile, Half

(* What the window has is ahead of a configuration by blank associations alone, and by its size
   while the zoom is to settle. *)
AheadOf(a, c, zooming) ==
    /\ \A f \in ConfigFields : f = "associations" \/ (f = "size" /\ zooming) \/ c[f] = a[f]
    /\ \E l \in Seq(SettingItems) : AllBlank(l) /\ c.associations = a.associations \o l

LEMMA AheadOfItself ==
    ASSUME NEW c, IsConfig(c), NEW zooming \in BOOLEAN
    PROVE  AheadOf(c, c, zooming)
<1>1. << >> \in Seq(SettingItems) /\ AllBlank(<< >>) /\ c.associations = c.associations \o << >>
  BY DEF IsConfig, AllBlank
<1> QED BY <1>1 DEF AheadOf

(* So the rest of the list, if it is not on file, is blank. *)
LEMMA RestOfList ==
    ASSUME NEW p \in Seq(SettingItems), NEW l \in Seq(SettingItems)
    PROVE  IsPrefix(p, p \o l) /\ SubSeq(p \o l, Len(p) + 1, Len(p \o l)) = l
<1> DEFINE q == p \o l
           rest == SubSeq(q, Len(p) + 1, Len(q))
<1>1. /\ q \in Seq(SettingItems) /\ Len(p) \in Nat /\ Len(l) \in Nat /\ Len(q) = Len(p) + Len(l)
      /\ \A i \in 1..Len(p) : q[i] = p[i]
      /\ \A i \in 1..Len(l) : q[i + Len(p)] = l[i]
  OBVIOUS
<1> HIDE DEF q
<1>2. SubSeq(p, 1, Len(p)) = SubSeq(q, 1, Len(p)) BY <1>1
<1>3. rest \in Seq(SettingItems) /\ Len(rest) = Len(l) /\ \A i \in 1..Len(l) : rest[i] = l[i] BY <1>1
<1> HIDE DEF rest
<1>4. rest = l BY <1>3
<1> QED BY <1>1, <1>2, <1>4 DEF IsPrefix, q, rest

-------------------------------------------------------------------------------
(* The invariant. *)

WinFields == {"on", "config", "actions", "timers", "writing", "rows", "look", "watching", "missed",
              "unsaved"}
RowFields == {"open", "associations", "actions", "bindings", "capturing"}
WantedFields == {"associations", "actions", "keys", "bookmarks", "theme"}
Scenes == [does : SUBSET STRING, windows : SUBSET Windows, left : Nat]

(* Actions are numbered, each with a number of its own, so far given. *)
Numbered(list, n) ==
    /\ list \in Seq(SettingItems) /\ \A i \in DOMAIN list : list[i].id <= n
    /\ \A i, j \in DOMAIN list : list[i].id = list[j].id => i = j
ActionsFit(list) == Numbered(list, made)

(* Rows of actions and shortcuts stand where their item does. *)
RowsFit(shown, config, actions) ==
    /\ shown = [f \in RowFields |-> shown[f]] /\ shown.capturing \subseteq shown.bindings
    /\ \A r \in shown.actions : r.index \in DOMAIN actions /\ actions[r.index].id = r.id
    /\ \A r \in shown.bindings :
          r.index \in DOMAIN config.bindings /\ config.bindings[r.index].action = r.action

(* With one window, which has what its user wants; unless it is writing, or could not, the file
   is not behind it but in what need not be saved yet. *)
WantsIs(s) ==
    /\ s.actions = wanted.actions /\ s.config.bindings = wanted.keys
    /\ s.config.bookmarks = wanted.bookmarks /\ s.config.theme = wanted.theme
    /\ "actions" \notin s.unsaved => s.actions = ActionsFrom(actionsFile)
    /\ ~s.writing /\ "config" \notin s.unsaved => AheadOf(LoadedFrom(saved), s.config, "zoom" \in s.timers)

LookFits(s) ==
    desktop.whole /\ "desktop" \notin s.timers /\ ~s.missed => s.look = Look(s.config.theme)

WindowFits(w, s) ==
    /\ s = [f \in WinFields |-> s[f]] /\ s.on \in BOOLEAN /\ s.writing \in BOOLEAN
    /\ ConfigFits(s.config) /\ ActionsFit(s.actions) /\ RowsFit(s.rows, s.config, s.actions)
    /\ IF s.on THEN w \in changing.windows /\ LookFits(s) /\ (Alone => WantsIs(s)) ELSE s = Off

SharedFits ==
    /\ changing \in Scenes /\ IsFiniteSet(changing.windows)
    /\ FileFits(saved) /\ made \in Nat /\ wanted = [f \in WantedFields |-> wanted[f]]
    /\ actionsFile \in {NoFile, Half} \/ (actionsFile.is = "actions" /\ ActionsFit(actionsFile.list))

(* With its window closed, the file has the look. *)
ClosedFits ==
    Alone /\ (\A w \in Windows : ~win[w].on) => LoadedFrom(saved).theme = wanted.theme

SettingInv ==
    /\ SharedFits /\ ClosedFits /\ win = [w \in Windows |-> win[w]]
    /\ \A w \in Windows : WindowFits(w, win[w])

(* One window is no other. *)
LEMMA OneWindow ==
    ASSUME SharedFits, Alone, NEW w \in changing.windows, NEW v \in changing.windows
    PROVE  w = v
BY FS_Singleton DEF SharedFits, Alone

(* It says what was to be shown: of the files, what SettledIsSaved says of a window. *)
ShownOnFile(s) ==
    LET onFile == LoadedFrom(saved)
        told == Len(onFile.associations)
    IN  /\ "config" \notin s.unsaved =>
             /\ [onFile EXCEPT !.associations = << >>] = [s.config EXCEPT !.associations = << >>]
             /\ IsPrefix(onFile.associations, s.config.associations)
             /\ AllBlank(SubSeq(s.config.associations, told + 1, Len(s.config.associations)))
        /\ "actions" \notin s.unsaved => s.actions = ActionsFrom(actionsFile)

LEMMA InvIsKept == SettingInv => SettingsAreKept
<1> SUFFICES ASSUME SettingInv PROVE SettingsAreKept OBVIOUS
<1>1. LookFollowsDesktop BY DEF SettingInv, WindowFits, LookFits, LookFollowsDesktop
<1>2. EditsReachTheirItem
  BY DEF SettingInv, WindowFits, WantsIs, EditsReachTheirItem, ConfigFits, AllBound
<1>3. ASSUME Alone, NEW w \in Windows, AtRest(w) PROVE ShownOnFile(win[w])
  <2> DEFINE c == win[w].config
             a == LoadedFrom(saved)
  <2>1. /\ IsConfig(c) /\ FileFits(saved) /\ ("config" \notin win[w].unsaved => AheadOf(a, c, FALSE))
        /\ "actions" \notin win[w].unsaved => win[w].actions = ActionsFrom(actionsFile)
    <3>1. WindowFits(w, win[w]) /\ win[w].on /\ ~win[w].writing /\ "zoom" \notin win[w].timers /\ FileFits(saved)
      BY <1>3 DEF SettingInv, SharedFits, AtRest
    <3>2. IsConfig(c) /\ WantsIs(win[w]) BY <1>3, <3>1 DEF WindowFits, ConfigFits
    <3> QED BY <3>1, <3>2 DEF WantsIs, AheadOf
  <2>2. IsConfig(a) BY <2>1, LoadedFits DEF ConfigFits
  <2>3. ASSUME "config" \notin win[w].unsaved
        PROVE  /\ [a EXCEPT !.associations = << >>] = [c EXCEPT !.associations = << >>]
               /\ IsPrefix(a.associations, c.associations)
               /\ AllBlank(SubSeq(c.associations, Len(a.associations) + 1, Len(c.associations)))
    <3>1. PICK l \in Seq(SettingItems) : AllBlank(l) /\ c.associations = a.associations \o l
      BY <2>1, <2>3 DEF AheadOf
    <3> HIDE DEF a, c
    <3>2. [a EXCEPT !.associations = << >>] = [c EXCEPT !.associations = << >>]
      BY <2>1, <2>2, <2>3 DEF AheadOf, IsConfig, ConfigFields
    <3> QED BY <2>2, <3>1, <3>2, RestOfList DEF IsConfig
  <2> QED BY <2>1, <2>3 DEF ShownOnFile
<1> QED BY <1>1, <1>2, <1>3 DEF SettingsAreKept, SettledIsSaved, ShownOnFile

-------------------------------------------------------------------------------
(* What a step of one window is like. *)

SameScene ==
    /\ changing' \in Scenes /\ changing'.windows = changing.windows /\ changing'.does = changing.does

(* A window that runs changes, by some of its fields. *)
Changes(w, fields) ==
    /\ win[w].on /\ SameScene /\ desktop' = desktop
    /\ win' = [v \in Windows |-> win'[v]] /\ \A v \in Windows \ {w} : win'[v] = win[v]
    /\ win'[w] = [f \in WinFields |-> win'[w][f]]
    /\ \A f \in WinFields \ fields : win'[w][f] = win[w][f]

LEMMA MayDoIs ==
    ASSUME SettingInv, NEW w, NEW what, MayDo(w, what)
    PROVE  win[w].on /\ ~win[w].writing /\ SameScene
BY DEF MayDo, SettingInv, SharedFits, Scenes, SameScene

(* Nobody becomes alone, or ceases to be. *)
LEMMA SameAlone == SameScene => (Alone' <=> Alone)
  BY DEF SameScene, Alone

(* An item is one. *)
LEMMA ItemsAre ==
    ASSUME NEW list \in Seq(SettingItems)
    PROVE  \A i \in DOMAIN list : list[i] \in SettingItems /\ list[i].id \in Nat
<1>1. \A i \in DOMAIN list : list[i] \in SettingItems OBVIOUS
<1>2. \A x \in SettingItems : x.id \in Nat BY DEF SettingItems
<1> QED BY <1>1, <1>2

(* What is not of this window stays as it is: numbers of actions only get more, and files
   matter to the one window there is. *)
LEMMA OthersFit ==
    ASSUME SettingInv, NEW w \in Windows, w \in changing.windows, SameScene, desktop' = desktop,
           made' >= made, SharedFits', NEW v \in Windows \ {w}, win'[v] = win[v]
    PROVE  WindowFits(v, win[v])'
<1>1. WindowFits(v, win[v]) /\ made \in Nat /\ made' \in Nat /\ SharedFits BY DEF SettingInv, SharedFits
<1>2. ActionsFit(win[v].actions)'
  <2>1. ActionsFit(win[v].actions) BY <1>1 DEF WindowFits
  <2>2. \A i \in DOMAIN win[v].actions : win[v].actions[i].id \in Nat
    BY <2>1, ItemsAre DEF ActionsFit, Numbered
  <2>3. \A i \in DOMAIN win[v].actions : win[v].actions[i].id <= made'
    BY <2>1, <2>2, <1>1 DEF ActionsFit, Numbered
  <2> QED BY <2>1, <2>3 DEF ActionsFit, Numbered
<1>3. win[v].on => v \in changing'.windows /\ LookFits(win[v])' /\ ~Alone'
  BY <1>1, OneWindow, SameAlone DEF WindowFits, LookFits, Look, SameScene
<1> QED BY <1>1, <1>2, <1>3 DEF WindowFits

(* So it is enough to look at the window. *)
LEMMA WindowGoes ==
    ASSUME SettingInv, NEW w \in Windows,
           Changes(w, WinFields \ {"on", "missed"}),
           SharedFits', made' >= made, win'[w].writing \in BOOLEAN, ConfigFits(win'[w].config),
           ActionsFit(win[w].actions)', RowsFit(win'[w].rows, win'[w].config, win'[w].actions),
           LookFits(win[w])', Alone => WantsIs(win[w])'
    PROVE  SettingInv'
<1>1. WindowFits(w, win[w]) /\ win'[w].on = TRUE /\ w \in changing.windows /\ w \in changing'.windows
  BY DEF SettingInv, WindowFits, Changes, WinFields, SameScene
<1>2. WindowFits(w, win[w])' BY <1>1, SameAlone DEF WindowFits, Changes
<1>3. \A v \in Windows \ {w} : WindowFits(v, win[v])' BY <1>1, OthersFit DEF Changes
<1>4. ClosedFits' BY <1>1 DEF ClosedFits
<1>5. (win = [v \in Windows |-> win[v]])' BY DEF Changes
<1> QED BY <1>2, <1>3, <1>4, <1>5 DEF SettingInv

(* What a window that runs is like. *)
LEMMA OnFits ==
    ASSUME SettingInv, NEW w \in Windows, win[w].on
    PROVE  /\ win[w] = [f \in WinFields |-> win[w][f]] /\ win = [v \in Windows |-> win[v]]
           /\ w \in changing.windows /\ LookFits(win[w]) /\ (Alone => WantsIs(win[w]))
           /\ IsConfig(win[w].config) /\ ConfigFits(win[w].config) /\ ActionsFit(win[w].actions)
           /\ RowsFit(win[w].rows, win[w].config, win[w].actions)
           /\ SharedFits /\ win[w].writing \in BOOLEAN
  BY DEF SettingInv, WindowFits, ConfigFits

(* Halves are written where there was anything. *)
LEMMA SharedStays ==
    ASSUME SharedFits, SameScene, actionsFile' = actionsFile, made' = made, FileFits(saved'),
           wanted' = [f \in WantedFields |-> wanted'[f]]
    PROVE  SharedFits'
  BY DEF SharedFits, SameScene, ActionsFit, Numbered, Scenes

(* Nothing else is less saved than it was. *)
NewUnsaved(w) == "actions" \in win'[w].unsaved <=> "actions" \in win[w].unsaved

(* A change of the configuration is saved, with what shows it, or cannot be. *)
LEMMA SavesFit ==
    ASSUME SettingInv, NEW w \in Windows, Changes(w, {"config", "writing", "rows", "timers", "look", "unsaved"}),
           NewUnsaved(w), FileFits(saved'), win'[w].writing \/ "config" \in win'[w].unsaved,
           win'[w].writing \in BOOLEAN, actionsFile' = actionsFile, made' = made, ConfigFits(win'[w].config), RowsFit(win'[w].rows, win'[w].config, win[w].actions),
           LookFits(win[w])', wanted' = [f \in WantedFields |-> wanted'[f]], wanted'.actions = wanted.actions,
           Alone => /\ win'[w].config.bindings = wanted'.keys /\ win'[w].config.theme = wanted'.theme
                    /\ win'[w].config.bookmarks = wanted'.bookmarks
    PROVE  SettingInv'
<1>1. Changes(w, WinFields \ {"on", "missed"}) BY DEF Changes
<1>2. SharedFits' /\ made \in Nat BY SharedStays DEF FileFits, Changes, SettingInv, SharedFits
<1>3. /\ win'[w].actions = win[w].actions /\ ActionsFit(win[w].actions) /\ (Alone => WantsIs(win[w]))
  BY OnFits DEF Changes, WinFields
<1>4. ActionsFit(win[w].actions)' BY <1>3 DEF ActionsFit, Numbered
<1>5. Alone => WantsIs(win[w])' BY <1>3 DEF WantsIs, NewUnsaved
<1>6. RowsFit(win'[w].rows, win'[w].config, win'[w].actions) BY <1>3
<1>7. made' >= made BY <1>2
<1> QED BY <1>1, <1>2, <1>4, <1>5, <1>6, <1>7, WindowGoes

(* So a save begins or fails. *)
LEMMA SaveIs ==
    ASSUME SettingInv, NEW w \in Windows, NEW s, Save(w, s), s = [f \in WinFields |-> s[f]],
           s.unsaved = win[w].unsaved, s.writing \in BOOLEAN, win = [v \in Windows |-> win[v]]
    PROVE  /\ NewUnsaved(w) /\ FileFits(saved') /\ (win'[w].writing \/ "config" \in win'[w].unsaved)
           /\ win'[w].writing \in BOOLEAN /\ win' = [v \in Windows |-> win'[v]]
           /\ win'[w] = [f \in WinFields |-> win'[w][f]]
           /\ \A v \in Windows \ {w} : win'[v] = win[v]
           /\ \A f \in WinFields \ {"writing", "unsaved"} : win'[w][f] = s[f]
<1>1. CASE saved' = Half /\ win' = [win EXCEPT ![w] = [s EXCEPT !.writing = TRUE]]
  BY <1>1 DEF WinFields, NewUnsaved, FileFits
<1>2. CASE saved' = saved /\ win' = [win EXCEPT ![w] = [s EXCEPT !.unsaved = @ \cup {"config"}]]
  BY <1>2 DEF WinFields, NewUnsaved, SettingInv, SharedFits
<1> QED BY <1>1, <1>2 DEF Save

(* Most changes are of fields that no look depends on. *)
LEMMA StateSaves ==
    ASSUME SettingInv, NEW w \in Windows, win[w].on, SameScene, NEW s, Save(w, s),
           s = [f \in WinFields |-> s[f]], "desktop" \in s.timers <=> "desktop" \in win[w].timers,
           \A f \in {"on", "actions", "look", "watching", "missed", "unsaved", "writing"} : s[f] = win[w][f],
           UNCHANGED <<desktop, actionsFile, made>>, wanted' = [f \in WantedFields |-> wanted'[f]],
           wanted'.actions = wanted.actions, ConfigFits(s.config), s.config.theme = win[w].config.theme,
           RowsFit(s.rows, s.config, win[w].actions),
           Alone => /\ s.config.bindings = wanted'.keys /\ s.config.bookmarks = wanted'.bookmarks
                    /\ wanted'.theme = wanted.theme
    PROVE  SettingInv'
<1>1. desktop' = desktop /\ actionsFile' = actionsFile /\ made' = made OBVIOUS
<1>2. /\ win = [v \in Windows |-> win[v]] /\ LookFits(win[w]) /\ (Alone => WantsIs(win[w]))
      /\ win[w].writing \in BOOLEAN
  BY OnFits
<1>3. /\ win'[w].config = s.config /\ win'[w].rows = s.rows /\ NewUnsaved(w) /\ FileFits(saved')
      /\ (win'[w].writing \/ "config" \in win'[w].unsaved) /\ win'[w].writing \in BOOLEAN
      /\ Changes(w, {"config", "writing", "rows", "timers", "look", "unsaved"})
      /\ win'[w].look = win[w].look /\ win'[w].timers = s.timers /\ win'[w].missed = win[w].missed
  BY <1>1, <1>2, SaveIs DEF Changes, WinFields
<1>4. LookFits(win[w])' BY <1>1, <1>2, <1>3 DEF LookFits, Look
<1>5. RowsFit(win'[w].rows, win'[w].config, win[w].actions) BY <1>3
<1>6. Alone => s.config.theme = wanted'.theme BY <1>2 DEF WantsIs
<1> QED BY <1>1, <1>3, <1>4, <1>5, <1>6, SavesFit

(* Or that no row shows either. *)
LEMMA ConfigSaves ==
    ASSUME SettingInv, NEW w \in Windows, NEW what, MayDo(w, what), NEW c, ConfigFits(c), Change(w, c),
           UNCHANGED <<desktop, actionsFile, made>>, wanted' = [f \in WantedFields |-> wanted'[f]],
           c.bindings = win[w].config.bindings, c.theme = win[w].config.theme,
           Alone => c.bookmarks = wanted'.bookmarks,
           wanted'.keys = wanted.keys, wanted'.theme = wanted.theme, wanted'.actions = wanted.actions
    PROVE  SettingInv'
<1> DEFINE s == [win[w] EXCEPT !.config = c]
<1>1. win[w].on /\ SameScene /\ Save(w, s) BY MayDoIs DEF Change
<1>2. /\ win[w] = [f \in WinFields |-> win[w][f]] /\ RowsFit(win[w].rows, win[w].config, win[w].actions)
      /\ (Alone => WantsIs(win[w]))
  BY <1>1, OnFits
<1>3. /\ s = [f \in WinFields |-> s[f]] /\ s.config = c /\ s.timers = win[w].timers /\ s.rows = win[w].rows
      /\ \A f \in {"on", "actions", "look", "watching", "missed", "unsaved", "writing"} : s[f] = win[w][f]
  BY <1>2 DEF WinFields
<1> HIDE DEF s
<1>4. RowsFit(s.rows, s.config, win[w].actions) BY <1>2, <1>3 DEF RowsFit
<1>5. Alone => c.bindings = wanted'.keys BY <1>2 DEF WantsIs
<1> QED BY <1>1, <1>3, <1>4, <1>5, StateSaves

LEMMA PinKeeps == ASSUME SettingInv, NEW w \in Windows, NEW f, Pin(w, f) \/ Unpin(w, f) PROVE SettingInv'
<1>1. win[w].on BY MayDoIs DEF Pin, Unpin
<1>2. ConfigFits(win[w].config) /\ (Alone => WantsIs(win[w])) /\ wanted = [g \in WantedFields |-> wanted[g]]
  BY <1>1, OnFits DEF SharedFits
<1>3. PICK x : /\ MayDo(w, "pin") /\ Change(w, [win[w].config EXCEPT !.bookmarks = x])
               /\ UNCHANGED <<desktop, actionsFile, made>>
               /\ Alone => wanted' = [wanted EXCEPT !.bookmarks = x]
               /\ \E y : wanted' = [wanted EXCEPT !.bookmarks = y]
  <2> DEFINE had == win[w].config.bookmarks
             want == wanted.bookmarks
  <2>0. Alone => had = want BY <1>2 DEF WantsIs
  <2>1. CASE Pin(w, f) BY <2>1, <2>0 DEF Pin
  <2>2. CASE Unpin(w, f) BY <2>2, <2>0 DEF Unpin
  <2> QED BY <2>1, <2>2
<1> DEFINE c == [win[w].config EXCEPT !.bookmarks = x]
<1>4. /\ ConfigFits(c) /\ c.bindings = win[w].config.bindings /\ c.theme = win[w].config.theme
      /\ c.bookmarks = x
  BY <1>2, ConfigsChange DEF ConfigFits, IsConfig, ConfigFields
<1> HIDE DEF c
<1>5. /\ wanted' = [g \in WantedFields |-> wanted'[g]] /\ (Alone => wanted'.bookmarks = x)
      /\ wanted'.keys = wanted.keys /\ wanted'.theme = wanted.theme /\ wanted'.actions = wanted.actions
  BY <1>2, <1>3 DEF WantedFields
<1>6. MayDo(w, "pin") /\ Change(w, c) /\ UNCHANGED <<desktop, actionsFile, made>> BY <1>3 DEF c
<1> QED BY <1>4, <1>5, <1>6, ConfigSaves

LEMMA SwitchKeeps ==
    ASSUME SettingInv, NEW w \in Windows, NEW x,
           SetViewMode(w, x) \/ GeneralSwitch(w, x) \/ LayoutSwitch(w, x)
    PROVE  SettingInv'
<1>1. win[w].on BY MayDoIs DEF SetViewMode, GeneralSwitch, LayoutSwitch
<1>2. ConfigFits(win[w].config) /\ (Alone => WantsIs(win[w])) /\ wanted = [g \in WantedFields |-> wanted[g]]
  BY <1>1, OnFits DEF SharedFits
<1>3. PICK c : /\ Change(w, c) /\ \/ c = [win[w].config EXCEPT !.view = x]
                                  \/ c = [win[w].config EXCEPT !.general = x]
                                  \/ c = [win[w].config EXCEPT !.layout = x]
  BY DEF SetViewMode, GeneralSwitch, LayoutSwitch
<1>4. PICK what : MayDo(w, what) /\ UNCHANGED <<desktop, actionsFile, made, wanted>>
  BY DEF SetViewMode, GeneralSwitch, LayoutSwitch
<1>5. /\ ConfigFits(c) /\ c.bindings = win[w].config.bindings /\ c.theme = win[w].config.theme
      /\ c.bookmarks = win[w].config.bookmarks
  <2>1. /\ ConfigFits([win[w].config EXCEPT !.view = x]) /\ ConfigFits([win[w].config EXCEPT !.general = x])
        /\ ConfigFits([win[w].config EXCEPT !.layout = x])
    BY <1>2, ConfigsChange
  <2>2. ConfigFits(c) BY <1>3, <2>1
  <2> QED BY <1>2, <1>3, <2>2 DEF ConfigFits, IsConfig, ConfigFields
<1>6. Alone => c.bookmarks = wanted'.bookmarks BY <1>2, <1>4, <1>5 DEF WantsIs
<1> QED BY <1>2, <1>3, <1>4, <1>5, <1>6, ConfigSaves

LEMMA SetThemeKeeps == ASSUME SettingInv, NEW w \in Windows, NEW theme, SetTheme(w, theme) PROVE SettingInv'
<1> DEFINE c == [win[w].config EXCEPT !.theme = theme]
<1>1. win[w].on /\ SameScene BY MayDoIs DEF SetTheme
<1>2. /\ win[w] = [f \in WinFields |-> win[w][f]] /\ win = [v \in Windows |-> win[v]]
      /\ ConfigFits(win[w].config) /\ (Alone => WantsIs(win[w])) /\ wanted = [g \in WantedFields |-> wanted[g]]
      /\ RowsFit(win[w].rows, win[w].config, win[w].actions)
  BY <1>1, OnFits DEF SharedFits
<1> DEFINE s == [[win[w] EXCEPT !.config = c] EXCEPT !.look = Look(theme)]
<1>3. /\ desktop' = desktop /\ actionsFile' = actionsFile /\ made' = made
      /\ wanted' = [wanted EXCEPT !.theme = theme] /\ Save(w, s)
  BY <1>2 DEF SetTheme, WinFields
<1>4. /\ ConfigFits(c) /\ c.theme = theme /\ c.bindings = win[w].config.bindings
      /\ c.bookmarks = win[w].config.bookmarks
  BY <1>2, ConfigsChange DEF ConfigFits, IsConfig, ConfigFields
<1> HIDE DEF c
<1>5. /\ Changes(w, {"config", "writing", "rows", "timers", "look", "unsaved"}) /\ win'[w].config = c
      /\ NewUnsaved(w) /\ FileFits(saved') /\ (win'[w].writing \/ "config" \in win'[w].unsaved)
      /\ win'[w].writing \in BOOLEAN /\ win'[w].look = Look(theme) /\ win'[w].rows = win[w].rows
  <2>1. /\ s = [f \in WinFields |-> s[f]] /\ s.config = c /\ s.look = Look(theme)
        /\ \A f \in WinFields \ {"config", "look"} : s[f] = win[w][f]
    BY <1>2 DEF WinFields
  <2>2. s.unsaved = win[w].unsaved /\ s.writing \in BOOLEAN BY <1>1, <2>1, OnFits DEF WinFields
  <2> HIDE DEF s
  <2>3. /\ NewUnsaved(w) /\ FileFits(saved') /\ (win'[w].writing \/ "config" \in win'[w].unsaved)
        /\ win'[w].writing \in BOOLEAN /\ win' = [v \in Windows |-> win'[v]]
        /\ win'[w] = [f \in WinFields |-> win'[w][f]]
        /\ \A v \in Windows \ {w} : win'[v] = win[v]
        /\ \A f \in WinFields \ {"writing", "unsaved"} : win'[w][f] = s[f]
    BY <1>2, <1>3, <2>1, <2>2, SaveIs
  <2>4. \A f \in WinFields \ {"config", "look", "writing", "unsaved"} : win'[w][f] = win[w][f]
    BY <2>1, <2>3
  <2> QED BY <1>1, <1>3, <2>1, <2>3, <2>4 DEF Changes, WinFields
<1>6. LookFits(win[w])' BY <1>3, <1>4, <1>5 DEF LookFits, Look
<1>7. RowsFit(win'[w].rows, win'[w].config, win[w].actions) BY <1>2, <1>4, <1>5 DEF RowsFit
<1>8. /\ wanted' = [f \in WantedFields |-> wanted'[f]] /\ wanted'.actions = wanted.actions
      /\ wanted'.keys = wanted.keys /\ wanted'.bookmarks = wanted.bookmarks /\ wanted'.theme = theme
  BY <1>2, <1>3 DEF WantedFields
<1>9. Alone => /\ win'[w].config.bindings = wanted'.keys /\ win'[w].config.theme = wanted'.theme
               /\ win'[w].config.bookmarks = wanted'.bookmarks
  BY <1>2, <1>4, <1>5, <1>8 DEF WantsIs
<1> QED BY <1>3, <1>4, <1>5, <1>6, <1>7, <1>8, <1>9, SavesFit

LEMMA ZoomSettledKeeps == ASSUME SettingInv, NEW w \in Windows, ZoomSettled(w) PROVE SettingInv'
<1> DEFINE s == [win[w] EXCEPT !.timers = @ \ {"zoom"}]
<1>1. /\ win[w].on /\ Save(w, s) /\ changing' = changing /\ wanted' = wanted
      /\ UNCHANGED <<desktop, actionsFile, made>>
  BY DEF ZoomSettled
<1>2. /\ win[w] = [f \in WinFields |-> win[w][f]] /\ RowsFit(win[w].rows, win[w].config, win[w].actions)
      /\ (Alone => WantsIs(win[w])) /\ ConfigFits(win[w].config) /\ SharedFits
      /\ wanted = [f \in WantedFields |-> wanted[f]]
  BY <1>1, OnFits DEF SharedFits
<1>3. /\ s = [f \in WinFields |-> s[f]] /\ s.config = win[w].config /\ s.rows = win[w].rows
      /\ "desktop" \in s.timers <=> "desktop" \in win[w].timers
      /\ \A f \in {"on", "actions", "look", "watching", "missed", "unsaved", "writing"} : s[f] = win[w][f]
  BY <1>2 DEF WinFields
<1> HIDE DEF s
<1>4. SameScene BY <1>1, <1>2 DEF SameScene, SharedFits
<1>5. RowsFit(s.rows, s.config, win[w].actions) /\ ConfigFits(s.config) /\ s.config.theme = win[w].config.theme
  BY <1>2, <1>3
<1>6. Alone => s.config.bindings = wanted'.keys /\ s.config.bookmarks = wanted'.bookmarks /\ wanted'.theme = wanted.theme
  BY <1>1, <1>2, <1>3 DEF WantsIs
<1>7. wanted' = [f \in WantedFields |-> wanted'[f]] /\ wanted'.actions = wanted.actions BY <1>1, <1>2
<1> QED BY <1>1, <1>3, <1>4, <1>5, <1>6, <1>7, StateSaves

-------------------------------------------------------------------------------
(* Windows open and close, files are written. *)

(* What a window is like that does not run. *)
LEMMA OffFits ==
    /\ Off = [f \in WinFields |-> Off[f]] /\ Off.on = FALSE /\ Off.writing = FALSE
    /\ ConfigFits(Off.config) /\ Off.actions = << >> /\ Off.timers = {} /\ Off.missed = FALSE
    /\ Off.rows = NoRows /\ Off.watching = FALSE /\ Off.unsaved = {}
  BY DefaultFits DEF Off, WinFields

LEMMA NoRowsFit ==
    ASSUME NEW c, NEW actions
    PROVE  RowsFit(NoRows, c, actions)
  BY DEF RowsFit, NoRows, RowFields

LEMMA ClosedWindowFits ==
    ASSUME NEW w
    PROVE  WindowFits(w, Off)
<1>1. ActionsFit(<< >>) BY DEF ActionsFit, Numbered
<1> QED BY <1>1, OffFits, NoRowsFit DEF WindowFits

(* The actions that come with the program are numbered so too. *)
LEMMA BuiltinFits == made \in Nat => ActionsFit(Builtin)
  BY DEF ActionsFit, Numbered, Builtin, Item, SettingItems, Wordings

LEMMA SettingInvInit == SettingInit => SettingInv
<1> SUFFICES ASSUME SettingInit PROVE SettingInv OBVIOUS
<1>1. FileFits(saved) /\ saved # Half
  <2>1. saved = NoFile \/ saved \in Configs BY SettingAssumption DEF SettingInit, SettingAssumption
  <2>2. ASSUME NEW c \in Configs PROVE IsConfig(c)
    BY DEF Configs, IsConfig, ConfigFields, SomeBound, SettingItems
  <2>3. ASSUME IsConfig(Half) PROVE FALSE BY <2>3 DEF IsConfig, Half
  <2>4. NoFile # Half BY DEF NoFile, Half
  <2> QED BY <2>1, <2>2, <2>3, <2>4 DEF FileFits
<1>2. SharedFits
  BY SettingAssumption, <1>1 DEF SettingInit, SettingAssumption, Scenes, WantedFields, SharedFits
<1>3. ClosedFits BY <1>1 DEF SettingInit, ClosedFits
<1> QED BY <1>2, <1>3, ClosedWindowFits DEF SettingInit, SettingInv

(* A window goes: whoever is alone has written all, but for what was not to be saved. *)
LEMMA ClosesFit ==
    ASSUME SettingInv, NEW w \in Windows, win[w].on, SameScene, win' = [win EXCEPT ![w] = Off],
           UNCHANGED <<desktop, saved, actionsFile, made>>, Alone => ~win[w].writing,
           wanted' = [f \in WantedFields |-> wanted'[f]],
           Alone => wanted'.theme = IF "config" \in win[w].unsaved THEN LoadedFrom(saved).theme ELSE wanted.theme
    PROVE  SettingInv'
<1>1. /\ w \in changing.windows /\ (Alone => WantsIs(win[w])) /\ win = [v \in Windows |-> win[v]]
      /\ SharedFits /\ IsConfig(win[w].config)
  BY OnFits
<1>2. SharedFits' BY <1>1, SharedStays DEF SharedFits
<1>3. ClosedFits' BY SameAlone, <1>1 DEF ClosedFits, WantsIs, AheadOf, ConfigFields
<1>4. WindowFits(w, win[w])'
  <2>1. win'[w] = Off BY <1>1
  <2>2. ActionsFit(<< >>)' BY DEF ActionsFit, Numbered
  <2>3. WindowFits(w, Off)' BY <2>2, OffFits, NoRowsFit DEF WindowFits
  <2> QED BY <2>1, <2>3
<1>5. \A v \in Windows \ {w} : WindowFits(v, win[v])' BY <1>1, <1>2, OthersFit DEF SharedFits
<1>6. (win = [v \in Windows |-> win[v]])' BY <1>1
<1> QED BY <1>2, <1>3, <1>4, <1>5, <1>6 DEF SettingInv

LEMMA QuitKeeps == ASSUME SettingInv, NEW w \in Windows, Quit(w) PROVE SettingInv'
BY MayDoIs, ClosesFit DEF Quit, SettingInv, SharedFits, WantedFields

LEMMA CrashKeeps == ASSUME SettingInv, NEW w \in Windows, Crash(w) PROVE SettingInv'
BY ClosesFit DEF Crash, Alone, SameScene, SettingInv, SharedFits

(* A window opens with what is on file. *)
LEMMA LaunchKeeps == ASSUME SettingInv, NEW w \in Windows, Launch(w) PROVE SettingInv'
<1> DEFINE c == LoadedFrom(saved)
           actions == ActionsFrom(actionsFile)
           old == saved.is = "config" /\ saved.style = 0
<1>0. /\ made' = made /\ w \in changing.windows /\ ~win[w].on /\ changing.left > 0
      /\ changing' = [changing EXCEPT !.left = @ - 1]
  BY DEF Launch
<1>1. SharedFits /\ made \in Nat /\ made' >= made /\ win = [v \in Windows |-> win[v]]
  BY <1>0 DEF SettingInv, SharedFits
<1>2. SameScene BY <1>0, <1>1 DEF SharedFits, Scenes, SameScene
<1>3. ConfigFits(c) /\ IsConfig(c) BY <1>1, LoadedFits DEF SharedFits, ConfigFits
<1>4. ActionsFit(actions)
  <2>1. CASE actionsFile \in {NoFile, Half}
    <3>1. NoFile.is # "actions" /\ Half.is # "actions" BY DEF NoFile, Half
    <3>2. actionsFile.is # "actions" BY <2>1, <3>1
    <3> QED BY <1>1, <3>2, BuiltinFits DEF ActionsFrom
  <2>2. CASE actionsFile.is = "actions" /\ ActionsFit(actionsFile.list) BY <2>2 DEF ActionsFrom
  <2> QED BY <1>1, <2>1, <2>2 DEF SharedFits
<1>5. /\ win'[w].on = TRUE /\ win'[w].config = c /\ win'[w].actions = actions /\ win'[w].look = Look(c.theme)
      /\ win'[w].timers = {} /\ win'[w].rows = NoRows /\ win'[w] = [f \in WinFields |-> win'[w][f]]
      /\ win' = [v \in Windows |-> win'[v]] /\ \A v \in Windows \ {w} : win'[v] = win[v]
      /\ "actions" \notin win'[w].unsaved /\ win'[w].writing \in BOOLEAN /\ FileFits(saved')
      /\ saved' = saved \/ win'[w].writing \/ "config" \in win'[w].unsaved
      /\ desktop' = desktop /\ actionsFile' = actionsFile /\ made' = made
  <2> DEFINE state == [Off EXCEPT !.on = TRUE, !.config = c, !.actions = actions, !.look = Look(c.theme)]
  <2>1. /\ \/ Save(w, state)
           \/ win' = [win EXCEPT ![w] = state] /\ saved' = saved
        /\ desktop' = desktop /\ actionsFile' = actionsFile /\ made' = made
    BY DEF Launch
  <2> HIDE DEF c, actions, old
  <2>2. /\ state.on = TRUE /\ state.config = c /\ state.actions = actions /\ state.look = Look(c.theme)
        /\ state.timers = {} /\ state.rows = NoRows /\ state = [f \in WinFields |-> state[f]]
        /\ state.writing = FALSE /\ state.unsaved = {}
    BY OffFits DEF WinFields
  <2>3. win[w].unsaved = {} BY <1>0, OffFits DEF SettingInv, WindowFits
  <2> HIDE DEF state
  <2>4. CASE Save(w, state)
    <3>0. state.unsaved = win[w].unsaved /\ state.writing \in BOOLEAN BY <2>2, <2>3
    <3>1. /\ NewUnsaved(w) /\ FileFits(saved') /\ (win'[w].writing \/ "config" \in win'[w].unsaved)
          /\ win'[w].writing \in BOOLEAN /\ win' = [v \in Windows |-> win'[v]]
          /\ win'[w] = [f \in WinFields |-> win'[w][f]]
          /\ \A v \in Windows \ {w} : win'[v] = win[v]
          /\ \A f \in WinFields \ {"writing", "unsaved"} : win'[w][f] = state[f]
      BY <1>1, <2>2, <2>4, <3>0, SaveIs
    <3> QED BY <2>1, <2>2, <2>3, <3>1 DEF NewUnsaved, WinFields
  <2>5. CASE win' = [win EXCEPT ![w] = state] /\ saved' = saved BY <1>1, <2>1, <2>2, <2>5 DEF SharedFits
  <2> QED BY <2>1, <2>4, <2>5
<1>6. /\ wanted' = [f \in WantedFields |-> wanted'[f]] /\ wanted'.actions = actions
      /\ wanted'.keys = c.bindings /\ wanted'.bookmarks = c.bookmarks /\ wanted'.theme = wanted.theme
  <2>1. wanted' = [wanted EXCEPT !.associations = c.associations, !.actions = actions,
                                 !.keys = c.bindings, !.bookmarks = c.bookmarks]
    BY DEF Launch, WantAsLoaded
  <2> HIDE DEF c, actions
  <2> QED BY <2>1, <1>1 DEF SharedFits, WantedFields
<1> HIDE DEF c, actions, old
<1>7. SharedFits' BY <1>5, <1>1, <1>2, <1>6, SharedStays DEF SharedFits
<1>8. ASSUME Alone PROVE WantsIs(win[w])'
  <2>1. \A v \in Windows : ~win[v].on BY <1>0, <1>1, <1>8, OnFits, OneWindow
  <2>2. c.theme = wanted.theme BY <1>8, <2>1 DEF SettingInv, ClosedFits, c
  <2>3. AheadOf(LoadedFrom(saved), c, FALSE) /\ "zoom" \notin win'[w].timers
    BY <1>3, AheadOfItself, <1>5 DEF c
  <2>4. win'[w].actions = wanted'.actions /\ win'[w].config = c /\ actionsFile' = actionsFile
    BY <1>5, <1>6
  <2>5. ~win'[w].writing /\ "config" \notin win'[w].unsaved
           => AheadOf(LoadedFrom(saved'), c, "zoom" \in win'[w].timers)
    BY <1>5, <2>3 DEF AheadOf
  <2> QED BY <1>5, <1>6, <2>2, <2>4, <2>5 DEF WantsIs, actions
<1>9. WindowFits(w, win[w])'
  <2>1. ActionsFit(win[w].actions)' BY <1>4, <1>5 DEF ActionsFit, Numbered
  <2>2. LookFits(win[w])' BY <1>5 DEF LookFits, Look
  <2>3. RowsFit(win'[w].rows, win'[w].config, win'[w].actions) /\ win'[w].writing \in BOOLEAN
    BY <1>5, NoRowsFit
  <2> QED BY <1>0, <1>2, <1>3, <1>5, <1>8, <2>1, <2>2, <2>3, SameAlone DEF WindowFits, SameScene
<1>10. \A v \in Windows \ {w} : WindowFits(v, win[v])' BY <1>0, <1>1, <1>2, <1>5, <1>7, OthersFit
<1>11. ClosedFits' BY <1>5 DEF ClosedFits
<1> QED BY <1>5, <1>7, <1>9, <1>10, <1>11 DEF SettingInv

(* A configuration that is written is on file, or what is left of it. *)
LEMMA SaveEndsKeeps ==
    ASSUME SettingInv, NEW w \in Windows, SaveEnds(w) \/ SaveFails(w) PROVE SettingInv'
<1> DEFINE c == win[w].config
<1>1. WindowFits(w, win[w]) /\ SharedFits /\ win[w].on /\ changing' = changing
      /\ UNCHANGED <<desktop, actionsFile, made, wanted>>
  BY OffFits DEF SettingInv, SaveEnds, SaveFails, WindowFits
<1>2. SameScene BY <1>1 DEF SameScene, SharedFits
<1>3. ConfigFits(c) /\ IsConfig(c) /\ LoadedFrom(c) = c
  BY <1>1, LoadedFits DEF WindowFits, ConfigFits, FileFits
<1>4. /\ Changes(w, {"writing", "unsaved"}) /\ win'[w].writing = FALSE /\ NewUnsaved(w)
      /\ saved' = c \/ ("config" \in win'[w].unsaved /\ saved' \in CutShort(c))
  <2>1. CASE SaveEnds(w)
    BY <1>1, <1>2, <2>1 DEF SaveEnds, Changes, SettingInv, WindowFits, WinFields, NewUnsaved
  <2>2. CASE SaveFails(w)
    BY <1>1, <1>2, <2>2 DEF SaveFails, Changes, SettingInv, WindowFits, WinFields, NewUnsaved
  <2> QED BY <2>1, <2>2
<1>5. Changes(w, WinFields \ {"on", "missed"}) BY <1>4 DEF Changes
<1>6. /\ win'[w].config = c /\ win'[w].actions = win[w].actions /\ win'[w].timers = win[w].timers
      /\ win'[w].rows = win[w].rows /\ win'[w].look = win[w].look /\ win'[w].missed = win[w].missed
  BY <1>4 DEF Changes, WinFields
<1> HIDE DEF c
<1>7. SharedFits'
  <2>1. \A x \in CutShort(c) : FileFits(x)
    <3>1. SomeBound(<< >>) /\ << >> \in Seq(SettingItems) BY DEF SomeBound, OneEach
    <3>2. ASSUME NEW d, IsConfig(d)
          PROVE  /\ IsConfig([d EXCEPT !.associations = << >>])
                 /\ IsConfig([d EXCEPT !.bookmarks = << >>, !.bindings = << >>, !.associations = << >>])
      BY <3>1, <3>2 DEF IsConfig, ConfigFields
    <3> QED BY <1>3, <3>2 DEF CutShort, FileFits
  <2> QED BY <1>1, <1>2, <1>3, <1>4, <2>1, SharedStays DEF FileFits, SharedFits
<1>8. made' >= made /\ ActionsFit(win[w].actions)' /\ LookFits(win[w])'
  <2>1. made' = made /\ desktop' = desktop /\ made \in Nat BY <1>1 DEF SharedFits
  <2>2. ActionsFit(win[w].actions) /\ LookFits(win[w]) BY <1>1 DEF WindowFits
  <2>3. ActionsFit(win[w].actions)' BY <1>6, <2>1, <2>2 DEF ActionsFit, Numbered
  <2> QED BY <1>6, <2>1, <2>2, <2>3 DEF LookFits, Look, c
<1>9. ASSUME Alone PROVE WantsIs(win[w])'
  <2> DEFINE zooming == "zoom" \in win'[w].timers
  <2>0. zooming \in BOOLEAN OBVIOUS
  <2> HIDE DEF zooming
  <2>1. "config" \notin win'[w].unsaved => AheadOf(LoadedFrom(saved'), win'[w].config, zooming)
    BY <1>3, <1>4, <1>6, <2>0, AheadOfItself
  <2>2. WantsIs(win[w]) BY <1>1, <1>9 DEF WindowFits
  <2> QED BY <1>1, <1>4, <1>6, <2>1, <2>2 DEF WantsIs, c, zooming, NewUnsaved
<1>10. RowsFit(win'[w].rows, win'[w].config, win'[w].actions) BY <1>1, <1>6 DEF WindowFits, c
<1> QED BY <1>3, <1>4, <1>5, <1>6, <1>7, <1>8, <1>9, <1>10, WindowGoes

-------------------------------------------------------------------------------
(* What is not saved, or not at once. *)

Settled(w) == ~win[w].writing /\ "config" \notin win[w].unsaved

LEMMA KeepsFit ==
    ASSUME SettingInv, NEW w \in Windows, Changes(w, {"config", "rows", "timers", "look", "watching"}),
           saved' = saved, actionsFile' = actionsFile, made' \in Nat, made' >= made,
           ConfigFits(win'[w].config), RowsFit(win'[w].rows, win'[w].config, win[w].actions),
           win'[w].config.bindings = win[w].config.bindings, win'[w].config.theme = win[w].config.theme,
           win'[w].config.bookmarks = win[w].config.bookmarks, LookFits(win[w])',
           wanted' = [f \in WantedFields |-> wanted'[f]],
           \A f \in WantedFields \ {"associations"} : wanted'[f] = wanted[f],
           Alone /\ Settled(w) => AheadOf(LoadedFrom(saved), win'[w].config, "zoom" \in win'[w].timers)
    PROVE  SettingInv'
<1>1. /\ win'[w].actions = win[w].actions /\ win'[w].writing = win[w].writing
      /\ win'[w].unsaved = win[w].unsaved /\ ActionsFit(win[w].actions) /\ (Alone => WantsIs(win[w])) /\ SharedFits /\ made \in Nat
      /\ win[w].writing \in BOOLEAN
  BY OnFits DEF Changes, WinFields, SharedFits
<1>2. ASSUME NEW list, ActionsFit(list) PROVE list \in Seq(SettingItems) /\ \A i \in DOMAIN list : list[i].id <= made'
  BY <1>2, ItemsAre, <1>1 DEF ActionsFit, Numbered
<1>3. SharedFits' BY <1>1, <1>2 DEF SharedFits, ActionsFit, Numbered, Changes, SameScene
<1>4. ActionsFit(win[w].actions)' BY <1>1, <1>2 DEF ActionsFit, Numbered
<1>5. Alone => WantsIs(win[w])' BY <1>1 DEF WantsIs, Settled, WantedFields
<1>6. Changes(w, WinFields \ {"on", "missed"}) BY DEF Changes
<1>7. RowsFit(win'[w].rows, win'[w].config, win'[w].actions) BY <1>1
<1>8. win'[w].writing \in BOOLEAN BY <1>1
<1> QED BY <1>3, <1>4, <1>5, <1>6, <1>7, <1>8, WindowGoes

(* Rows that change, or the look. *)
LEMMA NoConfigFits ==
    ASSUME SettingInv, NEW w \in Windows, Changes(w, {"rows", "timers", "look", "watching"}),
           saved' = saved, actionsFile' = actionsFile, made' = made, wanted' = wanted,
           RowsFit(win'[w].rows, win[w].config, win[w].actions), LookFits(win[w])',
           "zoom" \in win'[w].timers <=> "zoom" \in win[w].timers
    PROVE  SettingInv'
<1>1. /\ Changes(w, {"config", "rows", "timers", "look", "watching"}) /\ win'[w].config = win[w].config
      /\ ConfigFits(win[w].config) /\ SharedFits /\ (Alone => WantsIs(win[w]))
  BY OnFits DEF Changes, WinFields
<1>2. made' \in Nat /\ made' >= made /\ wanted' = [f \in WantedFields |-> wanted'[f]]
  BY <1>1 DEF SharedFits
<1>3. Alone /\ Settled(w) => AheadOf(LoadedFrom(saved), win'[w].config, "zoom" \in win'[w].timers)
  BY <1>1 DEF WantsIs, Settled, AheadOf
<1> QED BY <1>1, <1>2, <1>3, KeepsFit

(* A zoom is to be saved, a new association is not. *)
LEMMA ZoomKeeps == ASSUME SettingInv, NEW w \in Windows, NEW size, Zoom(w, size) PROVE SettingInv'
<1> DEFINE c == [win[w].config EXCEPT !.size = size]
<1>1. win[w].on /\ SameScene BY MayDoIs DEF Zoom
<1>2. /\ win[w] = [f \in WinFields |-> win[w][f]] /\ win = [v \in Windows |-> win[v]]
      /\ LookFits(win[w]) /\ (Alone => WantsIs(win[w])) /\ ConfigFits(win[w].config) /\ IsConfig(win[w].config)
      /\ RowsFit(win[w].rows, win[w].config, win[w].actions) /\ SharedFits
  BY <1>1, OnFits
<1>3. /\ ConfigFits(c) /\ c.bindings = win[w].config.bindings /\ c.theme = win[w].config.theme
      /\ c.bookmarks = win[w].config.bookmarks /\ c.associations = win[w].config.associations
      /\ \A f \in ConfigFields : f # "size" => c[f] = win[w].config[f]
  BY <1>2, ConfigsChange DEF IsConfig, ConfigFields
<1>4. /\ Changes(w, {"config", "rows", "timers", "look", "watching"}) /\ win'[w].config = c
      /\ win'[w].timers = win[w].timers \cup {"zoom"} /\ win'[w].rows = win[w].rows
      /\ win'[w].look = win[w].look /\ win'[w].missed = win[w].missed
  <2>1. /\ win' = [win EXCEPT ![w] = [win[w] EXCEPT !.config = c, !.timers = @ \cup {"zoom"}]]
        /\ desktop' = desktop
    BY <1>2 DEF Zoom
  <2> HIDE DEF c
  <2> QED BY <1>1, <1>2, <2>1 DEF Changes, WinFields
<1> HIDE DEF c
<1>5. /\ desktop' = desktop /\ saved' = saved /\ actionsFile' = actionsFile /\ made' = made /\ wanted' = wanted
  BY DEF Zoom
<1>6. LookFits(win[w])' BY <1>2, <1>3, <1>4, <1>5 DEF LookFits, Look
<1>7. RowsFit(win'[w].rows, win'[w].config, win[w].actions) BY <1>2, <1>3, <1>4 DEF RowsFit
<1>8. ASSUME Alone, Settled(w)
      PROVE  AheadOf(LoadedFrom(saved), win'[w].config, "zoom" \in win'[w].timers)
  BY <1>2, <1>3, <1>4, <1>8 DEF WantsIs, Settled, AheadOf
<1>9. made' \in Nat /\ made' >= made /\ wanted' = [f \in WantedFields |-> wanted'[f]]
  BY <1>2, <1>5 DEF SharedFits
<1> QED BY <1>3, <1>4, <1>5, <1>6, <1>7, <1>8, <1>9, KeepsFit

LEMMA AddAssociationKeeps == ASSUME SettingInv, NEW w \in Windows, AddAssociation(w) PROVE SettingInv'
<1> DEFINE new == Item(made + 1, "new")
           list == Append(win[w].config.associations, new)
           c == [win[w].config EXCEPT !.associations = list]
           shown == win[w].rows.associations \cup {[index |-> Len(list), id |-> made']}
<1>1. win[w].on /\ SameScene BY MayDoIs DEF AddAssociation
<1>2. /\ win[w] = [f \in WinFields |-> win[w][f]] /\ win = [v \in Windows |-> win[v]]
      /\ LookFits(win[w]) /\ (Alone => WantsIs(win[w])) /\ ConfigFits(win[w].config) /\ IsConfig(win[w].config)
      /\ RowsFit(win[w].rows, win[w].config, win[w].actions) /\ SharedFits /\ made \in Nat
      /\ wanted = [f \in WantedFields |-> wanted[f]]
  BY <1>1, OnFits DEF SharedFits
<1>3. new \in SettingItems /\ new.text = "new" /\ list \in Seq(SettingItems)
  <2>1. new \in SettingItems /\ new.text = "new" BY <1>2 DEF Item, SettingItems, Wordings
  <2> HIDE DEF new
  <2> QED BY <1>2, <2>1 DEF IsConfig
<1>4. made' = made + 1 /\ desktop' = desktop /\ saved' = saved /\ actionsFile' = actionsFile
  BY DEF AddAssociation
<1>5. /\ wanted' = [wanted EXCEPT !.associations = Append(@, new)]
      /\ win' = [win EXCEPT ![w].config.associations = list,
                            ![w].rows.associations = @ \cup {[index |-> Len(list), id |-> made']}]
  BY <1>4 DEF AddAssociation
<1> HIDE DEF new
<1> HIDE DEF list
<1>6. win' = [win EXCEPT ![w] = [[win[w] EXCEPT !.config = c] EXCEPT !.rows = [@ EXCEPT !.associations = shown]]]
  BY <1>2, <1>5 DEF WinFields
<1> HIDE DEF shown
<1>8. /\ ConfigFits(c) /\ c.bindings = win[w].config.bindings /\ c.theme = win[w].config.theme
      /\ c.bookmarks = win[w].config.bookmarks /\ c.associations = list
      /\ \A f \in ConfigFields : f # "associations" => c[f] = win[w].config[f]
  <2> HIDE DEF list
  <2> QED BY <1>2, <1>3, ConfigsChange DEF IsConfig, ConfigFields
<1> HIDE DEF c
<1>9. /\ Changes(w, {"config", "rows", "timers", "look", "watching"}) /\ win'[w].config = c
      /\ win'[w].timers = win[w].timers /\ win'[w].look = win[w].look /\ win'[w].missed = win[w].missed
      /\ win'[w].rows = [win[w].rows EXCEPT !.associations = shown]
  BY <1>1, <1>2, <1>4, <1>6 DEF Changes, WinFields
<1>10. LookFits(win[w])' BY <1>2, <1>4, <1>8, <1>9 DEF LookFits, Look
<1>11. RowsFit(win'[w].rows, win'[w].config, win[w].actions)
  <2> HIDE DEF list
  <2> QED BY <1>2, <1>8, <1>9 DEF RowsFit, RowFields
<1>12. ASSUME Alone, Settled(w)
       PROVE  AheadOf(LoadedFrom(saved), win'[w].config, "zoom" \in win'[w].timers)
  <2> DEFINE a == LoadedFrom(saved)
             had == win[w].config.associations
  <2>1. AheadOf(a, win[w].config, "zoom" \in win[w].timers) BY <1>2, <1>12 DEF WantsIs, Settled
  <2>2. PICK l \in Seq(SettingItems) : AllBlank(l) /\ had = a.associations \o l BY <2>1 DEF AheadOf
  <2>3. Append(l, new) \in Seq(SettingItems) /\ AllBlank(Append(l, new)) BY <1>3, <2>2 DEF AllBlank
  <2>4. a.associations \in Seq(SettingItems) BY <1>2, LoadedFits DEF SharedFits, ConfigFits, IsConfig
  <2> HIDE DEF a
  <2>5. new \in SettingItems /\ l \in Seq(SettingItems) BY <1>3
  <2>6. Append(a.associations \o l, new) = a.associations \o Append(l, new)
    <3> DEFINE p == a.associations
    <3>1. p \in Seq(SettingItems) BY <2>4
    <3> HIDE DEF p
    <3>2. Append(p \o l, new) = p \o Append(l, new) BY <2>5, <3>1
    <3> QED BY <3>2 DEF p
  <2>7. list = a.associations \o Append(l, new) BY <2>2, <2>6 DEF list
  <2> QED BY <1>8, <1>9, <2>1, <2>3, <2>7 DEF AheadOf, a
<1>13. made' \in Nat /\ made' >= made BY <1>2, <1>4
<1>14. /\ wanted' = [f \in WantedFields |-> wanted'[f]]
       /\ \A f \in WantedFields \ {"associations"} : wanted'[f] = wanted[f]
  BY <1>2, <1>5 DEF WantedFields
<1> QED BY <1>4, <1>8, <1>9, <1>10, <1>11, <1>12, <1>13, <1>14, KeepsFit

(* Rows are made anew for the settings window. *)
LEMMA NewRowsFit ==
    ASSUME NEW c, NEW actions
    PROVE  /\ \A r \in RowsOf(actions) : r.index \in DOMAIN actions /\ actions[r.index].id = r.id
           /\ \A r \in KeyRows(c.bindings) :
                 r.index \in DOMAIN c.bindings /\ c.bindings[r.index].action = r.action
  BY DEF RowsOf, KeyRows

LEMMA OpenSettingsKeeps == ASSUME SettingInv, NEW w \in Windows, OpenSettings(w) PROVE SettingInv'
<1> DEFINE new == [open |-> TRUE, associations |-> RowsOf(win[w].config.associations),
                   actions |-> RowsOf(win[w].actions), bindings |-> KeyRows(win[w].config.bindings),
                   capturing |-> {}]
<1>1. win[w].on /\ SameScene BY MayDoIs DEF OpenSettings
<1>2. win[w] = [f \in WinFields |-> win[w][f]] /\ win = [v \in Windows |-> win[v]] /\ LookFits(win[w])
  BY <1>1, OnFits
<1>3. /\ win' = [win EXCEPT ![w].rows = new] /\ desktop' = desktop /\ saved' = saved
      /\ actionsFile' = actionsFile /\ made' = made /\ wanted' = wanted
  BY DEF OpenSettings
<1>4. RowsFit(new, win[w].config, win[w].actions) BY NewRowsFit DEF RowsFit, RowFields
<1> HIDE DEF new
<1>5. /\ Changes(w, {"rows", "timers", "look", "watching"}) /\ win'[w].rows = new
      /\ \A f \in {"config", "timers", "look", "missed"} : win'[w][f] = win[w][f]
  BY <1>1, <1>2, <1>3 DEF Changes, WinFields
<1>6. LookFits(win[w])' BY <1>2, <1>3, <1>5 DEF LookFits, Look
<1> QED BY <1>3, <1>4, <1>5, <1>6, NoConfigFits

(* themes.rs: the look. *)
LEMMA DesktopEventKeeps ==
    ASSUME SettingInv, SameScene, DesktopEvent, UNCHANGED <<saved, actionsFile, made, wanted>>
    PROVE  SettingInv'
<1>1. SharedFits /\ ClosedFits /\ \A v \in Windows : WindowFits(v, win[v]) BY DEF SettingInv
<1>2. SharedFits' BY <1>1, SharedStays DEF SharedFits
<1>3. (win = [v \in Windows |-> win[v]])' BY DEF DesktopEvent
<1>4. ASSUME NEW v \in Windows PROVE win'[v].on = win[v].on /\ WindowFits(v, win[v])'
  <2>1. win'[v] = IF win[v].watching THEN [win[v] EXCEPT !.timers = @ \cup {"desktop"}]
                  ELSE [win[v] EXCEPT !.missed = win[v].on]
    BY DEF DesktopEvent
  <2>2. WindowFits(v, win[v]) /\ win[v] = [f \in WinFields |-> win[v][f]] /\ win[v].on \in BOOLEAN
    BY <1>1 DEF WindowFits
  <2>3. CASE ~win[v].on
    <3>1. win[v] = Off BY <2>2, <2>3 DEF WindowFits
    <3>2. [Off EXCEPT !.missed = FALSE] = Off BY OffFits DEF WinFields
    <3>3. win'[v] = Off BY <2>1, <3>1, <3>2, OffFits
    <3>4. ActionsFit(<< >>)' BY DEF ActionsFit, Numbered
    <3> QED BY <3>1, <3>3, <3>4, OffFits, NoRowsFit DEF WindowFits
  <2>4. CASE win[v].on
    <3>1. /\ win'[v] = [f \in WinFields |-> win'[v][f]]
          /\ \A f \in WinFields \ {"timers", "missed"} : win'[v][f] = win[v][f]
          /\ "zoom" \in win'[v].timers <=> "zoom" \in win[v].timers
          /\ "desktop" \in win'[v].timers \/ win'[v].missed = TRUE
      BY <2>1, <2>2, <2>4 DEF WinFields
    <3>2. /\ win'[v].on = win[v].on /\ win'[v].writing = win[v].writing /\ win'[v].config = win[v].config
          /\ win'[v].actions = win[v].actions /\ win'[v].rows = win[v].rows /\ win'[v].unsaved = win[v].unsaved
      BY <3>1 DEF WinFields
    <3>3. ActionsFit(win[v].actions)' BY <2>2, <3>2 DEF WindowFits, ActionsFit, Numbered
    <3>4. Alone => WantsIs(win[v])'
      BY <2>2, <2>4, <3>1, <3>2, ZenonT(30) DEF WindowFits, WantsIs, AheadOf
    <3> QED BY <2>2, <2>4, <3>1, <3>2, <3>3, <3>4, SameAlone DEF WindowFits, LookFits, SameScene
  <2> QED BY <2>2, <2>3, <2>4
<1>5. ClosedFits' BY <1>1, <1>4, SameAlone DEF ClosedFits
<1> QED BY <1>2, <1>3, <1>4, <1>5 DEF SettingInv

LEMMA DesktopKeeps == ASSUME SettingInv, NEW look, WriteDesktop(look) \/ DesktopWritten PROVE SettingInv'
<1>1. SameScene
  <2>1. changing \in Scenes BY DEF SettingInv, SharedFits
  <2>2. CASE changing' = changing BY <2>1, <2>2 DEF SameScene
  <2>3. CASE changing.left > 0 /\ changing' = [changing EXCEPT !.left = @ - 1]
    BY <2>1, <2>3 DEF Scenes, SameScene
  <2> QED BY <2>2, <2>3 DEF WriteDesktop, DesktopWritten
<1> QED BY <1>1, DesktopEventKeeps DEF WriteDesktop, DesktopWritten

LEMMA WatchDesktopKeeps ==
    ASSUME SettingInv, NEW w \in Windows, WatchDesktop(w) \/ DesktopSettled(w) PROVE SettingInv'
<1>1. /\ win[w].on /\ changing' = changing /\ desktop' = desktop
      /\ UNCHANGED <<saved, actionsFile, made, wanted>>
  BY DEF WatchDesktop, DesktopSettled
<1>2. /\ win[w] = [f \in WinFields |-> win[w][f]] /\ win = [v \in Windows |-> win[v]] /\ LookFits(win[w])
      /\ RowsFit(win[w].rows, win[w].config, win[w].actions) /\ SharedFits
  BY <1>1, OnFits
<1>3. SameScene BY <1>1, <1>2 DEF SameScene, SharedFits
<1>4. /\ Changes(w, {"rows", "timers", "look", "watching"}) /\ win'[w].rows = win[w].rows
      /\ "zoom" \in win'[w].timers <=> "zoom" \in win[w].timers
      /\ win'[w].config = win[w].config
      /\ \/ win'[w].look = Look(win[w].config.theme)
         \/ win'[w].look = win[w].look /\ win'[w].timers = win[w].timers /\ win'[w].missed = win[w].missed
  <2>1. CASE WatchDesktop(w) BY <2>1, <1>1, <1>2, <1>3 DEF WatchDesktop, Changes, WinFields
  <2>2. CASE DesktopSettled(w) BY <2>2, <1>1, <1>2, <1>3 DEF DesktopSettled, Changes, WinFields
  <2> QED BY <2>1, <2>2, <1>1 DEF WatchDesktop, DesktopSettled
<1>5. LookFits(win[w])' BY <1>1, <1>2, <1>4 DEF LookFits, Look
<1>6. RowsFit(win'[w].rows, win[w].config, win[w].actions) BY <1>2, <1>4
<1> QED BY <1>1, <1>4, <1>5, <1>6, NoConfigFits

(* A row waits for a key. *)
LEMMA CaptureKeeps == ASSUME SettingInv, NEW w \in Windows, NEW r, Capture(w, r) PROVE SettingInv'
<1> DEFINE new == [win[w].rows EXCEPT !.capturing = @ \cup {r}]
<1>1. win[w].on /\ SameScene BY MayDoIs DEF Capture
<1>2. /\ win[w] = [f \in WinFields |-> win[w][f]] /\ win = [v \in Windows |-> win[v]] /\ LookFits(win[w])
      /\ RowsFit(win[w].rows, win[w].config, win[w].actions)
  BY <1>1, OnFits
<1>3. /\ win' = [win EXCEPT ![w].rows = new] /\ r \in win[w].rows.bindings /\ desktop' = desktop
      /\ saved' = saved /\ actionsFile' = actionsFile /\ made' = made /\ wanted' = wanted
  BY <1>2 DEF Capture, Rows, WinFields
<1>4. RowsFit(new, win[w].config, win[w].actions) BY <1>2, <1>3 DEF RowsFit, RowFields
<1> HIDE DEF new
<1>5. /\ Changes(w, {"rows", "timers", "look", "watching"}) /\ win'[w].rows = new
      /\ \A f \in {"config", "timers", "look", "missed"} : win'[w][f] = win[w][f]
  BY <1>1, <1>2, <1>3 DEF Changes, WinFields
<1>6. LookFits(win[w])' BY <1>2, <1>3, <1>5 DEF LookFits, Look
<1> QED BY <1>3, <1>4, <1>5, <1>6, NoConfigFits

(* The one shortcut of an action gets a key. *)
Rebound(bs, n, key) == [bs EXCEPT ![n].key = key]
WithKey(bs, action, key) ==
    [i \in DOMAIN bs |-> IF bs[i].action = action THEN [bs[i] EXCEPT !.key = key] ELSE bs[i]]

LEMMA KeysChange ==
    ASSUME NEW bs, AllBound(bs), NEW n \in DOMAIN bs, NEW key \in Keys
    PROVE  /\ AllBound(Rebound(bs, n, key)) /\ DOMAIN Rebound(bs, n, key) = DOMAIN bs
           /\ \A i \in DOMAIN bs : Rebound(bs, n, key)[i].action = bs[i].action
           /\ Rebound(bs, n, key) = WithKey(bs, bs[n].action, key)
<1> DEFINE one == [bs[n] EXCEPT !.key = key]
           now == Rebound(bs, n, key)
<1>1. bs \in Seq(Shortcuts) /\ bs[n] \in Shortcuts /\ OneEach(bs) /\ Bound(bs) = ToSet(Actions)
  BY DEF AllBound, SomeBound
<1>2. one \in Shortcuts /\ one.action = bs[n].action BY <1>1 DEF Shortcuts
<1>3. \A i \in DOMAIN bs : bs[i].action = bs[n].action => i = n BY <1>1 DEF OneEach
<1>4. now = WithKey(bs, bs[n].action, key) /\ now = [bs EXCEPT ![n] = one]
  BY <1>1, <1>3 DEF WithKey, Rebound
<1> HIDE DEF one, now
<1>5. now \in Seq(Shortcuts) /\ DOMAIN now = DOMAIN bs /\ \A i \in DOMAIN bs : now[i].action = bs[i].action
  BY <1>1, <1>2, <1>4
<1>6. OneEach(now) /\ Bound(now) = Bound(bs) BY <1>1, <1>5 DEF OneEach, Bound
<1> QED BY <1>1, <1>4, <1>5, <1>6 DEF now, AllBound, SomeBound

LEMMA PressKeeps == ASSUME SettingInv, NEW w \in Windows, NEW r, NEW key \in Keys, Press(w, r, key) PROVE SettingInv'
<1> DEFINE new == [win[w].rows EXCEPT !.capturing = @ \ {r}]
           state == [win[w] EXCEPT !.rows = new]
           had == win[w].config.bindings
<1>1. win[w].on /\ SameScene BY MayDoIs DEF Press
<1>2. /\ win[w] = [f \in WinFields |-> win[w][f]] /\ win = [v \in Windows |-> win[v]] /\ LookFits(win[w])
      /\ RowsFit(win[w].rows, win[w].config, win[w].actions) /\ ConfigFits(win[w].config)
      /\ (Alone => WantsIs(win[w])) /\ wanted = [f \in WantedFields |-> wanted[f]]
  BY <1>1, OnFits DEF SharedFits
<1>3. /\ r.index \in DOMAIN had /\ had[r.index].action = r.action /\ AllBound(had)
      /\ desktop' = desktop /\ actionsFile' = actionsFile /\ made' = made
  BY <1>2 DEF Press, Rows, RowsFit, ConfigFits
<1>4. RowsFit(new, win[w].config, win[w].actions) BY <1>2 DEF RowsFit, RowFields
<1>5. /\ state = [f \in WinFields |-> state[f]] /\ state.rows = new
      /\ \A f \in WinFields \ {"rows"} : state[f] = win[w][f]
  BY <1>2 DEF WinFields
<1>6. CASE key = "Escape"
  <2>1. win' = [win EXCEPT ![w] = state] /\ saved' = saved /\ wanted' = wanted
    BY <1>2, <1>6 DEF Press, WinFields
  <2> HIDE DEF state, new
  <2>2. /\ Changes(w, {"rows", "timers", "look", "watching"}) /\ win'[w].rows = new
        /\ \A f \in {"config", "timers", "look", "missed"} : win'[w][f] = win[w][f]
    BY <1>1, <1>2, <1>3, <1>5, <2>1 DEF Changes, WinFields
  <2>3. LookFits(win[w])' BY <1>2, <1>3, <2>2 DEF LookFits, Look
  <2> QED BY <1>3, <1>4, <2>1, <2>2, <2>3, NoConfigFits
<1>7. CASE key # "Escape"
  <2> DEFINE now == Rebound(had, r.index, key)
             c == [win[w].config EXCEPT !.bindings = now]
             s == [win[w] EXCEPT !.rows = new, !.config = c]
             want == wanted.keys
             wants == WithKey(want, r.action, key)
  <2>1. Save(w, s) /\ wanted' = [wanted EXCEPT !.keys = wants]
    BY <1>2, <1>3, <1>7 DEF WinFields, Rebound, Press, WithKey
  <2>2. /\ AllBound(now) /\ DOMAIN now = DOMAIN had /\ \A i \in DOMAIN had : now[i].action = had[i].action
        /\ now = WithKey(had, r.action, key)
    <3>1. AllBound(had) /\ r.index \in DOMAIN had /\ had[r.index].action = r.action BY <1>3
    <3> HIDE DEF had
    <3> QED BY <3>1, KeysChange
  <2> HIDE DEF now, new
  <2>6. /\ ConfigFits(c) /\ c.bindings = now /\ c.theme = win[w].config.theme
        /\ c.bookmarks = win[w].config.bookmarks
    BY <1>2, <2>2, ConfigsChange DEF ConfigFits, IsConfig, ConfigFields
  <2>7. RowsFit(new, c, win[w].actions) BY <1>4, <2>2, <2>6 DEF RowsFit
  <2> HIDE DEF c
  <2>8. /\ s = [f \in WinFields |-> s[f]] /\ s.config = c /\ s.rows = new /\ s.timers = win[w].timers
        /\ \A f \in {"on", "actions", "look", "watching", "missed", "unsaved", "writing"} : s[f] = win[w][f]
    BY <1>2 DEF WinFields
  <2> HIDE DEF s
  <2>9. /\ wanted' = [f \in WantedFields |-> wanted'[f]] /\ wanted'.keys = wants
        /\ \A f \in WantedFields \ {"keys"} : wanted'[f] = wanted[f]
    BY <1>2, <2>1 DEF WantedFields
  <2>10. ASSUME Alone PROVE c.bindings = wanted'.keys /\ c.bookmarks = wanted'.bookmarks
    <3>1. had = want /\ win[w].config.bookmarks = wanted.bookmarks BY <1>2, <2>10 DEF WantsIs
    <3>2. now = wants BY <2>2, <3>1
    <3> HIDE DEF wants, had, want
    <3> QED BY <2>6, <2>9, <3>1, <3>2 DEF WantedFields
  <2> QED BY <1>1, <1>3, <2>1, <2>6, <2>7, <2>8, <2>9, <2>10, StateSaves DEF WantedFields
<1> QED BY <1>6, <1>7

LEMMA ResetKeysKeeps == ASSUME SettingInv, NEW w \in Windows, ResetKeys(w) PROVE SettingInv'
<1> DEFINE c == [win[w].config EXCEPT !.bindings = DefaultKeybindings]
           new == [win[w].rows EXCEPT !.bindings = KeyRows(DefaultKeybindings), !.capturing = {}]
           s == [win[w] EXCEPT !.config = c, !.rows = new]
<1>1. win[w].on /\ SameScene /\ UNCHANGED <<desktop, actionsFile, made>> BY MayDoIs DEF ResetKeys
<1>2. /\ win[w] = [f \in WinFields |-> win[w][f]] /\ win = [v \in Windows |-> win[v]]
      /\ RowsFit(win[w].rows, win[w].config, win[w].actions) /\ ConfigFits(win[w].config)
      /\ (Alone => WantsIs(win[w])) /\ wanted = [f \in WantedFields |-> wanted[f]]
  BY <1>1, OnFits DEF SharedFits
<1>3. /\ ConfigFits(c) /\ c.bindings = DefaultKeybindings /\ c.theme = win[w].config.theme
      /\ c.bookmarks = win[w].config.bookmarks
  BY <1>2, DefaultsBindAll, ConfigsChange DEF ConfigFits, IsConfig, ConfigFields
<1>4. RowsFit(new, c, win[w].actions)
  <2>1. \A r \in KeyRows(c.bindings) : r.index \in DOMAIN c.bindings /\ c.bindings[r.index].action = r.action
    BY NewRowsFit
  <2> HIDE DEF c
  <2>2. \A r \in new.actions : r.index \in DOMAIN win[w].actions /\ win[w].actions[r.index].id = r.id
    BY <1>2 DEF RowsFit, RowFields
  <2>3. new = [f \in RowFields |-> new[f]] /\ new.capturing = {} /\ new.bindings = KeyRows(c.bindings)
    BY <1>2, <1>3 DEF RowsFit, RowFields
  <2> QED BY <2>1, <2>2, <2>3 DEF RowsFit
<1>5. Save(w, s) /\ wanted' = [wanted EXCEPT !.keys = DefaultKeybindings]
  BY <1>2 DEF WinFields, RowsFit, RowFields, ResetKeys
<1> HIDE DEF c, new
<1>6. /\ s = [f \in WinFields |-> s[f]] /\ s.config = c /\ s.rows = new /\ s.timers = win[w].timers
      /\ \A f \in {"on", "actions", "look", "watching", "missed", "unsaved", "writing"} : s[f] = win[w][f]
  BY <1>2 DEF WinFields
<1> HIDE DEF s
<1>7. /\ wanted' = [f \in WantedFields |-> wanted'[f]] /\ wanted'.keys = DefaultKeybindings
      /\ wanted'.actions = wanted.actions /\ wanted'.theme = wanted.theme /\ wanted'.bookmarks = wanted.bookmarks
  BY <1>2, <1>5 DEF WantedFields
<1>8. Alone => c.bindings = wanted'.keys /\ c.bookmarks = wanted'.bookmarks
  BY <1>2, <1>3, <1>7 DEF WantsIs
<1> QED BY <1>1, <1>3, <1>4, <1>5, <1>6, <1>7, <1>8, StateSaves

-------------------------------------------------------------------------------
(* SettingItems of lists. *)

(* RemoveAt closes the gap. *)
LEMMA RemoveAtEntries ==
    ASSUME NEW S, NEW s \in Seq(S), NEW p \in 1..Len(s)
    PROVE  /\ RemoveAt(s, p) \in Seq(S)
           /\ Len(RemoveAt(s, p)) = Len(s) - 1
           /\ \A i \in 1..(Len(s) - 1) :
                 RemoveAt(s, p)[i] = IF i < p THEN s[i] ELSE s[i + 1]
<1> DEFINE front == SubSeq(s, 1, p - 1)
           back  == SubSeq(s, p + 1, Len(s))
<1>1. front \in Seq(S) /\ Len(front) = p - 1 /\ \A i \in 1..(p - 1) : front[i] = s[i] OBVIOUS
<1>2. /\ back \in Seq(S) /\ Len(back) = Len(s) - p
      /\ \A i \in 1..(Len(s) - p) : back[i] = s[p + i]
  OBVIOUS
<1> DEFINE whole == front \o back
<1>3. RemoveAt(s, p) = whole BY DEF RemoveAt
<1> HIDE DEF front, back
<1>4. Len(whole) = Len(s) - 1 /\ whole \in Seq(S) BY <1>1, <1>2
<1>5. \A i \in 1..(Len(s) - 1) :
         whole[i] = IF i < p THEN front[i] ELSE back[i - (p - 1)]
  BY <1>1, <1>2
<1> HIDE DEF whole
<1>6. \A i \in 1..(Len(s) - 1) :
         i >= p => (i - (p - 1)) \in 1..(Len(s) - p) /\ back[i - (p - 1)] = s[i + 1]
  BY <1>2
<1>7. \A i \in 1..(Len(s) - 1) : whole[i] = IF i < p THEN s[i] ELSE s[i + 1]
  BY <1>1, <1>5, <1>6, SMTT(20)
<1> QED BY <1>3, <1>4, <1>7

(* One that is edited keeps its number. *)
LEMMA EditedEntries ==
    ASSUME NEW list \in Seq(SettingItems), NEW i, NEW text \in Wordings
    PROVE  /\ Edited(list, i, text) \in Seq(SettingItems) /\ DOMAIN Edited(list, i, text) = DOMAIN list
           /\ \A j \in DOMAIN list : Edited(list, i, text)[j].id = list[j].id
<1>1. CASE i \in DOMAIN list
  <2> DEFINE one == [list[i] EXCEPT !.text = text]
  <2>1. one \in SettingItems /\ one.id = list[i].id BY <1>1, ItemsAre DEF SettingItems
  <2>2. Edited(list, i, text) = [list EXCEPT ![i] = one] BY <1>1 DEF Edited
  <2> HIDE DEF one
  <2> QED BY <1>1, <2>1, <2>2
<1> QED BY <1>1 DEF Edited

(* One that is removed leaves the others, each with its number. *)
LEMMA RemovedEntries ==
    ASSUME NEW list \in Seq(SettingItems), NEW n
    PROVE  /\ Removed(list, n) \in Seq(SettingItems)
           /\ n \notin DOMAIN list => Removed(list, n) = list
           /\ n \in DOMAIN list =>
                \A i \in DOMAIN Removed(list, n) :
                   \/ i < n /\ i \in DOMAIN list /\ Removed(list, n)[i] = list[i]
                   \/ i >= n /\ i + 1 \in DOMAIN list /\ Removed(list, n)[i] = list[i + 1]
<1>1. CASE n \in DOMAIN list
  <2>1. n \in 1..Len(list) /\ Len(list) \in Nat /\ Removed(list, n) = RemoveAt(list, n)
    BY <1>1 DEF Removed
  <2>2. /\ RemoveAt(list, n) \in Seq(SettingItems) /\ Len(RemoveAt(list, n)) = Len(list) - 1
        /\ \A i \in 1..(Len(list) - 1) : RemoveAt(list, n)[i] = IF i < n THEN list[i] ELSE list[i + 1]
    BY <2>1, RemoveAtEntries
  <2> QED BY <1>1, <2>1, <2>2
<1> QED BY <1>1 DEF Removed

(* Where an item is found by its number. *)
LEMMA WhereItIs ==
    ASSUME NEW list, \A i, j \in DOMAIN list : list[i].id = list[j].id => i = j, NEW n \in DOMAIN list
    PROVE  Where(list, list[n].id) = n
  BY DEF Where

LEMMA EditAssociationKeeps ==
    ASSUME SettingInv, NEW w \in Windows, NEW r, EditAssociation(w, r) PROVE SettingInv'
<1> DEFINE list == win[w].config.associations
           now == Edited(list, r.index, "edited")
           c == [win[w].config EXCEPT !.associations = now]
<1>1. win[w].on /\ SameScene /\ MayDo(w, "associations") /\ ~win[w].writing
  BY MayDoIs DEF EditAssociation
<1>2. /\ win[w] = [f \in WinFields |-> win[w][f]] /\ win = [v \in Windows |-> win[v]] /\ LookFits(win[w])
      /\ RowsFit(win[w].rows, win[w].config, win[w].actions) /\ ConfigFits(win[w].config) /\ made \in Nat
      /\ (Alone => WantsIs(win[w])) /\ wanted = [f \in WantedFields |-> wanted[f]]
  BY <1>1, OnFits DEF SharedFits
<1>3. /\ wanted' = [f \in WantedFields |-> wanted'[f]]
      /\ \A f \in WantedFields \ {"associations"} : wanted'[f] = wanted[f]
  BY <1>2 DEF EditAssociation, WantedFields
<1>4. desktop' = desktop /\ actionsFile' = actionsFile /\ made' = made BY DEF EditAssociation
<1>5. CASE r.index \in DOMAIN list
  <2>1. Change(w, c) BY <1>5 DEF EditAssociation
  <2>2. now \in Seq(SettingItems) BY <1>2, EditedEntries DEF ConfigFits, IsConfig, Wordings
  <2> HIDE DEF now
  <2>3. /\ ConfigFits(c) /\ c.bindings = win[w].config.bindings /\ c.theme = win[w].config.theme
        /\ c.bookmarks = win[w].config.bookmarks
    BY <1>2, <2>2, ConfigsChange DEF ConfigFits, IsConfig, ConfigFields
  <2> HIDE DEF c
  <2>4. Alone => c.bookmarks = wanted'.bookmarks BY <1>2, <1>3, <2>3 DEF WantsIs, WantedFields
  <2> QED BY <1>1, <1>3, <1>4, <2>1, <2>3, <2>4, ConfigSaves DEF WantedFields
<1>6. CASE r.index \notin DOMAIN list
  <2>1. win' = win /\ saved' = saved BY <1>6 DEF EditAssociation
  <2>2. Changes(w, {"config", "rows", "timers", "look", "watching"})
    BY <1>1, <1>2, <1>4, <2>1 DEF Changes
  <2>3. LookFits(win[w])' BY <1>2, <1>4, <2>1 DEF LookFits, Look
  <2>4. Alone /\ Settled(w) => AheadOf(LoadedFrom(saved), win'[w].config, "zoom" \in win'[w].timers)
    BY <1>2, <2>1 DEF WantsIs, Settled
  <2>5. made' \in Nat /\ made' >= made BY <1>2, <1>4
  <2> QED BY <1>2, <1>3, <1>4, <2>1, <2>2, <2>3, <2>4, <2>5, KeepsFit
<1> QED BY <1>5, <1>6

LEMMA RemoveAssociationKeeps ==
    ASSUME SettingInv, NEW w \in Windows, NEW r, RemoveAssociation(w, r) PROVE SettingInv'
<1> DEFINE list == win[w].config.associations
           now == Removed(list, r.index)
           c == [win[w].config EXCEPT !.associations = now]
           new == [win[w].rows EXCEPT !.associations = @ \ {r}]
           s == [win[w] EXCEPT !.rows = new, !.config = c]
<1>1. win[w].on /\ SameScene /\ ~win[w].writing BY MayDoIs DEF RemoveAssociation
<1>2. /\ win[w] = [f \in WinFields |-> win[w][f]] /\ win = [v \in Windows |-> win[v]] /\ LookFits(win[w])
      /\ RowsFit(win[w].rows, win[w].config, win[w].actions) /\ ConfigFits(win[w].config) /\ made \in Nat
      /\ (Alone => WantsIs(win[w])) /\ wanted = [f \in WantedFields |-> wanted[f]]
  BY <1>1, OnFits DEF SharedFits
<1>3. /\ wanted' = [f \in WantedFields |-> wanted'[f]]
      /\ \A f \in WantedFields \ {"associations"} : wanted'[f] = wanted[f]
  BY <1>2 DEF RemoveAssociation, WantedFields
<1>4. /\ desktop' = desktop /\ actionsFile' = actionsFile /\ made' = made
      /\ IF r.index \in DOMAIN list THEN Save(w, s) ELSE win' = [win EXCEPT ![w] = s] /\ saved' = saved
  BY <1>2 DEF WinFields, RemoveAssociation
<1>5. list \in Seq(SettingItems) BY <1>2 DEF ConfigFits, IsConfig
<1>6. now \in Seq(SettingItems) /\ (r.index \notin DOMAIN list => now = list) BY <1>5, RemovedEntries
<1>7. RowsFit(new, win[w].config, win[w].actions) BY <1>2 DEF RowsFit, RowFields
<1> HIDE DEF now, new
<1>8. /\ ConfigFits(c) /\ c.bindings = win[w].config.bindings /\ c.theme = win[w].config.theme
      /\ c.bookmarks = win[w].config.bookmarks /\ c.associations = now
      /\ \A f \in ConfigFields : f # "associations" => c[f] = win[w].config[f]
  BY <1>2, <1>6, ConfigsChange DEF ConfigFits, IsConfig, ConfigFields
<1> HIDE DEF c
<1>9. RowsFit(new, c, win[w].actions) BY <1>7, <1>8 DEF RowsFit
<1>10. /\ s = [f \in WinFields |-> s[f]] /\ s.config = c /\ s.rows = new
       /\ \A f \in WinFields \ {"config", "rows"} : s[f] = win[w][f]
  BY <1>2 DEF WinFields
<1> HIDE DEF s
<1>11. CASE r.index \in DOMAIN list
  <2>1. Save(w, s) BY <1>4, <1>11
  <2>2. /\ s.timers = win[w].timers /\ wanted'.actions = wanted.actions
        /\ \A f \in {"on", "actions", "look", "watching", "missed", "unsaved", "writing"} : s[f] = win[w][f]
    BY <1>3, <1>10 DEF WinFields, WantedFields
  <2>3. Alone => /\ s.config.bindings = wanted'.keys /\ s.config.bookmarks = wanted'.bookmarks
                 /\ wanted'.theme = wanted.theme
    BY <1>2, <1>3, <1>8, <1>10 DEF WantsIs, WantedFields
  <2>4. RowsFit(s.rows, s.config, win[w].actions) /\ ConfigFits(s.config) /\ s.config.theme = win[w].config.theme
    BY <1>8, <1>9, <1>10
  <2>5. "desktop" \in s.timers <=> "desktop" \in win[w].timers BY <2>2
  <2> QED BY <1>1, <1>3, <1>4, <1>10, <2>1, <2>2, <2>3, <2>4, <2>5, StateSaves
<1>12. CASE r.index \notin DOMAIN list
  <2>1. win' = [win EXCEPT ![w] = s] /\ saved' = saved BY <1>4, <1>12
  <2>2. /\ Changes(w, {"config", "rows", "timers", "look", "watching"}) /\ win'[w] = s
        /\ s.timers = win[w].timers /\ s.look = win[w].look /\ s.missed = win[w].missed
    BY <1>1, <1>2, <1>4, <1>10, <2>1 DEF Changes, WinFields
  <2>3. LookFits(win[w])' BY <1>2, <1>4, <1>8, <1>10, <2>2 DEF LookFits, Look
  <2>4. ASSUME Alone, Settled(w)
        PROVE  AheadOf(LoadedFrom(saved), win'[w].config, "zoom" \in win'[w].timers)
    <3>1. AheadOf(LoadedFrom(saved), win[w].config, "zoom" \in win[w].timers)
      BY <1>2, <2>4 DEF WantsIs, Settled
    <3>2. c.associations = win[w].config.associations BY <1>6, <1>8, <1>12
    <3> QED BY <1>8, <1>10, <2>2, <3>1, <3>2 DEF AheadOf
  <2>5. made' \in Nat /\ made' >= made BY <1>2, <1>4
  <2>6. ConfigFits(s.config) /\ RowsFit(s.rows, s.config, win[w].actions) BY <1>8, <1>9, <1>10
  <2> QED BY <1>3, <1>4, <1>8, <1>10, <2>1, <2>2, <2>3, <2>4, <2>5, <2>6, KeepsFit
<1> QED BY <1>11, <1>12

(* Part of a list is numbered as the list is. *)
IsPart(file, list) == \E n \in 0..(Len(list) - 1) : file = AsFile(SubSeq(list, 1, n))

LEMMA PartIsNumbered ==
    ASSUME NEW list, NEW n \in Nat, Numbered(list, n), NEW file, IsPart(file, list)
    PROVE  file.is = "actions" /\ Numbered(file.list, n)
<1>1. list \in Seq(SettingItems) /\ Len(list) \in Nat BY DEF Numbered
<1>2. PICK m \in 0..(Len(list) - 1) : file = AsFile(SubSeq(list, 1, m)) BY DEF IsPart
<1> DEFINE part == SubSeq(list, 1, m)
<1>3. /\ part \in Seq(SettingItems) /\ DOMAIN part = 1..m /\ m < Len(list)
      /\ \A i \in 1..m : i \in DOMAIN list /\ part[i] = list[i]
  BY <1>1, <1>2
<1> HIDE DEF part
<1> QED BY <1>2, <1>3 DEF Numbered, AsFile, part

(* settings_actions.rs: what there is of actions is on file at once, or is known not to be. *)
LEMMA PersistsFit ==
    ASSUME SettingInv, NEW w \in Windows, NEW what, MayDo(w, what), NEW list, NEW shown, Persist(w, list, shown),
           UNCHANGED <<desktop, saved>>, made' \in Nat, made' >= made, Numbered(list, made'),
           \A r \in shown : r.index \in DOMAIN list /\ list[r.index].id = r.id,
           \E x : wanted' = [wanted EXCEPT !.actions = x], Alone => wanted'.actions = list
    PROVE  SettingInv'
<1>1. win[w].on /\ SameScene BY MayDoIs
<1>2. /\ win[w] = [f \in WinFields |-> win[w][f]] /\ win = [v \in Windows |-> win[v]] /\ LookFits(win[w])
      /\ RowsFit(win[w].rows, win[w].config, win[w].actions) /\ ConfigFits(win[w].config)
      /\ (Alone => WantsIs(win[w])) /\ wanted = [f \in WantedFields |-> wanted[f]] /\ SharedFits
      /\ win[w].writing \in BOOLEAN
  BY <1>1, OnFits DEF SharedFits
<1>3. /\ wanted' = [f \in WantedFields |-> wanted'[f]]
      /\ \A f \in WantedFields \ {"actions"} : wanted'[f] = wanted[f]
  BY <1>2 DEF WantedFields
<1> DEFINE new == [win[w].rows EXCEPT !.actions = shown]
<1>4. desktop' = desktop /\ saved' = saved OBVIOUS
<1> DEFINE Ends(u) == [win[w] EXCEPT !.actions = list, !.rows = new, !.unsaved = u]
           less == win[w].unsaved \ {"actions"}
           more == win[w].unsaved \cup {"actions"}
<1>11. \/ win' = [win EXCEPT ![w] = Ends(less)] /\ actionsFile' = AsFile(list)
       \/ /\ win' = [win EXCEPT ![w] = Ends(more)]
          /\ actionsFile' \in {actionsFile, Half} \/ IsPart(actionsFile', list)
  <2>1. \/ /\ actionsFile' = AsFile(list)
           /\ win' = [win EXCEPT ![w].actions = list, ![w].rows.actions = shown, ![w].unsaved = less]
        \/ /\ \/ actionsFile' \in {actionsFile, Half}
              \/ \E n \in 0..(Len(list) - 1) : actionsFile' = AsFile(SubSeq(list, 1, n))
           /\ win' = [win EXCEPT ![w].actions = list, ![w].rows.actions = shown, ![w].unsaved = more]
    BY <1>2 DEF Persist, WinFields
  <2>2. \A u : [win EXCEPT ![w].actions = list, ![w].rows.actions = shown, ![w].unsaved = u]
                 = [win EXCEPT ![w] = Ends(u)]
    BY <1>2 DEF WinFields
  <2> HIDE DEF Ends, less, more
  <2> QED BY <2>1, <2>2 DEF IsPart
<1>5. RowsFit(new, win[w].config, list) BY <1>2 DEF RowsFit, RowFields
<1> HIDE DEF new
<1>6. /\ Changes(w, WinFields \ {"on", "missed"})
      /\ win'[w].actions = list /\ win'[w].rows = new /\ win'[w].config = win[w].config
      /\ win'[w].timers = win[w].timers /\ win'[w].look = win[w].look /\ win'[w].missed = win[w].missed
      /\ win'[w].writing = win[w].writing
      /\ "config" \in win'[w].unsaved <=> "config" \in win[w].unsaved
      /\ \/ actionsFile' = AsFile(list)
         \/ /\ "actions" \in win'[w].unsaved
            /\ actionsFile' \in {actionsFile, Half} \/ IsPart(actionsFile', list)
  <2>1. PICK u : /\ win' = [win EXCEPT ![w] = Ends(u)] /\ u \in {less, more}
                 /\ \/ actionsFile' = AsFile(list)
                    \/ u = more /\ (actionsFile' \in {actionsFile, Half} \/ IsPart(actionsFile', list))
    <3> HIDE DEF Ends, less, more
    <3> QED BY <1>11
  <2>2. ("config" \in u <=> "config" \in win[w].unsaved) /\ (u = more => "actions" \in u) BY <2>1
  <2> HIDE DEF less, more
  <2> QED BY <1>1, <1>2, <1>4, <2>1, <2>2 DEF Changes, WinFields
<1>7. SharedFits'
  <2>1. ASSUME IsPart(actionsFile', list) PROVE actionsFile'.is = "actions" /\ Numbered(actionsFile'.list, made')
    BY <2>1, PartIsNumbered
  <2>2. ASSUME actionsFile' = actionsFile, actionsFile.is = "actions", ActionsFit(actionsFile.list)
        PROVE  Numbered(actionsFile'.list, made')
    BY <2>2, <1>2, ItemsAre DEF SharedFits, ActionsFit, Numbered
  <2>3. \/ actionsFile' \in {NoFile, Half}
        \/ actionsFile'.is = "actions" /\ Numbered(actionsFile'.list, made')
    BY <1>2, <1>6, <2>1, <2>2 DEF SharedFits, AsFile
  <2> QED BY <1>1, <1>2, <1>3, <1>4, <2>3 DEF SharedFits, SameScene, ActionsFit
<1>8. LookFits(win[w])' BY <1>2, <1>4, <1>6 DEF LookFits, Look
<1>9. Alone => WantsIs(win[w])' BY <1>2, <1>3, <1>4, <1>6 DEF WantsIs, WantedFields, ActionsFrom, AsFile
<1>10. ActionsFit(win[w].actions)' BY <1>6 DEF ActionsFit
<1> QED BY <1>2, <1>5, <1>6, <1>7, <1>8, <1>9, <1>10, WindowGoes

LEMMA AddActionKeeps == ASSUME SettingInv, NEW w \in Windows, AddAction(w) PROVE SettingInv'
<1> DEFINE had == win[w].actions
           new == Item(made + 1, "new")
           list == Append(had, new)
<1>1. win[w].on BY MayDoIs DEF AddAction
<1>2. ActionsFit(had) /\ (Alone => WantsIs(win[w])) /\ made \in Nat /\ wanted = [f \in WantedFields |-> wanted[f]]
  BY <1>1, OnFits DEF SharedFits
<1>3. /\ MayDo(w, "actions") /\ made' = made + 1 /\ UNCHANGED <<desktop, saved>>
      /\ Persist(w, list, RowsOf(list)) /\ wanted' = [wanted EXCEPT !.actions = Append(@, new)]
  BY DEF AddAction
<1>4. new \in SettingItems /\ new.id = made + 1 BY <1>2 DEF Item, SettingItems, Wordings
<1>5. had \in Seq(SettingItems) /\ \A i \in DOMAIN had : had[i].id \in Nat /\ had[i].id <= made
  BY <1>2, ItemsAre DEF ActionsFit, Numbered
<1> HIDE DEF new, had
<1>6. /\ list \in Seq(SettingItems) /\ Len(had) \in Nat
      /\ \A i \in DOMAIN list : (i \in DOMAIN had /\ list[i] = had[i]) \/ (i = Len(had) + 1 /\ list[i] = new)
  BY <1>4, <1>5
<1>7. made' \in Nat /\ made' >= made BY <1>2, <1>3
<1> HIDE DEF list
<1>8. \A i \in DOMAIN list : list[i].id <= made' BY <1>2, <1>3, <1>4, <1>5, <1>6
<1>9. \A i, j \in DOMAIN list : list[i].id = list[j].id => i = j
  BY <1>2, <1>4, <1>5, <1>6, SMTT(20) DEF ActionsFit, Numbered, had
<1>10. Numbered(list, made') BY <1>6, <1>8, <1>9 DEF ActionsFit, Numbered
<1>11. \A r \in RowsOf(list) : r.index \in DOMAIN list /\ list[r.index].id = r.id BY NewRowsFit
<1>12. Alone => wanted'.actions = list BY <1>2, <1>3 DEF WantsIs, WantedFields, list, had
<1> QED BY <1>3, <1>7, <1>10, <1>11, <1>12, PersistsFit

LEMMA EditActionKeeps ==
    ASSUME SettingInv, NEW w \in Windows, NEW r, EditAction(w, r) \/ RemoveAction(w, r) PROVE SettingInv'
<1> DEFINE had == win[w].actions
           edited == Edited(had, r.index, "edited")
           left == Removed(had, r.index)
<1>1. win[w].on /\ MayDo(w, "actions") /\ made' = made /\ UNCHANGED <<desktop, saved>>
  BY MayDoIs DEF EditAction, RemoveAction
<1>2. /\ ActionsFit(had) /\ RowsFit(win[w].rows, win[w].config, had) /\ (Alone => WantsIs(win[w]))
      /\ made \in Nat /\ wanted = [f \in WantedFields |-> wanted[f]]
  BY <1>1, OnFits DEF SharedFits
<1>3. r.index \in DOMAIN had /\ had[r.index].id = r.id /\ had \in Seq(SettingItems)
  BY <1>2 DEF EditAction, RemoveAction, Rows, RowsFit, ActionsFit, Numbered
<1>4. Where(had, r.id) = r.index BY <1>2, <1>3, WhereItIs DEF ActionsFit, Numbered
<1>5. Alone => wanted.actions = had BY <1>2 DEF WantsIs
<1>6. made' \in Nat /\ made' >= made BY <1>1, <1>2
<1>7. CASE EditAction(w, r)
  <2>1. /\ Persist(w, edited, win[w].rows.actions)
        /\ wanted' = [wanted EXCEPT !.actions = Edited(@, Where(@, r.id), "edited")]
    BY <1>7 DEF EditAction, Rows
  <2>2. /\ edited \in Seq(SettingItems) /\ DOMAIN edited = DOMAIN had
        /\ \A i \in DOMAIN had : edited[i].id = had[i].id
    BY <1>3, EditedEntries DEF Wordings
  <2>3. Alone => wanted'.actions = edited BY <1>2, <1>4, <1>5, <2>1 DEF WantedFields
  <2> HIDE DEF edited
  <2>4. Numbered(edited, made') BY <1>1, <1>2, <2>2 DEF ActionsFit, Numbered
  <2>5. \A q \in win[w].rows.actions : q.index \in DOMAIN edited /\ edited[q.index].id = q.id
    BY <1>2, <2>2 DEF RowsFit
  <2> QED BY <1>1, <1>6, <2>1, <2>3, <2>4, <2>5, PersistsFit
<1>8. CASE RemoveAction(w, r)
  <2>1. Persist(w, left, RowsOf(left)) /\ wanted' = [wanted EXCEPT !.actions = Removed(@, Where(@, r.id))]
    BY <1>8 DEF RemoveAction
  <2>2. /\ left \in Seq(SettingItems)
        /\ \A i \in DOMAIN left : \/ i < r.index /\ i \in DOMAIN had /\ left[i] = had[i]
                                  \/ i >= r.index /\ i + 1 \in DOMAIN had /\ left[i] = had[i + 1]
    BY <1>3, RemovedEntries
  <2>3. Alone => wanted'.actions = left BY <1>2, <1>4, <1>5, <2>1 DEF WantedFields
  <2> HIDE DEF left
  <2>4. r.index \in Nat /\ (\A i \in DOMAIN left : i \in Nat) /\ \A i, j \in DOMAIN had : had[i].id = had[j].id => i = j
    BY <1>2, <1>3, <2>2 DEF ActionsFit, Numbered
  <2> HIDE DEF had
  <2>5. \A i, j \in DOMAIN left : left[i].id = left[j].id => i = j BY <2>2, <2>4
  <2>6. Numbered(left, made') BY <1>1, <1>2, <2>2, <2>5 DEF ActionsFit, Numbered
  <2>7. \A q \in RowsOf(left) : q.index \in DOMAIN left /\ left[q.index].id = q.id BY NewRowsFit
  <2> QED BY <1>1, <1>6, <2>1, <2>3, <2>6, <2>7, PersistsFit
<1> QED BY <1>7, <1>8

LEMMA RestoreActionsKeeps == ASSUME SettingInv, NEW w \in Windows, RestoreActions(w) PROVE SettingInv'
<1>1. /\ MayDo(w, "actions") /\ UNCHANGED <<desktop, saved, made>> /\ Persist(w, Builtin, RowsOf(Builtin))
      /\ wanted' = [wanted EXCEPT !.actions = Builtin]
  BY DEF RestoreActions
<1>2. made \in Nat /\ wanted = [f \in WantedFields |-> wanted[f]] BY DEF SettingInv, SharedFits
<1>3. made' \in Nat /\ made' >= made /\ wanted'.actions = Builtin BY <1>1, <1>2 DEF WantedFields
<1>4. Numbered(Builtin, made') BY <1>1, <1>2, BuiltinFits DEF ActionsFit, Numbered
<1>5. \A r \in RowsOf(Builtin) : r.index \in DOMAIN Builtin /\ Builtin[r.index].id = r.id BY NewRowsFit
<1> QED BY <1>1, <1>3, <1>4, <1>5, PersistsFit

LEMMA SettingInvStutters == ASSUME SettingInv, UNCHANGED settingVars PROVE SettingInv'
<1>1. /\ desktop' = desktop /\ saved' = saved /\ actionsFile' = actionsFile /\ win' = win /\ made' = made
      /\ wanted' = wanted /\ changing' = changing
  BY DEF settingVars
<1>2. SharedFits' BY <1>1 DEF SettingInv, SharedFits, ActionsFit
<1>3. ASSUME NEW w \in Windows PROVE WindowFits(w, win[w])'
  BY <1>1 DEF SettingInv, WindowFits, ActionsFit, LookFits, Look, WantsIs, Alone
<1> QED BY <1>1, <1>2, <1>3 DEF SettingInv, ClosedFits, Alone

LEMMA SettingInvNext == SettingInv /\ [SettingNext]_settingVars => SettingInv'
<1> SUFFICES ASSUME SettingInv, SettingNext PROVE SettingInv' BY SettingInvStutters
<1>1. PICK w \in Windows :
       \/ WatchDesktop(w) \/ DesktopSettled(w) \/ DesktopWritten
       \/ \E look \in {"dark", "light"} : WriteDesktop(look)
       \/ SaveEnds(w) \/ SaveFails(w) \/ Launch(w) \/ Quit(w) \/ Crash(w) \/ ZoomSettled(w)
       \/ \E f \in Bookmarked : Pin(w, f) \/ Unpin(w, f)
       \/ \E mode \in {"list", "icons"} : SetViewMode(w, mode)
       \/ \E theme \in Themes : SetTheme(w, theme)
       \/ \E on \in BOOLEAN : GeneralSwitch(w, on) \/ LayoutSwitch(w, on)
       \/ \E size \in Sizes : Zoom(w, size)
       \/ OpenSettings(w) \/ AddAssociation(w) \/ AddAction(w) \/ RestoreActions(w) \/ ResetKeys(w)
       \/ \E r \in Rows(w).associations : EditAssociation(w, r) \/ RemoveAssociation(w, r)
       \/ \E r \in Rows(w).actions : EditAction(w, r) \/ RemoveAction(w, r)
       \/ \E r \in Rows(w).bindings : Capture(w, r) \/ \E key \in Keys : Press(w, r, key)
  BY DEF SettingNext
<1>2. CASE WatchDesktop(w) \/ DesktopSettled(w) BY <1>2, WatchDesktopKeeps
<1>3. CASE DesktopWritten \/ \E look \in {"dark", "light"} : WriteDesktop(look) BY <1>3, DesktopKeeps
<1>4. CASE SaveEnds(w) \/ SaveFails(w) BY <1>4, SaveEndsKeeps
<1>5. CASE Launch(w) BY <1>5, LaunchKeeps
<1>6. CASE Quit(w) BY <1>6, QuitKeeps
<1>7. CASE Crash(w) BY <1>7, CrashKeeps
<1>8. CASE ZoomSettled(w) BY <1>8, ZoomSettledKeeps
<1>9. CASE \E f \in Bookmarked : Pin(w, f) \/ Unpin(w, f) BY <1>9, PinKeeps
<1>10. CASE \/ \E mode \in {"list", "icons"} : SetViewMode(w, mode)
            \/ \E on \in BOOLEAN : GeneralSwitch(w, on) \/ LayoutSwitch(w, on)
  BY <1>10, SwitchKeeps
<1>11. CASE \E theme \in Themes : SetTheme(w, theme) BY <1>11, SetThemeKeeps
<1>12. CASE \E size \in Sizes : Zoom(w, size) BY <1>12, ZoomKeeps
<1>13. CASE OpenSettings(w) BY <1>13, OpenSettingsKeeps
<1>14. CASE AddAssociation(w) BY <1>14, AddAssociationKeeps
<1>15. CASE AddAction(w) BY <1>15, AddActionKeeps
<1>16. CASE RestoreActions(w) BY <1>16, RestoreActionsKeeps
<1>17. CASE ResetKeys(w) BY <1>17, ResetKeysKeeps
<1>18. CASE \E r \in Rows(w).associations : EditAssociation(w, r) \/ RemoveAssociation(w, r)
  BY <1>18, EditAssociationKeeps, RemoveAssociationKeeps
<1>19. CASE \E r \in Rows(w).actions : EditAction(w, r) \/ RemoveAction(w, r) BY <1>19, EditActionKeeps
<1>20. CASE \E r \in Rows(w).bindings : Capture(w, r) \/ \E key \in Keys : Press(w, r, key)
  BY <1>20, CaptureKeeps, PressKeeps
<1> QED BY <1>1, <1>2, <1>3, <1>4, <1>5, <1>6, <1>7, <1>8, <1>9, <1>10, <1>11, <1>12, <1>13, <1>14, <1>15,
<1>16, <1>17, <1>18, <1>19, <1>20

(* config.rs, settings_actions.rs, themes.rs: however often settings are changed, saved or not,
   and the program is started, closed or stopped by a fault, in however many windows, what was
   set is on file once it has settled unless its last save failed, of the item it was set for,
   and windows have the look of the desktop. *)
THEOREM SettingsAreAlwaysKept == SettingSpec => []SettingsAreKept
<1>1. SettingSpec => []SettingInv BY SettingInvInit, SettingInvNext, PTL DEF SettingSpec
<1> QED BY <1>1, InvIsKept, PTL

===============================================================================
