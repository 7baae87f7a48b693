-------------------------------- MODULE Reports --------------------------------
(***************************************************************************)
(* What the window has found out for its dialogs: Properties (package,   *)
(* open handles, systemd unit, disk usage), Find Duplicates and Suggest  *)
(* Organization.                                                         *)
(*                                                                       *)
(* Each dialog is modal and sends its commands as it opens; every        *)
(* command is answered by a task of its own, through the one channel of  *)
(* events, and the window gives an answer to the dialog it opened last,  *)
(* closed or not. Cancelling is one flag for all scans and one for all   *)
(* calculations.                                                         *)
(***************************************************************************)
EXTENDS Naturals, Sequences, SequencesExt, FiniteSets

CONSTANTS
    Listed,               \* the files, in the order a walk meets them
    Folders,
    Below,                \* Below[d]: d and the folders within it
    FirstPlace,           \* FirstPlace[f]: the folder a file is in at first
    SizeOf, ContentOf,    \* of each file; what has the same content has the same size
    Groupings,            \* how organize.rs may group files: sets of files with a folder's name
    UnitFiles,            \* files that are named like a systemd unit
    MinGroup,             \* min_group_size
    Inspections,          \* scenes: which dialogs are opened, of what, and how often in all
    UsageEntries,         \* how many entries a calculation tells of (bound)
    Gone

VARIABLES
    place,               \* place[f]: its folder, a folder made for it, or Nowhere: in the trash
    reportTasks,         \* reportTasks[<<n, kind>>]: the task of the n-th dialog that answers for kind
    stop,                \* disk_usage_cancel and duplicate_scan_cancel
    news,                \* events on their way to the window
    properties,          \* the Properties dialog opened last, and what its rows tell of
    duplicates,          \* the Find Duplicates dialog opened last
    organizing,          \* the Suggest Organization dialog opened last
    moves,               \* moves that were asked for and have not been made
    bar,                 \* the status bar says "Calculating..."
    inspected            \* the scene; n: dialogs so far; mixed, cancelled (history)

reportVars == <<place, reportTasks, stop, news, properties, duplicates, organizing, moves,
                bar, inspected>>

InspectedFiles == ToSet(Listed)
Kinds == {"package", "locks", "unit", "usage", "duplicates", "organize"}
Asleep == [pc |-> "none", of |-> Gone, todo |-> << >>, found |-> {}, forward |-> 0]
NoProperties == [open |-> FALSE, of |-> Gone,
                 rows |-> [k \in {"package", "locks", "unit", "usage"} |-> Gone]]
NoDuplicates == [open |-> FALSE, groups |-> {}, ticked |-> {}, selected |-> {}, results |-> 0]
NoOffers == [open |-> FALSE, offers |-> << >>, ticked |-> {}, selected |-> {}]

ReportInit ==
    /\ inspected \in {[dialogs |-> i.dialogs, things |-> i.things, most |-> i.most,
                       n |-> 0, mixed |-> FALSE, cancelled |-> FALSE] :
                      i \in Inspections}
    /\ place = FirstPlace /\ reportTasks = [t \in (1..inspected.most) \X Kinds |-> Asleep]
    /\ stop = [usage |-> FALSE, duplicates |-> FALSE] /\ news = << >>
    /\ properties = NoProperties /\ duplicates = NoDuplicates /\ organizing = NoOffers
    /\ moves = {} /\ bar = FALSE

NoDialog == ~properties.open /\ ~duplicates.open /\ ~organizing.open
FilesBelow(d) == SelectSeq(Listed, LAMBDA f : place[f] \in Below[d])
Awake(t) == reportTasks[t].pc \notin {"none", "ended"}
At2(t, pc) == reportTasks[t].pc = pc
Turn(t, state) == reportTasks' = [reportTasks EXCEPT ![t] = state]
ReportEnds(t) == Turn(t, [Asleep EXCEPT !.pc = "ended"])
Send(kind, of, what) == news' = Append(news, [kind |-> kind, of |-> of, what |-> what])
Reports(kinds, of) ==
    /\ inspected.n < inspected.most /\ inspected' = [inspected EXCEPT !.n = @ + 1]
    /\ reportTasks' = [t \in DOMAIN reportTasks |-> IF t[1] = inspected.n + 1 /\ t[2] \in kinds
                                        THEN [Asleep EXCEPT !.pc = "begun", !.of = of] ELSE reportTasks[t]]

-------------------------------------------------------------------------------
(* The window: dialogs open, and their commands are sent; the command loop takes them in order,
   and a task may begin as late as it likes. *)

OpenProperties(x) ==
    /\ "properties" \in inspected.dialogs /\ NoDialog
    /\ x \in inspected.things
    /\ Reports({"package", "locks"} \cup (IF x \in Folders THEN {"usage"} ELSE {})
                                   \cup (IF x \in UnitFiles THEN {"unit"} ELSE {}), x)
    /\ properties' = [NoProperties EXCEPT !.open = TRUE, !.of = x]
    /\ stop' = IF x \in Folders THEN [stop EXCEPT !.usage = FALSE] ELSE stop
    /\ UNCHANGED <<place, news, duplicates, organizing, moves, bar>>

OpenDuplicates(d) ==
    /\ "duplicates" \in inspected.dialogs /\ NoDialog /\ Reports({"duplicates"}, d)
    /\ duplicates' = [NoDuplicates EXCEPT !.open = TRUE] /\ stop' = [stop EXCEPT !.duplicates = FALSE]
    /\ UNCHANGED <<place, news, properties, organizing, moves, bar>>

OpenOrganize(d) ==
    /\ "organize" \in inspected.dialogs /\ NoDialog /\ Reports({"organize"}, d)
    /\ organizing' = [NoOffers EXCEPT !.open = TRUE]
    /\ UNCHANGED <<place, stop, news, properties, duplicates, moves, bar>>

CloseReport ==
    /\ ~NoDialog
    /\ properties' = [properties EXCEPT !.open = FALSE]
    /\ duplicates' = [duplicates EXCEPT !.open = FALSE]
    /\ organizing' = [organizing EXCEPT !.open = FALSE]
    /\ UNCHANGED <<place, reportTasks, stop, news, moves, bar, inspected>>

CancelUsage ==
    /\ bar /\ NoDialog /\ stop' = [stop EXCEPT !.usage = TRUE]
    /\ inspected' = [inspected EXCEPT !.cancelled = TRUE]
    /\ UNCHANGED <<place, reportTasks, news, properties, duplicates, organizing, moves, bar>>

CancelScan ==
    /\ duplicates.open /\ stop' = [stop EXCEPT !.duplicates = TRUE]
    /\ UNCHANGED <<place, reportTasks, news, properties, duplicates, organizing, moves, bar, inspected>>

Toggled(f, set) == IF f \in set THEN set \ {f} ELSE set \cup {f}

TickDuplicate(f) ==
    /\ duplicates.open /\ \E g \in duplicates.groups : f \in ToSet(g)
    /\ duplicates' = [duplicates EXCEPT !.ticked = Toggled(f, @),
                        !.selected = IF f \in duplicates.ticked THEN @ \ {f} ELSE @ \cup {f}]
    /\ UNCHANGED <<place, reportTasks, stop, news, properties, organizing, moves, bar, inspected>>

TickOffer(i) ==
    /\ organizing.open /\ i \in DOMAIN organizing.offers
    /\ organizing' = [organizing EXCEPT !.ticked = Toggled(i, @),
                        !.selected = IF i \in organizing.ticked THEN @ \ {i} ELSE @ \cup {i}]
    /\ UNCHANGED <<place, reportTasks, stop, news, properties, duplicates, moves, bar, inspected>>

(* Move to Trash, which needs results to be shown; the operation is made at once here. *)
TrashSelected ==
    /\ duplicates.open /\ duplicates.results > 0
    /\ place' = [f \in InspectedFiles |-> IF f \in duplicates.selected THEN Gone ELSE place[f]]
    /\ duplicates' = [duplicates EXCEPT !.open = FALSE]
    /\ UNCHANGED <<reportTasks, stop, news, properties, organizing, moves, bar, inspected>>

(* Apply Selected: a move for each suggestion, into a folder beside its first file. *)
ApplySelected ==
    /\ organizing.open /\ organizing.offers # << >>
    /\ moves' = moves \cup {organizing.offers[i] : i \in organizing.selected}
    /\ organizing' = [organizing EXCEPT !.open = FALSE]
    /\ UNCHANGED <<place, reportTasks, stop, news, properties, duplicates, bar, inspected>>

(* A move's task goes from file to file, and fails at one that has gone. *)
MoveOne(m) ==
    /\ m \in moves /\ LET left == {f \in m.files : place[f] # <<m.of, m.to>>}
                      IN  \/ left = {} /\ moves' = moves \ {m} /\ UNCHANGED place
                          \/ \E f \in left :
                                IF place[f] = m.of
                                THEN place' = [place EXCEPT ![f] = <<m.of, m.to>>] /\ UNCHANGED moves
                                ELSE moves' = moves \ {m} /\ UNCHANGED place
    /\ UNCHANGED <<reportTasks, stop, news, properties, duplicates, organizing, bar, inspected>>

-------------------------------------------------------------------------------
(* Answers. *)

TellsOf(a) == a.of = properties.of

(* Mutant: everything but the last is picked. *)
PreselectedLast(groups) == UNION {ToSet(g) \ {Last(g)} : g \in groups}
Preselected(groups) == UNION {ToSet(g) \ {Head(g)} : g \in groups}

(* set_results: what was selected before stays so. *)
ShowDuplicates(groups) ==
    /\ duplicates' = [duplicates EXCEPT !.groups = groups, !.ticked = Preselected(groups),
                        !.selected = @ \cup Preselected(groups), !.results = @ + 1]
    /\ inspected' = [inspected EXCEPT !.mixed = @ \/ duplicates.results > 0]

(* Mutant: what was selected before stays so here, too. *)
ShowOffersToo(offers) ==
    organizing' = [organizing EXCEPT !.offers = offers, !.ticked = DOMAIN offers,
                                     !.selected = @ \cup DOMAIN offers]
(* set_suggestions *)
ShowOffers(offers) ==
    organizing' = [organizing EXCEPT !.offers = offers, !.ticked = DOMAIN offers, !.selected = DOMAIN offers]

HandleReport ==
    /\ news # << >> /\ news' = Tail(news) /\ UNCHANGED <<place, reportTasks, stop, moves>>
    /\ LET report == Head(news)
       IN  CASE report.kind \in {"package", "locks", "unit"} ->
                  /\ properties' = IF TellsOf(report) THEN [properties EXCEPT !.rows[report.kind] = report.of] ELSE properties
                  /\ UNCHANGED <<duplicates, organizing, bar, inspected>>
             [] report.kind = "progress" ->
                  bar' = TRUE /\ UNCHANGED <<properties, duplicates, organizing, inspected>>
             [] report.kind = "usage" ->
                  /\ bar' = FALSE
                  /\ properties' = IF properties.of # Gone THEN [properties EXCEPT !.rows["usage"] = report.of]
                                   ELSE properties
                  /\ UNCHANGED <<duplicates, organizing, inspected>>
             [] report.kind = "no usage" ->
                  bar' = FALSE /\ UNCHANGED <<properties, duplicates, organizing, inspected>>
             [] report.kind = "duplicates" -> ShowDuplicates(report.what) /\ UNCHANGED <<properties, organizing, bar>>
             [] report.kind = "organize" -> ShowOffers(report.what) /\ UNCHANGED <<properties, duplicates, bar, inspected>>

-------------------------------------------------------------------------------
(* The tasks. *)

Unseen == UNCHANGED <<place, stop, properties, duplicates, organizing, moves, bar, inspected>>

(* A package manager, /proc, or a unit file is asked; that it fails is only logged. *)
Inspect(t) ==
    /\ t[2] \in {"package", "locks", "unit"} /\ At2(t, "begun") /\ ReportEnds(t)
    /\ UNCHANGED news \/ Send(t[2], reportTasks[t].of, {})
    /\ Unseen

StartWalk(t) ==
    /\ t[2] = "usage" /\ At2(t, "begun")
    /\ Turn(t, [reportTasks[t] EXCEPT !.pc = "walking", !.todo = [i \in 1..UsageEntries |-> i]])
    /\ UNCHANGED news /\ Unseen

(* Each entry is told of; another task makes events of what is told. *)
WalkOne(t) ==
    /\ t[2] = "usage" /\ At2(t, "walking") /\ ~stop.usage /\ reportTasks[t].todo # << >>
    /\ Turn(t, [reportTasks[t] EXCEPT !.todo = Tail(@), !.forward = @ + 1])
    /\ UNCHANGED news /\ Unseen

(* One that is told to stop answers at once, with its entries still on the way. *)
UsageCancelled(t) ==
    /\ t[2] = "usage" /\ At2(t, "walking") /\ stop.usage
    /\ Turn(t, [reportTasks[t] EXCEPT !.pc = "draining"])
    /\ Send("no usage", reportTasks[t].of, {}) /\ Unseen

UsageSummed(t) ==
    /\ t[2] = "usage" /\ At2(t, "walking") /\ reportTasks[t].todo = << >> /\ reportTasks[t].forward = 0
    /\ Turn(t, [reportTasks[t] EXCEPT !.pc = "draining"])
    /\ Send("usage", reportTasks[t].of, {}) /\ Unseen

ForwardOne(t) ==
    /\ t[2] = "usage" /\ reportTasks[t].forward > 0
    /\ Turn(t, [reportTasks[t] EXCEPT !.forward = @ - 1])
    /\ Send("progress", reportTasks[t].of, {}) /\ Unseen

Drained(t) ==
    /\ At2(t, "draining") /\ reportTasks[t].forward = 0 /\ ReportEnds(t) /\ UNCHANGED news /\ Unseen

(* walk_and_group_by_size: the files another has the size of. *)
Alike(files, f) == \E g \in ToSet(files) \ {f} : SizeOf[g] = SizeOf[f]
WalkFiles(t) ==
    /\ t[2] = "duplicates" /\ At2(t, "begun")
    /\ LET files == IF stop.duplicates THEN << >> ELSE FilesBelow(reportTasks[t].of)
       IN  Turn(t, [reportTasks[t] EXCEPT !.pc = "hashing", !.todo = SelectSeq(files, LAMBDA f : Alike(files, f))])
    /\ UNCHANGED news /\ Unseen

HashOne(t) ==
    /\ t[2] = "duplicates" /\ At2(t, "hashing") /\ ~stop.duplicates /\ reportTasks[t].todo # << >>
    /\ LET f == Head(reportTasks[t].todo)
       IN  Turn(t, [reportTasks[t] EXCEPT !.todo = Tail(@),
                      !.found = IF place[f] = Gone THEN @ ELSE @ \cup {f}])
    /\ UNCHANGED news /\ Unseen

(* One that was cancelled has found nothing. *)
Hashed(t) ==
    /\ t[2] = "duplicates" /\ At2(t, "hashing")
    /\ \/ reportTasks[t].todo = << >> /\ LET found(c) == SelectSeq(Listed, LAMBDA f : f \in reportTasks[t].found /\ ContentOf[f] = c)
                                   IN  Send("duplicates", reportTasks[t].of,
                                            {g \in {found(ContentOf[f]) : f \in reportTasks[t].found} : Len(g) > 1})
       \/ stop.duplicates /\ reportTasks[t].todo # << >> /\ Send("duplicates", reportTasks[t].of, {})
    /\ ReportEnds(t) /\ Unseen

(* OrganizationAnalyzer::analyze, of what is listed in the folder itself. *)
Analyze(t) ==
    /\ t[2] = "organize" /\ At2(t, "begun") /\ ReportEnds(t)
    /\ LET d == reportTasks[t].of
           offers == {[of |-> d, to |-> g.to, files |-> {f \in g.files : place[f] = d}] : g \in Groupings}
       IN  \/ Send("organize", d, SetToSeq({o \in offers : Cardinality(o.files) >= MinGroup}))
           \/ UNCHANGED news
    /\ Unseen

ReportStep(t) ==
    \/ Inspect(t) \/ StartWalk(t) \/ WalkOne(t) \/ UsageCancelled(t) \/ UsageSummed(t) \/ ForwardOne(t)
    \/ Drained(t) \/ WalkFiles(t) \/ HashOne(t) \/ Hashed(t) \/ Analyze(t)

ReportNext ==
    \/ \E x \in InspectedFiles \cup Folders : OpenProperties(x)
    \/ \E d \in inspected.things \cap Folders : OpenDuplicates(d) \/ OpenOrganize(d)
    \/ CloseReport \/ CancelUsage \/ CancelScan \/ TrashSelected \/ ApplySelected \/ HandleReport
    \/ \E f \in InspectedFiles : TickDuplicate(f)
    \/ \E i \in DOMAIN organizing.offers : TickOffer(i)
    \/ \E m \in moves : MoveOne(m)
    \/ \E t \in DOMAIN reportTasks : ReportStep(t)

ReportSpec == ReportInit /\ [][ReportNext]_reportVars

-------------------------------------------------------------------------------
(* duplicate_dialog.rs: what Move to Trash will take is what has a tick, and of each group the
   first has none unless its user gave it one; and what Apply Selected will move is what has
   one, of the list that is shown; but for a dialog of duplicates that was given the results of
   two scans. *)
SelectedIsTicked ==
    /\ ~inspected.mixed => duplicates.selected = duplicates.ticked
    /\ organizing.selected = organizing.ticked /\ organizing.ticked \subseteq DOMAIN organizing.offers

(* duplicate_dialog.rs:242 "Pre-select all except the first (keep first)": one that does not
   touch the ticks has one copy left of each content shown. *)
OneCopyIsKept ==
    [][~inspected.mixed /\ duplicates.open /\ duplicates.ticked = Preselected(duplicates.groups) =>
         \A g \in duplicates.groups :
            place'[Head(g)] = Gone => place[Head(g)] = Gone]_reportVars

(* The same of all that Move to Trash takes: it is ticked, in the list shown. *)
OnlyTickedIsTrashed ==
    [][\A f \in InspectedFiles : place[f] # Gone /\ place'[f] = Gone => f \in duplicates.ticked]_reportVars

(* window.rs: the status bar says that something is calculated only while something is, if
   nothing was cancelled. *)
BarEndsWithWork ==
    bar /\ ~inspected.cancelled => news # << >> \/ \E t \in DOMAIN reportTasks : t[2] = "usage" /\ Awake(t)

(* What a dialog acts on, and the status bar tells of, is what is; and one copy is kept. *)
DialogsAreTrue == [](SelectedIsTicked /\ BarEndsWithWork) /\ OneCopyIsKept
===============================================================================
