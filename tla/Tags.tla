---------------------------------- MODULE Tags ----------------------------------
(***************************************************************************)
(* Tags: tags.toml, the TagEngine that every window of the program (a    *)
(* process) makes of it when it starts, the Tag menu, and the counts in  *)
(* the sidebar.                                                          *)
(*                                                                       *)
(* The command loop applies and saves what is tagged by hand itself;     *)
(* counts are made by tasks, which wait for the engine's lock and answer *)
(* in any order. The menu reads the file, not the engine. A save writes  *)
(* the whole database over the file, which is empty meanwhile, and an    *)
(* empty file is a database with no rules.                               *)
(***************************************************************************)
EXTENDS Naturals, Sequences, SequencesExt, FiniteSets

CONSTANTS
    TagWindows,     \* processes
    Rows,           \* Rows[d]: the files of a folder, in the order they are shown
    Home,           \* the folder a window opens with
    RuleNames,      \* the tags that have a rule
    MatchedBy,        \* MatchedBy[r]: the files the rules of a tag match
    TagScenes       \* windows in use, what is done, and how often (left)

ASSUME TagAssumption ==
    /\ Home \in DOMAIN Rows /\ \A d \in DOMAIN Rows : Rows[d] \in Seq(ToSet(Rows[d]))
    /\ \A s \in TagScenes : s.windows \subseteq TagWindows /\ s.left \in Nat

VARIABLES
    tagsFile,       \* tags.toml: NoTags, or a database
    tagWin,         \* tagWin[w]: whether it runs, its engine's database, commands, whether it is
                    \* saving, the tasks that count, answers, the current_path of its two panes,
                    \* the folder whose rows each shows, the active one, selection, menu, counts
                    \* in the sidebar, counts asked for so far
    tagging         \* the scene; wanted: what users made of the tags; hurried: one went on
                    \* before another folder was listed; overtaken: counts of a pane came in
                    \* another order than asked; shared: two windows ran at once; cut: a save
                    \* failed or ended halfway, or was read so; dropped: a window ended with
                    \* commands to run (history)

tagVars == <<tagsFile, tagWin, tagging>>

TagFolders == DOMAIN Rows
TaggedFiles == UNION {ToSet(Rows[d]) : d \in TagFolders}
Sides == {1, 2}
NoTags == [is |-> "no file"]
Untagged == [f \in TaggedFiles |-> {}]
DefaultTags == [is |-> "tags", rules |-> RuleNames, manual |-> Untagged]
EmptyTags == [is |-> "tags", rules |-> {}, manual |-> Untagged]
NoMenu == [open |-> FALSE, all |-> {}, current |-> {}]
Closed == [on |-> FALSE, db |-> EmptyTags, commands |-> << >>, saving |-> FALSE, counting |-> {},
           answers |-> << >>, path |-> [p \in Sides |-> Home], rows |-> [p \in Sides |-> Home],
           active |-> 1, selected |-> {}, menu |-> NoMenu,
           counts |-> [t \in RuleNames |-> 0], asked |-> 0]

(* load_or_default *)
LoadedTags(file) == IF file.is = "no file" THEN DefaultTags ELSE file
TagsForEntry(db, f) == {r \in db.rules : f \in MatchedBy[r]} \cup db.manual[f]
TagCounts(db, d) ==
    [t \in RuleNames |-> Cardinality({f \in ToSet(Rows[d]) : t \in TagsForEntry(db, f)})]
AddManual(db, f, t) == [db EXCEPT !.manual[f] = @ \cup {t}]
RemoveManual(db, f, t) == [db EXCEPT !.manual[f] = @ \ {t}]

TagInit ==
    /\ tagging \in {[windows |-> s.windows, does |-> s.does, left |-> s.left, wanted |-> Untagged,
                     hurried |-> FALSE, overtaken |-> FALSE, shared |-> FALSE, cut |-> FALSE,
                     dropped |-> FALSE] : s \in TagScenes}
    /\ tagsFile = NoTags /\ tagWin = [w \in TagWindows |-> Closed]

-------------------------------------------------------------------------------
(* What is asked for: a count for a pane, or its listing with the counts of it. *)

Ask(state, kind, p, d) ==
    [state EXCEPT !.asked = @ + 1,
        !.commands = Append(@, [kind |-> kind, pane |-> p, path |-> d, n |-> state.asked + 1])]
Outstanding(state) ==
    {c \in ToSet(state.commands) : c.kind \in {"count", "list"}}
        \cup state.counting \cup ToSet(state.answers)
Unlisted(w, p) ==
    \E c \in Outstanding(tagWin[w]) : c.kind = "list" /\ c.pane = p /\ c.path # tagWin[w].path[p]
Does(w, what) ==
    /\ tagWin[w].on /\ ~tagWin[w].menu.open /\ what \in tagging.does /\ tagging.left > 0
    /\ tagging' = [tagging EXCEPT !.left = @ - 1,
                                  !.hurried = @ \/ Unlisted(w, tagWin[w].active)]
    /\ UNCHANGED tagsFile
PutTags(w, state) == tagWin' = [tagWin EXCEPT ![w] = state]

-------------------------------------------------------------------------------
(* The window. *)

LaunchTags(w) ==
    /\ ~tagWin[w].on /\ w \in tagging.windows /\ tagging.left > 0
    /\ PutTags(w, Ask([Closed EXCEPT !.on = TRUE, !.db = LoadedTags(tagsFile)], "list", 1, Home))
    /\ tagging' = [tagging EXCEPT !.left = @ - 1,
                      !.shared = @ \/ \E v \in TagWindows : tagWin[v].on,
                      !.cut = @ \/ \E v \in TagWindows : tagWin[v].saving]
    /\ UNCHANGED tagsFile

(* A window ends; one that ends in a save leaves the file empty. *)
QuitTags(w) ==
    /\ tagWin[w].on /\ "quit" \in tagging.does /\ PutTags(w, Closed)
    /\ tagging' = [tagging EXCEPT !.cut = @ \/ tagWin[w].saving,
                                  !.dropped = @ \/ tagWin[w].commands # << >>]
    /\ UNCHANGED tagsFile

(* A folder that is opened is current at once, one that is gone to when it is listed. *)
Go(w, d) ==
    LET p == tagWin[w].active
    IN  /\ Does(w, "go") /\ d # tagWin[w].path[p]
        /\ \/ PutTags(w, Ask([tagWin[w] EXCEPT !.path[p] = d], "list", p, d))
           \/ PutTags(w, Ask(tagWin[w], "list", p, d))

(* set_active_side *)
SetActiveSide(w) ==
    LET p == 3 - tagWin[w].active
        state == [tagWin[w] EXCEPT !.active = p, !.selected = {}]
    IN  Does(w, "switch") /\ PutTags(w, Ask(state, "count", p, state.path[p]))

(* get_primary_selected_entry: the first of the rows that is selected. *)
FirstRow(rows, selection) == rows[SelectInSeq(rows, LAMBDA f : f \in selection)]

(* A right click on selected rows: load_tag_menu_data makes an engine of the file as it is, for
   the first row of them. *)
OpenTagMenu(w, selection) ==
    LET rows == Rows[tagWin[w].rows[tagWin[w].active]]
        engine == LoadedTags(tagsFile)
        current == TagsForEntry(engine, FirstRow(rows, selection))
    IN  /\ selection # {} /\ selection \subseteq ToSet(rows) /\ Does(w, "tag")
        /\ PutTags(w, [tagWin[w] EXCEPT !.selected = selection,
                      !.menu = [open |-> TRUE, all |-> engine.rules \cup current,
                                current |-> current]])

CloseTagMenu(w) ==
    /\ tagWin[w].menu.open /\ PutTags(w, [tagWin[w] EXCEPT !.menu = NoMenu])
    /\ UNCHANGED <<tagsFile, tagging>>

(* Mutant: the recount is asked for first. *)
RecountFirst(state, edits) ==
    LET p == state.active IN [Ask(state, "count", p, state.path[p]) EXCEPT !.commands = @ \o edits]
(* file.toggle-tag: the tag of each selected file, then a recount. *)
ThenRecount(state, edits) ==
    LET p == state.active IN Ask([state EXCEPT !.commands = @ \o edits], "count", p, state.path[p])

(* A tag that the first file has is taken from all, else given to all; with nothing selected
   any more, nothing is done. *)
ToggleTag(w, t) ==
    LET state == [tagWin[w] EXCEPT !.menu = NoMenu]
        remove == t \in tagWin[w].menu.current
        edits == [i \in 1..Cardinality(state.selected) |->
                    [kind |-> IF remove THEN "remove" ELSE "add",
                     path |-> SetToSeq(state.selected)[i], tag |-> t]]
    IN  /\ tagWin[w].menu.open /\ t \in tagWin[w].menu.all
        /\ PutTags(w, IF state.selected = {} THEN state ELSE ThenRecount(state, edits))
        /\ tagging' = [tagging EXCEPT
                          !.wanted = [f \in TaggedFiles |-> IF f \notin state.selected THEN @[f]
                                        ELSE IF remove THEN @[f] \ {t} ELSE @[f] \cup {t}],
                          !.hurried = @ \/ Unlisted(w, state.active)]
        /\ UNCHANGED tagsFile

(* DirectoryLoaded, whose rows are new, and TagCountsUpdated. *)
HandleTagAnswer(w) ==
    /\ tagWin[w].answers # << >>
    /\ LET answer == Head(tagWin[w].answers)
           state == [tagWin[w] EXCEPT !.answers = Tail(@)]
       IN  IF answer.kind = "list"
           THEN PutTags(w, [state EXCEPT !.path[answer.pane] = answer.path,
                                         !.rows[answer.pane] = answer.path,
                                         !.selected = IF answer.pane = state.active THEN {} ELSE @])
           ELSE PutTags(w, [state EXCEPT !.counts = IF answer.pane = state.active
                                                         THEN answer.counts ELSE @])
    /\ UNCHANGED <<tagsFile, tagging>>

-------------------------------------------------------------------------------
(* The command loop and its tasks. *)

(* What is tagged by hand is applied and saved here; a save that cannot begin is only logged. *)
TakeTagCommand(w) ==
    /\ tagWin[w].commands # << >> /\ ~tagWin[w].saving
    /\ LET c == Head(tagWin[w].commands)
           state == [tagWin[w] EXCEPT !.commands = Tail(@)]
       IN  IF c.kind \in {"add", "remove"}
           THEN \E begun \in {TRUE} \cup {b \in {FALSE} : "fail" \in tagging.does} :
                   /\ PutTags(w, [state EXCEPT !.saving = begun,
                                 !.db = IF c.kind = "add" THEN AddManual(@, c.path, c.tag)
                                                          ELSE RemoveManual(@, c.path, c.tag)])
                   /\ tagsFile' = IF begun THEN EmptyTags ELSE tagsFile
                   /\ tagging' = [tagging EXCEPT !.cut = @ \/ ~begun]
           ELSE /\ PutTags(w, [state EXCEPT !.counting = @ \cup {[kind |-> c.kind, pane |-> c.pane,
                                 path |-> c.path, n |-> c.n, counted |-> FALSE,
                                 counts |-> state.counts]}])
                /\ UNCHANGED <<tagsFile, tagging>>

SaveTagsEnds(w) ==
    /\ tagWin[w].saving /\ PutTags(w, [tagWin[w] EXCEPT !.saving = FALSE])
    /\ tagsFile' = tagWin[w].db /\ UNCHANGED tagging

(* A save that fails once it has begun is only logged, too. *)
SaveTagsFails(w) ==
    /\ tagWin[w].saving /\ "fail" \in tagging.does
    /\ PutTags(w, [tagWin[w] EXCEPT !.saving = FALSE])
    /\ tagging' = [tagging EXCEPT !.cut = TRUE] /\ UNCHANGED tagsFile

(* The lock is held while the loop saves. *)
CountTags(w, c) ==
    /\ c \in tagWin[w].counting /\ ~c.counted /\ ~tagWin[w].saving
    /\ PutTags(w, [tagWin[w] EXCEPT !.counting = (@ \ {c}) \cup
                 {[c EXCEPT !.counted = TRUE, !.counts = TagCounts(tagWin[w].db, c.path)]}])
    /\ UNCHANGED <<tagsFile, tagging>>

TellCounts(w, c) ==
    /\ c \in tagWin[w].counting /\ c.counted
    /\ PutTags(w, [tagWin[w] EXCEPT !.counting = @ \ {c},
                 !.answers = @ \o (IF c.kind = "list" THEN <<c>> ELSE << >>)
                               \o <<[c EXCEPT !.kind = "count"]>>])
    /\ tagging' = [tagging EXCEPT
                      !.overtaken = @ \/ \E e \in tagWin[w].counting : e.pane = c.pane /\ e.n < c.n]
    /\ UNCHANGED tagsFile

TagNext ==
    \E w \in TagWindows :
        \/ LaunchTags(w) \/ QuitTags(w) \/ SetActiveSide(w) \/ CloseTagMenu(w) \/ HandleTagAnswer(w)
        \/ TakeTagCommand(w) \/ SaveTagsEnds(w) \/ SaveTagsFails(w)
        \/ \E d \in TagFolders : Go(w, d)
        \/ \E selection \in SUBSET TaggedFiles : OpenTagMenu(w, selection)
        \/ \E t \in RuleNames : ToggleTag(w, t)
        \/ \E c \in tagWin[w].counting : CountTags(w, c) \/ TellCounts(w, c)

TagSpec == TagInit /\ [][TagNext]_tagVars

-------------------------------------------------------------------------------
Idle(w) == tagWin[w].commands = << >> /\ ~tagWin[w].saving

(* tag_engine.rs:190 and main.rs:1675: what users of one window after another tagged by hand is
   on file, and in the engine of the window that runs, once its commands have run; and the
   rules are never lost; unless a save was cut short or read halfway. *)
TagsOutliveWindows ==
    /\ ~tagging.cut /\ ~tagging.dropped /\ ~tagging.shared /\ (\A w \in TagWindows : Idle(w)) =>
         /\ tagsFile = NoTags => tagging.wanted = Untagged
         /\ tagsFile # NoTags => tagsFile = [DefaultTags EXCEPT !.manual = tagging.wanted]
         /\ \A w \in TagWindows : tagWin[w].on => tagWin[w].db.manual = tagging.wanted
    /\ ~tagging.cut => \A w \in TagWindows : tagWin[w].on => tagWin[w].db.rules = RuleNames

(* main.rs:1676 "so a RefreshTagCounts queued right behind this command observes the new tag":
   the sidebar counts the tags of the files of the active pane's folder as they are, once all
   is answered; for users who tag no file of a folder that is being left, and unless counts of
   one pane overtake each other. *)
CountsAreOfActivePane ==
    \A w \in TagWindows :
        tagWin[w].on /\ Idle(w) /\ Outstanding(tagWin[w]) = {}
            /\ ~tagging.hurried /\ ~tagging.overtaken
            => tagWin[w].counts = TagCounts(tagWin[w].db, tagWin[w].path[tagWin[w].active])

(* Tags by hand last, and are counted. *)
TagsAreKept == TagsOutliveWindows /\ CountsAreOfActivePane
=================================================================================
