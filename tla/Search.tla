------------------------------- MODULE Search -------------------------------
(***************************************************************************)
(* Recursive search: a thread walks the tree and puts what it finds in a *)
(* bounded channel; a task of the backend counts it and passes it on;    *)
(* the window appends it to the pane that is active when it arrives.     *)
(*                                                                       *)
(* A search is by name, by name and then narrowed ("smart"), or by the   *)
(* contents of files.  The command loop is prompt here: a command is     *)
(* handled when it is sent.  What is searched does not change meanwhile. *)
(* Cancel, Reset and Drop are the crate's; the program calls none of     *)
(* them.                                                                 *)
(***************************************************************************)
EXTENDS Naturals, Sequences, FiniteSets, SequencesExt

CONSTANTS
    SearchPanes,        \* panes shown
    SearchFolders,      \* folders to search and list
    Walk,               \* Walk[f]: what a walk of f yields, in its order
    Matching,           \* names that match
    Kept,               \* entries that meet the other criteria of a smart search
    Lines,              \* Lines[e]: how many lines of e match, 0 if it cannot be read
    Capacity,           \* bound of the channel, 256
    Unlimited,
    SearchHome,         \* the folder that panes start in
    Searchers           \* what each user does, see UserSet

WantNames == {"open", "filter", "dismiss", "switch", "bad", "cancel", "reset", "drop"}

Limits == Nat \cup {Unlimited}

(* The kinds of search a user asks for and how many, with what max_results (max_line_matches)
   and max_file_matches; what else the user does, and how often. *)
UserSet == [modes: SUBSET {"names", "smart", "content"}, searches: Nat, hits: Limits, files: Limits,
            does: SUBSET WantNames, left: Nat]

ASSUME SearchAssumption == Capacity \in Nat \ {0} /\ SearchHome \in SearchFolders /\ Searchers \subseteq UserSet

VARIABLES
    searches,         \* the searches begun: walker, channel and task of each
    cancelled,        \* the flag shared by the searches of one searcher
    searchEvents,     \* to the window
    searchLoads,      \* folders being listed: <<pane, folder>>
    path,             \* path[p]: the folder of pane p
    found,            \* found[p]: the results among the rows of p, <<search, hit>>
    narrowed,         \* narrowed[p]: a filter is applied
    activePane,       \* the active pane
    revealed,         \* the search bar is shown
    searcher          \* what the user does, and how often yet

vars == <<searches, cancelled, searchEvents, searchLoads, path, found, narrowed,
          activePane, revealed, searcher>>

SearchInit ==
    /\ searches = << >> /\ cancelled = FALSE /\ searchEvents = << >> /\ searchLoads = << >>
    /\ path = [p \in SearchPanes |-> SearchHome] /\ found = [p \in SearchPanes |-> << >>]
    /\ narrowed = [p \in SearchPanes |-> FALSE] /\ activePane \in SearchPanes
    /\ revealed = TRUE /\ searcher \in Searchers

Wants(name) ==
    name \in searcher.does /\ searcher.left > 0 /\ searcher' = [searcher EXCEPT !.left = @ - 1]

Content(s) == s.mode = "content"

(* What looking at e finds, in order. *)
Hits(mode, e) ==
    IF mode = "content" THEN [i \in 1..Lines[e] |-> <<e, i>>]
    ELSE IF e \in Matching THEN << <<e, 1>> >>
    ELSE << >>

(* A count that has got to its limit. It is looked at after counting. *)
Reached(n, max) == max # Unlimited /\ n >= max

-------------------------------------------------------------------------------
(* The walker: run_search and run_content_search. *)

Ended(s) == [s EXCEPT !.walking = FALSE, !.hand = << >>, !.sending = << >>]

(* The next entry. Its hits are all found before the first is sent. *)
Step(i) ==
    LET s == searches[i] IN
    /\ s.walking /\ s.hand = << >> /\ s.sending = << >>
    /\ searches' = [searches EXCEPT ![i] =
          IF cancelled \/ s.at = Len(Walk[s.root]) \/ (Content(s) /\ Reached(s.files, searcher.files) /\ s.files > 0)
          THEN Ended(s)
          ELSE LET hits == Hits(s.mode, Walk[s.root][s.at + 1]) IN
               [s EXCEPT !.at = @ + 1, !.hand = hits, !.files = IF hits = << >> THEN @ ELSE @ + 1]]
    /\ UNCHANGED <<cancelled, searchEvents, searchLoads, path, found, narrowed, activePane,
                   revealed, searcher>>

(* Mutant of NextHit: the flag is not looked at between the hits of a file. *)
NextHitDeaf(i) ==
    LET s == searches[i] IN
    /\ s.walking /\ s.hand # << >> /\ s.sending = << >>
    /\ searches' = [searches EXCEPT ![i].hand = Tail(@), ![i].sending = <<Head(s.hand)>>]
    /\ UNCHANGED <<cancelled, searchEvents, searchLoads, path, found, narrowed, activePane,
                   revealed, searcher>>

(* Between the hits of a file the flag is looked at, after a name it is not. *)
NextHit(i) ==
    LET s == searches[i] IN
    /\ s.walking /\ s.hand # << >> /\ s.sending = << >>
    /\ searches' = [searches EXCEPT ![i] =
          IF Content(s) /\ cancelled THEN Ended(s)
          ELSE [s EXCEPT !.hand = Tail(@), !.sending = <<Head(s.hand)>>]]
    /\ UNCHANGED <<cancelled, searchEvents, searchLoads, path, found, narrowed, activePane,
                   revealed, searcher>>

(* Mutant of SendHit: that nobody receives is not noticed. *)
SendHitDeaf(i) ==
    LET s == searches[i] IN
    /\ s.sending # << >> /\ Len(s.chan) < Capacity
    /\ searches' = [searches EXCEPT ![i] =
          LET t == [s EXCEPT !.chan = @ \o s.sending, !.sending = << >>, !.sent = @ + 1,
                             !.late = IF s.void THEN @ + 1 ELSE @] IN
          IF Reached(t.sent, searcher.hits) THEN Ended(t) ELSE t]
    /\ UNCHANGED <<cancelled, searchEvents, searchLoads, path, found, narrowed, activePane,
                   revealed, searcher>>

(* blocking_send waits for room, and fails once there is nobody to receive. *)
SendHit(i) ==
    LET s == searches[i] IN
    /\ s.sending # << >> /\ (s.task = "dropped" \/ Len(s.chan) < Capacity)
    /\ searches' = [searches EXCEPT ![i] =
          IF s.task = "dropped" THEN Ended(s)
          ELSE LET t == [s EXCEPT !.chan = @ \o s.sending, !.sending = << >>, !.sent = @ + 1,
                                  !.late = IF s.void THEN @ + 1 ELSE @] IN
               IF Reached(t.sent, searcher.hits) THEN Ended(t) ELSE t]
    /\ UNCHANGED <<cancelled, searchEvents, searchLoads, path, found, narrowed, activePane,
                   revealed, searcher>>

-------------------------------------------------------------------------------
(* The task. *)

Passes(s, hit) == s.mode # "smart" \/ hit[1] \in Kept

ReceiveResult(i) ==
    LET s == searches[i]
        passes == Passes(s, Head(s.chan)) IN
    /\ s.task = "open" /\ s.chan # << >>
    /\ searches' = [searches EXCEPT ![i].chan = Tail(@), ![i].count = IF passes THEN @ + 1 ELSE @]
    /\ searchEvents' = IF passes THEN Append(searchEvents, [kind |-> "result", search |-> i, hit |-> Head(s.chan)])
                 ELSE searchEvents
    /\ UNCHANGED <<cancelled, searchLoads, path, found, narrowed, activePane, revealed, searcher>>

(* The channel closes when the walker is gone and it is empty. *)
Complete(i) ==
    LET s == searches[i] IN
    /\ s.task = "open" /\ ~s.walking /\ s.chan = << >>
    /\ searches' = [searches EXCEPT ![i].task = "done"]
    /\ searchEvents' = Append(searchEvents, [kind |-> "completed", search |-> i, total |-> s.count])
    /\ UNCHANGED <<cancelled, searchLoads, path, found, narrowed, activePane, revealed, searcher>>

-------------------------------------------------------------------------------
(* Who asks. *)

(* Enter in the search bar, or another program: the folder is that of the active pane.
   Cancelling a search asked for before is not part of it. *)
Search ==
    /\ revealed /\ Len(searches) < searcher.searches
    /\ \E mode \in searcher.modes :
          searches' = Append(searches,
              [mode |-> mode, root |-> path[activePane], at |-> 0, hand |-> << >>, sending |-> << >>,
               sent |-> 0, files |-> 0, walking |-> TRUE, chan |-> << >>, count |-> 0,
               task |-> "open", late |-> 0, void |-> cancelled])
    /\ UNCHANGED <<cancelled, searchEvents, searchLoads, path, found, narrowed, activePane,
                   revealed, searcher>>

(* A pattern that cannot be read: the search does not begin. *)
SearchBad ==
    /\ revealed /\ Wants("bad")
    /\ searchEvents' = Append(searchEvents, [kind |-> "error"])
    /\ UNCHANGED <<searches, cancelled, searchLoads, path, found, narrowed, activePane, revealed>>

SetFilter(p, on) == searchEvents' = Append(searchEvents, [kind |-> "filter", pane |-> p, on |-> on])

Filter ==
    /\ revealed /\ Wants("filter") /\ SetFilter(activePane, TRUE)
    /\ UNCHANGED <<searches, cancelled, searchLoads, path, found, narrowed, activePane, revealed>>

(* The close button, Escape, the shortcut. The shortcut shows it again. *)
Dismiss ==
    /\ revealed /\ Wants("dismiss") /\ revealed' = FALSE /\ SetFilter(activePane, FALSE)
    /\ UNCHANGED <<searches, cancelled, searchLoads, path, found, narrowed, activePane>>

Show ==
    /\ ~revealed /\ Wants("dismiss") /\ revealed' = TRUE
    /\ UNCHANGED <<searches, cancelled, searchEvents, searchLoads, path, found, narrowed, activePane>>

Switch ==
    /\ Wants("switch") /\ activePane' \in SearchPanes \ {activePane}
    /\ UNCHANGED <<searches, cancelled, searchEvents, searchLoads, path, found, narrowed, revealed>>

GoElsewhere ==
    /\ Wants("open")
    /\ \E f \in SearchFolders : /\ path' = [path EXCEPT ![activePane] = f]
                          /\ searchLoads' = Append(searchLoads, <<activePane, f>>)
    /\ UNCHANGED <<searches, cancelled, searchEvents, found, narrowed, activePane, revealed>>

List(k) ==
    /\ searchLoads' = RemoveAt(searchLoads, k)
    /\ searchEvents' = Append(searchEvents, [kind |-> "loaded", pane |-> searchLoads[k][1], folder |-> searchLoads[k][2]])
    /\ UNCHANGED <<searches, cancelled, path, found, narrowed, activePane, revealed, searcher>>

Cancel ==
    /\ Wants("cancel") /\ cancelled' = TRUE
    /\ searches' = [i \in DOMAIN searches |-> [searches[i] EXCEPT !.void = TRUE]]
    /\ UNCHANGED <<searchEvents, searchLoads, path, found, narrowed, activePane, revealed>>

Reset ==
    /\ Wants("reset") /\ cancelled' = FALSE
    /\ UNCHANGED <<searches, searchEvents, searchLoads, path, found, narrowed, activePane, revealed>>

(* The receiver is dropped before all has been received. *)
Drop(i) ==
    /\ Wants("drop") /\ searches[i].task = "open"
    /\ searches' = [searches EXCEPT ![i].task = "dropped", ![i].chan = << >>]
    /\ UNCHANGED <<cancelled, searchEvents, searchLoads, path, found, narrowed, activePane, revealed>>

-------------------------------------------------------------------------------
(* The window. *)

(* A result is a row more in the active pane; a filter or a listing sets the rows anew. A
   listing also empties the query and the filter. *)
Handle ==
    /\ searchEvents # << >> /\ searchEvents' = Tail(searchEvents)
    /\ LET e == Head(searchEvents) IN
       /\ found' = IF e.kind = "result" THEN [found EXCEPT ![activePane] = Append(@, <<e.search, e.hit>>)]
                   ELSE IF e.kind \in {"filter", "loaded"} THEN [found EXCEPT ![e.pane] = << >>]
                   ELSE found
       /\ narrowed' = IF e.kind = "filter" THEN [narrowed EXCEPT ![e.pane] = e.on]
                      ELSE IF e.kind = "loaded" THEN [narrowed EXCEPT ![e.pane] = FALSE]
                      ELSE narrowed
       /\ path' = IF e.kind = "loaded" THEN [path EXCEPT ![e.pane] = e.folder] ELSE path
    /\ UNCHANGED <<searches, cancelled, searchLoads, activePane, revealed, searcher>>

Running(i) == Step(i) \/ NextHit(i) \/ SendHit(i) \/ ReceiveResult(i) \/ Complete(i)

SearchNext ==
    \/ Search \/ SearchBad \/ Filter \/ Dismiss \/ Show \/ Switch \/ GoElsewhere \/ Cancel \/ Reset
    \/ \E i \in DOMAIN searches : Running(i) \/ Drop(i)
    \/ \E k \in DOMAIN searchLoads : List(k)
    \/ Handle

SearchSpec == SearchInit /\ [][SearchNext]_vars

SearchIds == UNION {1 .. u.searches : u \in Searchers}

(* Walkers have threads of their own, and the runtime and the main loop come round; what is
   asked need not be. *)
SearchFairSpec ==
    /\ SearchSpec /\ WF_vars(Handle)
    /\ \A i \in SearchIds : /\ WF_vars(i \in DOMAIN searches /\ (Step(i) \/ NextHit(i) \/ SendHit(i)))
                            /\ WF_vars(i \in DOMAIN searches /\ (ReceiveResult(i) \/ Complete(i)))

-------------------------------------------------------------------------------
HitSet == (UNION {ToSet(Walk[f]) : f \in SearchFolders}) \X Nat

SearchState ==
    [mode: searcher.modes, root: SearchFolders, at: Nat, hand: Seq(HitSet), sending: Seq(HitSet), sent: Nat,
                files: Nat, walking: BOOLEAN, chan: Seq(HitSet), count: Nat,
                task: {"open", "done", "dropped"}, late: Nat, void: BOOLEAN]

(* Types, the channel keeps its bound, and what is in hand is in the hands of a walker that
   walks. *)
SearchTypeOK ==
    /\ searches \in Seq(SearchState) /\ Len(searches) <= searcher.searches
    /\ \A i \in DOMAIN searches :
          LET s == searches[i] IN
          /\ Len(s.chan) <= Capacity /\ s.at <= Len(Walk[s.root])
          /\ Len(s.sending) <= 1 /\ ((s.hand # << >> \/ s.sending # << >>) => s.walking)
    /\ \A k \in DOMAIN searchEvents : searchEvents[k].kind \in {"result", "completed", "error", "filter", "loaded"}
    /\ path \in [SearchPanes -> SearchFolders] /\ narrowed \in [SearchPanes -> BOOLEAN]
    /\ activePane \in SearchPanes
    /\ searchLoads \in Seq(SearchPanes \X SearchFolders) /\ cancelled \in BOOLEAN
    /\ revealed \in BOOLEAN /\ searcher \in UserSet

(* All there is to find, and the part of it that the limits leave: the first so many hits, of
   the first so many files that have some. *)
All(mode, f) == FlattenSeq([k \in DOMAIN Walk[f] |-> Hits(mode, Walk[f][k])])

FilesUpTo(hits, k) == Cardinality({hits[n][1] : n \in 1..k})

Answer(mode, f) ==
    LET all == All(mode, f)
        Fits(k) == /\ searcher.hits = Unlimited \/ k <= searcher.hits
                   /\ mode # "content" \/ searcher.files = Unlimited \/ FilesUpTo(all, k) <= searcher.files
        limited == {k \in 0..Len(all) : Fits(k)}
        Meets(hit) == mode # "smart" \/ hit[1] \in Kept
    IN SelectSeq(SubSeq(all, 1, CHOOSE k \in limited : \A n \in limited : n <= k), Meets)

Results(i) ==
    LET OfSearch(e) == e.kind = "result" /\ e.search = i
        Shown(row) == row[1] = i
        rows == SelectSeq(found[activePane], Shown)
        coming == SelectSeq(searchEvents, OfSearch)
    IN [k \in DOMAIN rows |-> rows[k][2]] \o [k \in DOMAIN coming |-> coming[k].hit]

(* The results go to one pane, and nothing else sets its rows. *)
Undisturbed == searcher.does \cap {"open", "filter", "dismiss", "switch"} = {}

(* Where nothing else sets the rows of the pane, each of several searches lists what it has
   found once, in the order of the walk, and once it says it is complete, the whole answer,
   that many and no more. *)
FoundOnceInOrder ==
    Undisturbed => \A i \in DOMAIN searches :
        LET s == searches[i]
            answer == Answer(s.mode, s.root)
        IN /\ s.count <= Len(answer) /\ Results(i) = SubSeq(answer, 1, s.count)
           /\ s.task = "done" /\ ~s.void => s.count = Len(answer)

(* Completion is announced after every result, with their number. *)
CompletedIsLast ==
    Undisturbed => \A k \in DOMAIN searchEvents :
        searchEvents[k].kind = "completed" =>
            /\ searchEvents[k].total = Len(Results(searchEvents[k].search))
            /\ \A n \in k + 1 .. Len(searchEvents) :
                  ~(searchEvents[n].kind \in {"result", "completed"} /\ searchEvents[n].search = searchEvents[k].search)

(* No search sends more than it is limited to, if that is one or more: the limit is looked at
   when a hit has been sent. *)
LimitsHold ==
    searcher.hits # 0 => \A i \in DOMAIN searches :
        LET s == searches[i] IN
        /\ searcher.hits = Unlimited \/ s.sent <= searcher.hits
        /\ Content(s) => \/ searcher.files = Unlimited
                         \/ FilesUpTo(All(s.mode, s.root), s.sent) <= searcher.files

(* A search that is in progress when it is cancelled sends at most the hit it has in hand, if
   the flag is not reset for another search. *)
CancelEnds == "reset" \notin searcher.does => \A i \in DOMAIN searches : searches[i].late <= 1

(* Nothing is sent beyond a limit, or after a cancel. *)
NoMoreThanAsked == SearchTypeOK /\ LimitsHold /\ CancelEnds

(* A pane lists what a search has found in the order of the walk, and nothing twice, also when
   panes are switched and set anew meanwhile. *)
ShownInOrder ==
    \A p \in SearchPanes : \A n \in DOMAIN found[p] : \A k \in 1 .. n - 1 :
        found[p][k][1] = found[p][n][1] =>
            LET s == searches[found[p][n][1]]
                answer == Answer(s.mode, s.root)
            IN \E x \in DOMAIN answer, y \in DOMAIN answer :
                  x < y /\ answer[x] = found[p][k][2] /\ answer[y] = found[p][n][2]

(* What was found is shown once, in order, and before the search says that it is complete. *)
ResultsInOrder == FoundOnceInOrder /\ CompletedIsLast /\ ShownInOrder

Quiet ==
    searchEvents = << >> /\ searchLoads = << >> /\ \A i \in DOMAIN searches : searches[i].task = "done"

(* When the bar has been dismissed by a user who keeps to one pane, and all is done, no filter
   is left. *)
DismissedIsUnfiltered ==
    ~revealed /\ Quiet /\ "switch" \notin searcher.does => \A p \in SearchPanes : ~narrowed[p]

(* What is listed is what was looked for, once, in order, and no more. *)
ResultsAreAsAsked == NoMoreThanAsked /\ ResultsInOrder /\ DismissedIsUnfiltered

(* Every search ends, whatever the channel holds, also one that is cancelled and one whose
   receiver is gone. *)
SearchesEnd ==
    \A i \in SearchIds :
        i \in DOMAIN searches ~> i \in DOMAIN searches /\ ~searches[i].walking /\ searches[i].task # "open"

===============================================================================
