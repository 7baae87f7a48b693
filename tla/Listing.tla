-------------------------------- MODULE Listing --------------------------------
(***************************************************************************)
(* A view of the window: the rows of the pane it shows, narrowed by what *)
(* is typed into it (the quick filter), with the marks of version        *)
(* control, the selection, and a file that another program asked to be   *)
(* shown.                                                                *)
(*                                                                       *)
(* The view is one side of the window; its pane is another when its user *)
(* changes tabs.  Listings, statuses, recent files, folder sizes and     *)
(* what a search finds come from tasks, which end in any order; a        *)
(* listing may fail.                                                     *)
(***************************************************************************)
EXTENDS Naturals, FiniteSets

CONSTANTS
    ListPanes,          \* a pane for each tab
    Shelves,            \* folders
    Held,               \* Held[d]: the names in it
    Touched,            \* Touched[d]: those that version control has a status for
    Boxes,              \* names of folders, whose sizes are told when they are known
    RecentOnes,         \* recently used: sets of [name, of]
    Hits,               \* Hits[d]: what a search of d may find, as [name, of]
    Texts,              \* what may be typed; Empty is one
    Empty,
    TypedFrom,          \* TypedFrom[t]: the texts one more character makes of t
    Keeps,              \* Keeps[t]: the names that contain t
    Viewers,            \* scenes: what a user does, and where; how often in all
    NoShelf, RecentView

(* What a user does. *)
ListAsks == {"open", "go", "recent", "reload", "switch", "type", "choose", "reveal", "search", "fails",
             "drag"}

(* Typing a character leaves a text that is not empty. *)
ASSUME ListingAssumption ==
    /\ NoShelf \notin Shelves /\ RecentView \notin Shelves /\ NoShelf # RecentView
    /\ \A h \in RecentOnes \cup UNION {Hits[d] : d \in Shelves} : h.of # NoShelf
    /\ Empty \in Texts /\ \A t \in Texts : Empty \notin TypedFrom[t]
    /\ Viewers \subseteq [does : SUBSET ListAsks, panes : SUBSET ListPanes, home : Shelves, left : Nat]

VARIABLES
    listPanes,           \* panes[p]: PaneState: its folder, what its rows are of, whether it shows
                         \* Recent, what its marks are of, what is to be selected; whether
                         \* its folder was set before the listing came, and whether its last
                         \* listing failed (history)
    shownPane,           \* the pane of the active tab
    rows,                \* FileListView.model: [name, of, mark]
    chosen,              \* the selected rows
    filterBar,           \* the quick filter: its text, whether its bar is open, and its scope
    noMatches,           \* the label over an empty listing
    work,                \* tasks
    recents,             \* recent_generation
    viewer               \* the scene

listVars == <<listPanes, shownPane, rows, chosen, filterBar, noMatches, work, recents, viewer>>

NoScope == <<>>
Closed == [text |-> Empty, open |-> FALSE, scope |-> NoScope]

ListInit ==
    /\ viewer \in Viewers /\ shownPane \in viewer.panes
    /\ listPanes = [p \in ListPanes |-> [path |-> viewer.home, listing |-> NoShelf, recent |-> FALSE,
                                     marks |-> NoShelf, pending |-> {}, ahead |-> FALSE,
                                     failed |-> FALSE]]
    /\ rows = {} /\ chosen = {} /\ filterBar = Closed /\ noMatches = FALSE
    /\ work = {[kind |-> "load", pane |-> shownPane, of |-> viewer.home]}
    /\ recents = 0

Does(name) == name \in viewer.does /\ viewer.left > 0 /\ viewer' = [viewer EXCEPT !.left = @ - 1]

-------------------------------------------------------------------------------
(* FileListView *)

Named(r) == [name |-> r.name, of |-> r.of]
Listed(s) ==
    CASE s.listing = NoShelf -> {}
      [] s.listing = RecentView -> RecentOnes
      [] OTHER -> [name : Held[s.listing], of : {s.listing}]
(* A status is looked up by the name of the file. *)
MarkOf(n, marks) == IF marks # NoShelf /\ n \in Touched[marks] THEN marks ELSE NoShelf
Painted(s) == {[name |-> e.name, of |-> e.of, mark |-> MarkOf(e.name, s.marks)] : e \in Listed(s)}

Kept(rs, text) == {r \in rs : text = Empty \/ r.name \in Keeps[text]}
ScopeOf(p, s) == <<p, s.path, s.recent>>

(* sync_quick_filter *)
Synced(p, s) ==
    IF filterBar.scope # NoScope /\ filterBar.scope # ScopeOf(p, s) THEN Closed ELSE filterBar

(* Mutant: the label follows only what is typed. *)
RelabelledLater(rs, b) == IF b.text = Empty THEN FALSE ELSE noMatches
(* The label is looked at when filtered rows come or go, and when the text changes. *)
Relabelled(rs, b) ==
    IF b.text = Empty THEN FALSE
    ELSE IF Kept(rows, b.text) = {} /\ Kept(rs, b.text) = {} THEN noMatches
    ELSE Kept(rs, b.text) = {}

(* apply_pending_selection: a reveal outranks a filter. *)
Applied(s, rs, b) ==
    LET found == {r \in rs : Named(r) \in s.pending}
        kept == found \cap Kept(rs, b.text)
    IN  CASE s.recent \/ found = {} -> [sel |-> {}, bar |-> b, done |-> FALSE]
          [] kept # {} -> [sel |-> kept, bar |-> b, done |-> TRUE]
          [] OTHER -> [sel |-> found, bar |-> Closed, done |-> TRUE]

(* render: the filter of something else ends, and the rows are made anew. *)
Render(p, s) ==
    /\ filterBar' = Synced(p, s) /\ rows' = Painted(s) /\ chosen' = {}
    /\ noMatches' = Relabelled(Painted(s), Synced(p, s))

Same == UNCHANGED <<rows, chosen, filterBar, noMatches>>

-------------------------------------------------------------------------------
(* The user. *)

LoadPane(p, d) == work' = work \cup {[kind |-> "load", pane |-> p, of |-> d]}

(* activate_entry, of a folder: the rows stay until the listing comes. *)
OpenRow(d) ==
    /\ Does("open") /\ listPanes[shownPane].listing # NoShelf
    /\ listPanes' = [listPanes EXCEPT ![shownPane] = [@ EXCEPT !.path = d, !.recent = FALSE, !.pending = {},
                                                                    !.ahead = TRUE]]
    /\ LoadPane(shownPane, d) /\ Same /\ UNCHANGED <<shownPane, recents>>

(* The path bar and the sidebar only ask for a listing. *)
GoToPlace(d) ==
    /\ Does("go") /\ LoadPane(shownPane, d) /\ Same /\ UNCHANGED <<listPanes, shownPane, recents>>

AskRecent(p) ==
    /\ recents' = recents + 1
    /\ work' = work \cup {[kind |-> "recent", pane |-> p, of |-> recents + 1]}

GoToRecent ==
    /\ Does("recent") /\ AskRecent(shownPane)
    /\ IF listPanes[shownPane].recent THEN Same /\ UNCHANGED listPanes
       ELSE LET s == [listPanes[shownPane] EXCEPT !.recent = TRUE, !.listing = NoShelf, !.marks = NoShelf, !.pending = {}]
            IN  listPanes' = [listPanes EXCEPT ![shownPane] = s] /\ Render(shownPane, s)
    /\ UNCHANGED shownPane

LeaveRecent ==
    /\ Does("open") /\ listPanes[shownPane].recent
    /\ listPanes' = [listPanes EXCEPT ![shownPane].recent = FALSE, ![shownPane].ahead = TRUE]
    /\ LoadPane(shownPane, listPanes[shownPane].path)
    /\ Same /\ UNCHANGED <<shownPane, recents>>

Reloaded(p) ==
    IF listPanes[p].recent THEN AskRecent(p) ELSE LoadPane(p, listPanes[p].path) /\ UNCHANGED recents

ReloadView == Does("reload") /\ Reloaded(shownPane) /\ Same /\ UNCHANGED <<listPanes, shownPane>>

SwitchTab(p) ==
    /\ Does("switch") /\ p # shownPane /\ shownPane' = p
    /\ Render(p, listPanes[p]) /\ Reloaded(p) /\ UNCHANGED listPanes

(* A character typed into the listing opens the bar, or goes into it. *)
Type(t) ==
    /\ Does("type") /\ t \in TypedFrom[filterBar.text]
    /\ filterBar' = [text |-> t, open |-> TRUE,
                     scope |-> IF filterBar.open THEN filterBar.scope ELSE ScopeOf(shownPane, listPanes[shownPane])]
    /\ chosen' = chosen \cap Kept(rows, t) /\ noMatches' = (Kept(rows, t) = {})
    /\ UNCHANGED <<listPanes, shownPane, rows, work, recents>>

(* Deleting the last one closes it. *)
Erase(t) ==
    /\ filterBar.open /\ filterBar.text \in TypedFrom[t] /\ Does("type")
    /\ filterBar' = [filterBar EXCEPT !.text = t, !.open = (t # Empty)]
    /\ noMatches' = (t # Empty /\ Kept(rows, t) = {})
    /\ UNCHANGED <<listPanes, shownPane, rows, chosen, work, recents>>

(* Escape, in the entry or in the listing: only the latter forgets the scope. *)
Escape ==
    /\ filterBar.open /\ Does("type")
    /\ filterBar' \in {Closed, [Closed EXCEPT !.scope = filterBar.scope]} /\ noMatches' = FALSE
    /\ UNCHANGED <<listPanes, shownPane, rows, chosen, work, recents>>

(* Enter or Down, and a click: one row is selected. *)
Choose ==
    /\ Does("choose") /\ \E r \in Kept(rows, filterBar.text) : chosen' = {r}
    /\ UNCHANGED <<listPanes, shownPane, rows, filterBar, noMatches, work, recents>>

(* A search, of the pane's folder. *)
SearchBelow ==
    /\ Does("search")
    /\ work' = work \cup {[kind |-> "search", pane |-> shownPane, of |-> listPanes[shownPane].path]}
    /\ Same /\ UNCHANGED <<listPanes, shownPane, recents>>

(* Another program reveals a file: SelectItems, and then its folder's listing. *)
RevealRow(d) ==
    /\ Does("reveal") /\ LoadPane(shownPane, d)
    /\ \E n \in Held[d] :
          LET s == [listPanes[shownPane] EXCEPT !.pending = {[name |-> n, of |-> d]}]
              a == Applied(s, rows, filterBar)
          IN  /\ listPanes' = [listPanes EXCEPT ![shownPane] = [s EXCEPT !.pending = IF a.done THEN {} ELSE @]]
              /\ filterBar' = a.bar /\ noMatches' = (noMatches /\ a.bar.text # Empty)
              /\ chosen' = (IF a.done THEN a.sel ELSE chosen)
    /\ UNCHANGED <<shownPane, rows, recents>>

-------------------------------------------------------------------------------
(* Tasks, and what the window does with what they found. *)

(* DirectoryLoaded; statuses and sizes are looked for afterwards. *)
ListingLoaded(t) ==
    /\ t \in work /\ t.kind = "load"
    /\ work' = (work \ {t}) \cup [kind : {"marks", "sizes"}, pane : {t.pane}, of : {t.of}]
    /\ LET s == [listPanes[t.pane] EXCEPT !.path = t.of, !.listing = t.of, !.marks = NoShelf, !.recent = FALSE,
                                       !.ahead = FALSE, !.failed = FALSE]
           b == Synced(t.pane, s)
           a == Applied(s, Painted(s), b)
       IN  IF t.pane # shownPane THEN listPanes' = [listPanes EXCEPT ![t.pane] = s] /\ Same
           ELSE /\ listPanes' = [listPanes EXCEPT ![t.pane] = [s EXCEPT !.pending = IF a.done THEN {} ELSE @]]
                /\ rows' = Painted(s) /\ filterBar' = a.bar /\ chosen' = a.sel
                /\ noMatches' = Relabelled(Painted(s), a.bar)
    /\ UNCHANGED <<shownPane, recents, viewer>>

(* DirectoryError: the error is shown, and nothing else changes. *)
ListingFails(t) ==
    /\ t \in work /\ t.kind = "load" /\ "fails" \in viewer.does /\ work' = work \ {t}
    /\ listPanes' = [listPanes EXCEPT ![t.pane].failed = TRUE]
    /\ Same /\ UNCHANGED <<shownPane, recents, viewer>>

(* GitStatusUpdated, by folder; it may also be asked for again at any time. *)
StatusFound(t) ==
    /\ t \in work /\ t.kind = "marks" /\ work' = work \ {t}
    /\ listPanes' = [p \in ListPanes |->
                        IF listPanes[p].path = t.of THEN [listPanes[p] EXCEPT !.marks = t.of] ELSE listPanes[p]]
    /\ IF listPanes[shownPane].path = t.of
       THEN LET anew(rs) == {[r EXCEPT !.mark = MarkOf(r.name, t.of)] : r \in rs}
            IN  rows' = anew(rows) /\ chosen' = anew(chosen)
       ELSE UNCHANGED <<rows, chosen>>
    /\ UNCHANGED <<shownPane, filterBar, noMatches, recents, viewer>>

(* DirSizeCalculated: the row goes and comes back, and is no longer selected. *)
SizeFound(t) ==
    /\ t \in work /\ t.kind = "sizes" /\ work' = work \ {t}
    /\ chosen' = IF t.pane = shownPane THEN {r \in chosen : ~(r.of = t.of /\ r.name \in Boxes)} ELSE chosen
    /\ UNCHANGED <<listPanes, shownPane, rows, filterBar, noMatches, recents, viewer>>

(* show_recent, once the files were checked: if this load is the last one, and it is still
   wanted. *)
RecentFound(t) ==
    /\ t \in work /\ t.kind = "recent" /\ work' = work \ {t}
    /\ IF t.of = recents /\ listPanes[t.pane].recent
       THEN LET s == [listPanes[t.pane] EXCEPT !.listing = RecentView]
            IN  /\ listPanes' = [listPanes EXCEPT ![t.pane] = s]
                /\ IF t.pane = shownPane THEN Render(shownPane, s) ELSE Same
       ELSE Same /\ UNCHANGED listPanes
    /\ UNCHANGED <<shownPane, recents, viewer>>

(* SearchResult: a row more, of the side in use, whatever it shows now. *)
HitFound(t) ==
    /\ t \in work /\ t.kind = "search"
    /\ \E h \in Hits[t.of] : rows' = rows \cup {[name |-> h.name, of |-> h.of, mark |-> NoShelf]}
    /\ noMatches' = Relabelled(rows', filterBar)
    /\ UNCHANGED <<listPanes, shownPane, chosen, filterBar, work, recents, viewer>>

SearchEnds(t) ==
    /\ t \in work /\ t.kind = "search" /\ work' = work \ {t}
    /\ Same /\ UNCHANGED <<listPanes, shownPane, recents, viewer>>

ListNext ==
    \/ \E d \in Shelves : OpenRow(d) \/ GoToPlace(d) \/ RevealRow(d)
    \/ GoToRecent \/ LeaveRecent \/ ReloadView \/ Escape \/ Choose \/ SearchBelow
    \/ \E p \in viewer.panes : SwitchTab(p)
    \/ \E t \in Texts : Type(t) \/ Erase(t)
    \/ \E t \in work : \/ ListingLoaded(t) \/ ListingFails(t) \/ StatusFound(t) \/ SizeFound(t)
                       \/ RecentFound(t) \/ HitFound(t) \/ SearchEnds(t)

ListSpec == ListInit /\ [][ListNext]_listVars

-------------------------------------------------------------------------------
(* pane_view.rs:99 "No matches follows the filtered list, which also changes when the folder
   reloads under an active filter": whatever came first, the label is there exactly when a
   filter leaves nothing. *)
NoMatchesIsTrue == noMatches <=> filterBar.text # Empty /\ Kept(rows, filterBar.text) = {}

(* pane_view.rs:18 "Showing anything else ends the filter": one that narrows the rows was typed
   into this pane with this folder, unless the pane says a folder whose listing has not come,
   or never will; and a bar that is closed narrows nothing. *)
FilterIsOfWhatIsShown ==
    /\ filterBar.open <=> filterBar.text # Empty
    /\ filterBar.open /\ ~listPanes[shownPane].ahead =>
          filterBar.scope = ScopeOf(shownPane, listPanes[shownPane])

(* window.rs:1632 "a reveal outranks a filter": what another program asked for does not wait
   while the listing has it, unless that is about to come again, or failed to. *)
RevealsOutrankFilters ==
    LET s == listPanes[shownPane]
    IN  ~s.recent /\ Listed(s) \cap s.pending # {} =>
           s.failed \/ \E t \in work : t.kind = "load" /\ t.pane = shownPane

(* state.rs:67 "Filters, selection and version-control marks belong to a folder": in a pane
   that shows the folder it says and not recent files, what is listed there has no mark but of
   that folder. *)
MarksAreOfTheirFolder ==
    LET s == listPanes[shownPane]
    IN  ~s.recent /\ ~s.ahead => \A r \in rows : r.of = s.listing => r.mark \in {NoShelf, r.of}

(* What the rows, the quick filter and its label tell of is what is shown. *)
RowsAreAsShown ==
    NoMatchesIsTrue /\ FilterIsOfWhatIsShown /\ RevealsOutrankFilters /\ MarksAreOfTheirFolder
===============================================================================
