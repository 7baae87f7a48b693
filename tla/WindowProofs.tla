------------------------------ MODULE WindowProofs ------------------------------
(***************************************************************************)
(* Proofs about what the window shows: the rows, the quick filter and its  *)
(* label tell of what is shown (Listing), files are moved only where that  *)
(* was asked for or is cheap (Dragging), the preview panel is on what is   *)
(* selected (Previews), and the bar and the views are those of the tabs    *)
(* that are open (Tabs).                                                   *)
(***************************************************************************)
EXTENDS Dragging, Previews, Tabs, FiniteSetTheorems, TLAPS

-------------------------------------------------------------------------------
(* What the variables of a view are. *)

HeldIn(d) == [name : Held[d], of : {d}]
AllHeld   == UNION {HeldIn(d) : d \in Shelves}
AllHits   == UNION {Hits[d] : d \in Shelves}
Entries   == RecentOnes \cup AllHits \cup AllHeld
NamesOf   == {e.name : e \in Entries}
HomesOf   == {e.of : e \in Entries}
Files     == [name : NamesOf, of : HomesOf]
Marks     == Shelves \cup {NoShelf}
RowStates == [name : NamesOf, of : HomesOf, mark : Marks]
Scopes    == (ListPanes \X Shelves \X BOOLEAN) \cup {NoScope}
ShownAs   == [path : Shelves, listing : Shelves \cup {NoShelf, RecentView}, recent : BOOLEAN,
              marks : Marks, pending : SUBSET Files, ahead : BOOLEAN, failed : BOOLEAN]
Bars      == [text : Texts, open : BOOLEAN, scope : Scopes]
Lookups   == [kind : {"load", "marks", "sizes", "search"}, pane : ListPanes, of : Shelves]
             \cup [kind : {"recent"}, pane : ListPanes, of : Nat]
AllViewers == [does : SUBSET ListAsks, panes : SUBSET ListPanes, home : Shelves, left : Nat]

ListTypes ==
    /\ viewer \in AllViewers
    /\ listPanes \in [ListPanes -> ShownAs] /\ shownPane \in ListPanes
    /\ rows \subseteq RowStates /\ chosen \subseteq RowStates
    /\ filterBar \in Bars /\ noMatches \in BOOLEAN
    /\ work \subseteq Lookups /\ recents \in Nat

(* The pane that is shown is on its way to a folder. *)
Loading == \E t \in work : t.kind = "load" /\ t.pane = shownPane

(* A bar that is open is of something, and a text is in an open bar. *)
BarIsOfSomething ==
    (filterBar.open <=> filterBar.text # Empty) /\ (filterBar.open => filterBar.scope # NoScope)

(* A pane that shows the folder it says lists that one or nothing yet, and its marks are of it. *)
OfItsFolder(s) ==
    ~s.recent /\ ~s.ahead => s.listing \in {NoShelf, s.path} /\ s.marks \in {NoShelf, s.path}
PanesAreOfTheirFolder == \A p \in ListPanes : OfItsFolder(listPanes[p])

(* So have its rows, those of a search too, no marks but of it. *)
MarksAreOfThePane ==
    LET s == listPanes[shownPane]
    IN  ~s.recent /\ ~s.ahead => \A r \in rows : r.mark \in {NoShelf, s.path}

ListInv ==
    /\ ListTypes
    /\ NoMatchesIsTrue /\ BarIsOfSomething /\ FilterIsOfWhatIsShown /\ RevealsOutrankFilters
    /\ PanesAreOfTheirFolder /\ MarksAreOfThePane

-------------------------------------------------------------------------------
(* The operators of the view. *)

(* What a folder holds is an entry. *)
LEMMA HeldIs ==
    ASSUME NEW d \in Shelves
    PROVE  [name : Held[d], of : {d}] \subseteq Entries
<1>1. HeldIn(d) \subseteq AllHeld BY DEF AllHeld
<1> QED BY <1>1 DEF Entries, HeldIn

(* A row is in a folder. *)
LEMMA HomesAreFolders == NoShelf \notin HomesOf
<1> SUFFICES ASSUME NEW e \in Entries PROVE e.of # NoShelf BY DEF HomesOf
<1>1. CASE e \in RecentOnes \cup AllHits BY <1>1, ListingAssumption DEF ListingAssumption, AllHits
<1>2. CASE e \in AllHeld
  <2>1. PICK d \in Shelves : e \in HeldIn(d) BY <1>2 DEF AllHeld
  <2> QED BY <2>1, ListingAssumption DEF ListingAssumption, HeldIn
<1> QED BY <1>1, <1>2 DEF Entries

(* A bar that is kept is of what is shown now, or has no scope. *)
LEMMA SyncedIs ==
    ASSUME NEW p, NEW s
    PROVE  \/ Synced(p, s) = Closed
           \/ Synced(p, s) = filterBar /\ filterBar.scope \in {NoScope, ScopeOf(p, s)}
BY DEF Synced

(* A closed bar. *)
LEMMA ClosedIs ==
    /\ Closed \in Bars /\ Closed.text = Empty /\ Closed.open = FALSE
BY ListingAssumption DEF Closed, Bars, Scopes, ListingAssumption

(* Whether the label is looked at or stays, it is right afterwards. *)
LEMMA RelabelledIs ==
    ASSUME NoMatchesIsTrue, noMatches \in BOOLEAN, NEW rs, NEW b, b = filterBar \/ b = Closed
    PROVE  /\ Relabelled(rs, b) \in BOOLEAN
           /\ Relabelled(rs, b) <=> b.text # Empty /\ Kept(rs, b.text) = {}
BY ClosedIs DEF Relabelled, NoMatchesIsTrue

(* Rows are painted with names of what is listed. *)
LEMMA PaintedIs ==
    ASSUME NEW s \in ShownAs
    PROVE  Painted(s) \subseteq RowStates
<1>1. Listed(s) \subseteq Entries
  <2>1. CASE s.listing \in Shelves
    <3>1. Listed(s) = [name : Held[s.listing], of : {s.listing}]
      BY <2>1, ListingAssumption DEF ListingAssumption, Listed
    <3> QED BY <2>1, <3>1, HeldIs
  <2>2. CASE s.listing = NoShelf BY <2>2, ListingAssumption DEF Listed, ListingAssumption
  <2>3. CASE s.listing = RecentView /\ s.listing # NoShelf
    BY <2>3, ListingAssumption DEF Listed, Entries, ListingAssumption
  <2> QED BY <2>1, <2>2, <2>3 DEF ShownAs
<1>2. \A n : MarkOf(n, s.marks) \in Marks BY DEF MarkOf, ShownAs, Marks
<1>3. \A e \in Listed(s) : e.name \in NamesOf /\ e.of \in HomesOf BY <1>1 DEF NamesOf, HomesOf
<1>4. \A r \in Painted(s) : r \in RowStates BY <1>2, <1>3 DEF Painted, RowStates
<1> QED BY <1>4

(* What is painted is what is listed, and its marks are those of the pane. *)
LEMMA PaintedOf ==
    ASSUME NEW s
    PROVE  /\ \A r \in Painted(s) : r.mark \in {NoShelf, s.marks}
           /\ \A e \in Listed(s) : \E r \in Painted(s) : r.name = e.name /\ r.of = e.of
<1>1. \A n : MarkOf(n, s.marks) \in {NoShelf, s.marks} BY DEF MarkOf
<1>2. \A r \in Painted(s) : \E e \in Listed(s) : r.mark = MarkOf(e.name, s.marks) BY DEF Painted
<1>3. ASSUME NEW e \in Listed(s) PROVE \E r \in Painted(s) : r.name = e.name /\ r.of = e.of
  <2>1. [name |-> e.name, of |-> e.of, mark |-> MarkOf(e.name, s.marks)] \in Painted(s)
    BY <1>3 DEF Painted
  <2> QED BY <2>1
<1> QED BY <1>1, <1>2, <1>3

(* What a reveal selects, and what is left of the filter. *)
LEMMA AppliedIs ==
    ASSUME NEW s, NEW rs, NEW b
    PROVE  /\ Applied(s, rs, b).sel \subseteq rs
           /\ Applied(s, rs, b).bar \in {b, Closed}
           /\ Applied(s, rs, b).done \in BOOLEAN
           /\ ~s.recent /\ ~Applied(s, rs, b).done => \A r \in rs : Named(r) \notin s.pending
<1> DEFINE found == {r \in rs : Named(r) \in s.pending}
<1> DEFINE kept == found \cap Kept(rs, b.text)
<1>1. CASE s.recent \/ found = {} BY <1>1 DEF Applied
<1>2. CASE ~(s.recent \/ found = {}) /\ kept # {} BY <1>2 DEF Applied
<1>3. CASE ~(s.recent \/ found = {}) /\ kept = {} BY <1>3 DEF Applied
<1> QED BY <1>1, <1>2, <1>3

(* Does changes how often the user still acts, and nothing else. *)
LEMMA DoesIs ==
    ASSUME viewer \in AllViewers, NEW name, Does(name)
    PROVE  viewer' \in AllViewers
<1> DEFINE new == [viewer EXCEPT !.left = @ - 1]
<1>1. viewer.left \in Nat /\ viewer.left > 0 BY DEF Does, AllViewers
<1>2. new \in AllViewers BY <1>1 DEF AllViewers
<1> QED BY <1>2 DEF Does

(* A view of pane p, as s, is drawn anew. *)
LEMMA RenderStep ==
    ASSUME ListInv, NEW p \in ListPanes, NEW s \in ShownAs, Render(p, s)
    PROVE  /\ rows' = Painted(s) /\ rows' \subseteq RowStates /\ chosen' \subseteq RowStates
           /\ filterBar' \in Bars /\ noMatches' \in BOOLEAN
           /\ NoMatchesIsTrue' /\ BarIsOfSomething'
           /\ filterBar'.open => filterBar'.scope = ScopeOf(p, s)
<1>1. filterBar' = Closed \/ (filterBar' = filterBar /\ filterBar.scope \in {NoScope, ScopeOf(p, s)})
  BY SyncedIs DEF Render
<1>2. rows' = Painted(s) /\ chosen' = {} /\ noMatches' = Relabelled(rows', filterBar') BY DEF Render
<1>3. /\ noMatches' \in BOOLEAN
      /\ noMatches' <=> filterBar'.text # Empty /\ Kept(rows', filterBar'.text) = {}
  BY <1>1, <1>2, RelabelledIs DEF ListInv, ListTypes
<1>4. NoMatchesIsTrue' BY <1>3 DEF NoMatchesIsTrue, Kept
<1>5. BarIsOfSomething' /\ (filterBar'.open => filterBar'.scope = ScopeOf(p, s))
  BY <1>1, ClosedIs DEF ListInv, BarIsOfSomething
<1>6. filterBar' \in Bars BY <1>1, ClosedIs DEF ListInv, ListTypes
<1> QED BY <1>2, <1>3, <1>4, <1>5, <1>6, PaintedIs

-------------------------------------------------------------------------------
(* What the user does. *)

(* LoadPane: the pane is on its way, and tasks stay tasks. *)
LEMMA LoadStep ==
    ASSUME ListTypes, NEW p \in ListPanes, NEW d \in Shelves, LoadPane(p, d)
    PROVE  /\ work' \subseteq Lookups /\ work \subseteq work'
           /\ \E t \in work' : t.kind = "load" /\ t.pane = p
<1> DEFINE t == [kind |-> "load", pane |-> p, of |-> d]
<1>1. t \in Lookups /\ t.kind = "load" /\ t.pane = p BY DEF Lookups
<1>2. work' = work \cup {t} BY DEF LoadPane
<1> HIDE DEF t
<1> QED BY <1>1, <1>2 DEF ListTypes

(* AskRecent: no folder is loaded. *)
LEMMA AskRecentStep ==
    ASSUME ListTypes, NEW p \in ListPanes, AskRecent(p)
    PROVE  /\ work' \subseteq Lookups /\ work \subseteq work' /\ recents' \in Nat
           /\ \A t \in work' : t.kind = "load" => t \in work
<1> DEFINE t == [kind |-> "recent", pane |-> p, of |-> recents + 1]
<1>1. t \in Lookups /\ t.kind # "load" BY DEF Lookups, ListTypes
<1>2. work' = work \cup {t} /\ recents' \in Nat BY DEF AskRecent, ListTypes
<1> HIDE DEF t
<1> QED BY <1>1, <1>2 DEF ListTypes

(* Reloaded: a pane that shows a folder is on its way to it. *)
LEMMA ReloadedStep ==
    ASSUME ListTypes, NEW p \in ListPanes, Reloaded(p)
    PROVE  /\ work' \subseteq Lookups /\ work \subseteq work' /\ recents' \in Nat
           /\ ~listPanes[p].recent => \E t \in work' : t.kind = "load" /\ t.pane = p
<1>1. CASE listPanes[p].recent BY <1>1, AskRecentStep DEF Reloaded
<1>2. CASE ~listPanes[p].recent BY <1>2, LoadStep DEF ListTypes, ShownAs, Reloaded
<1> QED BY <1>1, <1>2

(* Nothing that is shown changes; the pane is as it was, or is set ahead of a listing that is
   under way, or its listing failed. *)
LEMMA SameStep ==
    ASSUME ListInv, Same, shownPane' = shownPane, viewer' \in AllViewers,
           work' \subseteq Lookups, recents' \in Nat,
           listPanes' \in [ListPanes -> ShownAs], PanesAreOfTheirFolder',
           LET was == listPanes[shownPane]
               now == listPanes'[shownPane]
           IN  \/ now = was /\ (Loading => Loading')
               \/ now.ahead /\ Loading'
               \/ now.failed /\ now.path = was.path /\ now.recent = was.recent /\ now.ahead = was.ahead
    PROVE  ListInv'
<1>1. ListTypes' BY DEF ListInv, ListTypes, Same
<1>2. NoMatchesIsTrue' /\ BarIsOfSomething'
  BY DEF ListInv, NoMatchesIsTrue, BarIsOfSomething, Same, Kept
<1>3. FilterIsOfWhatIsShown' BY <1>2 DEF ListInv, FilterIsOfWhatIsShown, BarIsOfSomething, Same, ScopeOf
<1>4. RevealsOutrankFilters' BY DEF ListInv, RevealsOutrankFilters, Loading
<1>5. MarksAreOfThePane' BY DEF ListInv, MarksAreOfThePane, Same
<1> QED BY <1>1, <1>2, <1>3, <1>4, <1>5 DEF ListInv

(* OpenRow: the rows stay until the listing comes. *)
LEMMA OpenRowStep ==
    ASSUME ListInv, NEW d \in Shelves, OpenRow(d)
    PROVE  ListInv'
<1> DEFINE new == [listPanes[shownPane] EXCEPT !.path = d, !.recent = FALSE, !.pending = {}, !.ahead = TRUE]
<1>1. new \in ShownAs /\ new.ahead = TRUE BY DEF ListInv, ListTypes, ShownAs
<1>2. listPanes' = [listPanes EXCEPT ![shownPane] = new] /\ shownPane' = shownPane BY DEF OpenRow
<1> HIDE DEF new
<1>3. listPanes' \in [ListPanes -> ShownAs] /\ listPanes'[shownPane] = new
  BY <1>1, <1>2 DEF ListInv, ListTypes
<1>4. work' \subseteq Lookups /\ Loading' BY <1>2, LoadStep DEF OpenRow, ListInv, ListTypes, Loading
<1>5. viewer' \in AllViewers BY DoesIs DEF OpenRow, ListInv, ListTypes
<1>6. PanesAreOfTheirFolder' BY <1>1, <1>2 DEF ListInv, ListTypes, PanesAreOfTheirFolder, OfItsFolder
<1> QED BY <1>1, <1>2, <1>3, <1>4, <1>5, <1>6, SameStep DEF OpenRow, ListInv, ListTypes

(* GoToPlace only asks for a listing. *)
LEMMA GoToPlaceStep ==
    ASSUME ListInv, NEW d \in Shelves, GoToPlace(d)
    PROVE  ListInv'
<1>1. work' \subseteq Lookups /\ (Loading => Loading') /\ viewer' \in AllViewers
  BY LoadStep, DoesIs DEF GoToPlace, ListInv, ListTypes, Loading
<1>2. PanesAreOfTheirFolder' BY DEF GoToPlace, ListInv, PanesAreOfTheirFolder
<1> QED BY <1>1, <1>2, SameStep DEF GoToPlace, ListInv, ListTypes

(* SearchBelow: a task more. *)
LEMMA SearchBelowStep ==
    ASSUME ListInv, SearchBelow
    PROVE  ListInv'
<1> DEFINE t == [kind |-> "search", pane |-> shownPane, of |-> listPanes[shownPane].path]
<1>1. t \in Lookups BY DEF ListInv, ListTypes, ShownAs, Lookups
<1>2. work' = work \cup {t} /\ UNCHANGED <<listPanes, shownPane, recents>> /\ Same BY DEF SearchBelow
<1> HIDE DEF t
<1>3. work' \subseteq Lookups /\ (Loading => Loading') /\ viewer' \in AllViewers
  BY <1>1, <1>2, DoesIs DEF SearchBelow, ListInv, ListTypes, Loading
<1>4. PanesAreOfTheirFolder' BY <1>2 DEF ListInv, PanesAreOfTheirFolder
<1> QED BY <1>2, <1>3, <1>4, SameStep DEF ListInv, ListTypes

(* LeaveRecent: back to the folder of the pane. *)
LEMMA LeaveRecentStep ==
    ASSUME ListInv, LeaveRecent
    PROVE  ListInv'
<1> DEFINE new == [listPanes[shownPane] EXCEPT !.recent = FALSE, !.ahead = TRUE]
<1>1. new \in ShownAs /\ new.ahead = TRUE BY DEF ListInv, ListTypes, ShownAs
<1>2. listPanes' = [listPanes EXCEPT ![shownPane] = new] /\ shownPane' = shownPane
  BY DEF LeaveRecent, ListInv, ListTypes, ShownAs
<1> HIDE DEF new
<1>3. listPanes' \in [ListPanes -> ShownAs] /\ listPanes'[shownPane] = new
  BY <1>1, <1>2 DEF ListInv, ListTypes
<1>4. work' \subseteq Lookups /\ Loading'
  BY <1>2, LoadStep DEF LeaveRecent, ListInv, ListTypes, ShownAs, Loading
<1>5. viewer' \in AllViewers BY DoesIs DEF LeaveRecent, ListInv, ListTypes
<1>6. PanesAreOfTheirFolder' BY <1>1, <1>2 DEF ListInv, ListTypes, PanesAreOfTheirFolder, OfItsFolder
<1> QED BY <1>1, <1>2, <1>3, <1>4, <1>5, <1>6, SameStep DEF LeaveRecent, ListInv, ListTypes

(* ReloadView. *)
LEMMA ReloadViewStep ==
    ASSUME ListInv, ReloadView
    PROVE  ListInv'
<1>1. work' \subseteq Lookups /\ recents' \in Nat /\ (Loading => Loading') /\ viewer' \in AllViewers
  BY ReloadedStep, DoesIs DEF ReloadView, ListInv, ListTypes, Loading
<1>2. PanesAreOfTheirFolder' BY DEF ReloadView, ListInv, PanesAreOfTheirFolder
<1> QED BY <1>1, <1>2, SameStep DEF ReloadView, ListInv, ListTypes

(* GoToRecent: the filter of a folder ends, and nothing is listed yet. *)
LEMMA GoToRecentStep ==
    ASSUME ListInv, GoToRecent
    PROVE  ListInv'
<1>1. /\ work' \subseteq Lookups /\ work \subseteq work' /\ recents' \in Nat
      /\ viewer' \in AllViewers /\ shownPane' = shownPane
  BY AskRecentStep, DoesIs DEF GoToRecent, ListInv, ListTypes
<1>2. CASE listPanes[shownPane].recent
  <2>1. Same /\ UNCHANGED listPanes /\ (Loading => Loading') BY <1>1, <1>2 DEF GoToRecent, Loading
  <2>2. PanesAreOfTheirFolder' BY <2>1 DEF ListInv, PanesAreOfTheirFolder
  <2> QED BY <1>1, <2>1, <2>2, SameStep DEF ListInv, ListTypes
<1>3. CASE ~listPanes[shownPane].recent
  <2> DEFINE new == [listPanes[shownPane] EXCEPT !.recent = TRUE, !.listing = NoShelf, !.marks = NoShelf, !.pending = {}]
  <2>1. listPanes[shownPane] \in ShownAs BY DEF ListInv, ListTypes
  <2>2. new \in ShownAs /\ new.recent = TRUE BY <2>1 DEF ShownAs, Marks
  <2>3. listPanes' = [listPanes EXCEPT ![shownPane] = new] /\ Render(shownPane, new)
    BY <1>3 DEF GoToRecent
  <2> HIDE DEF new
  <2>4. listPanes' \in [ListPanes -> ShownAs] /\ listPanes'[shownPane] = new
    BY <2>2, <2>3 DEF ListInv, ListTypes
  <2>5. /\ rows' \subseteq RowStates /\ chosen' \subseteq RowStates
        /\ filterBar' \in Bars /\ noMatches' \in BOOLEAN
        /\ NoMatchesIsTrue' /\ BarIsOfSomething'
        /\ filterBar'.open => filterBar'.scope = ScopeOf(shownPane, new)
    BY <2>2, <2>3, RenderStep DEF ListInv, ListTypes
  <2>6. ListTypes' BY <1>1, <2>4, <2>5 DEF ListInv, ListTypes
  <2>7. FilterIsOfWhatIsShown' BY <1>1, <2>4, <2>5 DEF FilterIsOfWhatIsShown, BarIsOfSomething
  <2>8. RevealsOutrankFilters' /\ MarksAreOfThePane'
    BY <1>1, <2>2, <2>4 DEF RevealsOutrankFilters, MarksAreOfThePane
  <2>9. PanesAreOfTheirFolder' BY <2>2, <2>3 DEF ListInv, ListTypes, PanesAreOfTheirFolder, OfItsFolder
  <2> QED BY <2>5, <2>6, <2>7, <2>8, <2>9 DEF ListInv
<1> QED BY <1>2, <1>3

(* SwitchTab: another pane is shown, and loaded again. *)
LEMMA SwitchTabStep ==
    ASSUME ListInv, NEW p \in viewer.panes, SwitchTab(p)
    PROVE  ListInv'
<1>1. p \in ListPanes /\ listPanes[p] \in ShownAs BY DEF ListInv, ListTypes, AllViewers
<1>2. /\ work' \subseteq Lookups /\ work \subseteq work' /\ recents' \in Nat
      /\ ~listPanes[p].recent => \E t \in work' : t.kind = "load" /\ t.pane = p
  BY <1>1, ReloadedStep DEF SwitchTab, ListInv
<1>3. viewer' \in AllViewers /\ shownPane' = p /\ listPanes' = listPanes
  BY DoesIs DEF SwitchTab, ListInv, ListTypes
<1>4. /\ rows' = Painted(listPanes[p]) /\ rows' \subseteq RowStates /\ chosen' \subseteq RowStates
      /\ filterBar' \in Bars /\ noMatches' \in BOOLEAN
      /\ NoMatchesIsTrue' /\ BarIsOfSomething'
      /\ filterBar'.open => filterBar'.scope = ScopeOf(p, listPanes[p])
  BY <1>1, RenderStep DEF SwitchTab
<1>5. ListTypes' BY <1>1, <1>2, <1>3, <1>4 DEF ListInv, ListTypes
<1>6. FilterIsOfWhatIsShown' BY <1>3, <1>4 DEF FilterIsOfWhatIsShown, BarIsOfSomething
<1>7. RevealsOutrankFilters' BY <1>2, <1>3 DEF RevealsOutrankFilters
<1>8. PanesAreOfTheirFolder' /\ OfItsFolder(listPanes[p])
  BY <1>1, <1>3 DEF ListInv, PanesAreOfTheirFolder
<1>9. MarksAreOfThePane' BY <1>3, <1>4, <1>8, PaintedOf DEF MarksAreOfThePane, OfItsFolder
<1> QED BY <1>4, <1>5, <1>6, <1>7, <1>8, <1>9 DEF ListInv

(* Type: a text of at least one character, in an open bar. *)
LEMMA TypeStep ==
    ASSUME ListInv, NEW t \in Texts, Type(t)
    PROVE  ListInv'
<1> DEFINE scope == IF filterBar.open THEN filterBar.scope ELSE ScopeOf(shownPane, listPanes[shownPane])
<1>1. t # Empty /\ viewer' \in AllViewers
  BY ListingAssumption, DoesIs DEF Type, ListingAssumption, ListInv, ListTypes, Bars
<1>2. ScopeOf(shownPane, listPanes[shownPane]) \in Scopes \ {NoScope}
  <2>1. listPanes[shownPane].path \in Shelves /\ listPanes[shownPane].recent \in BOOLEAN /\ shownPane \in ListPanes
    BY DEF ListInv, ListTypes, ShownAs
  <2> QED BY <2>1 DEF ScopeOf, Scopes, NoScope
<1>3. scope \in Scopes /\ scope # NoScope BY <1>2 DEF ListInv, ListTypes, Bars, BarIsOfSomething
<1>4. scope = ScopeOf(shownPane, listPanes[shownPane]) \/ (filterBar.open /\ scope = filterBar.scope)
  OBVIOUS
<1>5. filterBar' = [text |-> t, open |-> TRUE, scope |-> scope] BY DEF Type
<1> HIDE DEF scope
<1>6. filterBar' \in Bars /\ filterBar'.text = t /\ filterBar'.open = TRUE /\ filterBar'.scope = scope
  BY <1>3, <1>5 DEF Bars
<1>7. /\ noMatches' = (Kept(rows, t) = {}) /\ chosen' \subseteq chosen
      /\ UNCHANGED <<listPanes, shownPane, rows, work, recents>>
  BY DEF Type
<1>8. ListTypes' BY <1>1, <1>6, <1>7 DEF ListInv, ListTypes
<1>9. NoMatchesIsTrue' /\ BarIsOfSomething'
  BY <1>1, <1>3, <1>6, <1>7 DEF NoMatchesIsTrue, BarIsOfSomething, Kept
<1>10. FilterIsOfWhatIsShown'
  BY <1>4, <1>6, <1>7, <1>9 DEF ListInv, FilterIsOfWhatIsShown, BarIsOfSomething, ScopeOf
<1>11. RevealsOutrankFilters' /\ PanesAreOfTheirFolder' /\ MarksAreOfThePane'
  BY <1>7 DEF ListInv, RevealsOutrankFilters, PanesAreOfTheirFolder, MarksAreOfThePane
<1> QED BY <1>8, <1>9, <1>10, <1>11 DEF ListInv

(* The bar changes its text, or closes; the rows and the pane do not change. *)
LEMMA BarStep ==
    ASSUME ListInv, NEW b \in Bars, filterBar' = b, b.open <=> b.text # Empty,
           b.open => filterBar.open /\ b.scope = filterBar.scope,
           noMatches' = (b.text # Empty /\ Kept(rows, b.text) = {}),
           UNCHANGED <<listPanes, shownPane, rows, chosen, work, recents>>, viewer' \in AllViewers
    PROVE  ListInv'
<1>1. ListTypes' BY DEF ListInv, ListTypes
<1>2. NoMatchesIsTrue' /\ BarIsOfSomething' BY DEF ListInv, NoMatchesIsTrue, BarIsOfSomething, Kept
<1>3. FilterIsOfWhatIsShown' BY <1>2 DEF ListInv, FilterIsOfWhatIsShown, BarIsOfSomething, ScopeOf
<1>4. RevealsOutrankFilters' /\ PanesAreOfTheirFolder' /\ MarksAreOfThePane'
  BY DEF ListInv, RevealsOutrankFilters, PanesAreOfTheirFolder, MarksAreOfThePane
<1> QED BY <1>1, <1>2, <1>3, <1>4 DEF ListInv

(* Erase: the last character closes the bar. *)
LEMMA EraseStep ==
    ASSUME ListInv, NEW t \in Texts, Erase(t)
    PROVE  ListInv'
<1> DEFINE new == [filterBar EXCEPT !.text = t, !.open = (t # Empty)]
<1>1. filterBar \in Bars /\ filterBar.open BY DEF Erase, ListInv, ListTypes
<1>2. new \in Bars /\ new.text = t /\ new.open = (t # Empty) /\ new.scope = filterBar.scope
  BY <1>1 DEF Bars
<1>3. filterBar' = new BY DEF Erase
<1> HIDE DEF new
<1>4. viewer' \in AllViewers BY DoesIs DEF Erase, ListInv, ListTypes
<1> QED BY <1>1, <1>2, <1>3, <1>4, BarStep DEF Erase

(* Escape: the bar closes. *)
LEMMA EscapeStep ==
    ASSUME ListInv, Escape
    PROVE  ListInv'
<1> DEFINE new == [Closed EXCEPT !.scope = filterBar.scope]
<1>1. new \in Bars /\ new.text = Empty /\ new.open = FALSE
  BY ListingAssumption DEF Closed, ListInv, ListTypes, Bars, ListingAssumption
<1>2. filterBar' \in {Closed, new} /\ noMatches' = FALSE BY DEF Escape
<1> HIDE DEF new
<1>3. filterBar' \in Bars /\ filterBar'.text = Empty /\ filterBar'.open = FALSE BY <1>1, <1>2, ClosedIs
<1>4. viewer' \in AllViewers BY DoesIs DEF Escape, ListInv, ListTypes
<1> QED BY <1>2, <1>3, <1>4, BarStep DEF Escape

(* Choose: a row is selected. *)
LEMMA ChooseStep ==
    ASSUME ListInv, Choose
    PROVE  ListInv'
<1>1. viewer' \in AllViewers BY DoesIs DEF Choose, ListInv, ListTypes
<1>2. chosen' \subseteq RowStates BY DEF Choose, Kept, ListInv, ListTypes
<1>3. UNCHANGED <<listPanes, shownPane, rows, filterBar, noMatches, work, recents>> BY DEF Choose
<1> QED BY <1>1, <1>2, <1>3 DEF ListInv, ListTypes, NoMatchesIsTrue, BarIsOfSomething,
    FilterIsOfWhatIsShown, RevealsOutrankFilters, PanesAreOfTheirFolder, MarksAreOfThePane, ScopeOf,
    Kept

(* RevealRow: selected at once, or when the listing comes. *)
LEMMA RevealRowStep ==
    ASSUME ListInv, NEW d \in Shelves, RevealRow(d)
    PROVE  ListInv'
<1>1. PICK n \in Held[d] :
          LET s == [listPanes[shownPane] EXCEPT !.pending = {[name |-> n, of |-> d]}]
              a == Applied(s, rows, filterBar)
          IN  /\ listPanes' = [listPanes EXCEPT ![shownPane] = [s EXCEPT !.pending = IF a.done THEN {} ELSE @]]
              /\ filterBar' = a.bar /\ noMatches' = (noMatches /\ a.bar.text # Empty)
              /\ chosen' = (IF a.done THEN a.sel ELSE chosen)
  BY DEF RevealRow
<1> DEFINE s == [listPanes[shownPane] EXCEPT !.pending = {[name |-> n, of |-> d]}]
<1> DEFINE a == Applied(s, rows, filterBar)
<1> DEFINE new == [s EXCEPT !.pending = IF a.done THEN {} ELSE @]
<1>2. /\ s \in ShownAs /\ s.path = listPanes[shownPane].path /\ s.recent = listPanes[shownPane].recent
      /\ s.ahead = listPanes[shownPane].ahead /\ s.listing = listPanes[shownPane].listing
      /\ s.marks = listPanes[shownPane].marks
  <2>1. [name |-> n, of |-> d] \in Entries BY HeldIs
  <2>2. n \in NamesOf /\ d \in HomesOf BY <2>1 DEF NamesOf, HomesOf
  <2>3. listPanes[shownPane] \in ShownAs BY DEF ListInv, ListTypes
  <2> QED BY <2>2, <2>3 DEF ShownAs, Files
<1>3. /\ new \in ShownAs /\ new.path = s.path /\ new.recent = s.recent /\ new.ahead = s.ahead
      /\ new.listing = s.listing /\ new.marks = s.marks
  BY <1>2 DEF ShownAs
<1>4. listPanes' = [listPanes EXCEPT ![shownPane] = new] BY <1>1
<1>5. /\ filterBar' = a.bar /\ noMatches' = (noMatches /\ a.bar.text # Empty)
      /\ chosen' = (IF a.done THEN a.sel ELSE chosen)
  BY <1>1
<1>6. a.sel \subseteq rows /\ a.bar \in {filterBar, Closed} BY AppliedIs
<1> HIDE DEF s, a, new
<1>7. /\ work' \subseteq Lookups /\ Loading'
      /\ viewer' \in AllViewers /\ UNCHANGED <<shownPane, rows, recents>>
  BY LoadStep, DoesIs DEF RevealRow, ListInv, ListTypes, Loading
<1>8. ListTypes' BY <1>5, <1>6, ClosedIs, <1>3, <1>4, <1>7 DEF ListInv, ListTypes
<1>9. NoMatchesIsTrue' /\ BarIsOfSomething'
  BY <1>5, <1>6, <1>7, ClosedIs DEF ListInv, ListTypes, NoMatchesIsTrue, BarIsOfSomething, Kept
<1>10. listPanes'[shownPane'] = new BY <1>4, <1>7 DEF ListInv, ListTypes
<1>11. FilterIsOfWhatIsShown' BY <1>2, <1>3, <1>5, <1>6, <1>7, <1>9, <1>10, ClosedIs DEF ListInv,
    FilterIsOfWhatIsShown, BarIsOfSomething, ScopeOf
<1>12. RevealsOutrankFilters' /\ MarksAreOfThePane'
  BY <1>2, <1>3, <1>7, <1>10 DEF ListInv, RevealsOutrankFilters, Loading, MarksAreOfThePane
<1>13. PanesAreOfTheirFolder'
  BY <1>2, <1>3, <1>4 DEF ListInv, ListTypes, PanesAreOfTheirFolder, OfItsFolder
<1> QED BY <1>8, <1>9, <1>11, <1>12, <1>13 DEF ListInv

-------------------------------------------------------------------------------
(* What the tasks found. *)

(* A task that ends leaves the others, and may leave what is looked for afterwards. *)
LEMMA EndsStep ==
    ASSUME ListTypes, NEW t \in work, NEW more \in SUBSET Lookups, work' = (work \ {t}) \cup more
    PROVE  /\ work' \subseteq Lookups
           /\ (t.kind # "load" \/ t.pane # shownPane) => (Loading => \E u \in work' : u.kind = "load" /\ u.pane = shownPane)
BY DEF ListTypes, Loading

(* ListingLoaded: what is shown is listed, and the filter is of it. *)
LEMMA ListingLoadedStep ==
    ASSUME ListInv, NEW t \in work, ListingLoaded(t)
    PROVE  ListInv'
<1> DEFINE s == [listPanes[t.pane] EXCEPT !.path = t.of, !.listing = t.of, !.marks = NoShelf, !.recent = FALSE,
                                     !.ahead = FALSE, !.failed = FALSE]
<1> DEFINE b == Synced(t.pane, s)
<1> DEFINE a == Applied(s, Painted(s), b)
<1> DEFINE new == [s EXCEPT !.pending = IF a.done THEN {} ELSE @]
<1>1. t.kind = "load" /\ t.pane \in ListPanes /\ t.of \in Shelves
  BY DEF ListingLoaded, ListInv, ListTypes, Lookups
<1>2. /\ s \in ShownAs /\ s.path = t.of /\ s.listing = t.of /\ s.marks = NoShelf /\ s.recent = FALSE
      /\ s.ahead = FALSE
  <2>1. listPanes[t.pane] \in ShownAs BY <1>1 DEF ListInv, ListTypes
  <2> QED BY <1>1, <2>1 DEF ShownAs, Marks
<1>3. /\ new \in ShownAs /\ new.path = t.of /\ new.recent = FALSE /\ new.listing = t.of /\ new.marks = NoShelf
      /\ new.pending = IF a.done THEN {} ELSE s.pending
  BY <1>2 DEF ShownAs
<1>4. /\ UNCHANGED <<shownPane, recents, viewer>>
      /\ work' = (work \ {t}) \cup [kind : {"marks", "sizes"}, pane : {t.pane}, of : {t.of}]
  BY DEF ListingLoaded
<1>5. /\ t.pane # shownPane => listPanes' = [listPanes EXCEPT ![t.pane] = s] /\ Same
      /\ t.pane = shownPane =>
            /\ listPanes' = [listPanes EXCEPT ![t.pane] = new]
            /\ rows' = Painted(s) /\ filterBar' = a.bar /\ chosen' = a.sel
            /\ noMatches' = Relabelled(Painted(s), a.bar)
  BY DEF ListingLoaded
<1>6. a.sel \subseteq Painted(s) /\ a.bar \in {b, Closed}
      /\ (~a.done => \A r \in Painted(s) : Named(r) \notin s.pending)
  BY <1>2, AppliedIs
<1>7. a.bar = Closed \/ (a.bar = filterBar /\ filterBar.scope \in {NoScope, ScopeOf(t.pane, s)})
  BY <1>6, SyncedIs
<1>8. ScopeOf(t.pane, new) = ScopeOf(t.pane, s) BY <1>2, <1>3 DEF ScopeOf
<1> HIDE DEF s, b, a, new
<1> DEFINE more == [kind : {"marks", "sizes"}, pane : {t.pane}, of : {t.of}]
<1>9. more \in SUBSET Lookups BY <1>1 DEF Lookups
<1>10. work' = (work \ {t}) \cup more BY <1>4
<1> HIDE DEF more
<1>11. /\ work' \subseteq Lookups
       /\ t.pane # shownPane => (Loading => Loading')
  BY <1>4, <1>9, <1>10, EndsStep DEF ListInv, Loading
<1>12. CASE t.pane # shownPane
  <2>1. listPanes' \in [ListPanes -> ShownAs] /\ listPanes'[shownPane] = listPanes[shownPane]
    BY <1>1, <1>2, <1>5, <1>12 DEF ListInv, ListTypes
  <2>2. ListTypes' BY <1>4, <1>5, <1>11, <1>12, <2>1 DEF ListInv, ListTypes, Same
  <2>3. NoMatchesIsTrue' /\ BarIsOfSomething'
    BY <1>5, <1>12 DEF ListInv, NoMatchesIsTrue, BarIsOfSomething, Same, Kept
  <2>4. shownPane' = shownPane /\ (Loading => Loading') BY <1>4, <1>11, <1>12
  <2>5. FilterIsOfWhatIsShown'
    BY <1>5, <1>12, <2>1, <2>4 DEF ListInv, FilterIsOfWhatIsShown, Same, ScopeOf
  <2>6. RevealsOutrankFilters' BY <2>1, <2>4 DEF ListInv, RevealsOutrankFilters, Loading
  <2>7. MarksAreOfThePane' BY <1>5, <1>12, <2>1, <2>4 DEF ListInv, MarksAreOfThePane, Same
  <2>8. PanesAreOfTheirFolder'
    BY <1>1, <1>2, <1>5, <1>12 DEF ListInv, ListTypes, PanesAreOfTheirFolder, OfItsFolder
  <2> QED BY <2>2, <2>3, <2>5, <2>6, <2>7, <2>8 DEF ListInv
<1>13. CASE t.pane = shownPane
  <2>1. listPanes' \in [ListPanes -> ShownAs] /\ listPanes'[shownPane] = new
    BY <1>1, <1>3, <1>5, <1>13 DEF ListInv, ListTypes
  <2>2. rows' = Painted(s) /\ rows' \subseteq RowStates /\ chosen' \subseteq RowStates
    BY <1>2, <1>5, <1>6, <1>13, PaintedIs
  <2>3. filterBar' = a.bar /\ filterBar' \in Bars BY <1>5, <1>7, <1>13, ClosedIs DEF ListInv, ListTypes
  <2>4. /\ noMatches' \in BOOLEAN
        /\ noMatches' <=> filterBar'.text # Empty /\ Kept(rows', filterBar'.text) = {}
    BY <1>5, <1>7, <1>13, <2>2, <2>3, RelabelledIs DEF ListInv, ListTypes
  <2>5. NoMatchesIsTrue' /\ BarIsOfSomething'
    BY <1>7, <2>3, <2>4, ClosedIs DEF ListInv, NoMatchesIsTrue, BarIsOfSomething, Kept
  <2>6. ListTypes' BY <1>4, <1>11, <2>1, <2>2, <2>3, <2>4 DEF ListInv, ListTypes
  <2>7. FilterIsOfWhatIsShown'
    <3>1. filterBar'.open => filterBar'.scope = ScopeOf(shownPane, new)
      BY <1>7, <1>8, <1>13, <2>3, ClosedIs DEF ListInv, BarIsOfSomething
    <3> QED BY <1>4, <2>1, <2>5, <3>1 DEF FilterIsOfWhatIsShown, BarIsOfSomething, ScopeOf
  <2>8. RevealsOutrankFilters'
    <3>1. Listed(new) = Listed(s) BY <1>2, <1>3 DEF Listed
    <3>2. ASSUME NEW e \in Listed(s), e \in s.pending
          PROVE  \E r \in Painted(s) : Named(r) \in s.pending
      <4>1. e \in Files BY <1>2, <3>2 DEF ShownAs
      <4>2. e = [name |-> e.name, of |-> e.of] BY <4>1 DEF Files
      <4> QED BY <3>2, <4>2, PaintedOf DEF Named
    <3>3. Listed(new) \cap new.pending = {} BY <1>3, <1>6, <3>1, <3>2
    <3> QED BY <1>4, <2>1, <3>3 DEF RevealsOutrankFilters
  <2>9. MarksAreOfThePane'
    <3>1. \A r \in rows' : r.mark = NoShelf BY <1>2, <2>2, PaintedOf
    <3> QED BY <1>4, <2>1, <3>1 DEF MarksAreOfThePane
  <2>10. PanesAreOfTheirFolder'
    BY <1>1, <1>3, <1>5, <1>13 DEF ListInv, ListTypes, PanesAreOfTheirFolder, OfItsFolder
  <2> QED BY <2>5, <2>6, <2>7, <2>8, <2>9, <2>10 DEF ListInv
<1> QED BY <1>12, <1>13

(* ListingFails: whatever was said or typed meanwhile stays. *)
LEMMA ListingFailsStep ==
    ASSUME ListInv, NEW t \in work, ListingFails(t)
    PROVE  ListInv'
<1> DEFINE new == [listPanes[t.pane] EXCEPT !.failed = TRUE]
<1>1. /\ t.kind = "load" /\ t.pane \in ListPanes /\ work' = work \ {t}
      /\ Same /\ UNCHANGED <<shownPane, recents, viewer>>
  BY DEF ListingFails, ListInv, ListTypes, Lookups
<1>2. /\ new \in ShownAs /\ new.failed = TRUE /\ new.path = listPanes[t.pane].path
      /\ new.recent = listPanes[t.pane].recent /\ new.ahead = listPanes[t.pane].ahead
      /\ new.listing = listPanes[t.pane].listing /\ new.marks = listPanes[t.pane].marks
  BY <1>1 DEF ListInv, ListTypes, ShownAs
<1>3. listPanes' = [listPanes EXCEPT ![t.pane] = new] BY DEF ListingFails
<1> HIDE DEF new
<1>4. listPanes' \in [ListPanes -> ShownAs] /\ work' \subseteq Lookups
  BY <1>1, <1>2, <1>3 DEF ListInv, ListTypes
<1>5. PanesAreOfTheirFolder'
  BY <1>1, <1>2, <1>3 DEF ListInv, ListTypes, PanesAreOfTheirFolder, OfItsFolder
<1>6. CASE t.pane = shownPane BY <1>1, <1>2, <1>3, <1>4, <1>5, <1>6, SameStep DEF ListInv, ListTypes
<1>7. CASE t.pane # shownPane
  <2>1. listPanes'[shownPane] = listPanes[shownPane] /\ (Loading => Loading')
    BY <1>1, <1>3, <1>7 DEF ListInv, ListTypes, Loading
  <2> QED BY <1>1, <1>4, <1>5, <2>1, SameStep DEF ListInv, ListTypes
<1> QED BY <1>6, <1>7

(* HitFound: a row more, of whatever folder, without a mark. *)
LEMMA HitFoundStep ==
    ASSUME ListInv, NEW t \in work, HitFound(t)
    PROVE  ListInv'
<1>1. t.of \in Shelves BY DEF HitFound, ListInv, ListTypes, Lookups
<1>2. PICK h \in Hits[t.of] : rows' = rows \cup {[name |-> h.name, of |-> h.of, mark |-> NoShelf]}
  BY DEF HitFound
<1> DEFINE row == [name |-> h.name, of |-> h.of, mark |-> NoShelf]
<1>3. row \in RowStates /\ row.mark = NoShelf
  <2>1. h \in AllHits BY <1>1 DEF AllHits
  <2>2. h.name \in NamesOf /\ h.of \in HomesOf BY <2>1 DEF NamesOf, HomesOf, Entries
  <2> QED BY <2>2 DEF RowStates, Marks
<1>4. rows' = rows \cup {row} BY <1>2
<1> HIDE DEF row
<1>5. /\ noMatches' = Relabelled(rows', filterBar)
      /\ UNCHANGED <<listPanes, shownPane, chosen, filterBar, work, recents, viewer>>
  BY DEF HitFound
<1>6. /\ noMatches' \in BOOLEAN
      /\ noMatches' <=> filterBar.text # Empty /\ Kept(rows', filterBar.text) = {}
  BY <1>5, RelabelledIs DEF ListInv, ListTypes
<1>7. ListTypes' BY <1>3, <1>4, <1>5, <1>6 DEF ListInv, ListTypes
<1>8. NoMatchesIsTrue' /\ BarIsOfSomething'
  BY <1>5, <1>6 DEF ListInv, NoMatchesIsTrue, BarIsOfSomething, Kept
<1>9. FilterIsOfWhatIsShown' /\ RevealsOutrankFilters' /\ PanesAreOfTheirFolder'
  BY <1>5 DEF ListInv, FilterIsOfWhatIsShown, RevealsOutrankFilters, PanesAreOfTheirFolder, ScopeOf
<1>10. MarksAreOfThePane' BY <1>3, <1>4, <1>5 DEF ListInv, MarksAreOfThePane
<1> QED BY <1>7, <1>8, <1>9, <1>10 DEF ListInv

(* SearchEnds. *)
LEMMA SearchEndsStep ==
    ASSUME ListInv, NEW t \in work, SearchEnds(t)
    PROVE  ListInv'
<1>1. Same /\ UNCHANGED <<listPanes, shownPane, recents, viewer>> /\ work' \subseteq Lookups /\ (Loading => Loading')
  BY DEF SearchEnds, ListInv, ListTypes, Loading
<1>2. PanesAreOfTheirFolder' BY <1>1 DEF ListInv, PanesAreOfTheirFolder
<1> QED BY <1>1, <1>2, SameStep DEF ListInv, ListTypes

(* The rows with the marks of a folder. *)
Anew(rs, d) == {[r EXCEPT !.mark = MarkOf(r.name, d)] : r \in rs}

(* They are the same rows, of the same names. *)
LEMMA AnewIs ==
    ASSUME NEW rs \in SUBSET RowStates, NEW d \in Shelves
    PROVE  /\ Anew(rs, d) \subseteq RowStates
           /\ \A r \in Anew(rs, d) : r.mark \in {NoShelf, d} /\ \E q \in rs : r.name = q.name /\ r.of = q.of
           /\ \A q \in rs : \E r \in Anew(rs, d) : r.name = q.name /\ r.of = q.of
<1>1. \A n : MarkOf(n, d) \in {NoShelf, d} /\ MarkOf(n, d) \in Marks BY DEF MarkOf, Marks
<1>2. ASSUME NEW q \in rs
      PROVE  LET r == [q EXCEPT !.mark = MarkOf(q.name, d)]
             IN  r \in RowStates /\ r.mark = MarkOf(q.name, d) /\ r.name = q.name /\ r.of = q.of
  BY <1>1 DEF RowStates
<1> QED BY <1>1, <1>2 DEF Anew

(* StatusFound: the panes that say the folder have its marks, and so the rows. *)
LEMMA StatusFoundStep ==
    ASSUME ListInv, NEW t \in work, StatusFound(t)
    PROVE  ListInv'
<1>1. /\ t.kind = "marks" /\ t.of \in Shelves /\ work' = work \ {t}
      /\ UNCHANGED <<shownPane, filterBar, noMatches, recents, viewer>>
  BY DEF StatusFound, ListInv, ListTypes, Lookups
<1>2. \A p \in ListPanes : LET q == [listPanes[p] EXCEPT !.marks = t.of]
                           IN  q \in ShownAs /\ q.path = listPanes[p].path /\ q.recent = listPanes[p].recent
                               /\ q.pending = listPanes[p].pending /\ q.listing = listPanes[p].listing
                               /\ q.ahead = listPanes[p].ahead /\ q.failed = listPanes[p].failed
                               /\ q.marks = t.of
  <2>1. TAKE p \in ListPanes
  <2>2. listPanes[p] \in ShownAs BY DEF ListInv, ListTypes
  <2> QED BY <1>1, <2>2 DEF ShownAs, Marks
<1>3. listPanes' = [p \in ListPanes |->
                        IF listPanes[p].path = t.of THEN [listPanes[p] EXCEPT !.marks = t.of] ELSE listPanes[p]]
  BY DEF StatusFound
<1>4. listPanes' \in [ListPanes -> ShownAs] BY <1>2, <1>3 DEF ListInv, ListTypes
<1>5. \A p \in ListPanes : /\ listPanes'[p].path = listPanes[p].path /\ listPanes'[p].recent = listPanes[p].recent
                            /\ listPanes'[p].pending = listPanes[p].pending
                            /\ listPanes'[p].listing = listPanes[p].listing
                            /\ listPanes'[p].ahead = listPanes[p].ahead /\ listPanes'[p].failed = listPanes[p].failed
                            /\ listPanes'[p].marks \in {listPanes[p].marks, listPanes[p].path}
  BY <1>2, <1>3
<1>6. Loading' <=> Loading BY <1>1 DEF Loading
<1>7. /\ rows' \subseteq RowStates /\ chosen' \subseteq RowStates
      /\ \A r \in rows' : \E q \in rows : r.name = q.name /\ r.of = q.of
      /\ \A q \in rows : \E r \in rows' : r.name = q.name /\ r.of = q.of
  <2>1. CASE listPanes[shownPane].path = t.of
    <3>1. rows' = Anew(rows, t.of) /\ chosen' = Anew(chosen, t.of) BY <2>1 DEF StatusFound, Anew
    <3> QED BY <1>1, <3>1, AnewIs DEF ListInv, ListTypes
  <2>2. CASE listPanes[shownPane].path # t.of BY <2>2 DEF StatusFound, ListInv, ListTypes
  <2> QED BY <2>1, <2>2
<1>8. ListTypes' BY <1>1, <1>4, <1>7 DEF ListInv, ListTypes
<1>9. BarIsOfSomething' /\ NoMatchesIsTrue'
  BY <1>1, <1>7 DEF ListInv, BarIsOfSomething, NoMatchesIsTrue, Kept
<1>10. FilterIsOfWhatIsShown' BY <1>1, <1>5 DEF ListInv, ListTypes, FilterIsOfWhatIsShown, ScopeOf
<1>11. RevealsOutrankFilters'
  <2>1. Listed(listPanes'[shownPane]) = Listed(listPanes[shownPane])
    BY <1>5 DEF ListInv, ListTypes, Listed
  <2> QED BY <1>1, <1>5, <1>6, <2>1 DEF ListInv, ListTypes, RevealsOutrankFilters, Loading
<1>12. PanesAreOfTheirFolder' BY <1>5 DEF ListInv, PanesAreOfTheirFolder, OfItsFolder
<1>13. MarksAreOfThePane'
  <2> SUFFICES ASSUME ~listPanes[shownPane].recent, ~listPanes[shownPane].ahead
               PROVE  \A r \in rows' : r.mark \in {NoShelf, listPanes[shownPane].path}
    BY <1>1, <1>5 DEF ListInv, ListTypes, MarksAreOfThePane
  <2>1. CASE listPanes[shownPane].path = t.of
    <3>1. rows' = Anew(rows, t.of) BY <2>1 DEF StatusFound, Anew
    <3> QED BY <1>1, <2>1, <3>1, AnewIs DEF ListInv, ListTypes
  <2>2. CASE listPanes[shownPane].path # t.of BY <2>2 DEF StatusFound, ListInv, MarksAreOfThePane
  <2> QED BY <2>1, <2>2
<1> QED BY <1>8, <1>9, <1>10, <1>11, <1>12, <1>13 DEF ListInv

(* SizeFound: a row may no longer be selected. *)
LEMMA SizeFoundStep ==
    ASSUME ListInv, NEW t \in work, SizeFound(t)
    PROVE  ListInv'
<1>1. /\ t.kind = "sizes" /\ work' = work \ {t} /\ chosen' \subseteq chosen
      /\ UNCHANGED <<listPanes, shownPane, rows, filterBar, noMatches, recents, viewer>>
  BY DEF SizeFound
<1>2. Loading' <=> Loading BY <1>1 DEF Loading
<1>3. ListTypes' BY <1>1 DEF ListInv, ListTypes
<1>4. NoMatchesIsTrue' /\ BarIsOfSomething' /\ PanesAreOfTheirFolder' /\ MarksAreOfThePane'
  BY <1>1 DEF ListInv, NoMatchesIsTrue, BarIsOfSomething, PanesAreOfTheirFolder, MarksAreOfThePane, Kept
<1>5. FilterIsOfWhatIsShown' BY <1>1 DEF ListInv, FilterIsOfWhatIsShown, ScopeOf
<1>6. RevealsOutrankFilters' BY <1>1, <1>2 DEF ListInv, RevealsOutrankFilters, Loading
<1> QED BY <1>3, <1>4, <1>5, <1>6 DEF ListInv

(* RecentFound: the recent files, if they are still wanted. *)
LEMMA RecentFoundStep ==
    ASSUME ListInv, NEW t \in work, RecentFound(t)
    PROVE  ListInv'
<1> DEFINE s == [listPanes[t.pane] EXCEPT !.listing = RecentView]
<1>1. /\ t.kind = "recent" /\ t.pane \in ListPanes /\ work' = work \ {t}
      /\ UNCHANGED <<shownPane, recents, viewer>>
  BY DEF RecentFound, ListInv, ListTypes, Lookups
<1>2. s \in ShownAs /\ s.recent = listPanes[t.pane].recent /\ s.path = listPanes[t.pane].path
  BY <1>1 DEF ListInv, ListTypes, ShownAs
<1>3. \/ /\ listPanes[t.pane].recent /\ listPanes' = [listPanes EXCEPT ![t.pane] = s]
         /\ t.pane = shownPane /\ Render(shownPane, s)
      \/ /\ listPanes[t.pane].recent /\ listPanes' = [listPanes EXCEPT ![t.pane] = s]
         /\ t.pane # shownPane /\ Same
      \/ Same /\ UNCHANGED listPanes
  BY DEF RecentFound
<1> HIDE DEF s
<1>4. (Loading' <=> Loading) /\ work' \subseteq Lookups BY <1>1 DEF Loading, ListInv, ListTypes
<1>5. ASSUME listPanes[t.pane].recent, listPanes' = [listPanes EXCEPT ![t.pane] = s]
      PROVE  PanesAreOfTheirFolder'
  BY <1>1, <1>2, <1>5 DEF ListInv, ListTypes, PanesAreOfTheirFolder, OfItsFolder
<1>6. CASE /\ listPanes[t.pane].recent /\ listPanes' = [listPanes EXCEPT ![t.pane] = s]
           /\ t.pane = shownPane /\ Render(shownPane, s)
  <2>1. listPanes' \in [ListPanes -> ShownAs] /\ listPanes'[shownPane] = s
    BY <1>1, <1>2, <1>6 DEF ListInv, ListTypes
  <2>2. /\ rows' \subseteq RowStates /\ chosen' \subseteq RowStates
        /\ filterBar' \in Bars /\ noMatches' \in BOOLEAN
        /\ NoMatchesIsTrue' /\ BarIsOfSomething'
        /\ filterBar'.open => filterBar'.scope = ScopeOf(shownPane, s)
    BY <1>2, <1>6, RenderStep DEF ListInv, ListTypes
  <2>3. ListTypes' BY <1>1, <1>4, <2>1, <2>2 DEF ListInv, ListTypes
  <2>4. FilterIsOfWhatIsShown' BY <1>1, <2>1, <2>2 DEF FilterIsOfWhatIsShown, BarIsOfSomething
  <2>5. listPanes'[shownPane'].recent BY <1>1, <1>2, <1>6, <2>1
  <2>6. RevealsOutrankFilters' /\ MarksAreOfThePane' /\ PanesAreOfTheirFolder'
    BY <1>5, <1>6, <2>5 DEF RevealsOutrankFilters, MarksAreOfThePane
  <2> QED BY <2>2, <2>3, <2>4, <2>6 DEF ListInv
<1>7. CASE /\ Same
           /\ \/ UNCHANGED listPanes
              \/ /\ listPanes[t.pane].recent /\ listPanes' = [listPanes EXCEPT ![t.pane] = s]
                 /\ t.pane # shownPane
  <2>1. listPanes' \in [ListPanes -> ShownAs] /\ listPanes'[shownPane] = listPanes[shownPane]
    BY <1>1, <1>2, <1>7 DEF ListInv, ListTypes
  <2>2. PanesAreOfTheirFolder' BY <1>5, <1>7 DEF ListInv, PanesAreOfTheirFolder
  <2> QED BY <1>1, <1>4, <1>7, <2>1, <2>2, SameStep DEF ListInv, ListTypes
<1> QED BY <1>3, <1>6, <1>7

-------------------------------------------------------------------------------
(* Dragging needs no more of the view than that its rows are what they are. *)

DragFiles  == (SUBSET Files) \cup Foreign
DragNames  == Both \cup UNION DragOffers
DragStates ==
    [on : BOOLEAN, n : Nat, files : DragFiles, from : {"raven", "other"}, offers : SUBSET DragNames,
     now : SUBSET DragNames, ready : BOOLEAN, key : {"none", "ctrl", "shift"}]
DeviceSets == {{}} \cup {{DeviceOf[f.of] : f \in files} : files \in DragFiles}
Infos      == [of : Nat, offered : SUBSET DragNames, known : BOOLEAN, devices : DeviceSets]

(* What is known of a drag is of this one: the file systems of its files, and what its source
   offers, though less is offered now. *)
KnownOfTheDrag(i) ==
    /\ i.devices \in {{}, {DeviceOf[f.of] : f \in drag.files}}
    /\ drag.from = "other" => drag.offers \subseteq drag.now \cup i.offered

DragInv ==
    /\ drag \in DragStates /\ info \in Infos /\ info.of <= drag.n
    /\ drag.on => IF info.of = drag.n THEN KnownOfTheDrag(info)
                  ELSE drag.from = "other" => drag.offers \subseteq drag.now
    /\ MovesAreAskedFor

(* NoDrag: nothing is dragged. *)
LEMMA NoDragIs ==
    ASSUME NEW n \in Nat
    PROVE  /\ NoDrag(n) \in DragStates /\ NoDrag(n).on = FALSE /\ NoDrag(n).n = n
BY DEF DragFiles, NoDrag, DragStates

(* A drag begins, with a number of its own. *)
LEMMA DragBegins ==
    ASSUME DragInv, NEW files \in DragFiles, NEW from \in {"raven", "other"},
           NEW offers \in SUBSET DragNames,
           NEW d \in DragStates, d.n = drag.n + 1, d.offers = offers, d.now = offers,
           drag' = d, UNCHANGED <<info, over, moved>>
    PROVE  DragInv'
BY DEF DragInv, DragStates, Infos, MovesAreAskedFor

(* What is known of a drag, or is not known yet, is of it. *)
LEMMA InfoIs ==
    ASSUME DragInv, drag.on
    PROVE  DragInfo(drag.n) \in Infos /\ DragInfo(drag.n).of = drag.n /\ KnownOfTheDrag(DragInfo(drag.n))
<1> DEFINE f == Fresh(drag.n)
<1>1. drag.n \in Nat BY DEF DragInv, DragStates
<1>2. f \in Infos /\ f.of = drag.n /\ f.offered = {} /\ f.devices = {}
  BY <1>1 DEF DeviceSets, Fresh, NoInfo, Infos
<1> HIDE DEF f
<1>3. CASE info.of = drag.n BY <1>3 DEF DragInv, DragInfo
<1>4. CASE info.of # drag.n BY <1>4, <1>2 DEF DragInfo, f, DragInv, KnownOfTheDrag
<1> QED BY <1>3, <1>4

(* So it is when the file systems of its files were looked for. *)
LEMMA WithDevicesIs ==
    ASSUME drag \in DragStates, NEW i \in Infos, i.of = drag.n, KnownOfTheDrag(i),
           NEW j \in WithDevices(i)
    PROVE  j \in Infos /\ j.of = drag.n /\ KnownOfTheDrag(j)
<1>1. CASE i.known BY <1>1 DEF WithDevices
<1>2. CASE ~i.known
  <2>1. PICK v \in {{}, {DeviceOf[f.of] : f \in drag.files}} : j = [i EXCEPT !.known = TRUE, !.devices = v]
    BY <1>2 DEF WithDevices
  <2>2. v \in DeviceSets BY DEF DeviceSets, DragStates
  <2> DEFINE new == [i EXCEPT !.known = TRUE, !.devices = v]
  <2>3. new \in Infos /\ new.of = i.of /\ new.offered = i.offered /\ new.devices = v BY <2>2 DEF Infos
  <2>4. j = new BY <2>1
  <2> HIDE DEF new
  <2> QED BY <2>1, <2>3, <2>4 DEF KnownOfTheDrag
<1> QED BY <1>1, <1>2

(* Seen: what is offered now has been seen. *)
LEMMA SeenIs ==
    ASSUME drag \in DragStates, NEW i \in Infos
    PROVE  /\ Seen(i) \in Infos /\ Seen(i).of = i.of /\ Seen(i).devices = i.devices
           /\ Seen(i).offered = i.offered \cup drag.now
BY DEF Seen, Infos, DragStates

(* ChooseDragAction: a move is asked for, or the file systems are the same, or a copy is not
   offered. *)
LEMMA ChoiceIs ==
    ASSUME NEW key, NEW same, NEW offered
    PROVE  /\ ChooseDragAction(key, same, offered) \in offered \cup {"none"}
           /\ ChooseDragAction(key, same, offered) = "move" =>
                 key = "shift" \/ same = "yes" \/ "copy" \notin offered
<1> DEFINE any == CHOOSE o \in offered : TRUE
<1>1. offered # {} => any \in offered OBVIOUS
<1>2. Wanted(key, same) \in {"copy", "move"} /\ (Wanted(key, same) = "move" => key = "shift" \/ same = "yes")
  BY DEF Wanted
<1> HIDE DEF any
<1>3. ChooseDragAction(key, same, offered) =
          IF Wanted(key, same) \in offered THEN Wanted(key, same) ELSE IF offered = {} THEN "none" ELSE any
  BY DEF ChooseDragAction, any
<1> QED BY <1>1, <1>2, <1>3

(* Answer: what a narrowed offer leaves out has been seen. *)
LEMMA AnswerStep ==
    ASSUME DragInv, drag.on, NEW i \in Infos, i.of = drag.n, KnownOfTheDrag(i), NEW o,
           Answer(o, i), moved' = moved
    PROVE  DragInv'
<1>1. drag \in DragStates /\ drag.n \in Nat BY DEF DragInv, DragStates
<1>2. MovesAreAskedFor' BY DEF DragInv, MovesAreAskedFor
<1>3. /\ Seen(i) \in Infos /\ Seen(i).of = drag.n /\ Seen(i).devices = i.devices
      /\ Seen(i).offered = i.offered \cup drag.now
  BY <1>1, SeenIs
<1>4. /\ info' \in Infos /\ info'.of = drag.n /\ info'.devices = i.devices
      /\ i.offered \subseteq info'.offered
  BY <1>3 DEF Answer
<1>5. CASE UNCHANGED drag BY <1>1, <1>2, <1>4, <1>5 DEF DragInv, KnownOfTheDrag
<1>6. CASE ~UNCHANGED drag
  <2> DEFINE a == ChooseDragAction(drag.key, o.same, Offered(i))
  <2>1. /\ drag.from = "other" /\ a # "none" /\ drag' = [drag EXCEPT !.now = {a}]
        /\ info' = Seen(i)
    BY <1>6 DEF Answer
  <2>2. a \in Offered(i) \cup {"none"} BY ChoiceIs
  <2> HIDE DEF a
  <2>3. a \in DragNames BY <1>3, <2>1, <1>1, <2>2 DEF Offered, Infos, DragStates
  <2> DEFINE new == [drag EXCEPT !.now = {a}]
  <2>4. /\ new \in DragStates /\ new.on = drag.on /\ new.n = drag.n /\ new.files = drag.files
        /\ new.from = drag.from /\ new.offers = drag.offers
    BY <1>1, <2>3 DEF DragStates
  <2>5. drag' = new BY <2>1
  <2> HIDE DEF new
  <2>6. KnownOfTheDrag(info)' BY <1>3, <2>1, <2>4, <2>5 DEF KnownOfTheDrag
  <2> QED BY <1>1, <1>2, <1>4, <2>4, <2>5, <2>6 DEF DragInv
<1> QED BY <1>5, <1>6

(* The drag is as it was but for the keys held, or that its value came; and more is known of
   it. *)
LEMMA DragGoesOn ==
    ASSUME DragInv, drag.on, NEW d \in DragStates, d.on = drag.on, d.n = drag.n, d.files = drag.files,
           d.from = drag.from, d.offers = drag.offers, d.now = drag.now, drag' = d,
           info' = info \/ (info' \in Infos /\ info'.of = drag.n /\ KnownOfTheDrag(info')), moved' = moved
    PROVE  DragInv'
BY DEF DragInv, MovesAreAskedFor, KnownOfTheDrag, DragStates

(* The drag ends. *)
LEMMA DragEnds ==
    ASSUME DragInv, drag' = NoDrag(drag.n), info' = info \/ (info' \in Infos /\ info'.of = drag.n),
           MovesAreAskedFor'
    PROVE  DragInv'
<1>1. drag.n \in Nat BY DEF DragInv, DragStates
<1>2. drag' \in DragStates /\ drag'.on = FALSE /\ drag'.n = drag.n BY <1>1, NoDragIs
<1>3. info' \in Infos /\ info'.of <= drag'.n BY <1>1, <1>2 DEF DragInv, Infos
<1> QED BY <1>2, <1>3 DEF DragInv

(* DropHere: a move that nobody asked for is within one file system, or a copy was not offered. *)
LEMMA DropStep ==
    ASSUME DragInv, DropHere
    PROVE  DragInv'
<1>1. PICK i \in WithDevices(DragInfo(drag.n)) :
          LET dest == Destination(over.at, over.folder)
              files == ToTransfer(drag.files, dest)
              op == ChooseDragAction(drag.key, SameAs(i, dest), Offered(i))
          IN  /\ info' = Seen(i)
              /\ moved' = IF files = {} \/ op = "none" THEN {}
                          ELSE {[op |-> op, files |-> files, to |-> dest, of |-> drag.files,
                                             key |-> drag.key, offers |-> drag.offers]}
  BY DEF DropHere
<1> DEFINE dest == Destination(over.at, over.folder)
<1> DEFINE files == ToTransfer(drag.files, dest)
<1> DEFINE op == ChooseDragAction(drag.key, SameAs(i, dest), Offered(i))
<1> DEFINE m == [op |-> op, files |-> files, to |-> dest, of |-> drag.files,
                 key |-> drag.key, offers |-> drag.offers]
<1>2. info' = Seen(i) /\ moved' \subseteq {m} BY <1>1
<1>3. m.op = op /\ m.to = dest /\ m.of = drag.files /\ m.key = drag.key /\ m.offers = drag.offers
  OBVIOUS
<1>4. drag \in DragStates /\ drag.on BY DEF DragInv, DropHere
<1>5. i \in Infos /\ i.of = drag.n /\ KnownOfTheDrag(i) BY <1>4, InfoIs, WithDevicesIs
<1>6. Seen(i) \in Infos /\ Seen(i).of = drag.n /\ Seen(i).offered = i.offered \cup drag.now
  BY <1>4, <1>5, SeenIs
<1>7. drag.offers \subseteq Offered(i) BY <1>4, <1>5, <1>6 DEF Offered, KnownOfTheDrag, DragStates
<1>8. ASSUME SameAs(i, dest) = "yes"
      PROVE  dest \notin Remote /\ \A f \in drag.files : DeviceOf[f.of] = DeviceOf[dest]
  <2>1. dest \notin Remote /\ i.devices # {} /\ \A v \in i.devices : v = DeviceOf[dest]
    BY <1>8 DEF SameAs
  <2> HIDE DEF dest
  <2> QED BY <1>5, <2>1 DEF KnownOfTheDrag
<1>9. op = "move" => drag.key = "shift" \/ SameAs(i, dest) = "yes" \/ "copy" \notin Offered(i)
  BY ChoiceIs
<1> HIDE DEF m, op, files, dest
<1>10. MovesAreAskedFor' BY <1>2, <1>3, <1>7, <1>8, <1>9 DEF MovesAreAskedFor
<1> QED BY <1>2, <1>6, <1>10, DragEnds DEF DropHere

(* StartDrag: the selection, or a row. *)
LEMMA StartDragStep ==
    ASSUME ListInv, DragInv, StartDrag
    PROVE  DragInv'
<1>1. PICK r \in Kept(rows, filterBar.text) :
          drag' = [NoDrag(drag.n + 1) EXCEPT
                       !.on = TRUE, !.files = IF r \in chosen THEN {Named(c) : c \in chosen} ELSE {Named(r)},
                                 !.offers = Both, !.now = Both]
  BY DEF StartDrag
<1> DEFINE files == IF r \in chosen THEN {Named(c) : c \in chosen} ELSE {Named(r)}
<1> DEFINE new == [NoDrag(drag.n + 1) EXCEPT !.on = TRUE, !.files = files, !.offers = Both, !.now = Both]
<1>2. files \in DragFiles
  <2>1. \A c \in RowStates : Named(c) \in Files BY DEF Named, RowStates, Files
  <2>2. r \in RowStates /\ chosen \subseteq RowStates BY DEF ListInv, ListTypes, Kept
  <2> QED BY <2>1, <2>2 DEF DragFiles
<1>3. Both \subseteq DragNames /\ Both \in SUBSET DragNames BY DEF DragNames
<1>4. drag.n + 1 \in Nat BY DEF DragInv, DragStates
<1> HIDE DEF files
<1>5. new \in DragStates /\ new.n = drag.n + 1 /\ new.offers = Both /\ new.now = Both
  BY <1>2, <1>3, <1>4 DEF NoDrag, DragStates
<1>6. drag' = new /\ UNCHANGED <<info, over, moved>> BY <1>1 DEF StartDrag, files
<1> HIDE DEF new
<1> QED BY <1>2, <1>3, <1>5, <1>6, DragBegins

(* BringFiles: what another program drags. *)
LEMMA BringFilesStep ==
    ASSUME DragInv, BringFiles
    PROVE  DragInv'
<1>1. PICK files \in Foreign, offers \in DragOffers :
          drag' = [NoDrag(drag.n + 1) EXCEPT
                       !.on = TRUE, !.files = files, !.from = "other", !.offers = offers, !.now = offers]
  BY DEF BringFiles
<1> DEFINE new == [NoDrag(drag.n + 1) EXCEPT
                       !.on = TRUE, !.files = files, !.from = "other", !.offers = offers, !.now = offers]
<1>2. files \in DragFiles /\ offers \in SUBSET DragNames /\ drag.n + 1 \in Nat
  BY DEF DragFiles, DragNames, DragInv, DragStates
<1>3. new \in DragStates /\ new.n = drag.n + 1 /\ new.offers = offers /\ new.now = offers
  BY <1>2 DEF NoDrag, DragStates
<1>4. drag' = new /\ UNCHANGED <<info, over, moved>> BY <1>1 DEF BringFiles
<1> HIDE DEF new
<1> QED BY <1>2, <1>3, <1>4, DragBegins

(* What happens over the window while something is dragged. *)
LEMMA DragStepKeeps ==
    ASSUME DragInv, DragStep
    PROVE  DragInv'
<1>1. drag \in DragStates BY DEF DragInv
<1>2. CASE EnterTarget
  <2> DEFINE targets == {[at |-> "listing", folder |-> NoShelf]}
                     \cup [at : {"row"}, folder : {FolderOf[<<r.name, r.of>>] : r \in {s \in rows : <<s.name, s.of>> \in DOMAIN FolderOf}}]
                     \cup [at : {"place"}, folder : Shelves \cup Remote]
  <2> DEFINE known == IF drag.ready THEN WithDevices(DragInfo(drag.n)) ELSE {DragInfo(drag.n)}
  <2>1. \E target \in targets : \E i \in known :
           LET o == Refreshed(target.at, target.folder, i) IN over' = o /\ Answer(o, i)
    BY <1>2 DEF EnterTarget
  <2> HIDE DEF targets
  <2>2. PICK target \in targets, i \in known : Answer(Refreshed(target.at, target.folder, i), i) BY <2>1
  <2>3. drag.on /\ moved' = moved BY <1>2 DEF EnterTarget
  <2>4. i \in Infos /\ i.of = drag.n /\ KnownOfTheDrag(i) BY <1>1, <2>3, InfoIs, WithDevicesIs
  <2> QED BY <2>2, <2>3, <2>4, AnswerStep
<1>3. CASE ValueComes
  <2> DEFINE new == [drag EXCEPT !.ready = TRUE]
  <2>1. PICK i \in WithDevices(DragInfo(drag.n)) : info' = i BY <1>3 DEF ValueComes
  <2>2. drag.on /\ moved' = moved /\ drag' = new BY <1>3 DEF ValueComes
  <2>3. i \in Infos /\ i.of = drag.n /\ KnownOfTheDrag(i) BY <1>1, <2>2, InfoIs, WithDevicesIs
  <2>4. /\ new \in DragStates /\ new.on = drag.on /\ new.n = drag.n /\ new.files = drag.files
        /\ new.from = drag.from /\ new.offers = drag.offers /\ new.now = drag.now
    BY <1>1 DEF DragStates
  <2> HIDE DEF new
  <2>5. KnownOfTheDrag(info') BY <2>1, <2>3
  <2> QED BY <2>1, <2>2, <2>3, <2>4, <2>5, DragGoesOn
<1>4. CASE PressKey
  <2>1. PICK k \in {"none", "ctrl", "shift"} : drag' = [drag EXCEPT !.key = k] BY <1>4 DEF PressKey
  <2> DEFINE new == [drag EXCEPT !.key = k]
  <2>2. /\ new \in DragStates /\ new.on = drag.on /\ new.n = drag.n /\ new.files = drag.files
        /\ new.from = drag.from /\ new.offers = drag.offers /\ new.now = drag.now
    BY <1>1 DEF DragStates
  <2>3. drag' = new BY <2>1
  <2> HIDE DEF new
  <2> QED BY <1>4, <2>2, <2>3, DragGoesOn DEF PressKey
<1>5. CASE MoveOver BY <1>5, InfoIs, AnswerStep DEF MoveOver
<1>6. CASE LeaveTarget BY <1>6 DEF LeaveTarget, DragInv, KnownOfTheDrag, MovesAreAskedFor
<1>7. CASE DropHere BY <1>7, DropStep
<1>8. CASE GiveUp BY <1>8, DragEnds DEF GiveUp, DragInv, MovesAreAskedFor
<1> QED BY <1>2, <1>3, <1>4, <1>5, <1>6, <1>7, <1>8 DEF DragStep

-------------------------------------------------------------------------------
(* The view as it begins: its folder is being listed. *)
LEMMA ViewBegins ==
    ASSUME ListInit, DragInit
    PROVE  ListInv /\ DragInv
<1>1. viewer \in AllViewers /\ viewer.home \in Shelves /\ shownPane \in ListPanes
  BY ListingAssumption DEF ListInit, ListingAssumption, AllViewers
<1> DEFINE s == [path |-> viewer.home, listing |-> NoShelf, recent |-> FALSE, marks |-> NoShelf, pending |-> {},
                ahead |-> FALSE, failed |-> FALSE]
<1>2. s \in ShownAs /\ OfItsFolder(s) /\ s.pending = {} BY <1>1 DEF ShownAs, Marks, OfItsFolder
<1>3. listPanes = [p \in ListPanes |-> s] BY DEF ListInit
<1> HIDE DEF s
<1>4. listPanes \in [ListPanes -> ShownAs] /\ PanesAreOfTheirFolder /\ listPanes[shownPane].pending = {}
  BY <1>1, <1>2, <1>3 DEF PanesAreOfTheirFolder
<1> DEFINE t == [kind |-> "load", pane |-> shownPane, of |-> viewer.home]
<1>5. t \in Lookups BY <1>1 DEF Lookups
<1>6. work = {t} BY DEF ListInit
<1> HIDE DEF t
<1>7. work \subseteq Lookups BY <1>5, <1>6
<1>8. ListTypes BY <1>1, <1>4, <1>7, ClosedIs DEF ListInit, ListTypes
<1>9. ListInv BY <1>4, <1>8, ClosedIs DEF ListInit, ListInv, NoMatchesIsTrue, BarIsOfSomething,
    FilterIsOfWhatIsShown, RevealsOutrankFilters, MarksAreOfThePane
<1>10. DragInv
  <2>1. NoInfo \in Infos /\ NoInfo.of = 0 BY DEF NoInfo, Infos, DeviceSets
  <2>2. drag \in DragStates /\ drag.on = FALSE /\ drag.n = 0 /\ info = NoInfo /\ moved = {}
    BY NoDragIs DEF DragInit
  <2> QED BY <2>1, <2>2 DEF DragInv, MovesAreAskedFor
<1> QED BY <1>9, <1>10

(* A step of the view, or of a drag over it, keeps both invariants. *)
LEMMA ViewStep ==
    ASSUME ListInv, DragInv, [DragNext]_<<listVars, dragVars>>
    PROVE  ListInv' /\ DragInv'
<1>1. UNCHANGED listVars => ListInv'
  BY DEF listVars, ListInv, ListTypes, NoMatchesIsTrue, BarIsOfSomething, FilterIsOfWhatIsShown,
    RevealsOutrankFilters, PanesAreOfTheirFolder, MarksAreOfThePane, ScopeOf, Kept
<1>2. UNCHANGED dragVars => DragInv' BY DEF dragVars, DragInv, KnownOfTheDrag, MovesAreAskedFor
<1>3. ASSUME ListNext PROVE ListInv'
  <2>1. CASE \E d \in Shelves : OpenRow(d) \/ GoToPlace(d) \/ RevealRow(d)
    BY <2>1, OpenRowStep, GoToPlaceStep, RevealRowStep
  <2>2. CASE GoToRecent \/ LeaveRecent \/ ReloadView \/ Escape \/ Choose \/ SearchBelow
    BY <2>2, GoToRecentStep, LeaveRecentStep, ReloadViewStep, EscapeStep, ChooseStep, SearchBelowStep
  <2>3. CASE \E p \in viewer.panes : SwitchTab(p) BY <2>3, SwitchTabStep
  <2>4. CASE \E t \in Texts : Type(t) \/ Erase(t) BY <2>4, TypeStep, EraseStep
  <2>5. CASE \E t \in work : \/ ListingLoaded(t) \/ ListingFails(t) \/ StatusFound(t) \/ SizeFound(t)
                             \/ RecentFound(t) \/ HitFound(t) \/ SearchEnds(t)
    BY <2>5, ListingLoadedStep, ListingFailsStep, StatusFoundStep, SizeFoundStep, RecentFoundStep,
      HitFoundStep, SearchEndsStep
  <2> QED BY <1>3, <2>1, <2>2, <2>3, <2>4, <2>5 DEF ListNext
<1>4. CASE /\ StartDrag \/ BringFiles
           /\ UNCHANGED <<listPanes, shownPane, rows, chosen, filterBar, noMatches, work, recents>>
  <2>1. Same /\ (Loading => Loading') /\ viewer' \in AllViewers /\ PanesAreOfTheirFolder'
    BY <1>4, DoesIs DEF StartDrag, BringFiles, ListInv, ListTypes, Same, Loading, PanesAreOfTheirFolder
  <2> QED BY <1>4, <2>1, SameStep, StartDragStep, BringFilesStep DEF ListInv, ListTypes
<1>5. DragStep => DragInv' BY DragStepKeeps
<1>6. \/ ListNext /\ UNCHANGED dragVars
      \/ /\ StartDrag \/ BringFiles
         /\ UNCHANGED <<listPanes, shownPane, rows, chosen, filterBar, noMatches, work, recents>>
      \/ DragStep /\ UNCHANGED listVars
      \/ UNCHANGED listVars /\ UNCHANGED dragVars
  BY DEF DragNext
<1> QED BY <1>1, <1>2, <1>3, <1>4, <1>5, <1>6

(* Rows of a view, its marks, its filter and the label over it tell of what is shown, whatever
   tasks end in which order. *)
THEOREM RowsAreAlwaysAsShown == DragSpec => []RowsAreAsShown
<1>1. ListInit /\ DragInit => ListInv /\ DragInv BY ViewBegins
<1>2. ListInv /\ DragInv /\ [DragNext]_<<listVars, dragVars>> => (ListInv /\ DragInv)' BY ViewStep
<1>3. ListInv /\ DragInv => RowsAreAsShown
  <2> SUFFICES ASSUME ListInv PROVE RowsAreAsShown OBVIOUS
  <2>1. MarksAreOfTheirFolder
    <3> DEFINE s == listPanes[shownPane]
    <3> SUFFICES ASSUME ~s.recent, ~s.ahead, NEW r \in rows, r.of = s.listing
                 PROVE  r.mark \in {NoShelf, r.of}
      BY DEF MarksAreOfTheirFolder
    <3>1. s.listing \in {NoShelf, s.path} BY DEF ListInv, ListTypes, PanesAreOfTheirFolder, OfItsFolder
    <3>2. r.mark \in {NoShelf, s.path} BY DEF ListInv, MarksAreOfThePane
    <3>3. r.of # NoShelf BY HomesAreFolders DEF ListInv, ListTypes, RowStates
    <3> QED BY <3>1, <3>2, <3>3
  <2> QED BY <2>1 DEF ListInv, RowsAreAsShown
<1> QED BY <1>1, <1>2, <1>3, PTL DEF DragSpec

(* Files are moved only if that was asked for, is all that was offered, or stays within one
   file system, however drags follow each other. *)
THEOREM MovesAreAlwaysAskedFor == DragSpec => []MovesAreAskedFor
<1>1. ListInit /\ DragInit => ListInv /\ DragInv BY ViewBegins
<1>2. ListInv /\ DragInv /\ [DragNext]_<<listVars, dragVars>> => (ListInv /\ DragInv)' BY ViewStep
<1>3. ListInv /\ DragInv => MovesAreAskedFor BY DEF DragInv
<1> QED BY <1>1, <1>2, <1>3, PTL DEF DragSpec
-------------------------------------------------------------------------------
(* The preview panel. *)

MaybeItem   == Items \cup {NoItem}
Pages       == {"empty", "loading", "text", "image", "video", "frame", "document", "directory",
                "unsupported", "other"}
Streams     == [item : MaybeItem, number : Nat]
PanelStates ==
    [visible : BOOLEAN, requested : MaybeItem, shown : MaybeItem, page : Pages, content : MaybeItem,
     video : MaybeItem, stream : Streams, streams : Nat, picture : MaybeItem, slot : MaybeItem,
     watch : MaybeItem]
SideFolders == {ItemFolder[f] : f \in Items} \cup {w.folder : w \in PreviewScenes}
SideStates  == [folder : SideFolders, recent : BOOLEAN, row : MaybeItem, listing : BOOLEAN, checking : BOOLEAN]

(* What a panel presents is one thing, all over it. *)
PanelFits(p) ==
    /\ p \in PanelStates
    /\ p.shown = p.requested /\ p.watch = p.shown
    /\ p.page \notin {"empty", "loading"} => p.content = p.shown
    /\ p.stream # NoStream => p.visible /\ p.stream.item = p.shown /\ p.video = p.shown /\ p.content = p.shown
    /\ p.video # NoItem => p.video = p.shown /\ p.content = p.shown
    /\ p.page = "video" => p.video # NoItem

PreviewTypes ==
    /\ exists \in [Items -> BOOLEAN] /\ side \in [Sides -> SideStates] /\ activeSide \in Sides
    /\ generating \subseteq Items /\ failed \subseteq Items /\ ready \in Seq(Items)

(* A preview that a panel waits for is on its way, or failed. *)
Expected(p) ==
    p.page = "loading" =>
        \/ p.shown \in generating \cup failed
        \/ \E i \in 1..Len(ready) : ready[i] = p.shown

(* A panel on screen that presents a video plays it, or is about to. *)
Plays == panel.visible /\ panel.page = "video" => panel.stream # NoStream \/ <<"reopen">> \in waiting

(* The window is about to follow the selection. *)
Following == <<"follow">> \in waiting \/ <<"sync">> \in waiting

(* With a row selected the panel is on it, unless it was let go. *)
OnSelected ==
    panel.visible /\ ~Following /\ Selected # NoItem =>
        panel.shown = Selected \/ (panel.shown = NoItem /\ Selected \in failed)

(* With none selected it is on nothing, or on what is still there in the folder of the side, or
   about to be let go. *)
OnWhatIsThere ==
    panel.visible /\ ~Following /\ Selected = NoItem /\ panel.shown # NoItem
    /\ ~side[activeSide].listing /\ ~side[activeSide].recent =>
        /\ ItemFolder[panel.shown] = side[activeSide].folder
        /\ exists[panel.shown] \/ {<<"gone", panel.shown>>, <<"grace", panel.shown>>} \cap waiting # {}

PreviewInv ==
    PreviewTypes /\ PanelFits(panel) /\ Expected(panel) /\ Plays /\ OnSelected /\ OnWhatIsThere

-------------------------------------------------------------------------------
(* What the functions of the panel make of it. *)

(* ReleaseVideo, with the panel shown or hidden. *)
LEMMA ReleaseIs ==
    ASSUME NEW p, PanelFits(p)
    PROVE  LET q == ReleaseVideo(p)
           IN  /\ PanelFits(q) /\ q.visible = p.visible /\ q.shown = p.shown /\ q.page = p.page
               /\ q.stream = NoStream
<1> DEFINE q == ReleaseVideo(p)
<1>1. NoStream \in Streams BY DEF NoStream, Streams, MaybeItem
<1>2. p \in PanelStates BY DEF PanelFits
<1>3. q \in PanelStates BY <1>1, <1>2 DEF ReleaseVideo, PanelStates
<1>4. /\ q.visible = p.visible /\ q.requested = p.requested /\ q.shown = p.shown /\ q.page = p.page
      /\ q.content = p.content /\ q.video = p.video /\ q.stream = NoStream /\ q.watch = p.watch
      /\ q.streams = p.streams
  BY <1>2 DEF ReleaseVideo, PanelStates
<1> HIDE DEF q
<1>5. PanelFits(q) BY <1>3, <1>4 DEF PanelFits
<1> QED BY <1>4, <1>5 DEF q

(* StopVideo: no video is left of what was presented. *)
LEMMA StopIs ==
    ASSUME NEW p \in PanelStates
    PROVE  LET q == StopVideo(p)
           IN  /\ q \in PanelStates /\ q.video = NoItem /\ q.stream = NoStream
               /\ q.visible = p.visible /\ q.requested = p.requested /\ q.shown = p.shown
               /\ q.page = p.page /\ q.content = p.content /\ q.watch = p.watch
<1> DEFINE r == ReleaseVideo(p)
<1> DEFINE q == [r EXCEPT !.video = NoItem]
<1>1. NoStream \in Streams /\ NoItem \in MaybeItem BY DEF NoStream, Streams, MaybeItem
<1>2. r \in PanelStates BY <1>1 DEF ReleaseVideo, PanelStates
<1>3. /\ r.visible = p.visible /\ r.requested = p.requested /\ r.shown = p.shown /\ r.page = p.page
      /\ r.content = p.content /\ r.stream = NoStream /\ r.watch = p.watch
  BY DEF ReleaseVideo, PanelStates
<1> HIDE DEF r
<1>4. q \in PanelStates BY <1>1, <1>2 DEF PanelStates
<1>5. /\ q.visible = r.visible /\ q.requested = r.requested /\ q.shown = r.shown /\ q.page = r.page
      /\ q.content = r.content /\ q.stream = r.stream /\ q.watch = r.watch /\ q.video = NoItem
  BY <1>2 DEF PanelStates
<1>6. StopVideo(p) = q BY DEF StopVideo, r
<1> HIDE DEF q
<1> QED BY <1>3, <1>4, <1>5, <1>6

(* ShowHeader. *)
LEMMA HeaderIs ==
    ASSUME NEW p \in PanelStates, NEW f \in Items
    PROVE  LET q == ShowHeader(p, f)
           IN  /\ q \in PanelStates /\ q.shown = f /\ q.watch = f
               /\ q.visible = p.visible /\ q.requested = p.requested /\ q.video = p.video
               /\ q.page = p.page /\ q.content = p.content /\ q.stream = p.stream
BY DEF ShowHeader, PanelStates, MaybeItem

(* Request: the panel waits for another item, or has it. *)
LEMMA RequestIs ==
    ASSUME NEW p, PanelFits(p), NEW f \in Items
    PROVE  LET q == Request(p, f)
           IN  /\ PanelFits(q) /\ q.visible = p.visible /\ q.shown = f
               /\ q = p \/ (p.requested # f /\ q.page = "loading")
<1>1. CASE p.requested = f BY <1>1 DEF Request, IsShowing, PanelFits
<1>2. CASE p.requested # f
  <2> DEFINE h == ShowHeader(StopVideo(p), f)
  <2> DEFINE q == [h EXCEPT !.requested = f, !.page = "loading", !.content = NoItem]
  <2>1. /\ h \in PanelStates /\ h.shown = f /\ h.watch = f /\ h.video = NoItem /\ h.stream = NoStream
        /\ h.visible = p.visible
    BY StopIs, HeaderIs DEF PanelFits
  <2>2. Request(p, f) = q BY <1>2 DEF Request, IsShowing
  <2> HIDE DEF h
  <2>3. q \in PanelStates
    <3>1. f \in MaybeItem /\ NoItem \in MaybeItem /\ "loading" \in Pages BY DEF MaybeItem, Pages
    <3> QED BY <2>1, <3>1 DEF PanelStates
  <2>4. /\ q.shown = f /\ q.watch = f /\ q.video = NoItem /\ q.stream = NoStream
        /\ q.visible = p.visible /\ q.requested = f /\ q.page = "loading" /\ q.content = NoItem
    BY <2>1 DEF PanelStates
  <2> HIDE DEF q
  <2> QED BY <1>2, <2>2, <2>3, <2>4 DEF PanelFits
<1> QED BY <1>1, <1>2

(* Clear: the panel presents nothing. *)
LEMMA ClearIs ==
    ASSUME NEW p, PanelFits(p)
    PROVE  LET q == Clear(p)
           IN  PanelFits(q) /\ q.visible = p.visible /\ q.shown = NoItem /\ q.page = "empty"
<1> DEFINE h == StopVideo(p)
<1> DEFINE q == [h EXCEPT !.requested = NoItem, !.shown = NoItem, !.watch = NoItem,
                         !.slot = NoItem, !.page = "empty", !.content = NoItem]
<1>1. h \in PanelStates /\ h.video = NoItem /\ h.stream = NoStream /\ h.visible = p.visible
  BY StopIs DEF PanelFits
<1>2. Clear(p) = q BY DEF Clear
<1> HIDE DEF h
<1>3. q \in PanelStates
  <2>1. NoItem \in MaybeItem /\ "empty" \in Pages BY DEF MaybeItem, Pages
  <2> QED BY <1>1, <2>1 DEF PanelStates
<1>4. /\ q.shown = NoItem /\ q.watch = NoItem /\ q.video = NoItem /\ q.stream = NoStream
      /\ q.visible = p.visible /\ q.requested = NoItem /\ q.page = "empty" /\ q.content = NoItem
  BY <1>1 DEF PanelStates
<1> HIDE DEF q
<1> QED BY <1>2, <1>3, <1>4 DEF PanelFits

(* ShowVideoStream, for the video that is presented. *)
LEMMA StreamIs ==
    ASSUME NEW p, PanelFits(p), p.visible, p.video # NoItem
    PROVE  LET q == ShowVideoStream(p, p.video)
           IN  PanelFits(q) /\ q.visible = p.visible /\ q.shown = p.shown /\ q.stream # NoStream
               /\ q.page = "video"
<1> DEFINE r == ReleaseVideo(p)
<1> DEFINE st == [item |-> p.video, number |-> p.streams + 1]
<1> DEFINE q == [r EXCEPT !.stream = st, !.streams = @ + 1, !.page = "video"]
<1>1. p \in PanelStates BY DEF PanelFits
<1>2. st \in Streams /\ st # NoStream /\ st.item = p.video BY <1>1 DEF PanelStates, Streams, NoStream
<1>3. r \in PanelStates BY ReleaseIs DEF PanelFits
<1>4. /\ r.visible = p.visible /\ r.requested = p.requested /\ r.shown = p.shown
      /\ r.content = p.content /\ r.video = p.video /\ r.watch = p.watch
  BY <1>1 DEF ReleaseVideo, PanelStates
<1>5. ShowVideoStream(p, p.video) = q BY DEF ShowVideoStream
<1> HIDE DEF r, st
<1>6. q \in PanelStates
  <2>1. r.streams + 1 \in Nat /\ "video" \in Pages BY <1>3 DEF PanelStates, Pages
  <2> QED BY <1>2, <1>3, <2>1 DEF PanelStates
<1>7. /\ q.visible = r.visible /\ q.requested = r.requested /\ q.shown = r.shown /\ q.page = "video"
      /\ q.content = r.content /\ q.stream = st /\ q.watch = r.watch /\ q.video = r.video
  BY <1>3 DEF PanelStates
<1> HIDE DEF q
<1>8. PanelFits(q) BY <1>2, <1>4, <1>6, <1>7 DEF PanelFits
<1> QED BY <1>2, <1>4, <1>5, <1>7, <1>8

(* SetPreview: what was waited for is there; a video plays on screen. *)
LEMMA SetPreviewIs ==
    ASSUME NEW p, PanelFits(p), NEW f \in Items, p.requested = f
    PROVE  LET q == SetPreview(p, f)
           IN  /\ PanelFits(q) /\ q.visible = p.visible /\ q.shown = p.shown /\ q.page # "loading"
               /\ q.visible /\ q.page = "video" => q.stream # NoStream
<1> DEFINE h == ShowHeader(StopVideo(p), f)
<1> DEFINE on == [h EXCEPT !.slot = NoItem, !.page = PageOf(f), !.content = f]
<1>1. /\ h \in PanelStates /\ h.shown = f /\ h.watch = f /\ h.video = NoItem /\ h.stream = NoStream
      /\ h.visible = p.visible /\ h.requested = f
  BY StopIs, HeaderIs DEF PanelFits
<1>2. KindOf[f] \in PreviewKinds /\ f # NoItem /\ f \in MaybeItem
  BY PreviewAssumption DEF PreviewAssumption, MaybeItem
<1>3. /\ PageOf(f) \in Pages \ {"empty", "loading"}
      /\ PageOf(f) = "video" => KindOf[f] = "video" /\ Media
  BY <1>2 DEF PageOf, PreviewKinds, Pages
<1>4. SetPreview(p, f) = CASE KindOf[f] = "video" -> ShowVideo(on, f)
                           [] KindOf[f] = "image" -> ShowImage(on, f)
                           [] OTHER -> on
  BY DEF SetPreview
<1> HIDE DEF h
<1>5. on \in PanelStates BY <1>1, <1>2, <1>3, ZenonT(30) DEF PanelStates, MaybeItem
<1>6. /\ on.visible = p.visible /\ on.requested = f /\ on.shown = f /\ on.watch = f /\ on.page = PageOf(f)
      /\ on.content = f /\ on.video = NoItem /\ on.stream = NoStream
  BY <1>1 DEF PanelStates
<1> HIDE DEF on
<1>7. p.shown = f BY DEF PanelFits
<1>8. CASE KindOf[f] # "video"
  <2>1. PanelFits(on) BY <1>3, <1>5, <1>6, <1>8 DEF PanelFits
  <2>2. CASE KindOf[f] = "image"
    <3> DEFINE q == ShowImage(on, f)
    <3>1. q \in PanelStates BY <1>2, <1>5 DEF ShowImage, PanelStates
    <3>2. /\ q.visible = on.visible /\ q.requested = on.requested /\ q.shown = on.shown /\ q.watch = on.watch
          /\ q.page = on.page /\ q.content = on.content /\ q.video = on.video /\ q.stream = on.stream
      BY <1>5 DEF ShowImage, PanelStates
    <3> HIDE DEF q
    <3>3. PanelFits(q) BY <2>1, <3>1, <3>2 DEF PanelFits
    <3>4. SetPreview(p, f) = q BY <1>4, <2>2 DEF q
    <3> QED BY <1>3, <1>6, <1>7, <1>8, <3>2, <3>3, <3>4
  <2>3. CASE KindOf[f] # "image"
    <3>1. SetPreview(p, f) = on BY <1>4, <1>8, <2>3
    <3> QED BY <1>3, <1>6, <1>7, <1>8, <2>1, <3>1
  <2> QED BY <2>2, <2>3
<1>9. CASE KindOf[f] = "video"
  <2>1. SetPreview(p, f) = ShowVideo(on, f) BY <1>4, <1>9
  <2>2. CASE ~Media BY <1>3, <2>1, <2>2, <1>5, <1>6, <1>7 DEF ShowVideo, PanelFits
  <2>3. CASE Media
    <3> DEFINE v == [on EXCEPT !.video = f]
    <3>1. v \in PanelStates BY <1>2, <1>5 DEF PanelStates
    <3>2. /\ v.visible = p.visible /\ v.requested = f /\ v.shown = f /\ v.watch = f /\ v.page = PageOf(f)
          /\ v.content = f /\ v.video = f /\ v.stream = NoStream
      BY <1>5, <1>6 DEF PanelStates
    <3>3. SetPreview(p, f) = IF v.visible THEN ShowVideoStream(v, f) ELSE v
      BY <2>1, <2>3, <3>2 DEF ShowVideo
    <3> HIDE DEF v
    <3>4. PanelFits(v) BY <1>2, <3>1, <3>2 DEF PanelFits
    <3>5. CASE v.visible
      <4> DEFINE q == ShowVideoStream(v, v.video)
      <4>1. PanelFits(q) /\ q.visible = v.visible /\ q.shown = v.shown /\ q.stream # NoStream /\ q.page = "video"
        BY <1>2, <3>2, <3>4, <3>5, StreamIs
      <4>2. SetPreview(p, f) = q BY <3>2, <3>3, <3>5
      <4> HIDE DEF q
      <4> QED BY <1>7, <3>2, <4>1, <4>2
    <3>6. CASE ~v.visible BY <1>3, <1>7, <3>2, <3>3, <3>4, <3>6
    <3> QED BY <3>5, <3>6
  <2> QED BY <2>2, <2>3
<1> QED BY <1>8, <1>9

-------------------------------------------------------------------------------
(* What the window makes of it. *)

(* AskPreview: the panel is on the item, and a preview of it on its way, there, or failed. *)
LEMMA AskStep ==
    ASSUME PreviewTypes, NEW q, PanelFits(q), Expected(q), NEW f \in Items,
           AskPreview(q, f), ready' = ready
    PROVE  /\ PanelFits(panel') /\ Expected(panel)' /\ panel'.visible = q.visible /\ panel'.shown = f
           /\ panel'.page = "video" => panel' = q
           /\ generating' \subseteq Items /\ failed' \subseteq Items
<1>1. /\ PanelFits(panel') /\ panel'.visible = q.visible /\ panel'.shown = f
      /\ panel' = q \/ (q.requested # f /\ panel'.page = "loading")
  BY RequestIs DEF AskPreview
<1>2. generating' \subseteq Items /\ failed' \subseteq Items BY DEF AskPreview, PreviewTypes
<1>3. CASE q.requested = f BY <1>1, <1>3, <1>2 DEF AskPreview, IsShowing, Expected
<1>4. CASE q.requested # f BY <1>4, <1>1, <1>2 DEF AskPreview, IsShowing, PanelFits, Request, Expected
<1> QED BY <1>3, <1>4

(* The panel is cleared. *)
LEMMA ClearStep ==
    ASSUME PreviewTypes, NEW q, PanelFits(q), KeepsShowing(Clear(q)), ready' = ready
    PROVE  /\ PanelFits(panel') /\ Expected(panel)' /\ panel'.visible = q.visible /\ panel'.shown = NoItem
           /\ panel'.page = "empty"
           /\ generating' \subseteq Items /\ failed' \subseteq Items
BY ClearIs DEF KeepsShowing, Expected, PreviewTypes

(* PreviewSelection: the panel is on what is selected. *)
LEMMA SelectionStep ==
    ASSUME PreviewTypes, NEW q, PanelFits(q), Expected(q), PreviewSelection(q), ready' = ready
    PROVE  /\ PanelFits(panel') /\ Expected(panel)' /\ panel'.visible = q.visible /\ panel'.shown = Selected
           /\ panel'.page = "video" => panel' = q
           /\ generating' \subseteq Items /\ failed' \subseteq Items
BY ClearStep, AskStep DEF PreviewTypes, SideStates, Selected, PreviewSelection, MaybeItem

(* SyncPreview: the panel is on what is selected in the pane, on nothing, or stays on what is
   there and belongs to the pane. *)
LEMMA SyncStep ==
    ASSUME PreviewTypes, PanelFits(panel), Expected(panel), NEW s \in SideStates,
           SyncPreview(panel, s), ready' = ready
    PROVE  /\ PanelFits(panel') /\ Expected(panel)' /\ panel'.visible = panel.visible
           /\ panel'.page = "video" => panel' = panel
           /\ generating' \subseteq Items /\ failed' \subseteq Items
           /\ panel.visible /\ s.row # NoItem => panel'.shown = s.row
           /\ panel.visible /\ s.row = NoItem /\ panel'.shown # NoItem =>
                 exists[panel'.shown] /\ (s.recent \/ ItemFolder[panel'.shown] = s.folder)
<1>1. s.row \in MaybeItem BY DEF SideStates
<1>2. CASE KeepsShowing(panel) /\ (~panel.visible \/ s.row = NoItem)
           /\ (panel.visible => \/ panel.shown = NoItem
                                \/ exists[panel.shown] /\ (s.recent \/ BelongsToFolder(panel.shown, s.folder)))
  BY <1>2 DEF KeepsShowing, Expected, PreviewTypes, BelongsToFolder
<1>3. CASE panel.visible /\ s.row # NoItem /\ AskPreview(panel, s.row)
  BY <1>1, <1>3, AskStep DEF MaybeItem
<1>4. CASE panel.visible /\ s.row = NoItem /\ KeepsShowing(Clear(panel)) BY <1>4, ClearStep
<1> QED BY <1>2, <1>3, <1>4 DEF SyncPreview

(* Toggle: a panel that is opened is on what is selected, and about to play it. *)
LEMMA ToggleStep ==
    ASSUME PreviewInv, Toggle
    PROVE  PreviewInv'
<1>1. UNCHANGED <<exists, side, activeSide, ready>> BY DEF Toggle
<1>2. CASE panel.visible
  <2> DEFINE r == ReleaseVideo(panel)
  <2> DEFINE q == [r EXCEPT !.visible = FALSE]
  <2>1. PanelFits(r) /\ r.shown = panel.shown /\ r.page = panel.page /\ r.stream = NoStream
    BY ReleaseIs DEF PreviewInv
  <2>2. panel' = q /\ UNCHANGED <<generating, failed>> BY <1>2 DEF Toggle, KeepsShowing
  <2> HIDE DEF r
  <2>3. r \in PanelStates BY <2>1 DEF PanelFits
  <2>4. /\ q \in PanelStates /\ q.visible = FALSE /\ q.requested = r.requested /\ q.shown = r.shown
        /\ q.watch = r.watch /\ q.page = r.page /\ q.content = r.content /\ q.video = r.video
        /\ q.stream = r.stream
    BY <2>3 DEF PanelStates
  <2> HIDE DEF q
  <2>5. PanelFits(q) BY <2>1, <2>4 DEF PanelFits
  <2>6. Expected(panel)' BY <1>1, <2>1, <2>2, <2>4 DEF PreviewInv, Expected
  <2> QED BY <1>1, <2>2, <2>4, <2>5, <2>6 DEF PreviewInv, PreviewTypes, Plays, OnSelected, OnWhatIsThere
<1>3. CASE ~panel.visible
  <2> DEFINE q == [panel EXCEPT !.visible = TRUE]
  <2>1. PreviewSelection(q) /\ waiting' = waiting \cup {<<"reopen">>} BY <1>3 DEF Toggle
  <2>2. panel \in PanelStates BY DEF PreviewInv, PanelFits
  <2>3. /\ q \in PanelStates /\ q.visible = TRUE /\ q.requested = panel.requested /\ q.shown = panel.shown
        /\ q.watch = panel.watch /\ q.page = panel.page /\ q.content = panel.content /\ q.video = panel.video
        /\ q.stream = panel.stream
    BY <2>2 DEF PanelStates
  <2> HIDE DEF q
  <2>4. PanelFits(q) /\ Expected(q) BY <2>3 DEF PreviewInv, PanelFits, Expected
  <2>5. /\ PanelFits(panel') /\ Expected(panel)' /\ panel'.shown = Selected
        /\ generating' \subseteq Items /\ failed' \subseteq Items
    BY <1>1, <2>1, <2>4, SelectionStep DEF PreviewInv
  <2>6. Plays' BY <2>1 DEF Plays
  <2>7. OnSelected' /\ OnWhatIsThere' BY <1>1, <2>5 DEF OnSelected, OnWhatIsThere, Selected
  <2> QED BY <1>1, <2>5, <2>6, <2>7 DEF PreviewInv, PreviewTypes
<1> QED BY <1>2, <1>3

(* Reopen: a video that is presented plays again. *)
LEMMA ReopenStep ==
    ASSUME PreviewInv, Reopen
    PROVE  PreviewInv'
<1>1. /\ UNCHANGED <<exists, side, activeSide, generating, ready, failed>>
      /\ waiting' = waiting \ {<<"reopen">>}
  BY DEF Reopen
<1>2. Following' <=> Following BY <1>1 DEF Following
<1>3. \A f : {<<"gone", f>>, <<"grace", f>>} \cap waiting # {} => {<<"gone", f>>, <<"grace", f>>} \cap waiting' # {}
  BY <1>1
<1>4. /\ PanelFits(panel') /\ panel'.visible = panel.visible /\ panel'.shown = panel.shown
      /\ panel'.page \in {panel.page, "video"}
      /\ panel'.visible /\ panel'.page = "video" => panel'.stream # NoStream
  <2>1. CASE panel.visible /\ panel.video # NoItem /\ panel.stream = NoStream
    <3>1. panel' = ShowVideoStream(panel, panel.video) BY <2>1 DEF Reopen
    <3> QED BY <2>1, <3>1, StreamIs DEF PreviewInv
  <2>2. CASE ~(panel.visible /\ panel.video # NoItem /\ panel.stream = NoStream)
    BY <2>2 DEF Reopen, PreviewInv, PanelFits
  <2> QED BY <2>1, <2>2
<1>5. Expected(panel)' BY <1>1, <1>4 DEF PreviewInv, Expected
<1>6. Plays' BY <1>4 DEF Plays
<1>7. OnSelected' BY <1>1, <1>2, <1>4 DEF PreviewInv, OnSelected, Selected
<1>8. OnWhatIsThere' BY <1>1, <1>2, <1>3, <1>4 DEF PreviewInv, OnWhatIsThere, Selected
<1> QED BY <1>1, <1>4, <1>5, <1>6, <1>7, <1>8 DEF PreviewInv, PreviewTypes

(* What is selected changes, and the window is about to follow it, or has no panel to follow it
   with. *)
LEMMA FollowsLater ==
    ASSUME PreviewInv, UNCHANGED <<exists, panel, generating, ready, failed>>,
           side' \in [Sides -> SideStates], activeSide' \in Sides, waiting \subseteq waiting',
           \/ Following' \/ ~panel.visible
           \/ /\ activeSide' = activeSide /\ side'[activeSide].row = side[activeSide].row
              /\ side'[activeSide] = side[activeSide] \/ side'[activeSide].listing
    PROVE  PreviewInv'
<1>1. PreviewTypes' /\ PanelFits(panel') /\ Expected(panel)' /\ Plays'
  BY DEF PreviewInv, PreviewTypes, Expected, Plays
<1>2. Following => Following' BY DEF Following
<1>3. OnSelected' BY <1>2 DEF PreviewInv, OnSelected, Selected
<1>4. OnWhatIsThere' BY <1>2 DEF PreviewInv, OnWhatIsThere, Selected
<1> QED BY <1>1, <1>3, <1>4 DEF PreviewInv

(* SelectRow: noticed while the panel is there. *)
LEMMA SelectRowStep ==
    ASSUME PreviewInv, NEW s \in Sides, SelectRow(s)
    PROVE  PreviewInv'
<1>1. PICK f \in MaybeItem : side' = [side EXCEPT ![s].row = f] BY DEF SelectRow, MaybeItem
<1>2. side' \in [Sides -> SideStates]
  <2>1. [side[s] EXCEPT !.row = f] \in SideStates BY <1>1 DEF PreviewInv, PreviewTypes, SideStates
  <2> QED BY <1>1, <2>1 DEF PreviewInv, PreviewTypes
<1>3. /\ UNCHANGED <<exists, panel, generating, ready, failed, activeSide>> /\ waiting \subseteq waiting'
      /\ Following' \/ ~panel.visible
  BY DEF SelectRow, Following
<1> QED BY <1>2, <1>3, FollowsLater DEF PreviewInv, PreviewTypes

(* SwitchSide: the window follows when idle. *)
LEMMA SwitchSideStep ==
    ASSUME PreviewInv, SwitchSide
    PROVE  PreviewInv'
<1>1. activeSide' \in Sides BY DEF PreviewInv, PreviewTypes, Sides, SwitchSide
<1>2. UNCHANGED <<exists, panel, generating, ready, failed, side>> /\ waiting \subseteq waiting' /\ Following'
  BY DEF SwitchSide, Following
<1> QED BY <1>1, <1>2, FollowsLater DEF PreviewInv, PreviewTypes

(* GoToFolder: the rows stay till the listing comes. *)
LEMMA GoToFolderStep ==
    ASSUME PreviewInv, NEW s \in Sides, GoToFolder(s)
    PROVE  PreviewInv'
<1>1. PICK d \in {ItemFolder[f] : f \in Items} :
          side' = [side EXCEPT ![s].folder = d, ![s].recent = FALSE, ![s].listing = TRUE]
  BY DEF GoToFolder
<1> DEFINE new == [side[s] EXCEPT !.folder = d, !.recent = FALSE, !.listing = TRUE]
<1>2. new \in SideStates /\ new.listing = TRUE /\ new.row = side[s].row
  BY <1>1 DEF PreviewInv, PreviewTypes, SideFolders, SideStates
<1>3. side' = [side EXCEPT ![s] = new] BY <1>1 DEF PreviewInv, PreviewTypes
<1> HIDE DEF new
<1>4. side' \in [Sides -> SideStates] BY <1>2, <1>3 DEF PreviewInv, PreviewTypes
<1>5. /\ side'[activeSide].row = side[activeSide].row
      /\ side'[activeSide] = side[activeSide] \/ side'[activeSide].listing
  BY <1>2, <1>3 DEF PreviewInv, PreviewTypes
<1>6. UNCHANGED <<exists, panel, generating, ready, failed, activeSide, waiting>> BY DEF GoToFolder
<1> QED BY <1>4, <1>5, <1>6, FollowsLater DEF PreviewInv, PreviewTypes

(* Follow: the panel is on what is selected now. *)
LEMMA FollowStep ==
    ASSUME PreviewInv, Follow
    PROVE  PreviewInv'
<1>1. /\ UNCHANGED <<exists, side, activeSide, ready>> /\ PreviewSelection(panel)
      /\ waiting' = waiting \ {<<"follow">>}
  BY DEF Follow
<1>2. /\ PanelFits(panel') /\ Expected(panel)' /\ panel'.visible = panel.visible /\ panel'.shown = Selected
      /\ panel'.page = "video" => panel' = panel
      /\ generating' \subseteq Items /\ failed' \subseteq Items
  BY <1>1, SelectionStep DEF PreviewInv
<1>3. Plays' BY <1>1, <1>2 DEF PreviewInv, Plays
<1>4. OnSelected' /\ OnWhatIsThere' BY <1>1, <1>2 DEF OnSelected, OnWhatIsThere, Selected
<1> QED BY <1>1, <1>2, <1>3, <1>4 DEF PreviewInv, PreviewTypes

(* A pane is followed: the active one as it is now. *)
LEMMA SyncedStep ==
    ASSUME PreviewInv, SyncPreview(panel, side'[activeSide']), side' \in [Sides -> SideStates],
           UNCHANGED <<exists, activeSide, ready>>, waiting' \in {waiting, waiting \ {<<"sync">>}}
    PROVE  PreviewInv'
<1> DEFINE s == side'[activeSide']
<1>1. s \in SideStates BY DEF PreviewInv, PreviewTypes
<1>2. s = side'[activeSide'] OBVIOUS
<1> HIDE DEF s
<1>3. /\ PanelFits(panel') /\ Expected(panel)' /\ panel'.visible = panel.visible
      /\ panel'.page = "video" => panel' = panel
      /\ generating' \subseteq Items /\ failed' \subseteq Items
      /\ panel.visible /\ s.row # NoItem => panel'.shown = s.row
      /\ panel.visible /\ s.row = NoItem /\ panel'.shown # NoItem =>
            exists[panel'.shown] /\ (s.recent \/ ItemFolder[panel'.shown] = s.folder)
  BY <1>1, <1>2, SyncStep DEF PreviewInv
<1>4. PreviewTypes' BY <1>3 DEF PreviewInv, PreviewTypes
<1>5. Plays' BY <1>3 DEF PreviewInv, Plays
<1>6. OnSelected' /\ OnWhatIsThere' BY <1>2, <1>3 DEF OnSelected, OnWhatIsThere, Selected
<1> QED BY <1>3, <1>4, <1>5, <1>6 DEF PreviewInv

(* Sync. *)
LEMMA SyncsStep ==
    ASSUME PreviewInv, Sync
    PROVE  PreviewInv'
BY SyncedStep DEF Sync, PreviewInv, PreviewTypes

(* DirectoryListed: the rows are new, and none is selected. *)
LEMMA DirectoryListedStep ==
    ASSUME PreviewInv, NEW s \in Sides, DirectoryListed(s)
    PROVE  PreviewInv'
<1> DEFINE new == [side[s] EXCEPT !.listing = FALSE, !.row = NoItem, !.recent = FALSE]
<1>1. new \in SideStates BY DEF PreviewInv, PreviewTypes, SideStates, MaybeItem
<1>2. side' = [side EXCEPT ![s] = new] BY DEF DirectoryListed, PreviewInv, PreviewTypes
<1> HIDE DEF new
<1>3. side' \in [Sides -> SideStates] BY <1>1, <1>2 DEF PreviewInv, PreviewTypes
<1> QED BY <1>3, SyncedStep DEF DirectoryListed

(* ShowRecentFiles: the panel stays on what is there. *)
LEMMA ShowRecentFilesStep ==
    ASSUME PreviewInv, ShowRecentFiles
    PROVE  PreviewInv'
<1> DEFINE row == IF side[activeSide].recent THEN side[activeSide].row ELSE NoItem
<1> DEFINE new == [side[activeSide] EXCEPT !.recent = TRUE, !.checking = TRUE, !.row = row]
<1>1. new \in SideStates
  <2>1. side[activeSide] \in SideStates BY DEF PreviewInv, PreviewTypes
  <2>2. row \in MaybeItem BY <2>1 DEF SideStates, MaybeItem
  <2> HIDE DEF row
  <2> QED BY <2>1, <2>2 DEF SideStates
<1>2. side' = [side EXCEPT ![activeSide] = new] BY DEF ShowRecentFiles, PreviewInv, PreviewTypes
<1> HIDE DEF new
<1>3. side' \in [Sides -> SideStates] BY <1>1, <1>2 DEF PreviewInv, PreviewTypes
<1> QED BY <1>3, SyncedStep DEF ShowRecentFiles

(* RecentListed: nobody looks at the preview, and the panel may stay on any file. *)
LEMMA RecentListedStep ==
    ASSUME PreviewInv, NEW s \in Sides, RecentListed(s)
    PROVE  PreviewInv'
<1> DEFINE row == IF side[s].recent THEN NoItem ELSE side[s].row
<1> DEFINE new == [side[s] EXCEPT !.checking = FALSE, !.row = row]
<1>1. side[s] \in SideStates BY DEF PreviewInv, PreviewTypes
<1>2. row \in MaybeItem BY <1>1 DEF SideStates, MaybeItem
<1>3. row # NoItem => row = side[s].row OBVIOUS
<1>4. side[s].recent = FALSE => row = side[s].row OBVIOUS
<1>5. side' = [side EXCEPT ![s] = new] BY DEF RecentListed, PreviewInv, PreviewTypes
<1> HIDE DEF row
<1>6. /\ new \in SideStates /\ new.row = row /\ new.recent = side[s].recent /\ new.folder = side[s].folder
      /\ new.listing = side[s].listing
  BY <1>1, <1>2 DEF SideStates
<1> HIDE DEF new
<1>7. side' \in [Sides -> SideStates] BY <1>5, <1>6 DEF PreviewInv, PreviewTypes
<1>8. UNCHANGED <<exists, activeSide, panel, waiting, generating, ready, failed>> BY DEF RecentListed
<1>9. PreviewTypes' /\ PanelFits(panel') /\ Expected(panel)' /\ Plays'
  BY <1>7, <1>8 DEF PreviewInv, PreviewTypes, Expected, Plays
<1>10. CASE activeSide # s
  <2>1. side'[activeSide'] = side[activeSide] BY <1>5, <1>8, <1>10 DEF PreviewInv, PreviewTypes
  <2> QED BY <1>8, <1>9, <2>1 DEF PreviewInv, OnSelected, OnWhatIsThere, Selected, Following
<1>11. CASE activeSide = s
  <2>1. side'[activeSide'] = new BY <1>5, <1>8, <1>11 DEF PreviewInv, PreviewTypes
  <2>2. OnSelected' BY <1>3, <1>6, <1>8, <1>11, <2>1 DEF PreviewInv, OnSelected, Selected, Following
  <2>3. OnWhatIsThere'
    BY <1>1, <1>4, <1>6, <1>8, <1>11, <2>1 DEF PreviewInv, OnWhatIsThere, Selected, Following, SideStates
  <2> QED BY <1>9, <2>2, <2>3 DEF PreviewInv
<1> QED BY <1>10, <1>11

-------------------------------------------------------------------------------
(* Previews, and the files that go. *)

(* Nothing changes where the panel is: more may have failed, and an item that goes is watched. *)
LEMMA StaysStep ==
    ASSUME PreviewInv, PreviewTypes', PanelFits(panel'), Expected(panel)', Plays',
           UNCHANGED <<side, activeSide>>, panel'.visible = panel.visible, panel'.shown = panel.shown,
           failed \subseteq failed', Following => Following',
           \/ exists' = exists
           \/ panel.shown # NoItem => exists'[panel.shown] \/ ~exists[panel.shown] \/ <<"gone", panel.shown>> \in waiting',
           \/ waiting \subseteq waiting'
           \/ {<<"gone", panel.shown>>, <<"grace", panel.shown>>} \cap waiting # {} =>
                 {<<"gone", panel.shown>>, <<"grace", panel.shown>>} \cap waiting' # {},
           exists' = exists \/ waiting \subseteq waiting'
    PROVE  PreviewInv'
<1>1. OnSelected' BY DEF PreviewInv, OnSelected, Selected
<1>2. OnWhatIsThere' BY DEF PreviewInv, OnWhatIsThere, Selected
<1> QED BY <1>1, <1>2 DEF PreviewInv

(* GeneratePreview: there, or failed. *)
LEMMA GeneratePreviewStep ==
    ASSUME PreviewInv, NEW f \in Items, GeneratePreview(f)
    PROVE  PreviewInv'
<1>1. /\ UNCHANGED <<exists, side, activeSide, panel, waiting>>
      /\ generating' = generating \ {f}
      /\ \/ ready' = Append(ready, f) /\ failed' = failed
         \/ failed' = failed \cup {f} /\ ready' = ready
  BY DEF GeneratePreview
<1>2. PreviewTypes' BY <1>1 DEF PreviewInv, PreviewTypes
<1>3. Expected(panel)'
  <2>1. CASE ready' = Append(ready, f) /\ failed' = failed
    BY <2>1, <1>1 DEF PreviewInv, PreviewTypes, Expected
  <2>2. CASE failed' = failed \cup {f} /\ ready' = ready BY <1>1, <2>2 DEF PreviewInv, Expected
  <2> QED BY <1>1, <2>1, <2>2
<1>4. PanelFits(panel') /\ Plays' /\ failed \subseteq failed' /\ (Following => Following')
  BY <1>1 DEF PreviewInv, Plays, Following
<1> QED BY <1>1, <1>2, <1>3, <1>4, StaysStep

(* PreviewReady: it is shown if it is still waited for. *)
LEMMA PreviewReadyStep ==
    ASSUME PreviewInv, PreviewReady
    PROVE  PreviewInv'
<1> DEFINE f == Head(ready)
<1>1. /\ UNCHANGED <<exists, side, activeSide, generating, failed>>
      /\ ready # <<>> /\ ready' = Tail(ready) /\ panel' = SetPreview(panel, f) /\ waiting \subseteq waiting'
  BY DEF PreviewReady
<1>2. /\ f \in Items /\ ready' \in Seq(Items) /\ f = ready[1] /\ Len(ready) \in Nat \ {0}
      /\ Len(ready') = Len(ready) - 1 /\ \A i \in 1..Len(ready') : ready'[i] = ready[i + 1]
  BY <1>1 DEF PreviewInv, PreviewTypes
<1> HIDE DEF f
<1>3. CASE panel.requested = f
  BY <1>1, <1>2, <1>3, SetPreviewIs, StaysStep DEF PreviewInv, PreviewTypes, Expected, Plays, Following
<1>4. CASE panel.requested # f
  <2>1. panel' = panel BY <1>1, <1>4 DEF SetPreview
  <2>2. PreviewTypes' /\ Plays' BY <1>1, <1>2, <2>1 DEF PreviewInv, PreviewTypes, Plays
  <2>3. Expected(panel)'
    <3>1. panel.shown # f BY <1>4 DEF PreviewInv, PanelFits
    <3>2. ASSUME NEW i \in 1..Len(ready), ready[i] = panel.shown
          PROVE  \E j \in 1..Len(ready') : ready'[j] = panel.shown
      <4>1. i # 1 BY <1>2, <3>1, <3>2
      <4>2. i - 1 \in 1..Len(ready') /\ ready'[i - 1] = ready[i] BY <1>2, <4>1
      <4> QED BY <3>2, <4>2
    <3> QED BY <1>1, <2>1, <3>2 DEF PreviewInv, Expected
  <2>4. Following => Following' BY <1>1 DEF Following
  <2> QED BY <1>1, <2>1, <2>2, <2>3, <2>4, StaysStep DEF PreviewInv
<1> QED BY <1>3, <1>4

(* PictureMade. *)
LEMMA PictureMadeStep ==
    ASSUME PreviewInv, NEW f \in Items, PictureMade(f)
    PROVE  PreviewInv'
<1> DEFINE q == [panel EXCEPT !.picture = f]
<1>1. /\ UNCHANGED <<exists, side, activeSide, generating, ready, failed>>
      /\ waiting' = waiting \ {<<"picture", f>>} /\ panel' \in {panel, q}
  BY DEF PictureMade
<1>2. panel \in PanelStates BY DEF PreviewInv, PanelFits
<1>3. /\ q \in PanelStates /\ q.visible = panel.visible /\ q.requested = panel.requested /\ q.shown = panel.shown
      /\ q.watch = panel.watch /\ q.page = panel.page /\ q.content = panel.content /\ q.video = panel.video
      /\ q.stream = panel.stream
  BY <1>2 DEF PanelStates, MaybeItem
<1> HIDE DEF q
<1>4. PanelFits(q) BY <1>3 DEF PreviewInv, PanelFits
<1>5. <<"picture", f>> # <<"follow">> /\ <<"picture", f>> # <<"sync">> /\ <<"picture", f>> # <<"reopen">>
  OBVIOUS
<1>6. \A g : <<"picture", f>> # <<"gone", g>> /\ <<"picture", f>> # <<"grace", g>> OBVIOUS
<1>7. (Following => Following') /\ (<<"reopen">> \in waiting => <<"reopen">> \in waiting')
  BY <1>1, <1>5 DEF Following
<1>8. /\ PreviewTypes' /\ PanelFits(panel') /\ panel'.visible = panel.visible /\ panel'.shown = panel.shown
      /\ panel'.page = panel.page /\ panel'.stream = panel.stream
  BY <1>1, <1>3, <1>4 DEF PreviewInv, PreviewTypes
<1>9. Expected(panel)' /\ Plays' BY <1>1, <1>7, <1>8 DEF PreviewInv, Expected, Plays
<1>10. {<<"gone", panel.shown>>, <<"grace", panel.shown>>} \cap waiting # {} =>
           {<<"gone", panel.shown>>, <<"grace", panel.shown>>} \cap waiting' # {}
  BY <1>1, <1>6
<1> QED BY <1>1, <1>7, <1>8, <1>9, <1>10, StaysStep

(* StreamFails: the panel hears of it later. *)
LEMMA StreamFailsStep ==
    ASSUME PreviewInv, StreamFails
    PROVE  PreviewInv'
<1>1. UNCHANGED <<exists, side, activeSide, panel, generating, ready, failed>> /\ waiting \subseteq waiting'
  BY DEF StreamFails
<1>2. PreviewTypes' /\ PanelFits(panel') /\ Expected(panel)' /\ Plays' /\ (Following => Following')
  BY <1>1 DEF PreviewInv, PreviewTypes, Expected, Plays, Following
<1> QED BY <1>1, <1>2, StaysStep

(* FallBack: of the stream that is open. *)
LEMMA FallBackStep ==
    ASSUME PreviewInv, NEW n \in 1..panel.streams, FallBack(n)
    PROVE  PreviewInv'
<1>1. /\ UNCHANGED <<exists, side, activeSide, generating, ready, failed>>
      /\ waiting' = waiting \ {<<"failed", n>>}
  BY DEF FallBack
<1>2. n # 0 BY DEF PreviewInv, PanelFits, PanelStates
<1>3. <<"failed", n>> # <<"follow">> /\ <<"failed", n>> # <<"sync">> /\ <<"failed", n>> # <<"reopen">>
  OBVIOUS
<1>4. \A g : <<"failed", n>> # <<"gone", g>> /\ <<"failed", n>> # <<"grace", g>> OBVIOUS
<1>5. (Following => Following') /\ (<<"reopen">> \in waiting => <<"reopen">> \in waiting')
  BY <1>1, <1>3 DEF Following
<1>6. {<<"gone", panel.shown>>, <<"grace", panel.shown>>} \cap waiting # {} =>
           {<<"gone", panel.shown>>, <<"grace", panel.shown>>} \cap waiting' # {}
  BY <1>1, <1>4
<1>7. CASE panel.stream.number # n
  BY <1>7, <1>1, <1>5, <1>6, StaysStep DEF FallBack, PreviewInv, PreviewTypes, Expected, Plays
<1>8. CASE panel.stream.number = n
  <2> DEFINE r == ReleaseVideo(panel)
  <2> DEFINE q == [r EXCEPT !.page = "frame"]
  <2>1. panel' = q BY <1>8 DEF FallBack
  <2>2. /\ PanelFits(r) /\ r.visible = panel.visible /\ r.shown = panel.shown /\ r.stream = NoStream
        /\ r.content = panel.content
    BY ReleaseIs DEF PreviewInv, PanelFits, ReleaseVideo, PanelStates
  <2> HIDE DEF r
  <2>3. panel.content = panel.shown BY <1>2, <1>8 DEF NoStream, PreviewInv, PanelFits
  <2>4. r \in PanelStates BY <2>2 DEF PanelFits
  <2>5. /\ q \in PanelStates /\ q.visible = r.visible /\ q.requested = r.requested /\ q.shown = r.shown
        /\ q.watch = r.watch /\ q.page = "frame" /\ q.content = r.content /\ q.video = r.video
        /\ q.stream = r.stream
    BY <2>4 DEF PanelStates, Pages
  <2> HIDE DEF q
  <2>6. PanelFits(q) BY <2>2, <2>3, <2>5 DEF PanelFits
  <2>7. PreviewTypes' /\ PanelFits(panel') /\ Expected(panel)' /\ Plays'
    BY <1>1, <2>1, <2>5, <2>6 DEF PreviewInv, PreviewTypes, Expected, Plays
  <2> QED BY <1>1, <1>5, <1>6, <2>1, <2>2, <2>5, <2>7, StaysStep
<1> QED BY <1>7, <1>8

(* FileGoes: the watch on the shown file sees it. *)
LEMMA FileGoesStep ==
    ASSUME PreviewInv, NEW f \in Items, FileGoes(f)
    PROVE  PreviewInv'
<1>1. UNCHANGED <<side, activeSide, panel, generating, ready, failed>> /\ waiting \subseteq waiting'
  BY DEF FileGoes
<1>2. exists' = [exists EXCEPT ![f] = FALSE] /\ (panel.shown = f => <<"gone", f>> \in waiting')
  BY DEF FileGoes, PreviewInv, PanelFits
<1>3. PreviewTypes' /\ PanelFits(panel') /\ Expected(panel)' /\ Plays' /\ (Following => Following')
  BY <1>1, <1>2 DEF PreviewInv, PreviewTypes, Expected, Plays, Following
<1>4. panel.shown # NoItem => exists'[panel.shown] \/ ~exists[panel.shown] \/ <<"gone", panel.shown>> \in waiting'
  BY <1>2 DEF PreviewInv, PreviewTypes, PanelFits, PanelStates, MaybeItem
<1> QED BY <1>1, <1>3, <1>4, StaysStep

(* FileReturns. *)
LEMMA FileReturnsStep ==
    ASSUME PreviewInv, NEW f \in Items, FileReturns(f)
    PROVE  PreviewInv'
<1>1. UNCHANGED <<side, activeSide, panel, waiting, generating, ready, failed>> BY DEF FileReturns
<1>2. exists' = [exists EXCEPT ![f] = TRUE] BY DEF FileReturns
<1>3. PreviewTypes' /\ PanelFits(panel') /\ Expected(panel)' /\ Plays' /\ (Following => Following')
  BY <1>1, <1>2 DEF PreviewInv, PreviewTypes, Expected, Plays, Following
<1>4. panel.shown # NoItem => exists'[panel.shown] \/ ~exists[panel.shown]
  BY <1>2 DEF PreviewInv, PreviewTypes, PanelFits, PanelStates, MaybeItem
<1> QED BY <1>1, <1>3, <1>4, StaysStep

(* WatchedGone: lost if the file is no longer watched, and so no longer shown. *)
LEMMA WatchedGoneStep ==
    ASSUME PreviewInv, NEW f \in Items, WatchedGone(f)
    PROVE  PreviewInv'
<1>1. /\ UNCHANGED <<exists, side, activeSide, panel, generating, ready, failed>>
      /\ waiting' = (waiting \ {<<"gone", f>>}) \cup (IF panel.watch = f THEN {<<"grace", f>>} ELSE {})
  BY DEF WatchedGone
<1>2. <<"gone", f>> # <<"follow">> /\ <<"gone", f>> # <<"sync">> /\ <<"gone", f>> # <<"reopen">> OBVIOUS
<1>3. waiting \ {<<"gone", f>>} \subseteq waiting' BY <1>1
<1>4. (Following => Following') /\ (<<"reopen">> \in waiting => <<"reopen">> \in waiting')
  BY <1>2, <1>3 DEF Following
<1>5. PreviewTypes' /\ PanelFits(panel') /\ Expected(panel)' /\ Plays'
  BY <1>1, <1>4 DEF PreviewInv, PreviewTypes, Expected, Plays
<1>6. {<<"gone", panel.shown>>, <<"grace", panel.shown>>} \cap waiting # {} =>
           {<<"gone", panel.shown>>, <<"grace", panel.shown>>} \cap waiting' # {}
  <2>1. CASE panel.shown = f BY <1>1, <2>1 DEF PreviewInv, PanelFits
  <2>2. CASE panel.shown # f BY <2>2, <1>3
  <2> QED BY <2>1, <2>2
<1> QED BY <1>1, <1>4, <1>5, <1>6, StaysStep

(* GraceEnds: what is shown is let go if it has not come back. *)
LEMMA GraceEndsStep ==
    ASSUME PreviewInv, NEW f \in Items, GraceEnds(f)
    PROVE  PreviewInv'
<1>1. UNCHANGED <<exists, side, activeSide, generating, ready>> /\ waiting' = waiting \ {<<"grace", f>>}
  BY DEF GraceEnds
<1>2. <<"grace", f>> # <<"follow">> /\ <<"grace", f>> # <<"sync">> /\ <<"grace", f>> # <<"reopen">>
  OBVIOUS
<1>3. (Following <=> Following') /\ (<<"reopen">> \in waiting => <<"reopen">> \in waiting')
  BY <1>1, <1>2 DEF Following
<1>4. CASE panel.shown = f /\ ~exists[f]
  <2>1. panel' = Clear(panel) /\ failed' = failed \cup {f} BY <1>4 DEF GraceEnds
  <2>2. PanelFits(panel') /\ panel'.visible = panel.visible /\ panel'.shown = NoItem /\ panel'.page = "empty"
    BY <2>1, ClearIs DEF PreviewInv
  <2>3. PreviewTypes' /\ Expected(panel)' /\ Plays' /\ OnWhatIsThere'
    BY <1>1, <2>1, <2>2 DEF PreviewInv, PreviewTypes, Expected, Plays, OnWhatIsThere
  <2>4. OnSelected'
    BY <1>1, <1>3, <1>4, <2>1, <2>2, PreviewAssumption DEF PreviewInv, OnSelected, Selected, PreviewAssumption
  <2> QED BY <2>2, <2>3, <2>4 DEF PreviewInv
<1>5. CASE ~(panel.shown = f /\ ~exists[f])
  <2>1. UNCHANGED <<panel, failed>> BY <1>5 DEF GraceEnds
  <2>2. PreviewTypes' /\ PanelFits(panel') /\ Expected(panel)' /\ Plays'
    BY <1>1, <1>3, <2>1 DEF PreviewInv, PreviewTypes, Expected, Plays
  <2>3. OnSelected' BY <1>1, <1>3, <2>1 DEF PreviewInv, OnSelected, Selected
  <2>4. OnWhatIsThere'
    <3>1. panel.shown # f /\ {<<"gone", panel.shown>>, <<"grace", panel.shown>>} \cap waiting # {} =>
             {<<"gone", panel.shown>>, <<"grace", panel.shown>>} \cap waiting' # {}
      BY <1>1
    <3> QED BY <1>1, <1>3, <1>5, <2>1, <3>1 DEF PreviewInv, OnWhatIsThere, Selected
  <2> QED BY <2>2, <2>3, <2>4 DEF PreviewInv
<1> QED BY <1>4, <1>5

-------------------------------------------------------------------------------
(* NewPanel: nothing is presented. *)
LEMMA NewPanelFits == PanelFits(NewPanel)
<1>1. NoStream \in Streams /\ NoItem \in MaybeItem BY DEF NoStream, Streams, MaybeItem
<1>2. NewPanel \in PanelStates BY <1>1 DEF NewPanel, PanelStates, Pages
<1> QED BY <1>2 DEF PanelFits, NewPanel

(* The preview panel, once nothing is under way, presents what is selected, or what is still
   there in the folder, whatever previews come in which order and whichever files go. *)
THEOREM PanelAlwaysFollowsSelection == PreviewSpec => []PanelFollowsSelection
<1>1. PreviewInit => PreviewInv
  <2> SUFFICES ASSUME PreviewInit PROVE PreviewInv OBVIOUS
  <2>1. PreviewTypes
    <3>1. watching.folder \in SideFolders /\ NoItem \in MaybeItem
      BY DEF PreviewInit, SideFolders, MaybeItem
    <3> QED BY <3>1 DEF PreviewInit, PreviewTypes, SideStates, Sides
  <2>2. panel = NewPanel /\ NewPanel.visible = FALSE /\ NewPanel.page = "empty"
    BY DEF PreviewInit, NewPanel
  <2> QED BY <2>1, <2>2, NewPanelFits DEF PreviewInv, Expected, Plays, OnSelected, OnWhatIsThere
<1>2. PreviewInv /\ [PreviewNext]_previewVars => PreviewInv'
  <2> SUFFICES ASSUME PreviewInv, [PreviewNext]_previewVars PROVE PreviewInv' OBVIOUS
  <2>1. CASE UNCHANGED previewVars
    BY <2>1 DEF previewVars, PreviewInv, PreviewTypes, Expected, Plays, OnSelected, OnWhatIsThere, Following, Selected
  <2>2. CASE \/ Toggle \/ Reopen \/ Follow \/ SwitchSide \/ Sync \/ ShowRecentFiles \/ PreviewReady
             \/ StreamFails
    BY <2>2, ToggleStep, ReopenStep, FollowStep, SwitchSideStep, SyncsStep, ShowRecentFilesStep,
      PreviewReadyStep, StreamFailsStep
  <2>3. CASE \E s \in Sides : SelectRow(s) \/ GoToFolder(s) \/ DirectoryListed(s) \/ RecentListed(s)
    BY <2>3, SelectRowStep, GoToFolderStep, DirectoryListedStep, RecentListedStep
  <2>4. CASE \E f \in Items : \/ GeneratePreview(f) \/ PictureMade(f) \/ FileGoes(f) \/ FileReturns(f)
                              \/ WatchedGone(f) \/ GraceEnds(f)
    BY <2>4, GeneratePreviewStep, PictureMadeStep, FileGoesStep, FileReturnsStep, WatchedGoneStep, GraceEndsStep
  <2>5. CASE \E n \in 1..panel.streams : FallBack(n) BY <2>5, FallBackStep
  <2> QED BY <2>1, <2>2, <2>3, <2>4, <2>5 DEF PreviewNext
<1>3. PreviewInv => PanelFollowsSelection
  <2> SUFFICES ASSUME PreviewInv PROVE PanelFollowsSelection OBVIOUS
  <2>1. PreviewTypeOK /\ PanelIsConsistent
    BY DEF PreviewInv, PreviewTypes, PanelFits, PanelStates, MaybeItem, Pages, PreviewTypeOK, PanelIsConsistent
  <2>2. ASSUME PreviewsQuiet, panel.visible
        PROVE  /\ ~Following /\ <<"reopen">> \notin waiting
               /\ \A f : {<<"gone", f>>, <<"grace", f>>} \cap waiting = {}
               /\ generating = {} /\ ready = <<>> /\ ~side[activeSide].listing
    <3>1. waiting \subseteq {<<"picture", f>> : f \in Items} BY <2>2 DEF PreviewsQuiet
    <3>2. \A w \in waiting : w[1] = "picture" BY <3>1
    <3>3. <<"follow">>[1] = "follow" /\ <<"sync">>[1] = "sync" /\ <<"reopen">>[1] = "reopen" OBVIOUS
    <3>4. \A f : <<"gone", f>>[1] = "gone" /\ <<"grace", f>>[1] = "grace" OBVIOUS
    <3>5. ~Following /\ <<"reopen">> \notin waiting BY <3>2, <3>3 DEF Following
    <3>6. \A f : <<"gone", f>> \notin waiting /\ <<"grace", f>> \notin waiting BY <3>2, <3>4
    <3>7. generating = {} /\ ready = <<>> /\ \A s \in Sides : side[s].listing = FALSE
      BY <2>2 DEF PreviewsQuiet, PreviewInv, PreviewTypes, SideStates
    <3>8. activeSide \in Sides BY DEF PreviewInv, PreviewTypes
    <3>9. \A f : {<<"gone", f>>, <<"grace", f>>} \cap waiting = {} BY <3>6
    <3> HIDE DEF Following
    <3> QED BY <3>5, <3>7, <3>8, <3>9
  <2>3. ASSUME PreviewsQuiet, panel.visible, Selected # NoItem
        PROVE  /\ panel.shown = Selected \/ (panel.shown = NoItem /\ Selected \in failed)
               /\ panel.page = "loading" => Selected \in failed
               /\ panel.page = "video" => panel.stream # NoStream
    <3>1. panel.shown = Selected \/ (panel.shown = NoItem /\ Selected \in failed)
      BY <2>2, <2>3 DEF PreviewInv, OnSelected
    <3>2. panel.page = "loading" => panel.shown \in failed BY <2>2, <2>3 DEF PreviewInv, Expected
    <3>3. NoItem \notin failed BY PreviewAssumption DEF PreviewInv, PreviewTypes, PreviewAssumption
    <3>4. panel.page = "video" => panel.stream # NoStream BY <2>2, <2>3 DEF PreviewInv, Plays
    <3> QED BY <3>1, <3>2, <3>3, <3>4
  <2>4. ASSUME PreviewsQuiet, panel.visible, Selected = NoItem, panel.shown # NoItem
        PROVE  \/ side[activeSide].recent
               \/ exists[panel.shown] /\ ItemFolder[panel.shown] = side[activeSide].folder
    BY <2>2, <2>4 DEF PreviewInv, OnWhatIsThere
  <2> QED BY <2>1, <2>3, <2>4 DEF PanelFollowsSelection
<1> QED BY <1>1, <1>2, <1>3, PTL DEF PreviewSpec

-------------------------------------------------------------------------------
(* The tabs and their bar. *)

TabIds     == 0 .. MaxTabs - 1
TabRecords == [id : TabIds, title : TabFolders \cup {Recent}, second : BOOLEAN, dual : BOOLEAN, side : TabSides]
PaneRecords == [path : TabFolders, recent : BOOLEAN]
PaneSets   == [TabIds -> [TabSides -> PaneRecords]]
LoadRecords == [pane : PaneIds, path : TabFolders]
Buttons    == [tab : TabIds, on : BOOLEAN]
ViewStates == [TabSides -> PaneIds \cup {NoView}]

(* Tabs that are open, n made so far: different ones, a second pane where one is shown. *)
TabList(list, n) ==
    /\ list \in Seq(TabRecords) /\ Len(list) >= 1
    /\ \A k \in 1..Len(list) : /\ list[k].id < n /\ (list[k].dual => list[k].second)
                               /\ (list[k].side = "right" => list[k].dual)
    /\ \A i, j \in 1..Len(list) : list[i].id = list[j].id => i = j

(* The same tabs, and the same but for their titles. *)
SameIds(a, b) == Len(a) = Len(b) /\ \A k \in 1..Len(b) : a[k].id = b[k].id
SameTabs(a, b) ==
    /\ Len(a) = Len(b)
    /\ \A k \in 1..Len(b) : a[k].id = b[k].id /\ a[k].second = b[k].second /\ a[k].dual = b[k].dual

(* Listings that are yet to reach the window. *)
OnWay == ToSet(tabLoads) \cup ToSet(tabEvents)

TabTypes ==
    /\ TabList(tabs, nextId) /\ activeTab \in 1..Len(tabs) /\ nextId \in 1..MaxTabs
    /\ panes \in PaneSets /\ rebuild \in Nat
    /\ view \in ViewStates /\ dual \in BOOLEAN
    /\ tabLoads \in Seq(LoadRecords) /\ tabEvents \in Seq(LoadRecords)
    /\ crashed \in BOOLEAN /\ tabUser \in [does : SUBSET TabWishes, left : Nat]

(* Where all folders can be listed every listing comes; without Recent every pane is listed; a
   listing is of a pane there was. *)
LoadsFit ==
    /\ AllList => /\ \A id \in TabIds, half \in TabSides : panes[id][half].path \notin TabFailing
                  /\ \A l \in OnWay : l.path \notin TabFailing
    /\ "recent" \notin tabUser.does => \A id \in TabIds, half \in TabSides : panes[id][half].recent = FALSE
    /\ \A l \in OnWay : l.pane[1] < nextId /\ (nextId = 1 /\ l.pane[2] = "right" => tabs[1].second)

(* The views are of the active tab, or its listing is to come. *)
ViewsCome ==
    ClosesByKeys /\ AllList =>
        LET tab == tabs[activeTab] IN
        /\ \/ view["left"] = <<tab.id, "left">> /\ dual = tab.dual
           \/ \E l \in OnWay : l.pane = <<tab.id, "left">>
        /\ tab.dual => view["right"] = <<tab.id, "right">>

(* The title of an only tab is its own, or comes with a listing. *)
TitleComes ==
    AllList /\ nextId = 1 =>
        \/ OnWay # {}
        \/ \E half \in TabSides :
              /\ half = "left" \/ tabs[1].second
              /\ tabs[1].title = IF panes[tabs[1].id][half].recent THEN Recent ELSE panes[tabs[1].id][half].path

(* The bar has a button for each tab, or will be built anew. *)
BarIsOfTabs  == Len(bar) = Len(tabs) /\ \A k \in 1..Len(bar) : bar[k].tab = tabs[k].id
OnePressed == \A k \in 1..Len(bar) : bar[k].on => k = activeTab
BarComes ==
    /\ bar \in Seq(Buttons) /\ (nextId = 1 => Len(bar) <= 1)
    /\ ClosesByKeys => Len(bar) <= Len(tabs) /\ crashed = FALSE
    /\ ClosesByKeys /\ AllList => Len(tabs) = 1 \/ OnWay # {} \/ rebuild > 0 \/ BarIsOfTabs
    /\ ClosesByKeys /\ AllList /\ "recent" \notin tabUser.does => OnWay # {} \/ rebuild > 0 \/ OnePressed
    /\ ClosesByKeys /\ "drag" \notin tabUser.does => \A k \in 1..Len(bar) : bar[k].tab = tabs[k].id

PanesInv == TabTypes /\ LoadsFit /\ ViewsCome /\ TitleComes
TabsInv  == PanesInv /\ BarComes /\ DropsGoWhereShown

(* What a step does to the order of the tabs, and to the active one. *)
TabOrder ==
    SameIds(tabs', tabs) \/ Ids(tabs') # Ids(tabs) \/ tabs'[activeTab'].id = tabs[activeTab].id

-------------------------------------------------------------------------------
(* Sequences. *)

(* Append: one more element, the last one. *)
LEMMA AppendedTo ==
    ASSUME NEW S, NEW s \in Seq(S), NEW e \in S
    PROVE  /\ Append(s, e) \in Seq(S) /\ Len(Append(s, e)) = Len(s) + 1
           /\ \A i \in 1..Len(s) : Append(s, e)[i] = s[i]
           /\ Append(s, e)[Len(s) + 1] = e /\ ToSet(Append(s, e)) = ToSet(s) \cup {e}
<1> DEFINE t == Append(s, e)
<1>1. /\ t \in Seq(S) /\ Len(s) \in Nat /\ Len(t) = Len(s) + 1
      /\ \A i \in 1..Len(s) : t[i] = s[i]
      /\ t[Len(s) + 1] = e
  OBVIOUS
<1>2. DOMAIN s = 1..Len(s) /\ DOMAIN t = 1..Len(t) OBVIOUS
<1> HIDE DEF t
<1>3. ToSet(t) = ToSet(s) \cup {e} BY <1>1, <1>2 DEF ToSet
<1> QED BY <1>1, <1>3 DEF t

(* What a concatenation holds is what its two parts hold. *)
LEMMA ConcatOf ==
    ASSUME NEW S, NEW s \in Seq(S), NEW t \in Seq(S)
    PROVE  s \o t \in Seq(S) /\ ToSet(s \o t) = ToSet(s) \cup ToSet(t)
<1> DEFINE u == s \o t
<1>1. /\ u \in Seq(S) /\ Len(s) \in Nat /\ Len(t) \in Nat /\ Len(u) = Len(s) + Len(t)
      /\ \A i \in 1..Len(u) : u[i] = IF i <= Len(s) THEN s[i] ELSE t[i - Len(s)]
  OBVIOUS
<1>2. DOMAIN s = 1..Len(s) /\ DOMAIN t = 1..Len(t) /\ DOMAIN u = 1..Len(u) OBVIOUS
<1> HIDE DEF u
<1>3. ToSet(u) \subseteq ToSet(s) \cup ToSet(t)
  <2> SUFFICES ASSUME NEW i \in 1..Len(u) PROVE u[i] \in ToSet(s) \cup ToSet(t) BY <1>2 DEF ToSet
  <2>1. CASE i <= Len(s) BY <1>1, <1>2, <2>1 DEF ToSet
  <2>2. CASE ~(i <= Len(s))
    <3>1. i - Len(s) \in 1..Len(t) /\ u[i] = t[i - Len(s)] BY <1>1, <2>2
    <3> QED BY <1>2, <3>1 DEF ToSet
  <2> QED BY <2>1, <2>2
<1>4. ASSUME NEW i \in 1..Len(s) PROVE s[i] \in ToSet(u) BY <1>1, <1>2 DEF ToSet
<1>5. ASSUME NEW i \in 1..Len(t) PROVE t[i] \in ToSet(u)
  <2>1. i + Len(s) \in 1..Len(u) /\ ~(i + Len(s) <= Len(s)) /\ (i + Len(s)) - Len(s) = i BY <1>1
  <2>2. u[i + Len(s)] = t[i] BY <1>1, <2>1
  <2> QED BY <1>2, <2>1, <2>2 DEF ToSet
<1>6. ToSet(s) \cup ToSet(t) \subseteq ToSet(u) BY <1>2, <1>4, <1>5 DEF ToSet
<1> QED BY <1>1, <1>3, <1>6 DEF u

(* RemoveAt: the others move up. *)
LEMMA RemovedFrom ==
    ASSUME NEW S, NEW s \in Seq(S), NEW p \in 1..Len(s)
    PROVE  /\ RemoveAt(s, p) \in Seq(S) /\ Len(RemoveAt(s, p)) = Len(s) - 1
           /\ \A i \in 1..(Len(s) - 1) : RemoveAt(s, p)[i] = IF i < p THEN s[i] ELSE s[i + 1]
           /\ ToSet(s) = ToSet(RemoveAt(s, p)) \cup {s[p]}
<1> DEFINE front == SubSeq(s, 1, p - 1)
           back  == SubSeq(s, p + 1, Len(s))
<1>1. front \in Seq(S) /\ Len(front) = p - 1 /\ \A i \in 1..(p - 1) : front[i] = s[i] OBVIOUS
<1>2. /\ back \in Seq(S) /\ Len(back) = Len(s) - p
      /\ \A i \in 1..(Len(s) - p) : back[i] = s[p + i]
  OBVIOUS
<1> DEFINE whole == front \o back
<1>3. RemoveAt(s, p) = whole BY DEF RemoveAt
<1> HIDE DEF front, back
<1>4. Len(whole) = Len(s) - 1 /\ whole \in Seq(S) BY <1>1, <1>2
<1>5. \A i \in 1..(Len(s) - 1) : whole[i] = IF i < p THEN front[i] ELSE back[i - (p - 1)] BY <1>1, <1>2
<1> HIDE DEF whole
<1>6. \A i \in 1..(Len(s) - 1) :
         i >= p => (i - (p - 1)) \in 1..(Len(s) - p) /\ back[i - (p - 1)] = s[i + 1]
  BY <1>2
<1>7. \A i \in 1..(Len(s) - 1) : whole[i] = IF i < p THEN s[i] ELSE s[i + 1] BY <1>1, <1>5, <1>6
<1>8. Len(s) \in Nat /\ DOMAIN s = 1..Len(s) /\ DOMAIN whole = 1..(Len(s) - 1) BY <1>4
<1>9. ASSUME NEW i \in 1..Len(s) PROVE s[i] \in ToSet(whole) \cup {s[p]}
  <2>1. CASE i < p BY <1>7, <1>8, <2>1 DEF ToSet
  <2>2. CASE i > p
    <3>1. i - 1 \in 1..(Len(s) - 1) /\ ~(i - 1 < p) /\ (i - 1) + 1 = i BY <1>8, <2>2
    <3>2. whole[i - 1] = s[i] BY <1>7, <3>1
    <3> QED BY <1>8, <3>1, <3>2 DEF ToSet
  <2> QED BY <2>1, <2>2
<1>10. ASSUME NEW i \in 1..(Len(s) - 1) PROVE whole[i] \in ToSet(s) BY <1>8, <1>7 DEF ToSet
<1>11. s[p] \in ToSet(s) BY <1>8 DEF ToSet
<1>12. ToSet(s) = ToSet(whole) \cup {s[p]} BY <1>8, <1>9, <1>10, <1>11 DEF ToSet
<1> QED BY <1>3, <1>4, <1>7, <1>12

(* A sequence holds its head and what its tail holds. *)
LEMMA TailOf ==
    ASSUME NEW S, NEW s \in Seq(S), s # <<>>
    PROVE  Head(s) \in S /\ Tail(s) \in Seq(S) /\ ToSet(s) = ToSet(Tail(s)) \cup {Head(s)}
<1> DEFINE t == Tail(s)
<1>1. /\ t \in Seq(S) /\ Len(s) \in Nat /\ Len(s) >= 1 /\ Len(t) = Len(s) - 1
      /\ Head(s) = s[1] /\ s[1] \in S /\ \A i \in 1..(Len(s) - 1) : t[i] = s[i + 1]
  OBVIOUS
<1>2. DOMAIN s = 1..Len(s) /\ DOMAIN t = 1..(Len(s) - 1) OBVIOUS
<1> HIDE DEF t
<1>3. ASSUME NEW i \in 1..Len(s) PROVE s[i] \in ToSet(t) \cup {s[1]}
  <2>1. CASE i # 1
    <3>1. i - 1 \in 1..(Len(s) - 1) /\ (i - 1) + 1 = i BY <1>1, <2>1
    <3>2. t[i - 1] = s[i] BY <1>1, <3>1
    <3> QED BY <1>2, <3>1, <3>2 DEF ToSet
  <2> QED BY <2>1
<1>4. ASSUME NEW i \in 1..(Len(s) - 1) PROVE t[i] \in ToSet(s) BY <1>1, <1>2 DEF ToSet
<1>5. s[1] \in ToSet(s) BY <1>1, <1>2 DEF ToSet
<1>6. ToSet(s) = ToSet(t) \cup {s[1]} BY <1>2, <1>3, <1>4, <1>5 DEF ToSet
<1> QED BY <1>1, <1>6 DEF t

-------------------------------------------------------------------------------
(* The operators of the window. *)

(* TabWish: what a user does stays what it is. *)
LEMMA WishIs ==
    ASSUME NEW name, TabWish(name), tabUser \in [does : SUBSET TabWishes, left : Nat]
    PROVE  /\ tabUser' \in [does : SUBSET TabWishes, left : Nat] /\ tabUser'.does = tabUser.does
           /\ name \in tabUser.does /\ ~crashed
BY DEF TabWish

(* Bar: a button for each tab, the active one pressed. *)
LEMMA BarIs ==
    ASSUME NEW list \in Seq(TabRecords), NEW at
    PROVE  /\ Bar(list, at) \in Seq(Buttons) /\ Len(Bar(list, at)) = Len(list)
           /\ \A k \in 1..Len(list) : Bar(list, at)[k].tab = list[k].id /\ (Bar(list, at)[k].on <=> k = at)
<1> DEFINE b == [k \in 1..Len(list) |-> [tab |-> list[k].id, on |-> k = at]]
<1>1. Bar(list, at) = b BY DEF Bar
<1>2. \A k \in 1..Len(list) : list[k] \in TabRecords OBVIOUS
<1>3. \A k \in 1..Len(list) : b[k] \in Buttons /\ b[k].tab = list[k].id /\ (b[k].on <=> k = at)
  BY <1>2 DEF TabRecords, Buttons
<1>4. Len(list) \in Nat /\ b \in [1..Len(list) -> Buttons] BY <1>3
<1> HIDE DEF b
<1>5. b \in Seq(Buttons) /\ Len(b) = Len(list) BY <1>4
<1> QED BY <1>1, <1>3, <1>5

(* Load: a listing of a pane that does not show recent files. *)
LEMMA LoadIs ==
    ASSUME NEW pane \in PaneIds, NEW s \in PaneRecords
    PROVE  /\ Load(pane, s) \in Seq(LoadRecords)
           /\ ToSet(Load(pane, s)) = IF s.recent THEN {} ELSE {[pane |-> pane, path |-> s.path]}
<1>1. CASE s.recent BY <1>1 DEF Load, ToSet
<1>2. CASE ~s.recent
  <2> DEFINE l == [pane |-> pane, path |-> s.path]
  <2>1. Load(pane, s) = <<l>> BY <1>2 DEF Load
  <2>2. l \in LoadRecords BY DEF LoadRecords, PaneRecords
  <2> HIDE DEF l
  <2>3. <<l>> \in Seq(LoadRecords) /\ ToSet(<<l>>) = {l} BY <2>2 DEF ToSet
  <2> QED BY <1>2, <2>1, <2>3 DEF l
<1> QED BY <1>1, <1>2

(* Whether a tab shows a pane. *)
ShownSides(tab) == {half \in TabSides : Shows(tab, half)}
ListingOf(all, id, half) == [pane |-> <<id, half>>, path |-> all[id][half].path]

(* PaneViews::show_active_tab. *)
LEMMA ShowsIs ==
    ASSUME NEW n, NEW list, TabList(list, n), NEW at \in 1..Len(list), NEW all \in PaneSets,
           tabLoads \in Seq(LoadRecords), view \in ViewStates, ShowActiveTab(list, at, all)
    PROVE  LET tab == list[at] IN
           /\ TabList(tabs', n) /\ SameTabs(tabs', list)
           /\ dual' = tab.dual /\ view' \in ViewStates /\ view'["left"] = <<tab.id, "left">>
           /\ tab.dual => view'["right"] = <<tab.id, "right">>
           /\ tabLoads' \in Seq(LoadRecords)
           /\ ToSet(tabLoads) \subseteq ToSet(tabLoads')
           /\ ToSet(tabLoads') \subseteq ToSet(tabLoads) \cup {ListingOf(all, tab.id, half) : half \in ShownSides(tab)}
           /\ \/ tabs' = list /\ ListingOf(all, tab.id, "left") \in ToSet(tabLoads')
              \/ /\ tabs'[at].title = Recent
                 /\ \E half \in ShownSides(tab) : all[tab.id][half].recent
<1> DEFINE tab == list[at]
<1> DEFINE left == Load(<<tab.id, "left">>, all[tab.id]["left"])
<1> DEFINE right == IF tab.dual THEN Load(<<tab.id, "right">>, all[tab.id]["right"]) ELSE << >>
<1>1. tab \in TabRecords /\ list \in Seq(TabRecords) BY DEF TabList
<1>2. tab.id \in TabIds /\ tab.dual \in BOOLEAN BY <1>1 DEF TabRecords
<1>3. "left" \in TabSides /\ "right" \in TabSides /\ "left" # "right" /\ TabSides = {"left", "right"}
  BY DEF TabSides
<1>4. <<tab.id, "left">> \in PaneIds /\ <<tab.id, "right">> \in PaneIds
  BY <1>2, <1>3 DEF PaneIds, TabIds
<1>5. \A half \in TabSides : all[tab.id][half] \in PaneRecords BY <1>2 DEF PaneSets
<1>6. /\ left \in Seq(LoadRecords)
      /\ ToSet(left) = IF all[tab.id]["left"].recent THEN {} ELSE {ListingOf(all, tab.id, "left")}
  BY <1>3, <1>4, <1>5, LoadIs DEF ListingOf
<1>7. /\ right \in Seq(LoadRecords)
      /\ ToSet(right) \subseteq IF tab.dual THEN {ListingOf(all, tab.id, "right")} ELSE {}
  <2>1. CASE tab.dual BY <1>3, <1>4, <1>5, <2>1, LoadIs DEF ListingOf
  <2>2. CASE ~tab.dual
    <3>1. right = << >> BY <2>2
    <3> HIDE DEF right
    <3> QED BY <2>2, <3>1 DEF ToSet
  <2> QED BY <2>1, <2>2
<1>8. /\ dual' = tab.dual
      /\ view' = [half \in TabSides |-> IF half \in ShownSides(tab) THEN <<tab.id, half>> ELSE view[half]]
      /\ tabLoads' = (tabLoads \o left) \o right
      /\ tabs' = IF \E half \in ShownSides(tab) : all[tab.id][half].recent
                 THEN [list EXCEPT ![at].title = Recent] ELSE list
  BY DEF ShowActiveTab, ShownSides
<1>9. ShownSides(tab) \subseteq TabSides /\ "left" \in ShownSides(tab) /\ (tab.dual <=> "right" \in ShownSides(tab))
  BY <1>3 DEF ShownSides, Shows
<1> HIDE DEF left, right
<1>10. /\ view' \in ViewStates /\ view'["left"] = <<tab.id, "left">>
       /\ tab.dual => view'["right"] = <<tab.id, "right">>
  BY <1>3, <1>4, <1>8, <1>9 DEF ViewStates
<1>11. /\ tabLoads' \in Seq(LoadRecords)
       /\ ToSet(tabLoads') = (ToSet(tabLoads) \cup ToSet(left)) \cup ToSet(right)
  <2> DEFINE both == tabLoads \o left
  <2>1. both \in Seq(LoadRecords) /\ ToSet(both) = ToSet(tabLoads) \cup ToSet(left) BY <1>6, ConcatOf
  <2>2. tabLoads' = both \o right BY <1>8
  <2> HIDE DEF both
  <2>3. both \o right \in Seq(LoadRecords) /\ ToSet(both \o right) = ToSet(both) \cup ToSet(right)
    BY <1>7, <2>1, ConcatOf
  <2> QED BY <2>1, <2>2, <2>3
<1>12. ToSet(left) \cup ToSet(right) \subseteq {ListingOf(all, tab.id, half) : half \in ShownSides(tab)}
  BY <1>6, <1>7, <1>9
<1>13. CASE \E half \in ShownSides(tab) : all[tab.id][half].recent
  <2> DEFINE new == [list EXCEPT ![at].title = Recent]
  <2>1. tabs' = new BY <1>8, <1>13
  <2>2. /\ new \in Seq(TabRecords) /\ Len(new) = Len(list)
        /\ \A k \in 1..Len(list) : new[k] = IF k = at THEN [tab EXCEPT !.title = Recent] ELSE list[k]
    BY <1>1 DEF TabRecords
  <2> HIDE DEF new
  <2>3. /\ [tab EXCEPT !.title = Recent].id = tab.id /\ [tab EXCEPT !.title = Recent].second = tab.second
        /\ [tab EXCEPT !.title = Recent].dual = tab.dual /\ [tab EXCEPT !.title = Recent].side = tab.side
        /\ [tab EXCEPT !.title = Recent].title = Recent
    BY <1>1 DEF TabRecords
  <2>4. \A k \in 1..Len(list) : new[k].id = list[k].id /\ new[k].second = list[k].second
                                 /\ new[k].dual = list[k].dual /\ new[k].side = list[k].side
    BY <2>2, <2>3
  <2>5. TabList(new, n) /\ SameTabs(new, list) /\ new[at].title = Recent
    BY <2>2, <2>3, <2>4 DEF TabList, SameTabs
  <2> HIDE DEF tab
  <2> QED BY <1>8, <1>10, <1>11, <1>12, <1>13, <2>1, <2>5 DEF tab
<1>14. CASE ~\E half \in ShownSides(tab) : all[tab.id][half].recent
  <2>1. tabs' = list BY <1>8, <1>14
  <2>2. SameTabs(list, list) BY DEF SameTabs
  <2>3. ListingOf(all, tab.id, "left") \in ToSet(tabLoads') BY <1>6, <1>9, <1>11, <1>14
  <2> HIDE DEF tab
  <2> QED BY <1>8, <1>10, <1>11, <1>12, <2>1, <2>2, <2>3 DEF tab
<1> QED BY <1>13, <1>14

-------------------------------------------------------------------------------
(* What is the same for many steps. *)

(* What is known of the sets of which all is made. *)
LEMMA TabSets ==
    /\ MaxTabs \in Nat \ {0} /\ TabIds = 0..(MaxTabs - 1) /\ TabIds \subseteq Nat
    /\ "left" \in TabSides /\ "right" \in TabSides /\ "left" # "right"
    /\ \A half \in TabSides : half = "left" \/ half = "right"
BY TabsAssumption DEF TabsAssumption, TabIds, TabSides

(* The only tab there ever was. *)
LEMMA OneTab ==
    ASSUME NEW list, TabList(list, 1)
    PROVE  Len(list) = 1 /\ list[1].id = 0
<1>1. \A k \in 1..Len(list) : list[k].id = 0
  <2>1. \A k \in 1..Len(list) : list[k] \in TabRecords BY DEF TabList
  <2> QED BY <2>1, TabSets DEF TabList, TabRecords
<1>2. Len(list) \in Nat /\ Len(list) >= 1 /\ \A i, j \in 1..Len(list) : list[i].id = list[j].id => i = j
  BY DEF TabList
<1>3. ASSUME Len(list) >= 2 PROVE FALSE BY <1>2, <1>3, <1>1
<1>4. Len(list) = 1
  <2>1. Len(list) \in Nat /\ Len(list) >= 1 /\ ~(Len(list) >= 2) BY <1>2, <1>3
  <2> DEFINE n == Len(list)
  <2>2. n \in Nat /\ n >= 1 /\ ~(n >= 2) BY <2>1
  <2> HIDE DEF n
  <2>3. n = 1 BY <2>2
  <2> QED BY <2>3 DEF n
<1>5. 1 \in 1..Len(list) BY <1>2
<1> QED BY <1>1, <1>4, <1>5

(* The active pane. *)
LEMMA PaneIs ==
    ASSUME PanesInv
    PROVE  /\ tabs[activeTab] \in TabRecords /\ tabs[activeTab].id \in TabIds /\ tabs[activeTab].id < nextId
           /\ ActivePane = <<tabs[activeTab].id, tabs[activeTab].side>> /\ ActivePane \in PaneIds
           /\ tabs[activeTab].side \in TabSides /\ (tabs[activeTab].side = "right" => tabs[activeTab].second)
           /\ PaneOf(ActivePane) = panes[tabs[activeTab].id][tabs[activeTab].side]
           /\ PaneOf(ActivePane) \in PaneRecords /\ PaneOf(ActivePane).path \in TabFolders
           /\ AllList => PaneOf(ActivePane).path \notin TabFailing
<1> DEFINE tab == tabs[activeTab]
<1>1. tab \in TabRecords /\ tab.id < nextId /\ (tab.dual => tab.second) /\ (tab.side = "right" => tab.dual)
  BY DEF PanesInv, TabTypes, TabList
<1>2. tab.id \in TabIds /\ tab.side \in TabSides BY <1>1 DEF TabRecords
<1>3. ActivePane = <<tab.id, tab.side>> BY DEF ActivePane
<1> HIDE DEF tab
<1>4. ActivePane \in PaneIds /\ PaneOf(ActivePane) = panes[tab.id][tab.side]
  BY <1>2, <1>3 DEF PaneIds, PaneOf, TabIds
<1>5. PaneOf(ActivePane) \in PaneRecords BY <1>2, <1>4 DEF PanesInv, TabTypes, PaneSets
<1>6. AllList => PaneOf(ActivePane).path \notin TabFailing BY <1>2, <1>4 DEF PanesInv, LoadsFit
<1>7. PaneOf(ActivePane).path \in TabFolders BY <1>5 DEF PaneRecords
<1> QED BY <1>1, <1>2, <1>3, <1>4, <1>5, <1>6, <1>7 DEF tab

(* A pane is given something else to show. *)
LEMMA PutIs ==
    ASSUME NEW all \in PaneSets, NEW id \in TabIds, NEW half \in TabSides, NEW p \in PaneRecords
    PROVE  /\ [all EXCEPT ![id][half] = p] \in PaneSets
           /\ \A i \in TabIds, s \in TabSides :
                 [all EXCEPT ![id][half] = p][i][s] = IF i = id /\ s = half THEN p ELSE all[i][s]
BY DEF PaneSets

(* NewPane *)
LEMMA NewPaneIs ==
    ASSUME NEW f \in TabFolders
    PROVE  NewPane(f) \in PaneRecords /\ NewPane(f).path = f /\ NewPane(f).recent = FALSE
BY DEF NewPane, PaneRecords

(* The active tab is shown, all of it. *)
LEMMA ShownKeeps ==
    ASSUME PanesInv, NEW n \in 1..MaxTabs, n >= nextId, NEW list, TabList(list, n), NEW at \in 1..Len(list),
           NEW all \in PaneSets, ShowActiveTab(list, at, all),
           AllList => \A id \in TabIds, half \in TabSides : all[id][half].path \notin TabFailing,
           "recent" \notin tabUser.does => \A id \in TabIds, half \in TabSides : all[id][half].recent = FALSE,
           n = 1 => list = tabs,
           activeTab' = at, nextId' = n, panes' = all, UNCHANGED <<rebuild, tabEvents, crashed>>,
           tabUser' \in [does : SUBSET TabWishes, left : Nat], tabUser'.does = tabUser.does
    PROVE  /\ PanesInv' /\ SameTabs(tabs', list) /\ OnWay \subseteq OnWay'
           /\ "recent" \notin tabUser.does => OnWay' # {}
<1> DEFINE tab == list[at]
<1>1. tabLoads \in Seq(LoadRecords) /\ view \in ViewStates /\ tabEvents \in Seq(LoadRecords)
  BY DEF PanesInv, TabTypes
<1>2. /\ TabList(tabs', n) /\ SameTabs(tabs', list)
      /\ dual' = tab.dual /\ view' \in ViewStates /\ view'["left"] = <<tab.id, "left">>
      /\ tab.dual => view'["right"] = <<tab.id, "right">>
      /\ tabLoads' \in Seq(LoadRecords)
  BY <1>1, ShowsIs
<1>3. /\ ToSet(tabLoads) \subseteq ToSet(tabLoads')
      /\ ToSet(tabLoads') \subseteq ToSet(tabLoads) \cup {ListingOf(all, tab.id, half) : half \in ShownSides(tab)}
  BY <1>1, ShowsIs
<1>4. \/ tabs' = list /\ ListingOf(all, tab.id, "left") \in ToSet(tabLoads')
      \/ /\ tabs'[at].title = Recent
         /\ \E half \in ShownSides(tab) : all[tab.id][half].recent
  BY <1>1, ShowsIs
<1>5. /\ tab \in TabRecords /\ tab.id \in TabIds /\ tab.id < n /\ tab.dual \in BOOLEAN
      /\ tab.dual => tab.second
  <2>1. tab \in TabRecords /\ tab.id < n /\ (tab.dual => tab.second) BY DEF TabList
  <2> QED BY <2>1 DEF TabRecords
<1>6. /\ Len(tabs') = Len(list) /\ tabs'[at].id = tab.id /\ tabs'[at].dual = tab.dual /\ tabs'[at].second = tab.second
  BY <1>2 DEF SameTabs
<1>7. n = 1 => at = 1 /\ nextId = 1 /\ tabs'[1].second = tab.second /\ tabs[1].second = tab.second
  <2>1. n = 1 => Len(list) = 1 BY OneTab
  <2>2. ASSUME n = 1 PROVE at = 1
    <3>1. at \in 1..1 BY <2>1, <2>2
    <3> QED BY <3>1
  <2>3. n = 1 => nextId = 1 BY TabSets DEF PanesInv, TabTypes
  <2>4. n = 1 => tabs[1].second = tab.second BY <2>2
  <2> QED BY <1>6, <2>2, <2>3, <2>4
<1> HIDE DEF tab
<1>8. TabTypes' BY <1>1, <1>2, <1>5, <1>6 DEF PanesInv, TabTypes
<1>9. ShownSides(tab) \subseteq TabSides /\ ("right" \in ShownSides(tab) => tab.dual)
  BY TabSets DEF ShownSides, Shows
<1>10. \A half \in ShownSides(tab) :
          /\ ListingOf(all, tab.id, half).pane[1] = tab.id /\ ListingOf(all, tab.id, half).pane[2] = half
          /\ ListingOf(all, tab.id, half).path = all[tab.id][half].path
  BY DEF ListingOf
<1>11. /\ OnWay \subseteq OnWay'
       /\ OnWay' \subseteq OnWay \cup {ListingOf(all, tab.id, half) : half \in ShownSides(tab)}
  BY <1>3 DEF OnWay
<1>12. AllList' = AllList /\ ClosesByKeys' = ClosesByKeys BY DEF AllList, ClosesByKeys
<1>13. LoadsFit'
  <2>1. AllList' => /\ \A id \in TabIds, half \in TabSides : panes'[id][half].path \notin TabFailing
                    /\ \A l \in OnWay' : l.path \notin TabFailing
    BY <1>5, <1>9, <1>10, <1>11, <1>12 DEF PanesInv, LoadsFit
  <2>2. ASSUME NEW l \in OnWay' PROVE l.pane[1] < n /\ (n = 1 /\ l.pane[2] = "right" => tabs'[1].second)
    <3>1. CASE l \in OnWay
      <4>1. l.pane[1] < nextId /\ (nextId = 1 /\ l.pane[2] = "right" => tabs[1].second)
        BY <3>1 DEF PanesInv, LoadsFit
      <4>2. l \in LoadRecords BY <1>1, <3>1 DEF OnWay, ToSet
      <4>3. l.pane[1] \in Nat /\ nextId \in Nat /\ n \in Nat
        BY <4>2, TabSets DEF LoadRecords, PaneIds, PanesInv, TabTypes
      <4> QED BY <1>7, <4>1, <4>3
    <3>2. CASE \E half \in ShownSides(tab) : l = ListingOf(all, tab.id, half)
      BY <1>5, <1>7, <1>9, <1>10, <3>2
    <3> QED BY <1>11, <3>1, <3>2
  <2> QED BY <2>1, <2>2 DEF LoadsFit
<1>14. ViewsCome' BY <1>2, <1>6, TabSets DEF ViewsCome
<1>15. TitleComes'
  <2> SUFFICES ASSUME AllList', nextId' = 1
               PROVE  \/ OnWay' # {}
                      \/ \E half \in TabSides :
                            /\ half = "left" \/ tabs'[1].second
                            /\ tabs'[1].title = IF panes'[tabs'[1].id][half].recent THEN Recent
                                                ELSE panes'[tabs'[1].id][half].path
    BY DEF TitleComes
  <2>1. CASE ListingOf(all, tab.id, "left") \in ToSet(tabLoads') BY <2>1 DEF OnWay
  <2>2. CASE tabs'[at].title = Recent /\ \E half \in ShownSides(tab) : all[tab.id][half].recent
    BY <2>2, <1>5, <1>7, <1>9, TabSets, <1>6
  <2> QED BY <1>4, <2>1, <2>2
<1>16. "recent" \notin tabUser.does => OnWay' # {} BY <1>4, <1>5, <1>9 DEF OnWay
<1> QED BY <1>2, <1>8, <1>11, <1>13, <1>14, <1>15, <1>16 DEF PanesInv

(* The bar is built anew. *)
LEMMA BarBuilt ==
    ASSUME BarComes, TabTypes', NEW list \in Seq(TabRecords), SameTabs(tabs', list), bar' = Bar(list, activeTab'),
           crashed' = crashed, tabUser'.does = tabUser.does
    PROVE  BarComes'
<1>1. /\ bar' \in Seq(Buttons) /\ Len(bar') = Len(list)
      /\ \A k \in 1..Len(list) : bar'[k].tab = list[k].id /\ (bar'[k].on <=> k = activeTab')
  BY BarIs
<1>2. Len(tabs') = Len(list) /\ \A k \in 1..Len(list) : tabs'[k].id = list[k].id BY DEF SameTabs
<1>3. BarIsOfTabs' /\ OnePressed' BY <1>1, <1>2 DEF BarIsOfTabs, OnePressed
<1>4. nextId' = 1 => Len(bar') <= 1 BY OneTab, <1>1, <1>2 DEF TabTypes
<1>5. ClosesByKeys' => Len(bar') <= Len(tabs') /\ crashed' = FALSE
  BY <1>1, <1>2 DEF ClosesByKeys, BarComes
<1> QED BY <1>1, <1>3, <1>4, <1>5 DEF BarComes, BarIsOfTabs

(* The bar stays. *)
LEMMA BarStays ==
    ASSUME BarComes, UNCHANGED <<bar, activeTab, nextId, rebuild, crashed>>, SameIds(tabs', tabs),
           AllList /\ OnWay # {} => OnWay' # {}, tabUser'.does = tabUser.does
    PROVE  BarComes'
<1>1. Len(tabs') = Len(tabs) /\ \A k \in 1..Len(tabs) : tabs'[k].id = tabs[k].id BY DEF SameIds
<1>2. AllList' = AllList /\ ClosesByKeys' = ClosesByKeys BY DEF AllList, ClosesByKeys
<1>3. BarIsOfTabs => BarIsOfTabs' BY <1>1 DEF BarIsOfTabs
<1>4. OnePressed => OnePressed' BY DEF OnePressed
<1>5. ClosesByKeys /\ "drag" \notin tabUser.does => \A k \in 1..Len(bar) : bar[k].tab = tabs'[k].id
  BY <1>1 DEF BarComes, SameIds
<1> QED BY <1>1, <1>2, <1>3, <1>4, <1>5 DEF BarComes

(* Nothing is dropped. *)
LEMMA DropsStay ==
    ASSUME DropsGoWhereShown, drops' = drops, tabUser'.does = tabUser.does
    PROVE  DropsGoWhereShown'
BY DEF DropsGoWhereShown, ClosesByKeys

(* A tab that is added is another one. *)
LEMMA AddedIs ==
    ASSUME PanesInv, NEW folder \in TabFolders, nextId < MaxTabs
    PROVE  /\ nextId \in TabIds /\ nextId + 1 \in 1..MaxTabs
           /\ TabList(Added(folder), nextId + 1) /\ Len(Added(folder)) = Len(tabs) + 1
           /\ \A k \in 1..Len(tabs) : Added(folder)[k] = tabs[k]
           /\ Added(folder)[Len(tabs) + 1] = NewTab(nextId, folder)
           /\ NewTab(nextId, folder).id = nextId /\ NewTab(nextId, folder).dual = FALSE
<1> DEFINE new == NewTab(nextId, folder)
<1>1. nextId \in Nat /\ nextId \in TabIds /\ nextId + 1 \in 1..MaxTabs BY TabSets DEF PanesInv, TabTypes
<1>2. new \in TabRecords /\ new.id = nextId /\ new.dual = FALSE /\ new.side = "left"
  BY <1>1, TabSets DEF NewTab, TabRecords
<1>3. tabs \in Seq(TabRecords) /\ Len(tabs) \in Nat BY DEF PanesInv, TabTypes, TabList
<1> HIDE DEF new
<1> DEFINE list == Append(tabs, new)
<1>4. Added(folder) = list BY DEF Added, new
<1>5. /\ list \in Seq(TabRecords) /\ Len(list) = Len(tabs) + 1
      /\ \A k \in 1..Len(tabs) : list[k] = tabs[k]
      /\ list[Len(tabs) + 1] = new
  BY <1>2, <1>3, AppendedTo
<1> HIDE DEF list
<1>6. \A k \in 1..Len(tabs) : /\ tabs[k].id < nextId /\ tabs[k].id \in Nat /\ (tabs[k].dual => tabs[k].second)
                              /\ (tabs[k].side = "right" => tabs[k].dual)
  <2>1. \A k \in 1..Len(tabs) : tabs[k] \in TabRecords BY <1>3
  <2> QED BY <2>1, TabSets DEF PanesInv, TabTypes, TabList, TabRecords
<1>7. ASSUME NEW k \in 1..Len(list)
      PROVE  /\ list[k].id < nextId + 1 /\ (list[k].dual => list[k].second)
             /\ (list[k].side = "right" => list[k].dual)
  BY <1>1, <1>5, <1>6, <1>2, <1>3
<1>8. ASSUME NEW i \in 1..Len(list), NEW j \in 1..Len(list), list[i].id = list[j].id PROVE i = j
  <2>1. \A k \in 1..Len(list) : k \in 1..Len(tabs) \/ k = Len(tabs) + 1 BY <1>3, <1>5
  <2>2. \A k \in 1..Len(tabs) : list[k].id # nextId BY <1>1, <1>5, <1>6
  <2>3. list[Len(tabs) + 1].id = nextId BY <1>2, <1>5
  <2>4. i \in 1..Len(tabs) /\ j \in 1..Len(tabs) => i = j BY <1>5, <1>8 DEF PanesInv, TabTypes, TabList
  <2> QED BY <1>8, <2>1, <2>2, <2>3, <2>4
<1>9. TabList(list, nextId + 1) BY <1>3, <1>5, <1>7, <1>8 DEF TabList
<1> QED BY <1>1, <1>2, <1>4, <1>5, <1>9 DEF new

(* A tab that goes leaves the others. *)
LEMMA GoneIs ==
    ASSUME PanesInv, NEW p \in 1..Len(tabs), Len(tabs) > 1
    PROVE  /\ TabList(RemoveAt(tabs, p), nextId) /\ Len(RemoveAt(tabs, p)) = Len(tabs) - 1
           /\ tabs[p].id \in Ids(tabs) /\ tabs[p].id \notin Ids(RemoveAt(tabs, p))
           /\ nextId # 1
<1> DEFINE left == RemoveAt(tabs, p)
<1> DEFINE from(i) == IF i < p THEN i ELSE i + 1
<1>1. tabs \in Seq(TabRecords) /\ Len(tabs) \in Nat /\ p \in Nat BY DEF PanesInv, TabTypes, TabList
<1>2. /\ left \in Seq(TabRecords) /\ Len(left) = Len(tabs) - 1
      /\ \A i \in 1..(Len(tabs) - 1) : left[i] = IF i < p THEN tabs[i] ELSE tabs[i + 1]
  BY <1>1, RemovedFrom
<1> HIDE DEF left
<1>3. \A i \in 1..Len(left) : left[i] = tabs[from(i)] /\ from(i) \in 1..Len(tabs) /\ from(i) # p
  BY <1>1, <1>2
<1>4. \A i, j \in 1..Len(left) : from(i) = from(j) => i = j BY <1>1, <1>2
<1> HIDE DEF from
<1>5. \A i, j \in 1..Len(tabs) : tabs[i].id = tabs[j].id => i = j BY DEF PanesInv, TabTypes, TabList
<1>6. TabList(left, nextId)
  <2>1. Len(left) >= 1 BY <1>1, <1>2
  <2>2. \A k \in 1..Len(left) : /\ left[k].id < nextId /\ (left[k].dual => left[k].second)
                                /\ (left[k].side = "right" => left[k].dual)
    BY <1>3 DEF PanesInv, TabTypes, TabList
  <2>3. \A i, j \in 1..Len(left) : left[i].id = left[j].id => i = j BY <1>3, <1>4, <1>5
  <2> QED BY <1>2, <2>1, <2>2, <2>3 DEF TabList
<1>7. DOMAIN tabs = 1..Len(tabs) /\ DOMAIN left = 1..Len(left) BY <1>1, <1>2
<1>8. tabs[p].id \in Ids(tabs) BY <1>7 DEF Ids
<1>9. tabs[p].id \notin Ids(left) BY <1>3, <1>5, <1>7 DEF Ids
<1>10. nextId # 1
  <2>1. nextId = 1 => Len(tabs) = 1 BY OneTab DEF PanesInv, TabTypes
  <2> DEFINE n == Len(tabs)
  <2>2. n \in Nat /\ n > 1 /\ (nextId = 1 => n = 1) BY <1>1, <2>1
  <2> HIDE DEF n
  <2> QED BY <2>2
<1> QED BY <1>2, <1>6, <1>8, <1>9, <1>10 DEF left

-------------------------------------------------------------------------------
(* The keyboard. *)

(* NewTabKey: the new tab is shown; no other has its id. *)
LEMMA NewTabKeyStep ==
    ASSUME TabsInv, NewTabKey
    PROVE  TabsInv' /\ TabOrder
<1> DEFINE folder == PaneOf(ActivePane).path
<1> DEFINE all == [panes EXCEPT ![nextId]["left"] = NewPane(folder)]
<1> DEFINE list == Added(folder)
<1>1. /\ TabWish("key_new") /\ nextId < MaxTabs
      /\ panes' = all /\ nextId' = nextId + 1 /\ activeTab' = Len(tabs) + 1
      /\ ShowActiveTab(list, Len(tabs) + 1, all) /\ bar' = Bar(list, Len(tabs) + 1)
      /\ UNCHANGED <<rebuild, tabEvents, drops, crashed>>
  BY DEF NewTabKey
<1>2. PanesInv BY DEF TabsInv
<1>3. folder \in TabFolders /\ (AllList => folder \notin TabFailing) BY <1>2, PaneIs
<1> HIDE DEF folder
<1>4. /\ nextId \in TabIds /\ nextId + 1 \in 1..MaxTabs /\ TabList(list, nextId + 1)
      /\ Len(list) = Len(tabs) + 1 /\ \A k \in 1..Len(tabs) : list[k] = tabs[k]
      /\ list[Len(tabs) + 1].id = nextId
  BY <1>1, <1>2, <1>3, AddedIs
<1> HIDE DEF list
<1>5. /\ all \in PaneSets
      /\ \A i \in TabIds, s \in TabSides :
            all[i][s] = IF i = nextId /\ s = "left" THEN NewPane(folder) ELSE panes[i][s]
  <2> DEFINE p == NewPane(folder)
  <2>1. panes \in PaneSets /\ p \in PaneRecords BY <1>2, <1>3, NewPaneIs DEF PanesInv, TabTypes
  <2> HIDE DEF p
  <2>2. /\ [panes EXCEPT ![nextId]["left"] = p] \in PaneSets
        /\ \A i \in TabIds, s \in TabSides :
              [panes EXCEPT ![nextId]["left"] = p][i][s] = IF i = nextId /\ s = "left" THEN p ELSE panes[i][s]
    BY TabSets, <1>4, <2>1, PutIs
  <2> QED BY <2>2 DEF p
<1> HIDE DEF all
<1>6. NewPane(folder).path = folder /\ NewPane(folder).recent = FALSE BY <1>3, NewPaneIs
<1>7. AllList => \A id \in TabIds, half \in TabSides : all[id][half].path \notin TabFailing
  BY <1>2, <1>3, <1>5, <1>6 DEF PanesInv, LoadsFit
<1>8. "recent" \notin tabUser.does => \A id \in TabIds, half \in TabSides : all[id][half].recent = FALSE
  BY <1>2, <1>5, <1>6 DEF PanesInv, LoadsFit
<1>9. tabUser' \in [does : SUBSET TabWishes, left : Nat] /\ tabUser'.does = tabUser.does
  BY <1>1, <1>2, WishIs DEF PanesInv, TabTypes
<1>10. Len(tabs) \in Nat /\ nextId \in Nat /\ nextId >= 1 /\ tabs \in Seq(TabRecords)
  BY <1>2, TabSets DEF PanesInv, TabTypes, TabList
<1>11. /\ nextId + 1 >= nextId /\ nextId + 1 # 1 /\ Len(tabs) + 1 \in 1..Len(list) BY <1>4, <1>10
<1>12. PanesInv' /\ SameTabs(tabs', list) BY <1>1, <1>2, <1>4, <1>5, <1>7, <1>8, <1>9, <1>11, ShownKeeps
<1>13. BarComes' BY <1>1, <1>4, <1>9, <1>12, BarBuilt DEF TabsInv, TabList, PanesInv
<1>14. DropsGoWhereShown' BY <1>1, <1>9, DropsStay DEF TabsInv
<1>15. Ids(tabs') # Ids(tabs)
  <2>1. DOMAIN tabs = 1..Len(tabs) /\ DOMAIN tabs' = 1..Len(tabs')
    BY <1>10, <1>12 DEF PanesInv, TabTypes, TabList
  <2>2. Len(tabs) + 1 \in 1..Len(tabs') /\ tabs'[Len(tabs) + 1].id = nextId
    BY <1>4, <1>11, <1>12 DEF SameTabs
  <2>3. nextId \in Ids(tabs') BY <2>1, <2>2 DEF Ids
  <2>4. \A k \in 1..Len(tabs) : tabs[k].id # nextId
    BY <1>2, <1>10, TabSets DEF PanesInv, TabTypes, TabList, TabRecords
  <2>5. nextId \notin Ids(tabs) BY <2>1, <2>4 DEF Ids
  <2> QED BY <2>3, <2>5
<1> QED BY <1>12, <1>13, <1>14, <1>15 DEF TabsInv, TabOrder

(* AfterClose: the tab that is active then is there. *)
LEMMA AfterCloseIs ==
    ASSUME NEW n \in Nat, n > 1, n = Len(tabs), activeTab \in 1..n, NEW index
    PROVE  AfterClose(index) \in 1..(n - 1)
BY DEF AfterClose

(* CloseTabKey: a tab that is left is shown. *)
LEMMA CloseTabKeyStep ==
    ASSUME TabsInv, CloseTabKey
    PROVE  TabsInv' /\ TabOrder
<1> DEFINE list == RemoveAt(tabs, activeTab)
<1> DEFINE at == AfterClose(activeTab)
<1>1. /\ TabWish("key_close") /\ Len(tabs) > 1
      /\ activeTab' = at /\ bar' = Bar(list, at) /\ ShowActiveTab(list, at, panes)
      /\ UNCHANGED <<panes, nextId, rebuild, tabEvents, drops, crashed>>
  BY DEF CloseTabKey
<1>2. PanesInv BY DEF TabsInv
<1>3. /\ activeTab \in 1..Len(tabs) /\ Len(tabs) \in Nat /\ nextId \in 1..MaxTabs /\ nextId >= nextId
      /\ panes \in PaneSets
  BY <1>2, TabSets DEF PanesInv, TabTypes, TabList
<1>4. /\ TabList(list, nextId) /\ Len(list) = Len(tabs) - 1
      /\ tabs[activeTab].id \in Ids(tabs) /\ tabs[activeTab].id \notin Ids(list) /\ nextId # 1
  BY <1>1, <1>2, <1>3, GoneIs
<1>5. at \in 1..Len(list) BY <1>1, <1>3, <1>4, AfterCloseIs
<1> HIDE DEF list, at
<1>6. AllList => \A id \in TabIds, half \in TabSides : panes[id][half].path \notin TabFailing
  BY <1>2 DEF PanesInv, LoadsFit
<1>7. "recent" \notin tabUser.does => \A id \in TabIds, half \in TabSides : panes[id][half].recent = FALSE
  BY <1>2 DEF PanesInv, LoadsFit
<1>8. tabUser' \in [does : SUBSET TabWishes, left : Nat] /\ tabUser'.does = tabUser.does
  BY <1>1, <1>2, WishIs DEF PanesInv, TabTypes
<1>9. PanesInv' /\ SameTabs(tabs', list) BY <1>1, <1>2, <1>3, <1>4, <1>5, <1>6, <1>7, <1>8, ShownKeeps
<1>10. BarComes' BY <1>1, <1>4, <1>8, <1>9, BarBuilt DEF TabsInv, TabList, PanesInv
<1>11. DropsGoWhereShown' BY <1>1, <1>8, DropsStay DEF TabsInv
<1>12. Ids(tabs') # Ids(tabs)
  <2>1. DOMAIN list = 1..Len(list) /\ DOMAIN tabs' = 1..Len(tabs')
    BY <1>4, <1>9 DEF PanesInv, TabTypes, TabList
  <2>2. Ids(tabs') = Ids(list) BY <1>9, <2>1 DEF Ids, SameTabs
  <2> QED BY <1>4, <2>2
<1> QED BY <1>9, <1>10, <1>11, <1>12 DEF TabsInv, TabOrder

(* The tab after this one, or before it. *)
LEMMA NextIs ==
    ASSUME NEW n \in Nat \ {0}, NEW a \in 1..n
    PROVE  (a % n) + 1 \in 1..n /\ ((a + n - 2) % n) + 1 \in 1..n
OBVIOUS

(* CycleTab: one of the tabs there are is shown. *)
LEMMA CycleTabStep ==
    ASSUME TabsInv, CycleTab
    PROVE  TabsInv' /\ TabOrder
<1>1. PICK at \in {(activeTab % Len(tabs)) + 1, ((activeTab + Len(tabs) - 2) % Len(tabs)) + 1} :
         /\ TabWish("cycle")
         /\ activeTab' = at /\ bar' = Bar(tabs, at) /\ ShowActiveTab(tabs, at, panes)
         /\ UNCHANGED <<panes, nextId, rebuild, tabEvents, drops, crashed>>
  BY DEF CycleTab
<1>2. PanesInv BY DEF TabsInv
<1>3. /\ activeTab \in 1..Len(tabs) /\ Len(tabs) \in Nat /\ Len(tabs) # 0 /\ nextId \in 1..MaxTabs
      /\ nextId >= nextId /\ panes \in PaneSets /\ TabList(tabs, nextId)
  BY <1>2, TabSets DEF PanesInv, TabTypes, TabList
<1>4. at \in 1..Len(tabs) BY <1>3, NextIs
<1>5. AllList => \A id \in TabIds, half \in TabSides : panes[id][half].path \notin TabFailing
  BY <1>2 DEF PanesInv, LoadsFit
<1>6. "recent" \notin tabUser.does => \A id \in TabIds, half \in TabSides : panes[id][half].recent = FALSE
  BY <1>2 DEF PanesInv, LoadsFit
<1>7. tabUser' \in [does : SUBSET TabWishes, left : Nat] /\ tabUser'.does = tabUser.does
  BY <1>1, <1>2, WishIs DEF PanesInv, TabTypes
<1>8. PanesInv' /\ SameTabs(tabs', tabs) BY <1>1, <1>2, <1>3, <1>4, <1>5, <1>6, <1>7, ShownKeeps
<1>9. BarComes' BY <1>1, <1>3, <1>7, <1>8, BarBuilt DEF TabsInv, TabList, PanesInv
<1>10. DropsGoWhereShown' BY <1>1, <1>7, DropsStay DEF TabsInv
<1> QED BY <1>8, <1>9, <1>10 DEF TabsInv, TabOrder, SameTabs, SameIds

(* ToggleDual: the right pane goes, or comes with its listing. *)
LEMMA ToggleDualStep ==
    ASSUME TabsInv, ToggleDual
    PROVE  TabsInv' /\ TabOrder
<1> DEFINE tab == tabs[activeTab]
<1> DEFINE right == <<tab.id, "right">>
<1> DEFINE all == IF tab.second THEN panes
                  ELSE [panes EXCEPT ![tab.id]["right"] = NewPane(panes[tab.id]["left"].path)]
<1> DEFINE one == [tab EXCEPT !.dual = FALSE, !.side = "left"]
<1> DEFINE two == [tab EXCEPT !.dual = TRUE, !.second = TRUE]
<1> DEFINE listing == [pane |-> right, path |-> all[tab.id]["right"].path]
<1>1. /\ TabWish("dual") /\ UNCHANGED <<activeTab, nextId, bar, rebuild, tabEvents, drops, crashed>>
      /\ IF tab.dual THEN /\ tabs' = [tabs EXCEPT ![activeTab] = one]
                          /\ dual' = FALSE /\ UNCHANGED <<panes, view, tabLoads>>
         ELSE /\ tabs' = [tabs EXCEPT ![activeTab] = two]
              /\ dual' = TRUE /\ panes' = all /\ view' = [view EXCEPT !["right"] = right]
              /\ tabLoads' = Append(tabLoads, listing)
  BY DEF ToggleDual
<1>2. PanesInv BY DEF TabsInv
<1>3. tab \in TabRecords /\ tab.id \in TabIds /\ tab.id < nextId BY <1>2, PaneIs
<1>4. /\ one \in TabRecords /\ one.id = tab.id /\ one.dual = FALSE /\ one.side = "left"
      /\ one.second = tab.second /\ one.title = tab.title
  BY <1>3, TabSets DEF TabRecords
<1>5. /\ two \in TabRecords /\ two.id = tab.id /\ two.dual = TRUE /\ two.second = TRUE
      /\ two.title = tab.title
  BY <1>3, TabSets DEF TabRecords
<1> HIDE DEF one, two
<1>6. tabUser' \in [does : SUBSET TabWishes, left : Nat] /\ tabUser'.does = tabUser.does
  BY <1>1, <1>2, WishIs DEF PanesInv, TabTypes
<1>7. AllList' = AllList /\ ClosesByKeys' = ClosesByKeys BY <1>6 DEF AllList, ClosesByKeys
<1>8. activeTab \in 1..Len(tabs) /\ tabs \in Seq(TabRecords) BY <1>2 DEF PanesInv, TabTypes, TabList
<1>9. CASE tab.dual
  <2>1. /\ tabs' = [tabs EXCEPT ![activeTab] = one] /\ dual' = FALSE /\ UNCHANGED <<panes, view, tabLoads>>
    BY <1>1, <1>9
  <2>2. /\ tabs' \in Seq(TabRecords) /\ Len(tabs') = Len(tabs)
        /\ \A k \in 1..Len(tabs) : tabs'[k] = IF k = activeTab THEN one ELSE tabs[k]
    BY <1>4, <1>8, <2>1
  <2>3. /\ \A k \in 1..Len(tabs) : /\ tabs'[k].id = tabs[k].id /\ tabs'[k].second = tabs[k].second
                                   /\ tabs'[k].title = tabs[k].title
        /\ \A k \in 1..Len(tabs) : tabs'[k].dual => tabs[k].dual
        /\ \A k \in 1..Len(tabs) : tabs'[k].side = "right" => tabs'[k].dual
    BY <1>2, <1>4, <2>2, TabSets DEF PanesInv, TabTypes, TabList
  <2>4. TabList(tabs', nextId) BY <1>2, <2>2, <2>3 DEF PanesInv, TabTypes, TabList
  <2>5. TabTypes' BY <1>1, <1>2, <1>6, <2>1, <2>2, <2>4 DEF PanesInv, TabTypes
  <2>6. OnWay' = OnWay BY <1>1, <2>1 DEF OnWay
  <2>7. nextId = 1 => tabs'[1].second = tabs[1].second /\ tabs'[1].title = tabs[1].title /\ tabs'[1].id = tabs[1].id
    BY <1>2, OneTab, <2>3 DEF PanesInv, TabTypes
  <2>8. LoadsFit' /\ TitleComes'
    BY <1>1, <1>2, <1>6, <1>7, <2>1, <2>6, <2>7 DEF PanesInv, LoadsFit, TitleComes
  <2>9. ViewsCome'
    <3>1. tabs'[activeTab'].id = tab.id /\ tabs'[activeTab'].dual = FALSE BY <1>1, <1>4, <1>8, <2>2
    <3>2. ClosesByKeys /\ AllList => view["left"] = <<tab.id, "left">> \/ \E l \in OnWay : l.pane = <<tab.id, "left">>
      BY <1>2 DEF PanesInv, ViewsCome
    <3> HIDE DEF tab
    <3> QED BY <1>7, <2>1, <2>6, <3>1, <3>2 DEF ViewsCome
  <2>10. BarComes' /\ DropsGoWhereShown' /\ SameIds(tabs', tabs)
    <3>1. SameIds(tabs', tabs) BY <2>2, <2>3 DEF SameIds
    <3>2. BarComes' BY <1>1, <1>6, <2>6, <3>1, BarStays DEF TabsInv
    <3>3. DropsGoWhereShown' BY <1>1, <1>6, DropsStay DEF TabsInv
    <3> QED BY <3>1, <3>2, <3>3
  <2> QED BY <2>5, <2>8, <2>9, <2>10 DEF TabsInv, PanesInv, TabOrder
<1>10. CASE ~tab.dual
  <2>1. /\ tabs' = [tabs EXCEPT ![activeTab] = two]
        /\ dual' = TRUE /\ panes' = all /\ view' = [view EXCEPT !["right"] = right]
        /\ tabLoads' = Append(tabLoads, listing)
    BY <1>1, <1>10
  <2>2. /\ tabs' \in Seq(TabRecords) /\ Len(tabs') = Len(tabs)
        /\ \A k \in 1..Len(tabs) : tabs'[k] = IF k = activeTab THEN two ELSE tabs[k]
    BY <1>5, <1>8, <2>1
  <2>3. /\ \A k \in 1..Len(tabs) : /\ tabs'[k].id = tabs[k].id /\ (tabs[k].second => tabs'[k].second)
                                   /\ tabs'[k].title = tabs[k].title
        /\ \A k \in 1..Len(tabs) : /\ tabs'[k].dual => tabs'[k].second
                                   /\ tabs'[k].side = "right" => tabs'[k].dual
    <3>1. two.side = tab.side BY <1>3, TabSets DEF two, TabRecords
    <3>2. \A k \in 1..Len(tabs) : (tabs[k].dual => tabs[k].second) /\ (tabs[k].side = "right" => tabs[k].dual)
      BY <1>2 DEF PanesInv, TabTypes, TabList
    <3> HIDE DEF tab
    <3> QED BY <1>5, <2>2, <3>1, <3>2 DEF tab
  <2>4. TabList(tabs', nextId)
    <3>1. TabList(tabs, nextId) BY <1>2 DEF PanesInv, TabTypes
    <3>2. \A k \in 1..Len(tabs) : tabs'[k].id = tabs[k].id /\ tabs[k].id < nextId
      BY <2>3, <3>1 DEF TabList
    <3>3. \A i, j \in 1..Len(tabs) : tabs'[i].id = tabs'[j].id => i = j BY <3>1, <3>2 DEF TabList
    <3>4. Len(tabs') >= 1 BY <2>2, <3>1 DEF TabList
    <3>5. tabs' \in Seq(TabRecords) /\ Len(tabs') = Len(tabs) BY <2>2
    <3>6. \A k \in 1..Len(tabs') :
             tabs'[k].id < nextId /\ (tabs'[k].dual => tabs'[k].second) /\ (tabs'[k].side = "right" => tabs'[k].dual)
      <4> HIDE DEF two, tab
      <4> QED BY <2>3, <3>2, <3>5
    <3> QED BY <3>3, <3>4, <3>5, <3>6 DEF TabList
  <2>5. /\ all \in PaneSets
        /\ \A i \in TabIds, s \in TabSides :
              \/ all[i][s] = panes[i][s]
              \/ all[i][s] = NewPane(panes[tab.id]["left"].path)
        /\ \A i \in TabIds, s \in TabSides : i # tab.id \/ s # "right" \/ tab.second => all[i][s] = panes[i][s]
    <3> DEFINE p == NewPane(panes[tab.id]["left"].path)
    <3>1. panes \in PaneSets /\ "left" \in TabSides /\ "right" \in TabSides
      BY <1>2, TabSets DEF PanesInv, TabTypes
    <3>2. p \in PaneRecords BY <1>3, <3>1, NewPaneIs DEF PaneSets, PaneRecords
    <3> HIDE DEF p, tab
    <3>3. /\ [panes EXCEPT ![tab.id]["right"] = p] \in PaneSets
          /\ \A i \in TabIds, s \in TabSides :
                [panes EXCEPT ![tab.id]["right"] = p][i][s] = IF i = tab.id /\ s = "right" THEN p ELSE panes[i][s]
      BY <1>3, <3>1, <3>2, PutIs
    <3> QED BY <3>1, <3>3 DEF p
  <2> HIDE DEF all
  <2>6. /\ NewPane(panes[tab.id]["left"].path).path = panes[tab.id]["left"].path
        /\ NewPane(panes[tab.id]["left"].path).recent = FALSE
    BY DEF NewPane
  <2>7. listing \in LoadRecords /\ right \in PaneIds
    BY <1>3, TabSets, <2>5 DEF PaneIds, TabIds, PaneSets, LoadRecords, PaneRecords
  <2>8. listing.pane = right /\ listing.path = all[tab.id]["right"].path /\ right[1] = tab.id /\ right[2] = "right"
    OBVIOUS
  <2> HIDE DEF listing, right
  <2>9. /\ tabLoads' \in Seq(LoadRecords) /\ OnWay' = OnWay \cup {listing}
    BY <1>2, <2>1, <2>7, AppendedTo, <1>1 DEF PanesInv, TabTypes, OnWay
  <2>10. TabTypes'
    <3>1. view' \in ViewStates BY <1>2, <2>1, <2>7, TabSets DEF PanesInv, TabTypes, ViewStates
    <3> QED BY <1>1, <1>2, <1>6, <2>1, <2>2, <2>4, <2>5, <2>9, <3>1 DEF PanesInv, TabTypes
  <2>11. nextId = 1 => tabs'[1].second /\ activeTab = 1
    <3>1. nextId = 1 => Len(tabs) = 1 BY <1>2, OneTab DEF PanesInv, TabTypes
    <3>2. ASSUME nextId = 1 PROVE activeTab = 1
      <4>1. activeTab \in 1..1 BY <1>8, <3>1, <3>2
      <4> QED BY <4>1
    <3> QED BY <1>5, <1>8, <2>2, <3>2
  <2>12. LoadsFit'
    <3>1. AllList' => \A id \in TabIds, half \in TabSides : all[id][half].path \notin TabFailing
      BY <1>2, <1>3, <1>7, <2>5, <2>6, TabSets DEF PanesInv, LoadsFit
    <3>2. AllList' => \A l \in OnWay' : l.path \notin TabFailing
      BY <1>2, <1>3, <1>7, <2>8, <2>9, <3>1, TabSets DEF PanesInv, LoadsFit
    <3>3. "recent" \notin tabUser'.does => \A id \in TabIds, half \in TabSides : all[id][half].recent = FALSE
      BY <1>2, <1>6, <2>5, <2>6 DEF PanesInv, LoadsFit
    <3>4. \A l \in OnWay' : l.pane[1] < nextId /\ (nextId = 1 /\ l.pane[2] = "right" => tabs'[1].second)
      BY <1>2, <1>3, <2>8, <2>9, <2>11 DEF PanesInv, LoadsFit
    <3> QED BY <1>1, <2>1, <3>1, <3>2, <3>3, <3>4 DEF LoadsFit
  <2>13. TitleComes' BY <2>9 DEF TitleComes
  <2>14. ViewsCome'
    <3>1. tabs'[activeTab'].id = tab.id /\ tabs'[activeTab'].dual = TRUE BY <1>1, <1>5, <1>8, <2>2
    <3>2. view \in ViewStates BY <1>2 DEF PanesInv, TabTypes
    <3>3. view'["left"] = view["left"] /\ view'["right"] = right BY <2>1, <3>2, TabSets DEF ViewStates
    <3>4. ClosesByKeys /\ AllList => view["left"] = <<tab.id, "left">> \/ \E l \in OnWay : l.pane = <<tab.id, "left">>
      BY <1>2 DEF PanesInv, ViewsCome
    <3> HIDE DEF tab
    <3> QED BY <1>7, <2>1, <2>9, <3>1, <3>3, <3>4 DEF ViewsCome, right
  <2>15. SameIds(tabs', tabs) BY <2>2, <2>3 DEF SameIds
  <2>16. BarComes' /\ DropsGoWhereShown' BY <1>1, <1>6, <2>9, <2>15, BarStays, DropsStay DEF TabsInv
  <2> QED BY <2>10, <2>12, <2>13, <2>14, <2>15, <2>16 DEF TabsInv, PanesInv, TabOrder
<1> QED BY <1>9, <1>10

(* SwitchTabPane: only the side the keyboard acts on is another. *)
LEMMA SwitchTabPaneStep ==
    ASSUME TabsInv, SwitchTabPane
    PROVE  TabsInv' /\ TabOrder
<1> DEFINE tab == tabs[activeTab]
<1> DEFINE other == CHOOSE half \in TabSides : half # tab.side
<1> DEFINE new == [tab EXCEPT !.side = other]
<1>1. /\ TabWish("switch") /\ tab.dual
      /\ tabs' = [tabs EXCEPT ![activeTab] = new]
      /\ UNCHANGED <<activeTab, panes, nextId, bar, rebuild, view, dual, tabLoads, tabEvents, drops, crashed>>
  BY DEF SwitchTabPane
<1>2. PanesInv BY DEF TabsInv
<1>3. tab \in TabRecords BY <1>2, PaneIs
<1>4. other \in TabSides BY TabSets
<1> HIDE DEF other
<1>5. /\ new \in TabRecords /\ new.id = tab.id /\ new.dual = tab.dual /\ new.second = tab.second
      /\ new.title = tab.title
  BY <1>3, <1>4 DEF TabRecords
<1> HIDE DEF new
<1>6. tabUser' \in [does : SUBSET TabWishes, left : Nat] /\ tabUser'.does = tabUser.does
  BY <1>1, <1>2, WishIs DEF PanesInv, TabTypes
<1>7. activeTab \in 1..Len(tabs) /\ tabs \in Seq(TabRecords) /\ TabList(tabs, nextId)
  BY <1>2 DEF PanesInv, TabTypes, TabList
<1>8. /\ tabs' \in Seq(TabRecords) /\ Len(tabs') = Len(tabs)
      /\ \A k \in 1..Len(tabs) : tabs'[k] = IF k = activeTab THEN new ELSE tabs[k]
  BY <1>1, <1>5, <1>7
<1>9. \A k \in 1..Len(tabs) : /\ tabs'[k].id = tabs[k].id /\ tabs'[k].second = tabs[k].second
                             /\ tabs'[k].dual = tabs[k].dual /\ tabs'[k].title = tabs[k].title
  BY <1>5, <1>8
<1>10. \A k \in 1..Len(tabs) : tabs'[k].side = "right" => tabs[k].dual BY <1>1, <1>7, <1>8 DEF TabList
<1>11. TabList(tabs', nextId) BY <1>7, <1>8, <1>9, <1>10 DEF TabList
<1>12. OnWay' = OnWay /\ AllList' = AllList /\ ClosesByKeys' = ClosesByKeys
  BY <1>1, <1>6 DEF OnWay, AllList, ClosesByKeys
<1>13. nextId = 1 => tabs'[1].second = tabs[1].second /\ tabs'[1].title = tabs[1].title /\ tabs'[1].id = tabs[1].id
  BY <1>7, OneTab, <1>9
<1>14. PanesInv'
  <2>1. TabTypes' BY <1>1, <1>2, <1>6, <1>8, <1>11 DEF PanesInv, TabTypes
  <2>2. LoadsFit' /\ TitleComes' BY <1>1, <1>2, <1>6, <1>12, <1>13 DEF PanesInv, LoadsFit, TitleComes
  <2>3. ViewsCome' BY <1>1, <1>2, <1>7, <1>9, <1>12 DEF PanesInv, ViewsCome
  <2> QED BY <2>1, <2>2, <2>3 DEF PanesInv
<1>15. SameIds(tabs', tabs) BY <1>8, <1>9 DEF SameIds
<1> QED BY <1>1, <1>6, <1>12, <1>14, <1>15, BarStays, DropsStay DEF TabsInv, TabOrder

(* OpenInTab: what the pane is to show comes with its listing. *)
LEMMA OpenInTabStep ==
    ASSUME TabsInv, OpenInTab
    PROVE  TabsInv' /\ TabOrder
<1> DEFINE tab == tabs[activeTab]
<1>1. PICK folder \in TabFolders :
         /\ TabWish("open")
         /\ panes' = [panes EXCEPT ![ActivePane[1]][ActivePane[2]] = NewPane(folder)]
         /\ tabLoads' = Append(tabLoads, [pane |-> ActivePane, path |-> folder])
         /\ UNCHANGED <<tabs, activeTab, nextId, bar, rebuild, view, dual, tabEvents, drops, crashed>>
  BY DEF OpenInTab
<1>2. PanesInv BY DEF TabsInv
<1>3. /\ tab.id \in TabIds /\ tab.side \in TabSides /\ ActivePane = <<tab.id, tab.side>> /\ ActivePane \in PaneIds
      /\ tab.id < nextId /\ (tab.side = "right" => tab.second)
  BY <1>2, PaneIs
<1> HIDE DEF tab
<1>4. tabUser' \in [does : SUBSET TabWishes, left : Nat] /\ tabUser'.does = tabUser.does /\ "open" \in tabUser.does
  BY <1>1, <1>2, WishIs DEF PanesInv, TabTypes
<1>5. AllList' = AllList /\ ClosesByKeys' = ClosesByKeys /\ (AllList => folder \notin TabFailing)
  BY <1>4 DEF AllList, ClosesByKeys
<1> DEFINE p == NewPane(folder)
<1>6. p \in PaneRecords /\ p.path = folder /\ p.recent = FALSE BY NewPaneIs
<1> HIDE DEF p
<1>7. /\ panes' \in PaneSets
      /\ \A i \in TabIds, s \in TabSides : panes'[i][s] = p \/ panes'[i][s] = panes[i][s]
  <2>1. panes' = [panes EXCEPT ![tab.id][tab.side] = p] /\ panes \in PaneSets
    BY <1>1, <1>2, <1>3 DEF p, PanesInv, TabTypes
  <2>2. /\ [panes EXCEPT ![tab.id][tab.side] = p] \in PaneSets
        /\ \A i \in TabIds, s \in TabSides :
              [panes EXCEPT ![tab.id][tab.side] = p][i][s] = IF i = tab.id /\ s = tab.side THEN p ELSE panes[i][s]
    <3>1. tab.id \in TabIds /\ tab.side \in TabSides BY <1>3
    <3>2. p \in PaneRecords /\ panes \in PaneSets BY <1>6, <2>1
    <3> QED BY <3>1, <3>2, PutIs
  <2> QED BY <2>1, <2>2
<1> DEFINE listing == [pane |-> ActivePane, path |-> folder]
<1>8. listing \in LoadRecords /\ listing.pane = <<tab.id, tab.side>> /\ listing.path = folder
  BY <1>3 DEF LoadRecords
<1> HIDE DEF listing
<1>9. tabLoads' \in Seq(LoadRecords) /\ OnWay' = OnWay \cup {listing}
  BY <1>1, <1>2, <1>8, AppendedTo DEF PanesInv, TabTypes, listing, OnWay
<1>10. TabTypes' BY <1>1, <1>2, <1>4, <1>7, <1>9 DEF PanesInv, TabTypes
<1>11. nextId = 1 => activeTab = 1
  <2>1. nextId = 1 => Len(tabs) = 1 BY <1>2, OneTab DEF PanesInv, TabTypes
  <2>2. ASSUME nextId = 1 PROVE activeTab = 1
    <3>1. activeTab \in 1..1 BY <1>2, <2>1, <2>2 DEF PanesInv, TabTypes
    <3> QED BY <3>1
  <2> QED BY <2>2
<1>12. LoadsFit'
  <2>1. AllList' => \A id \in TabIds, half \in TabSides : panes'[id][half].path \notin TabFailing
    BY <1>2, <1>5, <1>6, <1>7 DEF PanesInv, LoadsFit
  <2>2. AllList' => \A l \in OnWay' : l.path \notin TabFailing
    BY <1>2, <1>5, <1>8, <1>9 DEF PanesInv, LoadsFit
  <2>3. "recent" \notin tabUser'.does => \A id \in TabIds, half \in TabSides : panes'[id][half].recent = FALSE
    BY <1>2, <1>4, <1>6, <1>7 DEF PanesInv, LoadsFit
  <2>4. ASSUME NEW l \in OnWay' PROVE l.pane[1] < nextId /\ (nextId = 1 /\ l.pane[2] = "right" => tabs[1].second)
    <3>1. CASE l \in OnWay BY <1>2, <3>1 DEF PanesInv, LoadsFit
    <3>2. CASE l = listing BY <1>8, <3>2, <1>3, <1>11 DEF tab
    <3> QED BY <1>9, <3>1, <3>2
  <2> QED BY <1>1, <2>1, <2>2, <2>3, <2>4 DEF LoadsFit
<1>13. TitleComes' BY <1>9 DEF TitleComes
<1>14. ViewsCome' BY <1>1, <1>2, <1>5, <1>9 DEF PanesInv, ViewsCome
<1>15. SameIds(tabs', tabs) BY <1>1 DEF SameIds
<1> QED BY <1>1, <1>4, <1>9, <1>10, <1>12, <1>13, <1>14, <1>15, BarStays, DropsStay DEF TabsInv, PanesInv, TabOrder

(* ShowRecentInTab: the tab is called so, and the bar built anew. *)
LEMMA ShowRecentInTabStep ==
    ASSUME TabsInv, ShowRecentInTab
    PROVE  TabsInv' /\ TabOrder
<1> DEFINE tab == tabs[activeTab]
<1> DEFINE new == [tab EXCEPT !.title = Recent]
<1> DEFINE old == panes[tab.id][tab.side]
<1> DEFINE p == [old EXCEPT !.recent = TRUE]
<1>1. PanesInv BY DEF TabsInv
<1>2. /\ tab \in TabRecords /\ tab.id \in TabIds /\ tab.side \in TabSides
      /\ ActivePane = <<tab.id, tab.side>> /\ ActivePane \in PaneIds
      /\ old \in PaneRecords /\ (tab.side = "right" => tab.second)
  BY <1>1, PaneIs
<1>3. panes \in PaneSets /\ tabs \in Seq(TabRecords) /\ activeTab \in 1..Len(tabs) /\ TabList(tabs, nextId)
  BY <1>1 DEF PanesInv, TabTypes, TabList
<1>4. /\ TabWish("recent") /\ panes' = [panes EXCEPT ![tab.id][tab.side] = p]
      /\ tabs' = [tabs EXCEPT ![activeTab] = new]
      /\ view' = view \/ view' = [view EXCEPT ![tab.side] = ActivePane]
      /\ bar' = Bar(tabs', activeTab)
      /\ UNCHANGED <<activeTab, nextId, rebuild, dual, tabLoads, tabEvents, drops, crashed>>
  <2>1. panes' = [panes EXCEPT ![ActivePane[1]][ActivePane[2]].recent = TRUE] BY DEF ShowRecentInTab
  <2>2. ActivePane[1] = tab.id /\ ActivePane[2] = tab.side BY <1>2
  <2>3. panes' = [panes EXCEPT ![tab.id][tab.side] = p] BY <1>2, <1>3, <2>1, <2>2 DEF PaneSets
  <2>4. tabs' = [tabs EXCEPT ![activeTab] = new] BY <1>3 DEF ShowRecentInTab
  <2> HIDE DEF tab, p, new
  <2> QED BY <2>2, <2>3, <2>4 DEF ShowRecentInTab
<1>5. p \in PaneRecords /\ p.path = old.path /\ p.recent = TRUE BY <1>2 DEF PaneRecords
<1>6. /\ new \in TabRecords /\ new.id = tab.id /\ new.dual = tab.dual /\ new.second = tab.second
      /\ new.side = tab.side /\ new.title = Recent
  BY <1>2 DEF TabRecords
<1> HIDE DEF new, p
<1>7. tabUser' \in [does : SUBSET TabWishes, left : Nat] /\ tabUser'.does = tabUser.does /\ "recent" \in tabUser.does
  BY <1>1, <1>4, WishIs DEF PanesInv, TabTypes
<1>8. /\ panes' \in PaneSets
      /\ \A i \in TabIds, s \in TabSides : panes'[i][s] = IF i = tab.id /\ s = tab.side THEN p ELSE panes[i][s]
  <2>1. /\ [panes EXCEPT ![tab.id][tab.side] = p] \in PaneSets
        /\ \A i \in TabIds, s \in TabSides :
              [panes EXCEPT ![tab.id][tab.side] = p][i][s] = IF i = tab.id /\ s = tab.side THEN p ELSE panes[i][s]
    <3>1. tab.id \in TabIds /\ tab.side \in TabSides BY <1>2
    <3>2. p \in PaneRecords /\ panes \in PaneSets BY <1>3, <1>5
    <3> HIDE DEF tab
    <3> QED BY <3>1, <3>2, PutIs
  <2> HIDE DEF tab
  <2> QED BY <1>4, <2>1
<1>9. /\ tabs' \in Seq(TabRecords) /\ Len(tabs') = Len(tabs)
      /\ \A k \in 1..Len(tabs) : tabs'[k] = IF k = activeTab THEN new ELSE tabs[k]
  BY <1>3, <1>4, <1>6
<1>10. \A k \in 1..Len(tabs) : /\ tabs'[k].id = tabs[k].id /\ tabs'[k].second = tabs[k].second
                              /\ tabs'[k].dual = tabs[k].dual /\ tabs'[k].side = tabs[k].side
  BY <1>6, <1>9
<1>11. TabList(tabs', nextId) BY <1>3, <1>9, <1>10 DEF TabList
<1>12. OnWay' = OnWay /\ AllList' = AllList /\ ClosesByKeys' = ClosesByKeys
  BY <1>4, <1>7 DEF OnWay, AllList, ClosesByKeys
<1>13. view \in ViewStates /\ view' \in ViewStates
  <2>1. view \in ViewStates BY <1>1 DEF PanesInv, TabTypes
  <2> HIDE DEF tab
  <2> QED BY <1>2, <1>4, <2>1 DEF ViewStates
<1>14. TabTypes' BY <1>1, <1>4, <1>7, <1>8, <1>9, <1>11, <1>13 DEF PanesInv, TabTypes
<1>15. nextId = 1 => activeTab = 1 /\ 1 \in 1..Len(tabs)
  <2>1. nextId = 1 => Len(tabs) = 1 BY <1>3, OneTab
  <2>2. ASSUME nextId = 1 PROVE activeTab = 1
    <3>1. activeTab \in 1..1 BY <1>3, <2>1, <2>2
    <3> QED BY <3>1
  <2> QED BY <1>3, <2>2
<1>16. LoadsFit'
  <2>1. AllList' => \A id \in TabIds, half \in TabSides : panes'[id][half].path \notin TabFailing
    BY <1>1, <1>2, <1>5, <1>8, <1>12 DEF PanesInv, LoadsFit
  <2>2. \A l \in OnWay' : l.pane[1] < nextId /\ (nextId = 1 /\ l.pane[2] = "right" => tabs'[1].second)
    BY <1>1, <1>10, <1>12, <1>15 DEF PanesInv, LoadsFit
  <2> QED BY <1>1, <1>4, <1>7, <1>12, <2>1, <2>2 DEF PanesInv, LoadsFit
<1>17. TitleComes'
  <2> SUFFICES ASSUME nextId = 1
               PROVE  \E half \in TabSides :
                         /\ half = "left" \/ tabs'[1].second
                         /\ tabs'[1].title = IF panes'[tabs'[1].id][half].recent THEN Recent
                                             ELSE panes'[tabs'[1].id][half].path
    BY <1>4 DEF TitleComes
  <2>1. tabs'[1].title = Recent /\ tabs'[1].id = tab.id /\ tabs'[1].second = tab.second
    BY <1>6, <1>9, <1>15
  <2>2. panes'[tab.id][tab.side].recent = TRUE BY <1>2, <1>5, <1>8
  <2>3. tab.side \in TabSides /\ (tab.side = "left" \/ tab.second) BY <1>2, TabSets
  <2> HIDE DEF tab
  <2> QED BY <2>1, <2>2, <2>3
<1>18. ViewsCome'
  <2>1. tabs'[activeTab'].id = tab.id /\ tabs'[activeTab'].dual = tab.dual BY <1>3, <1>4, <1>10
  <2>2. \A s \in TabSides : view'[s] = view[s] \/ view'[s] = <<tab.id, s>>
    <3> HIDE DEF tab
    <3> QED BY <1>2, <1>4, <1>13 DEF ViewStates
  <2>3. ClosesByKeys /\ AllList =>
           /\ \/ view["left"] = <<tab.id, "left">> /\ dual = tab.dual
              \/ \E l \in OnWay : l.pane = <<tab.id, "left">>
           /\ tab.dual => view["right"] = <<tab.id, "right">>
    BY <1>1 DEF PanesInv, ViewsCome
  <2> HIDE DEF tab
  <2> QED BY <1>4, <1>12, <2>1, <2>2, <2>3, TabSets DEF ViewsCome
<1>19. SameTabs(tabs', tabs') /\ SameIds(tabs', tabs) BY <1>9, <1>10 DEF SameTabs, SameIds
<1>20. BarComes' BY <1>4, <1>7, <1>9, <1>14, <1>19, BarBuilt DEF TabsInv
<1> QED BY <1>4, <1>7, <1>14, <1>16, <1>17, <1>18, <1>19, <1>20, DropsStay DEF TabsInv, PanesInv, TabOrder

-------------------------------------------------------------------------------
(* The mouse. *)

(* A tab that is added has an id that no other has. *)
LEMMA AddedIsOther ==
    ASSUME PanesInv, NEW folder \in TabFolders, nextId < MaxTabs
    PROVE  Ids(Added(folder)) # Ids(tabs)
<1> DEFINE list == Added(folder)
<1>1. /\ TabList(list, nextId + 1) /\ Len(list) = Len(tabs) + 1
      /\ list[Len(tabs) + 1] = NewTab(nextId, folder) /\ NewTab(nextId, folder).id = nextId
  BY AddedIs
<1> HIDE DEF list
<1>2. /\ Len(tabs) \in Nat /\ nextId \in Nat /\ DOMAIN tabs = 1..Len(tabs)
      /\ \A k \in 1..Len(tabs) : tabs[k] \in TabRecords /\ tabs[k].id < nextId
  BY TabSets DEF PanesInv, TabTypes, TabList
<1>3. DOMAIN list = 1..Len(list) /\ Len(tabs) + 1 \in 1..Len(list) BY <1>1, <1>2 DEF TabList
<1>4. nextId \in Ids(list) BY <1>1, <1>3 DEF Ids
<1>5. nextId \notin Ids(tabs) BY <1>2, TabSets DEF Ids, TabRecords
<1> QED BY <1>4, <1>5 DEF list

(* The panes and the tabs stay. *)
LEMMA PanesStay ==
    ASSUME PanesInv, UNCHANGED <<tabs, activeTab, panes, nextId, view, dual, tabLoads, tabEvents>>,
           rebuild' \in Nat, crashed' \in BOOLEAN,
           tabUser' \in [does : SUBSET TabWishes, left : Nat], tabUser'.does = tabUser.does
    PROVE  PanesInv' /\ OnWay' = OnWay /\ SameIds(tabs', tabs) /\ SameTabs(tabs', tabs)
<1>1. OnWay' = OnWay /\ AllList' = AllList /\ ClosesByKeys' = ClosesByKeys
  BY DEF OnWay, AllList, ClosesByKeys
<1>2. TabTypes' BY DEF PanesInv, TabTypes
<1>3. LoadsFit' /\ TitleComes' BY <1>1 DEF PanesInv, LoadsFit, TitleComes
<1>4. ViewsCome' BY <1>1 DEF PanesInv, ViewsCome
<1> QED BY <1>1, <1>2, <1>3, <1>4 DEF PanesInv, SameIds, SameTabs

(* BarShown: there was more than one tab. *)
LEMMA BarShownIs ==
    ASSUME BarComes, BarShown
    PROVE  nextId # 1 /\ bar \in Seq(Buttons) /\ DOMAIN bar = 1..Len(bar)
<1>1. bar \in Seq(Buttons) /\ (nextId = 1 => Len(bar) <= 1) /\ Len(bar) > 1 BY DEF BarComes, BarShown
<1> DEFINE n == Len(bar)
<1>2. n \in Nat /\ (nextId = 1 => n <= 1) /\ n > 1 /\ DOMAIN bar = 1..n BY <1>1
<1> HIDE DEF n
<1>3. nextId # 1 BY <1>2
<1> QED BY <1>1, <1>2, <1>3 DEF n

(* NewTabButton: the bar and the views come with the listing. *)
LEMMA NewTabButtonStep ==
    ASSUME TabsInv, NewTabButton
    PROVE  TabsInv' /\ TabOrder
<1> DEFINE folder == PaneOf(ActivePane).path
<1> DEFINE list == Added(folder)
<1> DEFINE listing == [pane |-> <<nextId, "left">>, path |-> folder]
<1>1. /\ TabWish("button_new") /\ nextId < MaxTabs
      /\ tabs' = list /\ activeTab' = Len(tabs) + 1 /\ nextId' = nextId + 1
      /\ panes' = [panes EXCEPT ![nextId]["left"] = NewPane(folder)]
      /\ tabLoads' = Append(tabLoads, listing)
      /\ UNCHANGED <<bar, rebuild, view, dual, tabEvents, drops, crashed>>
  BY DEF NewTabButton
<1>2. PanesInv BY DEF TabsInv
<1>3. folder \in TabFolders /\ (AllList => folder \notin TabFailing) BY <1>2, PaneIs
<1> HIDE DEF folder
<1>4. /\ nextId \in TabIds /\ nextId + 1 \in 1..MaxTabs /\ TabList(list, nextId + 1)
      /\ Len(list) = Len(tabs) + 1 /\ \A k \in 1..Len(tabs) : list[k] = tabs[k]
      /\ list[Len(tabs) + 1].id = nextId /\ list[Len(tabs) + 1].dual = FALSE
  BY <1>1, <1>2, <1>3, AddedIs
<1>5. Ids(list) # Ids(tabs) BY <1>1, <1>2, <1>3, AddedIsOther
<1> HIDE DEF list
<1> DEFINE p == NewPane(folder)
<1>6. p \in PaneRecords /\ p.path = folder /\ p.recent = FALSE BY <1>3, NewPaneIs
<1>7. panes' = [panes EXCEPT ![nextId]["left"] = p] BY <1>1
<1> HIDE DEF p
<1>8. /\ panes' \in PaneSets
      /\ \A i \in TabIds, s \in TabSides : panes'[i][s] = p \/ panes'[i][s] = panes[i][s]
  <2>1. panes \in PaneSets /\ "left" \in TabSides BY <1>2, TabSets DEF PanesInv, TabTypes
  <2>2. /\ [panes EXCEPT ![nextId]["left"] = p] \in PaneSets
        /\ \A i \in TabIds, s \in TabSides :
              [panes EXCEPT ![nextId]["left"] = p][i][s] = IF i = nextId /\ s = "left" THEN p ELSE panes[i][s]
    BY <1>4, <1>6, <2>1, PutIs
  <2> QED BY <1>7, <2>2
<1>9. tabUser' \in [does : SUBSET TabWishes, left : Nat] /\ tabUser'.does = tabUser.does
  BY <1>1, <1>2, WishIs DEF PanesInv, TabTypes
<1>10. /\ Len(tabs) \in Nat /\ nextId \in Nat /\ nextId >= 1 /\ nextId' # 1
       /\ activeTab' \in 1..Len(tabs') /\ activeTab' = Len(tabs) + 1
  BY <1>2, TabSets, <1>1, <1>4 DEF PanesInv, TabTypes, TabList
<1>11. AllList' = AllList /\ ClosesByKeys' = ClosesByKeys BY <1>9 DEF AllList, ClosesByKeys
<1>12. listing \in LoadRecords /\ listing.pane = <<nextId, "left">> /\ listing.path = folder
  BY <1>3, <1>4, TabSets DEF LoadRecords, PaneIds, TabIds
<1> HIDE DEF listing
<1>13. tabLoads' \in Seq(LoadRecords) /\ OnWay' = OnWay \cup {listing}
  BY <1>1, <1>2, <1>12, AppendedTo DEF PanesInv, TabTypes, OnWay
<1>14. TabTypes' BY <1>1, <1>2, <1>4, <1>8, <1>9, <1>10, <1>13 DEF PanesInv, TabTypes
<1>15. LoadsFit'
  <2>1. AllList' => \A id \in TabIds, half \in TabSides : panes'[id][half].path \notin TabFailing
    BY <1>2, <1>3, <1>6, <1>8, <1>11 DEF PanesInv, LoadsFit
  <2>2. AllList' => \A l \in OnWay' : l.path \notin TabFailing
    BY <1>2, <1>3, <1>11, <1>12, <1>13 DEF PanesInv, LoadsFit
  <2>3. "recent" \notin tabUser'.does => \A id \in TabIds, half \in TabSides : panes'[id][half].recent = FALSE
    BY <1>2, <1>6, <1>8, <1>9 DEF PanesInv, LoadsFit
  <2>4. ASSUME NEW l \in OnWay' PROVE l.pane[1] < nextId + 1
    <3>1. CASE l \in OnWay
      <4>1. l.pane[1] < nextId BY <1>2, <3>1 DEF PanesInv, LoadsFit
      <4>2. l \in LoadRecords BY <1>2, <3>1 DEF OnWay, ToSet, PanesInv, TabTypes
      <4>3. l.pane[1] \in Nat BY <4>2, TabSets DEF LoadRecords, PaneIds
      <4> QED BY <1>10, <4>1, <4>3
    <3>2. CASE l = listing BY <1>10, <1>12, <3>2
    <3> QED BY <1>13, <3>1, <3>2
  <2> QED BY <1>1, <1>10, <2>1, <2>2, <2>3, <2>4 DEF LoadsFit
<1>16. ViewsCome' /\ TitleComes' BY <1>1, <1>4, <1>12, <1>13, <1>10 DEF ViewsCome, TitleComes
<1>17. BarComes'
  <2>1. bar \in Seq(Buttons) /\ Len(bar) \in Nat BY DEF TabsInv, BarComes
  <2>2. ClosesByKeys => Len(bar) <= Len(tabs) + 1 /\ crashed = FALSE
    BY <1>10, <2>1 DEF TabsInv, BarComes
  <2>3. ASSUME ClosesByKeys, "drag" \notin tabUser.does, NEW k \in 1..Len(bar) PROVE bar[k].tab = list[k].id
    BY <2>3, <1>10, <2>1, <1>4 DEF TabsInv, BarComes
  <2>4. OnWay' # {} BY <1>13
  <2> QED BY <1>1, <1>4, <1>9, <1>10, <1>11, <2>1, <2>2, <2>3, <2>4 DEF BarComes
<1> QED BY <1>1, <1>5, <1>9, <1>14, <1>15, <1>16, <1>17, DropsStay DEF TabsInv, PanesInv, TabOrder

(* ClickClose: the tabs change alone, and not by the keys. *)
LEMMA ClickCloseStep ==
    ASSUME TabsInv, NEW k \in DOMAIN bar, ClickClose(k)
    PROVE  TabsInv' /\ TabOrder
<1>1. /\ TabWish("button_close") /\ BarShown
      /\ \/ Panic
         \/ /\ Len(tabs) > 1 /\ ~(k > Len(tabs)) /\ tabs' = RemoveAt(tabs, k) /\ activeTab' = AfterClose(k)
            /\ UNCHANGED <<panes, nextId, bar, rebuild, view, dual, tabLoads, tabEvents, drops, crashed>>
         \/ UNCHANGED <<tabs, activeTab, panes, nextId, bar, rebuild, view, dual, tabLoads, tabEvents, drops, crashed>>
  BY DEF ClickClose
<1>2. PanesInv /\ BarComes BY DEF TabsInv
<1>3. /\ tabUser' \in [does : SUBSET TabWishes, left : Nat] /\ tabUser'.does = tabUser.does
      /\ "button_close" \in tabUser.does
  BY <1>1, <1>2, WishIs DEF PanesInv, TabTypes
<1>4. ~ClosesByKeys /\ ~ClosesByKeys' /\ AllList' = AllList BY <1>3 DEF ClosesByKeys, AllList
<1>5. nextId # 1 /\ bar \in Seq(Buttons) /\ k \in 1..Len(bar) BY <1>1, <1>2, BarShownIs
<1>6. UNCHANGED <<panes, nextId, bar, rebuild, view, dual, tabLoads, tabEvents, drops>>
  BY <1>1 DEF Panic
<1>7. BarComes' BY <1>4, <1>5, <1>6 DEF BarComes
<1>8. DropsGoWhereShown' BY <1>3, <1>6, DropsStay DEF TabsInv
<1>9. CASE UNCHANGED <<tabs, activeTab>>
  <2>1. crashed' \in BOOLEAN /\ rebuild' \in Nat BY <1>1, <1>2, <1>6 DEF Panic, PanesInv, TabTypes
  <2> QED BY <1>2, <1>3, <1>6, <1>7, <1>8, <1>9, <2>1, PanesStay DEF TabsInv, TabOrder
<1>10. CASE /\ Len(tabs) > 1 /\ ~(k > Len(tabs)) /\ tabs' = RemoveAt(tabs, k) /\ activeTab' = AfterClose(k)
            /\ crashed' = crashed
  <2>1. Len(tabs) \in Nat /\ activeTab \in 1..Len(tabs) BY <1>2 DEF PanesInv, TabTypes, TabList
  <2>2. k \in 1..Len(tabs) BY <1>5, <1>10, <2>1
  <2> DEFINE list == RemoveAt(tabs, k)
  <2>3. /\ TabList(list, nextId) /\ Len(list) = Len(tabs) - 1
        /\ tabs[k].id \in Ids(tabs) /\ tabs[k].id \notin Ids(list)
    BY <1>2, <1>10, <2>2, GoneIs
  <2> HIDE DEF list
  <2>4. activeTab' \in 1..(Len(tabs) - 1) BY <1>10, <2>1, AfterCloseIs
  <2>5. tabs' = list BY <1>10 DEF list
  <2>6. TabTypes' BY <1>2, <1>3, <1>6, <1>10, <2>3, <2>4, <2>5 DEF PanesInv, TabTypes
  <2>7. OnWay' = OnWay BY <1>6 DEF OnWay
  <2>8. LoadsFit' /\ ViewsCome' /\ TitleComes'
    BY <1>2, <1>3, <1>4, <1>5, <1>6, <2>7 DEF PanesInv, LoadsFit, ViewsCome, TitleComes
  <2> QED BY <1>7, <1>8, <2>3, <2>5, <2>6, <2>8 DEF TabsInv, PanesInv, TabOrder
<1> QED BY <1>1, <1>9, <1>10 DEF Panic

(* ClickTab: the tab is there if tabs are closed by the keys. *)
LEMMA ClickTabStep ==
    ASSUME TabsInv, NEW k \in DOMAIN bar, ClickTab(k)
    PROVE  TabsInv' /\ TabOrder
<1> DEFINE new == [bar[k] EXCEPT !.on = ~bar[k].on]
<1>1. PanesInv /\ BarComes BY DEF TabsInv
<1>2. TabWish("click") /\ BarShown BY DEF ClickTab
<1>3. nextId # 1 /\ bar \in Seq(Buttons) /\ k \in 1..Len(bar) BY <1>1, <1>2, BarShownIs
<1>4. \/ ~bar[k].on /\ k > Len(tabs) /\ Panic
      \/ /\ bar' = [bar EXCEPT ![k] = new]
         /\ \/ bar[k].on /\ UNCHANGED <<tabs, activeTab, view, dual, tabLoads>>
            \/ ~bar[k].on /\ ~(k > Len(tabs)) /\ activeTab' = k /\ ShowActiveTab(tabs, k, panes)
         /\ UNCHANGED <<panes, nextId, rebuild, tabEvents, drops, crashed>>
  <2>1. CASE ~bar[k].on /\ k > Len(tabs) BY <2>1 DEF ClickTab
  <2>2. CASE ~(~bar[k].on /\ k > Len(tabs)) BY <2>2 DEF ClickTab
  <2> QED BY <2>1, <2>2
<1>5. tabUser' \in [does : SUBSET TabWishes, left : Nat] /\ tabUser'.does = tabUser.does
  BY <1>1, <1>2, WishIs DEF PanesInv, TabTypes
<1>6. AllList' = AllList /\ ClosesByKeys' = ClosesByKeys BY <1>5 DEF AllList, ClosesByKeys
<1>7. new \in Buttons /\ new.tab = bar[k].tab /\ (bar[k].on => new.on = FALSE)
  <2>1. bar[k] \in Buttons BY <1>3
  <2> QED BY <2>1 DEF Buttons
<1> HIDE DEF new
<1>8. drops' = drops BY <1>4 DEF Panic
<1>9. DropsGoWhereShown' BY <1>5, <1>8, DropsStay DEF TabsInv
<1>10. /\ Len(tabs) \in Nat /\ activeTab \in 1..Len(tabs) /\ nextId \in 1..MaxTabs /\ nextId >= nextId
       /\ panes \in PaneSets /\ TabList(tabs, nextId) /\ rebuild \in Nat /\ crashed \in BOOLEAN
  BY <1>1, TabSets DEF PanesInv, TabTypes, TabList
<1>11. CASE ~bar[k].on /\ k > Len(tabs) /\ Panic
  <2>1. UNCHANGED <<tabs, activeTab, panes, nextId, bar, rebuild, view, dual, tabLoads, tabEvents>> /\ crashed' = TRUE
    BY <1>11 DEF Panic
  <2>2. PanesInv' /\ SameIds(tabs', tabs) BY <1>1, <1>5, <1>10, <2>1, PanesStay
  <2>3. ~ClosesByKeys BY <1>1, <1>3, <1>10, <1>11 DEF BarComes
  <2>4. BarComes' BY <1>3, <1>6, <2>1, <2>3 DEF BarComes
  <2> QED BY <1>9, <2>2, <2>4 DEF TabsInv, TabOrder
<1>12. CASE bar' = [bar EXCEPT ![k] = new] /\ UNCHANGED <<panes, nextId, rebuild, tabEvents, drops, crashed>>
  <2>1. /\ bar' \in Seq(Buttons) /\ Len(bar') = Len(bar)
        /\ \A i \in 1..Len(bar) : bar'[i] = IF i = k THEN new ELSE bar[i]
    BY <1>3, <1>7, <1>12
  <2>2. \A i \in 1..Len(bar) : bar'[i].tab = bar[i].tab BY <1>7, <2>1
  <2>3. ASSUME SameIds(tabs', tabs), OnWay \subseteq OnWay',
               \/ "recent" \notin tabUser.does => OnWay' # {}
               \/ OnePressed => OnePressed'
        PROVE  BarComes'
    <3>1. Len(tabs') = Len(tabs) /\ \A i \in 1..Len(tabs) : tabs'[i].id = tabs[i].id BY <2>3 DEF SameIds
    <3>2. BarIsOfTabs => BarIsOfTabs' BY <2>1, <2>2, <3>1 DEF BarIsOfTabs
    <3>3. ClosesByKeys => Len(bar') <= Len(tabs') /\ crashed' = FALSE
      BY <1>1, <1>12, <2>1, <3>1 DEF BarComes
    <3>4. ASSUME ClosesByKeys, "drag" \notin tabUser.does, NEW i \in 1..Len(bar') PROVE bar'[i].tab = tabs'[i].id
      <4>1. i \in 1..Len(bar) /\ Len(bar) \in Nat /\ Len(bar) <= Len(tabs)
        BY <1>1, <1>3, <2>1, <3>4 DEF BarComes
      <4>2. i \in 1..Len(tabs) BY <1>10, <4>1
      <4> QED BY <1>1, <2>2, <3>1, <3>4, <4>1, <4>2 DEF BarComes
    <3>5. ClosesByKeys /\ AllList => Len(tabs') = 1 \/ OnWay' # {} \/ rebuild' > 0 \/ BarIsOfTabs'
      BY <1>1, <1>12, <2>3, <3>1, <3>2 DEF BarComes
    <3>6. ClosesByKeys /\ AllList /\ "recent" \notin tabUser.does => OnWay' # {} \/ rebuild' > 0 \/ OnePressed'
      BY <1>1, <1>12, <2>3 DEF BarComes
    <3>7. nextId' = 1 => Len(bar') <= 1 BY <1>3, <1>12
    <3> QED BY <1>5, <1>6, <2>1, <3>3, <3>4, <3>5, <3>6, <3>7 DEF BarComes
  <2>4. CASE bar[k].on /\ UNCHANGED <<tabs, activeTab, view, dual, tabLoads>>
    <3>1. PanesInv' /\ SameIds(tabs', tabs) /\ OnWay' = OnWay
      BY <1>1, <1>5, <1>10, <1>12, <2>4, PanesStay
    <3>2. OnePressed => OnePressed' BY <1>7, <2>1, <2>4 DEF OnePressed
    <3> QED BY <1>9, <2>3, <3>1, <3>2 DEF TabsInv, TabOrder
  <2>5. CASE ~bar[k].on /\ ~(k > Len(tabs)) /\ activeTab' = k /\ ShowActiveTab(tabs, k, panes)
    <3>1. k \in 1..Len(tabs) BY <1>3, <1>10, <2>5
    <3>2. AllList => \A id \in TabIds, half \in TabSides : panes[id][half].path \notin TabFailing
      BY <1>1 DEF PanesInv, LoadsFit
    <3>3. "recent" \notin tabUser.does => \A id \in TabIds, half \in TabSides : panes[id][half].recent = FALSE
      BY <1>1 DEF PanesInv, LoadsFit
    <3>4. /\ PanesInv' /\ SameTabs(tabs', tabs) /\ OnWay \subseteq OnWay'
          /\ "recent" \notin tabUser.does => OnWay' # {}
      BY <1>1, <1>5, <1>10, <1>12, <2>5, <3>1, <3>2, <3>3, ShownKeeps
    <3>5. SameIds(tabs', tabs) BY <3>4 DEF SameTabs, SameIds
    <3> QED BY <1>9, <2>3, <3>4, <3>5 DEF TabsInv, TabOrder
  <2> QED BY <1>4, <1>11, <1>12, <2>4, <2>5
<1> QED BY <1>4, <1>11, <1>12

(* InsertAt: those from there on move down. *)
LEMMA InsertedInto ==
    ASSUME NEW S, NEW s \in Seq(S), NEW e \in S, NEW p \in 1..(Len(s) + 1)
    PROVE  /\ InsertAt(s, p, e) \in Seq(S) /\ Len(InsertAt(s, p, e)) = Len(s) + 1
           /\ \A i \in 1..(Len(s) + 1) :
                 InsertAt(s, p, e)[i] = IF i < p THEN s[i] ELSE IF i = p THEN e ELSE s[i - 1]
<1> DEFINE front == SubSeq(s, 1, p - 1)
           back  == SubSeq(s, p, Len(s))
<1>1. front \in Seq(S) /\ Len(front) = p - 1 /\ \A i \in 1..(p - 1) : front[i] = s[i] OBVIOUS
<1>2. /\ back \in Seq(S) /\ Len(back) = Len(s) - p + 1
      /\ \A i \in 1..(Len(s) - p + 1) : back[i] = s[p + i - 1]
  OBVIOUS
<1> DEFINE head == front \o <<e>>
           whole == head \o back
<1>3. InsertAt(s, p, e) = whole BY DEF InsertAt
<1> HIDE DEF front, back
<1>4. /\ head \in Seq(S) /\ Len(head) = p /\ head[p] = e
      /\ \A i \in 1..(p - 1) : head[i] = s[i]
  BY <1>1, SMTT(20)
<1> HIDE DEF head
<1>5. /\ whole \in Seq(S) /\ Len(whole) = Len(s) + 1
      /\ \A i \in 1..(Len(s) + 1) : whole[i] = IF i <= p THEN head[i] ELSE back[i - p]
  BY <1>2, <1>4
<1> HIDE DEF whole
<1>6. \A i \in 1..(Len(s) + 1) : i > p => (i - p) \in 1..(Len(s) - p + 1) /\ back[i - p] = s[i - 1]
  BY <1>2
<1>7. \A i \in 1..(Len(s) + 1) : i < p => i \in 1..(p - 1) OBVIOUS
<1>8. ASSUME NEW i \in 1..(Len(s) + 1)
      PROVE  whole[i] = IF i < p THEN s[i] ELSE IF i = p THEN e ELSE s[i - 1]
  <2>1. CASE i < p BY <1>4, <1>5, <1>7, <2>1
  <2>2. CASE i = p BY <1>4, <1>5, <2>2
  <2>3. CASE i > p
    <3>1. ~(i <= p) /\ ~(i < p) /\ i # p BY <2>3
    <3>2. whole[i] = back[i - p] /\ back[i - p] = s[i - 1] BY <1>5, <1>6, <2>3, <3>1
    <3> QED BY <3>1, <3>2
  <2>4. i \in Nat /\ p \in Nat OBVIOUS
  <2> QED BY <2>1, <2>2, <2>3, <2>4
<1> QED BY <1>3, <1>5, <1>8

(* Moved: the same tabs in another order. *)
LEMMA MovedIs ==
    ASSUME NEW n, TabList(tabs, n), NEW from \in 1..Len(tabs), NEW to \in 1..Len(tabs), activeTab \in 1..Len(tabs)
    PROVE  /\ TabList(Moved(from, to), n) /\ Len(Moved(from, to)) = Len(tabs)
           /\ AfterMove(from, to) \in 1..Len(tabs)
           /\ Moved(from, to)[AfterMove(from, to)] = tabs[activeTab]
<1> DEFINE rest == RemoveAt(tabs, from)
<1> DEFINE e == tabs[from]
<1> DEFINE list == InsertAt(rest, to, e)
<1>1. tabs \in Seq(TabRecords) /\ Len(tabs) \in Nat /\ e \in TabRecords /\ DOMAIN tabs = 1..Len(tabs)
  BY DEF TabList
<1>2. /\ rest \in Seq(TabRecords) /\ Len(rest) = Len(tabs) - 1
      /\ \A i \in 1..(Len(tabs) - 1) : rest[i] = IF i < from THEN tabs[i] ELSE tabs[i + 1]
  BY <1>1, RemovedFrom
<1> HIDE DEF rest
<1>3. /\ list \in Seq(TabRecords) /\ Len(list) = Len(tabs)
      /\ \A i \in 1..Len(tabs) : list[i] = IF i < to THEN rest[i] ELSE IF i = to THEN e ELSE rest[i - 1]
  <2>1. to \in 1..(Len(rest) + 1) /\ Len(rest) + 1 = Len(tabs) BY <1>1, <1>2
  <2> HIDE DEF e
  <2>2. /\ list \in Seq(TabRecords) /\ Len(list) = Len(rest) + 1
        /\ \A i \in 1..(Len(rest) + 1) : list[i] = IF i < to THEN rest[i] ELSE IF i = to THEN e ELSE rest[i - 1]
    BY <1>1, <1>2, <2>1, InsertedInto
  <2> QED BY <2>1, <2>2
<1>4. Moved(from, to) = list BY DEF Moved, rest
<1> HIDE DEF list
<1> DEFINE of(i) == IF i = to THEN from
                    ELSE IF i < to THEN (IF i < from THEN i ELSE i + 1)
                    ELSE (IF i - 1 < from THEN i - 1 ELSE i)
<1> DEFINE now(j) == IF j = from THEN to
                     ELSE IF j < from THEN (IF j < to THEN j ELSE j + 1)
                     ELSE (IF j - 1 < to THEN j - 1 ELSE j)
<1>5. \A i \in 1..Len(tabs) : of(i) \in 1..Len(tabs) BY <1>1
<1>6. \A i \in 1..Len(tabs) : list[i] = tabs[of(i)]
  <2> SUFFICES ASSUME NEW i \in 1..Len(tabs) PROVE list[i] = tabs[of(i)] OBVIOUS
  <2>1. CASE i = to BY <1>3, <2>1
  <2>2. CASE i < to BY <1>1, <1>3, <2>2, <1>2
  <2>3. CASE i > to BY <1>1, <1>3, <2>3, <1>2
  <2> QED BY <1>1, <2>1, <2>2, <2>3
<1>7. \A i, j \in 1..Len(tabs) : of(i) = of(j) => i = j BY <1>1
<1>8. \A j \in 1..Len(tabs) : now(j) \in 1..Len(tabs) /\ of(now(j)) = j BY <1>1
<1> HIDE DEF of, now
<1>9. TabList(list, n)
  <2>1. Len(list) >= 1 BY <1>3 DEF TabList
  <2>2. \A k \in 1..Len(list) : /\ list[k].id < n /\ (list[k].dual => list[k].second)
                                /\ (list[k].side = "right" => list[k].dual)
    BY <1>5, <1>6, <1>3 DEF TabList
  <2>3. \A i, j \in 1..Len(list) : list[i].id = list[j].id => i = j
    <3>1. \A i, j \in 1..Len(tabs) : tabs[i].id = tabs[j].id => i = j BY DEF TabList
    <3>2. ASSUME NEW i \in 1..Len(tabs), NEW j \in 1..Len(tabs), list[i].id = list[j].id PROVE i = j
      BY <1>5, <1>6, <3>2, <3>1, <1>7
    <3> QED BY <1>3, <3>2
  <2> QED BY <1>3, <2>1, <2>2, <2>3 DEF TabList
<1> DEFINE at == AfterMove(from, to)
<1>10. at \in 1..Len(tabs) /\ list[at].id = tabs[activeTab].id
  <2>1. \E k \in DOMAIN tabs : list[k].id = tabs[activeTab].id BY <1>6, <1>8, <1>1
  <2>2. at = CHOOSE k \in DOMAIN tabs : list[k].id = tabs[activeTab].id BY <1>4 DEF AfterMove
  <2> HIDE DEF at
  <2> QED BY <1>1, <2>1, <2>2
<1> HIDE DEF at
<1>11. list[at] = tabs[activeTab] BY <1>5, <1>6, <1>10 DEF TabList
<1> QED BY <1>3, <1>4, <1>9, <1>10, <1>11 DEF at

(* DragTab: the same tabs, the same one active, the bar to be rebuilt. *)
LEMMA DragTabStep ==
    ASSUME TabsInv, NEW from \in DOMAIN bar, NEW to \in DOMAIN bar, DragTab(from, to)
    PROVE  TabsInv' /\ TabOrder
<1> DEFINE list == Moved(from, to)
<1> DEFINE at == AfterMove(from, to)
<1>1. /\ TabWish("drag") /\ BarShown /\ from <= Len(tabs) /\ to <= Len(tabs)
      /\ tabs' = list /\ activeTab' = at /\ rebuild' = rebuild + 1
      /\ UNCHANGED <<panes, nextId, bar, view, dual, tabLoads, tabEvents, drops, crashed>>
  BY DEF DragTab
<1>2. PanesInv /\ BarComes BY DEF TabsInv
<1>3. nextId # 1 /\ bar \in Seq(Buttons) /\ from \in 1..Len(bar) /\ to \in 1..Len(bar)
  BY <1>1, <1>2, BarShownIs
<1>4. /\ Len(tabs) \in Nat /\ activeTab \in 1..Len(tabs) /\ TabList(tabs, nextId) /\ rebuild \in Nat
      /\ from \in 1..Len(tabs) /\ to \in 1..Len(tabs)
  BY <1>1, <1>2, <1>3 DEF PanesInv, TabTypes, TabList
<1>5. TabList(list, nextId) /\ Len(list) = Len(tabs) /\ at \in 1..Len(tabs) /\ list[at] = tabs[activeTab]
  BY <1>4, MovedIs
<1> HIDE DEF list, at
<1>6. /\ tabUser' \in [does : SUBSET TabWishes, left : Nat] /\ tabUser'.does = tabUser.does
      /\ "drag" \in tabUser.does
  BY <1>1, <1>2, WishIs DEF PanesInv, TabTypes
<1>7. AllList' = AllList /\ ClosesByKeys' = ClosesByKeys /\ OnWay' = OnWay
  BY <1>1, <1>6 DEF AllList, ClosesByKeys, OnWay
<1>8. TabTypes' BY <1>1, <1>2, <1>4, <1>5, <1>6 DEF PanesInv, TabTypes
<1>9. LoadsFit' /\ TitleComes' BY <1>1, <1>2, <1>3, <1>6, <1>7 DEF PanesInv, LoadsFit, TitleComes
<1>10. tabs'[activeTab'] = tabs[activeTab] BY <1>1, <1>5
<1>11. ViewsCome' BY <1>1, <1>2, <1>7, <1>10 DEF PanesInv, ViewsCome
<1>12. BarComes'
  <2>1. rebuild' > 0 BY <1>1, <1>4
  <2> QED BY <1>1, <1>2, <1>3, <1>5, <1>6, <1>7, <2>1 DEF BarComes
<1>13. DropsGoWhereShown' BY <1>1, <1>6, DropsStay DEF TabsInv
<1> QED BY <1>8, <1>9, <1>10, <1>11, <1>12, <1>13 DEF TabsInv, PanesInv, TabOrder

(* DropFiles: to the tab the button is for, if none was dragged. *)
LEMMA DropFilesStep ==
    ASSUME TabsInv, NEW k \in DOMAIN bar, DropFiles(k)
    PROVE  TabsInv' /\ TabOrder
<1>1. /\ TabWish("drop") /\ BarShown /\ drops' = drops \cup {<<bar[k].tab, tabs[k].id>>}
      /\ UNCHANGED <<tabs, activeTab, panes, nextId, bar, rebuild, view, dual, tabLoads, tabEvents, crashed>>
  BY DEF DropFiles
<1>2. PanesInv /\ BarComes BY DEF TabsInv
<1>3. tabUser' \in [does : SUBSET TabWishes, left : Nat] /\ tabUser'.does = tabUser.does
  BY <1>1, <1>2, WishIs DEF PanesInv, TabTypes
<1>4. rebuild' \in Nat /\ crashed' \in BOOLEAN BY <1>1, <1>2 DEF PanesInv, TabTypes
<1>5. PanesInv' /\ OnWay' = OnWay /\ SameIds(tabs', tabs) BY <1>1, <1>2, <1>3, <1>4, PanesStay
<1>6. BarComes' BY <1>1, <1>2, <1>3, <1>5, BarStays
<1>7. DropsGoWhereShown'
  BY <1>1, <1>2, BarShownIs, <1>3 DEF BarComes, ClosesByKeys, TabsInv, DropsGoWhereShown
<1> QED BY <1>5, <1>6, <1>7 DEF TabsInv, TabOrder

-------------------------------------------------------------------------------
(* The main loop. *)

(* Rebuild: the bar is that of the tabs there are. *)
LEMMA RebuildStep ==
    ASSUME TabsInv, Rebuild
    PROVE  TabsInv' /\ TabOrder
<1>1. /\ rebuild > 0 /\ rebuild' = rebuild - 1 /\ bar' = Bar(tabs, activeTab)
      /\ UNCHANGED <<tabs, activeTab, panes, nextId, view, dual, tabLoads, tabEvents, drops, crashed, tabUser>>
  BY DEF Rebuild
<1>2. PanesInv /\ BarComes BY DEF TabsInv
<1>3. /\ rebuild' \in Nat /\ crashed' \in BOOLEAN /\ tabs \in Seq(TabRecords)
      /\ tabUser' \in [does : SUBSET TabWishes, left : Nat] /\ tabUser'.does = tabUser.does
  BY <1>1, <1>2 DEF PanesInv, TabTypes, TabList
<1>4. PanesInv' /\ SameIds(tabs', tabs) /\ SameTabs(tabs', tabs) BY <1>1, <1>2, <1>3, PanesStay
<1>5. TabTypes' /\ bar' = Bar(tabs, activeTab') BY <1>1, <1>4 DEF PanesInv
<1>6. BarComes' BY <1>1, <1>2, <1>3, <1>4, <1>5, BarBuilt
<1>7. DropsGoWhereShown' BY <1>1, <1>3, DropsStay DEF TabsInv
<1> QED BY <1>4, <1>6, <1>7 DEF TabsInv, TabOrder

(* List: what can be listed stays on its way. *)
LEMMA ListStep ==
    ASSUME TabsInv, NEW k \in DOMAIN tabLoads, List(k)
    PROVE  TabsInv' /\ TabOrder
<1> DEFINE l == tabLoads[k]
<1>1. /\ tabLoads' = RemoveAt(tabLoads, k)
      /\ tabEvents' = IF l.path \in TabFailing THEN tabEvents ELSE Append(tabEvents, l)
      /\ UNCHANGED <<tabs, activeTab, panes, nextId, bar, rebuild, view, dual, drops, crashed, tabUser>>
  BY DEF List
<1>2. PanesInv BY DEF TabsInv
<1>3. /\ tabLoads \in Seq(LoadRecords) /\ tabEvents \in Seq(LoadRecords) /\ k \in 1..Len(tabLoads)
      /\ l \in LoadRecords
  BY <1>2 DEF PanesInv, TabTypes
<1>4. tabLoads' \in Seq(LoadRecords) /\ ToSet(tabLoads) = ToSet(tabLoads') \cup {l}
  BY <1>1, <1>3, RemovedFrom
<1> HIDE DEF l
<1>5. /\ tabEvents' \in Seq(LoadRecords)
      /\ l.path \in TabFailing => ToSet(tabEvents') = ToSet(tabEvents)
      /\ l.path \notin TabFailing => ToSet(tabEvents') = ToSet(tabEvents) \cup {l}
  BY <1>1, <1>3, AppendedTo
<1>6. OnWay' \subseteq OnWay /\ (l.path \notin TabFailing => OnWay' = OnWay) BY <1>4, <1>5 DEF OnWay
<1>7. AllList => OnWay' = OnWay BY <1>4, <1>2, <1>6 DEF OnWay, PanesInv, LoadsFit
<1>8. AllList' = AllList /\ ClosesByKeys' = ClosesByKeys /\ SameIds(tabs', tabs)
  BY <1>1 DEF AllList, ClosesByKeys, SameIds
<1>9. TabTypes' BY <1>1, <1>2, <1>4, <1>5 DEF PanesInv, TabTypes
<1>10. LoadsFit' BY <1>1, <1>2, <1>6, <1>8 DEF PanesInv, LoadsFit
<1>11. ViewsCome' /\ TitleComes' BY <1>1, <1>2, <1>7, <1>8 DEF PanesInv, ViewsCome, TitleComes
<1>12. BarComes' BY <1>1, <1>7, <1>8, BarStays DEF TabsInv
<1>13. DropsGoWhereShown' BY <1>1, DropsStay DEF TabsInv
<1> QED BY <1>8, <1>9, <1>10, <1>11, <1>12, <1>13 DEF TabsInv, PanesInv, TabOrder

(* TabLoaded: the view, the title and the bar of what has been listed. *)
LEMMA TabLoadedStep ==
    ASSUME TabsInv, TabLoaded
    PROVE  TabsInv' /\ TabOrder
<1> DEFINE ev == Head(tabEvents)
<1> DEFINE id == ev.pane[1]
<1> DEFINE half == ev.pane[2]
<1> DEFINE tab == tabs[activeTab]
<1> DEFINE new == [tab EXCEPT !.title = ev.path]
<1> DEFINE p == NewPane(ev.path)
<1>1. /\ tabEvents # << >> /\ tabEvents' = Tail(tabEvents)
      /\ panes' = IF id \in Ids(tabs) THEN [panes EXCEPT ![id][half] = p] ELSE panes
      /\ tabs' = [tabs EXCEPT ![activeTab] = new]
      /\ bar' = Bar(tabs, activeTab) /\ dual' = tab.dual
      /\ view' = IF id = tab.id /\ Shows(tab, half) THEN [view EXCEPT ![half] = ev.pane] ELSE view
      /\ UNCHANGED <<activeTab, nextId, rebuild, tabLoads, drops, crashed, tabUser>>
  <2>1. tabs' = [tabs EXCEPT ![activeTab].title = ev.path] BY DEF TabLoaded
  <2>2. tabs' = [tabs EXCEPT ![activeTab] = new] BY <2>1
  <2> HIDE DEF new
  <2> QED BY <2>2 DEF TabLoaded
<1>2. PanesInv BY DEF TabsInv
<1>3. /\ tabEvents \in Seq(LoadRecords) /\ tabs \in Seq(TabRecords) /\ activeTab \in 1..Len(tabs)
      /\ TabList(tabs, nextId) /\ view \in ViewStates /\ panes \in PaneSets
  BY <1>2 DEF PanesInv, TabTypes, TabList
<1>4. ev \in LoadRecords /\ tabEvents' \in Seq(LoadRecords) /\ ToSet(tabEvents) = ToSet(tabEvents') \cup {ev}
  BY <1>1, <1>3, TailOf
<1> HIDE DEF ev
<1>5. /\ ev.pane \in PaneIds /\ ev.path \in TabFolders /\ id \in TabIds /\ half \in TabSides
      /\ ev.pane = <<id, half>>
  BY <1>4 DEF LoadRecords, PaneIds, TabIds
<1> HIDE DEF id, half
<1>6. OnWay = OnWay' \cup {ev} BY <1>1, <1>4 DEF OnWay
<1>7. tab \in TabRecords /\ tab.id \in TabIds /\ tab.dual \in BOOLEAN
  <2>1. tab \in TabRecords BY <1>3
  <2> QED BY <2>1 DEF TabRecords
<1>8. /\ new \in TabRecords /\ new.id = tab.id /\ new.dual = tab.dual /\ new.second = tab.second
      /\ new.side = tab.side /\ new.title = ev.path
  BY <1>5, <1>7 DEF TabRecords
<1> HIDE DEF new
<1>9. p \in PaneRecords /\ p.path = ev.path /\ p.recent = FALSE BY <1>5, NewPaneIs
<1> HIDE DEF p
<1>10. /\ panes' \in PaneSets
       /\ \A i \in TabIds, s \in TabSides : panes'[i][s] = p \/ panes'[i][s] = panes[i][s]
       /\ id \in Ids(tabs) => panes'[id][half] = p
  <2>1. /\ [panes EXCEPT ![id][half] = p] \in PaneSets
        /\ \A i \in TabIds, s \in TabSides :
              [panes EXCEPT ![id][half] = p][i][s] = IF i = id /\ s = half THEN p ELSE panes[i][s]
    BY <1>5, <1>3, <1>9, PutIs
  <2> QED BY <1>1, <1>3, <1>5, <2>1
<1>11. /\ tabs' \in Seq(TabRecords) /\ Len(tabs') = Len(tabs)
       /\ \A k \in 1..Len(tabs) : tabs'[k] = IF k = activeTab THEN new ELSE tabs[k]
  BY <1>1, <1>3, <1>8
<1>12. \A k \in 1..Len(tabs) : /\ tabs'[k].id = tabs[k].id /\ tabs'[k].second = tabs[k].second
                              /\ tabs'[k].dual = tabs[k].dual /\ tabs'[k].side = tabs[k].side
  BY <1>8, <1>11
<1>13. TabList(tabs', nextId) BY <1>3, <1>11, <1>12 DEF TabList
<1>14. AllList' = AllList /\ ClosesByKeys' = ClosesByKeys BY <1>1 DEF AllList, ClosesByKeys
<1>15. view' \in ViewStates /\ \A s \in TabSides : view'[s] = IF id = tab.id /\ s = half /\ Shows(tab, half)
                                                              THEN <<tab.id, s>> ELSE view[s]
  <2> HIDE DEF tab
  <2> QED BY <1>1, <1>3, <1>5 DEF ViewStates
<1>16. TabTypes' BY <1>1, <1>2, <1>4, <1>7, <1>10, <1>11, <1>13, <1>15 DEF PanesInv, TabTypes
<1>17. nextId = 1 => activeTab = 1 /\ 1 \in 1..Len(tabs) /\ tabs[1].id = 0
  <2>1. nextId = 1 => Len(tabs) = 1 /\ tabs[1].id = 0 BY <1>3, OneTab
  <2>2. ASSUME nextId = 1 PROVE activeTab = 1
    <3>1. activeTab \in 1..1 BY <1>3, <2>1, <2>2
    <3> QED BY <3>1
  <2> QED BY <1>3, <2>1, <2>2
<1>18. LoadsFit'
  <2>1. AllList' => \A i \in TabIds, s \in TabSides : panes'[i][s].path \notin TabFailing
    BY <1>2, <1>6, <1>9, <1>10, <1>14 DEF PanesInv, LoadsFit
  <2>2. AllList' => \A l \in OnWay' : l.path \notin TabFailing
    BY <1>2, <1>6, <1>14 DEF PanesInv, LoadsFit
  <2>3. "recent" \notin tabUser'.does => \A i \in TabIds, s \in TabSides : panes'[i][s].recent = FALSE
    BY <1>1, <1>2, <1>9, <1>10 DEF PanesInv, LoadsFit
  <2>4. \A l \in OnWay' : l.pane[1] < nextId /\ (nextId = 1 /\ l.pane[2] = "right" => tabs'[1].second)
    BY <1>2, <1>6, <1>12, <1>17 DEF PanesInv, LoadsFit
  <2> QED BY <1>1, <2>1, <2>2, <2>3, <2>4 DEF LoadsFit
<1>19. TitleComes'
  <2> SUFFICES ASSUME nextId = 1
               PROVE  \E s \in TabSides :
                         /\ s = "left" \/ tabs'[1].second
                         /\ tabs'[1].title = IF panes'[tabs'[1].id][s].recent THEN Recent
                                             ELSE panes'[tabs'[1].id][s].path
    BY <1>1 DEF TitleComes
  <2>1. id < 1 /\ (half = "right" => tabs[1].second) BY <1>2, <1>6 DEF PanesInv, LoadsFit, id, half
  <2>2. id = 0 BY <1>5, <2>1, TabSets
  <2>3. DOMAIN tabs = 1..Len(tabs) BY <1>3
  <2>4. id \in Ids(tabs) BY <1>17, <2>2, <2>3 DEF Ids
  <2>5. panes'[id][half] = p BY <1>10, <2>4
  <2>6. tabs'[1].id = id /\ tabs'[1].second = tabs[1].second /\ tabs'[1].title = ev.path
    BY <1>8, <1>11, <1>12, <1>17, <2>2
  <2>7. half \in TabSides /\ (half = "left" \/ tabs'[1].second) BY <1>5, <2>1, <2>6, TabSets
  <2> QED BY <1>9, <2>5, <2>6, <2>7
<1>20. ViewsCome'
  <2>1. tabs'[activeTab'].id = tab.id /\ tabs'[activeTab'].dual = tab.dual BY <1>1, <1>3, <1>12
  <2>2. ClosesByKeys /\ AllList =>
           /\ \/ view["left"] = <<tab.id, "left">>
              \/ \E l \in OnWay : l.pane = <<tab.id, "left">>
           /\ tab.dual => view["right"] = <<tab.id, "right">>
    BY <1>2 DEF PanesInv, ViewsCome
  <2>3. ClosesByKeys /\ AllList => \/ view'["left"] = <<tab.id, "left">>
                                   \/ \E l \in OnWay' : l.pane = <<tab.id, "left">>
    <3>1. view["left"] = <<tab.id, "left">> => view'["left"] = <<tab.id, "left">> BY <1>15, TabSets
    <3>2. ASSUME NEW l \in OnWay, l.pane = <<tab.id, "left">>
          PROVE  view'["left"] = <<tab.id, "left">> \/ l \in OnWay'
      <4>1. CASE l = ev
        <5>1. id = tab.id /\ half = "left" BY <3>2, <4>1 DEF id, half
        <5> QED BY <1>15, <5>1, TabSets DEF Shows
      <4> QED BY <1>6, <3>2, <4>1
    <3> QED BY <2>2, <3>1, <3>2
  <2>4. ClosesByKeys /\ AllList => (tab.dual => view'["right"] = <<tab.id, "right">>)
    BY <1>15, <2>2, TabSets
  <2> HIDE DEF tab
  <2> QED BY <1>1, <1>14, <2>1, <2>3, <2>4 DEF ViewsCome
<1>21. SameTabs(tabs', tabs) /\ SameIds(tabs', tabs) BY <1>11, <1>12 DEF SameTabs, SameIds
<1>22. BarComes' BY <1>1, <1>3, <1>16, <1>21, BarBuilt DEF TabsInv
<1>23. DropsGoWhereShown' BY <1>1, DropsStay DEF TabsInv
<1> QED BY <1>16, <1>18, <1>19, <1>20, <1>21, <1>22, <1>23 DEF TabsInv, PanesInv, TabOrder

-------------------------------------------------------------------------------
(* The invariant holds at the start, and says what the window shows. *)

(* The window opens with one tab, shown. *)
LEMMA TabsBegin == TabsInit => TabsInv
<1> SUFFICES ASSUME TabsInit PROVE TabsInv OBVIOUS
<1> DEFINE first == NewTab(0, FirstFolder)
<1> DEFINE pane == NewPane(FirstFolder)
<1>1. /\ tabs = <<first>> /\ activeTab = 1 /\ nextId = 1
      /\ panes = [id \in TabIds |-> [half \in TabSides |-> pane]]
      /\ bar = << >> /\ rebuild = 0 /\ view = [left |-> <<0, "left">>, right |-> NoView] /\ dual = FALSE
      /\ tabLoads = << >> /\ tabEvents = << >> /\ drops = {} /\ crashed = FALSE /\ tabUser \in TabUsers
  BY DEF TabsInit, TabIds
<1>2. FirstFolder \in TabFolders /\ FirstFolder \notin TabFailing /\ tabUser \in [does : SUBSET TabWishes, left : Nat]
  BY <1>1, TabsAssumption DEF TabsAssumption
<1>3. 0 \in TabIds /\ 1 \in 1..MaxTabs BY TabSets
<1>4. /\ first \in TabRecords /\ first.id = 0 /\ first.title = FirstFolder /\ first.dual = FALSE
      /\ first.side = "left" /\ first.second = FALSE
  BY <1>2, <1>3, TabSets DEF NewTab, TabRecords
<1>5. pane \in PaneRecords /\ pane.path = FirstFolder /\ pane.recent = FALSE BY <1>2, NewPaneIs
<1> HIDE DEF first, pane
<1>6. tabs \in Seq(TabRecords) /\ Len(tabs) = 1 /\ tabs[1] = first /\ \A k \in 1..Len(tabs) : k = 1
  BY <1>1, <1>4
<1>7. TabList(tabs, nextId) /\ activeTab \in 1..Len(tabs) BY <1>1, <1>4, <1>6 DEF TabList
<1>8. panes \in PaneSets /\ \A id \in TabIds, half \in TabSides : panes[id][half] = pane
  BY <1>1, <1>5 DEF PaneSets
<1>9. view \in ViewStates /\ view["left"] = <<0, "left">>
  BY <1>3, TabSets, <1>1 DEF PaneIds, TabIds, TabSides, ViewStates
<1>10. tabLoads \in Seq(LoadRecords) /\ tabEvents \in Seq(LoadRecords) /\ OnWay = {}
  BY <1>1 DEF OnWay, ToSet
<1>11. TabTypes BY <1>1, <1>2, <1>3, <1>7, <1>8, <1>9, <1>10 DEF TabTypes
<1>12. LoadsFit BY <1>2, <1>5, <1>8, <1>10 DEF LoadsFit
<1>13. ViewsCome BY <1>1, <1>4, <1>6, <1>9 DEF ViewsCome
<1>14. TitleComes BY <1>4, <1>6, <1>3, <1>8, TabSets, <1>5 DEF TitleComes
<1>15. BarComes BY <1>1, <1>6 DEF BarComes, OnePressed
<1>16. DropsGoWhereShown BY <1>1 DEF DropsGoWhereShown
<1> QED BY <1>11, <1>12, <1>13, <1>14, <1>15, <1>16 DEF TabsInv, PanesInv

(* There are as many ids as there are tabs. *)
LEMMA IdsAreAsMany ==
    ASSUME NEW n, NEW list, TabList(list, n)
    PROVE  Cardinality(Ids(list)) = Len(list)
<1> DEFINE S == 1..Len(list)
<1> DEFINE T == Ids(list)
<1> DEFINE f == [k \in S |-> list[k].id]
<1>1. Len(list) \in Nat /\ DOMAIN list = S /\ \A i, j \in S : list[i].id = list[j].id => i = j
  BY DEF TabList
<1>2. T = {list[k].id : k \in S} BY <1>1 DEF Ids
<1>3. IsFiniteSet(S) /\ Cardinality(S) = Len(list) BY <1>1, FS_Interval
<1> HIDE DEF S, T
<1>4. f \in [S -> T] /\ (\A a, b \in S : f[a] = f[b] => a = b) /\ \A t \in T : \E s \in S : f[s] = t
  BY <1>1, <1>2
<1> HIDE DEF f
<1>5. f \in Bijection(S, T) BY <1>4 DEF Bijection, Injection, Surjection, IsInjective
<1>6. ExistsBijection(S, T) BY <1>5 DEF ExistsBijection
<1>7. Cardinality(T) = Cardinality(S) BY <1>3, <1>6, FS_Bijection
<1> QED BY <1>3, <1>7 DEF T

(* The invariant says what the window shows. *)
LEMMA TabsAreRight == TabsInv => TabsAreShown
<1> SUFFICES ASSUME TabsInv PROVE TabsAreShown OBVIOUS
<1>1. /\ PanesInv /\ BarComes /\ DropsGoWhereShown /\ TabTypes
      /\ tabs \in Seq(TabRecords) /\ TabList(tabs, nextId)
  BY DEF TabsInv, PanesInv, TabTypes, TabList
<1>2. DOMAIN tabs = 1..Len(tabs) /\ Len(tabs) \in Nat BY <1>1
<1>3. bar \in Seq(Buttons) /\ DOMAIN bar = 1..Len(bar) /\ Len(bar) \in Nat BY <1>1 DEF BarComes
<1>4. TabsTypeOK
  <2>1. Cardinality(Ids(tabs)) = Len(tabs) BY <1>1, IdsAreAsMany
  <2>2. \A k \in DOMAIN tabs : (tabs[k].dual => tabs[k].second) /\ (tabs[k].side = "right" => tabs[k].dual)
    BY <1>1, <1>2 DEF TabList
  <2> QED BY <1>1, <1>2, <1>3, <2>1, <2>2 DEF TabsTypeOK, TabTypes, TabRecords, TabIds, PaneSets,
      PaneRecords, Buttons, ViewStates, LoadRecords
<1>5. TabsSettled => OnWay = {} /\ ~(rebuild > 0) BY DEF TabsSettled, OnWay, ToSet
<1>6. BarShowsTabs
  <2> SUFFICES ASSUME ClosesByKeys, AllList, TabsSettled, Len(tabs) > 1
               PROVE  [k \in DOMAIN bar |-> bar[k].tab] = [k \in DOMAIN tabs |-> tabs[k].id]
    BY DEF BarShowsTabs
  <2>1. Len(tabs) # 1
    <3> DEFINE n == Len(tabs)
    <3>1. n > 1 /\ n \in Nat BY <1>2
    <3> HIDE DEF n
    <3>2. n # 1 BY <3>1
    <3> QED BY <3>2 DEF n
  <2>2. BarIsOfTabs BY <1>1, <1>5, <2>1 DEF BarComes
  <2> QED BY <1>2, <1>3, <2>2 DEF BarIsOfTabs
<1>7. PressedIsActive BY <1>1, <1>3, <1>5 DEF PressedIsActive, BarComes, OnePressed
<1>8. ViewsShowActive BY <1>1, <1>5 DEF ViewsShowActive, PanesInv, ViewsCome
<1>9. TitleIsOwn BY <1>1, <1>5 DEF TitleIsOwn, PanesInv, TitleComes
<1>10. ButtonsMeanTheirTab BY <1>1 DEF ButtonsMeanTheirTab, NeverPanics, BarComes
<1> QED BY <1>4, <1>6, <1>7, <1>8, <1>9, <1>10 DEF TabsAreShown

(* Every step keeps the invariant, and the active tab active. *)
LEMMA TabsStep == TabsInv /\ [TabsNext]_tabVars => TabsInv' /\ TabOrder
<1> SUFFICES ASSUME TabsInv, [TabsNext]_tabVars PROVE TabsInv' /\ TabOrder OBVIOUS
<1>1. CASE NewTabKey BY <1>1, NewTabKeyStep
<1>2. CASE CloseTabKey BY <1>2, CloseTabKeyStep
<1>3. CASE CycleTab BY <1>3, CycleTabStep
<1>4. CASE ToggleDual BY <1>4, ToggleDualStep
<1>5. CASE SwitchTabPane BY <1>5, SwitchTabPaneStep
<1>6. CASE OpenInTab BY <1>6, OpenInTabStep
<1>7. CASE ShowRecentInTab BY <1>7, ShowRecentInTabStep
<1>8. CASE NewTabButton BY <1>8, NewTabButtonStep
<1>9. ASSUME NEW k \in DOMAIN bar, ClickClose(k) PROVE TabsInv' /\ TabOrder BY <1>9, ClickCloseStep
<1>10. ASSUME NEW k \in DOMAIN bar, ClickTab(k) PROVE TabsInv' /\ TabOrder BY <1>10, ClickTabStep
<1>11. ASSUME NEW k \in DOMAIN bar, DropFiles(k) PROVE TabsInv' /\ TabOrder BY <1>11, DropFilesStep
<1>12. ASSUME NEW k \in DOMAIN bar, NEW to \in DOMAIN bar, DragTab(k, to) PROVE TabsInv' /\ TabOrder
  BY <1>12, DragTabStep
<1>13. CASE Rebuild BY <1>13, RebuildStep
<1>14. CASE TabLoaded BY <1>14, TabLoadedStep
<1>15. ASSUME NEW k \in DOMAIN tabLoads, List(k) PROVE TabsInv' /\ TabOrder BY <1>15, ListStep
<1>16. CASE UNCHANGED tabVars
  BY <1>16, PanesStay, BarStays, DropsStay DEF TabsInv, tabVars, PanesInv, TabTypes, TabOrder
<1> QED BY <1>1, <1>2, <1>3, <1>4, <1>5, <1>6, <1>7, <1>8, <1>9, <1>10, <1>11, <1>12, <1>13, <1>14,
<1>15, <1>16 DEF TabsNext

(* TabBar, PaneViews: whichever way tabs are opened, closed and ordered, the bar and the views
   show those there are and the active one, once nothing is under way, and putting them in
   another order keeps the active one active. *)
THEOREM WindowAlwaysShowsTabs == TabsSpec => WindowShowsTabs
<1>1. TabsInit => TabsInv BY TabsBegin
<1>2. TabsInv /\ [TabsNext]_tabVars => TabsInv' BY TabsStep
<1>3. TabsInv => TabsAreShown BY TabsAreRight
<1>4. TabsInv /\ [TabsNext]_tabVars =>
         [Ids(tabs') = Ids(tabs) /\ (\E k \in DOMAIN tabs : tabs'[k].id # tabs[k].id)
             => tabs'[activeTab'].id = tabs[activeTab].id]_tabVars
  <2> SUFFICES ASSUME TabsInv, [TabsNext]_tabVars, Ids(tabs') = Ids(tabs),
                      NEW k \in DOMAIN tabs, tabs'[k].id # tabs[k].id
               PROVE  tabs'[activeTab'].id = tabs[activeTab].id
    OBVIOUS
  <2>1. TabOrder BY TabsStep
  <2>2. k \in 1..Len(tabs) BY DEF TabsInv, PanesInv, TabTypes, TabList
  <2> QED BY <2>1, <2>2 DEF TabOrder, SameIds
<1> QED BY <1>1, <1>2, <1>3, <1>4, PTL DEF TabsSpec, WindowShowsTabs, ReorderKeepsActive

===============================================================================
