-------------------------------- MODULE Tabs --------------------------------
(***************************************************************************)
(* The tabs of a window, the bar that shows them, and the two views that *)
(* show the panes of the active one.                                     *)
(*                                                                       *)
(* A button of the bar holds the index its tab had when the bar was      *)
(* built. A directory that has been listed rebuilds the bar.  What is in *)
(* a pane, and its way back, is in Navigation; a command is handled when *)
(* it is sent, and listings finish in any order.                         *)
(***************************************************************************)
EXTENDS Naturals, Sequences, FiniteSets, SequencesExt

CONSTANTS
    TabFolders,       \* folders to browse
    FirstFolder,      \* where the first tab starts
    TabFailing,       \* folders that cannot be listed
    Recent,           \* the title of a tab that shows recent files
    NoView,           \* nothing shown
    TabUsers,         \* users: what each does, a set of the names below, and how often
    MaxTabs           \* bound on tabs opened

TabWishes == {"key_new", "button_new", "key_close", "button_close", "cycle", "click", "drag", "drop",
             "dual", "switch", "open", "recent"}
TabSides == {"left", "right"}

ASSUME TabsAssumption ==
    /\ FirstFolder \in TabFolders \ TabFailing /\ TabFailing \subseteq TabFolders
    /\ {Recent, NoView} \cap TabFolders = {}
    /\ TabUsers \subseteq [does: SUBSET TabWishes, left: Nat] /\ MaxTabs \in Nat \ {0}

VARIABLES
    tabs,        \* AppStateInner.tabs
    activeTab,   \* active_tab, an index from 1
    panes,       \* panes[id][side]: PaneState of the tab with that id
    nextId,      \* next_tab_id
    bar,         \* the buttons: the tab each was built for, and whether it is pressed
    rebuild,     \* idle callbacks that will build the bar anew
    view,        \* view[side]: the pane listed there, <<id, side>>
    dual,        \* the right view is visible
    tabLoads,    \* listings under way
    tabEvents,   \* listings done, for the window
    drops,       \* the tab that files were dropped on, and the one whose folder they go to
    crashed,     \* an index was out of bounds
    tabUser      \* what the user does, and how often yet

tabVars == <<tabs, activeTab, panes, nextId, bar, rebuild, view, dual, tabLoads, tabEvents,
             drops, crashed, tabUser>>

NewTab(id, folder) == [id |-> id, title |-> folder, second |-> FALSE, dual |-> FALSE, side |-> "left"]
NewPane(folder) == [path |-> folder, recent |-> FALSE]

TabsInit ==
    /\ tabs = <<NewTab(0, FirstFolder)>> /\ activeTab = 1 /\ nextId = 1
    /\ panes = [id \in 0 .. MaxTabs - 1 |-> [side \in TabSides |-> NewPane(FirstFolder)]]
    /\ bar = << >> /\ rebuild = 0
    /\ view = [left |-> <<0, "left">>, right |-> NoView] /\ dual = FALSE
    /\ tabLoads = << >> /\ tabEvents = << >> /\ drops = {} /\ crashed = FALSE /\ tabUser \in TabUsers

TabWish(name) ==
    ~crashed /\ name \in tabUser.does /\ tabUser.left > 0 /\ tabUser' = [tabUser EXCEPT !.left = @ - 1]

Shows(tab, side) == side = "left" \/ tab.dual
Ids(list) == {list[k].id : k \in DOMAIN list}

(* TabBar::refresh *)
Bar(list, at) == [k \in DOMAIN list |-> [tab |-> list[k].id, on |-> k = at]]

(* A pane that shows recent files is not listed. *)
Load(pane, s) == IF s.recent THEN << >> ELSE <<[pane |-> pane, path |-> s.path]>>

(* PaneViews::show_active_tab: the layout, what is known, and a listing of each pane; a pane of
   recent files looks for these again, and its tab is called so. *)
ShowActiveTab(list, at, all) ==
    LET tab == list[at]
        shown == {side \in TabSides : Shows(tab, side)} IN
    /\ dual' = tab.dual
    /\ view' = [side \in TabSides |-> IF side \in shown THEN <<tab.id, side>> ELSE view[side]]
    /\ tabLoads' = tabLoads \o Load(<<tab.id, "left">>, all[tab.id]["left"])
                      \o IF tab.dual THEN Load(<<tab.id, "right">>, all[tab.id]["right"]) ELSE << >>
    /\ tabs' = IF \E side \in shown : all[tab.id][side].recent THEN [list EXCEPT ![at].title = Recent] ELSE list

-------------------------------------------------------------------------------
(* AppStateInner *)

ActivePane == LET tab == tabs[activeTab] IN <<tab.id, tab.side>>
PaneOf(pane) == panes[pane[1]][pane[2]]

Added(folder) == Append(tabs, NewTab(nextId, folder))

(* The tab that is active after one has been closed: the index stays. *)
AfterClose(index) == IF activeTab > Len(tabs) - 1 THEN Len(tabs) - 1 ELSE activeTab

Moved(from, to) == InsertAt(RemoveAt(tabs, from), to, tabs[from])

(* Mutant of AfterMove: the index stays. *)
AfterMoveStays(from, to) == activeTab

AfterMove(from, to) == CHOOSE k \in DOMAIN tabs : Moved(from, to)[k].id = tabs[activeTab].id

-------------------------------------------------------------------------------
(* The keyboard: the bar is built anew and the active tab shown. *)

NewTabKey ==
    /\ TabWish("key_new") /\ nextId < MaxTabs
    /\ LET folder == PaneOf(ActivePane).path
           all == [panes EXCEPT ![nextId]["left"] = NewPane(folder)] IN
       /\ panes' = all /\ nextId' = nextId + 1 /\ activeTab' = Len(tabs) + 1
       /\ ShowActiveTab(Added(folder), Len(tabs) + 1, all)
       /\ bar' = Bar(Added(folder), Len(tabs) + 1)
    /\ UNCHANGED <<rebuild, tabEvents, drops, crashed>>

CloseTabKey ==
    /\ TabWish("key_close") /\ Len(tabs) > 1
    /\ LET left == RemoveAt(tabs, activeTab) IN
       /\ activeTab' = AfterClose(activeTab)
       /\ bar' = Bar(left, AfterClose(activeTab))
       /\ ShowActiveTab(left, AfterClose(activeTab), panes)
    /\ UNCHANGED <<panes, nextId, rebuild, tabEvents, drops, crashed>>

CycleTab ==
    /\ TabWish("cycle")
    /\ \E at \in {(activeTab % Len(tabs)) + 1, ((activeTab + Len(tabs) - 2) % Len(tabs)) + 1} :
          /\ activeTab' = at /\ bar' = Bar(tabs, at) /\ ShowActiveTab(tabs, at, panes)
    /\ UNCHANGED <<panes, nextId, rebuild, tabEvents, drops, crashed>>

(* The second pane starts where the first is, and keeps where it was. *)
ToggleDual ==
    /\ TabWish("dual")
    /\ LET tab == tabs[activeTab]
           right == <<tab.id, "right">>
           all == IF tab.second THEN panes
                  ELSE [panes EXCEPT ![tab.id]["right"] = NewPane(panes[tab.id]["left"].path)] IN
       IF tab.dual
       THEN /\ tabs' = [tabs EXCEPT ![activeTab] = [@ EXCEPT !.dual = FALSE, !.side = "left"]]
            /\ dual' = FALSE /\ UNCHANGED <<panes, view, tabLoads>>
       ELSE /\ tabs' = [tabs EXCEPT ![activeTab] = [@ EXCEPT !.dual = TRUE, !.second = TRUE]]
            /\ dual' = TRUE /\ panes' = all /\ view' = [view EXCEPT !["right"] = right]
            /\ tabLoads' = Append(tabLoads, [pane |-> right, path |-> all[tab.id]["right"].path])
    /\ UNCHANGED <<activeTab, nextId, bar, rebuild, tabEvents, drops, crashed>>

SwitchTabPane ==
    /\ TabWish("switch") /\ tabs[activeTab].dual
    /\ tabs' = [tabs EXCEPT ![activeTab].side = CHOOSE side \in TabSides : side # tabs[activeTab].side]
    /\ UNCHANGED <<activeTab, panes, nextId, bar, rebuild, view, dual, tabLoads, tabEvents,
                   drops, crashed>>

OpenInTab ==
    /\ TabWish("open")
    /\ \E folder \in TabFolders :
          /\ panes' = [panes EXCEPT ![ActivePane[1]][ActivePane[2]] = NewPane(folder)]
          /\ tabLoads' = Append(tabLoads, [pane |-> ActivePane, path |-> folder])
    /\ UNCHANGED <<tabs, activeTab, nextId, bar, rebuild, view, dual, tabEvents, drops, crashed>>

ShowRecentInTab ==
    /\ TabWish("recent")
    /\ panes' = [panes EXCEPT ![ActivePane[1]][ActivePane[2]].recent = TRUE]
    /\ tabs' = [tabs EXCEPT ![activeTab].title = Recent]
    /\ view' = IF PaneOf(ActivePane).recent THEN view ELSE [view EXCEPT ![ActivePane[2]] = ActivePane]
    /\ bar' = Bar(tabs', activeTab)
    /\ UNCHANGED <<activeTab, nextId, rebuild, dual, tabLoads, tabEvents, drops, crashed>>

-------------------------------------------------------------------------------
(* The mouse. *)

(* The bar and the panes follow when the folder has been listed. *)
NewTabButton ==
    /\ TabWish("button_new") /\ nextId < MaxTabs
    /\ LET folder == PaneOf(ActivePane).path IN
       /\ tabs' = Added(folder) /\ activeTab' = Len(tabs) + 1 /\ nextId' = nextId + 1
       /\ panes' = [panes EXCEPT ![nextId]["left"] = NewPane(folder)]
       /\ tabLoads' = Append(tabLoads, [pane |-> <<nextId, "left">>, path |-> folder])
    /\ UNCHANGED <<bar, rebuild, view, dual, tabEvents, drops, crashed>>

(* The bar is hidden while it was built for one tab. *)
BarShown == Len(bar) > 1

Panic == crashed' = TRUE /\ UNCHANGED <<tabs, activeTab, panes, nextId, bar, rebuild, view,
                                        dual, tabLoads, tabEvents, drops>>

(* The close button of a tab: neither the bar nor the panes follow. *)
ClickClose(k) ==
    /\ TabWish("button_close") /\ BarShown
    /\ IF Len(tabs) > 1 /\ k > Len(tabs) THEN Panic
       ELSE /\ IF Len(tabs) > 1 THEN tabs' = RemoveAt(tabs, k) /\ activeTab' = AfterClose(k)
               ELSE UNCHANGED <<tabs, activeTab>>
            /\ UNCHANGED <<panes, nextId, bar, rebuild, view, dual, tabLoads, tabEvents, drops, crashed>>

(* A toggle button: pressed already, it is released and that is all. The others stay as they
   are until the bar is built anew. *)
ClickTab(k) ==
    /\ TabWish("click") /\ BarShown
    /\ IF ~bar[k].on /\ k > Len(tabs) THEN Panic
       ELSE /\ bar' = [bar EXCEPT ![k].on = ~@]
            /\ IF bar[k].on THEN UNCHANGED <<tabs, activeTab, view, dual, tabLoads>>
               ELSE activeTab' = k /\ ShowActiveTab(tabs, k, panes)
            /\ UNCHANGED <<panes, nextId, rebuild, tabEvents, drops, crashed>>

(* One tab dropped on another takes its place. *)
DragTab(from, to) ==
    /\ TabWish("drag") /\ BarShown /\ from # to /\ from <= Len(tabs) /\ to <= Len(tabs)
    /\ tabs' = Moved(from, to) /\ activeTab' = AfterMove(from, to) /\ rebuild' = rebuild + 1
    /\ UNCHANGED <<panes, nextId, bar, view, dual, tabLoads, tabEvents, drops, crashed>>

(* Files dropped on a tab are copied or moved to the folder of its pane. *)
DropFiles(k) ==
    /\ TabWish("drop") /\ BarShown /\ k <= Len(tabs)
    /\ drops' = drops \cup {<<bar[k].tab, tabs[k].id>>}
    /\ UNCHANGED <<tabs, activeTab, panes, nextId, bar, rebuild, view, dual, tabLoads,
                   tabEvents, crashed>>

-------------------------------------------------------------------------------
(* The main loop. *)

Rebuild ==
    /\ ~crashed /\ rebuild > 0 /\ rebuild' = rebuild - 1 /\ bar' = Bar(tabs, activeTab)
    /\ UNCHANGED <<tabs, activeTab, panes, nextId, view, dual, tabLoads, tabEvents, drops,
                   crashed, tabUser>>

List(k) ==
    /\ ~crashed /\ tabLoads' = RemoveAt(tabLoads, k)
    /\ tabEvents' = IF tabLoads[k].path \in TabFailing THEN tabEvents ELSE Append(tabEvents, tabLoads[k])
    /\ UNCHANGED <<tabs, activeTab, panes, nextId, bar, rebuild, view, dual, drops, crashed, tabUser>>

(* DirectoryLoaded: the pane, if there is one, lists the folder; the title is that of the tab
   that is active, whichever the pane is of. *)
TabLoaded ==
    /\ ~crashed /\ tabEvents # << >> /\ tabEvents' = Tail(tabEvents)
    /\ LET pane == Head(tabEvents).pane
           tab == tabs[activeTab] IN
       /\ panes' = IF pane[1] \in Ids(tabs) THEN [panes EXCEPT ![pane[1]][pane[2]] = NewPane(Head(tabEvents).path)]
                   ELSE panes
       /\ tabs' = [tabs EXCEPT ![activeTab].title = Head(tabEvents).path]
       /\ bar' = Bar(tabs, activeTab) /\ dual' = tab.dual
       /\ view' = IF pane[1] = tab.id /\ Shows(tab, pane[2]) THEN [view EXCEPT ![pane[2]] = pane] ELSE view
    /\ UNCHANGED <<activeTab, nextId, rebuild, tabLoads, drops, crashed, tabUser>>

TabsNext ==
    \/ NewTabKey \/ CloseTabKey \/ CycleTab \/ ToggleDual \/ SwitchTabPane \/ OpenInTab \/ ShowRecentInTab
    \/ NewTabButton
    \/ \E k \in DOMAIN bar : ClickClose(k) \/ ClickTab(k) \/ DropFiles(k) \/ \E to \in DOMAIN bar : DragTab(k, to)
    \/ Rebuild \/ TabLoaded
    \/ \E k \in DOMAIN tabLoads : List(k)

TabsSpec == TabsInit /\ [][TabsNext]_tabVars

-------------------------------------------------------------------------------
PaneIds == (0 .. MaxTabs - 1) \X TabSides

(* Types; the tabs are different ones, and the active one is among them. *)
TabsTypeOK ==
    /\ tabs \in Seq([id: 0 .. MaxTabs - 1, title: TabFolders \cup {Recent}, second: BOOLEAN,
                 dual: BOOLEAN, side: TabSides])
    /\ activeTab \in DOMAIN tabs /\ Cardinality(Ids(tabs)) = Len(tabs)
    /\ \A k \in DOMAIN tabs : /\ tabs[k].dual => tabs[k].second
                              /\ tabs[k].side = "right" => tabs[k].dual
    /\ panes \in [0 .. MaxTabs - 1 -> [TabSides -> [path: TabFolders, recent: BOOLEAN]]]
    /\ nextId \in 1..MaxTabs /\ bar \in Seq([tab: 0 .. MaxTabs - 1, on: BOOLEAN]) /\ rebuild \in Nat
    /\ view \in [TabSides -> PaneIds \cup {NoView}] /\ dual \in BOOLEAN
    /\ tabLoads \in Seq([pane: PaneIds, path: TabFolders])
    /\ tabEvents \in Seq([pane: PaneIds, path: TabFolders])
    /\ crashed \in BOOLEAN /\ tabUser \in [does: SUBSET TabWishes, left: Nat]

(* Nothing is under way any more. *)
TabsSettled == tabLoads = << >> /\ tabEvents = << >> /\ rebuild = 0 /\ ~crashed

(* The close buttons change the list of tabs alone. *)
ClosesByKeys == "button_close" \notin tabUser.does

(* Every folder that is gone to can be listed: one that cannot leaves the bar, the views and
   the title as they were. *)
AllList == TabFailing = {} \/ "open" \notin tabUser.does

(* No click on the bar is a click on a tab that is not there, if tabs are closed by the keys. *)
NeverPanics == ClosesByKeys => ~crashed

(* The bar shows the tabs that are open, in their order. *)
BarShowsTabs ==
    ClosesByKeys /\ AllList /\ TabsSettled /\ Len(tabs) > 1 =>
        [k \in DOMAIN bar |-> bar[k].tab] = [k \in DOMAIN tabs |-> tabs[k].id]

(* No other tab than the active one looks pressed: to click it would be to release it, and not
   to get there. (Recent leaves the buttons alone.) *)
PressedIsActive ==
    ClosesByKeys /\ AllList /\ "recent" \notin tabUser.does /\ TabsSettled /\ BarShown =>
        \A k \in DOMAIN bar : bar[k].on => k = activeTab

(* The views show the panes of the tab that the keyboard acts on. *)
ViewsShowActive ==
    ClosesByKeys /\ AllList /\ TabsSettled =>
        LET tab == tabs[activeTab] IN
        /\ view["left"] = <<tab.id, "left">> /\ dual = tab.dual
        /\ dual => view["right"] = <<tab.id, "right">>

(* The only tab there ever was is called after what one of its panes shows. *)
TitleIsOwn ==
    AllList /\ TabsSettled /\ nextId = 1 =>
        \E side \in TabSides :
           LET s == panes[tabs[1].id][side] IN
           /\ side = "left" \/ tabs[1].second
           /\ tabs[1].title = (IF s.recent THEN Recent ELSE s.path)

(* Files dropped on a tab go to the folder of that tab, unless the tabs were put in another
   order and the bar is yet to be built anew. *)
DropsGoWhereShown ==
    ClosesByKeys /\ "drag" \notin tabUser.does => \A d \in drops : d[1] = d[2]

(* A click or a drop on the bar reaches the tab that it is meant for. *)
ButtonsMeanTheirTab == NeverPanics /\ DropsGoWhereShown

(* Putting the tabs in another order keeps the active one active. *)
ReorderKeepsActive ==
    [][Ids(tabs') = Ids(tabs) /\ (\E k \in DOMAIN tabs : tabs'[k].id # tabs[k].id)
          => tabs'[activeTab'].id = tabs[activeTab].id]_tabVars

(* The window shows the tabs there are and the one the keyboard acts on, whichever way they
   were opened, closed and ordered. *)
TabsAreShown ==
    /\ TabsTypeOK /\ BarShowsTabs /\ PressedIsActive /\ ViewsShowActive /\ TitleIsOwn
    /\ ButtonsMeanTheirTab
WindowShowsTabs == []TabsAreShown /\ ReorderKeepsActive

===============================================================================
