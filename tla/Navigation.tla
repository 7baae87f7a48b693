----------------------------- MODULE Navigation -----------------------------
(***************************************************************************)
(* Browsing: the panes of a window, what they list, and the way there.   *)
(*                                                                       *)
(* The window changes a pane and sends commands; the backend takes these *)
(* in order and spawns a task for each listing; a task that is done      *)
(* sends an event; the window handles the events in the order they were  *)
(* sent. Tasks finish in any order.  An item to reveal is named by its   *)
(* folder, and there is one tag to filter by.                            *)
(***************************************************************************)
EXTENDS Naturals, Sequences, SequencesExt

CONSTANTS
    Panes,       \* the panes of the window
    Folders,     \* folders to browse
    Home,        \* the folder a pane starts in
    Trash,       \* the trash directory, maybe among Folders
    Missing,     \* folders that do not hold the item to reveal in them
    Failing,     \* folders that cannot be listed
    Users,       \* who may browse
    Nothing,     \* no folder
    Recents      \* what the Recent view lists

AskNames == {"open", "go", "back", "forward", "recent", "reload", "locate",
             "reveal", "tag", "switch", "delete"}

ASSUME NavigationAssumption ==
    /\ Home \in Folders \ Failing /\ {Nothing, Recents} \cap Folders = {}
    /\ Users \subseteq [panes : (SUBSET Panes) \ {{}}, does : SUBSET AskNames,
                       visits : SUBSET Folders, loads : Nat, left : Nat]

VARIABLES
    pane,       \* pane[p]: PaneState
    active,     \* the pane that the sidebar and the keyboard act on
    commands,   \* to the backend
    loads,      \* listings under way
    events,     \* to the window
    recentGen,  \* PaneViews.recent_generation
    highlight,  \* SideBar.active_tag: the tag is shown as active
    asked,      \* asked[p]: what the user, or another program, last asked to see in p
    deleted,    \* where files were from that the Delete key deleted for good
    user        \* who browses: panes, those in use; does, the requests made; visits, the
                \* folders asked for; loads, how many listings are under way at once; left,
                \* how many requests are left

navVars == <<pane, active, commands, loads, events, recentGen, highlight, asked, deleted, user>>

Init ==
    /\ pane = [p \in Panes |-> [path |-> Home, back |-> << >>, forward |-> << >>, recent |-> FALSE,
                                listing |-> Home, tag |-> Nothing, pending |-> Nothing]]
    /\ user \in Users /\ active \in user.panes
    /\ commands = << >> /\ loads = << >> /\ events = << >>
    /\ recentGen = 0 /\ highlight = FALSE
    /\ asked = [p \in Panes |-> Home] /\ deleted = {}

Cmd(kind, p, path) == [kind |-> kind, pane |-> p, path |-> path]
Send(c) == commands' = Append(commands, c)

Ask(p, name) ==
    p \in user.panes /\ name \in user.does /\ user.left > 0 /\ user' = [user EXCEPT !.left = @ - 1]

-------------------------------------------------------------------------------
(* PaneState *)

NavigatedTo(s, path) ==
    [s EXCEPT !.recent = FALSE, !.back = Append(@, s.path), !.forward = << >>,
              !.path = path, !.pending = Nothing]

(* Recent is not a history entry: back from it is the folder behind it. *)
Back(s) ==
    IF s.recent THEN [s EXCEPT !.recent = FALSE]
    ELSE IF s.back = << >> THEN s
    ELSE [s EXCEPT !.back = Front(@), !.forward = Append(@, s.path),
                   !.path = Last(s.back), !.pending = Nothing]

Forward(s) ==
    IF s.forward = << >> THEN s
    ELSE [s EXCEPT !.recent = FALSE, !.back = Append(@, s.path), !.forward = Front(@),
                   !.path = Last(s.forward), !.pending = Nothing]

(* The files come once they have been checked; until then there are none. *)
ShowingRecent(s) ==
    [s EXCEPT !.recent = TRUE, !.listing = Nothing, !.tag = Nothing, !.pending = Nothing]

(* Mutant of Loaded: the Recent view is kept. *)
LoadedUnseen(s, path) == [s EXCEPT !.path = path, !.listing = path, !.tag = Nothing]

(* Mutant of Loaded: the pane's folder is what it was asked for by hand. *)
LoadedElsewhere(s, path) == [s EXCEPT !.listing = path, !.tag = Nothing, !.recent = FALSE]

(* A new listing arrives unfiltered, and ends the Recent view. *)
Loaded(s, path) ==
    [s EXCEPT !.path = path, !.listing = path, !.tag = Nothing, !.recent = FALSE]

(* apply_pending_selection: once the listing holds the item, unless the tag hides it: the item
   does not have it. *)
Revealed(s) ==
    IF ~s.recent /\ s.listing = s.pending /\ s.pending \notin Missing /\ s.tag = Nothing
    THEN [s EXCEPT !.pending = Nothing]
    ELSE s

-------------------------------------------------------------------------------
(* The user, by way of the window. *)

(* Open a folder: a row, the home key, the parent, a new remote location. *)
OpenFolder(p) ==
    /\ Ask(p, "open")
    /\ \E path \in user.visits :
          /\ pane' = [pane EXCEPT ![p] = NavigatedTo(@, path)]
          /\ asked' = [asked EXCEPT ![p] = path]
          /\ Send(Cmd("navigate", p, path))
    /\ UNCHANGED <<active, loads, events, recentGen, highlight, deleted>>

(* The path bar, the sidebar's bookmarks, devices and trash, another program: the folder is
   sent for, and the pane waits for it. *)
GoTo(p) ==
    /\ Ask(p, "go")
    /\ \E path \in user.visits :
          /\ asked' = [asked EXCEPT ![p] = path]
          /\ Send(Cmd("navigate", p, path))
    /\ UNCHANGED <<pane, active, loads, events, recentGen, highlight, deleted>>

GoBack(p) ==
    /\ Ask(p, "back") /\ (pane[p].recent \/ pane[p].back # << >>)
    /\ pane' = [pane EXCEPT ![p] = Back(@)]
    /\ asked' = [asked EXCEPT ![p] = pane'[p].path]
    /\ Send(Cmd("navigate", p, pane'[p].path))
    /\ UNCHANGED <<active, loads, events, recentGen, highlight, deleted>>

GoForward(p) ==
    /\ Ask(p, "forward") /\ pane[p].forward # << >>
    /\ pane' = [pane EXCEPT ![p] = Forward(@)]
    /\ asked' = [asked EXCEPT ![p] = pane'[p].path]
    /\ Send(Cmd("navigate", p, pane'[p].path))
    /\ UNCHANGED <<active, loads, events, recentGen, highlight, deleted>>

(* Up from Recent is the folder behind it; a parent is opened as a folder. *)
UpFromRecent(p) ==
    /\ Ask(p, "back") /\ pane[p].recent
    /\ pane' = [pane EXCEPT ![p].recent = FALSE]
    /\ asked' = [asked EXCEPT ![p] = pane[p].path]
    /\ Send(Cmd("navigate", p, pane[p].path))
    /\ UNCHANGED <<active, loads, events, recentGen, highlight, deleted>>

LoadRecent(p) ==
    /\ Len(loads) < user.loads
    /\ recentGen' = recentGen + 1
    /\ loads' = Append(loads, [kind |-> "recent", pane |-> p, gen |-> recentGen + 1])

(* show_recent, by the sidebar. *)
ShowRecent(p) ==
    /\ Ask(p, "recent") /\ active = p
    /\ pane' = [pane EXCEPT ![p] = IF @.recent THEN @ ELSE ShowingRecent(@)]
    /\ asked' = [asked EXCEPT ![p] = Recents]
    /\ highlight' = FALSE
    /\ LoadRecent(p)
    /\ UNCHANGED <<active, commands, events, deleted>>

(* reload: by key, or because an operation is over. *)
Reload(p) ==
    /\ Ask(p, "reload")
    /\ IF pane[p].recent THEN LoadRecent(p) /\ UNCHANGED commands
       ELSE Send(Cmd("navigate", p, pane[p].path)) /\ UNCHANGED <<loads, recentGen>>
    /\ UNCHANGED <<pane, active, events, highlight, asked, deleted>>

(* open_containing_folder, of a selected recent file: what is to be revealed waits in the pane
   from the start. *)
OpenContainingFolder(p) ==
    /\ Ask(p, "locate") /\ active = p /\ pane[p].listing = Recents
    /\ \E path \in user.visits :
          /\ pane' = [pane EXCEPT ![p] = [NavigatedTo(@, path) EXCEPT !.pending = path]]
          /\ asked' = [asked EXCEPT ![p] = path]
          /\ Send(Cmd("navigate", p, path))
    /\ UNCHANGED <<active, loads, events, recentGen, highlight, deleted>>

(* Another program reveals an item: org.freedesktop.FileManager1. *)
Reveal(p) ==
    /\ Ask(p, "reveal")
    /\ \E path \in user.visits :
          /\ asked' = [asked EXCEPT ![p] = path]
          /\ Send(Cmd("reveal", p, path))
    /\ UNCHANGED <<pane, active, loads, events, recentGen, highlight, deleted>>

(* A click on the tag: it is highlighted now, and applied when listed. A second click takes it
   off again, through the backend as well. *)
ClickTag(p) ==
    /\ Ask(p, "tag") /\ active = p
    /\ highlight' = ~highlight
    /\ Send([kind |-> "tag", pane |-> p, path |-> pane[p].path, on |-> ~highlight])
    /\ UNCHANGED <<pane, active, loads, events, recentGen, asked, deleted>>

SwitchPane(p) ==
    /\ Ask(p, "switch") /\ active # p
    /\ active' = p
    /\ UNCHANGED <<pane, commands, loads, events, recentGen, highlight, asked, deleted>>

(* The Delete key on a selected row of the active pane's listing, which is of its folder if not
   of files from anywhere. *)
PressDelete(p) ==
    /\ Ask(p, "delete") /\ active = p /\ pane[p].listing # Nothing
    /\ deleted' = IF pane[p].path = Trash THEN deleted \cup {pane[p].listing} ELSE deleted
    /\ UNCHANGED <<pane, active, commands, loads, events, recentGen, highlight, asked>>

-------------------------------------------------------------------------------
(* The backend. *)

Filtered(s, e) == IF s.path = e.path THEN [s EXCEPT !.tag = IF e.on THEN e.path ELSE Nothing] ELSE s

StartLoad(c) ==
    /\ Len(loads) < user.loads
    /\ loads' = Append(loads, c)
    /\ commands' = Tail(commands) /\ UNCHANGED events

Navigate(c) == c.kind = "navigate" /\ StartLoad(c)

(* To take the filter off needs no listing. *)
FilterByTag(c) ==
    /\ c.kind = "tag"
    /\ \/ c.on /\ StartLoad(c)
       \/ ~c.on /\ events' = Append(events, c) /\ commands' = Tail(commands) /\ UNCHANGED loads

(* A selection to make, and then a navigation, behind what was sent since. *)
RevealItems(c) ==
    /\ c.kind = "reveal"
    /\ events' = Append(events, c)
    /\ commands' = Append(Tail(commands), Cmd("navigate", c.pane, c.path))
    /\ UNCHANGED loads

Receive ==
    /\ commands # << >>
    /\ LET c == Head(commands) IN Navigate(c) \/ FilterByTag(c) \/ RevealItems(c)
    /\ UNCHANGED <<pane, active, recentGen, highlight, asked, deleted, user>>

(* A listing is done: an event, but a failed tag listing only tells so, as does a failed
   navigation. *)
Finish(i) ==
    /\ loads[i].kind # "recent"
    /\ loads' = RemoveAt(loads, i)
    /\ events' = IF loads[i].path \in Failing THEN events ELSE Append(events, loads[i])
    /\ UNCHANGED <<pane, active, commands, recentGen, highlight, asked, deleted, user>>

(* The recent files are checked: they come to the window's own future. Only the latest of all
   is taken, and only if its pane still shows it. *)
FinishRecent(i) ==
    /\ loads[i].kind = "recent"
    /\ loads' = RemoveAt(loads, i)
    /\ LET p == loads[i].pane IN
       pane' = IF loads[i].gen = recentGen /\ pane[p].recent
               THEN [pane EXCEPT ![p].listing = Recents] ELSE pane
    /\ UNCHANGED <<active, commands, events, recentGen, highlight, asked, deleted, user>>

-------------------------------------------------------------------------------
(* handle_event *)

DirectoryLoaded(e) ==
    /\ e.kind = "navigate"
    /\ pane' = [pane EXCEPT ![e.pane] = Revealed(Loaded(@, e.path))]
    /\ highlight' = FALSE

SelectItems(e) ==
    /\ e.kind = "reveal"
    /\ pane' = [pane EXCEPT ![e.pane] = Revealed([@ EXCEPT !.pending = e.path])]
    /\ UNCHANGED highlight

TagFilterApplied(e) ==
    /\ e.kind = "tag"
    /\ pane' = [pane EXCEPT ![e.pane] = Filtered(@, e)]
    /\ UNCHANGED highlight

HandleEvent ==
    /\ events # << >>
    /\ events' = Tail(events)
    /\ LET e == Head(events) IN DirectoryLoaded(e) \/ SelectItems(e) \/ TagFilterApplied(e)
    /\ UNCHANGED <<active, commands, loads, recentGen, asked, deleted, user>>

User(p) ==
    \/ OpenFolder(p) \/ GoTo(p) \/ GoBack(p) \/ GoForward(p) \/ UpFromRecent(p) \/ ShowRecent(p)
    \/ Reload(p) \/ OpenContainingFolder(p) \/ Reveal(p) \/ ClickTag(p) \/ SwitchPane(p) \/ PressDelete(p)

Next ==
    \/ \E p \in Panes : User(p)
    \/ Receive \/ HandleEvent
    \/ \E i \in DOMAIN loads : Finish(i) \/ FinishRecent(i)

Spec == Init /\ [][Next]_navVars

-------------------------------------------------------------------------------
TypeOK ==
    /\ \A p \in Panes :
          /\ pane[p].path \in Folders /\ pane[p].listing \in Folders \cup {Nothing, Recents}
          /\ pane[p].tag \in Folders \cup {Nothing} /\ pane[p].pending \in Folders \cup {Nothing}
          /\ pane[p].back \in Seq(Folders) /\ pane[p].forward \in Seq(Folders)
          /\ asked[p] \in Folders \cup {Recents}
    /\ active \in Panes /\ Len(loads) <= user.loads

(* Nothing is under way any more. *)
Settled == commands = << >> /\ loads = << >> /\ events = << >>

OnePane == \E p \in Panes : user.panes = {p}

(* Where a pane is, as paste, new folder and the Delete key take it, is what it lists once all
   is settled, whichever listings came late; but for a folder that cannot be listed. *)
SettledListsItsPath ==
    Settled => \A p \in Panes :
        pane[p].recent \/ pane[p].path \in Failing \/ pane[p].listing = pane[p].path

(* window.rs:2131: a tag filter describes the folder on screen, never one that the pane has
   left while its tagged files were looked up; of a user who clicks no tag while recent files,
   of any folder, are on screen. *)
SettledTagIsOfListing ==
    Settled /\ "recent" \notin user.does => \A p \in Panes : pane[p].tag \in {Nothing, pane[p].listing}

(* window.rs:1689 "so the UI does not show a query or tag that is no longer applied": the tag
   highlighted in the sidebar narrows the active pane, where every folder can be listed and
   there is one pane. *)
HighlightedTagIsApplied ==
    Settled /\ highlight /\ user.visits \cap Failing = {} /\ OnePane =>
        pane[active].tag # Nothing

(* What another program asked to reveal is selected at last, if it is there and the user did
   not go elsewhere by hand. *)
RevealsAreApplied ==
    Settled => \A p \in Panes : pane[p].pending \in {Nothing} \cup Missing \cup Failing

(* Once all is settled a pane shows the folder it was last asked for, if the listings are done
   in the order they were asked for, and what is shown is not asked for again meanwhile, by a
   reload or behind a reveal. *)
AskedIsShown ==
    Settled /\ user.loads = 1 /\ user.does \cap {"reload", "reveal"} = {} =>
        \A p \in Panes :
           asked[p] \in Failing \cup {Recents} \/ (~pane[p].recent /\ pane[p].path = asked[p])

(* pane_view.rs:471 "the listing fills in when that is done": the Recent view of the one pane
   that shows it does not stay empty. *)
RecentFillsIn ==
    Settled /\ OnePane => \A p \in Panes : pane[p].recent => pane[p].listing = Recents

(* What a pane takes itself to list is what it lists, and a tag that is shown is one that is
   applied, to what is shown. *)
PanesListWhatTheySay ==
    /\ TypeOK /\ SettledListsItsPath /\ RecentFillsIn
    /\ SettledTagIsOfListing /\ HighlightedTagIsApplied

(* What the user, or another program, asked to see is what is seen at last. *)
RequestsAreMet == AskedIsShown /\ RevealsAreApplied

(* window.rs:491 "move to Trash, or permanently delete if already in Trash": by the Delete key
   only trashed files are deleted for good. *)
DeletesOnlyTrashed == deleted \subseteq {Trash}
===============================================================================
