------------------------------- MODULE Desktop -------------------------------
(***************************************************************************)
(* Raven on the session bus: org.freedesktop.FileManager1 ("show in      *)
(* folder") and the program's own interface, as served by its processes, *)
(* each of which is one window.                                          *)
(*                                                                       *)
(* A process asks for both names when it starts and waits in the bus's   *)
(* queues behind older ones.  A method call becomes a command of the     *)
(* owner, whose loop takes commands in order; listings are tasks, and    *)
(* tell the D-Bus service (its state under a lock, the signal after      *)
(* that) before they tell the window.  Windows have tabs of one pane     *)
(* each, numbered as they are opened; both interfaces name pane 0.       *)
(***************************************************************************)
EXTENDS Naturals, Sequences, SequencesExt, FiniteSets

CONSTANTS
    Processes,    \* launches of the program
    Folders,      \* folders
    Start,        \* the folder a pane starts on
    Unlistable,   \* folders that cannot be listed
    Root,         \* the root, which no folder contains
    MaxPending,   \* MAX_PENDING_SIGNALS
    Desktops,     \* scenes: launches, calls, and what the user does
    Nowhere       \* no folder, no decoded path

Names == {"FileManager1", "Raven1"}
DesktopPaths == Folders \cup {Root}

(* A URI names a path and the folder it is in, or neither. *)
Uris == {u \in [folder : DesktopPaths \cup {Nowhere}, item : DesktopPaths \cup {Nowhere}] :
            u.item = Nowhere => u.folder = Nowhere}
DesktopDoes == {"close", "show", "navigate", "tab", "untab"}

ASSUME DesktopAssumption ==
    /\ MaxPending \in Nat \ {0} /\ Start \in Folders /\ Nowhere \notin DesktopPaths
    /\ Desktops \subseteq
          [launches : Nat, does : SUBSET DesktopDoes, left : Nat, refused : SUBSET Names,
           targets : SUBSET [kind : {"Navigate", "Reveal"}, path : DesktopPaths \cup {Nowhere}],
           uris : SUBSET Seq(Uris)]

VARIABLES
    owners,    \* owners[n]: the processes that asked for name n, the owner first
    proc,      \* proc[p]: how far it has started
    tab,       \* tab[p]: the panes of its tabs, the active one, the number of the next
    shows,     \* shows[p][i]: the folder pane i lists
    inbox,     \* inbox[p]: the command channel
    listing,   \* listing[p]: its listing tasks
    news,      \* news[p]: events for the window
    service,   \* service[p]: DbusState, whether it is connected, and the last signal it sent
    reveal,    \* requests to show something that wait for a listing (history)
    overlaps,  \* listings have been under way together (history)
    desktop    \* the scene: refused, the names this desktop lets nobody have; left, how often
               \* a client calls or a user acts; launches; does, what they do

desktopVars == <<owners, proc, tab, shows, inbox, listing, news, service, reveal, overlaps, desktop>>

Served == [path |-> Root, connected |-> FALSE, pending |-> <<>>, sent |-> Nowhere]

DesktopInit ==
    /\ owners = [n \in Names |-> <<>>]
    /\ proc = [p \in Processes |-> "off"]
    /\ tab = [p \in Processes |-> [panes |-> <<0>>, active |-> 1, next |-> 1]]
    /\ shows = [p \in Processes |-> [i \in {0} |-> Start]]
    /\ inbox = [p \in Processes |-> <<>>] /\ listing = [p \in Processes |-> <<>>]
    /\ news = [p \in Processes |-> <<>>] /\ service = [p \in Processes |-> Served]
    /\ reveal = {} /\ overlaps = FALSE /\ desktop \in Desktops

Command(kind, pane, path) == [kind |-> kind, pane |-> pane, path |-> path]
Send(p, c) == inbox' = [inbox EXCEPT ![p] = Append(@, c)]
ActivePaneOf(p) == tab[p].panes[tab[p].active]
Spend == desktop.left > 0 /\ desktop' = [desktop EXCEPT !.left = @ - 1]

-------------------------------------------------------------------------------
(* Launching. *)

(* activate or open: the window is made, its event loop started, and the first command sent
   before the backend has started. A file is revealed, a folder opened; what has no local path
   is as if nothing was named. *)
Launch(p) ==
    /\ proc[p] = "off" /\ Cardinality({q \in Processes : proc[q] # "off"}) < desktop.launches
    /\ proc' = [proc EXCEPT ![p] = "raven"]
    /\ \E target \in desktop.targets :
          Send(p, IF target.path = Nowhere THEN Command("Navigate", 0, Start)
                  ELSE Command(target.kind, ActivePaneOf(p), target.path))
    /\ UNCHANGED <<owners, tab, shows, listing, news, service, reveal, overlaps, desktop>>

(* Mutant of Queue: each window takes the name over. *)
TakeOver(p, n) == owners' = [owners EXCEPT ![n] = <<p>> \o @]

(* request_name without flags: wait behind the owner. *)
Queue(p, n) == owners' = [owners EXCEPT ![n] = Append(@, p)]

(* DbusService.serve; without the bus, the program goes on. *)
ServeRaven(p) ==
    /\ proc[p] = "raven" /\ proc' = [proc EXCEPT ![p] = "fm1"]
    /\ IF "Raven1" \in desktop.refused THEN UNCHANGED <<owners, service>>
       ELSE Queue(p, "Raven1") /\ service' = [service EXCEPT ![p].connected = TRUE]
    /\ UNCHANGED <<tab, shows, inbox, listing, news, reveal, overlaps, desktop>>

ServeFileManager1(p) ==
    /\ proc[p] = "fm1" /\ proc' = [proc EXCEPT ![p] = "on"]
    /\ IF "FileManager1" \in desktop.refused THEN UNCHANGED owners ELSE Queue(p, "FileManager1")
    /\ UNCHANGED <<tab, shows, inbox, listing, news, service, reveal, overlaps, desktop>>

Leave(queue, p) ==
    IF \E i \in DOMAIN queue : queue[i] = p
    THEN RemoveAt(queue, CHOOSE i \in DOMAIN queue : queue[i] = p) ELSE queue

(* The process ends; the bus hands its names to the next in line. *)
Close(p) ==
    /\ proc[p] = "on" /\ "close" \in desktop.does /\ Spend
    /\ proc' = [proc EXCEPT ![p] = "gone"]
    /\ owners' = [n \in Names |-> Leave(owners[n], p)]
    /\ inbox' = [inbox EXCEPT ![p] = <<>>] /\ listing' = [listing EXCEPT ![p] = <<>>]
    /\ news' = [news EXCEPT ![p] = <<>>]
    /\ reveal' = {r \in reveal : r.process # p}
    /\ UNCHANGED <<tab, shows, service, overlaps>>

-------------------------------------------------------------------------------
(* Method calls. *)

Owner(n) == Head(owners[n])
HasOwner(n) == owners[n] # <<>>

(* file_uri_to_path: another scheme, another host or a bad escape names no local path. *)
NamesPath(uri) == uri.folder # Nowhere \/ uri.item # Nowhere

(* request_to_commands, for URIs <<[folder, item]>>: those that name no local path are left
   out; the first decides. The root is in no folder. *)
RequestToCommand(method, uris) ==
    LET named == {i \in DOMAIN uris : NamesPath(uris[i])}
        first == uris[CHOOSE i \in named : \A j \in named : i <= j] IN
    IF named = {} THEN <<>>
    ELSE IF method = "Folders" THEN <<Command("Navigate", 0, first.item)>>
    ELSE IF first.folder = Nowhere THEN <<>>
    ELSE <<Command("Reveal", 0, first.folder)>>

(* ShowFolders, ShowItems, ShowItemProperties. *)
CallFileManager1 ==
    /\ "show" \in desktop.does /\ HasOwner("FileManager1") /\ Spend
    /\ \E method \in {"Folders", "Items"}, uris \in desktop.uris :
          LET p == Owner("FileManager1")
              c == RequestToCommand(method, uris) IN
          /\ inbox' = [inbox EXCEPT ![p] = @ \o c]
          /\ reveal' = reveal \cup {[process |-> p, folder |-> c[i].path] : i \in DOMAIN c}
    /\ UNCHANGED <<owners, proc, tab, shows, listing, news, service, overlaps>>

(* validate_method and method_to_command: a relative path is refused. *)
MethodToCommand(folder) ==
    IF folder = Nowhere THEN <<>> ELSE <<Command("Navigate", 0, folder)>>

(* Navigate of the program's interface. (The other methods send commands that change no pane,
   or only read the state.) *)
CallRaven1 ==
    /\ "navigate" \in desktop.does /\ HasOwner("Raven1") /\ Spend
    /\ \E folder \in Folders \cup {Nowhere} :
          inbox' = [inbox EXCEPT ![Owner("Raven1")] = @ \o MethodToCommand(folder)]
    /\ UNCHANGED <<owners, proc, tab, shows, listing, news, service, reveal, overlaps>>

-------------------------------------------------------------------------------
(* The backend of a window. *)

(* RevealItems announces the selection and comes back as a Navigate. *)
TakeCommand(p) ==
    /\ proc[p] = "on" /\ inbox[p] # <<>>
    /\ LET c == Head(inbox[p]) IN
       IF c.kind = "Reveal"
       THEN /\ inbox' = [inbox EXCEPT ![p] = Append(Tail(@), Command("Navigate", c.pane, c.path))]
            /\ news' = [news EXCEPT ![p] = Append(@, Command("SelectItems", c.pane, c.path))]
            /\ UNCHANGED <<listing, overlaps>>
       ELSE /\ inbox' = [inbox EXCEPT ![p] = Tail(@)]
            /\ listing' = [listing EXCEPT ![p] =
                              Append(@, [pane |-> c.pane, path |-> c.path, pc |-> "list"])]
            /\ overlaps' = (overlaps \/ listing[p] # <<>>)
            /\ UNCHANGED news
    /\ UNCHANGED <<owners, proc, tab, shows, service, reveal, desktop>>

(* Mutant of HandleEvent: the signal is queued for want of a lock. *)
HandleEventUnsent(s, path) == [s EXCEPT !.path = path]

(* handle_event, under its lock: the path, and the signal if there is no connection to send it
   on; the oldest makes room. *)
HandleEvent(s, path) ==
    IF s.connected THEN [s EXCEPT !.path = path]
    ELSE [s EXCEPT !.path = path,
                   !.pending = Append(IF Len(@) >= MaxPending THEN Tail(@) ELSE @, path)]

ListDir(p, k) ==
    /\ listing[p][k].pc = "list"
    /\ IF listing[p][k].path \in Unlistable
       THEN /\ listing' = [listing EXCEPT ![p] = RemoveAt(@, k)]
            /\ reveal' = {r \in reveal : r.process # p \/ r.folder # listing[p][k].path}
            /\ UNCHANGED service
       ELSE /\ listing' = [listing EXCEPT ![p][k].pc = "signal"]
            /\ service' = [service EXCEPT ![p] = HandleEvent(@, listing[p][k].path)]
            /\ UNCHANGED reveal
    /\ UNCHANGED <<owners, proc, tab, shows, inbox, news, overlaps, desktop>>

(* emit_signal, outside the lock; then the window is told. *)
EmitSignal(p, k) ==
    /\ listing[p][k].pc = "signal"
    /\ service' = IF service[p].connected THEN [service EXCEPT ![p].sent = listing[p][k].path]
                  ELSE service
    /\ news' = [news EXCEPT ![p] =
                   Append(@, Command("DirectoryLoaded", listing[p][k].pane, listing[p][k].path))]
    /\ listing' = [listing EXCEPT ![p] = RemoveAt(@, k)]
    /\ UNCHANGED <<owners, proc, tab, shows, inbox, reveal, overlaps, desktop>>

-------------------------------------------------------------------------------
(* The window. *)

HasPane(p, i) == \E k \in DOMAIN tab[p].panes : tab[p].panes[k] = i

(* A listing for a pane that was closed is shown nowhere. *)
WindowEvent(p) ==
    /\ news[p] # <<>> /\ news' = [news EXCEPT ![p] = Tail(@)]
    /\ LET e == Head(news[p]) IN
       /\ shows' = IF e.kind = "DirectoryLoaded" /\ HasPane(p, e.pane)
                   THEN [shows EXCEPT ![p][e.pane] = e.path] ELSE shows
       /\ reveal' = IF e.kind = "DirectoryLoaded"
                    THEN {r \in reveal : r.process # p \/ r.folder # e.path} ELSE reveal
    /\ UNCHANGED <<owners, proc, tab, inbox, listing, service, overlaps, desktop>>

UserAct(p, what) == proc[p] = "on" /\ what \in desktop.does /\ Spend

OpenTab(p) ==
    /\ UserAct(p, "tab") /\ Len(tab[p].panes) < 2
    /\ LET i == tab[p].next
           folder == shows[p][ActivePaneOf(p)] IN
       /\ tab' = [tab EXCEPT ![p] = [panes |-> Append(@.panes, i), active |-> Len(@.panes) + 1,
                                     next |-> i + 1]]
       /\ shows' = [shows EXCEPT ![p] = [j \in DOMAIN @ \cup {i} |-> IF j = i THEN folder ELSE @[j]]]
       /\ Send(p, Command("Navigate", i, folder))
    /\ UNCHANGED <<owners, proc, listing, news, service, reveal, overlaps>>

CloseTab(p) ==
    /\ UserAct(p, "untab") /\ Len(tab[p].panes) > 1
    /\ \E k \in DOMAIN tab[p].panes :
          /\ tab' = [tab EXCEPT ![p].panes = RemoveAt(@, k), ![p].active = 1]
          /\ Send(p, Command("Navigate", RemoveAt(tab[p].panes, k)[1],
                             shows[p][RemoveAt(tab[p].panes, k)[1]]))
    /\ UNCHANGED <<owners, proc, shows, listing, news, service, reveal, overlaps>>

Backend(p) ==
    \/ ServeRaven(p) \/ ServeFileManager1(p) \/ TakeCommand(p) \/ WindowEvent(p)
    \/ \E k \in DOMAIN listing[p] : ListDir(p, k) \/ EmitSignal(p, k)

DesktopNext ==
    \/ CallFileManager1 \/ CallRaven1
    \/ \E p \in Processes : Launch(p) \/ Close(p) \/ OpenTab(p) \/ CloseTab(p) \/ Backend(p)

(* The threads of a running process go on. *)
DesktopFairness == \A p \in Processes : WF_desktopVars(Backend(p))

DesktopSpec == DesktopInit /\ [][DesktopNext]_desktopVars /\ DesktopFairness

-------------------------------------------------------------------------------
DesktopTypeOK ==
    /\ \A p \in Processes :
          /\ proc[p] \in {"off", "raven", "fm1", "on", "gone"}
          /\ service[p].path \in DesktopPaths /\ Len(service[p].pending) <= MaxPending
          /\ tab[p].active \in DOMAIN tab[p].panes
    /\ \A n \in Names : owners[n] \in Seq(Processes)

(* Tabs are closed only where no listing of a closed pane can be asked for: FileManager1,
   Navigate and the revealing at a launch ask for pane 0 whatever panes there are. *)
ClosesSafely ==
    "untab" \in desktop.does =>
        /\ desktop.does \cap {"show", "navigate"} = {} /\ Start \notin Unlistable
        /\ \A t \in desktop.targets : t.kind = "Navigate"

AtRest(p) == inbox[p] = <<>> /\ listing[p] = <<>> /\ news[p] = <<>>

(* fm1.rs:151 "the first process owns it and the others wait": a name is held by the
   longest-running of the windows that asked for it, however they start and close, and by none
   that is gone. When no two listings of a window ran together, its tabs close safely and it is
   at rest, what GetCurrentPath answers, what the last DirectoryChanged said (or was to say)
   and what an open pane shows are the same. *)
BusFollowsWindow ==
    /\ DesktopTypeOK
    /\ \A n \in Names : IsInjective(owners[n]) /\ \A i \in DOMAIN owners[n] : proc[owners[n][i]] # "gone"
    /\ \A p \in Processes :
          (proc[p] = "on" /\ AtRest(p) /\ ~overlaps /\ ClosesSafely /\ service[p].path # Root) =>
              /\ service[p].path \in {shows[p][i] : i \in ToSet(tab[p].panes)}
              /\ IF service[p].connected THEN service[p].sent = service[p].path
                 ELSE service[p].pending # <<>> /\ Last(service[p].pending) = service[p].path

(* An owner stays until it closes. *)
OwnersStay ==
    [][\A n \in Names : (owners[n] # <<>> /\ owners'[n] # <<>> /\ Owner(n) # Owner(n)') =>
          proc'[Owner(n)] = "gone"]_desktopVars

(* fm1.rs:34 "Open the containing directory": what a program asks to be shown is listed before
   long in the window that was asked, unless that cannot be listed or the window closes. *)
RequestsAreListed ==
    \A p \in Processes : (\E r \in reveal : r.process = p) ~> (\A r \in reveal : r.process # p)

(* A window that has a name keeps it, and does what it is asked by it. *)
WindowsServe == OwnersStay /\ RequestsAreListed
===============================================================================
