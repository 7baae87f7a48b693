---------------------------- MODULE RemoteSessions ----------------------------
(***************************************************************************)
(* SFTP: the router's open connections and their sessions, the tasks     *)
(* that connect, disconnect, list and make folders, and what the window  *)
(* makes of their answers: the dialog "Connect to Server", the rows of   *)
(* the sidebar, and the panes that are on a server.                      *)
(*                                                                       *)
(* A session is under a lock while a request of it is on the wire.  The  *)
(* map of the connections has a lock too, which a disconnect keeps until *)
(* the session is closed.  Servers refuse, fail and take their time;     *)
(* they answer.                                                          *)
(***************************************************************************)
EXTENDS Naturals, Sequences

CONSTANTS
    Logins,       \* "user@host:port", as the router keys connections
    Panes,
    Remotes,      \* tasks
    MaxSessions,  \* logins that succeed (bound)
    MaxRequests,  \* commands altogether (bound)
    Home,         \* the folder for panes with nowhere to go
    None          \* no session, no task

ASSUME RemoteAssumption ==
    /\ Home \notin Logins /\ MaxSessions \in Nat
    /\ None \notin Nat /\ None \notin Remotes /\ None \notin Panes

VARIABLES
    connections,  \* sftp_connections: the session of each key, or None
    mapHolder,    \* the task that has them locked
    sessions,     \* sessions[n]: whether it was made, not closed yet, and who has it locked
    remote,       \* remote[t]: call, key, pane, session and progress of a task
    answers,      \* events on their way to the window
    dialog,       \* the connect dialog: open, busy, and whether it shows an error
    rows,         \* keys of the sidebar's rows
    shown,        \* shown[p]: the server pane p is on, or Home
    requests,     \* commands so far
    crossed       \* a disconnect was under way with another call on its server (history)

remoteVars == <<connections, mapHolder, sessions, remote, answers, dialog, rows, shown, requests,
                crossed>>

Resting == [call |-> "none", key |-> Home, pane |-> None, session |-> None, pc |-> "idle"]
NoConnectDialog == [open |-> FALSE, busy |-> FALSE, error |-> FALSE]

RemoteInit ==
    /\ connections = [k \in Logins |-> None] /\ mapHolder = None
    /\ sessions = [n \in 1..MaxSessions |-> [made |-> FALSE, open |-> FALSE, holder |-> None]]
    /\ remote = [t \in Remotes |-> Resting] /\ answers = << >> /\ dialog = NoConnectDialog
    /\ rows = {} /\ shown = [p \in Panes |-> Home] /\ requests = 0 /\ crossed = FALSE

On(t, call, pc) == remote[t].call = call /\ remote[t].pc = pc
Step(t, pc) == remote' = [remote EXCEPT ![t].pc = pc]
End(t) == remote' = [remote EXCEPT ![t] = Resting]
Tell(kind, t) ==
    answers' = Append(answers, [kind |-> kind, key |-> remote[t].key, pane |-> remote[t].pane])
Pending == {[call |-> remote[t].call, key |-> remote[t].key] : t \in Remotes}
           \cup {[call |-> answers[i].kind, key |-> answers[i].key] : i \in DOMAIN answers}
Disconnects == {"disconnect", "disconnected"}
Crosses(call, key) ==
    \E c \in Pending : c.key = key /\ (c.call \in Disconnects) # (call \in Disconnects)

(* One task of many that rest, it does not matter which. *)
Spawn(call, key, pane) ==
    /\ requests < MaxRequests /\ requests' = requests + 1
    /\ LET resting == {t \in Remotes : remote[t] = Resting}
       IN  /\ resting # {}
           /\ remote' = [remote EXCEPT ![CHOOSE t \in resting : TRUE] =
                           [Resting EXCEPT !.call = call, !.key = key, !.pane = pane, !.pc = "begun"]]
    /\ crossed' = (crossed \/ Crosses(call, key))

-------------------------------------------------------------------------------
(* The window. *)

OpenConnectDialog ==
    /\ ~dialog.open /\ dialog' = [NoConnectDialog EXCEPT !.open = TRUE]
    /\ UNCHANGED <<connections, mapHolder, sessions, remote, answers, rows, shown, requests, crossed>>

(* Cancel, Escape or the close button: a connection being made is not called off. *)
CloseConnectDialog ==
    /\ dialog.open /\ dialog' = NoConnectDialog
    /\ UNCHANGED <<connections, mapHolder, sessions, remote, answers, rows, shown, requests, crossed>>

(* The fields make no target: parse_target's Err. *)
RefuseTarget ==
    /\ dialog.open /\ ~dialog.busy /\ dialog' = [dialog EXCEPT !.error = TRUE]
    /\ UNCHANGED <<connections, mapHolder, sessions, remote, answers, rows, shown, requests, crossed>>

ConnectTo(k) ==
    /\ dialog.open /\ ~dialog.busy /\ Spawn("connect", k, None)
    /\ dialog' = [dialog EXCEPT !.busy = TRUE, !.error = FALSE]
    /\ UNCHANGED <<connections, mapHolder, sessions, answers, rows, shown>>

(* The dialog is modal: the window is used without it. *)
Eject(k) ==
    /\ ~dialog.open /\ k \in rows /\ Spawn("disconnect", k, None)
    /\ UNCHANGED <<connections, mapHolder, sessions, answers, dialog, rows, shown>>

BrowseRemote(k, p) ==
    /\ ~dialog.open /\ k \in rows \cup {shown[p]} /\ k # Home /\ Spawn("list", k, p)
    /\ UNCHANGED <<connections, mapHolder, sessions, answers, dialog, rows, shown>>

MakeFolder(p) ==
    /\ ~dialog.open /\ shown[p] # Home /\ Spawn("mkdir", shown[p], p)
    /\ UNCHANGED <<connections, mapHolder, sessions, answers, dialog, rows, shown>>

ShowError == dialog' = IF dialog.open THEN [dialog EXCEPT !.busy = FALSE, !.error = TRUE] ELSE dialog

Connected(k) ==
    /\ dialog' = NoConnectDialog /\ rows' = rows \cup {k}
    /\ \E p \in Panes : shown' = [shown EXCEPT ![p] = k]
    /\ UNCHANGED <<remote, requests, crossed>>

Disconnected(k) ==
    /\ rows' = rows \ {k}
    /\ shown' = [p \in Panes |-> IF shown[p] = k THEN Home ELSE shown[p]]
    /\ UNCHANGED <<dialog, remote, requests, crossed>>

HandleAnswer ==
    /\ answers # << >> /\ answers' = Tail(answers)
    /\ LET a == Head(answers)
       IN  CASE a.kind = "connected"    -> Connected(a.key)
             [] a.kind = "disconnected" -> Disconnected(a.key)
             [] a.kind = "error"        -> ShowError /\ UNCHANGED <<rows, shown, remote,
                                                                    requests, crossed>>
             [] a.kind = "listed"       -> /\ shown' = [shown EXCEPT ![a.pane] = a.key]
                                           /\ UNCHANGED <<dialog, rows, remote, requests, crossed>>
    /\ UNCHANGED <<connections, mapHolder, sessions>>

-------------------------------------------------------------------------------
(* The tasks. *)

Quietly == UNCHANGED <<dialog, rows, shown, requests, crossed>>

(* SftpFs::connect: dial, authenticate, open the channel; any may fail. *)
Refused(t) ==
    /\ On(t, "connect", "begun") /\ Tell("error", t) /\ End(t)
    /\ UNCHANGED <<connections, mapHolder, sessions>> /\ Quietly

AcceptLogin(t) ==
    /\ On(t, "connect", "begun")
    /\ \E n \in 1..MaxSessions :
          /\ ~sessions[n].made /\ \A m \in 1..(n - 1) : sessions[m].made
          /\ sessions' = [sessions EXCEPT ![n] = [made |-> TRUE, open |-> TRUE, holder |-> None]]
          /\ remote' = [remote EXCEPT ![t].session = n, ![t].pc = "insert"]
    /\ UNCHANGED <<connections, mapHolder, answers>> /\ Quietly

(* connect_sftp: the map gets the new session, in place of one it had. *)
InsertLogin(t) ==
    /\ On(t, "connect", "insert") /\ mapHolder = None
    /\ connections' = [connections EXCEPT ![remote[t].key] = remote[t].session] /\ Step(t, "lookup")
    /\ UNCHANGED <<mapHolder, sessions, answers>> /\ Quietly

(* get_sftp, sftp_canonicalize: the session of the key, if there is one. *)
Lookup(t) ==
    /\ On(t, "connect", "lookup") \/ (remote[t].call \in {"list", "mkdir"} /\ remote[t].pc = "begun")
    /\ mapHolder = None
    /\ LET n == connections[remote[t].key]
       IN  IF n # None
           THEN remote' = [remote EXCEPT ![t].session = n, ![t].pc = "wait"] /\ UNCHANGED answers
           ELSE /\ End(t)
                /\ IF remote[t].call = "connect" THEN Tell("connected", t) ELSE UNCHANGED answers
    /\ UNCHANGED <<connections, mapHolder, sessions>> /\ Quietly

Locked(t) == sessions[remote[t].session].holder = t
LockSession(t) ==
    /\ sessions[remote[t].session].holder = None
    /\ sessions' = [sessions EXCEPT ![remote[t].session].holder = t]
Unlock(t) == sessions' = [sessions EXCEPT ![remote[t].session].holder = None]

(* SftpFs::get_sftp: the lock, and an error if the session was closed. *)
Ask(t) ==
    /\ remote[t].call \in {"connect", "list", "mkdir"} /\ remote[t].pc = "wait"
    /\ LockSession(t) /\ Step(t, IF sessions[remote[t].session].open THEN "asked" ELSE "failed")
    /\ UNCHANGED <<connections, mapHolder, answers>> /\ Quietly

Answer(t) ==
    /\ remote[t].pc = "asked" /\ \E pc \in {"done", "failed"} : Step(t, pc)
    /\ UNCHANGED <<connections, mapHolder, sessions, answers>> /\ Quietly

(* Mutant: create_dir asks again through stat. *)
LookAgain(t) ==
    /\ On(t, "mkdir", "failed") /\ Locked(t) /\ Step(t, "wait")
    /\ UNCHANGED <<connections, mapHolder, sessions, answers>> /\ Quietly

(* create_dir: what is in the way of the new folder is asked for on the same session. *)
LookAtTaken(t) ==
    /\ On(t, "mkdir", "failed") /\ Locked(t) /\ sessions[remote[t].session].open
    /\ Step(t, "done")
    /\ UNCHANGED <<connections, mapHolder, sessions, answers>> /\ Quietly

Unlocked(t) ==
    /\ remote[t].pc = "done" \/ (remote[t].pc = "failed" /\ ~(remote[t].call = "mkdir"
                                                           /\ sessions[remote[t].session].open))
    /\ Locked(t) /\ Unlock(t)
    /\ IF remote[t].call = "connect" THEN Step(t, "announce")
       ELSE IF On(t, "list", "done") THEN Step(t, "report") ELSE End(t)
    /\ UNCHANGED <<connections, mapHolder, answers>> /\ Quietly

(* What is not resolved is taken for the root. *)
Announce(t) ==
    /\ On(t, "connect", "announce") /\ Tell("connected", t) /\ End(t)
    /\ UNCHANGED <<connections, mapHolder, sessions>> /\ Quietly

(* The listing is sorted and its tags are counted before it is sent. *)
Report(t) ==
    /\ On(t, "list", "report") /\ Tell("listed", t) /\ End(t)
    /\ UNCHANGED <<connections, mapHolder, sessions>> /\ Quietly

(* disconnect_sftp *)
RemoveConnection(t) ==
    /\ On(t, "disconnect", "begun") /\ mapHolder = None
    /\ LET n == connections[remote[t].key]
       IN  IF n = None THEN Tell("error", t) /\ End(t) /\ UNCHANGED <<connections, mapHolder>>
           ELSE /\ connections' = [connections EXCEPT ![remote[t].key] = None] /\ mapHolder' = t
                /\ remote' = [remote EXCEPT ![t].session = n, ![t].pc = "close"] /\ UNCHANGED answers
    /\ UNCHANGED sessions /\ Quietly

TakeSession(t) ==
    /\ On(t, "disconnect", "close") /\ LockSession(t) /\ Step(t, "closing")
    /\ UNCHANGED <<connections, mapHolder, answers>> /\ Quietly

SessionClosed(t) ==
    /\ On(t, "disconnect", "closing")
    /\ sessions' = [sessions EXCEPT ![remote[t].session].open = FALSE, ![remote[t].session].holder = None]
    /\ mapHolder' = None /\ Tell("disconnected", t) /\ End(t)
    /\ UNCHANGED connections /\ Quietly

RemoteStep(t) ==
    \/ Refused(t) \/ AcceptLogin(t) \/ InsertLogin(t) \/ Lookup(t) \/ Ask(t) \/ Answer(t) \/ LookAtTaken(t)
    \/ Unlocked(t) \/ Announce(t) \/ Report(t)
    \/ RemoveConnection(t) \/ TakeSession(t) \/ SessionClosed(t)

RemoteNext ==
    \/ OpenConnectDialog \/ CloseConnectDialog \/ RefuseTarget \/ HandleAnswer
    \/ \E k \in Logins : ConnectTo(k) \/ Eject(k) \/ \E p \in Panes : BrowseRemote(k, p)
    \/ \E p \in Panes : MakeFolder(p)
    \/ \E t \in Remotes : RemoteStep(t)

RemoteSpec == RemoteInit /\ [][RemoteNext]_remoteVars

-------------------------------------------------------------------------------
Calm == answers = << >> /\ \A t \in Remotes : remote[t] = Resting
OpenLogins == {k \in Logins : connections[k] # None}
Agrees == /\ rows = OpenLogins
          /\ \A k \in OpenLogins : sessions[connections[k]].open
          /\ \A p \in Panes : shown[p] # Home => shown[p] \in OpenLogins

(* sidebar.rs:289 "Show an open remote connection", window.rs:1910 "A pane still browsing that
   server has nowhere to go but home": when nothing is under way, the rows are the open
   connections and every pane is at home or on one of them, if no disconnect met another call
   on its server. *)
RowsAreOpen == Calm /\ ~crossed => Agrees

(* The same, without the exception. *)
NobodyIsStranded == Calm => Agrees

(* connect_dialog.rs: a dialog that lets nobody type has an answer coming, and one that shows
   an error lets its user try again. *)
BusyIsAnswered ==
    dialog.busy => /\ dialog.open /\ ~dialog.error
                   /\ \E c \in Pending : c.call \in {"connect", "connected", "error"}

(* What a call waits for: the lock on the map, the lock on its session, or nothing but its own
   turn; one that has a session gives it back. *)
WantsMap(t) ==
    \/ On(t, "connect", "insert") \/ On(t, "connect", "lookup") \/ On(t, "disconnect", "begun")
    \/ remote[t].call \in {"list", "mkdir"} /\ remote[t].pc = "begun"
CanGoOn(t) ==
    \/ On(t, "connect", "begun") \/ remote[t].pc \in {"asked", "announce", "report", "closing"}
    \/ WantsMap(t) /\ mapHolder = None
    \/ remote[t].pc \in {"wait", "close"} /\ sessions[remote[t].session].holder = None
    \/ remote[t].pc \in {"done", "failed"} /\ Locked(t)

(* router.rs:315, sftp.rs:245: whichever locks the calls on their way wait for, one of them
   goes on. *)
NotAllWait == (\E t \in Remotes : remote[t] # Resting) => \E t \in Remotes : CanGoOn(t)

(* Rows, panes and the dialog tell of the connections there are. *)
SessionsAreAsShown == RowsAreOpen /\ BusyIsAnswered /\ NotAllWait
===============================================================================
