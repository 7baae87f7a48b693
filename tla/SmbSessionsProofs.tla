--------------------------- MODULE SmbSessionsProofs ---------------------------
(***************************************************************************)
(* Proofs about SmbSessions for any shares, users, tasks and bounds: a   *)
(* request is only sent on a tree of the session it is sent in; and with *)
(* connects and disconnects made one at a time, the server's login is    *)
(* that of its open locations.  And about RemoteSessions, for any        *)
(* servers, panes, tasks and bounds: rows, panes and the connect dialog  *)
(* tell of the connections that are open, and no calls wait for each     *)
(* other for ever.                                                       *)
(***************************************************************************)
EXTENDS Integers, SmbSessions, RemoteSessions, FiniteSetTheorems, SequenceTheorems, TLAPS

-------------------------------------------------------------------------------
(* The inductive invariant: what holds whoever is at work. *)

(* The steps of one request, and those that end a login and begin another. *)
Asking == {"server", "relogin", "lock", "open", "request", "drop", "checked"}
Leaving == {"login", "forget", "remove", "close", "remember", "insert"}
Holding == {"open", "request"}

Somebody == Users \cup {Nobody}
Trees == [Shares -> [of : Nat, recorded : Nat]]
Connections == [user : Somebody, gen : Nat, dead : BOOLEAN, tree : Trees]
TaskRecords ==
    [call : {"none", "connect", "disconnect", "browse"}, share : Shares \cup {Nobody}, user : Somebody, as : Somebody,
     pc : {"idle", "closed"} \cup Asking \cup Leaving, n : Int, old : Int, failed : BOOLEAN]

SmbTypes ==
    /\ locations \subseteq Shares /\ openedAs \in [Shares -> Somebody]
    /\ smbScene \in SmbScenes /\ creds \in Somebody /\ logins \in 0..smbScene.conns /\ current \in 0..logins
    /\ conn \in [Conns -> Connections] /\ holder \in [Conns -> Tasks \cup {Nobody}]
    /\ smbTask \in [Tasks -> TaskRecords]

(* A tree is recorded with the session that it is of. *)
TreesAreDated == \A n \in Conns, s \in Shares : conn[n].tree[s].of = conn[n].tree[s].recorded

(* What a task is at fits its call, with k logins made, *)
RecordFits(t, r, k) ==
    /\ r.n \in 0..k /\ r.old \in 0..k
    /\ r.pc = "idle" => r = Idle
    /\ r.pc # "idle" => r.share \in Shares /\ (r.call = "browse" <=> t \in Browsers)
    /\ t \in Browsers => r.pc \in {"idle"} \cup (Asking \ {"checked"})
    /\ r.pc # "idle" /\ t \in Browsers => t \in smbScene.browsers
    /\ r.pc \in {"lock", "open", "request"} => r.n \in Conns
    /\ r.pc = "close" => r.old \in Conns

(* and what it has locked. *)
LocksFit(t) ==
    /\ \A n \in Conns : holder[n] = t <=> smbTask[t].pc \in Holding /\ smbTask[t].n = n
    /\ smbTask[t].pc = "request" => conn[smbTask[t].n].tree[smbTask[t].share].of = conn[smbTask[t].n].gen

TaskFits(t) == RecordFits(t, smbTask[t], logins) /\ LocksFit(t)

LockInv == SmbTypes /\ TreesAreDated /\ \A t \in Tasks : TaskFits(t)

-------------------------------------------------------------------------------
(* What holds when connects and disconnects are made one at a time. *)

AtWork(t) == smbTask[t].pc # "idle"

(* The login that a connect asks with is its own; between two logins no location is open. *)
ClientFits(t) ==
    /\ smbTask[t].call = "connect" /\ AtWork(t) => smbTask[t].user \in Users
    /\ smbTask[t].pc \in Asking \cup {"remember", "insert"} => smbTask[t].call = "connect"
    /\ smbTask[t].pc = "closed" => smbTask[t].call = "disconnect"
    /\ smbTask[t].pc \in Asking \cup {"insert"} => creds = smbTask[t].user
    /\ smbTask[t].pc \in Leaving => locations = {}

SoloInv ==
    /\ \A t, u \in Clients : AtWork(t) /\ AtWork(u) => t = u
    /\ \A t \in Clients : ClientFits(t)
    /\ \A s \in locations : creds # Nobody /\ creds = openedAs[s]

(* With no browser, the connection kept for the server is of the login it has, and both are
   gone with the last location. *)
HasLogin(t) ==
    \/ smbTask[t].pc \in {"remember", "insert"}
    \/ smbTask[t].pc \in {"forget", "remove", "close"} /\ smbTask[t].call = "connect" /\ ~smbTask[t].failed
LoggedOut == creds = Nobody /\ current = 0
ConnectionFits(t) ==
    /\ smbTask[t].pc = "login" => LoggedOut
    /\ smbTask[t].pc \in {"remove", "close", "remember"} => creds = Nobody
    /\ smbTask[t].pc \in {"close", "remember", "insert"} => current = 0
    /\ smbTask[t].pc = "relogin" => smbTask[t].as = creds
    /\ HasLogin(t) => smbTask[t].n \in Conns /\ conn[smbTask[t].n].user = smbTask[t].user

AloneInv ==
    /\ current # 0 /\ creds # Nobody => conn[current].user = creds
    /\ locations = {} /\ (\A t \in Clients : ~AtWork(t)) => LoggedOut
    /\ \A t \in Clients : ConnectionFits(t)

SmbInv ==
    /\ LockInv
    /\ smbScene.together = 1 => SoloInv
    /\ smbScene.together = 1 /\ smbScene.browsers = {} => AloneInv

-------------------------------------------------------------------------------
(* Locks and trees. *)

(* Nothing is locked and nothing logged in at the start. *)
LEMMA SmbInitLocks == SmbInit => LockInv
<1> SUFFICES ASSUME SmbInit PROVE LockInv OBVIOUS
<1>1. smbScene \in SmbScenes /\ logins = 0 /\ smbScene.conns \in Nat /\ 0 \in 0..smbScene.conns
  BY SmbAssumption DEF SmbInit
<1>2. NewConn(Nobody) \in Connections /\ \A s \in Shares : NewConn(Nobody).tree[s] = NoTree
  BY DEF NewConn, Connections, Trees, NoTree, Somebody
<1>3. Idle \in TaskRecords /\ Idle.pc = "idle" /\ Idle.n = 0 /\ Idle.old = 0
  BY DEF Idle, Called, TaskRecords, Somebody, Asking, Leaving
<1>4. SmbTypes BY <1>1, <1>2, <1>3 DEF SmbInit, SmbTypes, Somebody
<1>5. TreesAreDated BY <1>2 DEF SmbInit, TreesAreDated, NoTree
<1>6. ASSUME NEW t \in Tasks PROVE TaskFits(t)
  <2>1. smbTask[t] = Idle /\ t # Nobody BY SmbAssumption DEF SmbInit, Tasks
  <2>2. RecordFits(t, smbTask[t], logins) BY <1>1, <1>3, <2>1 DEF RecordFits
  <2>3. LocksFit(t) BY <1>3, <2>1 DEF LocksFit, Holding, SmbInit
  <2> QED BY <2>2, <2>3 DEF TaskFits
<1> QED BY <1>4, <1>5, <1>6 DEF LockInv

(* What a task holds is what it is at, so two hold nothing together, and what goes out goes out
   on a tree of its session. *)
LEMMA LocksImplyTypeOK ==
    ASSUME LockInv PROVE SmbTypeOK /\ RequestsUseLiveTrees
<1>1. ASSUME NEW n \in Conns PROVE {t \in Tasks : smbTask[t].pc \in {"open", "request"} /\ smbTask[t].n = n} = {holder[n]} \ {Nobody}
  <2>1. \A t \in Tasks : holder[n] = t <=> smbTask[t].pc \in Holding /\ smbTask[t].n = n
    BY DEF LockInv, TaskFits, LocksFit
  <2>2. holder[n] \in Tasks \cup {Nobody} /\ Nobody \notin Tasks
    BY SmbAssumption DEF LockInv, SmbTypes, Tasks
  <2> QED BY <2>1, <2>2 DEF Holding
<1>2. SmbTypeOK BY <1>1 DEF LockInv, SmbTypes, SmbTypeOK, TaskFits, RecordFits, Somebody, Connections
<1>3. RequestsUseLiveTrees BY DEF LockInv, TaskFits, LocksFit, RequestsUseLiveTrees, SmbAt
<1> QED BY <1>2, <1>3

(* One task moves, and with it only what nobody else has locked. *)
Moves(t) == smbTask' \in [Tasks -> TaskRecords] /\ \A u \in Tasks \ {t} : smbTask'[u] = smbTask[u]

(* A step of one task leaves alone what is said of every other: it takes or gives up only its
   own locks, and changes only what nobody else has locked. *)
LEMMA OthersFit ==
    ASSUME LockInv, NEW t \in Tasks, Moves(t), UNCHANGED smbScene, logins' \in Nat, logins <= logins',
           \A n \in Conns : holder'[n] = holder[n] \/ {holder[n], holder'[n]} \subseteq {t, Nobody},
           \A n \in Conns : conn'[n] = conn[n] \/ holder[n] \in {t, Nobody}
    PROVE  \A u \in Tasks \ {t} : TaskFits(u)'
<1> SUFFICES ASSUME NEW u \in Tasks \ {t} PROVE TaskFits(u)' OBVIOUS
<1>1. TaskFits(u) /\ smbTask'[u] = smbTask[u] /\ u # Nobody BY SmbAssumption DEF LockInv, Moves, Tasks
<1>2. logins \in Nat BY SmbAssumption DEF LockInv, SmbTypes
<1>3. RecordFits(u, smbTask[u], logins)' BY <1>1, <1>2 DEF TaskFits, RecordFits
<1>4. \A n \in Conns : holder'[n] = u <=> smbTask'[u].pc \in Holding /\ smbTask'[u].n = n
  BY <1>1 DEF TaskFits, LocksFit
<1>5. ASSUME smbTask'[u].pc = "request"
      PROVE  conn'[smbTask'[u].n].tree[smbTask'[u].share].of = conn'[smbTask'[u].n].gen
  BY <1>1, <1>5 DEF TaskFits, RecordFits, LocksFit, Holding
<1> QED BY <1>3, <1>4, <1>5 DEF TaskFits, LocksFit

(* The connections are left alone. *)
LEMMA QuietStep ==
    ASSUME LockInv, NEW t \in Tasks, Moves(t), UNCHANGED <<conn, logins, holder, smbScene>>,
           locations' \subseteq Shares, openedAs' \in [Shares -> Somebody], creds' \in Somebody, current' \in 0..logins,
           smbTask[t].pc \notin Holding, smbTask'[t].pc \notin Holding, RecordFits(t, smbTask[t], logins)'
    PROVE  LockInv'
<1>1. SmbTypes' BY DEF LockInv, SmbTypes, Moves
<1>2. TreesAreDated' BY DEF LockInv, TreesAreDated
<1>3. \A u \in Tasks \ {t} : TaskFits(u)' BY SmbAssumption, OthersFit DEF LockInv, SmbTypes
<1>4. \A n \in Conns : holder'[n] # t BY DEF LockInv, TaskFits, LocksFit
<1>5. TaskFits(t)' BY <1>4 DEF TaskFits, LocksFit, Holding
<1> QED BY <1>1, <1>2, <1>3, <1>5 DEF LockInv

(* A task that returns is idle again. *)
LEMMA ReturnFits ==
    ASSUME LockInv, NEW t \in Tasks, Return(t), logins' \in Nat
    PROVE  Moves(t) /\ smbTask'[t] = Idle /\ smbTask'[t].pc = "idle" /\ RecordFits(t, smbTask[t], logins)'
<1>1. Idle \in TaskRecords /\ Idle.pc = "idle" /\ Idle.n = 0 /\ Idle.old = 0
  BY DEF Idle, Called, TaskRecords, Somebody, Asking, Leaving
<1>2. Moves(t) /\ smbTask'[t] = Idle BY <1>1 DEF Return, Moves, LockInv, SmbTypes
<1> QED BY <1>1, <1>2 DEF RecordFits, Asking

(* A task that goes on takes its call, its share and its login along. *)
LEMMA GotoFits ==
    ASSUME LockInv, NEW t \in Tasks, NEW pc \in Asking \cup Leaving, SmbGoto(t, pc)
    PROVE  /\ Moves(t) /\ smbTask'[t].pc = pc /\ smbTask'[t].n = smbTask[t].n /\ smbTask'[t].old = smbTask[t].old
           /\ smbTask'[t].share = smbTask[t].share /\ smbTask'[t].call = smbTask[t].call
           /\ smbTask'[t].user = smbTask[t].user /\ smbTask'[t].as = smbTask[t].as /\ smbTask'[t].failed = smbTask[t].failed
  BY DEF SmbGoto, Moves, LockInv, SmbTypes, TaskRecords, Asking, Leaving

(* What the steps start from. *)
LEMMA LockParts ==
    ASSUME LockInv, NEW t \in Tasks
    PROVE  /\ RecordFits(t, smbTask[t], logins) /\ smbTask[t] \in TaskRecords /\ smbTask \in [Tasks -> TaskRecords]
           /\ locations \subseteq Shares /\ openedAs \in [Shares -> Somebody] /\ creds \in Somebody
           /\ smbScene.conns \in 0..MaxConns /\ logins \in 0..smbScene.conns /\ logins \in Nat /\ current \in 0..logins
           /\ 1..logins \subseteq Conns /\ smbScene.shares \subseteq Shares /\ smbScene.users \subseteq Users
           /\ smbScene.browsers \subseteq Browsers /\ MaxConns \in Nat
  BY SmbAssumption DEF LockInv, SmbTypes, TaskFits, Conns

(* The record of a task without a call. *)
LEMMA IdleRecord ==
    /\ Idle \in TaskRecords /\ Idle.pc = "idle" /\ Idle.n = 0 /\ Idle.old = 0 /\ Idle.call = "none" /\ ~Idle.failed
    /\ Idle.user = Nobody /\ Idle.as = Nobody /\ Idle.share = Nobody
  BY DEF Idle, Called, TaskRecords, Somebody, Asking, Leaving

(* A connect begins with a server that may have a login, or with a login of its own. *)
LEMMA ConnectLocks == ASSUME LockInv, NEW t \in Clients, Connect(t) PROVE LockInv'
<1>1. t \in Tasks /\ t \notin Browsers BY SmbAssumption DEF Tasks
<1>2. PICK sh \in smbScene.shares, user \in smbScene.users :
        smbTask' = [smbTask EXCEPT ![t] = Called("connect", sh, user, IF InUse THEN "server" ELSE "login")]
  BY DEF Connect
<1>3. /\ Moves(t) /\ smbTask'[t].pc \in {"server", "login"} /\ smbTask'[t].share = sh /\ smbTask'[t].call = "connect"
      /\ smbTask'[t].n = 0 /\ smbTask'[t].old = 0
  <2>1. sh \in Shares /\ user \in Users /\ smbTask \in [Tasks -> TaskRecords] BY <1>1, LockParts
  <2> DEFINE pc == IF InUse THEN "server" ELSE "login"
             r == Called("connect", sh, user, pc)
  <2>2. pc \in {"server", "login"} OBVIOUS
  <2> HIDE DEF pc
  <2>3. /\ r \in TaskRecords /\ r.pc = pc /\ r.share = sh /\ r.call = "connect" /\ r.user = user
        /\ r.n = 0 /\ r.old = 0
    BY <2>1, <2>2 DEF Somebody, Asking, Leaving, Called, TaskRecords
  <2>4. smbTask' = [smbTask EXCEPT ![t] = r] BY <1>2 DEF pc
  <2> HIDE DEF r
  <2> QED BY <1>1, <2>1, <2>2, <2>3, <2>4 DEF Moves
<1>4. RecordFits(t, smbTask[t], logins)' BY <1>1, <1>3, LockParts DEF RecordFits, Connect
<1>5. smbTask[t].pc = "idle" BY DEF Connect, Idle, Called
<1> QED BY <1>1, <1>3, <1>4, <1>5, LockParts, QuietStep DEF Connect, Holding

(* A new connection: nobody has locked it. *)
LEMMA LoginStep ==
    ASSUME LockInv, NEW t \in Tasks, NEW user \in Somebody, LoggedIn(user), Moves(t),
           UNCHANGED <<locations, openedAs, creds, holder, smbScene>>, current' \in 0..(logins + 1),
           smbTask[t].pc \notin Holding, smbTask'[t].pc \notin Holding, RecordFits(t, smbTask[t], logins)'
    PROVE  LockInv'
<1> DEFINE k == logins + 1
<1>1. /\ k \in Conns /\ k \in 0..smbScene.conns /\ logins' = k /\ k \notin 0..logins
      /\ conn' = [conn EXCEPT ![k] = NewConn(user)] /\ current' \in 0..k
  BY LockParts DEF LoggedIn, Conns
<1>2. logins' \in Nat /\ logins <= logins' BY LockParts DEF LoggedIn
<1> HIDE DEF k
<1>3. NewConn(user) \in Connections /\ \A s \in Shares : NewConn(user).tree[s] = NoTree
  BY DEF NewConn, Connections, Trees, NoTree
<1>4. conn \in [Conns -> Connections] /\ TreesAreDated BY DEF LockInv, SmbTypes
<1>5. conn' \in [Conns -> Connections] /\ \A n \in Conns \ {k} : conn'[n] = conn[n] BY <1>1, <1>3, <1>4
<1>6. TreesAreDated' BY <1>1, <1>3, <1>4 DEF TreesAreDated, NoTree
<1>7. holder[k] = Nobody
  <2>1. ASSUME NEW u \in Tasks, holder[k] = u PROVE FALSE
    BY <1>1, <2>1 DEF LockInv, TaskFits, LocksFit, RecordFits
  <2> QED BY <1>1, <2>1 DEF LockInv, SmbTypes
<1>8. \A u \in Tasks \ {t} : TaskFits(u)' BY <1>2, <1>5, <1>7, OthersFit
<1>9. LocksFit(t)' BY DEF LockInv, TaskFits, LocksFit, Holding
<1>10. SmbTypes' BY <1>1, <1>5 DEF LockInv, SmbTypes, Moves
<1> QED BY <1>6, <1>8, <1>9, <1>10 DEF LockInv, TaskFits

(* A login adds a connection that nobody has yet. *)
LEMMA LogInLocks == ASSUME LockInv, NEW t \in Tasks, LogIn(t) PROVE LockInv'
<1>1. smbTask[t].pc = "login" /\ UNCHANGED <<locations, openedAs, creds, current, holder, smbScene>>
  BY DEF LogIn, SmbAt
<1>2. CASE Return(t) /\ UNCHANGED <<conn, logins>>
  BY <1>2, LockParts, ReturnFits, <1>1, QuietStep DEF Holding
<1>3. CASE LoggedIn(smbTask[t].user) /\ smbTask' = [smbTask EXCEPT ![t].n = logins + 1, ![t].pc = "forget"]
  <2> DEFINE k == logins + 1
  <2>1. /\ Moves(t) /\ smbTask'[t].pc = "forget" /\ smbTask'[t].n = k /\ smbTask'[t].old = smbTask[t].old
        /\ smbTask'[t].share = smbTask[t].share /\ smbTask'[t].call = smbTask[t].call
    BY <1>3, LockParts DEF Moves, TaskRecords, Leaving
  <2>2. logins' = k /\ k \in 0..k /\ smbTask[t].old \in 0..k /\ current' \in 0..k
    BY <1>1, <1>3, LockParts DEF LoggedIn, RecordFits
  <2> HIDE DEF k
  <2>3. RecordFits(t, smbTask[t], logins)' BY <1>1, <2>1, <2>2, LockParts DEF RecordFits, Asking
  <2>4. smbTask[t].user \in Somebody BY LockParts DEF TaskRecords
  <2> QED BY <1>1, <1>3, <2>1, <2>2, <2>3, <2>4, LoginStep DEF k, Holding
<1> QED BY <1>2, <1>3 DEF LogIn

(* The steps from there to the share, and back. *)
LEMMA RememberLocks == ASSUME LockInv, NEW t \in Tasks, Remember(t) PROVE LockInv'
<1>1. /\ Moves(t) /\ smbTask'[t].pc = "insert" /\ smbTask'[t].n = smbTask[t].n /\ smbTask'[t].old = smbTask[t].old
      /\ smbTask'[t].share = smbTask[t].share /\ smbTask'[t].call = smbTask[t].call
  BY GotoFits DEF Remember, Leaving
<1>2. RecordFits(t, smbTask[t], logins)' BY <1>1, LockParts DEF RecordFits, Asking, Remember, SmbAt
<1> QED BY <1>1, <1>2, LockParts, QuietStep DEF Remember, SmbAt, Holding, TaskRecords

(* The connection is kept for the server, *)
LEMMA InsertLocks == ASSUME LockInv, NEW t \in Tasks, Insert(t) PROVE LockInv'
<1>1. /\ Moves(t) /\ smbTask'[t].pc = "server" /\ smbTask'[t].n = 0 /\ smbTask'[t].old = smbTask[t].old
      /\ smbTask'[t].share = smbTask[t].share /\ smbTask'[t].call = smbTask[t].call
  BY LockParts DEF Insert, Moves, TaskRecords, Asking
<1>2. RecordFits(t, smbTask[t], logins)' BY <1>1, LockParts DEF RecordFits, Asking, Insert, SmbAt
<1>3. smbTask[t].n \in 0..logins BY LockParts DEF RecordFits
<1> QED BY <1>1, <1>2, <1>3, LockParts, QuietStep DEF Insert, SmbAt, Holding

(* and a location opened, whose request was made. *)
LEMMA OpenLocks == ASSUME LockInv, NEW t \in Tasks, Open(t) PROVE LockInv'
BY LockParts, ReturnFits, QuietStep DEF Open, RecordFits, SmbAt, TaskRecords, Holding

(* A check that failed forgets the server, unless a location still uses it. *)
LEMMA CheckFailedLocks == ASSUME LockInv, NEW t \in Tasks, CheckFailed(t) PROVE LockInv'
<1>1. smbTask[t].pc = "checked" /\ UNCHANGED <<locations, openedAs, creds, current, conn, logins, holder, smbScene>>
  BY DEF CheckFailed, SmbAt
<1>2. CASE Return(t) BY <1>1, <1>2, LockParts, ReturnFits, QuietStep DEF Holding
<1>3. CASE smbTask' = [smbTask EXCEPT ![t].n = 0, ![t].pc = "forget"]
  <2>1. /\ Moves(t) /\ smbTask'[t].pc = "forget" /\ smbTask'[t].n = 0 /\ smbTask'[t].old = smbTask[t].old
        /\ smbTask'[t].share = smbTask[t].share /\ smbTask'[t].call = smbTask[t].call
    BY <1>3, LockParts DEF Moves, TaskRecords, Leaving
  <2>2. RecordFits(t, smbTask[t], logins)' BY <1>1, <2>1, LockParts DEF RecordFits, Asking
  <2> QED BY <1>1, <2>1, <2>2, LockParts, QuietStep DEF Holding
<1> QED BY <1>2, <1>3 DEF CheckFailed

(* A disconnect closes its location first, *)
LEMMA DisconnectLocks == ASSUME LockInv, NEW t \in Clients, Disconnect(t) PROVE LockInv'
<1>1. t \in Tasks /\ t \notin Browsers BY SmbAssumption DEF Tasks
<1>2. PICK sh \in locations :
        /\ locations' = locations \ {sh}
        /\ smbTask' = [smbTask EXCEPT ![t] = Called("disconnect", sh, Nobody, "closed")]
  BY DEF Disconnect
<1>3. /\ Moves(t) /\ smbTask'[t].pc = "closed" /\ smbTask'[t].share = sh /\ smbTask'[t].call = "disconnect"
      /\ smbTask'[t].n = 0 /\ smbTask'[t].old = 0
  <2>1. sh \in Shares /\ smbTask \in [Tasks -> TaskRecords] BY <1>1, LockParts
  <2> DEFINE r == Called("disconnect", sh, Nobody, "closed")
  <2>2. r \in TaskRecords /\ r.pc = "closed" /\ r.share = sh /\ r.call = "disconnect" /\ r.n = 0 /\ r.old = 0
    BY <2>1 DEF Somebody, Called, TaskRecords
  <2> HIDE DEF r
  <2> QED BY <1>1, <1>2, <2>1, <2>2 DEF Moves, r
<1>4. RecordFits(t, smbTask[t], logins)'
  BY <1>1, <1>2, <1>3, LockParts DEF RecordFits, Disconnect, Asking
<1>5. smbTask[t].pc = "idle" BY DEF Disconnect, Idle, Called
<1> QED BY <1>1, <1>2, <1>3, <1>4, <1>5, LockParts, QuietStep DEF Disconnect, Holding

(* then looks whether others use the server. *)
LEMMA ClosedLocks == ASSUME LockInv, NEW t \in Tasks, Closed(t) PROVE LockInv'
<1>1. smbTask[t].pc = "closed" /\ UNCHANGED <<locations, openedAs, creds, current, conn, logins, holder, smbScene>>
  BY DEF Closed, SmbAt
<1>2. CASE Return(t) BY <1>1, <1>2, LockParts, ReturnFits, QuietStep DEF Holding
<1>3. CASE SmbGoto(t, "forget")
  BY <1>3, GotoFits, <1>1, LockParts, QuietStep DEF Leaving, RecordFits, Asking, Holding
<1> QED BY <1>2, <1>3 DEF Closed

(* Forgetting takes away the login, *)
LEMMA ForgetLocks == ASSUME LockInv, NEW t \in Tasks, Forget(t) PROVE LockInv'
<1>1. /\ Moves(t) /\ smbTask'[t].pc = "remove" /\ smbTask'[t].n = smbTask[t].n /\ smbTask'[t].old = smbTask[t].old
      /\ smbTask'[t].share = smbTask[t].share /\ smbTask'[t].call = smbTask[t].call
  BY GotoFits DEF Forget, Leaving
<1>2. RecordFits(t, smbTask[t], logins)' BY <1>1, LockParts DEF RecordFits, Asking, Forget, SmbAt
<1> QED BY <1>1, <1>2, LockParts, QuietStep DEF Forget, SmbAt, Holding, Somebody

(* It is forgotten: the connect goes on, or the call is over. *)
LEMMA ForgottenFits ==
    ASSUME LockInv, NEW t \in Tasks, Forgotten(t), smbTask[t].pc \in {"remove", "close"}, UNCHANGED <<logins, smbScene>>
    PROVE  Moves(t) /\ smbTask'[t].pc \in {"remember", "idle"} /\ RecordFits(t, smbTask[t], logins)'
<1>1. CASE Return(t) BY <1>1, LockParts, ReturnFits
<1>2. CASE smbTask' = [smbTask EXCEPT ![t].old = 0, ![t].pc = "remember"]
  BY <1>2, LockParts DEF Moves, TaskRecords, Leaving, RecordFits, Asking
<1> QED BY <1>1, <1>2 DEF Forgotten

(* the connection, *)
LEMMA RemoveLocks == ASSUME LockInv, NEW t \in Tasks, Remove(t) PROVE LockInv'
<1>1. smbTask[t].pc = "remove" /\ current' = 0 /\ UNCHANGED <<locations, openedAs, creds, conn, logins, holder, smbScene>>
  BY DEF Remove, SmbAt
<1>2. CASE Forgotten(t) BY <1>1, <1>2, ForgottenFits, LockParts, QuietStep DEF Holding
<1>3. CASE current # 0 /\ smbTask' = [smbTask EXCEPT ![t].old = current, ![t].pc = "close"]
  <2>1. /\ Moves(t) /\ smbTask'[t].pc = "close" /\ smbTask'[t].n = smbTask[t].n /\ smbTask'[t].old = current
        /\ smbTask'[t].share = smbTask[t].share /\ smbTask'[t].call = smbTask[t].call
    BY LockParts, <1>3 DEF Moves, TaskRecords, Leaving
  <2>2. current \in Conns BY <1>3, LockParts DEF Conns
  <2>3. RecordFits(t, smbTask[t], logins)' BY <1>1, <2>1, <2>2, LockParts DEF RecordFits, Asking
  <2> QED BY <1>1, <2>1, <2>3, LockParts, QuietStep DEF Holding
<1> QED BY <1>2, <1>3 DEF Remove

(* One connection changes, that nobody else has locked. *)
LEMMA ConnStep ==
    ASSUME LockInv, NEW t \in Tasks, Moves(t), UNCHANGED <<locations, openedAs, creds, logins, smbScene>>,
           current' \in 0..logins, holder' \in [Conns -> Tasks \cup {Nobody}], conn' \in [Conns -> Connections],
           TreesAreDated', TaskFits(t)',
           \A n \in Conns : holder'[n] = holder[n] \/ {holder[n], holder'[n]} \subseteq {t, Nobody},
           \A n \in Conns : conn'[n] = conn[n] \/ holder[n] \in {t, Nobody}
    PROVE  LockInv'
<1>1. SmbTypes' BY DEF LockInv, SmbTypes, Moves
<1>2. \A u \in Tasks \ {t} : TaskFits(u)' BY LockParts, OthersFit
<1> QED BY <1>1, <1>2 DEF LockInv

(* and the trees of the connection, once nobody has it locked. *)
LEMMA CloseLocks == ASSUME LockInv, NEW t \in Tasks, Close(t) PROVE LockInv'
<1> DEFINE k == smbTask[t].old
           bare == [s \in Shares |-> NoTree]
<1>1. /\ smbTask[t].pc = "close" /\ holder[k] = Nobody /\ Forgotten(t)
      /\ UNCHANGED <<locations, openedAs, creds, current, logins, holder, smbScene>>
      /\ conn' = [conn EXCEPT ![k].tree = bare]
  BY DEF Close, SmbAt
<1>2. k \in Conns BY <1>1, LockParts DEF RecordFits
<1>3. Moves(t) /\ smbTask'[t].pc \in {"remember", "idle"} /\ RecordFits(t, smbTask[t], logins)'
  BY <1>1, ForgottenFits
<1>4. bare \in Trees /\ \A s \in Shares : bare[s].of = bare[s].recorded BY DEF Trees, NoTree
<1>5. conn \in [Conns -> Connections] /\ TreesAreDated BY DEF LockInv, SmbTypes
<1> HIDE DEF k, bare
<1>6. /\ conn' \in [Conns -> Connections] /\ conn'[k].tree = bare
      /\ \A n \in Conns \ {k} : conn'[n] = conn[n]
  BY <1>1, <1>2, <1>4, <1>5 DEF Connections
<1>7. TreesAreDated' BY <1>2, <1>4, <1>5, <1>6 DEF TreesAreDated
<1>8. TaskFits(t)' BY <1>1, <1>3 DEF LockInv, TaskFits, LocksFit, Holding
<1>9. holder' \in [Conns -> Tasks \cup {Nobody}] /\ current' \in 0..logins BY <1>1 DEF LockInv, SmbTypes
<1> QED BY <1>1, <1>3, <1>6, <1>7, <1>8, <1>9, ConnStep

(* A browser asks for what a location has. *)
LEMMA BrowseLocks == ASSUME LockInv, NEW t \in smbScene.browsers, Browse(t) PROVE LockInv'
<1>1. t \in Tasks /\ t \in Browsers /\ smbScene.shares \subseteq Shares
  BY SmbAssumption DEF Tasks, LockInv, SmbTypes
<1>2. PICK sh \in smbScene.shares : smbTask' = [smbTask EXCEPT ![t] = Called("browse", sh, Nobody, "server")]
  BY DEF Browse
<1>3. /\ Moves(t) /\ smbTask'[t].pc = "server" /\ smbTask'[t].share = sh /\ smbTask'[t].call = "browse"
      /\ smbTask'[t].n = 0 /\ smbTask'[t].old = 0
  <2>1. sh \in Shares /\ smbTask \in [Tasks -> TaskRecords] BY <1>1, LockParts
  <2> DEFINE r == Called("browse", sh, Nobody, "server")
  <2>2. r \in TaskRecords /\ r.pc = "server" /\ r.share = sh /\ r.call = "browse" /\ r.n = 0 /\ r.old = 0
    BY <2>1 DEF TaskRecords, Called, Somebody, Asking
  <2> HIDE DEF r
  <2> QED BY <1>1, <1>2, <2>1, <2>2 DEF Moves, r
<1>4. RecordFits(t, smbTask[t], logins)' BY <1>1, <1>2, <1>3, LockParts DEF RecordFits, Browse, Asking
<1>5. smbTask[t].pc = "idle" BY DEF Browse, Idle, Called
<1> QED BY <1>1, <1>2, <1>3, <1>4, <1>5, LockParts, QuietStep DEF Browse, Holding

(* A request is over: of a browser, or the check of a connect. *)
LEMMA EndedFits ==
    ASSUME LockInv, NEW t \in Tasks, NEW failed \in BOOLEAN, Ended(t, failed), smbTask[t].pc # "idle",
           logins' \in Nat, logins <= logins', UNCHANGED smbScene
    PROVE  Moves(t) /\ smbTask'[t].pc \in {"idle", "checked"} /\ RecordFits(t, smbTask[t], logins)'
<1>1. CASE smbTask[t].call = "browse" BY <1>1, LockParts, ReturnFits DEF Ended
<1>2. CASE smbTask[t].call # "browse"
  BY <1>2, LockParts DEF Ended, Moves, TaskRecords, Asking, RecordFits
<1> QED BY <1>1, <1>2

(* A request takes the connection kept for the server, logs in again with the login kept, or
   fails without one. *)
LEMMA ServerLocks == ASSUME LockInv, NEW t \in Tasks, Server(t) PROVE LockInv'
<1>1. smbTask[t].pc = "server" /\ UNCHANGED <<locations, openedAs, creds, current, conn, logins, holder, smbScene>>
  BY DEF Server, SmbAt
<1>2. CASE current # 0 /\ smbTask' = [smbTask EXCEPT ![t].n = current, ![t].pc = "lock"]
  <2>1. current \in Int /\ smbTask \in [Tasks -> TaskRecords] /\ current \in Conns
    BY <1>2, LockParts DEF Conns
  <2>2. /\ Moves(t) /\ smbTask'[t].pc = "lock" /\ smbTask'[t].n = current /\ smbTask'[t].old = smbTask[t].old
        /\ smbTask'[t].share = smbTask[t].share /\ smbTask'[t].call = smbTask[t].call
    BY <1>2, <2>1, ZenonT(30) DEF Moves, TaskRecords, Asking
  <2>3. RecordFits(t, smbTask[t], logins)' BY <1>1, <2>1, <2>2, LockParts DEF RecordFits, Asking
  <2> QED BY <1>1, <2>2, <2>3, LockParts, QuietStep DEF Holding
<1>3. CASE Ended(t, TRUE)
  <2>1. Moves(t) /\ smbTask'[t].pc \in {"idle", "checked"} /\ RecordFits(t, smbTask[t], logins)'
    <3>1. smbTask[t].pc # "idle" /\ logins' \in Nat /\ logins <= logins' /\ smbScene' = smbScene /\ TRUE \in BOOLEAN
      BY <1>1, LockParts
    <3> QED BY <1>3, <3>1, EndedFits
  <2> QED BY <1>1, <2>1, LockParts, QuietStep DEF Holding
<1>4. CASE smbTask' = [smbTask EXCEPT ![t].as = creds, ![t].pc = "relogin"]
  BY <1>4, LockParts, <1>1, QuietStep DEF Moves, TaskRecords, Asking, RecordFits, Holding
<1> QED BY <1>2, <1>3, <1>4 DEF Server

(* A connection found dead is kept no longer. *)
LEMMA DropLocks == ASSUME LockInv, NEW t \in Tasks, Drop(t) PROVE LockInv'
<1>1. /\ smbTask[t].pc = "drop" /\ UNCHANGED <<locations, openedAs, creds, conn, logins, holder, smbScene>>
      /\ current' = 0 /\ Ended(t, TRUE)
  BY DEF Drop, SmbAt
<1>2. Moves(t) /\ smbTask'[t].pc \in {"idle", "checked"} /\ RecordFits(t, smbTask[t], logins)'
  <2>1. smbTask[t].pc # "idle" /\ logins' \in Nat /\ logins <= logins' /\ smbScene' = smbScene /\ TRUE \in BOOLEAN
    BY <1>1, LockParts
  <2> QED BY <1>1, <2>1, EndedFits
<1> QED BY <1>1, <1>2, LockParts, QuietStep DEF Holding

(* A login made again adds a connection; the first to finish stays. *)
LEMMA ReloginLocks == ASSUME LockInv, NEW t \in Tasks, Relogin(t) PROVE LockInv'
<1>1. smbTask[t].pc = "relogin" /\ UNCHANGED <<locations, openedAs, creds, holder, smbScene>>
  BY DEF Relogin, SmbAt
<1>2. CASE Ended(t, TRUE) /\ UNCHANGED <<current, conn, logins>>
  <2>1. Moves(t) /\ smbTask'[t].pc \in {"idle", "checked"} /\ RecordFits(t, smbTask[t], logins)'
    <3>1. smbTask[t].pc # "idle" /\ logins' \in Nat /\ logins <= logins' /\ smbScene' = smbScene /\ TRUE \in BOOLEAN
      BY <1>1, <1>2, LockParts
    <3> QED BY <1>2, <3>1, EndedFits
  <2> QED BY <1>1, <1>2, <2>1, LockParts, QuietStep DEF Holding
<1>3. CASE /\ LoggedIn(smbTask[t].as) /\ current' = IF current = 0 THEN logins + 1 ELSE current
           /\ smbTask' = [smbTask EXCEPT ![t].n = current', ![t].pc = "lock"]
  <2> DEFINE k == logins + 1
             c == current'
  <2>1. c \in 1..k /\ c \in Conns /\ c \in Int /\ logins' = k /\ smbTask[t].old \in 0..k
    BY <1>1, <1>3, LockParts DEF LoggedIn, Conns, RecordFits
  <2>2. smbTask' = [smbTask EXCEPT ![t].n = c, ![t].pc = "lock"] BY <1>3
  <2> HIDE DEF k, c
  <2>3. /\ Moves(t) /\ smbTask'[t].pc = "lock" /\ smbTask'[t].n = c /\ smbTask'[t].old = smbTask[t].old
        /\ smbTask'[t].share = smbTask[t].share /\ smbTask'[t].call = smbTask[t].call
    BY <2>1, <2>2, LockParts DEF Moves, TaskRecords, Asking
  <2>4. c \in 0..k BY <2>1
  <2>5. RecordFits(t, smbTask[t], logins)' BY <1>1, <2>1, <2>3, <2>4, LockParts DEF RecordFits, Asking
  <2>6. smbTask[t].as \in Somebody BY LockParts DEF TaskRecords
  <2> QED BY <1>1, <1>3, <2>3, <2>4, <2>5, <2>6, LoginStep DEF k, c, Holding
<1> QED BY <1>2, <1>3 DEF Relogin

(* A lock is taken when nobody has it. *)
LEMMA LockLocks == ASSUME LockInv, NEW t \in Tasks, Lock(t) PROVE LockInv'
<1> DEFINE k == smbTask[t].n
<1>1. /\ smbTask[t].pc = "lock" /\ holder[k] = Nobody /\ holder' = [holder EXCEPT ![k] = t] /\ SmbGoto(t, "open")
      /\ UNCHANGED <<locations, openedAs, creds, current, conn, logins, smbScene>>
  BY DEF Lock, SmbAt
<1>2. k \in Conns BY <1>1, LockParts DEF RecordFits
<1>3. /\ Moves(t) /\ smbTask'[t].pc = "open" /\ smbTask'[t].n = k /\ smbTask'[t].old = smbTask[t].old
      /\ smbTask'[t].share = smbTask[t].share /\ smbTask'[t].call = smbTask[t].call
  BY <1>1, GotoFits DEF Asking
<1>4. RecordFits(t, smbTask[t], logins)' BY <1>1, <1>2, <1>3, LockParts DEF RecordFits, Asking
<1>5. holder \in [Conns -> Tasks \cup {Nobody}] /\ \A n \in Conns : holder[n] # t
  BY <1>1 DEF LockInv, SmbTypes, TaskFits, LocksFit, Holding
<1> HIDE DEF k
<1>6. holder' \in [Conns -> Tasks \cup {Nobody}] /\ holder'[k] = t /\ \A n \in Conns \ {k} : holder'[n] = holder[n]
  BY <1>1, <1>2, <1>5
<1>7. LocksFit(t)' BY <1>2, <1>3, <1>5, <1>6 DEF LocksFit, Holding
<1>8. conn' \in [Conns -> Connections] /\ TreesAreDated' /\ current' \in 0..logins
  BY <1>1 DEF LockInv, SmbTypes, TreesAreDated
<1>9. \A n \in Conns : holder'[n] = holder[n] \/ {holder[n], holder'[n]} \subseteq {t, Nobody}
  BY <1>1, <1>6
<1> QED BY <1>1, <1>3, <1>4, <1>6, <1>7, <1>8, <1>9, ConnStep DEF TaskFits

(* What a task has locked, it may change. *)
LEMMA HeldFacts ==
    ASSUME LockInv, NEW t \in Tasks, smbTask[t].pc \in Holding
    PROVE  /\ smbTask[t].n \in Conns /\ holder[smbTask[t].n] = t /\ smbTask[t].share \in Shares
           /\ smbTask[t].n \in 0..logins /\ smbTask[t].old \in 0..logins /\ conn[smbTask[t].n] \in Connections
           /\ \A n \in Conns \ {smbTask[t].n} : holder[n] # t
  BY DEF LockInv, SmbTypes, TaskFits, RecordFits, LocksFit, Holding

(* The holder of a lock changes its connection, and keeps the lock. *)
LEMMA HeldStep ==
    ASSUME LockInv, NEW t \in Tasks, Moves(t), smbTask[t].pc \in Holding,
           UNCHANGED <<locations, openedAs, creds, current, logins, holder, smbScene>>,
           NEW c \in Connections, conn' = [conn EXCEPT ![smbTask[t].n] = c],
           \A s \in Shares : c.tree[s].of = c.tree[s].recorded,
           smbTask'[t].pc \in Holding, smbTask'[t].n = smbTask[t].n, smbTask'[t].share = smbTask[t].share,
           smbTask'[t].pc = "request" => c.tree[smbTask[t].share].of = c.gen,
           RecordFits(t, smbTask[t], logins)'
    PROVE  LockInv'
<1> DEFINE k == smbTask[t].n
<1>1. k \in Conns /\ holder[k] = t /\ \A n \in Conns \ {k} : holder[n] # t BY HeldFacts
<1>2. conn \in [Conns -> Connections] /\ TreesAreDated /\ holder \in [Conns -> Tasks \cup {Nobody}] /\ current \in 0..logins
  BY DEF LockInv, SmbTypes
<1>3. conn' = [conn EXCEPT ![k] = c] OBVIOUS
<1> HIDE DEF k
<1>4. conn' \in [Conns -> Connections] /\ conn'[k] = c /\ \A n \in Conns \ {k} : conn'[n] = conn[n]
  BY <1>1, <1>2, <1>3
<1>5. TreesAreDated' BY <1>1, <1>2, <1>4 DEF TreesAreDated
<1>6. LocksFit(t)' BY <1>1, <1>4 DEF LocksFit, k
<1>7. \A n \in Conns : conn'[n] = conn[n] \/ holder[n] \in {t, Nobody} BY <1>1, <1>4
<1> QED BY <1>2, <1>4, <1>5, <1>6, <1>7, ConnStep DEF TaskFits

(* The holder of a lock changes its connection, and gives the lock up. *)
LEMMA ReleaseStep ==
    ASSUME LockInv, NEW t \in Tasks, Moves(t), smbTask[t].pc \in Holding,
           UNCHANGED <<locations, openedAs, creds, current, logins, smbScene>>,
           holder' = [holder EXCEPT ![smbTask[t].n] = Nobody],
           NEW c \in Connections, conn' = [conn EXCEPT ![smbTask[t].n] = c],
           \A s \in Shares : c.tree[s].of = c.tree[s].recorded,
           smbTask'[t].pc \notin Holding, RecordFits(t, smbTask[t], logins)'
    PROVE  LockInv'
<1> DEFINE k == smbTask[t].n
<1>1. k \in Conns /\ holder[k] = t /\ \A n \in Conns \ {k} : holder[n] # t BY HeldFacts
<1>2. conn \in [Conns -> Connections] /\ TreesAreDated /\ holder \in [Conns -> Tasks \cup {Nobody}] /\ current \in 0..logins
  BY DEF LockInv, SmbTypes
<1>3. conn' = [conn EXCEPT ![k] = c] OBVIOUS
<1>11. holder' = [holder EXCEPT ![k] = Nobody] OBVIOUS
<1> HIDE DEF k
<1>4. conn' \in [Conns -> Connections] /\ conn'[k] = c /\ \A n \in Conns \ {k} : conn'[n] = conn[n]
  BY <1>1, <1>2, <1>3
<1>5. /\ holder' \in [Conns -> Tasks \cup {Nobody}] /\ holder'[k] = Nobody
      /\ \A n \in Conns \ {k} : holder'[n] = holder[n]
  BY <1>1, <1>2, <1>11
<1>6. TreesAreDated' BY <1>1, <1>2, <1>4 DEF TreesAreDated
<1>7. t # Nobody BY SmbAssumption DEF Tasks
<1>8. LocksFit(t)' BY <1>1, <1>5, <1>7 DEF LocksFit, Holding
<1>9. \A n \in Conns : conn'[n] = conn[n] \/ holder[n] \in {t, Nobody} BY <1>1, <1>4
<1>10. \A n \in Conns : holder'[n] = holder[n] \/ {holder[n], holder'[n]} \subseteq {t, Nobody}
  BY <1>1, <1>5
<1> QED BY <1>2, <1>4, <1>5, <1>6, <1>8, <1>9, <1>10, ConnStep DEF TaskFits

(* The connection after a call: of another session maybe, its tree recorded or not, or dead. *)
LEMMA RememberedTree ==
    ASSUME NEW c \in Connections, \A s \in Shares : c.tree[s].of = c.tree[s].recorded, NEW s \in Shares, NEW g \in Nat
    PROVE  /\ Remembered(c, s, g) \in Connections /\ Remembered(c, s, g).gen = g
           /\ Remembered(c, s, g).user = c.user /\ Remembered(c, s, g).tree[s].of = g
           /\ \A q \in Shares : Remembered(c, s, g).tree[q].of = Remembered(c, s, g).tree[q].recorded
  BY DEF Remembered, Connections, Trees

(* The sessions a connection may go on with are numbered. *)
LEMMA GenerationsAreNumbers == ASSUME NEW c \in Connections, NEW g \in Generations(c) PROVE g \in Nat
  BY DEF Generations, Connections

(* A request that fails may leave a session begun anew, and gives the lock up, *)
LEMMA RequestFailedLocks ==
    ASSUME LockInv, NEW t \in Tasks, smbTask[t].pc \in Holding, RequestFailed(t),
           UNCHANGED <<locations, openedAs, creds, current, logins, smbScene>>
    PROVE  LockInv'
<1> DEFINE old == conn[smbTask[t].n]
<1>1. PICK g \in Generations(old) : conn' = [conn EXCEPT ![smbTask[t].n].gen = g] BY DEF RequestFailed
<1>2. old \in Connections /\ \A s \in Shares : old.tree[s].of = old.tree[s].recorded
  BY HeldFacts DEF LockInv, TreesAreDated
<1>3. g \in Nat BY <1>2, GenerationsAreNumbers
<1> DEFINE c == [old EXCEPT !.gen = g]
<1>4. conn' = [conn EXCEPT ![smbTask[t].n] = c] BY <1>1
<1> HIDE DEF old
<1>5. c \in Connections /\ \A s \in Shares : c.tree[s].of = c.tree[s].recorded
  BY <1>2, <1>3 DEF Connections
<1> HIDE DEF c
<1>6. Ended(t, TRUE) /\ holder' = [holder EXCEPT ![smbTask[t].n] = Nobody] BY DEF RequestFailed
<1>7. Moves(t) /\ smbTask'[t].pc \in {"idle", "checked"} /\ RecordFits(t, smbTask[t], logins)'
  <2>1. smbTask[t].pc # "idle" /\ logins' \in Nat /\ logins <= logins' /\ smbScene' = smbScene /\ TRUE \in BOOLEAN
    BY LockParts DEF Holding
  <2> QED BY <1>6, <2>1, EndedFits
<1>8. smbTask'[t].pc \notin Holding BY <1>7 DEF Holding
<1> QED BY <1>4, <1>5, <1>6, <1>7, <1>8, ReleaseStep

(* and one whose connection dies marks it, under the same lock. *)
LEMMA DiedLocks ==
    ASSUME LockInv, NEW t \in Tasks, smbTask[t].pc \in Holding, Died(t),
           UNCHANGED <<locations, openedAs, creds, current, logins, smbScene>>
    PROVE  LockInv'
<1> DEFINE old == conn[smbTask[t].n]
           c == [old EXCEPT !.dead = TRUE]
<1>1. conn' = [conn EXCEPT ![smbTask[t].n] = c] /\ holder' = [holder EXCEPT ![smbTask[t].n] = Nobody] /\ SmbGoto(t, "drop")
  BY DEF Died
<1>2. old \in Connections /\ \A s \in Shares : old.tree[s].of = old.tree[s].recorded
  BY HeldFacts DEF LockInv, TreesAreDated
<1> HIDE DEF old
<1>3. c \in Connections /\ \A s \in Shares : c.tree[s].of = c.tree[s].recorded BY <1>2 DEF Connections
<1> HIDE DEF c
<1>4. /\ Moves(t) /\ smbTask'[t].pc = "drop" /\ smbTask'[t].n = smbTask[t].n /\ smbTask'[t].old = smbTask[t].old
      /\ smbTask'[t].share = smbTask[t].share /\ smbTask'[t].call = smbTask[t].call
  BY <1>1, GotoFits DEF Asking
<1>5. RecordFits(t, smbTask[t], logins)' /\ smbTask'[t].pc \notin Holding
  BY <1>4, LockParts DEF RecordFits, Asking, Holding
<1> QED BY <1>1, <1>3, <1>4, <1>5, ReleaseStep

(* A request is sent on a tree that is the session's: one that was recorded with it, or one
   that was opened in it. *)
LEMMA OpenTreeLocks == ASSUME LockInv, NEW t \in Tasks, OpenTree(t) PROVE LockInv'
<1> DEFINE n == smbTask[t].n
           s == smbTask[t].share
<1>1. smbTask[t].pc = "open" /\ UNCHANGED <<locations, openedAs, creds, current, logins, smbScene>>
  BY DEF OpenTree, SmbAt
<1>2. smbTask[t].pc \in Holding BY <1>1 DEF Holding
<1>3. /\ n \in Conns /\ s \in Shares /\ conn[n] \in Connections /\ conn \in [Conns -> Connections]
      /\ \A q \in Shares : conn[n].tree[q].of = conn[n].tree[q].recorded
  BY <1>2, HeldFacts DEF LockInv, SmbTypes, TreesAreDated
<1>4. ASSUME SmbGoto(t, "request"), UNCHANGED holder, NEW c \in Connections, conn' = [conn EXCEPT ![n] = c],
             \A q \in Shares : c.tree[q].of = c.tree[q].recorded, c.tree[s].of = c.gen
      PROVE  LockInv'
  <2>1. /\ Moves(t) /\ smbTask'[t].pc = "request" /\ smbTask'[t].n = n /\ smbTask'[t].old = smbTask[t].old
        /\ smbTask'[t].share = s /\ smbTask'[t].call = smbTask[t].call
    BY <1>4, GotoFits DEF Asking
  <2>2. RecordFits(t, smbTask[t], logins)' BY <1>1, <1>3, <2>1, LockParts DEF RecordFits, Asking
  <2>3. smbTask'[t].pc \in Holding BY <2>1 DEF Holding
  <2> QED BY <1>1, <1>2, <1>4, <2>1, <2>2, <2>3, HeldStep
<1>5. CASE Usable(conn[n], s) /\ SmbGoto(t, "request") /\ UNCHANGED <<conn, holder>>
  BY <1>3, <1>5, <1>4 DEF Usable
<1>6. CASE /\ \E g \in Generations(conn[n]) : conn' = [conn EXCEPT ![n] = Remembered(@, s, g)]
           /\ SmbGoto(t, "request") /\ UNCHANGED holder
  <2>1. PICK g \in Generations(conn[n]) : conn' = [conn EXCEPT ![n] = Remembered(conn[n], s, g)] BY <1>6
  <2>2. g \in Nat BY <1>3, GenerationsAreNumbers
  <2> DEFINE c == Remembered(conn[n], s, g)
  <2>3. /\ c \in Connections /\ c.gen = g /\ c.tree[s].of = g
        /\ \A q \in Shares : c.tree[q].of = c.tree[q].recorded
    BY <1>3, <2>2, RememberedTree
  <2> HIDE DEF c
  <2> QED BY <1>4, <1>6, <2>1, <2>3 DEF c
<1>7. CASE RequestFailed(t) BY <1>1, <1>2, <1>7, RequestFailedLocks
<1>8. CASE Died(t) BY <1>1, <1>2, <1>8, DiedLocks
<1> QED BY <1>5, <1>6, <1>7, <1>8 DEF OpenTree

(* A request is answered, fails, or finds its connection dead. *)
LEMMA SmbRequestLocks == ASSUME LockInv, NEW t \in Tasks, SmbRequest(t) PROVE LockInv'
<1> DEFINE n == smbTask[t].n
           s == smbTask[t].share
<1>1. smbTask[t].pc = "request" /\ UNCHANGED <<locations, openedAs, creds, current, logins, smbScene>>
  BY DEF SmbRequest, SmbAt
<1>2. smbTask[t].pc \in Holding BY <1>1 DEF Holding
<1>3. CASE /\ \E g \in Generations(conn[n]) : conn' = [conn EXCEPT ![n] = Remembered(@, s, g)]
           /\ \E failed \in BOOLEAN : Ended(t, failed)
           /\ holder' = [holder EXCEPT ![n] = Nobody]
  <2>1. PICK g \in Generations(conn[n]) : conn' = [conn EXCEPT ![n] = Remembered(conn[n], s, g)] BY <1>3
  <2>2. /\ n \in Conns /\ s \in Shares /\ conn[n] \in Connections
        /\ \A q \in Shares : conn[n].tree[q].of = conn[n].tree[q].recorded
    BY <1>2, HeldFacts DEF LockInv, SmbTypes, TreesAreDated
  <2>3. g \in Nat BY <2>2, GenerationsAreNumbers
  <2> DEFINE c == Remembered(conn[n], s, g)
  <2>4. c \in Connections /\ \A q \in Shares : c.tree[q].of = c.tree[q].recorded
    BY <2>2, <2>3, RememberedTree
  <2> HIDE DEF c
  <2>5. Moves(t) /\ smbTask'[t].pc \in {"idle", "checked"} /\ RecordFits(t, smbTask[t], logins)'
    BY <1>1, LockParts, <1>3, EndedFits
  <2>6. smbTask'[t].pc \notin Holding BY <2>5 DEF Holding
  <2> QED BY <1>1, <1>2, <1>3, <2>1, <2>4, <2>5, <2>6, ReleaseStep DEF c
<1>4. CASE RequestFailed(t) BY <1>1, <1>2, <1>4, RequestFailedLocks
<1>5. CASE Died(t) BY <1>1, <1>2, <1>5, DiedLocks
<1> QED BY <1>3, <1>4, <1>5 DEF SmbRequest

(* Whoever is at work: every step keeps locks and trees. *)
LEMMA SmbNextLocks == ASSUME LockInv, [SmbNext]_smbVars PROVE LockInv'
<1>1. ASSUME NEW t \in Tasks, SmbTaskStep(t) PROVE LockInv'
  BY <1>1, LogInLocks, RememberLocks, InsertLocks, OpenLocks, CheckFailedLocks, ClosedLocks,
    ForgetLocks, RemoveLocks, CloseLocks, ServerLocks, ReloginLocks, LockLocks, OpenTreeLocks,
    SmbRequestLocks, DropLocks DEF SmbTaskStep
<1>2. CASE UNCHANGED smbVars
  BY <1>2 DEF smbVars, LockInv, SmbTypes, TreesAreDated, TaskFits, RecordFits, LocksFit
<1> QED BY <1>1, <1>2, ConnectLocks, DisconnectLocks, BrowseLocks DEF SmbNext

-------------------------------------------------------------------------------
(* One at a time. *)

(* At the start no location is open and no login kept. *)
LEMMA SmbInitSolo == SmbInit => SoloInv /\ AloneInv
<1> SUFFICES ASSUME SmbInit PROVE SoloInv /\ AloneInv OBVIOUS
<1>1. \A t \in Clients : smbTask[t].pc = "idle" BY IdleRecord DEF SmbInit, Tasks
<1>2. SoloInv BY <1>1 DEF SmbInit, SoloInv, AtWork, ClientFits, Asking, Leaving
<1>3. AloneInv BY <1>1 DEF SmbInit, AloneInv, AtWork, ConnectionFits, HasLogin, LoggedOut
<1> QED BY <1>2, <1>3

(* A step of the one client at work keeps what is said of clients, *)
LEMMA SoloStep ==
    ASSUME SoloInv, NEW t \in Clients, Moves(t), \A u \in Clients \ {t} : ~AtWork(u), ClientFits(t)',
           \A s \in locations' : creds' # Nobody /\ creds' = openedAs'[s]
    PROVE  SoloInv'
<1>1. \A u \in Clients \ {t} : smbTask'[u].pc = "idle" BY DEF Moves, AtWork, Tasks
<1>2. \A u \in Clients : ClientFits(u)' BY <1>1 DEF ClientFits, AtWork, Asking, Leaving
<1>3. (\A u, v \in Clients : AtWork(u) /\ AtWork(v) => u = v)' BY <1>1 DEF AtWork
<1> QED BY <1>2, <1>3 DEF SoloInv

(* and of the connection kept. *)
LEMMA AloneStep ==
    ASSUME AloneInv, NEW t \in Clients, Moves(t), \A u \in Clients \ {t} : ~AtWork(u), ConnectionFits(t)',
           current' # 0 /\ creds' # Nobody => conn'[current'].user = creds',
           locations' = {} /\ smbTask'[t].pc = "idle" => LoggedOut'
    PROVE  AloneInv'
<1>1. \A u \in Clients \ {t} : smbTask'[u].pc = "idle" BY DEF Moves, AtWork, Tasks
<1>2. \A u \in Clients : ConnectionFits(u)' BY <1>1 DEF ConnectionFits, HasLogin
<1>3. (locations = {} /\ (\A u \in Clients : ~AtWork(u)) => LoggedOut)' BY DEF AtWork
<1> QED BY <1>2, <1>3 DEF AloneInv

(* With one at a time, who begins is alone. *)
LEMMA NobodyAtWork ==
    ASSUME LockInv, smbScene.together = 1, Cardinality(LoggingIn) < smbScene.together
    PROVE  \A u \in Clients : smbTask[u] = Idle /\ ~AtWork(u)
BY FS_Subset, SmbAssumption, FS_CardinalityType, FS_EmptySet, IdleRecord DEF LoggingIn, AtWork

(* A client at work is the only one. *)
LEMMA AloneAtWork == ASSUME SoloInv, NEW t \in Clients, AtWork(t) PROVE \A u \in Clients \ {t} : ~AtWork(u)
  BY DEF SoloInv

(* A request leaves locations and credentials, and the users of the connections there are; it
   may keep another, or none. *)
AskStep(t) == Server(t) \/ Relogin(t) \/ Lock(t) \/ OpenTree(t) \/ SmbRequest(t) \/ Drop(t)
Asks(t) ==
    /\ Moves(t) /\ UNCHANGED <<locations, openedAs, creds, smbScene>> /\ logins <= logins'
    /\ smbTask[t].pc \in Asking
    /\ t \in Clients => smbTask'[t].pc \in Asking
    /\ smbTask'[t].pc # "idle" => smbTask'[t].call = smbTask[t].call /\ smbTask'[t].user = smbTask[t].user
    /\ smbTask'[t].pc = "relogin" => smbTask'[t].as = creds
    /\ \A n \in 1..logins : conn'[n].user = conn[n].user
    /\ current' \in {0, current} \/ (smbTask[t].pc = "relogin" /\ conn'[current'].user = smbTask[t].as)

(* A request that ends is checked by the connect it is of. *)
LEMMA EndedAsks ==
    ASSUME LockInv, NEW t \in Tasks, NEW failed \in BOOLEAN, Ended(t, failed), smbTask[t].pc # "idle"
    PROVE  /\ Moves(t) /\ smbTask'[t].pc \in {"idle", "checked"} /\ (t \in Clients => smbTask'[t].pc = "checked")
           /\ smbTask'[t].pc # "idle" => smbTask'[t].call = smbTask[t].call /\ smbTask'[t].user = smbTask[t].user
<1>1. smbTask[t].call = "browse" <=> t \in Browsers BY LockParts DEF RecordFits
<1>2. t \in Clients => t \notin Browsers BY SmbAssumption
<1>3. CASE smbTask[t].call = "browse"
  BY <1>3, <1>1, <1>2, IdleRecord, LockParts DEF Ended, Return, Moves
<1>4. CASE smbTask[t].call # "browse" BY <1>4, LockParts DEF Ended, Moves, TaskRecords, Asking
<1> QED BY <1>3, <1>4

(* Each step of a request is one of those. *)
LEMMA AskStepAsks == ASSUME LockInv, NEW t \in Tasks, AskStep(t) PROVE Asks(t)
<1>1. /\ logins \in Nat /\ conn \in [Conns -> Connections] /\ smbTask \in [Tasks -> TaskRecords] /\ TRUE \in BOOLEAN
      /\ logins \in 0..MaxConns /\ current \in 0..logins
  BY LockParts DEF LockInv, SmbTypes
<1>2. CASE Server(t)
  <2>1. /\ smbTask[t].pc = "server" /\ logins <= logins
        /\ UNCHANGED <<locations, openedAs, creds, current, conn, logins, holder, smbScene>>
    BY <1>1, <1>2 DEF Server, SmbAt
  <2>2. CASE smbTask' = [smbTask EXCEPT ![t].n = current, ![t].pc = "lock"]
    BY <1>1, <2>2, <2>1 DEF Moves, TaskRecords, Asking, Asks
  <2>3. CASE Ended(t, TRUE) BY <1>1, <2>1, <2>3, EndedAsks DEF Asks, Asking
  <2>4. CASE smbTask' = [smbTask EXCEPT ![t].as = creds, ![t].pc = "relogin"]
    BY <1>1, <2>4, LockParts, <2>1 DEF Moves, TaskRecords, Asking, Asks
  <2> QED BY <1>2, <2>2, <2>3, <2>4 DEF Server
<1>3. CASE Relogin(t)
  <2>1. smbTask[t].pc = "relogin" /\ UNCHANGED <<locations, openedAs, creds, holder, smbScene>>
    BY <1>3 DEF Relogin, SmbAt
  <2>2. CASE Ended(t, TRUE) /\ UNCHANGED <<current, conn, logins>>
    <3>1. logins <= logins' BY <1>1, <2>2
    <3> QED BY <1>1, <2>1, <2>2, <3>1, EndedAsks DEF Asks, Asking
  <2>3. CASE /\ LoggedIn(smbTask[t].as) /\ current' = IF current = 0 THEN logins + 1 ELSE current
             /\ smbTask' = [smbTask EXCEPT ![t].n = current', ![t].pc = "lock"]
    <3> DEFINE c == current'
    <3>1. smbTask' = [smbTask EXCEPT ![t].n = c, ![t].pc = "lock"] BY <2>3
    <3>2. c \in Int BY <1>1, <2>3
    <3> HIDE DEF c
    <3>3. /\ Moves(t) /\ smbTask'[t].pc = "lock" /\ smbTask'[t].call = smbTask[t].call
          /\ smbTask'[t].user = smbTask[t].user
      BY <1>1, <3>1, <3>2, ZenonT(30) DEF Moves, TaskRecords, Asking
    <3>4. /\ logins' = logins + 1 /\ logins <= logins' /\ logins + 1 \in Conns
          /\ conn' = [conn EXCEPT ![logins + 1] = NewConn(smbTask[t].as)]
      BY <1>1, <2>3, LockParts DEF LoggedIn, Conns
    <3>5. NewConn(smbTask[t].as).user = smbTask[t].as BY DEF NewConn
    <3>6. \A n \in 1..logins : conn'[n].user = conn[n].user BY <1>1, <3>4, LockParts
    <3>7. current' = current \/ conn'[current'].user = smbTask[t].as BY <1>1, <2>3, <3>4, <3>5
    <3> QED BY <2>1, <3>3, <3>4, <3>6, <3>7 DEF Asks, Asking
  <2> QED BY <1>3, <2>2, <2>3 DEF Relogin
<1>4. CASE Lock(t) BY <1>4, GotoFits, <1>1 DEF Lock, SmbAt, Asking, Asks
<1>5. ASSUME OpenTree(t) \/ SmbRequest(t) PROVE Asks(t)
  <2>1. smbTask[t].pc \in Holding /\ UNCHANGED <<locations, openedAs, creds, current, logins, smbScene>>
    BY <1>5 DEF OpenTree, SmbRequest, SmbAt, Holding
  <2>2. /\ logins <= logins' /\ smbTask[t].pc \in Asking /\ smbTask[t].pc # "idle"
    BY <1>1, <2>1 DEF Holding, Asking
  <2>3. smbTask[t].n \in Conns /\ conn[smbTask[t].n] \in Connections /\ smbTask[t].share \in Shares
    BY <2>1, HeldFacts
  <2>4. \A n \in Conns : conn'[n].user = conn[n].user
    <3>1. CASE UNCHANGED conn BY <3>1
    <3>2. CASE \E g \in Generations(conn[smbTask[t].n]) :
                  conn' = [conn EXCEPT ![smbTask[t].n] = Remembered(@, smbTask[t].share, g)]
      BY <3>2, <2>3, <1>1 DEF Remembered, Connections
    <3>3. CASE RequestFailed(t) BY <1>1, <2>3, <3>3 DEF RequestFailed, Connections
    <3>4. CASE Died(t) BY <1>1, <2>3, <3>4 DEF Died, Connections
    <3> QED BY <1>5, <3>1, <3>2, <3>3, <3>4 DEF OpenTree, SmbRequest
  <2>5. /\ Moves(t) /\ smbTask'[t].pc \in {"idle", "checked", "request", "drop"}
        /\ t \in Clients => smbTask'[t].pc # "idle"
        /\ smbTask'[t].pc # "idle" => smbTask'[t].call = smbTask[t].call /\ smbTask'[t].user = smbTask[t].user
    <3>1. CASE SmbGoto(t, "request") \/ SmbGoto(t, "drop") BY <3>1, GotoFits DEF Asking
    <3>2. CASE \E failed \in BOOLEAN : Ended(t, failed) BY <2>2, <3>2, EndedAsks
    <3> QED BY <1>1, <1>5, <3>1, <3>2 DEF OpenTree, SmbRequest, RequestFailed, Died
  <2>6. \A n \in 1..logins : conn'[n].user = conn[n].user BY <2>4, LockParts
  <2> QED BY <2>1, <2>2, <2>5, <2>6 DEF Asks, Asking
<1>6. CASE Drop(t)
  <2>1. /\ smbTask[t].pc = "drop" /\ UNCHANGED <<locations, openedAs, creds, conn, logins, holder, smbScene>>
        /\ current' = 0 /\ Ended(t, TRUE)
    BY <1>6 DEF Drop, SmbAt
  <2>2. logins <= logins' BY <1>1, <2>1
  <2> QED BY <1>1, <2>1, <2>2, EndedAsks DEF Asks, Asking
<1> QED BY <1>2, <1>3, <1>4, <1>5, <1>6 DEF AskStep

(* Requests keep both. *)
LEMMA AsksSolo ==
    ASSUME LockInv, SoloInv, NEW t \in Tasks, Asks(t)
    PROVE  SoloInv' /\ (smbScene.browsers = {} /\ AloneInv => AloneInv')
<1>1. UNCHANGED <<locations, openedAs, creds, smbScene>> /\ Moves(t) /\ AtWork(t)
  BY DEF Asks, AtWork, Asking
<1>2. CASE t \in Clients
  <2>1. \A u \in Clients \ {t} : ~AtWork(u) BY <1>1, <1>2, AloneAtWork
  <2>2. /\ smbTask'[t].pc \in Asking /\ smbTask[t].pc \in Asking
        /\ smbTask'[t].call = smbTask[t].call /\ smbTask'[t].user = smbTask[t].user
    BY <1>2 DEF Asks, Asking
  <2>3. ClientFits(t)' BY <1>1, <1>2, <2>2 DEF SoloInv, ClientFits, AtWork, Asking, Leaving
  <2>4. SoloInv' BY <1>1, <1>2, <2>1, <2>3, SoloStep DEF SoloInv
  <2>5. ASSUME AloneInv PROVE AloneInv'
    <3>1. smbTask[t].pc = "relogin" => smbTask[t].as = creds BY <1>2, <2>5 DEF AloneInv, ConnectionFits
    <3>2. current' # 0 /\ creds' # Nobody => conn'[current'].user = creds'
      <4>1. CASE current' = current /\ current # 0 BY <4>1, LockParts, <1>1, <2>5 DEF Asks, AloneInv
      <4>2. CASE current' # 0 /\ current' # current BY <1>1, <3>1, <4>2 DEF Asks
      <4> QED BY <4>1, <4>2
    <3>3. ConnectionFits(t)' BY <1>1, <2>2 DEF Asks, ConnectionFits, HasLogin, Asking
    <3>4. smbTask'[t].pc # "idle" BY <2>2 DEF Asking
    <3> QED BY <1>1, <1>2, <2>1, <2>5, <3>2, <3>3, <3>4, AloneStep
  <2> QED BY <2>4, <2>5
<1>3. CASE t \notin Clients
  <2>1. \A u \in Clients : smbTask'[u] = smbTask[u] BY <1>1, <1>3 DEF Moves, Tasks
  <2>2. SoloInv' BY <1>1, <2>1 DEF SoloInv, AtWork, ClientFits
  <2>3. smbScene.browsers # {} BY <1>1, <1>3, LockParts DEF RecordFits, AtWork, Tasks
  <2> QED BY <2>2, <2>3
<1> QED BY <1>2, <1>3

(* A new call of a client, when no other is at work. *)
LEMMA ConnectSolo ==
    ASSUME LockInv, SoloInv, smbScene.together = 1, NEW t \in Clients, Connect(t)
    PROVE  SoloInv' /\ (smbScene.browsers = {} /\ AloneInv => AloneInv')
<1>1. \A u \in Clients : ~AtWork(u) BY NobodyAtWork DEF Connect
<1>2. t \in Tasks /\ UNCHANGED <<locations, openedAs, creds, current, conn>> BY DEF Connect, Tasks
<1>3. PICK sh \in smbScene.shares, user \in smbScene.users :
        /\ InUse => MayUse(user)
        /\ smbTask' = [smbTask EXCEPT ![t] = Called("connect", sh, user, IF InUse THEN "server" ELSE "login")]
  BY DEF Connect
<1> DEFINE pc == IF InUse THEN "server" ELSE "login"
           r == Called("connect", sh, user, pc)
<1>4. pc \in {"server", "login"} OBVIOUS
<1>5. (pc = "server" => InUse) /\ (pc = "login" => locations = {}) BY DEF InUse
<1>6. smbTask' = [smbTask EXCEPT ![t] = r] BY <1>3
<1> HIDE DEF pc
<1>7. r \in TaskRecords /\ r.pc = pc /\ r.call = "connect" /\ r.user = user /\ user \in Users
  BY <1>2, LockParts, <1>4 DEF Called, TaskRecords, Somebody, Asking, Leaving
<1> HIDE DEF r
<1>8. Moves(t) /\ smbTask'[t] = r BY <1>2, <1>6, <1>7, LockParts DEF Moves
<1>9. ClientFits(t)' BY <1>2, <1>3, <1>4, <1>5, <1>7, <1>8 DEF ClientFits, MayUse, Asking, Leaving
<1>10. SoloInv' BY <1>1, <1>2, <1>8, <1>9, SoloStep DEF SoloInv
<1>11. ASSUME AloneInv PROVE AloneInv'
  <2>1. ConnectionFits(t)'
    BY <1>1, <1>2, <1>4, <1>5, <1>7, <1>8, <1>11 DEF AloneInv, ConnectionFits, HasLogin, LoggedOut
  <2>2. smbTask'[t].pc # "idle" BY <1>4, <1>7, <1>8
  <2> QED BY <1>1, <1>2, <1>8, <1>11, <2>1, <2>2, AloneStep DEF AloneInv
<1> QED BY <1>10, <1>11

(* A location less is open: the others have their login still. *)
LEMMA DisconnectSolo ==
    ASSUME LockInv, SoloInv, smbScene.together = 1, NEW t \in Clients, Disconnect(t)
    PROVE  SoloInv' /\ (smbScene.browsers = {} /\ AloneInv => AloneInv')
<1>1. \A u \in Clients : ~AtWork(u) BY NobodyAtWork DEF Disconnect
<1>2. t \in Tasks /\ UNCHANGED <<openedAs, creds, current, conn>> /\ locations' \subseteq locations
  BY DEF Disconnect, Tasks
<1>3. PICK sh \in locations : smbTask' = [smbTask EXCEPT ![t] = Called("disconnect", sh, Nobody, "closed")]
  BY DEF Disconnect
<1> DEFINE r == Called("disconnect", sh, Nobody, "closed")
<1>4. r \in TaskRecords /\ r.pc = "closed" /\ r.call = "disconnect"
  BY <1>2, LockParts DEF Called, TaskRecords, Somebody
<1> HIDE DEF r
<1>5. Moves(t) /\ smbTask'[t] = r BY <1>2, <1>3, <1>4, LockParts DEF Moves, r
<1>6. ClientFits(t)' BY <1>4, <1>5 DEF ClientFits, Asking, Leaving
<1>7. SoloInv' BY <1>1, <1>2, <1>5, <1>6, SoloStep DEF SoloInv
<1>8. ASSUME AloneInv PROVE AloneInv'
  BY <1>4, <1>5, <1>1, <1>2, <1>8, AloneStep DEF ConnectionFits, HasLogin, AloneInv
<1> QED BY <1>7, <1>8

(* What a client at work starts from. *)
LEMMA ClientFacts ==
    ASSUME LockInv, SoloInv, NEW t \in Tasks, smbTask[t].pc \in Leaving \cup {"checked", "closed"}
    PROVE  /\ t \in Clients /\ AtWork(t) /\ (\A u \in Clients \ {t} : ~AtWork(u)) /\ ClientFits(t)
           /\ smbTask[t] \in TaskRecords /\ smbTask \in [Tasks -> TaskRecords]
           /\ smbTask[t].n \in 0..logins /\ logins \in Nat /\ 1..logins \subseteq Conns
           /\ \A s \in locations : creds # Nobody /\ creds = openedAs[s]
<1>1. t \notin Browsers /\ AtWork(t) BY LockParts DEF RecordFits, Asking, Leaving, AtWork
<1> QED BY <1>1, LockParts, AloneAtWork DEF SoloInv, Tasks, RecordFits

(* It returns. *)
LEMMA ReturnSolo ==
    ASSUME LockInv, SoloInv, NEW t \in Tasks, smbTask[t].pc \in Leaving \cup {"checked", "closed"}, Return(t),
           \A s \in locations' : creds' # Nobody /\ creds' = openedAs'[s]
    PROVE  /\ SoloInv'
           /\ AloneInv /\ current' \in {0, current} /\ creds' \in {Nobody, creds} /\ (locations' = {} => LoggedOut')
                /\ (\A n \in 1..logins : conn'[n].user = conn[n].user) => AloneInv'
<1>1. Moves(t) /\ smbTask'[t] = Idle BY ClientFacts, IdleRecord DEF Return, Moves
<1>2. ClientFits(t)' /\ ConnectionFits(t)'
  BY <1>1, IdleRecord DEF ClientFits, ConnectionFits, HasLogin, AtWork, Asking, Leaving
<1>3. SoloInv' BY <1>1, <1>2, ClientFacts, SoloStep
<1>4. ASSUME AloneInv, current' \in {0, current}, creds' \in {Nobody, creds}, locations' = {} => LoggedOut',
             \A n \in 1..logins : conn'[n].user = conn[n].user
      PROVE  AloneInv'
  <2>1. current' # 0 /\ creds' # Nobody => conn'[current'].user = creds' BY LockParts, <1>4 DEF AloneInv
  <2> QED BY <1>1, <1>2, <1>4, <2>1, ClientFacts, AloneStep
<1> QED BY <1>3, <1>4

(* It goes on. *)
LEMMA GoOnSolo ==
    ASSUME LockInv, SoloInv, NEW t \in Tasks, smbTask[t].pc \in Leaving \cup {"checked", "closed"}, Moves(t),
           smbTask'[t].pc # "idle", ClientFits(t)', \A s \in locations' : creds' # Nobody /\ creds' = openedAs'[s]
    PROVE  /\ SoloInv'
           /\ AloneInv /\ ConnectionFits(t)' /\ (current' # 0 /\ creds' # Nobody => conn'[current'].user = creds')
                => AloneInv'
  BY ClientFacts, SoloStep, AloneStep

(* A login gives a connection of who connects; one that fails keeps none. *)
LEMMA LogInSolo ==
    ASSUME LockInv, SoloInv, NEW t \in Tasks, LogIn(t)
    PROVE  SoloInv' /\ (AloneInv => AloneInv')
<1>1. /\ smbTask[t].pc = "login" /\ smbTask[t].pc \in Leaving \cup {"checked", "closed"}
      /\ UNCHANGED <<locations, openedAs, creds, current, holder, smbScene>>
  BY DEF LogIn, SmbAt, Leaving
<1>2. locations = {} /\ t \in Clients BY <1>1, ClientFacts DEF ClientFits, Leaving
<1>3. ASSUME AloneInv PROVE LoggedOut' BY <1>1, <1>2, <1>3 DEF AloneInv, ConnectionFits, LoggedOut
<1>4. \A s \in locations' : creds' # Nobody /\ creds' = openedAs'[s] BY <1>1, <1>2
<1>5. CASE Return(t) /\ UNCHANGED <<conn, logins>> BY <1>5, <1>1, <1>3, <1>4, ReturnSolo
<1>6. CASE LoggedIn(smbTask[t].user) /\ smbTask' = [smbTask EXCEPT ![t].n = logins + 1, ![t].pc = "forget"]
  <2> DEFINE k == logins + 1
  <2>1. /\ Moves(t) /\ smbTask'[t].pc = "forget" /\ smbTask'[t].n = k /\ smbTask'[t].call = smbTask[t].call
        /\ smbTask'[t].user = smbTask[t].user
    BY <1>1, <1>6, ClientFacts DEF Moves, TaskRecords, Leaving
  <2>2. k \in Conns /\ conn' = [conn EXCEPT ![k] = NewConn(smbTask[t].user)] /\ conn \in [Conns -> Connections]
    BY <1>6, LockParts DEF LoggedIn, Conns, LockInv, SmbTypes
  <2> HIDE DEF k
  <2>3. conn'[k].user = smbTask[t].user BY <2>2 DEF NewConn
  <2>4. ClientFits(t)' BY <1>1, <1>2, <2>1, ClientFacts DEF ClientFits, AtWork, Asking, Leaving
  <2>5. ConnectionFits(t)' BY <2>1, <2>2, <2>3 DEF ConnectionFits, HasLogin
  <2> QED BY <1>1, <1>3, <1>4, <2>1, <2>4, <2>5, GoOnSolo DEF LoggedOut
<1> QED BY <1>5, <1>6 DEF LogIn

(* The login is remembered as the one of who connects, *)
LEMMA RememberSolo ==
    ASSUME LockInv, SoloInv, NEW t \in Tasks, Remember(t)
    PROVE  SoloInv' /\ (AloneInv => AloneInv')
<1>1. /\ smbTask[t].pc = "remember" /\ smbTask[t].pc \in Leaving \cup {"checked", "closed"}
      /\ UNCHANGED <<locations, openedAs, current, conn, logins, holder, smbScene>> /\ creds' = smbTask[t].user
      /\ SmbGoto(t, "insert")
  BY DEF Remember, SmbAt, Leaving
<1>2. locations = {} /\ t \in Clients /\ smbTask[t].call = "connect" /\ smbTask[t].user \in Users
  BY <1>1, ClientFacts DEF ClientFits, Leaving
<1>3. /\ Moves(t) /\ smbTask'[t].pc = "insert" /\ smbTask'[t].n = smbTask[t].n /\ smbTask'[t].call = smbTask[t].call
      /\ smbTask'[t].user = smbTask[t].user
  BY <1>1, GotoFits DEF Leaving
<1>4. ClientFits(t)' BY <1>1, <1>2, <1>3 DEF ClientFits, Asking
<1>5. ASSUME AloneInv PROVE ConnectionFits(t)' /\ current' = 0
  BY <1>1, <1>2, <1>3, <1>5 DEF AloneInv, ConnectionFits, HasLogin
<1>6. \A s \in locations' : creds' # Nobody /\ creds' = openedAs'[s] BY <1>1, <1>2
<1> QED BY <1>1, <1>3, <1>4, <1>5, <1>6, GoOnSolo

(* and its connection kept. *)
LEMMA InsertSolo ==
    ASSUME LockInv, SoloInv, NEW t \in Tasks, Insert(t)
    PROVE  SoloInv' /\ (AloneInv => AloneInv')
<1>1. /\ smbTask[t].pc = "insert" /\ smbTask[t].pc \in Leaving \cup {"checked", "closed"}
      /\ UNCHANGED <<locations, openedAs, creds, conn, logins, holder, smbScene>> /\ current' = smbTask[t].n
      /\ smbTask' = [smbTask EXCEPT ![t].n = 0, ![t].pc = "server"]
  BY DEF Insert, SmbAt, Leaving
<1>2. locations = {} /\ t \in Clients /\ smbTask[t].call = "connect" /\ smbTask[t].user \in Users /\ creds = smbTask[t].user
  BY <1>1, ClientFacts DEF ClientFits, Leaving
<1>3. Moves(t) /\ smbTask'[t].pc = "server" /\ smbTask'[t].call = smbTask[t].call /\ smbTask'[t].user = smbTask[t].user
  BY <1>1, ClientFacts DEF Moves, TaskRecords, Asking
<1>4. ClientFits(t)' BY <1>1, <1>2, <1>3 DEF ClientFits, Leaving
<1>5. ASSUME AloneInv PROVE ConnectionFits(t)' /\ conn'[current'].user = creds'
  BY <1>1, <1>2, <1>3, <1>5 DEF AloneInv, ConnectionFits, HasLogin
<1>6. \A s \in locations' : creds' # Nobody /\ creds' = openedAs'[s] BY <1>1, <1>2
<1> QED BY <1>1, <1>3, <1>4, <1>5, <1>6, GoOnSolo

(* The location that is opened has the login of who opened it. *)
LEMMA OpenSolo ==
    ASSUME LockInv, SoloInv, NEW t \in Tasks, Open(t)
    PROVE  SoloInv' /\ (AloneInv => AloneInv')
<1>1. /\ smbTask[t].pc = "checked" /\ smbTask[t].pc \in Leaving \cup {"checked", "closed"} /\ Return(t)
      /\ locations' = locations \cup {smbTask[t].share} /\ UNCHANGED <<creds, current, conn, logins, holder, smbScene>>
      /\ openedAs' = [openedAs EXCEPT ![smbTask[t].share] = smbTask[t].user]
  BY DEF Open, SmbAt
<1>2. creds = smbTask[t].user /\ smbTask[t].user \in Users /\ smbTask[t].user # Nobody
  BY <1>1, ClientFacts, SmbAssumption DEF ClientFits, AtWork, Asking
<1>3. \A s \in locations : creds # Nobody /\ creds = openedAs[s] BY <1>1, ClientFacts
<1>4. smbTask[t].share \in Shares /\ openedAs \in [Shares -> Somebody] /\ locations \subseteq Shares
  BY <1>1, LockParts DEF RecordFits
<1>5. \A s \in locations' : creds' # Nobody /\ creds' = openedAs'[s] BY <1>1, <1>2, <1>3, <1>4
<1>6. locations' # {} /\ \A n \in 1..logins : conn'[n].user = conn[n].user BY <1>1
<1> QED BY <1>1, <1>5, <1>6, ReturnSolo

(* A location in use keeps the login it has; without one the failed connect takes its own away. *)
LEMMA CheckFailedSolo ==
    ASSUME LockInv, SoloInv, NEW t \in Tasks, CheckFailed(t)
    PROVE  SoloInv' /\ (AloneInv => AloneInv')
<1>1. /\ smbTask[t].pc = "checked" /\ smbTask[t].pc \in Leaving \cup {"checked", "closed"} /\ smbTask[t].failed
      /\ UNCHANGED <<locations, openedAs, creds, current, conn, logins, holder, smbScene>>
  BY DEF CheckFailed, SmbAt
<1>2. \A s \in locations' : creds' # Nobody /\ creds' = openedAs'[s] BY <1>1, ClientFacts
<1>3. CASE InUse /\ Return(t) BY <1>1, <1>3, <1>2, ReturnSolo DEF InUse
<1>4. CASE ~InUse /\ smbTask' = [smbTask EXCEPT ![t].n = 0, ![t].pc = "forget"]
  <2>1. /\ Moves(t) /\ smbTask'[t].pc = "forget" /\ smbTask'[t].call = smbTask[t].call
        /\ smbTask'[t].user = smbTask[t].user /\ smbTask'[t].failed = smbTask[t].failed
    BY <1>4, LockParts DEF Moves, TaskRecords, Leaving
  <2>2. ClientFits(t)' BY <1>1, <1>4, <2>1, ClientFacts DEF ClientFits, AtWork, InUse, Asking
  <2>3. ConnectionFits(t)' BY <1>1, <2>1 DEF ConnectionFits, HasLogin
  <2>4. AloneInv => (current' # 0 /\ creds' # Nobody => conn'[current'].user = creds')
    BY <1>1 DEF AloneInv
  <2> QED BY <1>1, <1>2, <2>1, <2>2, <2>3, <2>4, GoOnSolo
<1> QED BY <1>3, <1>4 DEF CheckFailed

(* The login stays as long as a location uses it. *)
LEMMA ClosedSolo ==
    ASSUME LockInv, SoloInv, NEW t \in Tasks, Closed(t)
    PROVE  SoloInv' /\ (AloneInv => AloneInv')
<1>1. /\ smbTask[t].pc = "closed" /\ smbTask[t].pc \in Leaving \cup {"checked", "closed"}
      /\ UNCHANGED <<locations, openedAs, creds, current, conn, logins, holder, smbScene>>
  BY DEF Closed, SmbAt
<1>2. \A s \in locations' : creds' # Nobody /\ creds' = openedAs'[s] BY <1>1, ClientFacts
<1>3. CASE InUse /\ Return(t) BY <1>1, <1>3, <1>2, ReturnSolo DEF InUse
<1>4. CASE ~InUse /\ SmbGoto(t, "forget")
  <2>1. /\ Moves(t) /\ smbTask'[t].pc = "forget" /\ smbTask'[t].call = smbTask[t].call
        /\ smbTask'[t].user = smbTask[t].user /\ smbTask'[t].n = smbTask[t].n
    BY <1>4, GotoFits DEF Leaving
  <2>2. smbTask[t].call = "disconnect" BY <1>1, ClientFacts DEF ClientFits
  <2>3. ClientFits(t)' BY <1>1, <1>4, <2>1, <2>2, ClientFacts DEF ClientFits, AtWork, InUse, Asking
  <2>4. ConnectionFits(t)' BY <1>1, <2>1, <2>2 DEF ConnectionFits, HasLogin
  <2>5. AloneInv => (current' # 0 /\ creds' # Nobody => conn'[current'].user = creds')
    BY <1>1 DEF AloneInv
  <2> QED BY <1>1, <1>2, <2>1, <2>3, <2>4, <2>5, GoOnSolo
<1> QED BY <1>3, <1>4 DEF Closed

(* With no location open the login goes, *)
LEMMA ForgetSolo ==
    ASSUME LockInv, SoloInv, NEW t \in Tasks, Forget(t)
    PROVE  SoloInv' /\ (AloneInv => AloneInv')
<1>1. /\ smbTask[t].pc = "forget" /\ smbTask[t].pc \in Leaving \cup {"checked", "closed"}
      /\ UNCHANGED <<locations, openedAs, current, conn, logins, holder, smbScene>> /\ creds' = Nobody
      /\ SmbGoto(t, "remove")
  BY DEF Forget, SmbAt, Leaving
<1>2. locations = {} /\ t \in Clients BY <1>1, ClientFacts DEF ClientFits, Leaving
<1>3. /\ Moves(t) /\ smbTask'[t].pc = "remove" /\ smbTask'[t].n = smbTask[t].n /\ smbTask'[t].call = smbTask[t].call
      /\ smbTask'[t].user = smbTask[t].user /\ smbTask'[t].failed = smbTask[t].failed
  BY <1>1, GotoFits DEF Leaving
<1>4. ClientFits(t)' BY <1>1, <1>2, <1>3, ClientFacts DEF ClientFits, AtWork, Asking
<1>5. ASSUME AloneInv PROVE ConnectionFits(t)'
  BY <1>1, <1>2, <1>3, <1>5 DEF AloneInv, ConnectionFits, HasLogin
<1>6. \A s \in locations' : creds' # Nobody /\ creds' = openedAs'[s] BY <1>1, <1>2
<1> QED BY <1>1, <1>3, <1>4, <1>5, <1>6, GoOnSolo

(* The old connection is gone: a connect goes on with the login it has. *)
LEMMA ForgottenSolo ==
    ASSUME LockInv, SoloInv, NEW t \in Tasks, smbTask[t].pc \in {"remove", "close"}, Forgotten(t),
           UNCHANGED <<locations, openedAs, creds, logins, smbScene>>, current' \in {0, current},
           \A n \in Conns : conn'[n].user = conn[n].user
    PROVE  SoloInv' /\ (AloneInv /\ current' = 0 => AloneInv')
<1>1. smbTask[t].pc \in Leaving \cup {"checked", "closed"} BY DEF Leaving
<1>2. locations = {} /\ t \in Clients BY <1>1, ClientFacts DEF ClientFits, Leaving
<1>3. \A s \in locations' : creds' # Nobody /\ creds' = openedAs'[s] BY <1>2
<1>4. ASSUME AloneInv, current' = 0 PROVE LoggedOut'
  BY <1>2, <1>4 DEF AloneInv, ConnectionFits, LoggedOut
<1>5. CASE Return(t) BY LockParts, <1>1, <1>3, <1>4, <1>5, ReturnSolo
<1>6. CASE /\ smbTask[t].call = "connect" /\ ~smbTask[t].failed
           /\ smbTask' = [smbTask EXCEPT ![t].old = 0, ![t].pc = "remember"]
  <2>1. /\ Moves(t) /\ smbTask'[t].pc = "remember" /\ smbTask'[t].n = smbTask[t].n
        /\ smbTask'[t].call = smbTask[t].call /\ smbTask'[t].user = smbTask[t].user
    BY <1>1, ClientFacts, <1>6 DEF Moves, TaskRecords, Leaving
  <2>2. ClientFits(t)' BY <1>1, <1>2, <1>6, <2>1, ClientFacts DEF ClientFits, AtWork, Asking
  <2>3. ASSUME AloneInv, current' = 0 PROVE ConnectionFits(t)'
    BY <1>2, <1>6, <2>3, <2>1 DEF AloneInv, ConnectionFits, HasLogin
  <2> QED BY <1>1, <1>3, <2>1, <2>2, <2>3, GoOnSolo
<1> QED BY <1>5, <1>6 DEF Forgotten

(* then the connection, *)
LEMMA RemoveSolo ==
    ASSUME LockInv, SoloInv, NEW t \in Tasks, Remove(t)
    PROVE  SoloInv' /\ (AloneInv => AloneInv')
<1>1. /\ smbTask[t].pc = "remove" /\ smbTask[t].pc \in Leaving \cup {"checked", "closed"}
      /\ UNCHANGED <<locations, openedAs, creds, conn, logins, holder, smbScene>> /\ current' = 0
  BY DEF Remove, SmbAt, Leaving
<1>2. CASE Forgotten(t) BY <1>1, <1>2, ForgottenSolo
<1>3. CASE current # 0 /\ smbTask' = [smbTask EXCEPT ![t].old = current, ![t].pc = "close"]
  <2>1. locations = {} /\ t \in Clients BY <1>1, ClientFacts DEF ClientFits, Leaving
  <2>2. /\ Moves(t) /\ smbTask'[t].pc = "close" /\ smbTask'[t].n = smbTask[t].n /\ smbTask'[t].call = smbTask[t].call
        /\ smbTask'[t].user = smbTask[t].user
    BY LockParts, <1>3 DEF Moves, TaskRecords, Leaving
  <2>3. smbTask'[t].failed = smbTask[t].failed BY LockParts, <1>3 DEF TaskRecords
  <2>4. ClientFits(t)' BY <1>1, <2>1, <2>2, ClientFacts DEF ClientFits, AtWork, Asking
  <2>5. ASSUME AloneInv PROVE ConnectionFits(t)'
    BY <1>1, <2>1, <2>2, <2>3, <2>5 DEF AloneInv, ConnectionFits, HasLogin
  <2>6. \A s \in locations' : creds' # Nobody /\ creds' = openedAs'[s] BY <1>1, <2>1
  <2> QED BY <1>1, <2>2, <2>4, <2>5, <2>6, GoOnSolo
<1> QED BY <1>2, <1>3 DEF Remove

(* then its trees, before another login or the return. *)
LEMMA CloseSolo ==
    ASSUME LockInv, SoloInv, NEW t \in Tasks, Close(t)
    PROVE  SoloInv' /\ (AloneInv => AloneInv')
<1>1. /\ smbTask[t].pc = "close" /\ smbTask[t].pc \in Leaving \cup {"checked", "closed"} /\ Forgotten(t)
      /\ UNCHANGED <<locations, openedAs, creds, current, logins, holder, smbScene>>
      /\ conn' = [conn EXCEPT ![smbTask[t].old].tree = [s \in Shares |-> NoTree]]
  BY DEF Close, SmbAt, Leaving
<1>2. \A n \in Conns : conn'[n].user = conn[n].user
  BY <1>1, LockParts DEF LockInv, SmbTypes, RecordFits, Connections
<1>3. AloneInv => current' = 0 BY <1>1, ClientFacts DEF AloneInv, ConnectionFits
<1> QED BY <1>1, <1>2, <1>3, ForgottenSolo

-------------------------------------------------------------------------------
(* The invariant, and what it says. *)

(* Every step keeps the invariant. *)
LEMMA SmbInvKeeps == ASSUME SmbInv, [SmbNext]_smbVars PROVE SmbInv'
<1>1. LockInv' BY SmbNextLocks DEF SmbInv
<1>2. UNCHANGED smbScene
  BY DEF SmbNext, smbVars, Connect, Disconnect, Browse, SmbTaskStep, LogIn, Remember, Insert, Open,
    CheckFailed, Closed, Forget, Remove, Close, Server, Relogin, Lock, OpenTree, SmbRequest, Drop
<1>3. ASSUME smbScene.together = 1 PROVE SoloInv' /\ (smbScene.browsers = {} => AloneInv')
  <2> USE <1>3 DEF SmbInv
  <2>1. ASSUME NEW t \in Tasks, AskStep(t) PROVE SoloInv' /\ (smbScene.browsers = {} => AloneInv')
    BY <2>1, AskStepAsks, AsksSolo
  <2>2. ASSUME NEW t \in Tasks, SmbTaskStep(t), ~AskStep(t) PROVE SoloInv' /\ (smbScene.browsers = {} => AloneInv')
    BY <2>2, LogInSolo, RememberSolo, InsertSolo, OpenSolo, CheckFailedSolo, ClosedSolo, ForgetSolo,
      RemoveSolo, CloseSolo DEF SmbTaskStep, AskStep
  <2>3. ASSUME NEW t \in Clients, Connect(t) \/ Disconnect(t) PROVE SoloInv' /\ (smbScene.browsers = {} => AloneInv')
    BY <2>3, ConnectSolo, DisconnectSolo
  <2>4. ASSUME NEW t \in smbScene.browsers, Browse(t) PROVE SoloInv' /\ (smbScene.browsers = {} => AloneInv')
    <3>1. t \in Browsers /\ \A u \in Clients : u \in Tasks /\ u # t
      BY SmbAssumption DEF LockInv, SmbTypes, Tasks
    <3>2. \A u \in Clients : smbTask'[u] = smbTask[u] BY <2>4, <3>1 DEF Browse, LockInv, SmbTypes
    <3>3. SoloInv' BY <2>4, <3>2 DEF Browse, SoloInv, AtWork, ClientFits
    <3> QED BY <3>3
  <2>5. CASE UNCHANGED smbVars
    BY <2>5 DEF smbVars, SoloInv, AtWork, ClientFits, AloneInv, ConnectionFits, HasLogin, LoggedOut
  <2> QED BY <2>1, <2>2, <2>3, <2>4, <2>5 DEF SmbNext
<1> QED BY <1>1, <1>2, <1>3 DEF SmbInv

(* The invariant says what the run checks. *)
LEMMA InvImpliesLogins == SmbInv => LoginsFollowLocations
<1> SUFFICES ASSUME SmbInv PROVE LoginsFollowLocations OBVIOUS
<1>1. SmbTypeOK /\ RequestsUseLiveTrees BY LocksImplyTypeOK DEF SmbInv
<1>2. StaysLoggedIn /\ KeepsIdentity BY DEF SmbInv, SoloInv, StaysLoggedIn, KeepsIdentity, InUse
<1>3. ServedAsOpened BY DEF SmbInv, SoloInv, AloneInv, ServedAsOpened
<1>4. NothingLingers BY IdleRecord DEF SmbInv, AloneInv, NothingLingers, AtWork, LoggedOut, Tasks
<1> QED BY <1>1, <1>2, <1>3, <1>4 DEF LoginsFollowLocations

(* Whatever dies, is revived or fails: a request goes out on a tree of its session; and with
   connects and disconnects one at a time, the login kept for the server is of who opened its
   locations, and gone with the last of them. *)
THEOREM LoginsAlwaysFollowLocations == SmbSpec => []LoginsFollowLocations
<1>1. SmbInit => SmbInv BY SmbInitLocks, SmbInitSolo DEF SmbInv
<1>2. SmbInv /\ [SmbNext]_smbVars => SmbInv' BY SmbInvKeeps
<1>3. SmbInv => LoginsFollowLocations BY InvImpliesLogins
<1> QED BY <1>1, <1>2, <1>3, PTL DEF SmbSpec

-------------------------------------------------------------------------------
(* RemoteSessions: the connections, the calls, and what the window shows. *)

SessionIds == 1..MaxSessions
SomeSession == SessionIds \cup {None}
CallKinds  == {"none", "connect", "disconnect", "list", "mkdir"}
CallSteps  == {"idle", "begun", "insert", "lookup", "wait", "asked", "done", "failed", "announce",
               "report", "close", "closing"}
Calls      == [call : CallKinds, key : Logins \cup {Home}, pane : Panes \cup {None},
               session : SomeSession, pc : CallSteps]
AnswerKinds == {"connected", "disconnected", "listed", "error"}
AllAnswers == [kind : AnswerKinds, key : Logins \cup {Home}, pane : Panes \cup {None}]
AllSessions == [made : BOOLEAN, open : BOOLEAN, holder : Remotes \cup {None}]

(* Where a call may be. *)
StepsOf(call) ==
    CASE call = "connect" -> {"begun", "insert", "lookup", "wait", "asked", "done", "failed", "announce"}
      [] call = "disconnect" -> {"begun", "close", "closing"}
      [] call \in {"list", "mkdir"} -> {"begun", "wait", "asked", "done", "failed", "report"}
      [] OTHER -> {"idle"}

AnswerSet == {answers[i] : i \in DOMAIN answers}

RemoteTypes ==
    /\ connections \in [Logins -> SomeSession]
    /\ sessions \in [SessionIds -> AllSessions]
    /\ remote \in [Remotes -> Calls]
    /\ answers \in Seq(AllAnswers)
    /\ dialog \in [open : BOOLEAN, busy : BOOLEAN, error : BOOLEAN]
    /\ rows \subseteq Logins
    /\ shown \in [Panes -> Logins \cup {Home}]
    /\ crossed \in BOOLEAN
    /\ mapHolder \in Remotes \cup {None}

CallFits(t) ==
    /\ remote[t].pc \in StepsOf(remote[t].call)
    /\ remote[t].call # "none" => remote[t].key \in Logins
    /\ remote[t].call = "list" => remote[t].pane \in Panes
    /\ remote[t].pc \notin {"idle", "begun", "lookup"} => remote[t].session \in SessionIds

AnswerFits(a) == a.kind # "error" => a.key \in Logins /\ (a.kind = "listed" => a.pane \in Panes)

(* A session is in the map under one key, or on its way into it, or to be closed. *)
Mapped(n)    == \E k \in Logins : connections[k] = n
Inserting(t) == On(t, "connect", "insert")
Closing(t)   == remote[t].call = "disconnect" /\ remote[t].pc \in {"close", "closing"}
SessionsFit ==
    /\ \A k \in Logins : connections[k] # None =>
          sessions[connections[k]].made /\ sessions[connections[k]].open
    /\ \A k, l \in Logins : connections[k] # None /\ connections[k] = connections[l] => k = l
    /\ \A t \in Remotes : Inserting(t) =>
          /\ sessions[remote[t].session].made /\ sessions[remote[t].session].open
          /\ ~Mapped(remote[t].session)
          /\ \A u \in Remotes : Inserting(u) /\ remote[u].session = remote[t].session => u = t
    /\ \A t \in Remotes : Closing(t) =>
          /\ sessions[remote[t].session].made /\ ~Mapped(remote[t].session)
          /\ \A u \in Remotes : Inserting(u) => remote[u].session # remote[t].session

(* What is under way for a server, and what the window has yet to hear. *)
Said(kind, k)    == \E a \in AnswerSet : a.kind = kind /\ a.key = k
Disconnecting(k) == (\E t \in Remotes : remote[t].key = k /\ remote[t].call = "disconnect")
                    \/ Said("disconnected", k)
Removed(k)       == (\E t \in Remotes : remote[t].key = k /\ Closing(t)) \/ Said("disconnected", k)
Serving(t)       == remote[t].call \in {"connect", "list", "mkdir"}
Served(k)        == (\E t \in Remotes : remote[t].key = k /\ Serving(t))
                    \/ Said("connected", k) \/ Said("listed", k)
Past(t)          == remote[t].pc \notin {"begun", "insert"}
Uses(t)          == remote[t].call \in {"list", "mkdir"} \/ (remote[t].call = "connect" /\ Past(t))
Needed(k)         == (\E t \in Remotes : remote[t].key = k /\ Uses(t))
                    \/ Said("connected", k) \/ Said("listed", k)
Connecting(t)    == remote[t].call = "connect" /\ Past(t)
Coming(k)        == (\E t \in Remotes : remote[t].key = k /\ Connecting(t)) \/ Said("connected", k)

KeyFits(k) ==
    /\ ~(Disconnecting(k) /\ Served(k))
    /\ Removed(k) => connections[k] = None
    /\ Needed(k) => connections[k] # None
    /\ k \in rows \/ (\E p \in Panes : shown[p] = k) => connections[k] # None \/ Removed(k)
    /\ connections[k] # None => k \in rows \/ Coming(k)

(* A dialog that waits has an answer coming. *)
Answering == (\E t \in Remotes : remote[t].call = "connect")
             \/ \E a \in AnswerSet : a.kind \in {"connected", "error"}
DialogFits == dialog.busy => dialog.open /\ ~dialog.error /\ Answering

RemoteInv ==
    /\ RemoteTypes /\ (\A t \in Remotes : CallFits(t)) /\ (\A a \in AnswerSet : AnswerFits(a))
    /\ SessionsFit /\ DialogFits
    /\ ~crossed => \A k \in Logins : KeyFits(k)

(* An answer more. *)
LEMMA AnswersTold ==
    ASSUME RemoteTypes, NEW a \in AllAnswers, answers' = Append(answers, a)
    PROVE  answers' \in Seq(AllAnswers) /\ AnswerSet' = AnswerSet \cup {a}
<1>1. answers \in Seq(AllAnswers) BY DEF RemoteTypes
<1>2. /\ answers' \in Seq(AllAnswers) /\ Len(answers') = Len(answers) + 1
      /\ \A i \in 1..Len(answers) : answers'[i] = answers[i]
      /\ answers'[Len(answers) + 1] = a
    BY <1>1, AppendProperties
<1>3. Len(answers) \in Nat /\ DOMAIN answers = 1..Len(answers) /\ DOMAIN answers' = 1..(Len(answers) + 1)
    BY <1>1, <1>2, LenProperties
<1>4. \A x \in AnswerSet' : x \in AnswerSet \cup {a} BY <1>2, <1>3 DEF AnswerSet
<1>5. \A x \in AnswerSet \cup {a} : x \in AnswerSet'
  <2>1. a \in AnswerSet' BY <1>3, <1>2 DEF AnswerSet
  <2>2. ASSUME NEW i \in DOMAIN answers PROVE answers[i] \in AnswerSet' BY <1>2, <1>3 DEF AnswerSet
  <2> QED BY <2>1, <2>2 DEF AnswerSet
<1> QED BY <1>2, <1>4, <1>5

(* The first one taken; another like it may be left. *)
LEMMA AnswersTaken ==
    ASSUME RemoteTypes, answers # << >>, answers' = Tail(answers)
    PROVE  /\ answers' \in Seq(AllAnswers) /\ AnswerSet' \subseteq AnswerSet
           /\ Head(answers) \in AnswerSet /\ AnswerSet \subseteq AnswerSet' \cup {Head(answers)}
<1>1. answers \in Seq(AllAnswers) BY DEF RemoteTypes
<1>2. /\ answers' \in Seq(AllAnswers) /\ Len(answers') = Len(answers) - 1
      /\ \A i \in 1..Len(answers') : answers'[i] = answers[i + 1]
    BY <1>1, HeadTailProperties
<1>3. Len(answers) \in Nat \ {0} /\ DOMAIN answers = 1..Len(answers) /\ DOMAIN answers' = 1..(Len(answers) - 1)
    BY <1>1, <1>2, LenProperties, EmptySeq
<1>4. Head(answers) = answers[1] /\ 1 \in DOMAIN answers BY <1>1, <1>3
<1>5. ASSUME NEW i \in DOMAIN answers' PROVE answers'[i] \in AnswerSet BY <1>2, <1>3 DEF AnswerSet
<1>6. ASSUME NEW i \in DOMAIN answers, i # 1 PROVE answers[i] \in AnswerSet'
  <2>1. i - 1 \in DOMAIN answers' /\ (i - 1) + 1 = i BY <1>3, <1>6
  <2>2. answers'[i - 1] = answers[i] BY <1>2, <1>3, <2>1
  <2> QED BY <2>1, <2>2 DEF AnswerSet
<1> QED BY <1>2, <1>4, <1>5, <1>6 DEF AnswerSet

(* One task's call is set. *)
LEMMA CallSet ==
    ASSUME RemoteTypes, NEW t \in Remotes, NEW r \in Calls, remote' = [remote EXCEPT ![t] = r]
    PROVE  /\ remote' \in [Remotes -> Calls] /\ remote'[t] = r
           /\ \A u \in Remotes : u # t => remote'[u] = remote[u]
BY DEF RemoteTypes

(* A call that only comes further. *)
LEMMA CallSteps1 ==
    ASSUME RemoteTypes, NEW t \in Remotes, NEW pc \in CallSteps, Step(t, pc)
    PROVE  /\ remote' \in [Remotes -> Calls] /\ \A u \in Remotes : u # t => remote'[u] = remote[u]
           /\ remote'[t].call = remote[t].call /\ remote'[t].key = remote[t].key
           /\ remote'[t].pane = remote[t].pane /\ remote'[t].session = remote[t].session
           /\ remote'[t].pc = pc
<1> DEFINE r == [remote[t] EXCEPT !.pc = pc]
<1>1. remote \in [Remotes -> Calls] /\ remote[t] \in Calls BY DEF RemoteTypes
<1>2. r \in Calls BY <1>1 DEF Calls
<1>3. r.call = remote[t].call /\ r.key = remote[t].key /\ r.pane = remote[t].pane
      /\ r.session = remote[t].session /\ r.pc = pc BY <1>1 DEF Calls
<1>4. remote' = [remote EXCEPT ![t] = r] BY <1>1 DEF Step
<1> HIDE DEF r
<1>5. remote' \in [Remotes -> Calls] /\ remote'[t] = r /\ \A u \in Remotes : u # t => remote'[u] = remote[u]
    BY <1>2, <1>4, CallSet
<1> QED BY <1>3, <1>5

(* One that gets a session. *)
LEMMA CallGets ==
    ASSUME RemoteTypes, NEW t \in Remotes, NEW pc \in CallSteps, NEW n \in SessionIds,
           remote' = [remote EXCEPT ![t].session = n, ![t].pc = pc]
    PROVE  /\ remote' \in [Remotes -> Calls] /\ \A u \in Remotes : u # t => remote'[u] = remote[u]
           /\ remote'[t].call = remote[t].call /\ remote'[t].key = remote[t].key
           /\ remote'[t].pane = remote[t].pane /\ remote'[t].session = n
           /\ remote'[t].pc = pc
<1> DEFINE r == [remote[t] EXCEPT !.session = n, !.pc = pc]
<1>1. remote \in [Remotes -> Calls] /\ remote[t] \in Calls BY DEF RemoteTypes
<1>2. r \in Calls BY <1>1 DEF Calls, SomeSession
<1>3. r.call = remote[t].call /\ r.key = remote[t].key /\ r.pane = remote[t].pane
      /\ r.session = n /\ r.pc = pc BY <1>1 DEF Calls
<1>4. remote' = [remote EXCEPT ![t] = r] BY <1>1
<1> HIDE DEF r
<1>5. remote' \in [Remotes -> Calls] /\ remote'[t] = r /\ \A u \in Remotes : u # t => remote'[u] = remote[u]
    BY <1>2, <1>4, CallSet
<1> QED BY <1>3, <1>5

(* A task at rest. *)
LEMMA RestingIs == /\ Resting \in Calls /\ Resting.call = "none" /\ Resting.key = Home /\ Resting.pc = "idle"
                   /\ Resting.session = None /\ Resting.pane = None
BY DEF Resting, Calls, CallKinds, CallSteps, SomeSession

(* A call that ends. *)
LEMMA CallEnds ==
    ASSUME RemoteTypes, NEW t \in Remotes, End(t)
    PROVE  /\ remote' \in [Remotes -> Calls] /\ remote'[t] = Resting
           /\ \A u \in Remotes : u # t => remote'[u] = remote[u]
BY RestingIs, CallSet DEF End

(* What is so of a server that nothing happens to. *)
LEMMA KeyStays ==
    ASSUME NEW k \in Logins, KeyFits(k),
           Disconnecting(k)' => Disconnecting(k), Served(k)' => Served(k), Removed(k)' <=> Removed(k),
           Needed(k)' => Needed(k), Coming(k) => Coming(k)', connections'[k] = connections[k],
           k \in rows' <=> k \in rows, \A p \in Panes : shown'[p] = k => shown[p] = k
    PROVE  KeyFits(k)'
BY DEF KeyFits

(* A step of task t whose call stays what it is, and where it is said to be in use or removed. *)
LEMMA CallStays ==
    ASSUME NEW k \in Logins, KeyFits(k), NEW t \in Remotes, UNCHANGED <<answers, connections, rows, shown>>,
           \A u \in Remotes : u # t => remote'[u] = remote[u],
           remote'[t].call = remote[t].call, remote'[t].key = remote[t].key,
           remote[t].call = "connect" => (Past(t)' <=> Past(t)), Closing(t)' <=> Closing(t)
    PROVE  KeyFits(k)'
<1>1. \A u \in Remotes : /\ remote'[u].key = remote[u].key /\ remote'[u].call = remote[u].call
                         /\ (remote[u].call = "connect" => (Past(u)' <=> Past(u)))
                         /\ (Closing(u)' <=> Closing(u))
    BY DEF Past, Closing
<1>2. AnswerSet' = AnswerSet BY DEF AnswerSet
<1>3. \A kind : Said(kind, k)' <=> Said(kind, k) BY <1>2 DEF Said
<1>4. (Disconnecting(k)' <=> Disconnecting(k)) /\ (Removed(k)' <=> Removed(k))
    BY <1>1, <1>3 DEF Disconnecting, Removed
<1>5. (Served(k)' <=> Served(k)) /\ (Needed(k)' <=> Needed(k)) /\ (Coming(k)' <=> Coming(k))
    BY <1>1, <1>3 DEF Served, Needed, Coming, Serving, Uses, Connecting
<1> QED BY <1>4, <1>5, KeyStays

(* A step of task t, for the other servers: t ends, or keeps to its own. *)
LEMMA OthersStay ==
    ASSUME NEW k \in Logins, KeyFits(k), NEW t \in Remotes, k # remote[t].key, k # remote'[t].key,
           \A u \in Remotes : u # t => remote'[u] = remote[u],
           \A a \in AnswerSet : a.key = k => a \in AnswerSet',
           \A a \in AnswerSet' : a.key = k => a \in AnswerSet,
           connections'[k] = connections[k], UNCHANGED <<rows, shown>>
    PROVE  KeyFits(k)'
<1>1. \A u \in Remotes : (remote'[u].key = k <=> remote[u].key = k)
                         /\ (remote[u].key = k => remote'[u] = remote[u])
    OBVIOUS
<1>2. \A u \in Remotes : remote[u].key = k =>
          /\ remote'[u].call = remote[u].call /\ (Past(u)' <=> Past(u)) /\ (Closing(u)' <=> Closing(u))
    BY <1>1 DEF Past, Closing
<1>3. \A kind : Said(kind, k)' <=> Said(kind, k) BY DEF Said
<1>4. (Disconnecting(k)' <=> Disconnecting(k)) /\ (Removed(k)' <=> Removed(k))
    BY <1>1, <1>2, <1>3 DEF Disconnecting, Removed
<1>5. (Served(k)' <=> Served(k)) /\ (Needed(k)' <=> Needed(k)) /\ (Coming(k)' <=> Coming(k))
    BY <1>1, <1>2, <1>3 DEF Served, Needed, Coming, Serving, Uses, Connecting
<1> QED BY <1>4, <1>5, KeyStays

(* A step that makes, closes and maps no session. *)
LEMMA SessionsStay ==
    ASSUME SessionsFit, RemoteTypes, \A t \in Remotes : CallFits(t), UNCHANGED connections,
           \A n \in SessionIds : sessions'[n].made = sessions[n].made /\ sessions'[n].open = sessions[n].open,
           \A t \in Remotes : (Inserting(t)' => Inserting(t) /\ remote'[t].session = remote[t].session)
                              /\ (Closing(t)' => Closing(t) /\ remote'[t].session = remote[t].session)
    PROVE  SessionsFit'
<1>1. \A n : Mapped(n)' <=> Mapped(n) BY DEF Mapped
<1>2. \A k \in Logins : connections[k] # None => connections[k] \in SessionIds
    BY DEF RemoteTypes, SomeSession
<1>3. \A t \in Remotes : Inserting(t) \/ Closing(t) => remote[t].session \in SessionIds
    BY DEF CallFits, Inserting, Closing, On
<1>4. \A k \in Logins : connections'[k] # None =>
          sessions'[connections'[k]].made /\ sessions'[connections'[k]].open
    BY <1>2 DEF SessionsFit
<1>5. \A k, l \in Logins : connections'[k] # None /\ connections'[k] = connections'[l] => k = l
    BY DEF SessionsFit
<1>6. ASSUME NEW t \in Remotes, Inserting(t)'
      PROVE  /\ sessions'[remote'[t].session].made /\ sessions'[remote'[t].session].open
             /\ \A k \in Logins : connections'[k] # remote'[t].session
             /\ \A u \in Remotes : Inserting(u)' /\ remote'[u].session = remote'[t].session => u = t
    BY <1>3, <1>6 DEF SessionsFit, Mapped
<1>7. ASSUME NEW t \in Remotes, Closing(t)'
      PROVE  /\ sessions'[remote'[t].session].made
             /\ \A k \in Logins : connections'[k] # remote'[t].session
             /\ \A u \in Remotes : Inserting(u)' => remote'[u].session # remote'[t].session
    BY <1>3, <1>7 DEF SessionsFit, Mapped
<1> QED BY <1>4, <1>5, <1>6, <1>7 DEF SessionsFit, Mapped

(* One that only locks or unlocks one. *)
LEMMA HolderSet ==
    ASSUME RemoteTypes, NEW n \in SessionIds, NEW h \in Remotes \cup {None},
           sessions' = [sessions EXCEPT ![n].holder = h]
    PROVE  /\ sessions' \in [SessionIds -> AllSessions]
           /\ \A m \in SessionIds : sessions'[m].made = sessions[m].made /\ sessions'[m].open = sessions[m].open
<1> DEFINE s == [sessions[n] EXCEPT !.holder = h]
<1>1. sessions \in [SessionIds -> AllSessions] /\ sessions[n] \in AllSessions BY DEF RemoteTypes
<1>2. s \in AllSessions /\ s.made = sessions[n].made /\ s.open = sessions[n].open BY <1>1 DEF AllSessions
<1>3. sessions' = [sessions EXCEPT ![n] = s] BY <1>1
<1> HIDE DEF s
<1>4. \A m \in SessionIds : sessions'[m] = IF m = n THEN s ELSE sessions[m] BY <1>1, <1>3
<1>5. sessions' \in [SessionIds -> AllSessions] BY <1>1, <1>2, <1>3
<1> QED BY <1>2, <1>4, <1>5

(* What a step of task t must show. *)
LEMMA TaskStep ==
    ASSUME RemoteInv, NEW t \in Remotes,
           remote' \in [Remotes -> Calls], \A u \in Remotes : u # t => remote'[u] = remote[u],
           CallFits(t)', remote'[t].key \in {remote[t].key, Home},
           answers' \in Seq(AllAnswers), AnswerSet \subseteq AnswerSet',
           \A a \in AnswerSet' \ AnswerSet : AnswerFits(a) /\ a.key = remote[t].key,
           connections' \in [Logins -> SomeSession],
           \A k \in Logins : k # remote[t].key => connections'[k] = connections[k],
           sessions' \in [SessionIds -> AllSessions], mapHolder' \in Remotes \cup {None},
           Quietly, SessionsFit',
           remote[t].call = "connect" /\ remote'[t].call # "connect" =>
               \E a \in AnswerSet' : a.kind \in {"connected", "error"},
           ~crossed => \A k \in Logins : k = remote[t].key => KeyFits(k)'
    PROVE  RemoteInv'
<1>1. UNCHANGED <<dialog, rows, shown, crossed>> BY DEF Quietly
<1>2. RemoteTypes' BY <1>1 DEF RemoteInv, RemoteTypes
<1>3. ASSUME NEW u \in Remotes PROVE CallFits(u)'
  <2>1. CASE u = t BY <2>1
  <2>2. CASE u # t BY <2>2 DEF RemoteInv, CallFits
  <2> QED BY <2>1, <2>2
<1>4. \A a \in AnswerSet' : AnswerFits(a) BY DEF RemoteInv
<1>5. DialogFits'
  <2>1. Answering => Answering'
    <3> SUFFICES ASSUME Answering PROVE Answering' OBVIOUS
    <3>1. CASE \E a \in AnswerSet : a.kind \in {"connected", "error"} BY <3>1 DEF Answering
    <3>2. CASE \E u \in Remotes : remote[u].call = "connect" BY <3>2 DEF Answering
    <3> QED BY <3>1, <3>2 DEF Answering
  <2> QED BY <1>1, <2>1 DEF RemoteInv, DialogFits
<1>6. ASSUME ~crossed', NEW k \in Logins PROVE KeyFits(k)'
  <2>1. ~crossed BY <1>1, <1>6
  <2>2. CASE k = remote[t].key BY <2>1, <2>2
  <2>3. CASE k # remote[t].key BY <2>1, <2>3, RemoteAssumption, <1>1, OthersStay DEF RemoteInv
  <2> QED BY <2>2, <2>3
<1> QED BY <1>2, <1>3, <1>4, <1>5, <1>6 DEF RemoteInv

(* One of a call that goes on, and tells nobody. *)
LEMMA GoesOn ==
    ASSUME RemoteInv, NEW t \in Remotes,
           remote' \in [Remotes -> Calls], \A u \in Remotes : u # t => remote'[u] = remote[u],
           remote'[t].call = remote[t].call, remote'[t].key = remote[t].key,
           CallFits(t)', remote[t].call = "connect" => (Past(t)' <=> Past(t)), Closing(t)' <=> Closing(t),
           SessionsFit', UNCHANGED <<connections, answers>>, Quietly,
           sessions' \in [SessionIds -> AllSessions], mapHolder' \in Remotes \cup {None}
    PROVE  RemoteInv'
<1>1. UNCHANGED <<dialog, rows, shown, crossed>> BY DEF Quietly
<1>2. AnswerSet' = AnswerSet /\ answers' \in Seq(AllAnswers) BY DEF AnswerSet, RemoteInv, RemoteTypes
<1>3. ASSUME ~crossed, NEW k \in Logins PROVE KeyFits(k)' BY <1>3, <1>1, CallStays DEF RemoteInv
<1>4. connections' \in [Logins -> SomeSession] BY DEF RemoteInv, RemoteTypes
<1>5. ~crossed => \A k \in Logins : k = remote[t].key => KeyFits(k)' BY <1>3
<1> QED BY <1>2, <1>4, <1>5, TaskStep

(* One that only moves a call on, and maybe takes or gives back a lock. *)
LEMMA StepsOn ==
    ASSUME RemoteInv, NEW t \in Remotes, NEW pc \in CallSteps \ {"insert"}, Step(t, pc),
           pc \in StepsOf(remote[t].call), pc \notin {"idle", "begun", "lookup"} => remote[t].session \in SessionIds,
           remote[t].call = "connect" => Past(t) /\ pc # "begun",
           remote[t].call = "disconnect" => Closing(t) /\ pc # "begun",
           UNCHANGED <<connections, answers, mapHolder>>, Quietly,
           UNCHANGED sessions \/ \E n \in SessionIds, h \in Remotes \cup {None} :
                                    sessions' = [sessions EXCEPT ![n].holder = h]
    PROVE  RemoteInv'
<1>1. RemoteTypes BY DEF RemoteInv
<1>2. /\ remote' \in [Remotes -> Calls] /\ \A u \in Remotes : u # t => remote'[u] = remote[u]
      /\ remote'[t].call = remote[t].call /\ remote'[t].key = remote[t].key
      /\ remote'[t].pane = remote[t].pane /\ remote'[t].session = remote[t].session
      /\ remote'[t].pc = pc
    BY <1>1, CallSteps1
<1>3. CallFits(t)' BY <1>2 DEF RemoteInv, CallFits
<1>4. remote[t].call = "connect" => (Past(t)' <=> Past(t)) BY <1>2 DEF Past
<1>5. Closing(t)' <=> Closing(t) BY <1>2 DEF StepsOf, Closing
<1>6. /\ sessions' \in [SessionIds -> AllSessions]
      /\ \A n \in SessionIds : sessions'[n].made = sessions[n].made /\ sessions'[n].open = sessions[n].open
    BY <1>1, HolderSet DEF RemoteTypes
<1>7. SessionsFit'
  <2>1. \A u \in Remotes : (Inserting(u)' => Inserting(u) /\ remote'[u].session = remote[u].session)
                           /\ (Closing(u)' => Closing(u) /\ remote'[u].session = remote[u].session)
    <3> TAKE u \in Remotes
    <3>1. CASE u # t BY <1>2, <3>1 DEF Inserting, Closing, On
    <3>2. CASE u = t BY <1>2, <1>5, <3>2 DEF Inserting, On
    <3> QED BY <3>1, <3>2
  <2>2. SessionsFit /\ \A u \in Remotes : CallFits(u) BY DEF RemoteInv
  <2> QED BY <1>1, <1>6, <2>1, <2>2, SessionsStay
<1>8. mapHolder' \in Remotes \cup {None} BY <1>1 DEF RemoteTypes
<1> QED BY <1>2, <1>3, <1>4, <1>5, <1>6, <1>7, <1>8, GoesOn

(* One that ends a call which is not closing a session, and maybe tells: of a connection only
   one that has made it, of a listing the list call. *)
LEMMA EndsWith ==
    ASSUME RemoteInv, NEW t \in Remotes, NEW kind \in {"none", "error", "connected", "listed"}, End(t),
           IF kind = "none" THEN UNCHANGED answers ELSE Tell(kind, t),
           remote[t].call # "none", ~Closing(t),
           remote[t].call = "connect" => kind \in {"error", "connected"},
           Connecting(t) => kind = "connected",
           kind = "connected" => Connecting(t), kind = "listed" => remote[t].call = "list",
           UNCHANGED <<connections, mapHolder>>, Quietly,
           UNCHANGED sessions \/ \E n \in SessionIds, h \in Remotes \cup {None} :
                                    sessions' = [sessions EXCEPT ![n].holder = h]
    PROVE  RemoteInv'
<1> DEFINE a == [kind |-> kind, key |-> remote[t].key, pane |-> remote[t].pane]
<1>1. RemoteTypes /\ CallFits(t) BY DEF RemoteInv
<1>2. /\ remote' \in [Remotes -> Calls] /\ remote'[t] = Resting
      /\ \A u \in Remotes : u # t => remote'[u] = remote[u]
    BY <1>1, CallEnds
<1>3. CallFits(t)' /\ remote'[t].key = Home /\ remote'[t].call = "none" /\ remote'[t].pc = "idle"
    BY <1>2, RestingIs DEF CallFits, StepsOf
<1>4. remote[t].key \in Logins /\ (remote[t].call = "list" => remote[t].pane \in Panes) BY <1>1 DEF CallFits
<1>5. kind # "none" => a \in AllAnswers /\ a.kind = kind /\ a.key = remote[t].key /\ AnswerFits(a)
    BY <1>1, <1>4 DEF RemoteTypes, Calls, AllAnswers, AnswerKinds, AnswerFits
<1>6. /\ answers' \in Seq(AllAnswers)
      /\ AnswerSet' = IF kind = "none" THEN AnswerSet ELSE AnswerSet \cup {a}
  <2>1. CASE kind = "none" BY <2>1, <1>1 DEF RemoteTypes, AnswerSet
  <2>2. CASE kind # "none"
    <3>1. answers' = Append(answers, a) BY <2>2 DEF Tell
    <3> HIDE DEF a
    <3>2. answers' \in Seq(AllAnswers) /\ AnswerSet' = AnswerSet \cup {a} BY <1>1, <1>5, <2>2, <3>1, AnswersTold
    <3> QED BY <2>2, <3>2
  <2> QED BY <2>1, <2>2
<1> HIDE DEF a
<1>7. /\ sessions' \in [SessionIds -> AllSessions]
      /\ \A n \in SessionIds : sessions'[n].made = sessions[n].made /\ sessions'[n].open = sessions[n].open
    BY <1>1, HolderSet DEF RemoteTypes
<1>8. SessionsFit'
  <2>1. \A u \in Remotes : (Inserting(u)' => Inserting(u) /\ remote'[u].session = remote[u].session)
                           /\ (Closing(u)' => Closing(u) /\ remote'[u].session = remote[u].session)
    <3> TAKE u \in Remotes
    <3>1. CASE u # t BY <1>2, <3>1 DEF Inserting, Closing, On
    <3>2. CASE u = t BY <1>3, <3>2 DEF Inserting, On, Closing
    <3> QED BY <3>1, <3>2
  <2>2. SessionsFit /\ \A u \in Remotes : CallFits(u) BY DEF RemoteInv
  <2> QED BY <1>1, <1>7, <2>1, <2>2, SessionsStay
<1>9. ASSUME ~crossed, NEW k \in Logins, k = remote[t].key PROVE KeyFits(k)'
  <2>1. KeyFits(k) BY <1>9 DEF RemoteInv
  <2>2. k # Home BY RemoteAssumption
  <2>3. \A u \in Remotes : remote'[u].key = k => u # t /\ remote'[u] = remote[u] BY <1>2, <1>3, <2>2
  <2>4. \A u \in Remotes : remote'[u].key = k =>
            /\ remote[u].key = k /\ (Serving(u)' <=> Serving(u)) /\ (Uses(u)' <=> Uses(u))
            /\ (Connecting(u)' <=> Connecting(u)) /\ (Closing(u)' <=> Closing(u))
      BY <2>3 DEF Serving, Uses, Connecting, Past, Closing
  <2>5. \A u \in Remotes : u # t /\ remote[u].key = k => remote'[u].key = k BY <1>2
  <2>6. \A what : Said(what, k) => Said(what, k)' BY <1>6 DEF Said
  <2>7. \A what : Said(what, k)' => Said(what, k) \/ what = kind BY <1>5, <1>6 DEF Said
  <2>8. kind # "none" => Said(kind, k)' BY <1>5, <1>6, <1>9 DEF Said
  <2>9. Disconnecting(k)' => Disconnecting(k) BY <2>3, <2>4, <2>7 DEF Disconnecting
  <2>10. Served(k)' => Served(k) BY <1>9, <2>4, <2>7 DEF Serving, Connecting, Served
  <2>11. Removed(k)' <=> Removed(k) BY <2>4, <2>7, <2>5, <2>6 DEF Removed
  <2>12. Needed(k)' => Needed(k) BY <1>9, <2>4, <2>7 DEF Uses, Connecting, Needed
  <2>13. Coming(k) => Coming(k)' BY <2>4, <2>5, <2>6, <2>8 DEF Coming
  <2>14. UNCHANGED <<rows, shown>> BY DEF Quietly
  <2> QED BY <2>1, <2>9, <2>10, <2>11, <2>12, <2>13, <2>14, KeyStays
<1>10. remote[t].call = "connect" => \E b \in AnswerSet' : b.kind \in {"connected", "error"} BY <1>5, <1>6
<1>11. /\ AnswerSet \subseteq AnswerSet'
       /\ \A b \in AnswerSet' \ AnswerSet : AnswerFits(b) /\ b.key = remote[t].key
    BY <1>5, <1>6
<1>12. connections' \in [Logins -> SomeSession] /\ mapHolder' \in Remotes \cup {None} BY <1>1 DEF RemoteTypes
<1>13. ~crossed => \A k \in Logins : k = remote[t].key => KeyFits(k)' BY <1>9
<1> QED BY <1>2, <1>3, <1>6, <1>7, <1>8, <1>10, <1>11, <1>12, <1>13, TaskStep

(* Ask preserves the invariant: the session is locked. *)
LEMMA AskRemoteStep == ASSUME RemoteInv, NEW t \in Remotes, Ask(t) PROVE RemoteInv'
<1> DEFINE pc == IF sessions[remote[t].session].open THEN "asked" ELSE "failed"
<1>1. /\ remote[t].call \in {"connect", "list", "mkdir"} /\ remote[t].pc = "wait" /\ Step(t, pc)
      /\ sessions' = [sessions EXCEPT ![remote[t].session].holder = t]
      /\ UNCHANGED <<connections, mapHolder, answers>> /\ Quietly
    BY DEF Ask, LockSession
<1>2. CallFits(t) BY DEF RemoteInv
<1>3. remote[t].session \in SessionIds BY <1>1, <1>2 DEF CallFits
<1>4. pc \in {"asked", "failed"} OBVIOUS
<1> HIDE DEF pc
<1>5. pc \in CallSteps \ {"insert"} /\ pc \in StepsOf(remote[t].call) BY <1>1, <1>4 DEF CallSteps, StepsOf
<1>6. remote[t].call = "connect" => Past(t) BY <1>1 DEF Past
<1>7. \E n \in SessionIds, h \in Remotes \cup {None} : sessions' = [sessions EXCEPT ![n].holder = h]
    BY <1>1, <1>3
<1> QED BY <1>1, <1>3, <1>4, <1>5, <1>6, <1>7, StepsOn

(* Answer preserves it, whether the server refuses or not. *)
LEMMA AnswerStep == ASSUME RemoteInv, NEW t \in Remotes, Answer(t) PROVE RemoteInv'
<1>1. PICK pc \in {"done", "failed"} : Step(t, pc) BY DEF Answer
<1>2. remote[t].pc = "asked" /\ UNCHANGED <<connections, mapHolder, sessions, answers>> /\ Quietly
    BY DEF Answer
<1>3. CallFits(t) /\ remote[t].call \in CallKinds BY DEF RemoteInv, RemoteTypes, Calls
<1>4. remote[t].call \in {"connect", "list", "mkdir"} BY <1>2, <1>3 DEF CallFits, StepsOf, CallKinds
<1>5. remote[t].session \in SessionIds BY <1>2, <1>3 DEF CallFits
<1>6. pc \in CallSteps \ {"insert"} /\ pc \in StepsOf(remote[t].call) BY <1>4 DEF CallSteps, StepsOf
<1>7. remote[t].call = "connect" => Past(t) BY <1>2 DEF Past
<1> QED BY <1>1, <1>2, <1>4, <1>5, <1>6, <1>7, StepsOn

(* LookAtTaken preserves it. *)
LEMMA LookAtTakenStep == ASSUME RemoteInv, NEW t \in Remotes, LookAtTaken(t) PROVE RemoteInv'
<1>1. /\ remote[t].call = "mkdir" /\ remote[t].pc = "failed" /\ Step(t, "done")
      /\ UNCHANGED <<connections, mapHolder, sessions, answers>> /\ Quietly
    BY DEF LookAtTaken, On
<1>2. CallFits(t) BY DEF RemoteInv
<1>3. remote[t].session \in SessionIds BY <1>1, <1>2 DEF CallFits
<1>4. "done" \in CallSteps \ {"insert"} /\ "done" \in StepsOf(remote[t].call) BY <1>1 DEF CallSteps, StepsOf
<1> QED BY <1>1, <1>3, <1>4, StepsOn

(* TakeSession preserves it. *)
LEMMA TakeSessionStep == ASSUME RemoteInv, NEW t \in Remotes, TakeSession(t) PROVE RemoteInv'
<1>1. /\ remote[t].call = "disconnect" /\ remote[t].pc = "close" /\ Step(t, "closing")
      /\ sessions' = [sessions EXCEPT ![remote[t].session].holder = t]
      /\ UNCHANGED <<connections, mapHolder, answers>> /\ Quietly
    BY DEF TakeSession, On, LockSession
<1>2. CallFits(t) /\ Closing(t) BY <1>1 DEF RemoteInv, Closing
<1>3. remote[t].session \in SessionIds BY <1>1, <1>2 DEF CallFits
<1>4. "closing" \in CallSteps \ {"insert"} /\ "closing" \in StepsOf(remote[t].call)
    BY <1>1 DEF CallSteps, StepsOf
<1>5. \E n \in SessionIds, h \in Remotes \cup {None} : sessions' = [sessions EXCEPT ![n].holder = h]
    BY <1>1, <1>3
<1> QED BY <1>1, <1>2, <1>3, <1>4, <1>5, StepsOn

(* Unlocked preserves it: the call goes on to tell, or ends. *)
LEMMA UnlockedStep == ASSUME RemoteInv, NEW t \in Remotes, Unlocked(t) PROVE RemoteInv'
<1>1. /\ remote[t].pc \in {"done", "failed"}
      /\ sessions' = [sessions EXCEPT ![remote[t].session].holder = None]
      /\ UNCHANGED <<connections, mapHolder, answers>> /\ Quietly
    BY DEF Unlocked, Unlock
<1>2. CallFits(t) /\ remote[t].call \in CallKinds BY DEF RemoteInv, RemoteTypes, Calls
<1>3. remote[t].call \in {"connect", "list", "mkdir"} BY <1>1, <1>2 DEF CallFits, StepsOf, CallKinds
<1>4. remote[t].session \in SessionIds BY <1>1, <1>2 DEF CallFits
<1>5. \E n \in SessionIds, h \in Remotes \cup {None} : sessions' = [sessions EXCEPT ![n].holder = h]
    BY <1>1, <1>4
<1>6. CASE remote[t].call = "connect"
    BY <1>6, <1>1, <1>4, <1>5, StepsOn DEF Unlocked, CallSteps, StepsOf, Past
<1>7. CASE remote[t].call # "connect" /\ On(t, "list", "done")
    BY <1>7, <1>1, <1>3, <1>4, <1>5, StepsOn DEF Unlocked, CallSteps, StepsOf, On
<1>8. CASE remote[t].call # "connect" /\ ~On(t, "list", "done")
    BY <1>8, <1>3, <1>1, <1>5, EndsWith DEF Unlocked, Closing, Connecting
<1> QED BY <1>6, <1>7, <1>8

(* Refused preserves it: the dialog's error is on its way. *)
LEMMA RefusedStep == ASSUME RemoteInv, NEW t \in Remotes, Refused(t) PROVE RemoteInv'
BY EndsWith DEF Refused, On, Closing, Connecting, Past

(* Announce preserves it: the server told of is in the map, if no disconnect met the call. *)
LEMMA AnnounceStep == ASSUME RemoteInv, NEW t \in Remotes, Announce(t) PROVE RemoteInv'
BY EndsWith DEF Announce, On, Closing, Connecting, Past

(* Report preserves it. *)
LEMMA ReportStep == ASSUME RemoteInv, NEW t \in Remotes, Report(t) PROVE RemoteInv'
BY EndsWith DEF Report, On, Closing, Connecting

(* Lookup preserves it. *)
LEMMA LookupStep == ASSUME RemoteInv, NEW t \in Remotes, Lookup(t) PROVE RemoteInv'
<1> DEFINE n == connections[remote[t].key]
<1>1. /\ On(t, "connect", "lookup") \/ (remote[t].call \in {"list", "mkdir"} /\ remote[t].pc = "begun")
      /\ UNCHANGED <<connections, mapHolder, sessions>> /\ Quietly /\ RemoteTypes /\ CallFits(t)
    BY DEF Lookup, RemoteInv
<1>2. remote[t].call \in {"connect", "list", "mkdir"} /\ remote[t].pc \in {"lookup", "begun"}
      /\ (remote[t].call = "connect" => Connecting(t)) /\ ~Closing(t)
    BY <1>1 DEF On, Connecting, Past, Closing
<1>3. n \in SomeSession BY <1>1, <1>2 DEF CallFits, RemoteTypes
<1>4. CASE n # None
  <2>1. remote' = [remote EXCEPT ![t].session = n, ![t].pc = "wait"] /\ UNCHANGED answers
      BY <1>4 DEF Lookup
  <2>2. n \in SessionIds /\ "wait" \in CallSteps BY <1>3, <1>4 DEF SomeSession, CallSteps
  <2> HIDE DEF n
  <2>3. /\ remote' \in [Remotes -> Calls] /\ \A u \in Remotes : u # t => remote'[u] = remote[u]
        /\ remote'[t].call = remote[t].call /\ remote'[t].key = remote[t].key
        /\ remote'[t].pane = remote[t].pane /\ remote'[t].session = n /\ remote'[t].pc = "wait"
      BY <1>1, <2>1, <2>2, CallGets
  <2>4. CallFits(t)' BY <1>1, <1>2, <2>2, <2>3 DEF CallFits, StepsOf
  <2>5. remote[t].call = "connect" => (Past(t)' <=> Past(t)) BY <1>2, <2>3 DEF Past, Connecting
  <2>6. Closing(t)' <=> Closing(t) BY <1>2, <2>3 DEF Closing
  <2>7. SessionsFit'
    <3>1. \A u \in Remotes : (Inserting(u)' => Inserting(u) /\ remote'[u].session = remote[u].session)
                             /\ (Closing(u)' => Closing(u) /\ remote'[u].session = remote[u].session)
      <4> TAKE u \in Remotes
      <4>1. CASE u # t BY <2>3, <4>1 DEF Inserting, Closing, On
      <4>2. CASE u = t BY <1>2, <2>3, <2>6, <4>2 DEF Inserting, On
      <4> QED BY <4>1, <4>2
    <3>2. SessionsFit /\ \A u \in Remotes : CallFits(u) BY DEF RemoteInv
    <3> QED BY <1>1, <3>1, <3>2, SessionsStay
  <2>8. sessions' \in [SessionIds -> AllSessions] /\ mapHolder' \in Remotes \cup {None}
      BY <1>1 DEF RemoteTypes
  <2> QED BY <1>1, <2>1, <2>3, <2>4, <2>5, <2>6, <2>7, <2>8, GoesOn
<1>5. CASE n = None
  <2>1. End(t) /\ IF remote[t].call = "connect" THEN Tell("connected", t) ELSE UNCHANGED answers
      BY <1>5 DEF Lookup
  <2> HIDE DEF n
  <2>2. CASE remote[t].call = "connect" BY <1>1, <1>2, <2>1, <2>2, EndsWith
  <2>3. CASE remote[t].call # "connect" BY <2>3, <1>1, <1>2, <2>1, EndsWith DEF Connecting
  <2> QED BY <2>2, <2>3
<1> QED BY <1>4, <1>5

(* A new session is nobody's yet. *)
LEMMA AcceptStep == ASSUME RemoteInv, NEW t \in Remotes, AcceptLogin(t) PROVE RemoteInv'
<1>1. PICK n \in SessionIds :
          /\ ~sessions[n].made
          /\ sessions' = [sessions EXCEPT ![n] = [made |-> TRUE, open |-> TRUE, holder |-> None]]
          /\ remote' = [remote EXCEPT ![t].session = n, ![t].pc = "insert"]
    BY DEF AcceptLogin, SessionIds
<1>2. /\ remote[t].call = "connect" /\ remote[t].pc = "begun" /\ UNCHANGED <<connections, mapHolder, answers>>
      /\ Quietly /\ RemoteTypes /\ CallFits(t) /\ SessionsFit
    BY DEF AcceptLogin, On, RemoteInv
<1>3. "insert" \in CallSteps BY DEF CallSteps
<1>4. /\ remote' \in [Remotes -> Calls] /\ \A u \in Remotes : u # t => remote'[u] = remote[u]
      /\ remote'[t].call = remote[t].call /\ remote'[t].key = remote[t].key
      /\ remote'[t].pane = remote[t].pane /\ remote'[t].session = n /\ remote'[t].pc = "insert"
    BY <1>1, <1>2, <1>3, CallGets
<1>5. CallFits(t)' BY <1>2, <1>4 DEF CallFits, StepsOf
<1>6. (Past(t)' <=> Past(t)) /\ (Closing(t)' <=> Closing(t)) BY <1>2, <1>4 DEF Past, Closing
<1> DEFINE new == [made |-> TRUE, open |-> TRUE, holder |-> None]
<1>7. new \in AllSessions /\ new.made /\ new.open BY DEF AllSessions
<1> HIDE DEF new
<1>8. sessions \in [SessionIds -> AllSessions] BY <1>2 DEF RemoteTypes
<1>9. /\ sessions' \in [SessionIds -> AllSessions]
      /\ \A m \in SessionIds : sessions'[m] = IF m = n THEN new ELSE sessions[m]
    BY <1>1, <1>7, <1>8 DEF new
<1>10. \A u \in Remotes \ {t} : /\ (Inserting(u)' <=> Inserting(u)) /\ (Closing(u)' <=> Closing(u))
                                /\ remote'[u].session = remote[u].session
    BY <1>4 DEF Inserting, Closing, On
<1>11. \A u \in Remotes : Inserting(u) \/ Closing(u) =>
           remote[u].session \in SessionIds /\ remote[u].session # n
  <2>1. \A u \in Remotes : Inserting(u) \/ Closing(u) => remote[u].session \in SessionIds
      BY DEF RemoteInv, CallFits, Inserting, Closing, On
  <2>2. \A u \in Remotes : Inserting(u) \/ Closing(u) => sessions[remote[u].session].made
      BY <1>2 DEF SessionsFit
  <2> QED BY <1>1, <2>1, <2>2
<1>12. \A k \in Logins : connections[k] # None => connections[k] \in SessionIds /\ connections[k] # n
    BY <1>1, <1>2 DEF RemoteTypes, SomeSession, SessionsFit
<1>13. \A k \in Logins : connections[k] # n
  <2>1. n # None BY RemoteAssumption DEF SessionIds
  <2> QED BY <1>12, <2>1
<1>14. Inserting(t)' /\ ~Inserting(t) /\ ~Closing(t)' /\ ~Closing(t)
    BY <1>2, <1>4 DEF Inserting, Closing, On
<1>15. SessionsFit'
  <2>1. \A k \in Logins : connections'[k] # None =>
            sessions'[connections'[k]].made /\ sessions'[connections'[k]].open
      BY <1>2, <1>9, <1>12 DEF SessionsFit
  <2>2. \A k, l \in Logins : connections'[k] # None /\ connections'[k] = connections'[l] => k = l
      BY <1>2 DEF SessionsFit
  <2>3. ASSUME NEW u \in Remotes, Inserting(u)'
        PROVE  /\ sessions'[remote'[u].session].made /\ sessions'[remote'[u].session].open
               /\ \A k \in Logins : connections'[k] # remote'[u].session
               /\ \A v \in Remotes : Inserting(v)' /\ remote'[v].session = remote'[u].session => v = u
    <3>1. CASE u = t
      <4>1. remote'[u].session = n BY <1>4, <3>1
      <4>2. \A v \in Remotes : Inserting(v)' /\ remote'[v].session = n => v = t BY <1>10, <1>11
      <4>3. \A k \in Logins : connections'[k] # n BY <1>2, <1>13
      <4>4. sessions'[n].made /\ sessions'[n].open BY <1>7, <1>9
      <4> QED BY <3>1, <4>1, <4>2, <4>3, <4>4
    <3>2. CASE u # t
      <4> DEFINE m == remote[u].session
      <4>1. Inserting(u) /\ remote'[u].session = m BY <1>10, <2>3, <3>2
      <4>2. m \in SessionIds /\ m # n BY <1>11, <4>1
      <4>3. sessions[m].made /\ sessions[m].open /\ ~Mapped(m) BY <1>2, <4>1 DEF SessionsFit
      <4>4. \A v \in Remotes : Inserting(v) /\ remote[v].session = m => v = u
          BY <1>2, <4>1 DEF SessionsFit
      <4>5. \A v \in Remotes : Inserting(v)' /\ remote'[v].session = m => v = u
          BY <1>4, <1>10, <4>2, <4>4
      <4>6. sessions'[m] = sessions[m] BY <1>9, <4>2
      <4>7. \A k \in Logins : connections'[k] # m BY <1>2, <4>3 DEF Mapped
      <4> QED BY <4>1, <4>3, <4>5, <4>6, <4>7
    <3> QED BY <3>1, <3>2
  <2>4. ASSUME NEW u \in Remotes, Closing(u)'
        PROVE  /\ sessions'[remote'[u].session].made
               /\ \A k \in Logins : connections'[k] # remote'[u].session
               /\ \A v \in Remotes : Inserting(v)' => remote'[v].session # remote'[u].session
    <3> DEFINE m == remote[u].session
    <3>1. u # t /\ Closing(u) /\ remote'[u].session = m BY <1>10, <1>14, <2>4
    <3>2. m \in SessionIds /\ m # n BY <1>11, <3>1
    <3>3. sessions[m].made /\ ~Mapped(m) /\ \A v \in Remotes : Inserting(v) => remote[v].session # m
        BY <1>2, <3>1 DEF SessionsFit
    <3>4. \A v \in Remotes : Inserting(v)' => remote'[v].session # m BY <1>4, <1>10, <3>2, <3>3
    <3>5. sessions'[m] = sessions[m] BY <1>9, <3>2
    <3>6. \A k \in Logins : connections'[k] # m BY <1>2, <3>3 DEF Mapped
    <3> QED BY <3>1, <3>3, <3>4, <3>5, <3>6
  <2> QED BY <2>1, <2>2, <2>3, <2>4 DEF SessionsFit, Mapped
<1>16. mapHolder' \in Remotes \cup {None} BY <1>2 DEF RemoteTypes
<1> QED BY <1>2, <1>4, <1>5, <1>6, <1>9, <1>15, <1>16, GoesOn

(* A session gets into the map: it is of no other server. *)
LEMMA InsertStep == ASSUME RemoteInv, NEW t \in Remotes, InsertLogin(t) PROVE RemoteInv'
<1> DEFINE key == remote[t].key
          n == remote[t].session
<1>1. /\ Inserting(t) /\ connections' = [connections EXCEPT ![key] = n] /\ Step(t, "lookup")
      /\ UNCHANGED <<mapHolder, sessions, answers>> /\ Quietly /\ RemoteTypes /\ CallFits(t) /\ SessionsFit
    BY DEF InsertLogin, Inserting, RemoteInv
<1>2. remote[t].call = "connect" /\ remote[t].pc = "insert" BY <1>1 DEF Inserting, On
<1>3. key \in Logins /\ n \in SessionIds BY <1>1, <1>2 DEF CallFits
<1>4. n # None BY <1>3, RemoteAssumption DEF SessionIds
<1>5. "lookup" \in CallSteps BY DEF CallSteps
<1>6. /\ remote' \in [Remotes -> Calls] /\ \A u \in Remotes : u # t => remote'[u] = remote[u]
      /\ remote'[t].call = remote[t].call /\ remote'[t].key = key
      /\ remote'[t].pane = remote[t].pane /\ remote'[t].session = n /\ remote'[t].pc = "lookup"
    BY <1>1, <1>5, CallSteps1
<1>7. CallFits(t)' BY <1>2, <1>3, <1>6 DEF CallFits, StepsOf
<1>8. /\ connections' \in [Logins -> SomeSession]
      /\ \A k \in Logins : connections'[k] = IF k = key THEN n ELSE connections[k]
    BY <1>1, <1>3 DEF RemoteTypes, SomeSession
<1>9. sessions[n].made /\ sessions[n].open /\ ~Mapped(n)
      /\ \A u \in Remotes : Inserting(u) /\ remote[u].session = n => u = t
    BY <1>1 DEF SessionsFit
<1>10. \A u \in Remotes : (Inserting(u)' => u # t /\ Inserting(u)) /\ (Closing(u)' => u # t /\ Closing(u))
    BY <1>2, <1>6 DEF Inserting, Closing, On
<1>11. \A u \in Remotes : u # t => remote'[u].session = remote[u].session BY <1>6
<1>12. SessionsFit'
  <2>1. ASSUME NEW k \in Logins, connections'[k] # None
        PROVE  sessions'[connections'[k]].made /\ sessions'[connections'[k]].open
    <3>1. CASE k = key BY <1>1, <1>8, <1>9, <3>1
    <3>2. CASE k # key BY <1>8, <3>2, <1>1, <2>1 DEF SessionsFit
    <3> QED BY <3>1, <3>2
  <2>2. ASSUME NEW k \in Logins, NEW l \in Logins, connections'[k] # None, connections'[k] = connections'[l]
        PROVE  k = l
      BY <1>9, <1>1, <1>8, <2>2 DEF Mapped, SessionsFit
  <2>3. ASSUME NEW u \in Remotes, Inserting(u)'
        PROVE  /\ sessions'[remote'[u].session].made /\ sessions'[remote'[u].session].open
               /\ \A k \in Logins : connections'[k] # remote'[u].session
               /\ \A v \in Remotes : Inserting(v)' /\ remote'[v].session = remote'[u].session => v = u
    <3> DEFINE m == remote[u].session
    <3>1. u # t /\ Inserting(u) /\ remote'[u].session = m BY <1>10, <1>11, <2>3
    <3>2. sessions[m].made /\ sessions[m].open /\ ~Mapped(m) BY <1>1, <3>1 DEF SessionsFit
    <3>3. \A v \in Remotes : Inserting(v) /\ remote[v].session = m => v = u
        BY <1>1, <3>1 DEF SessionsFit
    <3>4. m # n BY <1>9, <3>1
    <3>5. \A k \in Logins : connections'[k] # m BY <1>8, <3>2, <3>4 DEF Mapped
    <3>6. \A v \in Remotes : Inserting(v)' /\ remote'[v].session = m => v = u BY <1>10, <1>11, <3>3
    <3> HIDE DEF m
    <3> QED BY <1>1, <3>1, <3>2, <3>5, <3>6
  <2>4. ASSUME NEW u \in Remotes, Closing(u)'
        PROVE  /\ sessions'[remote'[u].session].made
               /\ \A k \in Logins : connections'[k] # remote'[u].session
               /\ \A v \in Remotes : Inserting(v)' => remote'[v].session # remote'[u].session
    <3> DEFINE m == remote[u].session
    <3>1. u # t /\ Closing(u) /\ remote'[u].session = m BY <1>10, <1>11, <2>4
    <3>2. sessions[m].made /\ ~Mapped(m) /\ \A v \in Remotes : Inserting(v) => remote[v].session # m
        BY <1>1, <3>1 DEF SessionsFit
    <3>3. m # n BY <1>1, <3>2
    <3>4. \A k \in Logins : connections'[k] # m BY <1>8, <3>2, <3>3 DEF Mapped
    <3>5. \A v \in Remotes : Inserting(v)' => remote'[v].session # m BY <1>10, <1>11, <3>2
    <3> HIDE DEF m
    <3> QED BY <1>1, <3>1, <3>2, <3>4, <3>5
  <2> QED BY <2>1, <2>2, <2>3, <2>4 DEF SessionsFit, Mapped
<1>13. AnswerSet' = AnswerSet /\ answers' \in Seq(AllAnswers) BY <1>1 DEF AnswerSet, RemoteTypes
<1>14. ASSUME ~crossed, NEW k \in Logins, k = key PROVE KeyFits(k)'
  <2>1. KeyFits(k) BY <1>14 DEF RemoteInv
  <2>2. \A u \in Remotes : /\ remote'[u].key = remote[u].key /\ remote'[u].call = remote[u].call
                           /\ (Closing(u)' <=> Closing(u)) /\ (Connecting(u) => Connecting(u)')
      BY <1>2, <1>6 DEF Closing, Connecting, Past
  <2>3. \A kind : Said(kind, k)' <=> Said(kind, k) BY <1>13 DEF Said
  <2>4. Served(k) BY <1>2, <1>14 DEF Served, Serving
  <2>5. ~Disconnecting(k) BY <2>1, <2>4 DEF KeyFits
  <2>6. ~Disconnecting(k)' BY <2>2, <2>3, <2>5 DEF Disconnecting
  <2>7. ~Removed(k)' BY <2>6 DEF Removed, Disconnecting, Closing
  <2>8. Coming(k)' BY <1>2, <1>6, <1>14 DEF Coming, Connecting, Past
  <2>9. connections'[k] # None BY <1>4, <1>8, <1>14
  <2> QED BY <2>6, <2>7, <2>8, <2>9 DEF KeyFits
<1>15. sessions' \in [SessionIds -> AllSessions] /\ mapHolder' \in Remotes \cup {None} BY <1>1 DEF RemoteTypes
<1>16. \A k \in Logins : k # remote[t].key => connections'[k] = connections[k] BY <1>8
<1>17. ~crossed => \A k \in Logins : k = remote[t].key => KeyFits(k)' BY <1>14
<1> QED BY <1>1, <1>2, <1>6, <1>7, <1>8, <1>12, <1>13, <1>15, <1>16, <1>17, TaskStep

(* A server leaves the map: nothing else is under way for it, if no disconnect met another
   call. *)
LEMMA RemoveStep == ASSUME RemoteInv, NEW t \in Remotes, RemoveConnection(t) PROVE RemoteInv'
<1> DEFINE key == remote[t].key
          n == connections[key]
<1>1. /\ remote[t].call = "disconnect" /\ remote[t].pc = "begun" /\ UNCHANGED sessions /\ Quietly
      /\ RemoteTypes /\ CallFits(t) /\ SessionsFit
    BY DEF RemoveConnection, On, RemoteInv
<1>2. key \in Logins /\ n \in SomeSession BY <1>1 DEF CallFits, RemoteTypes
<1>3. CASE n = None BY <1>3, <1>1, EndsWith DEF RemoveConnection, Closing, Connecting
<1>4. CASE n # None
  <2>1. /\ connections' = [connections EXCEPT ![key] = None] /\ mapHolder' = t
        /\ remote' = [remote EXCEPT ![t].session = n, ![t].pc = "close"] /\ UNCHANGED answers
      BY <1>4 DEF RemoveConnection
  <2>2. n \in SessionIds /\ "close" \in CallSteps BY <1>2, <1>4 DEF SomeSession, CallSteps
  <2>3. \A k \in Logins : connections[k] = n => k = key BY <1>1, <1>2, <1>4 DEF SessionsFit
  <2>4. sessions[n].made /\ Mapped(n) BY <1>1, <1>2, <1>4 DEF SessionsFit, Mapped
  <2> HIDE DEF n
  <2>5. /\ remote' \in [Remotes -> Calls] /\ \A u \in Remotes : u # t => remote'[u] = remote[u]
        /\ remote'[t].call = remote[t].call /\ remote'[t].key = key
        /\ remote'[t].pane = remote[t].pane /\ remote'[t].session = n /\ remote'[t].pc = "close"
      BY <1>1, <2>1, <2>2, CallGets
  <2>6. CallFits(t)' BY <1>1, <1>2, <2>2, <2>5 DEF CallFits, StepsOf
  <2>7. /\ connections' \in [Logins -> SomeSession]
        /\ \A k \in Logins : connections'[k] = IF k = key THEN None ELSE connections[k]
      BY <1>1, <1>2, <2>1 DEF RemoteTypes, SomeSession
  <2>8. \A u \in Remotes : (Inserting(u)' => u # t /\ Inserting(u)) /\ (Closing(u)' /\ u # t => Closing(u))
      BY <1>1, <2>5 DEF Inserting, Closing, On
  <2>9. \A u \in Remotes : u # t => remote'[u].session = remote[u].session BY <2>5
  <2>10. \A k \in Logins : connections'[k] # n BY <1>4, <2>3, <2>7 DEF n
  <2>11. SessionsFit'
    <3>1. \A k \in Logins : connections'[k] # None =>
              sessions'[connections'[k]].made /\ sessions'[connections'[k]].open
        BY <1>1, <2>7 DEF SessionsFit
    <3>2. \A k, l \in Logins : connections'[k] # None /\ connections'[k] = connections'[l] => k = l
        BY <1>1, <2>7 DEF SessionsFit
    <3>3. ASSUME NEW u \in Remotes, Inserting(u)'
          PROVE  /\ sessions'[remote'[u].session].made /\ sessions'[remote'[u].session].open
                 /\ \A k \in Logins : connections'[k] # remote'[u].session
                 /\ \A v \in Remotes : Inserting(v)' /\ remote'[v].session = remote'[u].session => v = u
      <4> DEFINE m == remote[u].session
      <4>1. u # t /\ Inserting(u) /\ remote'[u].session = m BY <2>8, <2>9, <3>3
      <4>2. sessions[m].made /\ sessions[m].open /\ ~Mapped(m) BY <1>1, <4>1 DEF SessionsFit
      <4>3. \A v \in Remotes : Inserting(v) /\ remote[v].session = m => v = u
          BY <1>1, <4>1 DEF SessionsFit
      <4>4. m # None BY <4>1, RemoteAssumption DEF RemoteInv, Inserting, On, CallFits, SessionIds
      <4>5. \A k \in Logins : connections'[k] # m BY <2>7, <4>2, <4>4 DEF Mapped
      <4>6. \A v \in Remotes : Inserting(v)' /\ remote'[v].session = m => v = u BY <2>8, <2>9, <4>3
      <4> HIDE DEF m
      <4> QED BY <1>1, <4>1, <4>2, <4>5, <4>6
    <3>4. ASSUME NEW u \in Remotes, Closing(u)'
          PROVE  /\ sessions'[remote'[u].session].made
                 /\ \A k \in Logins : connections'[k] # remote'[u].session
                 /\ \A v \in Remotes : Inserting(v)' => remote'[v].session # remote'[u].session
      <4>1. CASE u = t
        <5>1. remote'[u].session = n BY <2>5, <4>1
        <5>2. \A v \in Remotes : Inserting(v) => remote[v].session # n BY <1>1, <2>4 DEF SessionsFit
        <5>3. \A v \in Remotes : Inserting(v)' => remote'[v].session # n BY <2>8, <2>9, <5>2
        <5> QED BY <1>1, <2>4, <2>10, <5>1, <5>3
      <4>2. CASE u # t
        <5> DEFINE m == remote[u].session
        <5>1. Closing(u) /\ remote'[u].session = m BY <2>8, <2>9, <3>4, <4>2
        <5>2. sessions[m].made /\ ~Mapped(m) /\ \A v \in Remotes : Inserting(v) => remote[v].session # m
            BY <1>1, <5>1 DEF SessionsFit
        <5>3. m # None BY <5>1, RemoteAssumption DEF RemoteInv, Closing, CallFits, SessionIds
        <5>4. \A k \in Logins : connections'[k] # m BY <2>7, <5>2, <5>3 DEF Mapped
        <5>5. \A v \in Remotes : Inserting(v)' => remote'[v].session # m BY <2>8, <2>9, <5>2
        <5> HIDE DEF m
        <5> QED BY <1>1, <5>1, <5>2, <5>4, <5>5
      <4> QED BY <4>1, <4>2
    <3> QED BY <3>1, <3>2, <3>3, <3>4 DEF SessionsFit, Mapped
  <2>12. AnswerSet' = AnswerSet /\ answers' \in Seq(AllAnswers) BY <1>1, <2>1 DEF AnswerSet, RemoteTypes
  <2>13. ASSUME ~crossed, NEW k \in Logins, k = key PROVE KeyFits(k)'
    <3>1. KeyFits(k) BY <2>13 DEF RemoteInv
    <3>2. \A u \in Remotes : /\ remote'[u].key = remote[u].key /\ remote'[u].call = remote[u].call
                             /\ (Uses(u)' <=> Uses(u))
        BY <1>1, <2>5 DEF Uses, Past
    <3>3. \A kind : Said(kind, k)' <=> Said(kind, k) BY <2>12 DEF Said
    <3>4. Disconnecting(k) BY <1>1, <2>13 DEF Disconnecting
    <3>5. ~Served(k) BY <3>1, <3>4 DEF KeyFits
    <3>6. ~Served(k)' BY <3>2, <3>3, <3>5 DEF Served, Serving
    <3>7. ~Needed(k)' BY <3>6 DEF Needed, Served, Uses, Serving
    <3>8. Removed(k)' BY <1>1, <2>5, <2>13 DEF Removed, Closing
    <3>9. connections'[k] = None BY <2>7, <2>13
    <3> QED BY <3>6, <3>7, <3>8, <3>9 DEF KeyFits
  <2>14. sessions' \in [SessionIds -> AllSessions] /\ mapHolder' \in Remotes \cup {None}
      BY <1>1, <2>1 DEF RemoteTypes
  <2>15. \A k \in Logins : k # remote[t].key => connections'[k] = connections[k] BY <2>7
  <2>16. ~crossed => \A k \in Logins : k = remote[t].key => KeyFits(k)' BY <2>13
  <2> QED BY <1>1, <2>5, <2>6, <2>7, <2>11, <2>12, <2>14, <2>15, <2>16, TaskStep
<1> QED BY <1>3, <1>4

(* A session is closed: no server has it by then. *)
LEMMA SessionClosedStep == ASSUME RemoteInv, NEW t \in Remotes, SessionClosed(t) PROVE RemoteInv'
<1> DEFINE key == remote[t].key
          n == remote[t].session
          a == [kind |-> "disconnected", key |-> key, pane |-> remote[t].pane]
<1>1. /\ remote[t].call = "disconnect" /\ remote[t].pc = "closing"
      /\ sessions' = [sessions EXCEPT ![n].open = FALSE, ![n].holder = None]
      /\ mapHolder' = None /\ answers' = Append(answers, a) /\ End(t) /\ UNCHANGED connections /\ Quietly
      /\ RemoteTypes /\ CallFits(t) /\ SessionsFit
    BY DEF SessionClosed, On, RemoteInv, Tell
<1>2. key \in Logins /\ n \in SessionIds /\ Closing(t) BY <1>1 DEF CallFits, Closing
<1>3. /\ remote' \in [Remotes -> Calls] /\ remote'[t] = Resting
      /\ \A u \in Remotes : u # t => remote'[u] = remote[u]
    BY <1>1, CallEnds
<1>4. CallFits(t)' /\ remote'[t].key = Home /\ remote'[t].call = "none" /\ remote'[t].pc = "idle"
    BY <1>3, RestingIs DEF CallFits, StepsOf
<1>5. a \in AllAnswers /\ AnswerFits(a) /\ a.kind = "disconnected" /\ a.key = key
    BY <1>1, <1>2 DEF RemoteTypes, Calls, AllAnswers, AnswerKinds, AnswerFits
<1> HIDE DEF a
<1>6. answers' \in Seq(AllAnswers) /\ AnswerSet' = AnswerSet \cup {a} BY <1>1, <1>5, AnswersTold
<1> DEFINE new == [sessions[n] EXCEPT !.open = FALSE, !.holder = None]
<1>7. sessions \in [SessionIds -> AllSessions] /\ sessions[n] \in AllSessions BY <1>1, <1>2 DEF RemoteTypes
<1>8. new \in AllSessions /\ new.made = sessions[n].made BY <1>7 DEF AllSessions
<1>9. sessions' = [sessions EXCEPT ![n] = new] BY <1>1, <1>7
<1> HIDE DEF new
<1>10. /\ sessions' \in [SessionIds -> AllSessions]
       /\ \A m \in SessionIds : sessions'[m] = IF m = n THEN new ELSE sessions[m]
    BY <1>7, <1>8, <1>9
<1>11. ~Mapped(n) /\ \A u \in Remotes : Inserting(u) => remote[u].session # n
    BY <1>1, <1>2 DEF SessionsFit
<1>12. \A u \in Remotes : (Inserting(u)' => u # t /\ Inserting(u)) /\ (Closing(u)' => u # t /\ Closing(u))
    BY <1>3, <1>4 DEF Inserting, Closing, On
<1>13. \A u \in Remotes : u # t => remote'[u].session = remote[u].session BY <1>3
<1>14. \A m \in SessionIds : sessions'[m].made = sessions[m].made /\ (m # n => sessions'[m] = sessions[m])
    BY <1>8, <1>10
<1>15. SessionsFit'
  <2>1. ASSUME NEW k \in Logins, connections'[k] # None
        PROVE  sessions'[connections'[k]].made /\ sessions'[connections'[k]].open
      BY <1>1, <1>11, <2>1, <1>14 DEF RemoteTypes, SomeSession, Mapped, SessionsFit
  <2>2. \A k, l \in Logins : connections'[k] # None /\ connections'[k] = connections'[l] => k = l
      BY <1>1 DEF SessionsFit
  <2>3. ASSUME NEW u \in Remotes, Inserting(u)'
        PROVE  /\ sessions'[remote'[u].session].made /\ sessions'[remote'[u].session].open
               /\ \A k \in Logins : connections'[k] # remote'[u].session
               /\ \A v \in Remotes : Inserting(v)' /\ remote'[v].session = remote'[u].session => v = u
    <3> DEFINE m == remote[u].session
    <3>1. u # t /\ Inserting(u) /\ remote'[u].session = m BY <1>12, <1>13, <2>3
    <3>2. sessions[m].made /\ sessions[m].open /\ ~Mapped(m) BY <1>1, <3>1 DEF SessionsFit
    <3>3. \A v \in Remotes : Inserting(v) /\ remote[v].session = m => v = u
        BY <1>1, <3>1 DEF SessionsFit
    <3>4. m # n /\ m \in SessionIds BY <1>11, <3>1 DEF RemoteInv, CallFits, Inserting, On
    <3>5. \A k \in Logins : connections'[k] # m BY <1>1, <3>2 DEF Mapped
    <3>6. \A v \in Remotes : Inserting(v)' /\ remote'[v].session = m => v = u BY <1>12, <1>13, <3>3
    <3> HIDE DEF m
    <3> QED BY <1>14, <3>1, <3>2, <3>4, <3>5, <3>6
  <2>4. ASSUME NEW u \in Remotes, Closing(u)'
        PROVE  /\ sessions'[remote'[u].session].made
               /\ \A k \in Logins : connections'[k] # remote'[u].session
               /\ \A v \in Remotes : Inserting(v)' => remote'[v].session # remote'[u].session
    <3> DEFINE m == remote[u].session
    <3>1. u # t /\ Closing(u) /\ remote'[u].session = m BY <1>12, <1>13, <2>4
    <3>2. sessions[m].made /\ ~Mapped(m) /\ \A v \in Remotes : Inserting(v) => remote[v].session # m
        BY <1>1, <3>1 DEF SessionsFit
    <3>3. m \in SessionIds BY <3>1 DEF RemoteInv, CallFits, Closing
    <3>4. \A k \in Logins : connections'[k] # m BY <1>1, <3>2 DEF Mapped
    <3>5. \A v \in Remotes : Inserting(v)' => remote'[v].session # m BY <1>12, <1>13, <3>2
    <3> HIDE DEF m
    <3> QED BY <1>14, <3>1, <3>2, <3>3, <3>4, <3>5
  <2> QED BY <2>1, <2>2, <2>3, <2>4 DEF SessionsFit, Mapped
<1>16. ASSUME ~crossed, NEW k \in Logins, k = key PROVE KeyFits(k)'
  <2>1. KeyFits(k) BY <1>16 DEF RemoteInv
  <2>2. k # Home BY RemoteAssumption
  <2>3. \A u \in Remotes : remote'[u].key = k => u # t /\ remote'[u] = remote[u] BY <1>3, <1>4, <2>2
  <2>4. \A u \in Remotes : remote'[u].key = k =>
            /\ remote[u].key = k /\ remote'[u].call = remote[u].call
            /\ (Serving(u)' <=> Serving(u)) /\ (Uses(u)' <=> Uses(u))
      BY <2>3 DEF Serving, Uses, Past
  <2>5. \A u \in Remotes : remote[u].key = k /\ Connecting(u) => remote'[u].key = k /\ Connecting(u)'
      BY <1>1, <1>3 DEF Connecting, Past
  <2>6. \A what : what # "disconnected" => (Said(what, k)' <=> Said(what, k)) BY <1>5, <1>6 DEF Said
  <2>7. Said("disconnected", k)' BY <1>5, <1>6, <1>16 DEF Said
  <2>8. Disconnecting(k) /\ Removed(k) /\ Removed(k)'
      BY <1>1, <1>2, <1>16, <2>7 DEF Disconnecting, Removed
  <2>9. Served(k)' => Served(k) BY <2>4, <2>6 DEF Served
  <2>10. Needed(k)' => Needed(k) BY <2>4, <2>6 DEF Needed
  <2>11. Coming(k) => Coming(k)' BY <2>5, <2>6 DEF Coming
  <2>12. Disconnecting(k)' => Disconnecting(k) BY <2>8
  <2>13. UNCHANGED <<rows, shown>> /\ connections'[k] = connections[k] BY <1>1 DEF Quietly
  <2> QED BY <2>1, <2>8, <2>9, <2>10, <2>11, <2>12, <2>13, KeyStays
<1>17. connections' \in [Logins -> SomeSession] /\ mapHolder' \in Remotes \cup {None}
       /\ \A k \in Logins : connections'[k] = connections[k]
    BY <1>1 DEF RemoteTypes
<1>18. ~crossed => \A k \in Logins : k = remote[t].key => KeyFits(k)' BY <1>16
<1>19. AnswerSet \subseteq AnswerSet' /\ \A b \in AnswerSet' \ AnswerSet : AnswerFits(b) /\ b.key = remote[t].key
    BY <1>5, <1>6
<1> QED BY <1>1, <1>3, <1>4, <1>6, <1>10, <1>15, <1>17, <1>18, <1>19, TaskStep

(* Nothing is open, nothing is under way, and nothing is shown. *)
LEMMA InitOfRemote == ASSUME RemoteInit PROVE RemoteInv
<1>1. /\ connections = [k \in Logins |-> None] /\ mapHolder = None
      /\ sessions = [n \in SessionIds |-> [made |-> FALSE, open |-> FALSE, holder |-> None]]
      /\ remote = [t \in Remotes |-> Resting] /\ answers = << >> /\ dialog = NoConnectDialog
      /\ rows = {} /\ shown = [p \in Panes |-> Home] /\ crossed = FALSE
    BY DEF RemoteInit, SessionIds
<1>2. AnswerSet = {} BY <1>1 DEF AnswerSet
<1>3. \A t \in Remotes : remote[t].call = "none" /\ remote[t].key = Home /\ remote[t].pc = "idle"
    BY <1>1, RestingIs
<1>4. RemoteTypes
  <2>1. remote \in [Remotes -> Calls] BY <1>1, RestingIs
  <2>2. sessions \in [SessionIds -> AllSessions] BY <1>1 DEF AllSessions
  <2>3. answers \in Seq(AllAnswers) BY <1>1
  <2>4. dialog \in [open : BOOLEAN, busy : BOOLEAN, error : BOOLEAN] BY <1>1 DEF NoConnectDialog
  <2>5. connections \in [Logins -> SomeSession] BY <1>1 DEF SomeSession
  <2>6. shown \in [Panes -> Logins \cup {Home}] BY <1>1
  <2> QED BY <1>1, <2>1, <2>2, <2>3, <2>4, <2>5, <2>6 DEF RemoteTypes
<1>5. \A t \in Remotes : CallFits(t) BY <1>3 DEF CallFits, StepsOf
<1>6. SessionsFit BY <1>3, <1>1 DEF Inserting, Closing, On, SessionsFit
<1>7. DialogFits BY <1>1 DEF DialogFits, NoConnectDialog
<1>8. ASSUME NEW k \in Logins PROVE KeyFits(k)
    BY <1>3, RemoteAssumption, <1>2, <1>1 DEF Said, Served, Needed, Removed, KeyFits
<1> QED BY <1>2, <1>4, <1>5, <1>6, <1>7, <1>8 DEF RemoteInv

(* A step in which only the dialog changes. *)
LEMMA DialogStep ==
    ASSUME RemoteInv, dialog' \in [open : BOOLEAN, busy : BOOLEAN, error : BOOLEAN], DialogFits',
           UNCHANGED <<connections, mapHolder, sessions, remote, answers, rows, shown, crossed>>
    PROVE  RemoteInv'
<1>1. RemoteTypes' BY DEF RemoteInv, RemoteTypes
<1>2. AnswerSet' = AnswerSet BY DEF AnswerSet
<1>3. (\A t \in Remotes : CallFits(t))' BY DEF RemoteInv, CallFits
<1>4. (\A a \in AnswerSet : AnswerFits(a))' BY <1>2 DEF RemoteInv, AnswerFits
<1>5. SessionsFit' BY DEF RemoteInv, SessionsFit, Inserting, Closing, Mapped, On
<1>6. ASSUME ~crossed', NEW k \in Logins PROVE KeyFits(k)'
  <2>1. KeyFits(k) BY <1>6 DEF RemoteInv
  <2> QED BY <1>2, <2>1 DEF KeyFits, Disconnecting, Served, Removed, Needed, Coming, Said, Serving,
      Uses, Connecting, Closing, Past
<1> QED BY <1>1, <1>3, <1>4, <1>5, <1>6 DEF RemoteInv

(* The dialog is opened, closed, or finds no target. *)
LEMMA DialogSteps ==
    ASSUME RemoteInv, OpenConnectDialog \/ CloseConnectDialog \/ RefuseTarget PROVE RemoteInv'
<1>1. UNCHANGED <<connections, mapHolder, sessions, remote, answers, rows, shown, crossed>>
    BY DEF OpenConnectDialog, CloseConnectDialog, RefuseTarget
<1>2. dialog \in [open : BOOLEAN, busy : BOOLEAN, error : BOOLEAN] BY DEF RemoteInv, RemoteTypes
<1>3. dialog' \in [open : BOOLEAN, busy : BOOLEAN, error : BOOLEAN] /\ ~dialog'.busy
  <2>1. CASE OpenConnectDialog BY <2>1 DEF OpenConnectDialog, NoConnectDialog
  <2>2. CASE CloseConnectDialog BY <2>2 DEF CloseConnectDialog, NoConnectDialog
  <2>3. CASE RefuseTarget BY <2>3, <1>2 DEF RefuseTarget
  <2> QED BY <2>1, <2>2, <2>3
<1> QED BY <1>1, <1>3, DialogStep DEF DialogFits

(* A new call is a task's that rested. *)
LEMMA CallBegins ==
    ASSUME RemoteTypes, NEW call \in CallKinds, NEW key \in Logins, NEW pane \in Panes \cup {None},
           Spawn(call, key, pane)
    PROVE  \E t \in Remotes :
              /\ remote[t] = Resting /\ remote' \in [Remotes -> Calls]
              /\ \A u \in Remotes : u # t => remote'[u] = remote[u]
              /\ remote'[t].call = call /\ remote'[t].key = key /\ remote'[t].pane = pane
              /\ remote'[t].pc = "begun"
<1> DEFINE resting == {t \in Remotes : remote[t] = Resting}
           u == CHOOSE t \in resting : TRUE
           r == [Resting EXCEPT !.call = call, !.key = key, !.pane = pane, !.pc = "begun"]
<1>1. resting # {} /\ remote' = [remote EXCEPT ![u] = r] BY DEF Spawn
<1>2. u \in Remotes /\ remote[u] = Resting BY <1>1
<1>3. "begun" \in CallSteps BY DEF CallSteps
<1>4. r \in Calls /\ r.call = call /\ r.key = key /\ r.pane = pane /\ r.pc = "begun"
    BY <1>3 DEF Calls, Resting, SomeSession
<1> HIDE DEF r, u
<1>5. remote' \in [Remotes -> Calls] /\ remote'[u] = r /\ \A v \in Remotes : v # u => remote'[v] = remote[v]
    BY <1>1, <1>2, <1>4, CallSet
<1> QED BY <1>2, <1>4, <1>5

(* A call begins: it meets none of the other class, if nothing crosses. *)
LEMMA SpawnStep ==
    ASSUME RemoteInv, NEW call \in CallKinds \ {"none"}, NEW key \in Logins, NEW pane \in Panes \cup {None},
           Spawn(call, key, pane), call = "list" => pane \in Panes,
           call \in {"list", "mkdir"} => key \in rows \/ \E p \in Panes : shown[p] = key,
           IF call = "connect" THEN dialog.open /\ dialog' = [dialog EXCEPT !.busy = TRUE, !.error = FALSE]
           ELSE UNCHANGED dialog,
           UNCHANGED <<connections, mapHolder, sessions, answers, rows, shown>>
    PROVE  RemoteInv'
<1>1. RemoteTypes BY DEF RemoteInv
<1>2. PICK t \in Remotes :
         /\ remote[t] = Resting /\ remote' \in [Remotes -> Calls]
         /\ \A u \in Remotes : u # t => remote'[u] = remote[u]
         /\ remote'[t].call = call /\ remote'[t].key = key /\ remote'[t].pane = pane
         /\ remote'[t].pc = "begun"
    BY <1>1, CallBegins
<1>3. remote[t].call = "none" /\ remote[t].key = Home /\ remote[t].pc = "idle" BY <1>2, RestingIs
<1>4. call \in {"connect", "disconnect", "list", "mkdir"} BY DEF CallKinds
<1>5. crossed' = (crossed \/ Crosses(call, key)) BY DEF Spawn
<1>6. AnswerSet' = AnswerSet BY DEF AnswerSet
<1>7. dialog' \in [open : BOOLEAN, busy : BOOLEAN, error : BOOLEAN] BY <1>1 DEF RemoteTypes
<1>8. RemoteTypes' BY <1>1, <1>5, <1>2, <1>7 DEF RemoteTypes, Crosses
<1>9. ASSUME NEW u \in Remotes PROVE CallFits(u)'
  <2>1. CASE u = t BY <1>2, <1>4, <2>1 DEF CallFits, StepsOf
  <2>2. CASE u # t BY <1>2, <2>2 DEF RemoteInv, CallFits
  <2> QED BY <2>1, <2>2
<1>10. (\A a \in AnswerSet : AnswerFits(a))' BY <1>6 DEF RemoteInv, AnswerFits
<1>11. SessionsFit'
  <2>1. \A u \in Remotes : (Inserting(u)' => Inserting(u) /\ remote'[u].session = remote[u].session)
                           /\ (Closing(u)' => Closing(u) /\ remote'[u].session = remote[u].session)
    <3> TAKE u \in Remotes
    <3>1. CASE u # t BY <1>2, <3>1 DEF Inserting, Closing, On
    <3>2. CASE u = t BY <1>2, <3>2 DEF Inserting, Closing, On
    <3> QED BY <3>1, <3>2
  <2>2. SessionsFit /\ \A u \in Remotes : CallFits(u) BY DEF RemoteInv
  <2> QED BY <1>1, <2>1, <2>2, SessionsStay
<1>12. DialogFits'
  <2>1. CASE call = "connect"
    <3>1. dialog'.open /\ ~dialog'.error BY <1>1, <2>1 DEF RemoteTypes
    <3>2. Answering' BY <1>2, <2>1 DEF Answering
    <3> QED BY <3>1, <3>2 DEF DialogFits
  <2>2. CASE call # "connect" BY <1>2, <1>3, <1>6, <2>2 DEF Answering, RemoteInv, DialogFits
  <2> QED BY <2>1, <2>2
<1>13. ASSUME ~crossed', NEW k \in Logins, k # key PROVE KeyFits(k)'
  <2>1. KeyFits(k) BY <1>5, <1>13 DEF RemoteInv
  <2>2. k # remote[t].key /\ k # remote'[t].key BY <1>2, <1>3, <1>13, RemoteAssumption
  <2>3. connections'[k] = connections[k] /\ UNCHANGED <<rows, shown>> OBVIOUS
  <2> QED BY <1>2, <1>6, <2>1, <2>2, <2>3, OthersStay
<1>14. ASSUME ~crossed' PROVE KeyFits(key)'
  <2>1. KeyFits(key) BY <1>5, <1>14 DEF RemoteInv
  <2>2. ~Crosses(call, key) BY <1>5, <1>14
  <2>3. \A u \in Remotes : remote[u].key = key => (remote[u].call \in Disconnects <=> call \in Disconnects)
    <3> TAKE u \in Remotes
    <3> HAVE remote[u].key = key
    <3> DEFINE c == [call |-> remote[u].call, key |-> remote[u].key]
    <3>1. c \in Pending BY DEF Pending
    <3>2. c.key = key /\ c.call = remote[u].call OBVIOUS
    <3> HIDE DEF c
    <3> QED BY <2>2, <3>1, <3>2 DEF Crosses
  <2>4. \A a \in AnswerSet : a.key = key => (a.kind \in Disconnects <=> call \in Disconnects)
    <3> SUFFICES ASSUME NEW i \in DOMAIN answers, answers[i].key = key
                 PROVE  answers[i].kind \in Disconnects <=> call \in Disconnects
        BY DEF AnswerSet
    <3> DEFINE c == [call |-> answers[i].kind, key |-> answers[i].key]
    <3>1. c \in Pending BY DEF Pending
    <3>2. c.key = key /\ c.call = answers[i].kind OBVIOUS
    <3> HIDE DEF c
    <3> QED BY <2>2, <3>1, <3>2 DEF Crosses
  <2>5. \A u \in Remotes : remote'[u].key = key =>
            IF u = t THEN remote'[u].call = call /\ remote'[u].pc = "begun"
                     ELSE remote'[u] = remote[u] /\ remote[u].key = key
      BY <1>2
  <2>6. \A u \in Remotes : remote[u].key = key => u # t /\ remote'[u] = remote[u]
      BY <1>2, <1>3, RemoteAssumption
  <2>7. \A kind : Said(kind, key)' <=> Said(kind, key) BY <1>6 DEF Said
  <2>8. \A u \in Remotes : u # t => /\ (Closing(u)' <=> Closing(u)) /\ (Past(u)' <=> Past(u))
                                    /\ (Serving(u)' <=> Serving(u)) /\ (Uses(u)' <=> Uses(u))
                                    /\ (Connecting(u)' <=> Connecting(u))
      BY <1>2 DEF Closing, Past, Serving, Uses, Connecting
  <2>9. ~Closing(t)' /\ ~Connecting(t)' BY <1>2 DEF Closing, Connecting, Past
  <2>10. Removed(key)' <=> Removed(key) BY <2>5, <2>6, <2>7, <2>8, <2>9 DEF Removed
  <2>11. Coming(key) => Coming(key)' BY <2>6, <2>7, <2>8 DEF Coming
  <2>12. CASE call = "disconnect"
    <3>1. ~Served(key) BY <2>3, <2>4, <2>12 DEF Served, Said, Serving, Disconnects
    <3>2. ~Serving(t)' BY <1>2, <2>12 DEF Serving
    <3>3. ~Served(key)' BY <2>5, <2>7, <2>8, <3>1, <3>2 DEF Served
    <3>4. ~Needed(key)' BY <3>3 DEF Needed, Served, Uses, Serving
    <3> QED BY <2>1, <2>10, <2>11, <3>3, <3>4 DEF KeyFits
  <2>13. CASE call # "disconnect"
    <3>1. call \notin Disconnects BY <1>4, <2>13 DEF Disconnects
    <3>2. ~Disconnecting(key) BY <2>3, <2>4, <3>1 DEF Disconnecting, Said, Disconnects
    <3>3. ~Disconnecting(key)' BY <2>5, <2>7, <2>13, <3>2 DEF Disconnecting
    <3>4. ~Removed(key) BY <3>2 DEF Removed, Disconnecting, Closing
    <3>5. call \in {"list", "mkdir"} => connections[key] # None BY <2>1, <3>4 DEF KeyFits
    <3>6. call = "connect" => ~Uses(t)' BY <1>2 DEF Uses, Past
    <3>7. Needed(key)' => Needed(key) \/ call \in {"list", "mkdir"}
        BY <1>4, <2>5, <2>7, <2>8, <2>13, <3>6 DEF Needed
    <3>8. Needed(key)' => connections'[key] # None BY <2>1, <3>5, <3>7 DEF KeyFits
    <3> QED BY <2>1, <2>10, <2>11, <3>3, <3>8 DEF KeyFits
  <2> QED BY <2>12, <2>13
<1> QED BY <1>8, <1>9, <1>10, <1>11, <1>12, <1>13, <1>14 DEF RemoteInv

(* ConnectTo preserves the invariant. *)
LEMMA ConnectToStep == ASSUME RemoteInv, NEW k \in Logins, ConnectTo(k) PROVE RemoteInv'
BY SpawnStep DEF CallKinds, ConnectTo

(* Eject preserves it. *)
LEMMA EjectStep == ASSUME RemoteInv, NEW k \in Logins, Eject(k) PROVE RemoteInv'
BY SpawnStep DEF CallKinds, Eject

(* BrowseRemote preserves it: the row or the pane has its server connected, or a disconnect is
   met. *)
LEMMA BrowseStep == ASSUME RemoteInv, NEW k \in Logins, NEW p \in Panes, BrowseRemote(k, p) PROVE RemoteInv'
BY SpawnStep DEF CallKinds, BrowseRemote

(* MakeFolder preserves it. *)
LEMMA MakeFolderStep == ASSUME RemoteInv, NEW p \in Panes, MakeFolder(p) PROVE RemoteInv'
BY SpawnStep DEF CallKinds, MakeFolder, RemoteInv, RemoteTypes

(* The window takes an answer: what it shows of the server follows what the answer says, and of
   every other one nothing changes. *)
LEMMA HandleStep == ASSUME RemoteInv, HandleAnswer PROVE RemoteInv'
<1> DEFINE a == Head(answers)
<1>1. /\ answers # << >> /\ answers' = Tail(answers) /\ UNCHANGED <<connections, mapHolder, sessions, remote, crossed>>
      /\ RemoteTypes
  <2>1. answers # << >> /\ answers' = Tail(answers) /\ RemoteTypes BY DEF HandleAnswer, RemoteInv
  <2>2. a \in AllAnswers BY <2>1, HeadTailProperties DEF RemoteTypes
  <2>3. a.kind \in AnswerKinds BY <2>2 DEF AllAnswers
  <2> QED BY <2>1, <2>3 DEF HandleAnswer, Connected, Disconnected, AnswerKinds
<1>2. /\ answers' \in Seq(AllAnswers) /\ AnswerSet' \subseteq AnswerSet /\ a \in AnswerSet
      /\ AnswerSet \subseteq AnswerSet' \cup {a}
    BY <1>1, AnswersTaken
<1>3. a \in AllAnswers BY <1>1, HeadTailProperties DEF RemoteTypes
<1>4. AnswerFits(a) /\ a.kind \in AnswerKinds BY <1>2, <1>3 DEF RemoteInv, AllAnswers
<1>5. /\ a.kind = "connected" => Connected(a.key)
      /\ a.kind = "disconnected" => Disconnected(a.key)
      /\ a.kind = "error" => ShowError /\ UNCHANGED <<rows, shown>>
      /\ a.kind = "listed" => shown' = [shown EXCEPT ![a.pane] = a.key] /\ UNCHANGED <<dialog, rows>>
    BY DEF HandleAnswer
<1> HIDE DEF a
<1>6. dialog \in [open : BOOLEAN, busy : BOOLEAN, error : BOOLEAN] BY <1>1 DEF RemoteTypes
<1>7. /\ dialog' \in [open : BOOLEAN, busy : BOOLEAN, error : BOOLEAN]
      /\ (dialog'.busy => dialog' = dialog)
      /\ (a.kind \in {"connected", "error"} /\ dialog'.busy => ~dialog.open)
  <2>1. CASE a.kind = "connected"
    <3>1. dialog' = [open |-> FALSE, busy |-> FALSE, error |-> FALSE]
        BY <1>5, <2>1 DEF Connected, NoConnectDialog
    <3> QED BY <3>1
  <2>2. CASE a.kind = "error" BY <1>5, <1>6, <2>2 DEF ShowError
  <2>3. CASE a.kind \in {"disconnected", "listed"} BY <1>5, <1>6, <2>3 DEF Disconnected
  <2> QED BY <1>4, <2>1, <2>2, <2>3 DEF AnswerKinds
<1>8. DialogFits' BY <1>7, <1>2, <1>1 DEF DialogFits, RemoteInv, Answering
<1>9. /\ rows' \subseteq Logins /\ shown' \in [Panes -> Logins \cup {Home}]
      /\ \A k \in Logins : k \in rows' <=> \/ k \in rows /\ ~(a.kind = "disconnected" /\ a.key = k)
                                           \/ a.kind = "connected" /\ a.key = k
      /\ \A k \in Logins : (\E p \in Panes : shown'[p] = k) =>
                            \/ (\E p \in Panes : shown[p] = k) /\ ~(a.kind = "disconnected" /\ a.key = k)
                            \/ a.kind \in {"connected", "listed"} /\ a.key = k
  <2>1. rows \subseteq Logins /\ shown \in [Panes -> Logins \cup {Home}] BY <1>1 DEF RemoteTypes
  <2>2. CASE a.kind = "connected" BY <1>4, <2>2, <1>5, <2>1 DEF AnswerFits, Connected
  <2>3. CASE a.kind = "disconnected" BY <1>5, <2>3, <2>1, RemoteAssumption DEF Disconnected
  <2>4. CASE a.kind = "error" BY <1>5, <2>1, <2>4
  <2>5. CASE a.kind = "listed" BY <1>4, <2>5, <1>5, <2>1 DEF AnswerFits
  <2> QED BY <1>4, <2>2, <2>3, <2>4, <2>5 DEF AnswerKinds
<1>10. RemoteTypes' BY <1>1, <1>2, <1>7, <1>9 DEF RemoteTypes
<1>11. (\A t \in Remotes : CallFits(t))' BY <1>1 DEF RemoteInv, CallFits
<1>12. \A b \in AnswerSet' : AnswerFits(b) BY <1>2 DEF RemoteInv
<1>13. SessionsFit' BY <1>1 DEF RemoteInv, SessionsFit, Inserting, Closing, Mapped, On
<1>14. ASSUME ~crossed', NEW k \in Logins PROVE KeyFits(k)'
  <2>1. KeyFits(k) BY <1>1, <1>14 DEF RemoteInv
  <2>2. \A kind : Said(kind, k)' => Said(kind, k) BY <1>2 DEF Said
  <2>3. \A kind : Said(kind, k) => Said(kind, k)' \/ (a.kind = kind /\ a.key = k) BY <1>2 DEF Said
  <2>4. a.key = k => Said(a.kind, k) BY <1>2 DEF Said
  <2>5. \A t \in Remotes : /\ (Closing(t)' <=> Closing(t)) /\ (Serving(t)' <=> Serving(t))
                           /\ (Uses(t)' <=> Uses(t)) /\ (Connecting(t)' <=> Connecting(t))
      BY <1>1 DEF Closing, Past, Serving, Uses, Connecting
  <2>6. (Disconnecting(k)' => Disconnecting(k)) /\ (Served(k)' => Served(k)) /\ (Needed(k)' => Needed(k))
        /\ (Removed(k)' => Removed(k))
      BY <1>1, <2>2, <2>5 DEF Disconnecting, Served, Needed, Removed
  <2>7. Removed(k) => Removed(k)' \/ (a.kind = "disconnected" /\ a.key = k) BY <1>1, <2>3, <2>5 DEF Removed
  <2>8. Coming(k) => Coming(k)' \/ (a.kind = "connected" /\ a.key = k) BY <1>1, <2>3, <2>5 DEF Coming
  <2>9. a.kind \in {"connected", "listed"} /\ a.key = k => Needed(k) BY <2>4 DEF Needed
  <2>10. a.kind = "disconnected" /\ a.key = k => Removed(k) BY <2>4 DEF Removed
  <2>11. ~(Disconnecting(k)' /\ Served(k)') BY <2>1, <2>6 DEF KeyFits
  <2>12. Removed(k)' => connections'[k] = None BY <1>1, <2>1, <2>6 DEF KeyFits
  <2>13. Needed(k)' => connections'[k] # None BY <1>1, <2>1, <2>6 DEF KeyFits
  <2>14. k \in rows' \/ (\E p \in Panes : shown'[p] = k) => connections'[k] # None \/ Removed(k)'
    <3> SUFFICES ASSUME k \in rows' \/ \E p \in Panes : shown'[p] = k
                 PROVE  connections[k] # None \/ Removed(k)' BY <1>1
    <3>1. CASE a.kind \in {"connected", "listed"} /\ a.key = k BY <2>1, <2>9, <3>1 DEF KeyFits
    <3>2. CASE ~(a.kind \in {"connected", "listed"} /\ a.key = k) BY <1>9, <3>2, <2>1, <2>7 DEF KeyFits
    <3> QED BY <3>1, <3>2
  <2>15. connections'[k] # None => k \in rows' \/ Coming(k)'
      BY <1>1, <2>1, <2>10, <1>9, <2>8 DEF KeyFits
  <2> QED BY <2>11, <2>12, <2>13, <2>14, <2>15 DEF KeyFits
<1> QED BY <1>8, <1>10, <1>11, <1>12, <1>13, <1>14 DEF RemoteInv

(* Every step preserves the invariant. *)
LEMMA NextOfRemote == ASSUME RemoteInv, RemoteNext PROVE RemoteInv'
<1>1. CASE OpenConnectDialog \/ CloseConnectDialog \/ RefuseTarget BY <1>1, DialogSteps
<1>2. CASE HandleAnswer BY <1>2, HandleStep
<1>3. CASE \E k \in Logins : ConnectTo(k) \/ Eject(k) \/ \E p \in Panes : BrowseRemote(k, p)
    BY <1>3, ConnectToStep, EjectStep, BrowseStep
<1>4. CASE \E p \in Panes : MakeFolder(p) BY <1>4, MakeFolderStep
<1>5. CASE \E t \in Remotes : RemoteStep(t)
  <2>1. PICK t \in Remotes : RemoteStep(t) BY <1>5
  <2>2. CASE Refused(t) BY <2>2, RefusedStep
  <2>3. CASE AcceptLogin(t) BY <2>3, AcceptStep
  <2>4. CASE InsertLogin(t) BY <2>4, InsertStep
  <2>5. CASE Lookup(t) BY <2>5, LookupStep
  <2>6. CASE Ask(t) BY <2>6, AskRemoteStep
  <2>7. CASE Answer(t) BY <2>7, AnswerStep
  <2>8. CASE LookAtTaken(t) BY <2>8, LookAtTakenStep
  <2>9. CASE Unlocked(t) BY <2>9, UnlockedStep
  <2>10. CASE Announce(t) BY <2>10, AnnounceStep
  <2>11. CASE Report(t) BY <2>11, ReportStep
  <2>12. CASE RemoveConnection(t) BY <2>12, RemoveStep
  <2>13. CASE TakeSession(t) BY <2>13, TakeSessionStep
  <2>14. CASE SessionClosed(t) BY <2>14, SessionClosedStep
  <2> QED BY <2>1, <2>2, <2>3, <2>4, <2>5, <2>6, <2>7, <2>8, <2>9, <2>10, <2>11, <2>12, <2>13, <2>14 DEF
      RemoteStep
<1> QED BY <1>1, <1>2, <1>3, <1>4, <1>5 DEF RemoteNext

(* So does none. *)
LEMMA StutterOfRemote == ASSUME RemoteInv, UNCHANGED remoteVars PROVE RemoteInv'
<1>1. UNCHANGED <<connections, mapHolder, sessions, remote, answers, rows, shown, crossed, dialog>> BY DEF remoteVars
<1>2. dialog' \in [open : BOOLEAN, busy : BOOLEAN, error : BOOLEAN] BY <1>1 DEF RemoteInv, RemoteTypes
<1>3. DialogFits' BY <1>1 DEF Answering, AnswerSet, RemoteInv, DialogFits
<1> QED BY <1>1, <1>2, <1>3, DialogStep

(* router.rs, window.rs: calls, sessions, rows and dialog fit each other in every state. *)
THEOREM RemoteAlwaysFits == RemoteSpec => []RemoteInv
<1>1. RemoteInit => RemoteInv BY InitOfRemote
<1>2. RemoteInv /\ [RemoteNext]_remoteVars => RemoteInv' BY NextOfRemote, StutterOfRemote
<1> QED BY <1>1, <1>2, PTL DEF RemoteSpec

(* sidebar.rs:289, window.rs:1910: when nothing is under way and no disconnect met another call
   on its server, the rows are the open connections and every pane is at home or on one of
   them, for any servers, panes, tasks and bounds. *)
THEOREM RowsAreAlwaysOpen == RemoteSpec => []RowsAreOpen
<1>1. ASSUME RemoteInv, Calm, ~crossed PROVE Agrees
  <2>1. AnswerSet = {} BY <1>1 DEF Calm, AnswerSet
  <2>2. \A t \in Remotes : remote[t].key = Home BY <1>1, RestingIs DEF Calm
  <2>3. ASSUME NEW k \in Logins
        PROVE  /\ (k \in rows <=> connections[k] # None)
               /\ \A p \in Panes : shown[p] = k => connections[k] # None
      BY <1>1, <2>1, <2>2, RemoteAssumption DEF RemoteInv, Removed, Coming, Said, KeyFits
  <2>4. rows \subseteq Logins /\ shown \in [Panes -> Logins \cup {Home}] BY <1>1 DEF RemoteInv, RemoteTypes
  <2>5. rows = OpenLogins BY <2>3, <2>4 DEF OpenLogins
  <2>6. \A k \in OpenLogins : sessions[connections[k]].open BY <1>1 DEF RemoteInv, SessionsFit, OpenLogins
  <2>7. \A p \in Panes : shown[p] # Home => shown[p] \in OpenLogins BY <2>3, <2>4 DEF OpenLogins
  <2> QED BY <2>5, <2>6, <2>7 DEF Agrees
<1>2. RemoteInv => RowsAreOpen BY <1>1 DEF RowsAreOpen
<1> QED BY <1>2, RemoteAlwaysFits, PTL

(* connect_dialog.rs: a dialog that lets nobody type has an answer coming, and one that shows
   an error lets its user try again. *)
THEOREM BusyIsAlwaysAnswered == RemoteSpec => []BusyIsAnswered
<1>1. ASSUME RemoteInv, dialog.busy PROVE BusyIsAnswered
  <2>1. dialog.open /\ ~dialog.error /\ Answering BY <1>1 DEF RemoteInv, DialogFits
  <2>2. \E c \in Pending : c.call \in {"connect", "connected", "error"}
    <3>1. CASE \E t \in Remotes : remote[t].call = "connect"
      <4>1. PICK t \in Remotes : remote[t].call = "connect" BY <3>1
      <4> DEFINE c == [call |-> remote[t].call, key |-> remote[t].key]
      <4>2. c \in Pending /\ c.call = "connect" BY <4>1 DEF Pending
      <4> HIDE DEF c
      <4> QED BY <4>2
    <3>2. CASE \E a \in AnswerSet : a.kind \in {"connected", "error"}
      <4>1. PICK i \in DOMAIN answers : answers[i].kind \in {"connected", "error"} BY <3>2 DEF AnswerSet
      <4> DEFINE c == [call |-> answers[i].kind, key |-> answers[i].key]
      <4>2. c \in Pending /\ c.call = answers[i].kind BY DEF Pending
      <4> HIDE DEF c
      <4> QED BY <4>1, <4>2
    <3> QED BY <2>1, <3>1, <3>2 DEF Answering
  <2> QED BY <2>1, <2>2 DEF BusyIsAnswered
<1>2. RemoteInv => BusyIsAnswered BY <1>1 DEF BusyIsAnswered
<1> QED BY <1>2, RemoteAlwaysFits, PTL

(* A call has the lock on its session, or waits for it. *)
UnderLock(t) == remote[t].pc \in {"asked", "done", "failed", "closing"}
NearLock(t)  == remote[t].pc \in {"wait", "close"} \/ UnderLock(t)

(* A session is locked by a call that is at work on it, and each such call has its lock; the
   map is locked while a disconnect waits for its session, or closes it. *)
CallsHoldLocks ==
    /\ \A n \in SessionIds : sessions[n].holder # None =>
          UnderLock(sessions[n].holder) /\ remote[sessions[n].holder].session = n
    /\ \A t \in Remotes : UnderLock(t) => sessions[remote[t].session].holder = t
    /\ \A t \in Remotes : NearLock(t) => sessions[remote[t].session].made
    /\ mapHolder # None => Closing(mapHolder)
    /\ \A t \in Remotes : remote[t].pc = "idle" => remote[t] = Resting

(* A call that waits for a lock on a session has a session. *)
LEMMA NearIs == ASSUME RemoteInv, NEW t \in Remotes, NearLock(t) PROVE remote[t].session \in SessionIds
BY DEF RemoteInv, NearLock, UnderLock, CallFits

(* What a step of task t must show: it takes a lock, gives one back, or leaves them alone. *)
LEMMA LockStep ==
    ASSUME RemoteInv, CallsHoldLocks, NEW t \in Remotes, \A u \in Remotes : u # t => remote'[u] = remote[u],
           remote'[t].pc # "idle" \/ remote'[t] = Resting,
           NearLock(t)' => remote'[t].session \in SessionIds /\ sessions'[remote'[t].session].made,
           \A n \in SessionIds : sessions[n].made => sessions'[n].made,
           \/ /\ \A n \in SessionIds : sessions'[n].holder = sessions[n].holder
              /\ UnderLock(t)' <=> UnderLock(t)
              /\ UnderLock(t) => remote'[t].session = remote[t].session
           \/ \E n \in SessionIds :
                 /\ \A m \in SessionIds \ {n} : sessions'[m].holder = sessions[m].holder
                 /\ \/ /\ sessions[n].holder = None /\ sessions'[n].holder = t /\ ~UnderLock(t)
                       /\ UnderLock(t)' /\ remote'[t].session = n
                    \/ /\ sessions'[n].holder = None /\ ~UnderLock(t)'
                       /\ UnderLock(t) /\ remote[t].session = n,
           \/ mapHolder' = None
           \/ mapHolder' = mapHolder /\ (Closing(t) => Closing(t)')
           \/ mapHolder' = t /\ Closing(t)'
    PROVE  CallsHoldLocks'
<1>1. /\ \A u \in Remotes \ {t} : (UnderLock(u)' <=> UnderLock(u)) /\ (NearLock(u)' <=> NearLock(u))
                                   /\ (Closing(u)' <=> Closing(u))
      /\ \A u \in Remotes \ {t} : remote'[u].session = remote[u].session
    BY DEF UnderLock, NearLock, Closing
<1>2. \A u \in Remotes : NearLock(u) => remote[u].session \in SessionIds BY NearIs
<1>3. \A u \in Remotes : UnderLock(u) => NearLock(u) BY DEF NearLock
<1>4. sessions \in [SessionIds -> AllSessions] /\ mapHolder \in Remotes \cup {None} BY DEF RemoteInv, RemoteTypes
<1>5. \A n \in SessionIds : sessions[n].holder \in Remotes \cup {None} BY <1>4 DEF AllSessions
<1>6. None \notin Remotes BY RemoteAssumption
<1>7. \A u \in Remotes : NearLock(u)' => sessions'[remote'[u].session].made
  <2> TAKE u \in Remotes
  <2>1. CASE u = t BY <2>1
  <2>2. CASE u # t BY <1>1, <1>2, <2>2 DEF CallsHoldLocks
  <2> QED BY <2>1, <2>2
<1>8. mapHolder' # None => mapHolder' \in Remotes /\ Closing(mapHolder)'
  <2> SUFFICES ASSUME mapHolder' # None PROVE mapHolder' \in Remotes /\ Closing(mapHolder)' OBVIOUS
  <2>1. CASE mapHolder' = t /\ Closing(t)' BY <2>1 DEF Closing
  <2>2. CASE mapHolder' = mapHolder /\ (Closing(t) => Closing(t)')
    <3>1. mapHolder \in Remotes /\ Closing(mapHolder) BY <1>4, <2>2 DEF CallsHoldLocks
    <3>2. CASE mapHolder = t BY <2>2, <3>1, <3>2 DEF Closing
    <3>3. CASE mapHolder # t BY <3>1, <3>3, <2>2 DEF Closing
    <3> QED BY <3>2, <3>3
  <2> QED BY <2>1, <2>2
<1>9. ASSUME NEW u \in Remotes, UnderLock(u)' PROVE sessions'[remote'[u].session].holder = u
  <2>1. UnderLock(u) => sessions[remote[u].session].holder = u /\ remote[u].session \in SessionIds
      BY <1>2, <1>3 DEF CallsHoldLocks
  <2>2. CASE /\ \A n \in SessionIds : sessions'[n].holder = sessions[n].holder
             /\ UnderLock(t)' <=> UnderLock(t)
             /\ UnderLock(t) => remote'[t].session = remote[t].session
      BY <1>1, <1>9, <2>2, <2>1
  <2>3. ASSUME NEW n \in SessionIds, \A m \in SessionIds \ {n} : sessions'[m].holder = sessions[m].holder,
               sessions[n].holder = None, sessions'[n].holder = t, ~UnderLock(t), UnderLock(t)',
               remote'[t].session = n
        PROVE  sessions'[remote'[u].session].holder = u
    <3>1. CASE u = t BY <2>3, <3>1
    <3>2. CASE u # t BY <1>1, <1>9, <3>2, <1>6, <2>1, <2>3
    <3> QED BY <3>1, <3>2
  <2>4. ASSUME NEW n \in SessionIds, \A m \in SessionIds \ {n} : sessions'[m].holder = sessions[m].holder,
               sessions'[n].holder = None, ~UnderLock(t)', UnderLock(t), remote[t].session = n
        PROVE  sessions'[remote'[u].session].holder = u
      BY <1>9, <2>4, <1>1, <2>1 DEF CallsHoldLocks
  <2> QED BY <2>2, <2>3, <2>4
<1>10. ASSUME NEW n \in SessionIds, sessions'[n].holder # None
       PROVE  /\ sessions'[n].holder \in Remotes
              /\ \A u \in Remotes : u = sessions'[n].holder => UnderLock(u)' /\ remote'[u].session = n
  <2>1. ASSUME NEW u \in Remotes, sessions[n].holder = u PROVE UnderLock(u) /\ remote[u].session = n
      BY <1>6, <2>1 DEF CallsHoldLocks
  <2>2. CASE /\ \A m \in SessionIds : sessions'[m].holder = sessions[m].holder
             /\ UnderLock(t)' <=> UnderLock(t)
             /\ UnderLock(t) => remote'[t].session = remote[t].session
      BY <1>5, <1>10, <2>2, <1>1, <2>1
  <2>3. ASSUME NEW k \in SessionIds, \A m \in SessionIds \ {k} : sessions'[m].holder = sessions[m].holder,
               sessions[k].holder = None, sessions'[k].holder = t, ~UnderLock(t), UnderLock(t)',
               remote'[t].session = k
        PROVE  /\ sessions'[n].holder \in Remotes
               /\ \A u \in Remotes : u = sessions'[n].holder => UnderLock(u)' /\ remote'[u].session = n
    <3>1. CASE n = k BY <2>3, <3>1
    <3>2. CASE n # k BY <1>5, <1>10, <2>3, <3>2, <2>1, <1>1
    <3> QED BY <3>1, <3>2
  <2>4. ASSUME NEW k \in SessionIds, \A m \in SessionIds \ {k} : sessions'[m].holder = sessions[m].holder,
               sessions'[k].holder = None, ~UnderLock(t)', UnderLock(t), remote[t].session = k
        PROVE  /\ sessions'[n].holder \in Remotes
               /\ \A u \in Remotes : u = sessions'[n].holder => UnderLock(u)' /\ remote'[u].session = n
      BY <1>10, <2>4, <1>5, <2>1, <1>1
  <2> QED BY <2>2, <2>3, <2>4
<1>11. \A n \in SessionIds : sessions'[n].holder # None =>
          UnderLock(sessions[n].holder)' /\ remote'[sessions'[n].holder].session = n
    BY <1>10 DEF UnderLock
<1>12. \A u \in Remotes : remote'[u].pc = "idle" => remote'[u] = Resting BY DEF CallsHoldLocks
<1> QED BY <1>7, <1>8, <1>9, <1>11, <1>12 DEF CallsHoldLocks, Resting

(* One that leaves them alone. *)
LEMMA Unlocking ==
    ASSUME RemoteInv, CallsHoldLocks, NEW t \in Remotes, \A u \in Remotes : u # t => remote'[u] = remote[u],
           remote'[t].pc # "idle" \/ remote'[t] = Resting,
           UNCHANGED <<sessions, mapHolder>>, UnderLock(t)' <=> UnderLock(t),
           UnderLock(t) => remote'[t].session = remote[t].session,
           NearLock(t)' => remote'[t].session \in SessionIds /\ sessions[remote'[t].session].made,
           Closing(t) => Closing(t)'
    PROVE  CallsHoldLocks'
BY LockStep

(* One that takes a lock nobody has. *)
LEMMA LockTaken ==
    ASSUME RemoteInv, CallsHoldLocks, NEW t \in Remotes, NEW pc \in {"asked", "failed", "closing"},
           remote[t].pc \in {"wait", "close"}, LockSession(t), Step(t, pc), UNCHANGED mapHolder,
           remote[t].pc = "close" => pc = "closing"
    PROVE  CallsHoldLocks'
<1> DEFINE n == remote[t].session
<1>1. RemoteTypes /\ sessions \in [SessionIds -> AllSessions] /\ pc \in CallSteps
    BY DEF RemoteInv, RemoteTypes, CallSteps
<1>2. /\ \A u \in Remotes : u # t => remote'[u] = remote[u]
      /\ remote'[t].call = remote[t].call /\ remote'[t].session = n /\ remote'[t].pc = pc
    BY <1>1, CallSteps1
<1>3. NearLock(t) /\ ~UnderLock(t) BY DEF NearLock, UnderLock
<1>4. n \in SessionIds /\ sessions[n].made BY <1>3, NearIs DEF CallsHoldLocks
<1>5. sessions[n].holder = None /\ sessions' = [sessions EXCEPT ![n].holder = t] BY DEF LockSession
<1> HIDE DEF n
<1>6. \A m \in SessionIds : sessions'[m].made = sessions[m].made BY <1>1, <1>4, <1>5, HolderSet
<1>7. sessions'[n].holder = t /\ \A m \in SessionIds \ {n} : sessions'[m].holder = sessions[m].holder
    BY <1>1, <1>4, <1>5 DEF AllSessions
<1>8. UnderLock(t)' BY <1>2 DEF UnderLock
<1>9. Closing(t) => Closing(t)' BY <1>2 DEF Closing
<1>10. NearLock(t)' => remote'[t].session \in SessionIds /\ sessions'[remote'[t].session].made
    BY <1>2, <1>4, <1>6
<1> QED BY <1>2, <1>3, <1>4, <1>5, <1>6, <1>7, <1>8, <1>9, <1>10, LockStep

(* One that gives its lock back. *)
LEMMA LockGivenBack ==
    ASSUME RemoteInv, CallsHoldLocks, NEW t \in Remotes, UnderLock(t),
           \A u \in Remotes : u # t => remote'[u] = remote[u],
           ~NearLock(t)', remote'[t].pc # "idle" \/ remote'[t] = Resting, sessions' \in [SessionIds -> AllSessions],
           \A m \in SessionIds : sessions'[m].made = sessions[m].made,
           sessions'[remote[t].session].holder = None,
           \A m \in SessionIds : m # remote[t].session => sessions'[m].holder = sessions[m].holder,
           mapHolder' = None \/ (mapHolder' = mapHolder /\ ~Closing(t))
    PROVE  CallsHoldLocks'
<1> DEFINE n == remote[t].session
<1>1. n \in SessionIds BY NearIs DEF NearLock
<1>2. ~UnderLock(t)' BY DEF NearLock
<1>3. sessions'[n].holder = None /\ \A m \in SessionIds \ {n} : sessions'[m].holder = sessions[m].holder
    OBVIOUS
<1> QED BY <1>1, <1>2, <1>3, LockStep

(* A call that gets its session has no lock on it yet. *)
LEMMA SessionGot ==
    ASSUME RemoteTypes, NEW t \in Remotes, NEW n \in SessionIds, NEW pc \in {"insert", "wait", "close"},
           remote' = [remote EXCEPT ![t].session = n, ![t].pc = pc]
    PROVE  /\ \A u \in Remotes : u # t => remote'[u] = remote[u]
           /\ remote'[t].call = remote[t].call /\ remote'[t].session = n /\ remote'[t].pc = pc
           /\ ~UnderLock(t)'
<1> DEFINE r == [remote[t] EXCEPT !.session = n, !.pc = pc]
<1>1. remote \in [Remotes -> Calls] /\ remote[t] \in Calls BY DEF RemoteTypes
<1>2. r \in Calls BY <1>1 DEF Calls, SomeSession, CallSteps
<1>3. r.call = remote[t].call /\ r.session = n /\ r.pc = pc BY <1>1 DEF Calls
<1>4. remote' = [remote EXCEPT ![t] = r] BY <1>1
<1> HIDE DEF r
<1>5. remote'[t] = r /\ \A u \in Remotes : u # t => remote'[u] = remote[u] BY <1>2, <1>4, CallSet
<1> QED BY <1>3, <1>5 DEF UnderLock

(* Each step of a task keeps the locks as they should be. *)
LEMMA LocksOfTask ==
    ASSUME RemoteInv, CallsHoldLocks, NEW t \in Remotes, RemoteStep(t)
    PROVE  CallsHoldLocks'
<1>1. RemoteTypes /\ SessionsFit /\ CallFits(t) BY DEF RemoteInv
<1>2. ASSUME End(t), UNCHANGED <<sessions, mapHolder>>, ~UnderLock(t), ~Closing(t) PROVE CallsHoldLocks'
    BY <1>1, <1>2, CallEnds, RestingIs, Unlocking DEF NearLock, UnderLock
<1>4. CASE Refused(t) BY <1>4, <1>2 DEF Refused, On, UnderLock, Closing
<1>5. CASE AcceptLogin(t)
  <2>1. PICK n \in SessionIds :
            /\ ~sessions[n].made
            /\ sessions' = [sessions EXCEPT ![n] = [made |-> TRUE, open |-> TRUE, holder |-> None]]
            /\ remote' = [remote EXCEPT ![t].session = n, ![t].pc = "insert"]
      BY <1>5 DEF AcceptLogin, SessionIds
  <2>2. remote[t].call = "connect" /\ remote[t].pc = "begun" /\ UNCHANGED mapHolder
      BY <1>5 DEF AcceptLogin, On
  <2>3. ~UnderLock(t) /\ ~Closing(t) BY <2>2 DEF UnderLock, Closing
  <2>4. /\ \A u \in Remotes : u # t => remote'[u] = remote[u]
        /\ remote'[t].pc = "insert" /\ ~UnderLock(t)'
      BY <1>1, <2>1, SessionGot
  <2>5. ~NearLock(t)' BY <2>4 DEF NearLock
  <2>6. sessions[n].holder = None BY <1>1, <2>1 DEF RemoteTypes, AllSessions, CallsHoldLocks, NearLock
  <2>7. \A m \in SessionIds : sessions'[m].holder = sessions[m].holder /\ (sessions[m].made => sessions'[m].made)
      BY <1>1, <2>1, <2>6 DEF RemoteTypes
  <2> QED BY <2>2, <2>3, <2>4, <2>5, <2>7, LockStep
<1>6. CASE InsertLogin(t)
  <2>1. On(t, "connect", "insert") /\ Step(t, "lookup") /\ UNCHANGED <<sessions, mapHolder>>
      BY <1>6 DEF InsertLogin
  <2>2. /\ \A u \in Remotes : u # t => remote'[u] = remote[u]
        /\ remote'[t].pc = "lookup"
      BY <1>1, <2>1, CallSteps1 DEF CallSteps
  <2> QED BY <2>1, <2>2, Unlocking DEF UnderLock, NearLock, Closing, On
<1>7. CASE Lookup(t)
  <2> DEFINE n == connections[remote[t].key]
  <2>1. /\ On(t, "connect", "lookup") \/ (remote[t].call \in {"list", "mkdir"} /\ remote[t].pc = "begun")
        /\ UNCHANGED <<sessions, mapHolder>>
      BY <1>7 DEF Lookup
  <2>2. ~UnderLock(t) /\ ~Closing(t) BY <2>1 DEF UnderLock, Closing, On
  <2>3. remote[t].key \in Logins /\ n \in SomeSession BY <1>1, <2>1 DEF CallFits, RemoteTypes, On
  <2>4. CASE n = None BY <1>7, <2>4, <1>2, <2>1, <2>2 DEF Lookup
  <2>5. CASE n # None
    <3>1. remote' = [remote EXCEPT ![t].session = n, ![t].pc = "wait"] BY <1>7, <2>5 DEF Lookup
    <3>2. n \in SessionIds /\ sessions[n].made BY <1>1, <2>3, <2>5 DEF SomeSession, SessionsFit
    <3> HIDE DEF n
    <3>3. /\ \A u \in Remotes : u # t => remote'[u] = remote[u]
          /\ remote'[t].session = n /\ ~UnderLock(t)' /\ remote'[t].pc = "wait"
        BY <1>1, <3>1, <3>2, SessionGot
    <3> QED BY <2>1, <2>2, <3>2, <3>3, Unlocking
  <2> QED BY <2>4, <2>5
<1>8. CASE Ask(t)
  <2> DEFINE pc == IF sessions[remote[t].session].open THEN "asked" ELSE "failed"
  <2>1. remote[t].pc = "wait" /\ LockSession(t) /\ Step(t, pc) /\ UNCHANGED mapHolder BY <1>8 DEF Ask
  <2>2. pc \in {"asked", "failed", "closing"} OBVIOUS
  <2> HIDE DEF pc
  <2> QED BY <2>1, <2>2, LockTaken
<1>9. CASE Answer(t) \/ LookAtTaken(t)
  <2>1. PICK pc \in {"done", "failed"} : Step(t, pc) BY <1>9 DEF Answer, LookAtTaken
  <2>2. UnderLock(t) /\ remote[t].pc # "closing" /\ remote[t].pc # "close" /\ UNCHANGED <<sessions, mapHolder>>
      BY <1>9 DEF Answer, LookAtTaken, UnderLock, On
  <2>3. /\ \A u \in Remotes : u # t => remote'[u] = remote[u]
        /\ remote'[t].session = remote[t].session /\ remote'[t].pc = pc
      BY <1>1, <2>1, CallSteps1 DEF CallSteps
  <2>4. UnderLock(t)' /\ ~Closing(t) BY <2>2, <2>3 DEF UnderLock, Closing
  <2>5. NearLock(t) BY <2>2 DEF NearLock
  <2>6. remote[t].session \in SessionIds /\ sessions[remote[t].session].made
      BY <2>5, NearIs DEF CallsHoldLocks
  <2> QED BY <2>2, <2>3, <2>4, <2>6, Unlocking
<1>10. CASE Unlocked(t)
  <2>1. /\ remote[t].pc \in {"done", "failed"} /\ UNCHANGED mapHolder
        /\ sessions' = [sessions EXCEPT ![remote[t].session].holder = None]
        /\ Step(t, "announce") \/ Step(t, "report") \/ End(t)
      BY <1>10 DEF Unlocked, Unlock
  <2>2. UnderLock(t) /\ ~Closing(t) BY <2>1 DEF UnderLock, Closing
  <2>3. remote[t].session \in SessionIds BY <2>2, NearIs DEF NearLock
  <2>4. /\ sessions' \in [SessionIds -> AllSessions]
        /\ \A m \in SessionIds : sessions'[m].made = sessions[m].made
      BY <1>1, <2>1, <2>3, HolderSet
  <2>5. sessions'[remote[t].session].holder = None
        /\ \A m \in SessionIds : m # remote[t].session => sessions'[m].holder = sessions[m].holder
      BY <1>1, <2>3, <2>1 DEF RemoteTypes, AllSessions
  <2>6. /\ \A u \in Remotes : u # t => remote'[u] = remote[u]
        /\ remote'[t].pc \in {"announce", "report"} \/ (remote'[t].pc = "idle" /\ remote'[t] = Resting)
      BY <1>1, CallSteps1, CallEnds, RestingIs, <2>1 DEF CallSteps
  <2>7. ~NearLock(t)' BY <2>6 DEF NearLock, UnderLock
  <2> QED BY <2>1, <2>2, <2>4, <2>5, <2>6, <2>7, LockGivenBack
<1>11. CASE Announce(t) \/ Report(t) BY <1>11, <1>2 DEF Announce, Report, On, UnderLock, Closing
<1>12. CASE RemoveConnection(t)
  <2> DEFINE n == connections[remote[t].key]
  <2>1. remote[t].call = "disconnect" /\ remote[t].pc = "begun" /\ UNCHANGED sessions
      BY <1>12 DEF RemoveConnection, On
  <2>2. ~UnderLock(t) /\ ~Closing(t) BY <2>1 DEF UnderLock, Closing
  <2>3. remote[t].key \in Logins /\ n \in SomeSession BY <1>1, <2>1 DEF CallFits, RemoteTypes
  <2>4. CASE n = None BY <1>12, <2>4, <1>2, <2>1, <2>2 DEF RemoveConnection
  <2>5. CASE n # None
    <3>1. remote' = [remote EXCEPT ![t].session = n, ![t].pc = "close"] /\ mapHolder' = t
        BY <1>12, <2>5 DEF RemoveConnection
    <3>2. n \in SessionIds /\ sessions[n].made BY <1>1, <2>3, <2>5 DEF SomeSession, SessionsFit
    <3> HIDE DEF n
    <3>3. /\ \A u \in Remotes : u # t => remote'[u] = remote[u]
          /\ remote'[t].session = n /\ ~UnderLock(t)' /\ remote'[t].call = "disconnect" /\ remote'[t].pc = "close"
        BY <1>1, <2>1, <3>1, <3>2, SessionGot
    <3>4. Closing(t)' BY <3>3 DEF Closing
    <3> QED BY <2>1, <2>2, <3>1, <3>2, <3>3, <3>4, LockStep
  <2> QED BY <2>4, <2>5
<1>13. CASE TakeSession(t) BY <1>13, LockTaken DEF TakeSession, On
<1>14. CASE SessionClosed(t)
  <2> DEFINE n == remote[t].session
  <2>1. /\ remote[t].pc = "closing" /\ mapHolder' = None /\ End(t)
        /\ sessions' = [sessions EXCEPT ![n].open = FALSE, ![n].holder = None]
      BY <1>14 DEF SessionClosed, On
  <2>2. UnderLock(t) BY <2>1 DEF UnderLock
  <2>3. n \in SessionIds BY <2>2, NearIs DEF NearLock
  <2> DEFINE new == [sessions[n] EXCEPT !.open = FALSE, !.holder = None]
  <2>4. sessions \in [SessionIds -> AllSessions] /\ sessions[n] \in AllSessions BY <1>1, <2>3 DEF RemoteTypes
  <2>5. new \in AllSessions /\ new.made = sessions[n].made /\ new.holder = None BY <2>4 DEF AllSessions
  <2>6. sessions' = [sessions EXCEPT ![n] = new] BY <2>1, <2>4
  <2> HIDE DEF new, n
  <2>7. /\ sessions' \in [SessionIds -> AllSessions]
        /\ \A m \in SessionIds : sessions'[m] = IF m = n THEN new ELSE sessions[m]
      BY <2>4, <2>5, <2>6
  <2>8. remote'[t] = Resting /\ \A u \in Remotes : u # t => remote'[u] = remote[u] BY <1>1, <2>1, CallEnds
  <2>9. ~NearLock(t)' BY <2>8, RestingIs DEF NearLock, UnderLock
  <2>10. /\ \A m \in SessionIds : sessions'[m].made = sessions[m].made
         /\ sessions'[n].holder = None /\ \A m \in SessionIds : m # n => sessions'[m].holder = sessions[m].holder
      BY <2>3, <2>5, <2>7
  <2> QED BY <2>1, <2>2, <2>7, <2>8, <2>9, <2>10, LockGivenBack DEF n
<1> QED BY <1>4, <1>5, <1>6, <1>7, <1>8, <1>9, <1>10, <1>11, <1>12, <1>13, <1>14 DEF RemoteStep

(* So does each step of the window, which takes none. *)
LEMMA LocksOfNext == ASSUME RemoteInv, CallsHoldLocks, [RemoteNext]_remoteVars PROVE CallsHoldLocks'
<1>1. ASSUME UNCHANGED <<sessions, mapHolder, remote>> PROVE CallsHoldLocks'
    BY <1>1 DEF CallsHoldLocks, UnderLock, NearLock, Closing
<1>2. ASSUME NEW call \in CallKinds, NEW key \in Logins, NEW pane \in Panes \cup {None}, Spawn(call, key, pane),
             UNCHANGED <<sessions, mapHolder>>
      PROVE  CallsHoldLocks'
    BY <1>2, CallBegins, RestingIs, Unlocking DEF RemoteInv, UnderLock, NearLock, Closing
<1>3. CASE UNCHANGED remoteVars BY <1>1, <1>3 DEF remoteVars
<1>4. CASE OpenConnectDialog \/ CloseConnectDialog \/ RefuseTarget
    BY <1>1, <1>4 DEF OpenConnectDialog, CloseConnectDialog, RefuseTarget
<1>5. CASE HandleAnswer
  <2>1. UNCHANGED <<connections, mapHolder, sessions>> /\ answers # << >> BY <1>5 DEF HandleAnswer
  <2>2. Head(answers).kind \in AnswerKinds
    <3>1. RemoteTypes BY DEF RemoteInv
    <3>2. Head(answers) \in AllAnswers BY <2>1, <3>1, HeadTailProperties DEF RemoteTypes
    <3> QED BY <3>2 DEF AllAnswers
  <2>3. UNCHANGED remote BY <1>5, <2>2 DEF HandleAnswer, Connected, Disconnected, AnswerKinds
  <2> QED BY <1>1, <2>1, <2>3
<1>6. ASSUME NEW k \in Logins, ConnectTo(k) PROVE CallsHoldLocks' BY <1>2, <1>6 DEF CallKinds, ConnectTo
<1>7. ASSUME NEW k \in Logins, Eject(k) PROVE CallsHoldLocks' BY <1>2, <1>7 DEF CallKinds, Eject
<1>8. ASSUME NEW k \in Logins, NEW p \in Panes, BrowseRemote(k, p) PROVE CallsHoldLocks'
    BY <1>2, <1>8 DEF CallKinds, BrowseRemote
<1>9. ASSUME NEW p \in Panes, MakeFolder(p) PROVE CallsHoldLocks'
    BY <1>9, <1>2 DEF CallKinds, MakeFolder, RemoteInv, RemoteTypes
<1> QED BY <1>3, <1>4, <1>5, <1>6, <1>7, <1>8, <1>9, LocksOfTask DEF RemoteNext

(* The locks and the calls fit in every state. *)
LEMMA LocksAlwaysFit == RemoteSpec => [](RemoteInv /\ CallsHoldLocks)
<1>1. RemoteInit => CallsHoldLocks
    BY RestingIs DEF RemoteInit, SessionIds, CallsHoldLocks, UnderLock, NearLock
<1>2. RemoteInv /\ CallsHoldLocks /\ [RemoteNext]_remoteVars => CallsHoldLocks' BY LocksOfNext
<1> QED BY <1>1, <1>2, RemoteAlwaysFits, PTL DEF RemoteSpec

(* router.rs:315, sftp.rs:245: whichever locks the calls on their way wait for, one of them
   goes on. Who waits for the map waits for a disconnect, who waits for a session, for a call
   that has an answer coming. *)
THEOREM OneAlwaysGoesOn == RemoteSpec => []NotAllWait
<1>1. ASSUME RemoteInv, CallsHoldLocks, NEW t \in Remotes, UnderLock(t) PROVE CanGoOn(t)
    BY <1>1 DEF CallsHoldLocks, Locked, UnderLock, CanGoOn
<1>2. ASSUME RemoteInv, CallsHoldLocks, NEW t \in Remotes, remote[t].pc \in {"wait", "close"}
      PROVE  \E u \in Remotes : CanGoOn(u)
  <2> DEFINE n == remote[t].session
  <2>1. n \in SessionIds BY <1>2, NearIs DEF NearLock
  <2>2. CASE sessions[n].holder = None BY <1>2, <2>2 DEF CanGoOn
  <2>3. CASE sessions[n].holder # None
      BY <1>2, <2>1, <2>3, <1>1 DEF RemoteInv, RemoteTypes, AllSessions, CallsHoldLocks
  <2> QED BY <2>2, <2>3
<1>3. ASSUME RemoteInv, CallsHoldLocks, NEW t \in Remotes, WantsMap(t) PROVE \E u \in Remotes : CanGoOn(u)
  <2>1. CASE mapHolder = None BY <1>3, <2>1 DEF CanGoOn
  <2>2. CASE mapHolder # None
      BY <1>3, <2>2, <1>2 DEF CallsHoldLocks, RemoteInv, RemoteTypes, CanGoOn, Closing
  <2> QED BY <2>1, <2>2
<1>4. ASSUME RemoteInv, CallsHoldLocks, NEW t \in Remotes, remote[t] # Resting PROVE \E u \in Remotes : CanGoOn(u)
  <2>1. CallFits(t) /\ remote[t].call \in CallKinds BY <1>4 DEF RemoteInv, RemoteTypes, Calls
  <2>2. remote[t].pc # "idle" BY <1>4 DEF CallsHoldLocks
  <2>3. CASE remote[t].call = "none" BY <2>1, <2>2, <2>3 DEF CallFits, StepsOf
  <2>4. CASE remote[t].call = "connect"
    <3>1. remote[t].pc \in {"begun", "insert", "lookup", "wait", "asked", "done", "failed", "announce"}
        BY <2>1, <2>4 DEF CallFits, StepsOf
    <3>2. CASE remote[t].pc \in {"begun", "announce"} BY <2>4, <3>2 DEF CanGoOn, On
    <3>3. CASE remote[t].pc \in {"insert", "lookup"} BY <2>4, <3>3, <1>3, <1>4 DEF WantsMap, On
    <3>4. CASE remote[t].pc = "wait" BY <1>2, <1>4, <3>4
    <3>5. CASE remote[t].pc \in {"asked", "done", "failed"} BY <1>1, <1>4, <3>5 DEF UnderLock
    <3> QED BY <3>1, <3>2, <3>3, <3>4, <3>5
  <2>5. CASE remote[t].call = "disconnect"
    <3>1. remote[t].pc \in {"begun", "close", "closing"} BY <2>1, <2>5 DEF CallFits, StepsOf
    <3>2. CASE remote[t].pc = "begun" BY <2>5, <3>2, <1>3, <1>4 DEF WantsMap, On
    <3>3. CASE remote[t].pc = "close" BY <1>2, <1>4, <3>3
    <3>4. CASE remote[t].pc = "closing" BY <3>4 DEF CanGoOn
    <3> QED BY <3>1, <3>2, <3>3, <3>4
  <2>6. CASE remote[t].call \in {"list", "mkdir"}
    <3>1. remote[t].pc \in {"begun", "wait", "asked", "done", "failed", "report"}
        BY <2>1, <2>6 DEF CallFits, StepsOf
    <3>2. CASE remote[t].pc = "begun" BY <2>6, <3>2, <1>3, <1>4 DEF WantsMap
    <3>3. CASE remote[t].pc = "wait" BY <1>2, <1>4, <3>3
    <3>4. CASE remote[t].pc \in {"asked", "done", "failed"} BY <1>1, <1>4, <3>4 DEF UnderLock
    <3>5. CASE remote[t].pc = "report" BY <3>5 DEF CanGoOn
    <3> QED BY <3>1, <3>2, <3>3, <3>4, <3>5
  <2> QED BY <2>1, <2>3, <2>4, <2>5, <2>6 DEF CallKinds
<1>5. RemoteInv /\ CallsHoldLocks => NotAllWait BY <1>4 DEF NotAllWait
<1> QED BY <1>5, LocksAlwaysFit, PTL
(* Rows, panes and the dialog tell of the connections there are, and no call waits for ever for
   a lock, for any servers, panes, tasks and bounds. *)
THEOREM SessionsAlwaysAsShown == RemoteSpec => []SessionsAreAsShown
BY RowsAreAlwaysOpen, BusyIsAlwaysAnswered, OneAlwaysGoesOn, PTL DEF SessionsAreAsShown
===============================================================================
