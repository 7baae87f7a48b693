----------------------------- MODULE SmbSessions -----------------------------
(***************************************************************************)
(* SMB logins: the router's open locations, and the credentials and the  *)
(* logged-in connection that the SMB backend keeps for one server.       *)
(* (Every server has its own; only the maps that hold them are shared.)  *)
(*                                                                       *)
(* Connects, disconnects and file operations each run as a task.  A step *)
(* is what a task does under one lock or between two awaits.             *)
(***************************************************************************)
EXTENDS Naturals, FiniteSets

CONSTANTS
    Shares,          \* shares of the server
    Users,           \* who can log in: credentials
    Clients,         \* tasks that connect and disconnect
    Browsers,        \* tasks that list, read and write
    MaxConns,        \* bound on logins altogether, of any scene
    SmbScenes,       \* who is at work
    Nobody           \* no user, no share

ASSUME SmbAssumption ==
    /\ Clients \cap Browsers = {} /\ IsFiniteSet(Clients)
    /\ Nobody \notin Users \cup Shares \cup Clients \cup Browsers
    /\ MaxConns \in Nat
    /\ \A s \in SmbScenes :
          /\ s.shares \subseteq Shares /\ s.users \subseteq Users /\ s.browsers \subseteq Browsers
          /\ s.conns \in 0..MaxConns /\ s.revivals \in Nat /\ s.together \in Nat

VARIABLES
    locations,     \* smb_locations: the shares opened from Connect to Server
    openedAs,      \* openedAs[s]: whose connect opened s last
    creds,         \* credentials: whom the server is logged in as
    current,       \* servers: the connection kept for the server, 0 for none
    conn,          \* conn[n]: the nth connection: its user, generation, trees,
                   \* and whether a request found it dead
    logins,        \* connections made so far (bounded by MaxConns)
    holder,        \* holder[n]: the task that has conn[n] locked
    smbTask,       \* task[t]: its call and progress
    smbScene       \* shares, users and browsers, those there are; together, how many connects and
                   \* disconnects are at work at once; conns, the bound on logins; revivals, on
                   \* the revivals of one connection

smbVars == <<locations, openedAs, creds, current, conn, logins, holder, smbTask, smbScene>>

Tasks == Clients \cup Browsers
Conns == 1..MaxConns
Called(call, share, user, pc) ==
    [call |-> call, share |-> share, user |-> user, as |-> Nobody, pc |-> pc, n |-> 0, old |-> 0, failed |-> FALSE]
Idle == Called("none", Nobody, Nobody, "idle")
NoTree == [of |-> 0, recorded |-> 0]
NewConn(user) == [user |-> user, gen |-> 1, dead |-> FALSE, tree |-> [s \in Shares |-> NoTree]]

SmbInit ==
    /\ locations = {} /\ openedAs = [s \in Shares |-> Nobody]
    /\ creds = Nobody /\ current = 0 /\ logins = 0
    /\ conn = [n \in Conns |-> NewConn(Nobody)] /\ holder = [n \in Conns |-> Nobody]
    /\ smbTask = [t \in Tasks |-> Idle] /\ smbScene \in SmbScenes

InUse == locations # {}

SmbAt(t, pc) == smbTask[t].pc = pc
SmbGoto(t, pc) == smbTask' = [smbTask EXCEPT ![t].pc = pc]
Return(t) == smbTask' = [smbTask EXCEPT ![t] = Idle]

LoggingIn == {t \in Clients : smbTask[t] # Idle}

-------------------------------------------------------------------------------
(* connect_smb *)

(* A server in use is only reused, never replaced. *)
MayUse(user) == creds = user

Connect(t) ==
    /\ smbTask[t] = Idle /\ Cardinality(LoggingIn) < smbScene.together
    /\ \E s \in smbScene.shares, user \in smbScene.users :
          /\ InUse => MayUse(user)
          /\ smbTask' = [smbTask EXCEPT ![t] = Called("connect", s, user, IF InUse THEN "server" ELSE "login")]
    /\ UNCHANGED <<locations, openedAs, creds, current, conn, logins, holder, smbScene>>

(* Another connection, if the server lets the user in. *)
LoggedIn(user) ==
    /\ logins < smbScene.conns /\ logins' = logins + 1
    /\ conn' = [conn EXCEPT ![logins + 1] = NewConn(user)]

(* SmbFs::connect: log in, forget what there was, then remember this. *)
LogIn(t) ==
    /\ SmbAt(t, "login")
    /\ \/ Return(t) /\ UNCHANGED <<conn, logins>>
       \/ LoggedIn(smbTask[t].user) /\ smbTask' = [smbTask EXCEPT ![t].n = logins + 1, ![t].pc = "forget"]
    /\ UNCHANGED <<locations, openedAs, creds, current, holder, smbScene>>

Remember(t) ==
    /\ SmbAt(t, "remember")
    /\ creds' = smbTask[t].user
    /\ SmbGoto(t, "insert")
    /\ UNCHANGED <<locations, openedAs, current, conn, logins, holder, smbScene>>

Insert(t) ==
    /\ SmbAt(t, "insert")
    /\ current' = smbTask[t].n
    /\ smbTask' = [smbTask EXCEPT ![t].n = 0, ![t].pc = "server"]
    /\ UNCHANGED <<locations, openedAs, creds, conn, logins, holder, smbScene>>

(* The share can be browsed: the location is open. *)
Open(t) ==
    /\ SmbAt(t, "checked") /\ ~smbTask[t].failed
    /\ locations' = locations \cup {smbTask[t].share}
    /\ openedAs' = [openedAs EXCEPT ![smbTask[t].share] = smbTask[t].user]
    /\ Return(t)
    /\ UNCHANGED <<creds, current, conn, logins, holder, smbScene>>

(* It cannot: a login that nothing else is using should not linger. *)
CheckFailed(t) ==
    /\ SmbAt(t, "checked") /\ smbTask[t].failed
    /\ IF InUse THEN Return(t) ELSE smbTask' = [smbTask EXCEPT ![t].n = 0, ![t].pc = "forget"]
    /\ UNCHANGED <<locations, openedAs, creds, current, conn, logins, holder, smbScene>>

-------------------------------------------------------------------------------
(* disconnect_smb *)

Disconnect(t) ==
    /\ smbTask[t] = Idle /\ Cardinality(LoggingIn) < smbScene.together
    /\ \E s \in locations :
          /\ locations' = locations \ {s}
          /\ smbTask' = [smbTask EXCEPT ![t] = Called("disconnect", s, Nobody, "closed")]
    /\ UNCHANGED <<openedAs, creds, current, conn, logins, holder, smbScene>>

Closed(t) ==
    /\ SmbAt(t, "closed")
    /\ IF InUse THEN Return(t) ELSE SmbGoto(t, "forget")
    /\ UNCHANGED <<locations, openedAs, creds, current, conn, logins, holder, smbScene>>

(* forget_server: the credentials, then the connection, which is locked to close its shares.
   connect goes on from here, with the login it has. *)
Forget(t) ==
    /\ SmbAt(t, "forget")
    /\ creds' = Nobody
    /\ SmbGoto(t, "remove")
    /\ UNCHANGED <<locations, openedAs, current, conn, logins, holder, smbScene>>

Forgotten(t) ==
    IF smbTask[t].call = "connect" /\ ~smbTask[t].failed
    THEN smbTask' = [smbTask EXCEPT ![t].old = 0, ![t].pc = "remember"]
    ELSE Return(t)

Remove(t) ==
    /\ SmbAt(t, "remove")
    /\ current' = 0
    /\ IF current = 0 THEN Forgotten(t)
       ELSE smbTask' = [smbTask EXCEPT ![t].old = current, ![t].pc = "close"]
    /\ UNCHANGED <<locations, openedAs, creds, conn, logins, holder, smbScene>>

Close(t) ==
    /\ SmbAt(t, "close") /\ holder[smbTask[t].old] = Nobody
    /\ conn' = [conn EXCEPT ![smbTask[t].old].tree = [s \in Shares |-> NoTree]]
    /\ Forgotten(t)
    /\ UNCHANGED <<locations, openedAs, creds, current, logins, holder, smbScene>>

-------------------------------------------------------------------------------
(* One request on a share: browsing, or the check of connect. *)

Browse(t) ==
    /\ smbTask[t] = Idle
    /\ \E s \in smbScene.shares :
          smbTask' = [smbTask EXCEPT ![t] = Called("browse", s, Nobody, "server")]
    /\ UNCHANGED <<locations, openedAs, creds, current, conn, logins, holder, smbScene>>

(* What becomes of the call: a failed check is connect's to clean up. *)
Ended(t, failed) ==
    IF smbTask[t].call = "browse" THEN Return(t)
    ELSE smbTask' = [smbTask EXCEPT ![t].n = 0, ![t].failed = failed, ![t].pc = "checked"]

(* server: the connection there is, or another login with the credentials. *)
Server(t) ==
    /\ SmbAt(t, "server")
    /\ CASE current # 0 -> smbTask' = [smbTask EXCEPT ![t].n = current, ![t].pc = "lock"]
         [] current = 0 /\ creds = Nobody -> Ended(t, TRUE)
         [] OTHER -> smbTask' = [smbTask EXCEPT ![t].as = creds, ![t].pc = "relogin"]
    /\ UNCHANGED <<locations, openedAs, creds, current, conn, logins, holder, smbScene>>

(* The login is of the credentials read above. The first to finish stays. *)
Relogin(t) ==
    /\ SmbAt(t, "relogin")
    /\ \/ Ended(t, TRUE) /\ UNCHANGED <<current, conn, logins>>
       \/ /\ LoggedIn(smbTask[t].as)
          /\ current' = IF current = 0 THEN logins + 1 ELSE current
          /\ smbTask' = [smbTask EXCEPT ![t].n = current', ![t].pc = "lock"]
    /\ UNCHANGED <<locations, openedAs, creds, holder, smbScene>>

(* open: lock the connection, and its share's tree on it. *)
Lock(t) ==
    /\ SmbAt(t, "lock") /\ holder[smbTask[t].n] = Nobody
    /\ holder' = [holder EXCEPT ![smbTask[t].n] = t]
    /\ SmbGoto(t, "open")
    /\ UNCHANGED <<locations, openedAs, creds, current, conn, logins, smbScene>>

(* Mutant of Usable: any tree there is is taken. *)
UsableEver(c, s) == c.tree[s].recorded # 0

Usable(c, s) == c.tree[s].recorded = c.gen

(* remember, after a call in which the connection came to be of gen. *)
Remembered(c, s, gen) ==
    [c EXCEPT !.gen = gen, !.tree[s] = [of |-> gen, recorded |-> gen]]

(* smb2 may revive the connection within a call: the session is new, and every tree of the old
   one is gone. *)
Generations(c) == {g \in {c.gen, c.gen + 1} : g <= 1 + smbScene.revivals}

(* Mutant of Died: the lock is not let go of. *)
DiedLocked(t) ==
    /\ conn' = [conn EXCEPT ![smbTask[t].n].dead = TRUE]
    /\ SmbGoto(t, "drop") /\ UNCHANGED holder

(* The call found the connection dead: it is dropped after the unlock. *)
Died(t) ==
    /\ conn' = [conn EXCEPT ![smbTask[t].n].dead = TRUE]
    /\ SmbGoto(t, "drop")
    /\ holder' = [holder EXCEPT ![smbTask[t].n] = Nobody]

(* It failed otherwise, the connection revived or not. *)
RequestFailed(t) ==
    /\ \E g \in Generations(conn[smbTask[t].n]) : conn' = [conn EXCEPT ![smbTask[t].n].gen = g]
    /\ Ended(t, TRUE)
    /\ holder' = [holder EXCEPT ![smbTask[t].n] = Nobody]

(* The share's tree: the one there is, if it is of this session. *)
OpenTree(t) ==
    /\ SmbAt(t, "open")
    /\ LET n == smbTask[t].n s == smbTask[t].share IN
       IF Usable(conn[n], s) THEN SmbGoto(t, "request") /\ UNCHANGED <<conn, holder>>
       ELSE \/ /\ \E g \in Generations(conn[n]) : conn' = [conn EXCEPT ![n] = Remembered(@, s, g)]
               /\ SmbGoto(t, "request") /\ UNCHANGED holder
            \/ RequestFailed(t)
            \/ Died(t)
    /\ UNCHANGED <<locations, openedAs, creds, current, logins, smbScene>>

(* finish: a tree that worked is of the live session, even a revived one. What it found out may
   still fail connect: the folder is none. *)
SmbRequest(t) ==
    /\ SmbAt(t, "request")
    /\ LET n == smbTask[t].n s == smbTask[t].share IN
       \/ /\ \E g \in Generations(conn[n]) : conn' = [conn EXCEPT ![n] = Remembered(@, s, g)]
          /\ \E failed \in BOOLEAN : Ended(t, failed)
          /\ holder' = [holder EXCEPT ![n] = Nobody]
       \/ RequestFailed(t)
       \/ Died(t)
    /\ UNCHANGED <<locations, openedAs, creds, current, logins, smbScene>>

(* fail: the server's connection is dropped, whichever that is by now. *)
Drop(t) ==
    /\ SmbAt(t, "drop")
    /\ current' = 0
    /\ Ended(t, TRUE)
    /\ UNCHANGED <<locations, openedAs, creds, conn, logins, holder, smbScene>>

SmbTaskStep(t) ==
    \/ LogIn(t) \/ Remember(t) \/ Insert(t) \/ Open(t) \/ CheckFailed(t)
    \/ Closed(t) \/ Forget(t) \/ Remove(t) \/ Close(t)
    \/ Server(t) \/ Relogin(t) \/ Lock(t) \/ OpenTree(t) \/ SmbRequest(t) \/ Drop(t)

SmbNext ==
    \/ \E t \in Clients : Connect(t) \/ Disconnect(t)
    \/ \E t \in smbScene.browsers : Browse(t)
    \/ \E t \in Tasks : SmbTaskStep(t)

SmbSpec == SmbInit /\ [][SmbNext]_smbVars

(* Logins time out and requests are answered or time out; locks are fair. *)
SmbFairness == \A t \in Tasks : WF_smbVars(SmbTaskStep(t)) /\ SF_smbVars(Lock(t) \/ Close(t))
SmbFairSpec == SmbSpec /\ SmbFairness

-------------------------------------------------------------------------------
(* The types; and who is using a connection has it locked, and nobody else (OwnedMutexGuard). *)
SmbTypeOK ==
    /\ locations \subseteq Shares /\ openedAs \in [Shares -> Users \cup {Nobody}]
    /\ creds \in Users \cup {Nobody} /\ current \in 0..logins /\ logins \in 0..smbScene.conns
    /\ \A n \in Conns : conn[n].user \in Users \cup {Nobody}
    /\ \A t \in Tasks : smbTask[t].n \in 0..logins /\ smbTask[t].old \in 0..logins
    /\ \A n \in Conns : {t \in Tasks : smbTask[t].pc \in {"open", "request"} /\ smbTask[t].n = n}
                          = {holder[n]} \ {Nobody}

(* router.rs:43 "A server stays logged in while any location on it is open": its credentials
   are there to log in again with. (For this, and what follows, connects and disconnects are
   made one at a time.) *)
StaysLoggedIn == smbScene.together = 1 /\ InUse => creds # Nobody

(* router.rs:82: no location is switched to another identity: the credentials its server keeps
   are of who opened the location, *)
KeepsIdentity ==
    smbScene.together = 1 => \A s \in locations : creds # Nobody => creds = openedAs[s]

(* and the connection that serves it is logged in as who opened it, if no browser logs in with
   credentials it read before they were replaced. *)
ServedAsOpened ==
    smbScene.together = 1 /\ smbScene.browsers = {} =>
        \A s \in locations : current # 0 => conn[current].user = openedAs[s]

(* smb.rs:388: a request goes out on a tree of the session it is sent in, whatever died or was
   revived since, and whoever opened the tree. *)
RequestsUseLiveTrees ==
    \A t \in Tasks : SmbAt(t, "request") =>
        LET c == conn[smbTask[t].n] IN c.tree[smbTask[t].share].of = c.gen

(* router.rs:133 "The server is logged out, and its credentials forgotten, once no other
   location on it remains open", if no browser logs in late. *)
NothingLingers ==
    (smbScene.together = 1 /\ smbScene.browsers = {} /\ locations = {} /\ \A t \in Tasks : smbTask[t] = Idle) =>
        creds = Nobody /\ current = 0

(* A server is logged in to just while a location on it is open, as whoever opened it, and
   asked nothing on a session that is gone. *)
LoginsFollowLocations ==
    /\ SmbTypeOK /\ StaysLoggedIn /\ KeepsIdentity /\ ServedAsOpened /\ NothingLingers
    /\ RequestsUseLiveTrees

(* However connections die and logins fail, no call waits forever. *)
CallsEnd == \A t \in Tasks : smbTask[t] # Idle ~> smbTask[t] = Idle
===============================================================================
