---------------------------- MODULE PluginsProofs ----------------------------
(***************************************************************************)
(* Proofs about Plugins for any plugin folders, actions and users: what  *)
(* the window offers, what scripts run for, and what they are given.     *)
(* And about Desktop for any processes, folders and scenes: who has the  *)
(* names on the bus, and what the bus says of a window.                  *)
(***************************************************************************)
EXTENDS Plugins, Desktop, WellFoundedInduction, TLAPS

-------------------------------------------------------------------------------
(* The inductive invariant. *)

ActionNames == UNION {Offers[c] : c \in Copies}
AllActions == PluginIds \X ActionNames
PluginEvents ==
    [what : {"error", "loaded", "unloaded"}, id : PluginIds] \cup [what : {"actions"}, actions : SUBSET AllActions]

(* What the registry holds, told action by action. *)
RegistryHolds(reg, host) ==
    \A id \in PluginIds, action \in ActionNames :
        <<id, action>> \in reg <=> host[id] # None /\ action \in Offers[host[id]]

PluginTypes ==
    /\ PluginTypeOK /\ registry \subseteq AllActions /\ menu \subseteq AllActions
    /\ pluginEvents \in Seq(PluginEvents)
    /\ \A t \in tasks : t.what \in {"load", "unload"} => IdOf[t.copy] = t.id
    /\ running # None => running.id \in PluginIds

(* The last that is on its way to the window decides; where nothing is, what the window has
   read. *)
MenuFollows(m, queue, reg) ==
    \/ \E i \in 1..Len(queue) : /\ queue[i].what = "actions" /\ queue[i].actions = reg
                                /\ \A j \in 1..Len(queue) : queue[j].what = "actions" => j <= i
    \/ m = reg /\ \A j \in 1..Len(queue) : queue[j].what # "actions"

Tells(e, id) == e.what \in {"loaded", "unloaded"} /\ e.id = id
ListFollows(id, list, queue, host) ==
    \/ \E i \in 1..Len(queue) : /\ Tells(queue[i], id) /\ (queue[i].what = "loaded" <=> host[id] # None)
                                /\ \A j \in 1..Len(queue) : Tells(queue[j], id) => j <= i
    \/ (id \in list <=> host[id] # None) /\ \A j \in 1..Len(queue) : ~Tells(queue[j], id)

(* The window will be current when it has read its events. *)
WindowFollows(m, list, queue, host, reg) ==
    MenuFollows(m, queue, reg) /\ \A id \in PluginIds : ListFollows(id, list, queue, host)

(* Startup is over before any task has the lock. *)
LockIsLate == lock # None => booting = {}

(* Plugins are left to call only in a broadcast; a script that is run for one of its actions is
   not part of one. *)
LockFits ==
    /\ todo # {} => lock # None /\ lock.what = "broadcast"
    /\ running # None => (running.action = None <=> lock.what = "broadcast")

PluginsInv ==
    /\ PluginTypes /\ RegistryHolds(registry, loaded)
    /\ WindowFollows(menu, shown, pluginEvents, loaded, registry)
    /\ LockIsLate /\ LockFits /\ RunsWhatIsLoaded /\ PublishedIsActive

(* With nothing left to read, the window has what the manager has. *)
LEMMA InvImpliesAsShown == PluginsInv => PluginsAreAsShown
<1> SUFFICES ASSUME PluginsInv PROVE PluginsAreAsShown OBVIOUS
<1>1. RegistryIsOfLoaded
  <2> DEFINE held == UNION {{id} \X Offers[loaded[id]] : id \in LoadedIds}
  <2>1. ASSUME NEW x \in registry PROVE x \in held
    <3>1. PICK id \in PluginIds, action \in ActionNames : x = <<id, action>>
      BY DEF PluginsInv, PluginTypes, AllActions
    <3>2. loaded[id] # None /\ action \in Offers[loaded[id]] BY <3>1 DEF PluginsInv, RegistryHolds
    <3>3. id \in LoadedIds /\ x \in {id} \X Offers[loaded[id]] BY <3>1, <3>2 DEF LoadedIds
    <3> QED BY <3>3
  <2>2. ASSUME NEW x \in held PROVE x \in registry
    <3>1. PICK id \in LoadedIds : x \in {id} \X Offers[loaded[id]] OBVIOUS
    <3>2. PICK action \in Offers[loaded[id]] : x = <<id, action>> BY <3>1
    <3>3. id \in PluginIds /\ loaded[id] # None /\ loaded[id] \in Copies
      BY DEF LoadedIds, PluginsInv, PluginTypes, PluginTypeOK
    <3>4. action \in ActionNames BY <3>3 DEF ActionNames
    <3> QED BY <3>2, <3>3, <3>4 DEF PluginsInv, RegistryHolds
  <2> QED BY <2>1, <2>2 DEF RegistryIsOfLoaded
<1>2. MenuIsCurrent
  <2> SUFFICES ASSUME pluginEvents = << >> PROVE menu = registry /\ shown = LoadedIds
    BY DEF MenuIsCurrent
  <2>1. Len(pluginEvents) = 0 OBVIOUS
  <2>2. menu = registry BY <2>1 DEF PluginsInv, WindowFollows, MenuFollows
  <2>3. \A id \in PluginIds : id \in shown <=> loaded[id] # None
    BY <2>1 DEF PluginsInv, WindowFollows, ListFollows
  <2>4. shown \subseteq PluginIds BY DEF PluginsInv, PluginTypes, PluginTypeOK
  <2> QED BY <2>2, <2>3, <2>4 DEF LoadedIds
<1> QED BY <1>1, <1>2 DEF PluginsInv, PluginTypes, PluginsAreAsShown, MenuIsOfLoaded

(* Nothing is loaded yet. *)
LEMMA PluginInitInv == PluginInit => PluginsInv
<1> SUFFICES ASSUME PluginInit PROVE PluginsInv OBVIOUS
<1>1. pluginUser \in UserSet /\ enabled \subseteq PluginIds BY PluginsAssumption DEF PluginInit, UserSet
<1>2. booting \subseteq Copies BY <1>1 DEF PluginInit, UserSet
<1>3. tasks \subseteq Tasks /\ \A t \in tasks : t.what = "broadcast" BY DEF PluginInit, Tasks
<1>4. LoadedIds = {} BY DEF PluginInit, LoadedIds
<1>5. PluginTypeOK BY <1>1, <1>2, <1>3, <1>4 DEF PluginInit, PluginTypeOK, PluginSides
<1>6. PluginTypes BY <1>3, <1>5 DEF PluginTypes, PluginInit
<1>7. WindowFollows(menu, shown, pluginEvents, loaded, registry)
  BY DEF PluginInit, WindowFollows, MenuFollows, ListFollows
<1>8. RegistryHolds(registry, loaded) BY DEF PluginInit, RegistryHolds
<1> QED BY <1>6, <1>7, <1>8 DEF PluginsInv, PluginInit, LockIsLate, LockFits, RunsWhatIsLoaded, PublishedIsActive, PluginSides

-------------------------------------------------------------------------------
(* One event is sent. *)

(* The entries of a sequence with one more at its end. *)
LEMMA AppendEntries ==
    ASSUME NEW S, NEW s \in Seq(S), NEW e \in S
    PROVE  /\ Append(s, e) \in Seq(S) /\ Len(Append(s, e)) = Len(s) + 1
           /\ \A i \in 1..Len(s) : Append(s, e)[i] = s[i]
           /\ Append(s, e)[Len(s) + 1] = e
  OBVIOUS

(* An event that is not about the actions leaves the menu where it is going, one that is sets
   it. *)
LEMMA MenuFollowsAppend ==
    ASSUME NEW m, NEW queue \in Seq(PluginEvents), NEW reg, NEW e \in PluginEvents
    PROVE  /\ MenuFollows(m, queue, reg) /\ e.what # "actions" => MenuFollows(m, Append(queue, e), reg)
           /\ e.what = "actions" => MenuFollows(m, Append(queue, e), e.actions)
<1> DEFINE after == Append(queue, e)
           n == Len(queue)
<1>1. /\ Len(after) = n + 1 /\ after[n + 1] = e /\ n \in Nat
      /\ \A i \in 1..n : after[i] = queue[i]
  BY AppendEntries
<1> HIDE DEF after, n
<1>2. \A j \in 1..(n + 1) : j <= n + 1 /\ (j # n + 1 => j \in 1..n) BY <1>1
<1>3. ASSUME MenuFollows(m, queue, reg), e.what # "actions" PROVE MenuFollows(m, after, reg)
  <2>1. \A j \in 1..(n + 1) : after[j].what = "actions" => j \in 1..n /\ queue[j].what = "actions"
    BY <1>1, <1>2, <1>3
  <2>2. \A i \in 1..n : i \in 1..(n + 1) /\ after[i] = queue[i] BY <1>1
  <2> QED BY <1>1, <1>3, <2>1, <2>2 DEF MenuFollows, n
<1>4. ASSUME e.what = "actions" PROVE MenuFollows(m, after, e.actions)
  <2>1. n + 1 \in 1..(n + 1) BY <1>1
  <2> QED BY <1>1, <1>2, <1>4, <2>1 DEF MenuFollows
<1> QED BY <1>3, <1>4 DEF after

(* The same for the list of one plugin. *)
LEMMA ListFollowsAppend ==
    ASSUME NEW id, NEW list, NEW queue \in Seq(PluginEvents), NEW host, NEW e \in PluginEvents
    PROVE  /\ ListFollows(id, list, queue, host) /\ ~Tells(e, id) => ListFollows(id, list, Append(queue, e), host)
           /\ Tells(e, id) /\ (e.what = "loaded" <=> host[id] # None) => ListFollows(id, list, Append(queue, e), host)
<1> DEFINE after == Append(queue, e)
           n == Len(queue)
<1>1. /\ Len(after) = n + 1 /\ after[n + 1] = e /\ n \in Nat
      /\ \A i \in 1..n : after[i] = queue[i]
  BY AppendEntries
<1> HIDE DEF after, n
<1>2. \A j \in 1..(n + 1) : j <= n + 1 /\ (j # n + 1 => j \in 1..n) BY <1>1
<1>3. ASSUME ListFollows(id, list, queue, host), ~Tells(e, id) PROVE ListFollows(id, list, after, host)
  <2>1. \A j \in 1..(n + 1) : Tells(after[j], id) => j \in 1..n /\ Tells(queue[j], id)
    BY <1>1, <1>2, <1>3
  <2>2. \A i \in 1..n : i \in 1..(n + 1) /\ after[i] = queue[i] BY <1>1
  <2> QED BY <1>1, <1>3, <2>1, <2>2 DEF ListFollows, n
<1>4. ASSUME Tells(e, id), e.what = "loaded" <=> host[id] # None PROVE ListFollows(id, list, after, host)
  <2>1. n + 1 \in 1..(n + 1) BY <1>1
  <2> QED BY <1>1, <1>2, <1>4, <2>1 DEF ListFollows
<1> QED BY <1>3, <1>4 DEF after

(* Sending in front of others, one and two. *)
LEMMA ConcatOne == ASSUME NEW S, NEW s \in Seq(S), NEW e \in S PROVE s \o <<e>> = Append(s, e)
  OBVIOUS

(* Two are sent one after the other, *)
LEMMA ConcatTwo ==
    ASSUME NEW S, NEW s \in Seq(S), NEW e \in S, NEW f \in S
    PROVE  s \o (<<e>> \o <<f>>) = Append(Append(s, e), f)
  OBVIOUS

(* or only one of them. *)
LEMMA ConcatOneAndNothing ==
    ASSUME NEW S, NEW s \in Seq(S), NEW e \in S
    PROVE  s \o (<<e>> \o << >>) = Append(s, e) /\ s \o (<< >> \o <<e>>) = Append(s, e)
  OBVIOUS

(* An error changes nothing the window shows of the plugins. *)
LEMMA ErrorKeepsWindow ==
    ASSUME NEW m, NEW list, NEW queue \in Seq(PluginEvents), NEW host, NEW reg,
           NEW id \in PluginIds, WindowFollows(m, list, queue, host, reg)
    PROVE  /\ Append(queue, Error(id)) \in Seq(PluginEvents)
           /\ WindowFollows(m, list, Append(queue, Error(id)), host, reg)
<1>1. Error(id) \in PluginEvents /\ Error(id).what = "error" BY DEF Error, PluginEvents
<1>2. \A q \in PluginIds : ~Tells(Error(id), q) BY <1>1 DEF Tells
<1> QED BY <1>1, <1>2, AppendEntries, MenuFollowsAppend, ListFollowsAppend DEF WindowFollows

(* The actions are announced if they have changed. *)
LEMMA AnnouncedKeepsWindow ==
    ASSUME NEW m, NEW list, NEW queue \in Seq(PluginEvents), NEW host, NEW reg,
           NEW after \in SUBSET AllActions, WindowFollows(m, list, queue, host, reg)
    PROVE  LET e == [what |-> "actions", actions |-> after] IN
           /\ e \in PluginEvents /\ Append(queue, e) \in Seq(PluginEvents)
           /\ WindowFollows(m, list, Append(queue, e), host, after)
<1> DEFINE e == [what |-> "actions", actions |-> after]
<1>1. e \in PluginEvents /\ e.what = "actions" /\ e.actions = after BY DEF PluginEvents
<1> HIDE DEF e
<1>2. \A q \in PluginIds : ~Tells(e, q) BY <1>1 DEF Tells
<1>3. Append(queue, e) \in Seq(PluginEvents) BY <1>1, AppendEntries
<1>4. WindowFollows(m, list, Append(queue, e), host, after)
  BY <1>1, <1>2, MenuFollowsAppend, ListFollowsAppend DEF WindowFollows
<1> QED BY <1>1, <1>3, <1>4 DEF e

(* A plugin is loaded or unloaded, and the window told so. *)
LEMMA HostKeepsWindow ==
    ASSUME NEW m, NEW list, NEW queue \in Seq(PluginEvents), NEW host, NEW reg, NEW then, NEW id \in PluginIds,
           NEW what \in {"loaded", "unloaded"}, WindowFollows(m, list, queue, host, reg),
           \A q \in PluginIds \ {id} : then[q] = host[q], what = "loaded" <=> then[id] # None
    PROVE  LET e == [what |-> what, id |-> id] IN
           /\ e \in PluginEvents /\ Append(queue, e) \in Seq(PluginEvents)
           /\ WindowFollows(m, list, Append(queue, e), then, reg)
<1> DEFINE e == [what |-> what, id |-> id]
<1>1. e \in PluginEvents /\ e.what = what /\ e.id = id BY DEF PluginEvents
<1> HIDE DEF e
<1>2. Tells(e, id) /\ \A q \in PluginIds \ {id} : ~Tells(e, q) BY <1>1 DEF Tells
<1>3. Append(queue, e) \in Seq(PluginEvents) BY <1>1, AppendEntries
<1>4. MenuFollows(m, Append(queue, e), reg) BY <1>1, MenuFollowsAppend DEF WindowFollows
<1>5. ListFollows(id, list, Append(queue, e), then) BY <1>1, <1>2, ListFollowsAppend
<1>6. ASSUME NEW q \in PluginIds \ {id} PROVE ListFollows(q, list, Append(queue, e), then)
  <2>1. ListFollows(q, list, Append(queue, e), host) BY <1>1, <1>2, ListFollowsAppend DEF WindowFollows
  <2> QED BY <2>1 DEF ListFollows
<1> QED BY <1>1, <1>3, <1>4, <1>5, <1>6 DEF e, WindowFollows

-------------------------------------------------------------------------------
(* Loading and unloading. *)

ManagerOK(events, host, reg) ==
    /\ events \in Seq(PluginEvents) /\ host \in [PluginIds -> Copies \cup {None}]
    /\ \A id \in PluginIds : host[id] # None => IdOf[host[id]] = id
    /\ reg \subseteq AllActions /\ RegistryHolds(reg, host)
    /\ WindowFollows(menu, shown, events, host, reg)

Hosted(id, after) == [loaded EXCEPT ![id] = after.host]

(* What ManagerOK asks of a step that changes the manager, it has now. *)
LEMMA ManagerIsOK == ASSUME PluginsInv PROVE ManagerOK(pluginEvents, loaded, registry)
  BY DEF PluginsInv, PluginTypes, PluginTypeOK, ManagerOK, LoadedIds

(* A plugin that is not loaded has no actions. *)
LEMMA NothingWithout ==
    ASSUME PluginsInv, NEW id \in PluginIds, loaded[id] = None PROVE Without(id) = registry
  BY DEF PluginsInv, PluginTypes, AllActions, RegistryHolds, Without

(* A load or unload that is refused tells of an error and changes nothing. *)
LEMMA RefusedIsOK ==
    ASSUME PluginsInv, NEW id \in PluginIds, NEW after, after.host = loaded[id], after.actions = registry,
           after.sent = <<Error(id)>>
    PROVE  ManagerOK(pluginEvents \o after.sent, Hosted(id, after), after.actions)
<1>1. ManagerOK(pluginEvents, loaded, registry) BY ManagerIsOK
<1>2. Hosted(id, after) = loaded BY <1>1 DEF Hosted, ManagerOK
<1>3. Error(id) \in PluginEvents BY DEF Error, PluginEvents
<1>4. pluginEvents \o after.sent = Append(pluginEvents, Error(id))
  BY <1>1, <1>3, ConcatOne DEF ManagerOK
<1>5. pluginEvents \in Seq(PluginEvents) /\ WindowFollows(menu, shown, pluginEvents, loaded, registry)
  BY <1>1 DEF ManagerOK
<1>6. /\ Append(pluginEvents, Error(id)) \in Seq(PluginEvents)
      /\ WindowFollows(menu, shown, Append(pluginEvents, Error(id)), loaded, registry)
  BY <1>5, ErrorKeepsWindow
<1>7. ManagerOK(Append(pluginEvents, Error(id)), loaded, registry) BY <1>1, <1>6 DEF ManagerOK
<1> QED BY <1>2, <1>4, <1>7

(* A load registers what the plugin offers, and tells the window of both changes; one that
   fails changes nothing. *)
LEMMA LoadIsOK ==
    ASSUME PluginsInv, NEW c \in Copies
    PROVE  /\ ManagerOK(pluginEvents \o AfterLoad(c).sent, Hosted(IdOf[c], AfterLoad(c)), AfterLoad(c).actions)
           /\ Fails(c) => AfterLoad(c).host = loaded[IdOf[c]] /\ AfterLoad(c).actions = registry
<1> DEFINE id == IdOf[c]
           after == AfterLoad(c)
<1>0. id \in PluginIds BY DEF PluginIds
<1>1. ManagerOK(pluginEvents, loaded, registry) BY ManagerIsOK
<1> HIDE DEF id
<1>2. CASE loaded[id] # None \/ c \in Missing
  <2>1. after.host = loaded[id] /\ after.actions = registry /\ after.sent = <<Error(id)>>
    BY <1>2 DEF AfterLoad, Refused, id
  <2> HIDE DEF after
  <2> QED BY <1>0, <2>1, RefusedIsOK DEF after, id
<1>3. CASE ~(loaded[id] # None \/ c \in Missing) /\ c \in Blank
  <2>1. after.host = loaded[id] /\ after.actions = Without(id) /\ after.sent = <<Error(id)>>
    BY <1>3 DEF AfterLoad, Refused, id
  <2>2. Without(id) = registry BY <1>0, <1>3, NothingWithout
  <2> HIDE DEF after
  <2> QED BY <1>0, <2>1, <2>2, RefusedIsOK DEF after, id
<1>4. CASE ~Fails(c)
  <2> DEFINE reg == registry \cup ({id} \X Offers[c])
             host == Hosted(id, after)
             event == [what |-> "loaded", id |-> id]
             told == Append(pluginEvents, event)
  <2>1. after.host = c /\ after.actions = reg /\ after.sent = <<event>> \o Announced(reg) /\ loaded[id] = None
    BY <1>4 DEF AfterLoad, Fails, id
  <2>2. /\ host \in [PluginIds -> Copies \cup {None}] /\ host[id] = c
        /\ \A q \in PluginIds \ {id} : host[q] = loaded[q]
    BY <1>0, <1>1, <2>1 DEF ManagerOK, Hosted
  <2>3. IdOf[c] = id /\ c # None BY PluginsAssumption DEF id
  <2> HIDE DEF host, after
  <2>4. reg \subseteq AllActions BY <1>0, <1>1 DEF ManagerOK, AllActions, ActionNames
  <2>5. RegistryHolds(reg, host)
    <3> SUFFICES ASSUME NEW q \in PluginIds, NEW action \in ActionNames
                 PROVE  <<q, action>> \in reg <=> host[q] # None /\ action \in Offers[host[q]]
      BY DEF RegistryHolds
    <3>1. <<q, action>> \in registry <=> loaded[q] # None /\ action \in Offers[loaded[q]]
      BY <1>1 DEF ManagerOK, RegistryHolds
    <3>2. CASE q = id
      <4>1. <<q, action>> \in reg <=> action \in Offers[c] BY <2>1, <3>1, <3>2
      <4> QED BY <2>2, <2>3, <3>2, <4>1
    <3>3. CASE q # id
      <4>1. <<q, action>> \in reg <=> <<q, action>> \in registry BY <3>3
      <4>2. host[q] = loaded[q] BY <2>2, <3>3
      <4> QED BY <3>1, <4>1, <4>2
    <3> QED BY <3>2, <3>3
  <2>6. event \in PluginEvents /\ told \in Seq(PluginEvents) /\ WindowFollows(menu, shown, told, host, registry)
    BY <1>0, <1>1, <2>2, <2>3, HostKeepsWindow DEF ManagerOK
  <2> HIDE DEF event, told
  <2>7. pluginEvents \o after.sent \in Seq(PluginEvents) /\ WindowFollows(menu, shown, pluginEvents \o after.sent, host, reg)
    <3>1. CASE reg = registry
      <4>1. pluginEvents \o after.sent = told
        BY <1>1, <2>1, <2>6, <3>1, ConcatOneAndNothing DEF Announced, ManagerOK, told
      <4> QED BY <2>6, <3>1, <4>1
    <3>2. CASE reg # registry
      <4> DEFINE last == [what |-> "actions", actions |-> reg]
      <4>1. /\ last \in PluginEvents /\ Append(told, last) \in Seq(PluginEvents)
            /\ WindowFollows(menu, shown, Append(told, last), host, reg)
        BY <2>4, <2>6, AnnouncedKeepsWindow
      <4>2. after.sent = <<event>> \o <<last>> BY <2>1, <3>2 DEF Announced
      <4> HIDE DEF last
      <4>3. pluginEvents \o after.sent = Append(told, last)
        BY <1>1, <2>6, <4>1, <4>2, ConcatTwo DEF ManagerOK, told
      <4> QED BY <4>1, <4>3
    <3> QED BY <3>1, <3>2
  <2>8. ManagerOK(pluginEvents \o after.sent, host, after.actions)
    BY <1>1, <2>1, <2>2, <2>3, <2>4, <2>5, <2>7 DEF ManagerOK
  <2> QED BY <1>4, <2>8 DEF id, host, after
<1> QED BY <1>2, <1>3, <1>4 DEF Fails, id

(* An unload takes the actions away, and tells the window of both changes. *)
LEMMA UnloadIsOK ==
    ASSUME PluginsInv, NEW id \in PluginIds
    PROVE  ManagerOK(pluginEvents \o AfterUnload(id).sent, Hosted(id, AfterUnload(id)), AfterUnload(id).actions)
<1> DEFINE after == AfterUnload(id)
<1>1. ManagerOK(pluginEvents, loaded, registry) BY ManagerIsOK
<1>2. CASE loaded[id] = None
  <2>1. after.host = loaded[id] /\ after.actions = registry /\ after.sent = <<Error(id)>>
    BY <1>2 DEF AfterUnload, Refused
  <2> HIDE DEF after
  <2> QED BY <2>1, RefusedIsOK DEF after
<1>3. CASE loaded[id] # None
  <2> DEFINE reg == Without(id)
             host == Hosted(id, after)
             event == [what |-> "unloaded", id |-> id]
  <2>1. after.host = None /\ after.actions = reg /\ after.sent = Announced(reg) \o <<event>>
    BY <1>3 DEF AfterUnload
  <2>2. /\ host \in [PluginIds -> Copies \cup {None}] /\ host[id] = None
        /\ \A q \in PluginIds \ {id} : host[q] = loaded[q]
    BY <1>1, <2>1 DEF ManagerOK, Hosted
  <2> HIDE DEF host, after
  <2>4. reg \subseteq AllActions BY <1>1 DEF ManagerOK, Without
  <2>5. RegistryHolds(reg, host) BY <1>1, <2>2 DEF RegistryHolds, ManagerOK, Without
  <2>6. event \in PluginEvents BY DEF PluginEvents
  <2> HIDE DEF reg
  <2>7. pluginEvents \o after.sent \in Seq(PluginEvents) /\ WindowFollows(menu, shown, pluginEvents \o after.sent, host, reg)
    <3>1. CASE reg = registry
      <4>1. pluginEvents \o after.sent = Append(pluginEvents, event)
        BY <1>1, <2>1, <2>6, <3>1, ConcatOneAndNothing DEF Announced, ManagerOK
      <4>2. Append(pluginEvents, event) \in Seq(PluginEvents) /\ WindowFollows(menu, shown, Append(pluginEvents, event), host, reg)
        <5>1. pluginEvents \in Seq(PluginEvents) /\ WindowFollows(menu, shown, pluginEvents, loaded, reg)
          BY <1>1, <3>1 DEF ManagerOK
        <5> QED BY <2>2, <5>1, HostKeepsWindow DEF event
      <4> QED BY <4>1, <4>2
    <3>2. CASE reg # registry
      <4> DEFINE last == [what |-> "actions", actions |-> reg]
                 told == Append(pluginEvents, last)
      <4>1. last \in PluginEvents /\ told \in Seq(PluginEvents) /\ WindowFollows(menu, shown, told, loaded, reg)
        BY <1>1, <2>4, AnnouncedKeepsWindow DEF ManagerOK
      <4>2. after.sent = <<last>> \o <<event>> BY <2>1, <3>2 DEF Announced
      <4>3. pluginEvents \o after.sent = Append(told, event)
        BY <1>1, <2>6, <4>1, <4>2, ConcatTwo DEF ManagerOK
      <4> HIDE DEF told
      <4>4. Append(told, event) \in Seq(PluginEvents) /\ WindowFollows(menu, shown, Append(told, event), host, reg)
        BY <2>2, <4>1, HostKeepsWindow
      <4> QED BY <4>3, <4>4
    <3> QED BY <3>1, <3>2
  <2>8. ManagerOK(pluginEvents \o after.sent, host, after.actions)
    BY <1>1, <2>1, <2>2, <2>4, <2>5, <2>7 DEF ManagerOK
  <2> QED BY <2>8 DEF host, after
<1> QED BY <1>2, <1>3

(* What has the lock is out of the way when the manager changes. *)
LEMMA ManagerStep ==
    ASSUME PluginsInv, lock = None, ManagerOK(pluginEvents', loaded', registry'), booting' \subseteq booting,
           tasks' \subseteq tasks, UNCHANGED <<config, lock, script, window, switch, selection, pluginUser>>
    PROVE  PluginsInv'
<1>1. running = None BY DEF PluginsInv, PluginTypes, PluginTypeOK
<1>2. UNCHANGED <<enabled, disabled, lock, running, todo, heard, shown, menu, switch, sel, side, published,
                  scheduled, pluginUser>>
  BY DEF config, script, window, selection
<1>3. loaded' \in [PluginIds -> Copies \cup {None}] /\ \A id \in PluginIds : loaded'[id] # None => IdOf[loaded'[id]] = id
  BY DEF ManagerOK
<1>4. PluginTypeOK' BY <1>2, <1>3 DEF PluginsInv, PluginTypes, PluginTypeOK, LoadedIds
<1>5. PluginTypes' BY <1>1, <1>2, <1>4 DEF PluginsInv, PluginTypes, ManagerOK
<1>6. WindowFollows(menu, shown, pluginEvents, loaded, registry)' BY <1>2 DEF ManagerOK
<1>7. RegistryHolds(registry, loaded)' BY DEF ManagerOK
<1> QED BY <1>1, <1>2, <1>5, <1>6, <1>7 DEF PluginsInv, LockIsLate, LockFits, RunsWhatIsLoaded, PublishedIsActive

(* Startup logs what fails where a task would send an error. *)
LEMMA StartupLoadKeeps == ASSUME PluginsInv, NEW c \in booting, StartupLoad(c) PROVE PluginsInv'
<1> DEFINE id == IdOf[c]
           after == AfterLoad(c)
<1>1. c \in Copies /\ id \in PluginIds /\ lock = None
  BY DEF PluginsInv, PluginTypes, PluginTypeOK, LockIsLate, PluginIds
<1>2. loaded' = Hosted(id, after) /\ registry' = after.actions BY DEF StartupLoad, Put, Hosted
<1>3. ManagerOK(pluginEvents', loaded', registry')
  <2>1. CASE Fails(c)
    <3>1. pluginEvents' = pluginEvents /\ after.host = loaded[id] /\ after.actions = registry
      BY <1>1, <2>1, LoadIsOK DEF StartupLoad
    <3>2. loaded' = loaded BY <1>2, <3>1, ManagerIsOK DEF Hosted, ManagerOK
    <3> QED BY <1>2, <3>1, <3>2, ManagerIsOK
  <2>2. CASE ~Fails(c)
    <3>1. pluginEvents' = pluginEvents \o after.sent BY <2>2 DEF StartupLoad
    <3>2. ManagerOK(pluginEvents \o after.sent, Hosted(id, after), after.actions) BY <1>1, LoadIsOK
    <3> QED BY <1>2, <3>1, <3>2
  <2> QED BY <2>1, <2>2
<1>4. /\ booting' \subseteq booting /\ tasks' \subseteq tasks
      /\ UNCHANGED <<config, lock, script, window, switch, selection, pluginUser>>
  BY DEF StartupLoad
<1> QED BY <1>1, <1>3, <1>4, ManagerStep

(* A load that was asked for, *)
LEMMA LoadPluginKeeps == ASSUME PluginsInv, NEW t \in tasks, LoadPlugin(t) PROVE PluginsInv'
<1> DEFINE after == AfterLoad(t.copy)
<1>1. t \in Tasks /\ t.what = "load" /\ lock = None
  BY DEF LoadPlugin, Locks, PluginsInv, PluginTypes, PluginTypeOK
<1>2. t.copy \in Copies /\ IdOf[t.copy] = t.id BY <1>1 DEF Tasks, PluginsInv, PluginTypes
<1>3. loaded' = Hosted(IdOf[t.copy], after) /\ registry' = after.actions /\ pluginEvents' = pluginEvents \o after.sent
  BY <1>2 DEF LoadPlugin, Put, Hosted
<1>4. ManagerOK(pluginEvents', loaded', registry')
  <2>1. ManagerOK(pluginEvents \o after.sent, Hosted(IdOf[t.copy], after), after.actions)
    BY <1>2, LoadIsOK
  <2> QED BY <1>3, <2>1
<1>5. /\ booting' \subseteq booting /\ tasks' \subseteq tasks
      /\ UNCHANGED <<config, lock, script, window, switch, selection, pluginUser>>
  BY DEF LoadPlugin
<1> QED BY <1>1, <1>4, <1>5, ManagerStep

(* and an unload. *)
LEMMA UnloadPluginKeeps == ASSUME PluginsInv, NEW t \in tasks, UnloadPlugin(t) PROVE PluginsInv'
<1> DEFINE after == AfterUnload(t.id)
<1>1. t \in Tasks /\ t.what = "unload" /\ lock = None
  BY DEF UnloadPlugin, Locks, PluginsInv, PluginTypes, PluginTypeOK
<1>2. t.id \in PluginIds BY <1>1 DEF Tasks
<1>3. loaded' = Hosted(t.id, after) /\ registry' = after.actions /\ pluginEvents' = pluginEvents \o after.sent
  BY DEF UnloadPlugin, Put, Hosted
<1>4. ManagerOK(pluginEvents', loaded', registry')
  <2>1. ManagerOK(pluginEvents \o after.sent, Hosted(t.id, after), after.actions) BY <1>2, UnloadIsOK
  <2> QED BY <1>3, <2>1
<1>5. /\ booting' \subseteq booting /\ tasks' \subseteq tasks
      /\ UNCHANGED <<config, lock, script, window, switch, selection, pluginUser>>
  BY DEF UnloadPlugin
<1> QED BY <1>1, <1>4, <1>5, ManagerStep

-------------------------------------------------------------------------------
(* Scripts. *)

(* What the manager and the window hold stays: what is left is whether the one that has the
   lock and its script still fit. *)
LEMMA ScriptStepKeeps ==
    ASSUME PluginsInv, UNCHANGED <<config, booting, manager, window, switch, selection, pluginUser>>,
           tasks' \subseteq tasks, lock' \in tasks' \cup {None}, todo' \subseteq PluginIds,
           heard' \in [PluginIds -> PluginFolders \cup {None}],
           running' # None => lock' # None /\ running'.id \in PluginIds, lock' # None => booting = {},
           pluginEvents' \in Seq(PluginEvents), WindowFollows(menu, shown, pluginEvents', loaded, registry),
           LockFits', RunsWhatIsLoaded'
    PROVE  PluginsInv'
<1>1. UNCHANGED <<enabled, disabled, booting, loaded, registry, shown, menu, switch, sel, side, published,
                  scheduled, pluginUser>>
  BY DEF config, manager, window, selection
<1>2. PluginTypeOK' BY <1>1 DEF PluginsInv, PluginTypes, PluginTypeOK, LoadedIds
<1>3. PluginTypes' BY <1>1, <1>2 DEF PluginsInv, PluginTypes
<1>4. WindowFollows(menu, shown, pluginEvents, loaded, registry)' BY <1>1
<1>5. RegistryHolds(registry, loaded)' BY <1>1 DEF PluginsInv, RegistryHolds
<1> QED BY <1>1, <1>3, <1>4, <1>5 DEF PluginsInv, LockIsLate, PublishedIsActive

(* A chosen action is refused if its plugin has it no more. *)
LEMMA RefuseActionKeeps == ASSUME PluginsInv, NEW t \in tasks, RefuseAction(t) PROVE PluginsInv'
<1>1. t \in Tasks /\ t.what = "action" /\ lock = None /\ running = None
  BY DEF RefuseAction, Locks, PluginsInv, PluginTypes, PluginTypeOK
<1>2. t.id \in PluginIds BY <1>1 DEF Tasks
<1>3. /\ Append(pluginEvents, Error(t.id)) \in Seq(PluginEvents)
      /\ WindowFollows(menu, shown, Append(pluginEvents, Error(t.id)), loaded, registry)
  BY <1>2, ErrorKeepsWindow DEF PluginsInv, PluginTypes
<1>4. /\ UNCHANGED <<config, booting, manager, window, switch, selection, pluginUser>>
      /\ UNCHANGED <<lock, running, todo, heard>> /\ tasks' \subseteq tasks
      /\ pluginEvents' = Append(pluginEvents, Error(t.id))
  BY DEF RefuseAction, script
<1>5. /\ lock' \in tasks' \cup {None} /\ todo' \subseteq PluginIds
      /\ heard' \in [PluginIds -> PluginFolders \cup {None}]
      /\ running' = None /\ lock' = None
  BY <1>1, <1>4 DEF PluginsInv, PluginTypes, PluginTypeOK
<1>6. RunsWhatIsLoaded' BY <1>5 DEF RunsWhatIsLoaded
<1>7. LockFits' BY <1>1, <1>4, <1>5 DEF PluginsInv, LockFits
<1> QED BY <1>7, <1>3, <1>4, <1>5, <1>6, ScriptStepKeeps

(* The registry vouches for the action. *)
LEMMA InvokeActionKeeps == ASSUME PluginsInv, NEW t \in tasks, InvokeAction(t) PROVE PluginsInv'
<1>1. t \in Tasks /\ t.what = "action" /\ booting = {} /\ loaded[t.id] # None /\ <<t.id, t.action>> \in registry
  BY DEF InvokeAction, Locks, PluginsInv, PluginTypes, PluginTypeOK
<1>2. t.id \in PluginIds /\ t.action \in ActionNames /\ t # None
  BY <1>1, PluginsAssumption DEF Tasks, ActionNames
<1>3. t.action \in Offers[loaded[t.id]] BY <1>1, <1>2 DEF PluginsInv, RegistryHolds
<1>4. /\ UNCHANGED <<config, booting, manager, window, switch, selection, pluginUser>>
      /\ UNCHANGED <<tasks, todo, heard, pluginEvents, loaded>> /\ lock' = t
      /\ running'.id = t.id /\ running'.copy = loaded[t.id] /\ running'.action = t.action
  BY DEF InvokeAction, Script, manager
<1>5. /\ tasks' \subseteq tasks /\ lock' \in tasks' \cup {None} /\ todo' \subseteq PluginIds
      /\ heard' \in [PluginIds -> PluginFolders \cup {None}] /\ pluginEvents' \in Seq(PluginEvents)
      /\ WindowFollows(menu, shown, pluginEvents', loaded, registry)
      /\ lock' # None /\ running'.id \in PluginIds
  BY <1>2, <1>4 DEF PluginsInv, PluginTypes, PluginTypeOK
<1>6. RunsWhatIsLoaded' BY <1>3, <1>4 DEF RunsWhatIsLoaded
<1>7. LockFits'
  <2>1. lock = None BY DEF InvokeAction, Locks
  <2>2. todo' = {} BY <1>4, <2>1 DEF PluginsInv, LockFits
  <2> QED BY <1>1, <1>2, <1>4, <2>2, PluginsAssumption DEF LockFits, ActionNames
<1> QED BY <1>7, <1>1, <1>4, <1>5, <1>6, ScriptStepKeeps

(* A broadcast is to call what is loaded, which stays so while it has the lock. *)
LEMMA BroadcastKeeps == ASSUME PluginsInv, NEW t \in tasks, Broadcast(t) PROVE PluginsInv'
<1>1. booting = {} /\ lock = None /\ running = None
  BY DEF Broadcast, Locks, PluginsInv, PluginTypes, PluginTypeOK
<1>2. /\ UNCHANGED <<config, booting, manager, window, switch, selection, pluginUser>>
      /\ UNCHANGED <<tasks, running, heard, pluginEvents>> /\ lock' = t /\ todo' \subseteq PluginIds
  BY DEF Broadcast, LoadedIds
<1>3. /\ tasks' \subseteq tasks /\ lock' \in tasks' \cup {None} /\ running' = None
      /\ heard' \in [PluginIds -> PluginFolders \cup {None}] /\ pluginEvents' \in Seq(PluginEvents)
      /\ WindowFollows(menu, shown, pluginEvents', loaded, registry)
  BY <1>1, <1>2 DEF PluginsInv, PluginTypes, PluginTypeOK
<1>4. RunsWhatIsLoaded' BY <1>3 DEF RunsWhatIsLoaded
<1>5. LockFits'
  <2>1. t \in Tasks /\ t.what = "broadcast"
    BY DEF Broadcast, Locks, PluginsInv, PluginTypes, PluginTypeOK
  <2>2. t # None BY <2>1, PluginsAssumption
  <2> QED BY <1>2, <1>3, <2>1, <2>2 DEF LockFits
<1> QED BY <1>5, <1>1, <1>2, <1>3, <1>4, ScriptStepKeeps

(* It calls a plugin, *)
LEMMA CallHookKeeps == ASSUME PluginsInv, NEW id \in PluginIds, CallHook(id) PROVE PluginsInv'
<1>1. booting = {} /\ lock # None /\ lock \in tasks /\ lock.what = "broadcast"
  BY DEF CallHook, PluginsInv, PluginTypes, PluginTypeOK, LockIsLate, LockFits
<1>2. /\ UNCHANGED <<config, booting, manager, window, switch, selection, pluginUser>>
      /\ UNCHANGED <<tasks, lock, pluginEvents, loaded>> /\ todo' = todo \ {id}
      /\ running'.id = id /\ running'.copy = loaded[id] /\ running'.action = None
  BY DEF CallHook, Script, manager
<1>3. heard' \in [PluginIds -> PluginFolders \cup {None}]
  <2>1. lock.folder \in PluginFolders \cup {None}
    <3>1. lock \in Tasks BY <1>1 DEF PluginsInv, PluginTypes, PluginTypeOK
    <3> QED BY <1>1, <3>1 DEF Tasks
  <2> QED BY <2>1 DEF CallHook, PluginsInv, PluginTypes, PluginTypeOK
<1>4. /\ tasks' \subseteq tasks /\ lock' \in tasks' \cup {None} /\ todo' \subseteq PluginIds
      /\ pluginEvents' \in Seq(PluginEvents) /\ WindowFollows(menu, shown, pluginEvents', loaded, registry)
      /\ lock' # None /\ running'.id \in PluginIds
  BY <1>1, <1>2 DEF PluginsInv, PluginTypes, PluginTypeOK
<1>5. RunsWhatIsLoaded' BY <1>2 DEF RunsWhatIsLoaded
<1>6. LockFits' BY <1>1, <1>2 DEF LockFits
<1> QED BY <1>6, <1>1, <1>2, <1>3, <1>4, <1>5, ScriptStepKeeps

(* and ends when it has called them all. *)
LEMMA BroadcastEndsKeeps == ASSUME PluginsInv, BroadcastEnds PROVE PluginsInv'
<1>1. /\ UNCHANGED <<config, booting, manager, window, switch, selection, pluginUser>>
      /\ UNCHANGED <<running, todo, heard, pluginEvents>> /\ running = None /\ lock' = None /\ tasks' \subseteq tasks
  BY DEF BroadcastEnds, script
<1>2. /\ running' = None /\ lock' \in tasks' \cup {None} /\ todo' \subseteq PluginIds
      /\ heard' \in [PluginIds -> PluginFolders \cup {None}] /\ pluginEvents' \in Seq(PluginEvents)
      /\ WindowFollows(menu, shown, pluginEvents', loaded, registry)
  BY <1>1 DEF PluginsInv, PluginTypes, PluginTypeOK
<1>3. RunsWhatIsLoaded' BY <1>2 DEF RunsWhatIsLoaded
<1>4. LockFits' BY <1>1, <1>2 DEF BroadcastEnds, LockFits
<1> QED BY <1>4, <1>1, <1>2, <1>3, ScriptStepKeeps

(* A script ends: an action lets go of the lock, a broadcast goes on. *)
LEMMA ScriptEndsKeeps == ASSUME PluginsInv, NEW ok \in BOOLEAN, ScriptEnds(ok) PROVE PluginsInv'
<1>1. /\ UNCHANGED <<config, booting, manager, window, switch, selection, pluginUser>>
      /\ UNCHANGED <<todo, heard>> /\ running # None /\ running' = None
  BY DEF ScriptEnds, AfterScript
<1>2. booting = {} /\ lock \in tasks /\ running.id \in PluginIds
  BY <1>1 DEF PluginsInv, PluginTypes, PluginTypeOK, LockIsLate
<1>3. tasks' \subseteq tasks /\ lock' \in tasks' \cup {None} BY <1>2 DEF ScriptEnds
<1>4. pluginEvents' \in Seq(PluginEvents) /\ WindowFollows(menu, shown, pluginEvents', loaded, registry)
  <2>1. pluginEvents \in Seq(PluginEvents) /\ WindowFollows(menu, shown, pluginEvents, loaded, registry)
    BY DEF PluginsInv, PluginTypes
  <2>2. pluginEvents' = pluginEvents \/ pluginEvents' = Append(pluginEvents, Error(running.id))
    BY DEF ScriptEnds, AfterScript
  <2>3. /\ Append(pluginEvents, Error(running.id)) \in Seq(PluginEvents)
        /\ WindowFollows(menu, shown, Append(pluginEvents, Error(running.id)), loaded, registry)
    BY <1>2, <2>1, ErrorKeepsWindow
  <2> QED BY <2>1, <2>2, <2>3
<1>5. todo' \subseteq PluginIds /\ heard' \in [PluginIds -> PluginFolders \cup {None}]
  BY <1>1 DEF PluginsInv, PluginTypes, PluginTypeOK
<1>6. RunsWhatIsLoaded' BY <1>1 DEF RunsWhatIsLoaded
<1>7. LockFits'
  <2>1. lock # None /\ (running.action = None <=> lock.what = "broadcast")
    BY <1>1 DEF PluginsInv, PluginTypes, PluginTypeOK, LockFits
  <2>2. CASE running.action = None BY <1>1, <2>1, <2>2 DEF ScriptEnds, LockFits
  <2>3. CASE running.action # None BY <1>1, <2>1, <2>3 DEF PluginsInv, LockFits
  <2> QED BY <2>2, <2>3
<1> QED BY <1>7, <1>1, <1>2, <1>3, <1>4, <1>5, <1>6, ScriptStepKeeps

-------------------------------------------------------------------------------
(* The window. *)

(* What is left of a queue when its first entry has been taken. *)
LEMMA TailEntries ==
    ASSUME NEW S, NEW s \in Seq(S), s # << >>
    PROVE  /\ Tail(s) \in Seq(S) /\ Len(s) \in Nat \ {0} /\ Len(Tail(s)) = Len(s) - 1 /\ Head(s) = s[1] /\ s[1] \in S
           /\ \A i \in 1..(Len(s) - 1) : Tail(s)[i] = s[i + 1]
  OBVIOUS

(* The menu goes on following when the window reads an event. *)
LEMMA MenuFollowsRead ==
    ASSUME NEW m, NEW queue \in Seq(PluginEvents), NEW reg, queue # << >>, MenuFollows(m, queue, reg)
    PROVE  MenuFollows(IF Head(queue).what = "actions" THEN Head(queue).actions ELSE m, Tail(queue), reg)
<1> DEFINE e == Head(queue)
           rest == Tail(queue)
           n == Len(queue)
           then == IF e.what = "actions" THEN e.actions ELSE m
<1> SUFFICES MenuFollows(then, rest, reg) OBVIOUS
<1>1. /\ n \in Nat \ {0} /\ Len(rest) = n - 1 /\ e = queue[1]
      /\ \A i \in 1..(n - 1) : rest[i] = queue[i + 1]
  BY TailEntries
<1> HIDE DEF e, rest, n
<1>2. \A j \in 1..(n - 1) : j + 1 \in 1..n /\ rest[j] = queue[j + 1] BY <1>1
<1>3. CASE \E i \in 1..n : /\ queue[i].what = "actions" /\ queue[i].actions = reg
                           /\ \A j \in 1..n : queue[j].what = "actions" => j <= i
  <2>1. PICK i \in 1..n : /\ queue[i].what = "actions" /\ queue[i].actions = reg
                          /\ \A j \in 1..n : queue[j].what = "actions" => j <= i
    BY <1>3
  <2>2. CASE i = 1
    <3>1. then = reg BY <1>1, <2>1, <2>2
    <3>2. \A j \in 1..(n - 1) : rest[j].what # "actions" BY <1>2, <2>1, <2>2
    <3> QED BY <1>1, <3>1, <3>2 DEF MenuFollows
  <2>3. CASE i # 1
    <3>1. i - 1 \in 1..(n - 1) BY <1>1, <2>3
    <3>2. rest[i - 1] = queue[i] BY <1>1, <3>1
    <3>3. \A j \in 1..(n - 1) : rest[j].what = "actions" => j <= i - 1 BY <1>2, <2>1
    <3> QED BY <1>1, <2>1, <3>1, <3>2, <3>3 DEF MenuFollows
  <2> QED BY <2>2, <2>3
<1>4. CASE m = reg /\ \A j \in 1..n : queue[j].what # "actions"
  <2>1. 1 \in 1..n BY <1>1
  <2>2. then = reg BY <1>1, <1>4, <2>1
  <2> QED BY <1>1, <1>2, <1>4, <2>2 DEF MenuFollows
<1> QED BY <1>3, <1>4 DEF MenuFollows, n

(* So does the list, plugin by plugin. *)
LEMMA ListFollowsRead ==
    ASSUME NEW id, NEW list, NEW then, NEW queue \in Seq(PluginEvents), NEW host, queue # << >>,
           ListFollows(id, list, queue, host),
           Tells(Head(queue), id) => (id \in then <=> Head(queue).what = "loaded"),
           ~Tells(Head(queue), id) => (id \in then <=> id \in list)
    PROVE  ListFollows(id, then, Tail(queue), host)
<1> DEFINE e == Head(queue)
           rest == Tail(queue)
           n == Len(queue)
<1> SUFFICES ListFollows(id, then, rest, host) OBVIOUS
<1>1. /\ n \in Nat \ {0} /\ Len(rest) = n - 1 /\ e = queue[1]
      /\ \A i \in 1..(n - 1) : rest[i] = queue[i + 1]
  BY TailEntries
<1>0. /\ Tells(e, id) => (id \in then <=> e.what = "loaded")
      /\ ~Tells(e, id) => (id \in then <=> id \in list)
  OBVIOUS
<1> HIDE DEF e, rest, n
<1>2. \A j \in 1..(n - 1) : j + 1 \in 1..n /\ rest[j] = queue[j + 1] BY <1>1
<1>3. CASE \E i \in 1..n : /\ Tells(queue[i], id) /\ (queue[i].what = "loaded" <=> host[id] # None)
                           /\ \A j \in 1..n : Tells(queue[j], id) => j <= i
  <2>1. PICK i \in 1..n : /\ Tells(queue[i], id) /\ (queue[i].what = "loaded" <=> host[id] # None)
                          /\ \A j \in 1..n : Tells(queue[j], id) => j <= i
    BY <1>3
  <2>2. CASE i = 1
    <3>1. id \in then <=> host[id] # None BY <1>0, <1>1, <2>1, <2>2
    <3>2. \A j \in 1..(n - 1) : ~Tells(rest[j], id) BY <1>2, <2>1, <2>2
    <3> QED BY <1>1, <3>1, <3>2 DEF ListFollows
  <2>3. CASE i # 1
    <3>1. i - 1 \in 1..(n - 1) BY <1>1, <2>3
    <3>2. rest[i - 1] = queue[i] BY <1>1, <3>1
    <3>3. \A j \in 1..(n - 1) : Tells(rest[j], id) => j <= i - 1 BY <1>2, <2>1
    <3> QED BY <1>1, <2>1, <3>1, <3>2, <3>3 DEF ListFollows
  <2> QED BY <2>2, <2>3
<1>4. CASE (id \in list <=> host[id] # None) /\ \A j \in 1..n : ~Tells(queue[j], id)
  <2>1. 1 \in 1..n BY <1>1
  <2>2. id \in then <=> host[id] # None BY <1>0, <1>1, <1>4, <2>1
  <2> QED BY <1>1, <1>2, <1>4, <2>2 DEF ListFollows
<1> QED BY <1>3, <1>4 DEF ListFollows, n

(* The window reads an event, and takes over what it says. *)
LEMMA ReadEventKeeps == ASSUME PluginsInv, ReadEvent PROVE PluginsInv'
<1> DEFINE e == Head(pluginEvents)
<1>1. pluginEvents # << >> /\ pluginEvents \in Seq(PluginEvents) /\ pluginEvents' = Tail(pluginEvents)
  BY DEF ReadEvent, PluginsInv, PluginTypes
<1>2. e \in PluginEvents /\ pluginEvents' \in Seq(PluginEvents) BY <1>1, TailEntries
<1>3. UNCHANGED <<enabled, disabled, booting, loaded, registry, tasks, lock, running, todo, heard, switch, sel, side,
                  published, scheduled, pluginUser>>
  BY DEF ReadEvent, config, manager, script, selection
<1>4. menu' = IF e.what = "actions" THEN e.actions ELSE menu BY DEF ReadEvent
<1>5. /\ e.what = "loaded" => shown' = shown \cup {e.id}
      /\ e.what = "unloaded" => shown' = shown \ {e.id}
      /\ e.what \notin {"loaded", "unloaded"} => shown' = shown
  BY DEF ReadEvent
<1> HIDE DEF e
<1>6. /\ e.what \in {"error", "loaded", "unloaded"} => e.id \in PluginIds
      /\ e.what = "actions" => e.actions \subseteq AllActions
      /\ e.what \in {"error", "loaded", "unloaded", "actions"}
  BY <1>2 DEF PluginEvents
<1>7. MenuFollows(menu, pluginEvents, registry)'
  <2>1. MenuFollows(IF Head(pluginEvents).what = "actions" THEN Head(pluginEvents).actions ELSE menu,
                    Tail(pluginEvents), registry)
    BY <1>1, MenuFollowsRead DEF PluginsInv, WindowFollows
  <2> QED BY <1>1, <1>3, <1>4, <2>1 DEF e
<1>8. ASSUME NEW id \in PluginIds PROVE ListFollows(id, shown, pluginEvents, loaded)'
  <2>1. /\ Tells(e, id) => (id \in shown' <=> e.what = "loaded")
        /\ ~Tells(e, id) => (id \in shown' <=> id \in shown)
    BY <1>5, <1>6 DEF Tells
  <2>2. ListFollows(id, shown', Tail(pluginEvents), loaded)
    BY <1>1, <2>1, ListFollowsRead DEF PluginsInv, WindowFollows, e
  <2> QED BY <1>1, <1>3, <2>2
<1>9. menu' \subseteq AllActions /\ shown' \subseteq PluginIds
  BY <1>4, <1>5, <1>6 DEF PluginsInv, PluginTypes, PluginTypeOK
<1>10. PluginTypeOK' BY <1>3, <1>9 DEF PluginsInv, PluginTypes, PluginTypeOK, LoadedIds
<1>11. PluginTypes' BY <1>2, <1>3, <1>9, <1>10 DEF PluginsInv, PluginTypes
<1>12. RegistryHolds(registry, loaded)' BY <1>3 DEF PluginsInv, RegistryHolds
<1>13. (LockIsLate /\ LockFits /\ RunsWhatIsLoaded /\ PublishedIsActive)'
  BY <1>3 DEF PluginsInv, LockIsLate, LockFits, RunsWhatIsLoaded, PublishedIsActive
<1>14. WindowFollows(menu, shown, pluginEvents, loaded, registry)' BY <1>7, <1>8 DEF WindowFollows
<1> QED BY <1>11, <1>12, <1>13, <1>14 DEF PluginsInv

-------------------------------------------------------------------------------
(* The user. *)

(* What the user does reaches the manager by tasks, and scripts by what is published. *)
LEMMA UserStepKeeps ==
    ASSUME PluginsInv, UNCHANGED <<booting, manager, lock, script, pluginEvents, window>>,
           enabled' \subseteq PluginIds, disabled' \subseteq PluginIds,
           tasks \subseteq tasks', tasks' \subseteq Tasks,
           \A t \in tasks' : t.what \in {"load", "unload"} => IdOf[t.copy] = t.id,
           switch' \in [pluginUser'.installed -> BOOLEAN] \cup {None},
           sel' \in [PluginSides -> Selections \cup {None}], side' \in PluginSides,
           published' \in Selections \cup {None}, scheduled' \in BOOLEAN, pluginUser' \in UserSet, PublishedIsActive'
    PROVE  PluginsInv'
<1>1. UNCHANGED <<booting, loaded, registry, lock, running, todo, heard, pluginEvents, shown, menu>>
  BY DEF manager, script, window
<1>2. lock' \in tasks' \cup {None} BY <1>1 DEF PluginsInv, PluginTypes, PluginTypeOK
<1>3. PluginTypeOK' BY <1>1, <1>2 DEF PluginsInv, PluginTypes, PluginTypeOK, LoadedIds
<1>4. PluginTypes' BY <1>1, <1>3 DEF PluginsInv, PluginTypes
<1>5. RegistryHolds(registry, loaded)' /\ WindowFollows(menu, shown, pluginEvents, loaded, registry)'
  BY <1>1 DEF PluginsInv
<1>6. (LockIsLate /\ LockFits /\ RunsWhatIsLoaded)'
  BY <1>1 DEF PluginsInv, LockIsLate, LockFits, RunsWhatIsLoaded
<1> QED BY <1>4, <1>5, <1>6 DEF PluginsInv

(* The parts of the state that the user's steps start from. *)
LEMMA UserTypes ==
    ASSUME PluginsInv
    PROVE  /\ enabled \subseteq PluginIds /\ disabled \subseteq PluginIds /\ tasks \subseteq Tasks
           /\ \A t \in tasks : t.what \in {"load", "unload"} => IdOf[t.copy] = t.id
           /\ shown \subseteq PluginIds /\ switch \in [pluginUser.installed -> BOOLEAN] \cup {None}
           /\ sel \in [PluginSides -> Selections \cup {None}] /\ side \in PluginSides
           /\ published \in Selections \cup {None} /\ scheduled \in BOOLEAN /\ pluginUser \in UserSet
           /\ pluginUser.installed \subseteq Copies /\ menu \subseteq AllActions /\ PublishedIsActive
  BY DEF PluginsInv, PluginTypes, PluginTypeOK, UserSet

(* What the user does leaves what is installed. *)
LEMMA WantsKeeps ==
    ASSUME PluginsInv, NEW name, Wants(name)
    PROVE  pluginUser' \in UserSet /\ pluginUser'.installed = pluginUser.installed /\ pluginUser'.left \in Nat
  BY UserTypes DEF Wants, UserSet

(* The settings page is opened. *)
LEMMA RescanKeeps == ASSUME PluginsInv, Rescan PROVE PluginsInv'
<1>1. /\ UNCHANGED <<booting, manager, lock, script, pluginEvents, window>>
      /\ UNCHANGED <<enabled, disabled, tasks, sel, side, published, scheduled>>
      /\ switch' = [c \in pluginUser.installed |-> IdOf[c] \in shown]
  BY DEF Rescan, config, selection
<1>2. pluginUser' \in UserSet /\ pluginUser'.installed = pluginUser.installed BY WantsKeeps DEF Rescan
<1>3. switch' \in [pluginUser'.installed -> BOOLEAN] BY <1>1, <1>2
<1>4. PublishedIsActive' BY <1>1 DEF PluginsInv, PublishedIsActive
<1> QED BY <1>1, <1>2, <1>3, <1>4, UserTypes, UserStepKeeps

(* A new task is one of its kind, and names the folder of its plugin. *)
LEMMA SpawnKeeps ==
    ASSUME PluginsInv, NEW task \in Tasks, Spawn(task), task.what \in {"load", "unload"} => IdOf[task.copy] = task.id
    PROVE  /\ tasks \subseteq tasks' /\ tasks' \subseteq Tasks
           /\ \A t \in tasks' : t.what \in {"load", "unload"} => IdOf[t.copy] = t.id
  BY UserTypes DEF Spawn

(* A switch is flipped: its task names the folder of its plugin. *)
LEMMA FlipKeeps == ASSUME PluginsInv, NEW c \in pluginUser.installed, Flip(c) PROVE PluginsInv'
<1> DEFINE id == IdOf[c]
           on == ~switch[c]
           what == IF on THEN "load" ELSE "unload"
           task == [no |-> pluginUser'.left, what |-> what, id |-> id, copy |-> c]
<1>1. /\ UNCHANGED <<booting, manager, lock, script, pluginEvents, window>>
      /\ UNCHANGED <<sel, side, published, scheduled>>
      /\ enabled' = Chosen(id, on).enabled /\ disabled' = Chosen(id, on).disabled
      /\ Spawn(task) /\ switch' = [switch EXCEPT ![c] = on] /\ switch # None
  BY DEF Flip, selection
<1>2. pluginUser' \in UserSet /\ pluginUser'.installed = pluginUser.installed /\ pluginUser'.left \in Nat
  BY WantsKeeps DEF Flip
<1>3. c \in Copies /\ id \in PluginIds /\ on \in BOOLEAN /\ what \in {"load", "unload"}
  BY UserTypes DEF PluginIds
<1>4. enabled' \subseteq PluginIds /\ disabled' \subseteq PluginIds BY <1>1, <1>3, UserTypes DEF Chosen
<1>5. switch' \in [pluginUser'.installed -> BOOLEAN] BY <1>1, <1>2, <1>3, UserTypes
<1>6. task \in Tasks /\ IdOf[task.copy] = task.id BY <1>2, <1>3 DEF Tasks
<1> HIDE DEF task, on, what
<1>7. /\ tasks \subseteq tasks' /\ tasks' \subseteq Tasks
      /\ \A t \in tasks' : t.what \in {"load", "unload"} => IdOf[t.copy] = t.id
  BY <1>1, <1>6, SpawnKeeps
<1>8. PublishedIsActive' BY <1>1 DEF PluginsInv, PublishedIsActive
<1> QED BY <1>1, <1>2, <1>4, <1>5, <1>7, <1>8, UserTypes, UserStepKeeps

(* A selection that changes is due to be published, *)
LEMMA SelectKeeps ==
    ASSUME PluginsInv, NEW x \in PluginSides, NEW s \in Selections \cup {None}, Select(x, s) PROVE PluginsInv'
<1>1. /\ UNCHANGED <<booting, manager, lock, script, pluginEvents, window>>
      /\ UNCHANGED <<enabled, disabled, tasks, switch, side, published>>
      /\ sel' = [sel EXCEPT ![x] = s] /\ scheduled' = TRUE
  BY DEF Select, config
<1>2. pluginUser' \in UserSet /\ pluginUser'.installed = pluginUser.installed BY WantsKeeps DEF Select
<1>3. sel' \in [PluginSides -> Selections \cup {None}] BY <1>1, UserTypes
<1>4. PublishedIsActive' BY <1>1 DEF PublishedIsActive
<1> QED BY <1>1, <1>2, <1>3, <1>4, UserTypes, UserStepKeeps

(* and so it is when the other pane becomes active. *)
LEMMA SwitchSideKeeps == ASSUME PluginsInv, SwitchSide PROVE PluginsInv'
<1>1. /\ UNCHANGED <<booting, manager, lock, script, pluginEvents, window>>
      /\ UNCHANGED <<enabled, disabled, tasks, switch, sel, published>>
      /\ side' = (CHOOSE x \in PluginSides : x # side) /\ scheduled' = TRUE
  BY DEF SwitchSide, config
<1>2. pluginUser' \in UserSet /\ pluginUser'.installed = pluginUser.installed
  BY WantsKeeps DEF SwitchSide
<1>3. side' \in PluginSides
  <2>1. \E x \in PluginSides : x # side BY DEF PluginSides
  <2> QED BY <1>1, <2>1
<1>4. PublishedIsActive' BY <1>1 DEF PublishedIsActive
<1> QED BY <1>1, <1>2, <1>3, <1>4, UserTypes, UserStepKeeps

(* It is published, *)
LEMMA PublishKeeps == ASSUME PluginsInv, Publish PROVE PluginsInv'
<1>1. /\ UNCHANGED <<booting, manager, lock, script, pluginEvents, window>>
      /\ UNCHANGED <<enabled, disabled, tasks, switch, sel, side, pluginUser>>
      /\ published' = sel[side] /\ scheduled' = FALSE
  BY DEF Publish, config
<1>2. published' \in Selections \cup {None} BY <1>1, UserTypes
<1>3. PublishedIsActive' BY <1>1 DEF PublishedIsActive
<1> QED BY <1>1, <1>2, <1>3, UserTypes, UserStepKeeps

(* as it is when an action is chosen. *)
LEMMA ChooseActionKeeps == ASSUME PluginsInv, NEW a \in menu, ChooseAction(a[1], a[2]) PROVE PluginsInv'
<1> DEFINE task == [no |-> pluginUser'.left, what |-> "action", id |-> a[1], action |-> a[2], paths |-> sel[side]]
<1>1. /\ UNCHANGED <<booting, manager, lock, script, pluginEvents, window>>
      /\ UNCHANGED <<enabled, disabled, switch, sel, side, scheduled>>
      /\ published' = sel[side] /\ Spawn(task)
  BY DEF ChooseAction, config
<1>2. pluginUser' \in UserSet /\ pluginUser'.installed = pluginUser.installed /\ pluginUser'.left \in Nat
  BY WantsKeeps DEF ChooseAction
<1>3. sel[side] \in Selections \cup {None} /\ a[1] \in PluginIds /\ a[2] \in ActionNames
  BY UserTypes DEF AllActions
<1>4. task \in Tasks /\ task.what = "action" BY <1>2, <1>3 DEF Tasks, ActionNames
<1> HIDE DEF task
<1>5. /\ tasks \subseteq tasks' /\ tasks' \subseteq Tasks
      /\ \A t \in tasks' : t.what \in {"load", "unload"} => IdOf[t.copy] = t.id
  BY <1>1, <1>4, SpawnKeeps
<1>6. PublishedIsActive' BY <1>1 DEF PublishedIsActive
<1> QED BY <1>1, <1>2, <1>3, <1>5, <1>6, UserTypes, UserStepKeeps

(* A pane goes to another folder: the plugins will be told. *)
LEMMA NavigateKeeps == ASSUME PluginsInv, NEW folder \in PluginFolders, Navigate(folder) PROVE PluginsInv'
<1> DEFINE task == [no |-> pluginUser'.left, what |-> "broadcast", folder |-> folder]
<1>1. /\ UNCHANGED <<booting, manager, lock, script, pluginEvents, window>>
      /\ UNCHANGED <<enabled, disabled, switch, sel, side, published, scheduled>> /\ Spawn(task)
  BY DEF Navigate, config, selection
<1>2. pluginUser' \in UserSet /\ pluginUser'.installed = pluginUser.installed /\ pluginUser'.left \in Nat
  BY WantsKeeps DEF Navigate
<1>3. task \in Tasks /\ task.what = "broadcast" BY <1>2 DEF Tasks
<1> HIDE DEF task
<1>4. /\ tasks \subseteq tasks' /\ tasks' \subseteq Tasks
      /\ \A t \in tasks' : t.what \in {"load", "unload"} => IdOf[t.copy] = t.id
  BY <1>1, <1>3, SpawnKeeps
<1>5. PublishedIsActive' BY <1>1 DEF PluginsInv, PublishedIsActive
<1> QED BY <1>1, <1>2, <1>4, <1>5, UserTypes, UserStepKeeps

-------------------------------------------------------------------------------
(* Every step keeps the invariant. *)

(* All steps together. *)
LEMMA PluginNextKeeps == ASSUME PluginsInv, [PluginNext]_pluginVars PROVE PluginsInv'
<1>1. CASE TaskStep
  BY <1>1, StartupLoadKeeps, LoadPluginKeeps, UnloadPluginKeeps, RefuseActionKeeps, InvokeActionKeeps,
    BroadcastKeeps, CallHookKeeps, BroadcastEndsKeeps DEF TaskStep
<1>2. CASE ScriptStep BY <1>2, ScriptEndsKeeps DEF ScriptStep
<1>3. CASE WindowStep BY <1>3, ReadEventKeeps, PublishKeeps DEF WindowStep
<1>4. CASE UserStep
  BY <1>4, RescanKeeps, FlipKeeps, SelectKeeps, SwitchSideKeeps, ChooseActionKeeps, NavigateKeeps DEF UserStep
<1>5. CASE UNCHANGED pluginVars
  <2>1. UNCHANGED <<booting, manager, lock, script, pluginEvents, window>> BY <1>5 DEF pluginVars
  <2>2. UNCHANGED <<enabled, disabled, tasks, switch, sel, side, published, scheduled, pluginUser>>
    BY <1>5 DEF pluginVars, config, selection
  <2>3. PublishedIsActive' BY <2>2 DEF PluginsInv, PublishedIsActive
  <2> QED BY <2>1, <2>2, <2>3, UserTypes, UserStepKeeps
<1> QED BY <1>1, <1>2, <1>3, <1>4, <1>5 DEF PluginNext

(* Whatever loads, unloads and scripts are under way, what the window offers, once it has read
   what it was sent, is what is registered, and a script runs only for what is loaded and has
   registered it. *)
THEOREM PluginsAlwaysAsShown == PluginSpec => []PluginsAreAsShown
<1>1. PluginInit => PluginsInv BY PluginInitInv
<1>2. PluginsInv /\ [PluginNext]_pluginVars => PluginsInv' BY PluginNextKeeps
<1>3. PluginsInv => PluginsAreAsShown BY InvImpliesAsShown
<1> QED BY <1>1, <1>2, <1>3, PTL DEF PluginSpec

-------------------------------------------------------------------------------
(* Desktop: the names on the bus, the processes, and what is on its way in each. *)

(* The fields of processes, commands, listings, events and scenes. *)
Stages == {"off", "raven", "fm1", "on", "gone"}
CommandSet == [kind : {"Navigate", "Reveal"}, pane : Nat, path : DesktopPaths]
NewsSet == [kind : {"SelectItems", "DirectoryLoaded"}, pane : Nat, path : DesktopPaths]
ListingSet == [pane : Nat, path : DesktopPaths, pc : {"list", "signal"}]
ServiceSet ==
    [path : DesktopPaths, connected : BOOLEAN, pending : Seq(DesktopPaths),
     sent : DesktopPaths \cup {Nowhere}]
TabSet == [panes : Seq(Nat), active : Nat, next : Nat]
SceneSet ==
    [launches : Nat, does : SUBSET DesktopDoes, left : Nat, refused : SUBSET Names,
     targets : SUBSET [kind : {"Navigate", "Reveal"}, path : DesktopPaths \cup {Nowhere}],
     uris : SUBSET Seq(Uris)]

(* Types. *)
DesktopShape ==
    /\ owners \in [Names -> Seq(Processes)] /\ proc \in [Processes -> Stages]
    /\ tab \in [Processes -> TabSet] /\ inbox \in [Processes -> Seq(CommandSet)]
    /\ listing \in [Processes -> Seq(ListingSet)] /\ news \in [Processes -> Seq(NewsSet)]
    /\ service \in [Processes -> ServiceSet] /\ DOMAIN shows = Processes
    /\ overlaps \in BOOLEAN /\ desktop \in SceneSet

(* A window's tabs are of panes that show something; before it has both names it has listed
   nothing; listings that did not overlap are one at a time. *)
WindowShape(p) ==
    /\ tab[p].active \in DOMAIN tab[p].panes
    /\ \A k \in DOMAIN tab[p].panes :
          tab[p].panes[k] \in DOMAIN shows[p] /\ tab[p].panes[k] < tab[p].next
    /\ \A i \in DOMAIN shows[p] : shows[p][i] \in DesktopPaths
    /\ Len(service[p].pending) <= MaxPending
    /\ proc[p] \in {"off", "raven", "fm1"} =>
          /\ listing[p] = <<>> /\ news[p] = <<>> /\ service[p].path = Root
          /\ tab[p].panes = <<0>>
    /\ proc[p] = "off" => inbox[p] = <<>>
    /\ ~overlaps => Len(listing[p]) <= 1

(* In a queue nobody is twice, and all run. *)
OwnersFit ==
    \A n \in Names :
        /\ IsInjective(owners[n])
        /\ \A i \in DOMAIN owners[n] :
              proc[owners[n][i]] \in IF n = "Raven1" THEN {"fm1", "on"} ELSE {"on"}

(* Tabs are closed in this scene. *)
Untab == "untab" \in desktop.does

(* Where no tab is closed, whatever is under way is of an open pane. *)
PanesOpen(p) ==
    ~Untab =>
        /\ HasPane(p, 0)
        /\ \A k \in DOMAIN inbox[p] : HasPane(p, inbox[p][k].pane)
        /\ \A k \in DOMAIN listing[p] : HasPane(p, listing[p][k].pane)
        /\ \A k \in DOMAIN news[p] : HasPane(p, news[p][k].pane)

(* Where tabs are closed safely, the last of what is under way is of an open pane and can be
   listed: only a first command cannot. *)
UntabFits(p) ==
    Untab /\ ClosesSafely /\ ~overlaps =>
        /\ inbox[p] # <<>> => HasPane(p, inbox[p][Len(inbox[p])].pane)
        /\ inbox[p] = <<>> /\ listing[p] # <<>> => HasPane(p, listing[p][1].pane)
        /\ \A k \in DOMAIN inbox[p] :
              /\ inbox[p][k].kind = "Navigate"
              /\ inbox[p][k].path \in Unlistable => k = 1 /\ listing[p] = <<>> /\ service[p].path = Root
        /\ \A k \in DOMAIN listing[p] :
              listing[p][k].path \in Unlistable => listing[p][k].pc = "list" /\ service[p].path = Root
        /\ \A i \in DOMAIN shows[p] : shows[p][i] \notin Unlistable
        /\ \A k \in DOMAIN news[p] : news[p][k].kind = "DirectoryLoaded" => news[p][k].path \notin Unlistable

(* The service has the path of a listing, which is yet to be told. *)
Signaling(p) == listing[p] # <<>> /\ listing[p][1].pc = "signal"

(* The last signal told the path, or the next will; unconnected, the path is the last that
   waits. *)
SignalFits(p) ==
    proc[p] # "gone" /\ service[p].path # Root =>
        /\ service[p].connected /\ ~overlaps =>
              IF Signaling(p) THEN listing[p][1].path = service[p].path
              ELSE service[p].sent = service[p].path
        /\ ~service[p].connected =>
              service[p].pending # <<>> /\ service[p].pending[Len(service[p].pending)] = service[p].path

(* Of the listings the window is yet to be told of, the last is of the path and an open pane;
   if there are none, an open pane shows it. *)
NewsSays(p) ==
    \/ \E k \in DOMAIN news[p] :
          /\ news[p][k].kind = "DirectoryLoaded" /\ news[p][k].path = service[p].path
          /\ HasPane(p, news[p][k].pane)
          /\ \A j \in DOMAIN news[p] : j > k => news[p][j].kind # "DirectoryLoaded"
    \/ /\ \A k \in DOMAIN news[p] : news[p][k].kind # "DirectoryLoaded"
       /\ \E k \in DOMAIN tab[p].panes : shows[p][tab[p].panes[k]] = service[p].path

(* A tab that was closed has a listing coming. *)
MoreToCome(p) == Untab /\ (inbox[p] # <<>> \/ (listing[p] # <<>> /\ listing[p][1].pc = "list"))

(* The window is behind the service by the listing, by events, or by no more than that. *)
WindowFits(p) ==
    proc[p] # "gone" /\ service[p].path # Root /\ ~overlaps /\ ClosesSafely =>
        \/ MoreToCome(p)
        \/ Signaling(p) /\ listing[p][1].path = service[p].path /\ HasPane(p, listing[p][1].pane)
        \/ ~Signaling(p) /\ NewsSays(p)

(* A process that fits. *)
ProcessFits(p) ==
    WindowShape(p) /\ PanesOpen(p) /\ UntabFits(p) /\ SignalFits(p) /\ WindowFits(p)

(* The inductive invariant. *)
DesktopInv == DesktopShape /\ OwnersFit /\ \A p \in Processes : ProcessFits(p)

-------------------------------------------------------------------------------
(* The invariant says what the run checks, and more. *)
LEMMA DesktopInvFollows == DesktopInv => BusFollowsWindow
<1> SUFFICES ASSUME DesktopInv PROVE BusFollowsWindow OBVIOUS
<1>1. DesktopTypeOK
  BY DEF DesktopInv, DesktopShape, ProcessFits, WindowShape, ServiceSet, Stages, DesktopTypeOK
<1>2. \A n \in Names : IsInjective(owners[n]) /\ \A i \in DOMAIN owners[n] : proc[owners[n][i]] # "gone"
  BY DEF DesktopInv, OwnersFit
<1>3. ASSUME NEW p \in Processes, proc[p] = "on", AtRest(p), ~overlaps, ClosesSafely, service[p].path # Root
      PROVE  /\ service[p].path \in {shows[p][i] : i \in ToSet(tab[p].panes)}
             /\ IF service[p].connected THEN service[p].sent = service[p].path
                ELSE service[p].pending # <<>> /\ Last(service[p].pending) = service[p].path
  <2>1. WindowFits(p) /\ SignalFits(p) /\ inbox[p] = <<>> /\ listing[p] = <<>> /\ news[p] = <<>>
    BY <1>3 DEF DesktopInv, ProcessFits, AtRest
  <2>2. PICK k \in DOMAIN tab[p].panes : shows[p][tab[p].panes[k]] = service[p].path
    BY <1>3, <2>1 DEF WindowFits, MoreToCome, Signaling, NewsSays
  <2>3. tab[p].panes[k] \in ToSet(tab[p].panes) BY DEF ToSet
  <2>4. service[p].connected => service[p].sent = service[p].path
    BY <1>3, <2>1 DEF SignalFits, Signaling
  <2>5. ~service[p].connected => service[p].pending # <<>> /\ Last(service[p].pending) = service[p].path
    BY <1>3, <2>1 DEF SignalFits, Last
  <2> QED BY <2>2, <2>3, <2>4, <2>5
<1> QED BY <1>1, <1>2, <1>3 DEF BusFollowsWindow

(* At first no process runs. *)
LEMMA DesktopInitInv == DesktopInit => DesktopInv
<1> SUFFICES ASSUME DesktopInit PROVE DesktopInv OBVIOUS
<1> USE DEF DesktopInit
<1>1. DesktopShape
  <2>1. Served \in ServiceSet BY DEF Served, ServiceSet, DesktopPaths
  <2>2. [panes |-> <<0>>, active |-> 1, next |-> 1] \in TabSet BY DEF TabSet
  <2>3. desktop \in SceneSet BY DesktopAssumption DEF SceneSet
  <2>4. owners \in [Names -> Seq(Processes)] /\ proc \in [Processes -> Stages] BY DEF Stages
  <2>5. /\ tab \in [Processes -> TabSet] /\ service \in [Processes -> ServiceSet]
        /\ DOMAIN shows = Processes /\ overlaps \in BOOLEAN
    BY <2>1, <2>2
  <2>6. /\ inbox \in [Processes -> Seq(CommandSet)] /\ listing \in [Processes -> Seq(ListingSet)]
        /\ news \in [Processes -> Seq(NewsSet)]
    OBVIOUS
  <2> QED BY <2>3, <2>4, <2>5, <2>6 DEF DesktopShape
<1>2. OwnersFit BY DEF OwnersFit, IsInjective
<1>3. ASSUME NEW p \in Processes PROVE ProcessFits(p)
  <2>1. /\ tab[p].panes = <<0>> /\ tab[p].active = 1 /\ tab[p].next = 1
        /\ service[p].path = Root /\ service[p].pending = <<>>
    BY DEF Served
  <2>2. /\ inbox[p] = <<>> /\ listing[p] = <<>> /\ news[p] = <<>> /\ proc[p] = "off"
        /\ DOMAIN shows[p] = {0} /\ shows[p][0] = Start
    OBVIOUS
  <2>3. WindowShape(p) BY <2>1, <2>2, DesktopAssumption DEF WindowShape, DesktopPaths
  <2>4. PanesOpen(p) BY <2>1, <2>2 DEF PanesOpen, HasPane
  <2>5. UntabFits(p) BY <2>1, <2>2 DEF UntabFits, ClosesSafely, Untab
  <2> QED BY <2>1, <2>3, <2>4, <2>5 DEF ProcessFits, SignalFits, WindowFits
<1> QED BY <1>1, <1>2, <1>3 DEF DesktopInv

-------------------------------------------------------------------------------
(* The other processes stay as they are. *)
Elsewhere(p) ==
    \A q \in Processes \ {p} :
        /\ proc'[q] = proc[q] /\ tab'[q] = tab[q] /\ shows'[q] = shows[q] /\ inbox'[q] = inbox[q]
        /\ listing'[q] = listing[q] /\ news'[q] = news[q] /\ service'[q] = service[q]

(* The scene's kinds of acts stay, and that listings overlapped. *)
SceneStays == desktop'.does = desktop.does /\ desktop'.targets = desktop.targets /\ (overlaps => overlaps')

(* A process that a step leaves alone fits as it did. *)
LEMMA ProcessStays ==
    ASSUME NEW q \in Processes, ProcessFits(q), SceneStays,
           proc'[q] = proc[q], tab'[q] = tab[q], shows'[q] = shows[q], inbox'[q] = inbox[q],
           listing'[q] = listing[q], news'[q] = news[q], service'[q] = service[q]
    PROVE  ProcessFits(q)'
<1>1. ClosesSafely' = ClosesSafely /\ Untab' = Untab BY DEF ClosesSafely, Untab, SceneStays
<1>2. \A i : HasPane(q, i)' = HasPane(q, i) BY DEF HasPane
<1>3. WindowShape(q)' /\ PanesOpen(q)' BY <1>1, <1>2 DEF ProcessFits, WindowShape, PanesOpen, SceneStays
<1>4. UntabFits(q)' BY <1>1, <1>2 DEF ProcessFits, UntabFits, SceneStays
<1>5. SignalFits(q)' BY DEF ProcessFits, SignalFits, Signaling, SceneStays
<1>6. WindowFits(q)'
  <2>1. NewsSays(q)' = NewsSays(q) /\ MoreToCome(q)' = MoreToCome(q) /\ Signaling(q)' = Signaling(q)
    BY <1>1, <1>2 DEF NewsSays, MoreToCome, Signaling
  <2> QED BY <1>1, <1>2, <2>1 DEF ProcessFits, WindowFits, SceneStays
<1> QED BY <1>3, <1>4, <1>5, <1>6 DEF ProcessFits

(* So a step of one process has only that one to fit. *)
LEMMA OneProcess ==
    ASSUME DesktopInv, NEW p \in Processes, Elsewhere(p), SceneStays, DesktopShape', OwnersFit', ProcessFits(p)'
    PROVE  DesktopInv'
<1>1. \A q \in Processes \ {p} : ProcessFits(q)' BY ProcessStays DEF DesktopInv, Elsewhere
<1> QED BY <1>1 DEF DesktopInv

-------------------------------------------------------------------------------
(* A sequence with an element more. *)
LEMMA AppendIs ==
    ASSUME NEW S, NEW s \in Seq(S), NEW e \in S
    PROVE  /\ Append(s, e) \in Seq(S) /\ Len(Append(s, e)) = Len(s) + 1 /\ Append(s, e) # <<>>
           /\ DOMAIN Append(s, e) = 1 .. Len(s) + 1 /\ Append(s, e)[Len(s) + 1] = e
           /\ \A k \in DOMAIN s : Append(s, e)[k] = s[k]
OBVIOUS

(* One without its first. *)
LEMMA TailIs ==
    ASSUME NEW S, NEW s \in Seq(S), s # <<>>
    PROVE  /\ Tail(s) \in Seq(S) /\ Len(Tail(s)) = Len(s) - 1 /\ DOMAIN Tail(s) = 1 .. Len(s) - 1
           /\ Len(s) \in Nat \ {0} /\ Head(s) = s[1] /\ Head(s) \in S
           /\ \A k \in DOMAIN Tail(s) : Tail(s)[k] = s[k + 1] /\ k + 1 \in DOMAIN s
OBVIOUS

(* One without its k-th. *)
LEMMA RemovedIs ==
    ASSUME NEW S, NEW s \in Seq(S), NEW k \in DOMAIN s
    PROVE  /\ RemoveAt(s, k) \in Seq(S) /\ Len(RemoveAt(s, k)) = Len(s) - 1
           /\ DOMAIN RemoveAt(s, k) = 1 .. Len(s) - 1
           /\ \A j \in 1 .. Len(s) - 1 : RemoveAt(s, k)[j] = IF j < k THEN s[j] ELSE s[j + 1]
<1> DEFINE front == SubSeq(s, 1, k - 1)
           back == SubSeq(s, k + 1, Len(s))
<1>1. k \in 1 .. Len(s) /\ Len(s) \in Nat OBVIOUS
<1>2. front \in Seq(S) /\ Len(front) = k - 1 /\ \A j \in 1 .. k - 1 : front[j] = s[j] BY <1>1
<1>3. back \in Seq(S) /\ Len(back) = Len(s) - k /\ \A j \in 1 .. Len(s) - k : back[j] = s[k + j] BY <1>1
<1>4. RemoveAt(s, k) = front \o back BY DEF RemoveAt
<1> HIDE DEF front, back
<1>5. /\ front \o back \in Seq(S) /\ Len(front \o back) = Len(s) - 1
      /\ \A j \in 1 .. Len(s) - 1 : (front \o back)[j] = IF j <= k - 1 THEN front[j] ELSE back[j - (k - 1)]
  BY <1>1, <1>2, <1>3, SMTT(20)
<1>6. \A j \in 1 .. Len(s) - 1 : (front \o back)[j] = IF j < k THEN s[j] ELSE s[j + 1]
  <2> SUFFICES ASSUME NEW j \in 1 .. Len(s) - 1
               PROVE  (front \o back)[j] = IF j < k THEN s[j] ELSE s[j + 1]
    OBVIOUS
  <2>1. CASE j < k BY <1>1, <1>2, <1>5, <2>1
  <2>2. CASE ~(j < k)
    <3>1. (front \o back)[j] = back[j - (k - 1)] /\ j - (k - 1) \in 1 .. Len(s) - k BY <1>1, <1>5, <2>2
    <3>2. back[j - (k - 1)] = s[k + (j - (k - 1))] /\ k + (j - (k - 1)) = j + 1
      BY <1>1, <1>3, <3>1, SMTT(20)
    <3> QED BY <3>1, <3>2, <2>2
  <2> QED BY <2>1, <2>2
<1> QED BY <1>4, <1>5, <1>6

(* The scene has one act less to come, of the same kinds. *)
LEMMA SpendKeeps ==
    ASSUME DesktopShape, Spend
    PROVE  desktop' \in SceneSet /\ desktop'.does = desktop.does /\ desktop'.targets = desktop.targets
<1>1. desktop \in SceneSet /\ desktop.left > 0 /\ desktop' = [desktop EXCEPT !.left = @ - 1]
  BY DEF DesktopShape, Spend
<1>2. desktop.left \in Nat /\ desktop.left - 1 \in Nat BY <1>1 DEF SceneSet
<1> DEFINE left == desktop.left - 1
<1>3. left \in Nat /\ desktop' = [desktop EXCEPT !.left = left] BY <1>1, <1>2
<1> HIDE DEF left
<1> QED BY <1>1, <1>3 DEF SceneSet

(* What the invariant says of one process. *)
LEMMA ShapesOf ==
    ASSUME DesktopInv, NEW p \in Processes
    PROVE  /\ proc[p] \in Stages /\ tab[p] \in TabSet /\ inbox[p] \in Seq(CommandSet)
           /\ listing[p] \in Seq(ListingSet) /\ news[p] \in Seq(NewsSet) /\ service[p] \in ServiceSet
           /\ DesktopShape /\ ProcessFits(p) /\ OwnersFit
BY DEF DesktopInv, DesktopShape

(* A pane that is open after the step. *)
PaneAfter(p, i) == \E k \in DOMAIN tab'[p].panes : tab'[p].panes[k] = i

(* The queues for the names as they were. *)
LEMMA OwnersStayFit ==
    ASSUME OwnersFit, UNCHANGED <<owners, proc>>
    PROVE  OwnersFit'
BY DEF OwnersFit

(* Who is in a queue has started. *)
LEMMA OffOwnsNothing ==
    ASSUME DesktopInv
    PROVE  \A n \in Names : \A i \in DOMAIN owners[n] :
              /\ owners[n][i] \in Processes
              /\ proc[owners[n][i]] \in {"fm1", "on"}
<1> SUFFICES ASSUME NEW n \in Names, NEW i \in DOMAIN owners[n]
             PROVE  owners[n][i] \in Processes /\ proc[owners[n][i]] \in {"fm1", "on"}
  OBVIOUS
<1>1. owners[n] \in Seq(Processes) BY DEF DesktopInv, DesktopShape
<1>2. owners[n][i] \in Processes BY <1>1
<1>3. proc[owners[n][i]] \in IF n = "Raven1" THEN {"fm1", "on"} ELSE {"on"} BY DEF DesktopInv, OwnersFit
<1> QED BY <1>2, <1>3

(* The active pane, and every open one, shows a folder and has its number. *)
LEMMA ActiveIsShown ==
    ASSUME DesktopInv, NEW p \in Processes
    PROVE  /\ HasPane(p, ActivePaneOf(p)) /\ ActivePaneOf(p) \in DOMAIN shows[p] /\ ActivePaneOf(p) \in Nat
           /\ \A i : HasPane(p, i) => i \in DOMAIN shows[p] /\ i \in Nat /\ i < tab[p].next
<1>1. tab[p] \in TabSet /\ WindowShape(p) BY DEF DesktopInv, DesktopShape, ProcessFits
<1> QED BY <1>1 DEF TabSet, WindowShape, HasPane, ActivePaneOf

(* A command or an event, field by field. *)
LEMMA CommandIs ==
    \A kind, pane, path : /\ Command(kind, pane, path).kind = kind
                          /\ Command(kind, pane, path).pane = pane
                          /\ Command(kind, pane, path).path = path
                          /\ kind \in {"Navigate", "Reveal"} /\ pane \in Nat /\ path \in DesktopPaths
                                => Command(kind, pane, path) \in CommandSet
                          /\ kind \in {"SelectItems", "DirectoryLoaded"} /\ pane \in Nat /\ path \in DesktopPaths
                                => Command(kind, pane, path) \in NewsSet
BY DEF Command, CommandSet, NewsSet

-------------------------------------------------------------------------------
(* Launch preserves the invariant: the first command is of the one pane there is. *)
LEMMA LaunchStep ==
    ASSUME DesktopInv, NEW p \in Processes, Launch(p)
    PROVE  DesktopInv'
<1>1. PICK target \in desktop.targets :
         Send(p, IF target.path = Nowhere THEN Command("Navigate", 0, Start)
                 ELSE Command(target.kind, ActivePaneOf(p), target.path))
  BY DEF Launch
<1> DEFINE c == IF target.path = Nowhere THEN Command("Navigate", 0, Start)
                ELSE Command(target.kind, ActivePaneOf(p), target.path)
<1>2. /\ proc[p] = "off" /\ proc' = [proc EXCEPT ![p] = "raven"]
      /\ UNCHANGED <<owners, tab, shows, listing, news, service, overlaps, desktop>>
  BY DEF Launch
<1>3. /\ inbox[p] = <<>> /\ listing[p] = <<>> /\ news[p] = <<>> /\ service[p].path = Root
      /\ tab[p].panes = <<0>> /\ tab[p].active \in DOMAIN tab[p].panes /\ WindowShape(p)
  BY <1>2, ShapesOf DEF ProcessFits, WindowShape
<1>4. HasPane(p, 0) /\ ActivePaneOf(p) = 0 BY <1>3 DEF HasPane, ActivePaneOf
<1>5. target.kind \in {"Navigate", "Reveal"} /\ target.path \in DesktopPaths \cup {Nowhere}
  BY DEF DesktopInv, DesktopShape, SceneSet
<1>6. /\ c \in CommandSet /\ c.pane = 0 /\ (c.kind = "Navigate" \/ c.kind = target.kind)
  <2>1. CASE target.path = Nowhere
    <3>1. c = Command("Navigate", 0, Start) /\ Start \in DesktopPaths
      BY <2>1, DesktopAssumption DEF DesktopPaths
    <3> HIDE DEF c
    <3> QED BY <3>1, CommandIs
  <2>2. CASE target.path # Nowhere
    <3>1. c = Command(target.kind, 0, target.path) /\ target.path \in DesktopPaths BY <2>2, <1>4, <1>5
    <3> HIDE DEF c
    <3> QED BY <3>1, <1>5, CommandIs
  <2> QED BY <2>1, <2>2
<1>7. ClosesSafely /\ Untab => c.kind = "Navigate" BY <1>6 DEF ClosesSafely, Untab
<1>8. inbox' = [inbox EXCEPT ![p] = Append(@, c)] BY <1>1 DEF Send
<1> HIDE DEF c
<1>9. inbox' \in [Processes -> Seq(CommandSet)] /\ inbox'[p] = <<c>>
      /\ \A q \in Processes \ {p} : inbox'[q] = inbox[q]
  <2>1. inbox \in [Processes -> Seq(CommandSet)] BY DEF DesktopInv, DesktopShape
  <2>2. Append(inbox[p], c) = <<c>> /\ <<c>> \in Seq(CommandSet) BY <1>3, <1>6
  <2> QED BY <1>8, <2>1, <2>2
<1>10. /\ proc' \in [Processes -> Stages] /\ proc'[p] = "raven"
       /\ \A q \in Processes \ {p} : proc'[q] = proc[q]
  BY <1>2 DEF DesktopInv, DesktopShape, Stages
<1>11. DesktopShape' BY <1>2, <1>9, <1>10 DEF DesktopInv, DesktopShape
<1>12. OwnersFit' BY <1>2, <1>10, OffOwnsNothing DEF DesktopInv, OwnersFit
<1>13. ProcessFits(p)'
  <2>1. HasPane(p, 0)' BY <1>2, <1>4 DEF HasPane
  <2>2. WindowShape(p)' BY <1>2, <1>3, <1>9, <1>10 DEF WindowShape
  <2>3. PanesOpen(p)' BY <2>1, <1>2, <1>3, <1>6, <1>9 DEF PanesOpen
  <2>4. UntabFits(p)'
    <3>1. \A i \in DOMAIN shows[p] : ClosesSafely /\ Untab /\ ~overlaps => shows[p][i] \notin Unlistable
      BY ShapesOf DEF ProcessFits, UntabFits
    <3>2. ClosesSafely' = ClosesSafely /\ Untab' = Untab BY <1>2 DEF ClosesSafely, Untab
    <3>3. /\ inbox'[p] # <<>> /\ Len(inbox'[p]) = 1 /\ inbox'[p][1] = c /\ DOMAIN inbox'[p] = {1}
      BY <1>9
    <3> QED BY <2>1, <3>1, <3>2, <3>3, <1>2, <1>3, <1>6, <1>7 DEF UntabFits
  <2> QED BY <2>2, <2>3, <2>4, <1>2, <1>3 DEF ProcessFits, SignalFits, WindowFits
<1>14. Elsewhere(p) /\ SceneStays BY <1>2, <1>9, <1>10 DEF Elsewhere, SceneStays
<1> QED BY <1>11, <1>12, <1>13, <1>14, OneProcess

-------------------------------------------------------------------------------
(* One more in a queue, behind all others. *)
LEMMA QueuedIs ==
    ASSUME NEW q \in Seq(Processes), IsInjective(q), NEW p \in Processes, \A i \in DOMAIN q : q[i] # p
    PROVE  /\ Append(q, p) \in Seq(Processes) /\ IsInjective(Append(q, p))
           /\ \A i \in DOMAIN Append(q, p) : Append(q, p)[i] = p \/ \E j \in DOMAIN q : Append(q, p)[i] = q[j]
           /\ Append(q, p) # <<>> /\ (q # <<>> => Head(Append(q, p)) = Head(q))
<1> DEFINE a == Append(q, p)
<1>1. /\ a \in Seq(Processes) /\ Len(a) = Len(q) + 1 /\ a # <<>> /\ DOMAIN a = 1 .. Len(q) + 1
      /\ a[Len(q) + 1] = p /\ \A k \in DOMAIN q : a[k] = q[k]
  BY AppendIs
<1>2. DOMAIN q = 1 .. Len(q) /\ Len(q) \in Nat OBVIOUS
<1>3. \A i \in DOMAIN a : i = Len(q) + 1 \/ i \in DOMAIN q BY <1>1, <1>2
<1>4. q # <<>> => 1 \in DOMAIN q /\ Head(a) = a[1] /\ Head(q) = q[1] BY <1>1, <1>2
<1> HIDE DEF a
<1>5. IsInjective(a) BY <1>1, <1>3 DEF IsInjective
<1>6. \A i \in DOMAIN a : a[i] = p \/ \E j \in DOMAIN q : a[i] = q[j] BY <1>1, <1>3
<1>7. q # <<>> => Head(a) = Head(q) BY <1>1, <1>4
<1> QED BY <1>1, <1>5, <1>6, <1>7 DEF a

(* One less in a queue; the first stays unless it is the one that leaves. *)
LEMMA LeaveIs ==
    ASSUME NEW q \in Seq(Processes), IsInjective(q), NEW p \in Processes
    PROVE  /\ Leave(q, p) \in Seq(Processes) /\ IsInjective(Leave(q, p))
           /\ \A i \in DOMAIN Leave(q, p) : Leave(q, p)[i] # p /\ \E j \in DOMAIN q : Leave(q, p)[i] = q[j]
           /\ (q # <<>> /\ Head(q) # p) => (Leave(q, p) # <<>> /\ Head(Leave(q, p)) = Head(q))
<1>0. DOMAIN q = 1 .. Len(q) /\ Len(q) \in Nat /\ (q # <<>> => 1 \in DOMAIN q /\ Head(q) = q[1]) OBVIOUS
<1>1. CASE ~\E i \in DOMAIN q : q[i] = p BY <1>1 DEF Leave
<1>2. CASE \E i \in DOMAIN q : q[i] = p
  <2> DEFINE at == CHOOSE i \in DOMAIN q : q[i] = p
             r == RemoveAt(q, at)
  <2>1. at \in DOMAIN q /\ q[at] = p BY <1>2
  <2> HIDE DEF at
  <2>2. /\ r \in Seq(Processes) /\ Len(r) = Len(q) - 1 /\ DOMAIN r = 1 .. Len(q) - 1
        /\ \A j \in 1 .. Len(q) - 1 : r[j] = IF j < at THEN q[j] ELSE q[j + 1]
    BY <2>1, RemovedIs
  <2> HIDE DEF r
  <2> DEFINE old(j) == IF j < at THEN j ELSE j + 1
  <2>3. \A j \in DOMAIN r : old(j) \in DOMAIN q /\ old(j) # at /\ r[j] = q[old(j)] BY <2>1, <2>2, <1>0
  <2>4. \A i, j \in DOMAIN r : old(i) = old(j) => i = j BY <2>1, <2>2, <1>0
  <2> HIDE DEF old
  <2>5. IsInjective(r) BY <2>3, <2>4 DEF IsInjective
  <2>6. \A i \in DOMAIN r : r[i] # p /\ \E j \in DOMAIN q : r[i] = q[j] BY <2>1, <2>3 DEF IsInjective
  <2>7. (q # <<>> /\ Head(q) # p) => (r # <<>> /\ Head(r) = Head(q))
    <3> SUFFICES ASSUME q # <<>>, Head(q) # p PROVE r # <<>> /\ Head(r) = Head(q) OBVIOUS
    <3>1. at > 1 /\ at <= Len(q) /\ at \in Nat BY <2>1, <1>0
    <3>2. 1 \in DOMAIN r /\ r[1] = q[1] BY <3>1, <2>2, <1>0
    <3> QED BY <3>2, <2>2, <1>0
  <2>8. Leave(q, p) = r BY <1>2 DEF Leave, r, at
  <2> QED BY <2>2, <2>5, <2>6, <2>7, <2>8
<1> QED BY <1>1, <1>2

(* Who asks for a name was not in its queue. *)
LEMMA QueueStep ==
    ASSUME DesktopInv, NEW p \in Processes, NEW n \in Names,
           proc[p] = IF n = "Raven1" THEN "raven" ELSE "fm1",
           proc' = [proc EXCEPT ![p] = IF n = "Raven1" THEN "fm1" ELSE "on"],
           UNCHANGED owners \/ Queue(p, n)
    PROVE  OwnersFit' /\ owners' \in [Names -> Seq(Processes)]
<1>1. owners \in [Names -> Seq(Processes)] /\ proc \in [Processes -> Stages]
  BY DEF DesktopInv, DesktopShape
<1>2. \A q \in Processes \ {p} : proc'[q] = proc[q] BY <1>1
<1>3. proc'[p] = IF n = "Raven1" THEN "fm1" ELSE "on" BY <1>1
<1>4. ASSUME NEW m \in Names, NEW i \in DOMAIN owners[m]
      PROVE  proc'[owners[m][i]] \in IF m = "Raven1" THEN {"fm1", "on"} ELSE {"on"}
  <2>1. owners[m][i] \in Processes BY OffOwnsNothing
  <2>2. proc[owners[m][i]] \in IF m = "Raven1" THEN {"fm1", "on"} ELSE {"on"}
    BY DEF DesktopInv, OwnersFit
  <2> QED BY <2>1, <2>2, <1>2, <1>3
<1>5. \A m \in Names : IsInjective(owners[m]) BY DEF DesktopInv, OwnersFit
<1>6. CASE UNCHANGED owners BY <1>1, <1>4, <1>5, <1>6 DEF OwnersFit
<1>7. CASE Queue(p, n)
  <2> DEFINE a == Append(owners[n], p)
  <2>1. \A i \in DOMAIN owners[n] : owners[n][i] # p
    <3>1. ASSUME NEW i \in DOMAIN owners[n], owners[n][i] = p PROVE FALSE
      <4>1. proc[owners[n][i]] \in IF n = "Raven1" THEN {"fm1", "on"} ELSE {"on"}
        BY DEF DesktopInv, OwnersFit
      <4> QED BY <4>1, <3>1
    <3> QED BY <3>1
  <2>2. owners[n] \in Seq(Processes) BY <1>1
  <2>3. /\ a \in Seq(Processes) /\ IsInjective(a)
        /\ \A i \in DOMAIN a : a[i] = p \/ \E j \in DOMAIN owners[n] : a[i] = owners[n][j]
    BY <2>1, <2>2, <1>5, QueuedIs
  <2> HIDE DEF a
  <2>4. owners' = [owners EXCEPT ![n] = a] BY <1>7 DEF Queue, a
  <2>5. owners' \in [Names -> Seq(Processes)] /\ owners'[n] = a /\ \A m \in Names \ {n} : owners'[m] = owners[m]
    BY <2>3, <2>4, <1>1
  <2>6. \A i \in DOMAIN a : proc'[a[i]] \in IF n = "Raven1" THEN {"fm1", "on"} ELSE {"on"}
    BY <2>3, <1>3, <1>4
  <2>7. ASSUME NEW m \in Names
        PROVE  /\ IsInjective(owners'[m])
               /\ \A i \in DOMAIN owners'[m] :
                     proc'[owners'[m][i]] \in IF m = "Raven1" THEN {"fm1", "on"} ELSE {"on"}
    <3>1. CASE m = n BY <3>1, <2>3, <2>5, <2>6
    <3>2. CASE m # n BY <3>2, <2>5, <1>4, <1>5
    <3> QED BY <3>1, <3>2
  <2> QED BY <2>5, <2>7 DEF OwnersFit
<1> QED BY <1>6, <1>7

(* A window that has listed nothing fits, whatever names it has. *)
LEMMA StartedStays ==
    ASSUME DesktopInv, NEW p \in Processes, proc[p] \in {"raven", "fm1"}, proc'[p] \in {"fm1", "on"},
           tab'[p] = tab[p], shows'[p] = shows[p], inbox'[p] = inbox[p], listing'[p] = listing[p],
           news'[p] = news[p], service'[p].path = service[p].path,
           service'[p].pending = service[p].pending, UNCHANGED <<overlaps, desktop>>
    PROVE  ProcessFits(p)'
<1>1. ProcessFits(p) /\ service[p].path = Root BY DEF DesktopInv, ProcessFits, WindowShape
<1>2. ClosesSafely' = ClosesSafely /\ Untab' = Untab BY DEF ClosesSafely, Untab
<1>3. \A i : HasPane(p, i)' = HasPane(p, i) BY DEF HasPane
<1>4. WindowShape(p)' /\ PanesOpen(p)' BY <1>1, <1>2, <1>3 DEF ProcessFits, WindowShape, PanesOpen
<1>5. UntabFits(p)' BY <1>1, <1>2, <1>3 DEF ProcessFits, UntabFits
<1> QED BY <1>1, <1>4, <1>5 DEF ProcessFits, SignalFits, WindowFits

(* ServeRaven preserves the invariant. *)
LEMMA ServeRavenStep ==
    ASSUME DesktopInv, NEW p \in Processes, ServeRaven(p)
    PROVE  DesktopInv'
<1>1. /\ proc[p] = "raven" /\ proc' = [proc EXCEPT ![p] = "fm1"]
      /\ UNCHANGED <<tab, shows, inbox, listing, news, reveal, overlaps, desktop>>
      /\ (UNCHANGED owners \/ Queue(p, "Raven1"))
      /\ (UNCHANGED service \/ service' = [service EXCEPT ![p].connected = TRUE])
  BY DEF ServeRaven
<1>2. OwnersFit' /\ owners' \in [Names -> Seq(Processes)] BY <1>1, QueueStep DEF Names
<1>3. proc \in [Processes -> Stages] /\ service \in [Processes -> ServiceSet]
  BY DEF DesktopInv, DesktopShape
<1>4. proc' \in [Processes -> Stages] /\ proc'[p] = "fm1" /\ \A q \in Processes \ {p} : proc'[q] = proc[q]
  BY <1>1, <1>3 DEF Stages
<1>5. /\ service' \in [Processes -> ServiceSet] /\ \A q \in Processes \ {p} : service'[q] = service[q]
      /\ service'[p].path = service[p].path /\ service'[p].pending = service[p].pending
  <2>1. CASE UNCHANGED service BY <2>1, <1>3
  <2>2. CASE service' = [service EXCEPT ![p].connected = TRUE]
    <3> DEFINE new == [service[p] EXCEPT !.connected = TRUE]
    <3>1. service[p] \in ServiceSet BY <1>3
    <3>2. new \in ServiceSet /\ new.path = service[p].path /\ new.pending = service[p].pending
      BY <3>1 DEF ServiceSet
    <3>3. service' = [service EXCEPT ![p] = new] BY <2>2
    <3> HIDE DEF new
    <3> QED BY <3>2, <3>3, <1>3
  <2> QED BY <2>1, <2>2, <1>1
<1>6. DesktopShape' BY <1>1, <1>2, <1>4, <1>5 DEF DesktopInv, DesktopShape
<1>7. ProcessFits(p)' BY <1>1, <1>4, <1>5, StartedStays
<1>8. Elsewhere(p) /\ SceneStays BY <1>1, <1>4, <1>5 DEF Elsewhere, SceneStays
<1> QED BY <1>2, <1>6, <1>7, <1>8, OneProcess

(* ServeFileManager1 preserves it. *)
LEMMA ServeFileManager1Step ==
    ASSUME DesktopInv, NEW p \in Processes, ServeFileManager1(p)
    PROVE  DesktopInv'
<1>1. /\ proc[p] = "fm1" /\ proc' = [proc EXCEPT ![p] = "on"]
      /\ UNCHANGED <<tab, shows, inbox, listing, news, service, reveal, overlaps, desktop>>
      /\ (UNCHANGED owners \/ Queue(p, "FileManager1"))
  BY DEF ServeFileManager1
<1>2. OwnersFit' /\ owners' \in [Names -> Seq(Processes)] BY <1>1, QueueStep DEF Names
<1>3. proc' \in [Processes -> Stages] /\ proc'[p] = "on" /\ \A q \in Processes \ {p} : proc'[q] = proc[q]
  BY <1>1 DEF DesktopInv, DesktopShape, Stages
<1>4. DesktopShape' BY <1>1, <1>2, <1>3 DEF DesktopInv, DesktopShape
<1>5. ProcessFits(p)' BY <1>1, <1>3, StartedStays
<1>6. Elsewhere(p) /\ SceneStays BY <1>1, <1>3 DEF Elsewhere, SceneStays
<1> QED BY <1>2, <1>4, <1>5, <1>6, OneProcess

(* Close preserves it: who is gone is in no queue. *)
LEMMA CloseStep ==
    ASSUME DesktopInv, NEW p \in Processes, Close(p)
    PROVE  DesktopInv'
<1>1. /\ proc' = [proc EXCEPT ![p] = "gone"] /\ owners' = [n \in Names |-> Leave(owners[n], p)]
      /\ inbox' = [inbox EXCEPT ![p] = <<>>] /\ listing' = [listing EXCEPT ![p] = <<>>]
      /\ news' = [news EXCEPT ![p] = <<>>] /\ UNCHANGED <<tab, shows, service, overlaps>> /\ Spend
  BY DEF Close
<1>2. /\ owners \in [Names -> Seq(Processes)] /\ proc \in [Processes -> Stages]
      /\ inbox \in [Processes -> Seq(CommandSet)] /\ listing \in [Processes -> Seq(ListingSet)]
      /\ news \in [Processes -> Seq(NewsSet)] /\ DesktopShape
  BY DEF DesktopInv, DesktopShape
<1>3. desktop' \in SceneSet /\ desktop'.does = desktop.does /\ desktop'.targets = desktop.targets
  BY <1>1, <1>2, SpendKeeps
<1>4. proc' \in [Processes -> Stages] /\ proc'[p] = "gone" /\ \A q \in Processes \ {p} : proc'[q] = proc[q]
  BY <1>1, <1>2 DEF Stages
<1>5. /\ inbox' \in [Processes -> Seq(CommandSet)] /\ listing' \in [Processes -> Seq(ListingSet)]
      /\ news' \in [Processes -> Seq(NewsSet)]
  BY <1>1, <1>2
<1>6. /\ inbox'[p] = <<>> /\ listing'[p] = <<>> /\ news'[p] = <<>>
      /\ \A q \in Processes \ {p} : inbox'[q] = inbox[q] /\ listing'[q] = listing[q] /\ news'[q] = news[q]
  BY <1>1, <1>2
<1>7. ASSUME NEW n \in Names
      PROVE  /\ owners'[n] \in Seq(Processes) /\ IsInjective(owners'[n])
             /\ \A i \in DOMAIN owners'[n] :
                   proc'[owners'[n][i]] \in IF n = "Raven1" THEN {"fm1", "on"} ELSE {"on"}
  <2> DEFINE l == Leave(owners[n], p)
  <2>1. owners[n] \in Seq(Processes) /\ IsInjective(owners[n]) BY <1>2 DEF DesktopInv, OwnersFit
  <2>2. /\ l \in Seq(Processes) /\ IsInjective(l)
        /\ \A i \in DOMAIN l : l[i] # p /\ \E j \in DOMAIN owners[n] : l[i] = owners[n][j]
    BY <2>1, LeaveIs
  <2>3. owners'[n] = l BY <1>1
  <2> HIDE DEF l
  <2>4. \A j \in DOMAIN owners[n] :
           /\ owners[n][j] \in Processes
           /\ proc[owners[n][j]] \in IF n = "Raven1" THEN {"fm1", "on"} ELSE {"on"}
    BY OffOwnsNothing DEF DesktopInv, OwnersFit
  <2>5. \A i \in DOMAIN l : proc'[l[i]] \in IF n = "Raven1" THEN {"fm1", "on"} ELSE {"on"}
    BY <2>2, <2>4, <1>4
  <2> QED BY <2>2, <2>3, <2>5
<1>8. OwnersFit' BY <1>7 DEF OwnersFit
<1>9. owners' \in [Names -> Seq(Processes)] BY <1>1, <1>7
<1>10. DesktopShape' BY <1>1, <1>2, <1>3, <1>4, <1>5, <1>9 DEF DesktopShape
<1>11. ProcessFits(p)'
  <2>1. WindowShape(p) /\ PanesOpen(p) /\ UntabFits(p) BY DEF DesktopInv, ProcessFits
  <2>2. ClosesSafely' = ClosesSafely /\ Untab' = Untab BY <1>3 DEF ClosesSafely, Untab
  <2>3. \A i : HasPane(p, i)' = HasPane(p, i) BY <1>1 DEF HasPane
  <2>4. WindowShape(p)' BY <2>1, <1>1, <1>4, <1>6 DEF WindowShape
  <2>5. PanesOpen(p)' BY <2>1, <2>2, <2>3, <1>6 DEF PanesOpen
  <2>6. UntabFits(p)' BY <2>1, <2>2, <2>3, <1>1, <1>6 DEF UntabFits
  <2> QED BY <2>4, <2>5, <2>6, <1>4 DEF ProcessFits, SignalFits, WindowFits
<1>12. Elsewhere(p) /\ SceneStays BY <1>1, <1>3, <1>4, <1>6 DEF Elsewhere, SceneStays
<1> QED BY <1>8, <1>10, <1>11, <1>12, OneProcess

-------------------------------------------------------------------------------
(* A set of numbers that is not empty has a least. *)
LEMMA LeastIs ==
    ASSUME NEW S \in SUBSET Nat, S # {}
    PROVE  (CHOOSE i \in S : \A j \in S : i <= j) \in S
<1>1. PICK x \in S : \A y \in S : <<y, x>> \notin OpToRel(<, Nat) BY WFMin, NatLessThanWellFounded
<1>2. \A y \in S : ~(y < x) BY <1>1 DEF OpToRel
<1>3. \A y \in S : y \in Nat /\ x \in Nat OBVIOUS
<1>4. \A y \in S : x <= y BY <1>2, <1>3
<1> QED BY <1>4

(* request_to_commands: one command at most, of pane 0 and a folder that is named. *)
LEMMA RequestIs ==
    ASSUME NEW method \in {"Folders", "Items"}, NEW uris \in Seq(Uris)
    PROVE  \/ RequestToCommand(method, uris) = <<>>
           \/ \E c \in CommandSet : c.pane = 0 /\ RequestToCommand(method, uris) = <<c>>
<1> DEFINE named == {i \in DOMAIN uris : NamesPath(uris[i])}
           at == CHOOSE i \in named : \A j \in named : i <= j
           first == uris[at]
<1>1. CASE named = {} BY <1>1 DEF RequestToCommand
<1>2. CASE named # {}
  <2>1. named \in SUBSET Nat OBVIOUS
  <2>2. at \in named
    <3> HIDE DEF named
    <3> QED BY <1>2, <2>1, LeastIs
  <2>3. first \in Uris /\ NamesPath(first)
    <3> HIDE DEF at
    <3> QED BY <2>2
  <2>4. RequestToCommand(method, uris) =
           IF method = "Folders" THEN <<Command("Navigate", 0, first.item)>>
           ELSE IF first.folder = Nowhere THEN <<>> ELSE <<Command("Reveal", 0, first.folder)>>
    BY <1>2 DEF RequestToCommand
  <2> HIDE DEF first
  <2>5. first.item \in DesktopPaths BY <2>3 DEF Uris, NamesPath
  <2>6. first.folder # Nowhere => first.folder \in DesktopPaths BY <2>3 DEF Uris
  <2>7. CASE method = "Folders"
    <3>1. Command("Navigate", 0, first.item) \in CommandSet /\ Command("Navigate", 0, first.item).pane = 0
      BY <2>5, CommandIs
    <3> QED BY <3>1, <2>4, <2>7
  <2>8. CASE method # "Folders" /\ first.folder # Nowhere
    <3>1. Command("Reveal", 0, first.folder) \in CommandSet /\ Command("Reveal", 0, first.folder).pane = 0
      BY <2>6, <2>8, CommandIs
    <3> QED BY <3>1, <2>4, <2>8
  <2> QED BY <2>4, <2>7, <2>8
<1> QED BY <1>1, <1>2

(* So is that of Navigate. *)
LEMMA MethodIs ==
    ASSUME NEW folder \in Folders \cup {Nowhere}
    PROVE  \/ MethodToCommand(folder) = <<>>
           \/ \E c \in CommandSet : c.pane = 0 /\ MethodToCommand(folder) = <<c>>
<1>1. folder # Nowhere => folder \in DesktopPaths BY DEF DesktopPaths
<1>2. folder # Nowhere =>
         Command("Navigate", 0, folder) \in CommandSet /\ Command("Navigate", 0, folder).pane = 0
  BY <1>1, CommandIs
<1> QED BY <1>2 DEF MethodToCommand

(* A process that is asked over the bus has at most one command more, of pane 0, which no tab's
   closing takes away. *)
LEMMA AskedStep ==
    ASSUME DesktopInv, NEW p \in Processes, proc[p] # "off",
           desktop.does \cap {"show", "navigate"} # {}, Spend,
           NEW c, c = <<>> \/ \E cmd \in CommandSet : cmd.pane = 0 /\ c = <<cmd>>,
           inbox' = [inbox EXCEPT ![p] = @ \o c],
           UNCHANGED <<owners, proc, tab, shows, listing, news, service, overlaps>>
    PROVE  DesktopInv'
<1>1. DesktopShape /\ OwnersFit /\ ProcessFits(p) /\ inbox \in [Processes -> Seq(CommandSet)]
  BY DEF DesktopInv, DesktopShape
<1>2. desktop' \in SceneSet /\ desktop'.does = desktop.does /\ desktop'.targets = desktop.targets
  BY <1>1, SpendKeeps
<1> DEFINE new == inbox[p] \o c
<1>3. new \in Seq(CommandSet) /\ \A k \in DOMAIN new : (k \in DOMAIN inbox[p] /\ new[k] = inbox[p][k]) \/ new[k].pane = 0
  <2>1. CASE c = <<>> BY <2>1, <1>1
  <2>2. CASE \E cmd \in CommandSet : cmd.pane = 0 /\ c = <<cmd>>
    <3>1. PICK cmd \in CommandSet : cmd.pane = 0 /\ c = <<cmd>> BY <2>2
    <3>2. new = Append(inbox[p], cmd) BY <1>1, <3>1
    <3> DEFINE q == inbox[p]
    <3>3. q \in Seq(CommandSet) BY <1>1
    <3> HIDE DEF q
    <3>4. /\ Append(q, cmd) \in Seq(CommandSet) /\ DOMAIN Append(q, cmd) = 1 .. Len(q) + 1
          /\ Append(q, cmd)[Len(q) + 1] = cmd /\ \A k \in DOMAIN q : Append(q, cmd)[k] = q[k]
      BY <3>1, <3>3, AppendIs
    <3>5. \A k \in 1 .. Len(q) + 1 : k \in DOMAIN q \/ k = Len(q) + 1 BY <3>3
    <3> QED BY <3>1, <3>2, <3>4, <3>5 DEF q
  <2> QED BY <2>1, <2>2
<1>4. inbox' = [inbox EXCEPT ![p] = new] OBVIOUS
<1> HIDE DEF new
<1>5. inbox' \in [Processes -> Seq(CommandSet)] /\ inbox'[p] = new /\ \A q \in Processes \ {p} : inbox'[q] = inbox[q]
  BY <1>1, <1>3, <1>4
<1>6. DesktopShape' BY <1>1, <1>2, <1>5 DEF DesktopShape
<1>7. ClosesSafely => ~Untab BY DEF ClosesSafely, Untab
<1>8. ClosesSafely' = ClosesSafely /\ Untab' = Untab BY <1>2 DEF ClosesSafely, Untab
<1>9. \A i : HasPane(p, i)' = HasPane(p, i) BY DEF HasPane
<1>10. WindowShape(p)' BY <1>1 DEF ProcessFits, WindowShape
<1>11. PanesOpen(p)' BY <1>1, <1>3, <1>5, <1>8, <1>9 DEF ProcessFits, PanesOpen
<1>12. UntabFits(p)' BY <1>7, <1>8 DEF UntabFits
<1>13. SignalFits(p)' BY <1>1 DEF ProcessFits, SignalFits, Signaling
<1>14. WindowFits(p)'
  <2>1. NewsSays(p)' = NewsSays(p) /\ Signaling(p)' = Signaling(p) BY <1>9 DEF NewsSays, Signaling
  <2>2. ClosesSafely => ~MoreToCome(p) BY <1>7 DEF MoreToCome
  <2> QED BY <2>1, <2>2, <1>1, <1>8, <1>9 DEF ProcessFits, WindowFits
<1>15. ProcessFits(p)' BY <1>10, <1>11, <1>12, <1>13, <1>14 DEF ProcessFits
<1>16. Elsewhere(p) /\ SceneStays /\ OwnersFit'
  BY <1>1, <1>2, <1>5, OwnersStayFit DEF Elsewhere, SceneStays
<1> QED BY <1>6, <1>15, <1>16, OneProcess

(* Who owns a name runs. *)
LEMMA OwnerIs ==
    ASSUME DesktopInv, NEW n \in Names, HasOwner(n)
    PROVE  Owner(n) \in Processes /\ proc[Owner(n)] # "off"
<1>1. owners[n] \in Seq(Processes) /\ owners[n] # <<>> BY DEF DesktopInv, DesktopShape, HasOwner
<1>2. 1 \in DOMAIN owners[n] /\ Owner(n) = owners[n][1] BY <1>1 DEF Owner
<1> QED BY <1>2, OffOwnsNothing

(* CallFileManager1 preserves the invariant. *)
LEMMA CallFileManager1Step ==
    ASSUME DesktopInv, CallFileManager1
    PROVE  DesktopInv'
<1>1. PICK method \in {"Folders", "Items"}, uris \in desktop.uris :
         inbox' = [inbox EXCEPT ![Owner("FileManager1")] = @ \o RequestToCommand(method, uris)]
  BY DEF CallFileManager1
<1>2. /\ "show" \in desktop.does /\ HasOwner("FileManager1") /\ Spend
      /\ UNCHANGED <<owners, proc, tab, shows, listing, news, service, overlaps>>
  BY DEF CallFileManager1
<1>3. Owner("FileManager1") \in Processes /\ proc[Owner("FileManager1")] # "off"
  BY <1>2, OwnerIs DEF Names
<1>4. uris \in Seq(Uris) BY DEF DesktopInv, DesktopShape, SceneSet
<1> DEFINE c == RequestToCommand(method, uris)
<1>5. c = <<>> \/ \E cmd \in CommandSet : cmd.pane = 0 /\ c = <<cmd>> BY <1>4, RequestIs
<1>6. inbox' = [inbox EXCEPT ![Owner("FileManager1")] = @ \o c] BY <1>1
<1> HIDE DEF c
<1> QED BY <1>2, <1>3, <1>5, <1>6, AskedStep

(* CallRaven1 preserves it. *)
LEMMA CallRaven1Step ==
    ASSUME DesktopInv, CallRaven1
    PROVE  DesktopInv'
<1>1. PICK folder \in Folders \cup {Nowhere} :
         inbox' = [inbox EXCEPT ![Owner("Raven1")] = @ \o MethodToCommand(folder)]
  BY DEF CallRaven1
<1>2. /\ "navigate" \in desktop.does /\ HasOwner("Raven1") /\ Spend
      /\ UNCHANGED <<owners, proc, tab, shows, listing, news, service, overlaps>>
  BY DEF CallRaven1
<1>3. Owner("Raven1") \in Processes /\ proc[Owner("Raven1")] # "off" BY <1>2, OwnerIs DEF Names
<1> DEFINE c == MethodToCommand(folder)
<1>4. c = <<>> \/ \E cmd \in CommandSet : cmd.pane = 0 /\ c = <<cmd>> BY MethodIs
<1>5. inbox' = [inbox EXCEPT ![Owner("Raven1")] = @ \o c] BY <1>1
<1> HIDE DEF c
<1> QED BY <1>2, <1>3, <1>4, <1>5, AskedStep

-------------------------------------------------------------------------------
(* TakeCommand of a Reveal preserves it: the selection is announced, and its Navigate comes. *)
LEMMA RevealStep ==
    ASSUME DesktopInv, NEW p \in Processes, TakeCommand(p), Head(inbox[p]).kind = "Reveal"
    PROVE  DesktopInv'
<1> DEFINE c == Head(inbox[p])
           cmd == Command("Navigate", c.pane, c.path)
           event == Command("SelectItems", c.pane, c.path)
           queue == Append(Tail(inbox[p]), cmd)
           events == Append(news[p], event)
<1>1. /\ proc[p] = "on" /\ inbox[p] # <<>> /\ inbox' = [inbox EXCEPT ![p] = queue]
      /\ news' = [news EXCEPT ![p] = events]
      /\ UNCHANGED <<owners, proc, tab, shows, listing, overlaps, service, desktop>>
  BY DEF TakeCommand
<1>2. inbox \in [Processes -> Seq(CommandSet)] /\ news \in [Processes -> Seq(NewsSet)] /\ DesktopShape
  BY DEF DesktopInv, DesktopShape
<1>3. inbox[p] \in Seq(CommandSet) /\ news[p] \in Seq(NewsSet) /\ ProcessFits(p) /\ OwnersFit
  BY <1>2, ShapesOf
<1>4. /\ Tail(inbox[p]) \in Seq(CommandSet) /\ DOMAIN Tail(inbox[p]) = 1 .. Len(inbox[p]) - 1
      /\ Len(Tail(inbox[p])) = Len(inbox[p]) - 1
      /\ c = inbox[p][1] /\ c \in CommandSet /\ 1 \in DOMAIN inbox[p]
      /\ \A k \in DOMAIN Tail(inbox[p]) : Tail(inbox[p])[k] = inbox[p][k + 1] /\ k + 1 \in DOMAIN inbox[p]
  BY <1>1, <1>3, TailIs
<1>5. c.pane \in Nat /\ c.path \in DesktopPaths BY <1>4 DEF CommandSet
<1> HIDE DEF c
<1>6. cmd \in CommandSet /\ cmd.pane = c.pane /\ event \in NewsSet /\ event.pane = c.pane /\ event.kind = "SelectItems"
  BY <1>5, CommandIs
<1> HIDE DEF cmd, event
<1>7. /\ queue \in Seq(CommandSet)
      /\ \A k \in DOMAIN queue : (k \in DOMAIN Tail(inbox[p]) /\ queue[k] = Tail(inbox[p])[k]) \/ queue[k] = cmd
  <2> DEFINE q == Tail(inbox[p])
  <2>1. q \in Seq(CommandSet) BY <1>4
  <2> HIDE DEF q
  <2>2. /\ Append(q, cmd) \in Seq(CommandSet) /\ DOMAIN Append(q, cmd) = 1 .. Len(q) + 1
        /\ Append(q, cmd)[Len(q) + 1] = cmd /\ \A k \in DOMAIN q : Append(q, cmd)[k] = q[k]
    BY <1>6, <2>1, AppendIs
  <2>3. \A k \in 1 .. Len(q) + 1 : k \in DOMAIN q \/ k = Len(q) + 1 BY <2>1
  <2> QED BY <2>2, <2>3 DEF q
<1>8. /\ events \in Seq(NewsSet) /\ DOMAIN events = 1 .. Len(news[p]) + 1
      /\ events[Len(news[p]) + 1] = event /\ \A k \in DOMAIN news[p] : events[k] = news[p][k]
      /\ \A k \in DOMAIN events : k \in DOMAIN news[p] \/ k = Len(news[p]) + 1
      /\ \A k \in DOMAIN news[p] : k \in DOMAIN events
  <2> DEFINE q == news[p]
  <2>1. q \in Seq(NewsSet) BY <1>3
  <2> HIDE DEF q
  <2>2. /\ Append(q, event) \in Seq(NewsSet) /\ DOMAIN Append(q, event) = 1 .. Len(q) + 1
        /\ Append(q, event)[Len(q) + 1] = event /\ \A k \in DOMAIN q : Append(q, event)[k] = q[k]
    BY <1>6, <2>1, AppendIs
  <2>3. (\A k \in 1 .. Len(q) + 1 : k \in DOMAIN q \/ k = Len(q) + 1) /\ \A k \in DOMAIN q : k \in 1 .. Len(q) + 1
    BY <2>1
  <2> QED BY <2>2, <2>3 DEF q
<1> HIDE DEF queue, events
<1>9. /\ inbox' \in [Processes -> Seq(CommandSet)] /\ news' \in [Processes -> Seq(NewsSet)]
      /\ inbox'[p] = queue /\ news'[p] = events
      /\ \A q \in Processes \ {p} : inbox'[q] = inbox[q] /\ news'[q] = news[q]
  BY <1>1, <1>2, <1>7, <1>8
<1>10. DesktopShape' BY <1>1, <1>2, <1>9 DEF DesktopShape
<1>11. ClosesSafely' = ClosesSafely /\ Untab' = Untab BY <1>1 DEF ClosesSafely, Untab
<1>12. \A i : HasPane(p, i)' = HasPane(p, i) BY <1>1 DEF HasPane
<1>13. WindowShape(p)' BY <1>1, <1>3 DEF ProcessFits, WindowShape
<1>14. PanesOpen(p)'
  <2>1. ASSUME ~Untab
        PROVE  /\ \A k \in DOMAIN queue : HasPane(p, queue[k].pane)
               /\ \A k \in DOMAIN events : HasPane(p, events[k].pane)
    <3>1. /\ \A k \in DOMAIN inbox[p] : HasPane(p, inbox[p][k].pane)
          /\ \A k \in DOMAIN news[p] : HasPane(p, news[p][k].pane)
      BY <1>3, <2>1 DEF ProcessFits, PanesOpen
    <3>2. HasPane(p, c.pane) BY <1>4, <3>1
    <3>3. \A k \in DOMAIN queue : HasPane(p, queue[k].pane) BY <1>4, <1>6, <1>7, <3>1, <3>2
    <3> QED BY <1>6, <1>8, <3>1, <3>2, <3>3
  <2> QED BY <2>1, <1>1, <1>3, <1>9, <1>11, <1>12 DEF ProcessFits, PanesOpen
<1>15. ~(Untab /\ ClosesSafely /\ ~overlaps)
  <2>1. c.kind = "Reveal" BY DEF c
  <2> QED BY <1>3, <1>4, <2>1 DEF ProcessFits, UntabFits
<1>16. UntabFits(p)' BY <1>1, <1>11, <1>15 DEF UntabFits
<1>17. SignalFits(p)' BY <1>1, <1>3 DEF ProcessFits, SignalFits, Signaling
<1>18. WindowFits(p)'
  <2> SUFFICES ASSUME service[p].path # Root, ~overlaps, ClosesSafely
               PROVE  \/ Signaling(p) /\ listing[p][1].path = service[p].path /\ HasPane(p, listing[p][1].pane)
                      \/ ~Signaling(p) /\ NewsSays(p)'
    <3>1. Signaling(p)' = Signaling(p) BY <1>1 DEF Signaling
    <3> QED BY <3>1, <1>1, <1>11, <1>12 DEF WindowFits
  <2>1. ~MoreToCome(p) BY <1>15 DEF MoreToCome
  <2>2. ASSUME NewsSays(p) PROVE NewsSays(p)'
    <3>1. CASE \E k \in DOMAIN news[p] :
                  /\ news[p][k].kind = "DirectoryLoaded" /\ news[p][k].path = service[p].path
                  /\ HasPane(p, news[p][k].pane)
                  /\ \A j \in DOMAIN news[p] : j > k => news[p][j].kind # "DirectoryLoaded"
      <4>1. PICK k \in DOMAIN news[p] :
               /\ news[p][k].kind = "DirectoryLoaded" /\ news[p][k].path = service[p].path
               /\ HasPane(p, news[p][k].pane)
               /\ \A j \in DOMAIN news[p] : j > k => news[p][j].kind # "DirectoryLoaded"
        BY <3>1
      <4>2. /\ k \in DOMAIN events /\ events[k].kind = "DirectoryLoaded"
            /\ events[k].path = service[p].path /\ HasPane(p, events[k].pane)
        BY <4>1, <1>8
      <4>3. \A j \in DOMAIN events : j > k => events[j].kind # "DirectoryLoaded" BY <4>1, <1>6, <1>8
      <4> QED BY <4>2, <4>3, <1>1, <1>9, <1>12 DEF NewsSays
    <3>2. CASE /\ \A k \in DOMAIN news[p] : news[p][k].kind # "DirectoryLoaded"
               /\ \E k \in DOMAIN tab[p].panes : shows[p][tab[p].panes[k]] = service[p].path
      BY <3>2, <1>1, <1>6, <1>8, <1>9 DEF NewsSays
    <3> QED BY <2>2, <3>1, <3>2 DEF NewsSays
  <2> QED BY <2>1, <2>2, <1>1, <1>3 DEF ProcessFits, WindowFits
<1>19. ProcessFits(p)' BY <1>13, <1>14, <1>16, <1>17, <1>18 DEF ProcessFits
<1>20. Elsewhere(p) /\ SceneStays /\ OwnersFit'
  BY <1>1, <1>3, <1>9, OwnersStayFit DEF Elsewhere, SceneStays
<1> QED BY <1>10, <1>19, <1>20, OneProcess

(* TakeCommand of a Navigate preserves it: a listing alone, or listings that overlap. *)
LEMMA NavigateStep ==
    ASSUME DesktopInv, NEW p \in Processes, TakeCommand(p), Head(inbox[p]).kind # "Reveal"
    PROVE  DesktopInv'
<1> DEFINE c == Head(inbox[p])
           task == [pane |-> c.pane, path |-> c.path, pc |-> "list"]
           queue == Tail(inbox[p])
           listings == Append(listing[p], task)
<1>1. /\ proc[p] = "on" /\ inbox[p] # <<>> /\ inbox' = [inbox EXCEPT ![p] = queue]
      /\ listing' = [listing EXCEPT ![p] = listings] /\ overlaps' = (overlaps \/ listing[p] # <<>>)
      /\ UNCHANGED <<owners, proc, tab, shows, news, service, desktop>>
  BY DEF TakeCommand
<1>2. /\ inbox \in [Processes -> Seq(CommandSet)] /\ listing \in [Processes -> Seq(ListingSet)]
      /\ DesktopShape /\ overlaps \in BOOLEAN
  BY DEF DesktopInv, DesktopShape
<1>3. inbox[p] \in Seq(CommandSet) /\ listing[p] \in Seq(ListingSet) /\ ProcessFits(p) /\ OwnersFit
  BY <1>2, ShapesOf
<1>4. /\ queue \in Seq(CommandSet) /\ Len(queue) = Len(inbox[p]) - 1 /\ DOMAIN queue = 1 .. Len(inbox[p]) - 1
      /\ c = inbox[p][1] /\ c \in CommandSet /\ 1 \in DOMAIN inbox[p] /\ Len(inbox[p]) \in Nat \ {0}
      /\ \A k \in DOMAIN queue : queue[k] = inbox[p][k + 1] /\ k + 1 \in DOMAIN inbox[p]
  BY <1>1, <1>3, TailIs
<1>5. c.pane \in Nat /\ c.path \in DesktopPaths BY <1>4 DEF CommandSet
<1> HIDE DEF c, queue
<1>6. task \in ListingSet /\ task.pane = c.pane /\ task.path = c.path /\ task.pc = "list"
  BY <1>5 DEF ListingSet
<1> HIDE DEF task
<1>7. /\ listings \in Seq(ListingSet) /\ listings # <<>>
      /\ (listing[p] = <<>> => Len(listings) = 1 /\ DOMAIN listings = {1} /\ listings[1] = task)
      /\ \A k \in DOMAIN listings : (k \in DOMAIN listing[p] /\ listings[k] = listing[p][k]) \/ listings[k] = task
  <2> DEFINE q == listing[p]
  <2>1. q \in Seq(ListingSet) BY <1>3
  <2> HIDE DEF q
  <2>2. /\ Append(q, task) \in Seq(ListingSet) /\ DOMAIN Append(q, task) = 1 .. Len(q) + 1
        /\ Len(Append(q, task)) = Len(q) + 1 /\ Append(q, task) # <<>>
        /\ Append(q, task)[Len(q) + 1] = task /\ \A k \in DOMAIN q : Append(q, task)[k] = q[k]
    BY <1>6, <2>1, AppendIs
  <2>3. \A k \in 1 .. Len(q) + 1 : k \in DOMAIN q \/ k = Len(q) + 1 BY <2>1
  <2>4. q = <<>> => Len(q) = 0 /\ 1 .. Len(q) + 1 = {1} OBVIOUS
  <2> QED BY <2>2, <2>3, <2>4 DEF q
<1> HIDE DEF listings
<1>8. /\ inbox' \in [Processes -> Seq(CommandSet)] /\ listing' \in [Processes -> Seq(ListingSet)]
      /\ inbox'[p] = queue /\ listing'[p] = listings
      /\ \A q \in Processes \ {p} : inbox'[q] = inbox[q] /\ listing'[q] = listing[q]
  BY <1>1, <1>2, <1>4, <1>7
<1>9. overlaps' \in BOOLEAN /\ (overlaps => overlaps') /\ (~overlaps' => listing[p] = <<>> /\ ~overlaps)
  BY <1>1, <1>2
<1>10. DesktopShape' BY <1>1, <1>2, <1>8, <1>9 DEF DesktopShape
<1>11. ClosesSafely' = ClosesSafely /\ Untab' = Untab BY <1>1 DEF ClosesSafely, Untab
<1>12. \A i : HasPane(p, i)' = HasPane(p, i) BY <1>1 DEF HasPane
<1>13. WindowShape(p)' BY <1>1, <1>3, <1>7, <1>8, <1>9 DEF ProcessFits, WindowShape
<1>14. PanesOpen(p)'
  <2>1. ASSUME ~Untab
        PROVE  /\ \A k \in DOMAIN queue : HasPane(p, queue[k].pane)
               /\ \A k \in DOMAIN listings : HasPane(p, listings[k].pane)
    <3>1. /\ \A k \in DOMAIN inbox[p] : HasPane(p, inbox[p][k].pane)
          /\ \A k \in DOMAIN listing[p] : HasPane(p, listing[p][k].pane)
      BY <1>3, <2>1 DEF ProcessFits, PanesOpen
    <3> QED BY <1>4, <1>6, <1>7, <3>1
  <2> QED BY <2>1, <1>1, <1>3, <1>8, <1>11, <1>12 DEF ProcessFits, PanesOpen
<1>15. UntabFits(p)'
  <2> SUFFICES ASSUME Untab, ClosesSafely, ~overlaps'
               PROVE  /\ queue # <<>> => HasPane(p, queue[Len(queue)].pane)
                      /\ queue = <<>> => HasPane(p, listings[1].pane)
                      /\ \A k \in DOMAIN queue : queue[k].kind = "Navigate" /\ queue[k].path \notin Unlistable
                      /\ \A k \in DOMAIN listings :
                            listings[k].path \in Unlistable => listings[k].pc = "list" /\ service[p].path = Root
                      /\ \A i \in DOMAIN shows[p] : shows[p][i] \notin Unlistable
                      /\ \A k \in DOMAIN news[p] :
                            news[p][k].kind = "DirectoryLoaded" => news[p][k].path \notin Unlistable
    BY <1>1, <1>8, <1>11, <1>12 DEF UntabFits
  <2>1. /\ ~overlaps /\ listing[p] = <<>> /\ HasPane(p, inbox[p][Len(inbox[p])].pane)
        /\ \A k \in DOMAIN inbox[p] :
              /\ inbox[p][k].kind = "Navigate"
              /\ inbox[p][k].path \in Unlistable => k = 1 /\ service[p].path = Root
        /\ \A i \in DOMAIN shows[p] : shows[p][i] \notin Unlistable
        /\ \A k \in DOMAIN news[p] :
              news[p][k].kind = "DirectoryLoaded" => news[p][k].path \notin Unlistable
    BY <1>1, <1>3, <1>9 DEF ProcessFits, UntabFits
  <2>2. queue # <<>> => Len(queue) \in DOMAIN queue /\ Len(queue) + 1 = Len(inbox[p]) BY <1>4
  <2>3. queue # <<>> => HasPane(p, queue[Len(queue)].pane) BY <1>4, <2>1, <2>2
  <2>4. queue = <<>> => Len(inbox[p]) = 1 BY <1>4
  <2>5. queue = <<>> => HasPane(p, listings[1].pane) BY <1>4, <1>6, <1>7, <2>1, <2>4
  <2>6. \A k \in DOMAIN queue : k + 1 # 1 BY <1>4
  <2>7. \A k \in DOMAIN queue : queue[k].kind = "Navigate" /\ queue[k].path \notin Unlistable
    BY <1>4, <2>1, <2>6
  <2>8. \A k \in DOMAIN listings : listings[k] = task BY <1>7, <2>1
  <2>9. task.path \in Unlistable => service[p].path = Root BY <1>4, <1>6, <2>1
  <2> QED BY <1>6, <2>1, <2>3, <2>5, <2>7, <2>8, <2>9
<1>16. ~overlaps' => ~Signaling(p) /\ ~Signaling(p)' BY <1>6, <1>7, <1>8, <1>9 DEF Signaling
<1>17. SignalFits(p)'
  <2> SUFFICES ASSUME service[p].path # Root
               PROVE  /\ service[p].connected /\ ~overlaps' => service[p].sent = service[p].path
                      /\ ~service[p].connected =>
                            /\ service[p].pending # <<>>
                            /\ service[p].pending[Len(service[p].pending)] = service[p].path
    BY <1>1, <1>16 DEF SignalFits
  <2> QED BY <1>1, <1>3, <1>9, <1>16 DEF ProcessFits, SignalFits
<1>18. WindowFits(p)'
  <2> SUFFICES ASSUME service[p].path # Root, ~overlaps', ClosesSafely
               PROVE  MoreToCome(p)' \/ (~Signaling(p)' /\ NewsSays(p)')
    BY <1>1, <1>11 DEF WindowFits
  <2>1. CASE Untab BY <2>1, <1>6, <1>7, <1>8, <1>9, <1>11 DEF MoreToCome
  <2>2. CASE ~Untab
    <3>1. NewsSays(p) BY <2>2, <1>1, <1>3, <1>9, <1>16 DEF ProcessFits, WindowFits, MoreToCome
    <3>2. NewsSays(p)' = NewsSays(p) BY <1>1, <1>12 DEF NewsSays
    <3> QED BY <3>1, <3>2, <1>16
  <2> QED BY <2>1, <2>2
<1>19. ProcessFits(p)' BY <1>13, <1>14, <1>15, <1>17, <1>18 DEF ProcessFits
<1>20. Elsewhere(p) /\ SceneStays /\ OwnersFit'
  BY <1>1, <1>3, <1>8, <1>9, OwnersStayFit DEF Elsewhere, SceneStays
<1> QED BY <1>10, <1>19, <1>20, OneProcess

(* TakeCommand preserves it. *)
LEMMA TakeCommandStep ==
    ASSUME DesktopInv, NEW p \in Processes, TakeCommand(p)
    PROVE  DesktopInv'
BY RevealStep, NavigateStep

-------------------------------------------------------------------------------
(* A listing that overlaps no other is the only one. *)
LEMMA AloneIs ==
    ASSUME DesktopInv, NEW p \in Processes, NEW k \in DOMAIN listing[p]
    PROVE  /\ listing[p][k] \in ListingSet /\ listing[p] # <<>>
           /\ ~overlaps => k = 1 /\ Len(listing[p]) = 1 /\ DOMAIN listing[p] = {1}
<1>1. listing[p] \in Seq(ListingSet) /\ (~overlaps => Len(listing[p]) <= 1)
  BY ShapesOf DEF ProcessFits, WindowShape
<1> DEFINE q == listing[p]
<1> HIDE DEF q
<1>2. q \in Seq(ListingSet) /\ k \in DOMAIN q /\ (~overlaps => Len(q) <= 1) BY <1>1 DEF q
<1>3. q[k] \in ListingSet /\ q # <<>> /\ DOMAIN q = 1 .. Len(q) /\ Len(q) \in Nat \ {0} BY <1>2
<1>4. Len(q) <= 1 => Len(q) = 1 /\ 1 .. Len(q) = {1} BY <1>3
<1>5. Len(q) <= 1 => k = 1 /\ Len(q) = 1 /\ DOMAIN q = {1} BY <1>2, <1>3, <1>4
<1> QED BY <1>2, <1>3, <1>5 DEF q

(* A sequence of no length. *)
LEMMA EmptyIs ==
    ASSUME NEW S, NEW s \in Seq(S), Len(s) = 1 - 1
    PROVE  s = <<>>
OBVIOUS

(* ListDir preserves it where the folder cannot be listed: the path stays what it was. *)
LEMMA ListFailsStep ==
    ASSUME DesktopInv, NEW p \in Processes, NEW k \in DOMAIN listing[p], ListDir(p, k),
           listing[p][k].path \in Unlistable
    PROVE  DesktopInv'
<1> DEFINE listings == RemoveAt(listing[p], k)
<1>1. /\ listing[p][k].pc = "list" /\ listing' = [listing EXCEPT ![p] = listings]
      /\ UNCHANGED <<owners, proc, tab, shows, inbox, news, service, overlaps, desktop>>
  BY DEF ListDir
<1>2. listing \in [Processes -> Seq(ListingSet)] /\ DesktopShape BY DEF DesktopInv, DesktopShape
<1>3. listing[p] \in Seq(ListingSet) /\ ProcessFits(p) /\ OwnersFit BY <1>2, ShapesOf
<1>4. /\ listings \in Seq(ListingSet) /\ Len(listings) = Len(listing[p]) - 1
      /\ \A j \in DOMAIN listings : \E i \in DOMAIN listing[p] : listings[j] = listing[p][i]
  <2>1. /\ listings \in Seq(ListingSet) /\ Len(listings) = Len(listing[p]) - 1 /\ DOMAIN listings = 1 .. Len(listing[p]) - 1
        /\ \A j \in 1 .. Len(listing[p]) - 1 : listings[j] = IF j < k THEN listing[p][j] ELSE listing[p][j + 1]
    BY <1>3, RemovedIs
  <2>2. \A j \in 1 .. Len(listing[p]) - 1 : j \in DOMAIN listing[p] /\ j + 1 \in DOMAIN listing[p]
    BY <1>3
  <2> HIDE DEF listings
  <2> QED BY <2>1, <2>2
<1> HIDE DEF listings
<1>5. listing' \in [Processes -> Seq(ListingSet)] /\ listing'[p] = listings /\ \A q \in Processes \ {p} : listing'[q] = listing[q]
  BY <1>1, <1>2, <1>4
<1>6. listing[p] # <<>> /\ (~overlaps => k = 1 /\ Len(listing[p]) = 1) BY AloneIs
<1>7. ~overlaps => listings = <<>> BY <1>4, <1>6, EmptyIs
<1>8. DesktopShape' BY <1>1, <1>2, <1>5 DEF DesktopShape
<1>9. ClosesSafely' = ClosesSafely /\ Untab' = Untab BY <1>1 DEF ClosesSafely, Untab
<1>10. \A i : HasPane(p, i)' = HasPane(p, i) BY <1>1 DEF HasPane
<1>11. WindowShape(p)'
  <2>1. proc[p] \notin {"off", "raven", "fm1"} BY <1>3, <1>6 DEF ProcessFits, WindowShape
  <2>2. ~overlaps => Len(listings) <= 1 BY <1>7
  <2> QED BY <2>1, <2>2, <1>1, <1>3, <1>5 DEF ProcessFits, WindowShape
<1>12. PanesOpen(p)' BY <1>1, <1>3, <1>4, <1>5, <1>9, <1>10 DEF ProcessFits, PanesOpen
<1>13. UntabFits(p)'
  <2> SUFFICES ASSUME Untab, ClosesSafely, ~overlaps PROVE UntabFits(p)' BY <1>1, <1>9 DEF UntabFits
  <2> QED BY <1>1, <1>3, <1>5, <1>6, <1>7, <1>10 DEF ProcessFits, UntabFits
<1>14. ~overlaps => ~Signaling(p) /\ ~Signaling(p)' BY <1>1, <1>5, <1>6, <1>7 DEF Signaling
<1>15. SignalFits(p)' BY <1>1, <1>3, <1>14 DEF ProcessFits, SignalFits
<1>16. WindowFits(p)'
  <2> SUFFICES ASSUME proc[p] # "gone", service[p].path # Root, ~overlaps, ClosesSafely PROVE NewsSays(p)'
    BY <1>1, <1>9, <1>14 DEF WindowFits
  <2>1. ~Untab BY <1>3, <1>6 DEF ProcessFits, UntabFits
  <2>2. NewsSays(p) BY <2>1, <1>3, <1>14 DEF ProcessFits, WindowFits, MoreToCome
  <2> QED BY <2>2, <1>1, <1>10 DEF NewsSays
<1>17. ProcessFits(p)' BY <1>11, <1>12, <1>13, <1>15, <1>16 DEF ProcessFits
<1>18. Elsewhere(p) /\ SceneStays /\ OwnersFit'
  BY <1>1, <1>3, <1>5, OwnersStayFit DEF Elsewhere, SceneStays
<1> QED BY <1>8, <1>17, <1>18, OneProcess

(* handle_event: the path is the one told, and where it cannot be sent it is the last that
   waits. *)
LEMMA HandleEventIs ==
    ASSUME NEW s \in ServiceSet, NEW path \in DesktopPaths, Len(s.pending) <= MaxPending
    PROVE  /\ HandleEvent(s, path) \in ServiceSet /\ HandleEvent(s, path).path = path
           /\ HandleEvent(s, path).connected = s.connected
           /\ Len(HandleEvent(s, path).pending) <= MaxPending
           /\ ~s.connected =>
                 /\ HandleEvent(s, path).pending # <<>>
                 /\ HandleEvent(s, path).pending[Len(HandleEvent(s, path).pending)] = path
<1>1. s.pending \in Seq(DesktopPaths) /\ MaxPending \in Nat \ {0} BY DesktopAssumption DEF ServiceSet
<1>2. CASE s.connected
  <2>1. HandleEvent(s, path) = [s EXCEPT !.path = path] BY <1>2 DEF HandleEvent
  <2> QED BY <2>1, <1>2 DEF ServiceSet
<1>3. CASE ~s.connected
  <2> DEFINE kept == IF Len(s.pending) >= MaxPending THEN Tail(s.pending) ELSE s.pending
             new == Append(kept, path)
  <2>1. kept \in Seq(DesktopPaths) /\ Len(kept) + 1 <= MaxPending
    <3>1. CASE Len(s.pending) >= MaxPending
      <4>1. s.pending # <<>> BY <3>1, <1>1
      <4>2. Tail(s.pending) \in Seq(DesktopPaths) /\ Len(Tail(s.pending)) = Len(s.pending) - 1
        BY <4>1, <1>1
      <4> QED BY <4>2, <3>1, <1>1
    <3>2. CASE ~(Len(s.pending) >= MaxPending) BY <3>2, <1>1
    <3> QED BY <3>1, <3>2
  <2> HIDE DEF kept
  <2>2. new \in Seq(DesktopPaths) /\ Len(new) <= MaxPending /\ new # <<>> /\ new[Len(new)] = path
    BY <2>1, <1>1
  <2>3. HandleEvent(s, path) = [s EXCEPT !.path = path, !.pending = new]
    BY <1>3 DEF HandleEvent, new, kept
  <2> HIDE DEF new
  <2> QED BY <2>2, <2>3, <1>3 DEF ServiceSet
<1> QED BY <1>2, <1>3

(* ListDir preserves it: the path is ahead of the signal and of the window. *)
LEMMA ListedStep ==
    ASSUME DesktopInv, NEW p \in Processes, NEW k \in DOMAIN listing[p], ListDir(p, k),
           listing[p][k].path \notin Unlistable
    PROVE  DesktopInv'
<1> DEFINE path == listing[p][k].path
           task == [listing[p][k] EXCEPT !.pc = "signal"]
           listings == [listing[p] EXCEPT ![k] = task]
           serves == HandleEvent(service[p], path)
<1>1. /\ listing[p][k].pc = "list" /\ listing' = [listing EXCEPT ![p] = listings]
      /\ service' = [service EXCEPT ![p] = serves]
      /\ UNCHANGED <<owners, proc, tab, shows, inbox, news, overlaps, desktop>>
  BY DEF ListDir
<1>2. /\ listing \in [Processes -> Seq(ListingSet)] /\ service \in [Processes -> ServiceSet] /\ DesktopShape
  BY DEF DesktopInv, DesktopShape
<1>3. /\ listing[p] \in Seq(ListingSet) /\ service[p] \in ServiceSet /\ ProcessFits(p) /\ OwnersFit
      /\ Len(service[p].pending) <= MaxPending
  BY <1>2, ShapesOf DEF ProcessFits, WindowShape
<1>4. listing[p][k] \in ListingSet /\ listing[p] # <<>> /\ (~overlaps => k = 1 /\ Len(listing[p]) = 1 /\ DOMAIN listing[p] = {1})
  BY AloneIs
<1>5. /\ task \in ListingSet /\ task.pane = listing[p][k].pane /\ task.path = path /\ task.pc = "signal"
      /\ path \in DesktopPaths
  BY <1>4 DEF ListingSet
<1>6. /\ serves \in ServiceSet /\ serves.path = path /\ serves.connected = service[p].connected
      /\ Len(serves.pending) <= MaxPending
      /\ ~serves.connected => serves.pending # <<>> /\ serves.pending[Len(serves.pending)] = path
  <2>1. path \in DesktopPaths BY <1>5
  <2> HIDE DEF path
  <2> QED BY <2>1, <1>3, HandleEventIs
<1> HIDE DEF task, serves
<1>7. /\ listings \in Seq(ListingSet) /\ Len(listings) = Len(listing[p]) /\ DOMAIN listings = DOMAIN listing[p]
      /\ listings[k] = task /\ \A j \in DOMAIN listings \ {k} : listings[j] = listing[p][j]
  BY <1>3, <1>5
<1> HIDE DEF listings
<1>8. /\ listing' \in [Processes -> Seq(ListingSet)] /\ service' \in [Processes -> ServiceSet]
      /\ listing'[p] = listings /\ service'[p] = serves
      /\ \A q \in Processes \ {p} : listing'[q] = listing[q] /\ service'[q] = service[q]
  BY <1>1, <1>2, <1>6, <1>7
<1>9. DesktopShape' BY <1>1, <1>2, <1>8 DEF DesktopShape
<1>10. ClosesSafely' = ClosesSafely /\ Untab' = Untab BY <1>1 DEF ClosesSafely, Untab
<1>11. \A i : HasPane(p, i)' = HasPane(p, i) BY <1>1 DEF HasPane
<1>12. WindowShape(p)'
  <2>1. proc[p] \notin {"off", "raven", "fm1"} BY <1>3, <1>4 DEF ProcessFits, WindowShape
  <2>2. ~overlaps => Len(listings) <= 1 BY <1>4, <1>7
  <2> QED BY <2>1, <2>2, <1>1, <1>3, <1>6, <1>8 DEF ProcessFits, WindowShape
<1>13. PanesOpen(p)'
  <2>1. ASSUME ~Untab PROVE \A j \in DOMAIN listings : HasPane(p, listings[j].pane)
    <3>1. \A j \in DOMAIN listing[p] : HasPane(p, listing[p][j].pane)
      BY <2>1, <1>3 DEF ProcessFits, PanesOpen
    <3> QED BY <3>1, <1>5, <1>7
  <2> QED BY <2>1, <1>1, <1>3, <1>8, <1>10, <1>11 DEF ProcessFits, PanesOpen
<1>14. ~overlaps => /\ Signaling(p)' /\ listings[1] = task /\ DOMAIN listings = {1} /\ listing'[p][1] = task
                    /\ listing[p][1].pane = task.pane
  BY <1>4, <1>5, <1>7, <1>8 DEF Signaling
<1>15. UntabFits(p)'
  <2> SUFFICES ASSUME Untab, ClosesSafely, ~overlaps PROVE UntabFits(p)' BY <1>1, <1>10 DEF UntabFits
  <2>1. /\ \A j \in DOMAIN inbox[p] : inbox[p][j].kind = "Navigate" /\ inbox[p][j].path \notin Unlistable
        /\ inbox[p] # <<>> => HasPane(p, inbox[p][Len(inbox[p])].pane)
        /\ inbox[p] = <<>> => HasPane(p, listing[p][1].pane)
        /\ \A i \in DOMAIN shows[p] : shows[p][i] \notin Unlistable
        /\ \A j \in DOMAIN news[p] : news[p][j].kind = "DirectoryLoaded" => news[p][j].path \notin Unlistable
    BY <1>3, <1>4 DEF ProcessFits, UntabFits
  <2>2. inbox[p] = <<>> => HasPane(p, listings[1].pane) BY <2>1, <1>14
  <2>3. \A j \in DOMAIN listings : listings[j].path \notin Unlistable BY <1>5, <1>14
  <2> QED BY <2>1, <2>2, <2>3, <1>1, <1>8, <1>11 DEF UntabFits
<1>16. SignalFits(p)' BY <1>1, <1>5, <1>6, <1>8, <1>14 DEF SignalFits
<1>17. WindowFits(p)'
  <2> SUFFICES ASSUME ~overlaps, ClosesSafely PROVE MoreToCome(p)' \/ HasPane(p, task.pane)
    BY <1>1, <1>5, <1>6, <1>8, <1>10, <1>11, <1>14 DEF WindowFits
  <2>1. CASE Untab /\ inbox[p] # <<>> BY <2>1, <1>1, <1>10 DEF MoreToCome
  <2>2. CASE Untab /\ inbox[p] = <<>> BY <2>2, <1>3, <1>4, <1>14 DEF ProcessFits, UntabFits
  <2>3. CASE ~Untab BY <2>3, <1>3, <1>5 DEF ProcessFits, PanesOpen
  <2> QED BY <2>1, <2>2, <2>3
<1>18. ProcessFits(p)' BY <1>12, <1>13, <1>15, <1>16, <1>17 DEF ProcessFits
<1>19. Elsewhere(p) /\ SceneStays /\ OwnersFit'
  BY <1>1, <1>3, <1>8, OwnersStayFit DEF Elsewhere, SceneStays
<1> QED BY <1>9, <1>18, <1>19, OneProcess

(* EmitSignal preserves it: the signal tells the path, and the window will be told the same. *)
LEMMA EmitSignalStep ==
    ASSUME DesktopInv, NEW p \in Processes, NEW k \in DOMAIN listing[p], EmitSignal(p, k)
    PROVE  DesktopInv'
<1> DEFINE path == listing[p][k].path
           pane == listing[p][k].pane
           listings == RemoveAt(listing[p], k)
           event == Command("DirectoryLoaded", pane, path)
           events == Append(news[p], event)
<1>1. /\ listing[p][k].pc = "signal" /\ listing' = [listing EXCEPT ![p] = listings]
      /\ news' = [news EXCEPT ![p] = events]
      /\ service' = IF service[p].connected THEN [service EXCEPT ![p].sent = path] ELSE service
      /\ UNCHANGED <<owners, proc, tab, shows, inbox, overlaps, desktop>>
  BY DEF EmitSignal
<1>2. /\ listing \in [Processes -> Seq(ListingSet)] /\ service \in [Processes -> ServiceSet]
      /\ news \in [Processes -> Seq(NewsSet)] /\ DesktopShape
  BY DEF DesktopInv, DesktopShape
<1>3. /\ listing[p] \in Seq(ListingSet) /\ service[p] \in ServiceSet /\ news[p] \in Seq(NewsSet)
      /\ ProcessFits(p) /\ OwnersFit
  BY <1>2, ShapesOf
<1>4. listing[p][k] \in ListingSet /\ listing[p] # <<>> /\ (~overlaps => k = 1 /\ Len(listing[p]) = 1)
  BY AloneIs
<1>5. path \in DesktopPaths /\ pane \in Nat BY <1>4 DEF ListingSet
<1>6. /\ listings \in Seq(ListingSet) /\ Len(listings) = Len(listing[p]) - 1
      /\ \A j \in DOMAIN listings : \E i \in DOMAIN listing[p] : listings[j] = listing[p][i]
  <2>1. /\ listings \in Seq(ListingSet) /\ Len(listings) = Len(listing[p]) - 1 /\ DOMAIN listings = 1 .. Len(listing[p]) - 1
        /\ \A j \in 1 .. Len(listing[p]) - 1 : listings[j] = IF j < k THEN listing[p][j] ELSE listing[p][j + 1]
    BY <1>3, RemovedIs
  <2>2. \A j \in 1 .. Len(listing[p]) - 1 : j \in DOMAIN listing[p] /\ j + 1 \in DOMAIN listing[p]
    BY <1>3
  <2> HIDE DEF listings
  <2> QED BY <2>1, <2>2
<1> HIDE DEF listings
<1>7. ~overlaps => listings = <<>> /\ ~Signaling(p)' /\ Signaling(p) /\ listing[p][1].path = path /\ listing[p][1].pane = pane
  <2>1. listing'[p] = listings BY <1>1, <1>2
  <2>2. ~overlaps => listings = <<>> BY <1>4, <1>6, EmptyIs
  <2> QED BY <2>1, <2>2, <1>1, <1>4 DEF Signaling
<1>8. event \in NewsSet /\ event.kind = "DirectoryLoaded" /\ event.pane = pane /\ event.path = path
  <2> HIDE DEF pane, path
  <2> QED BY <1>5, CommandIs
<1> HIDE DEF event
<1>9. /\ events \in Seq(NewsSet) /\ events[Len(news[p]) + 1] = event /\ Len(news[p]) + 1 \in DOMAIN events
      /\ \A j \in DOMAIN events : j <= Len(news[p]) + 1
      /\ \A j \in DOMAIN events : (j \in DOMAIN news[p] /\ events[j] = news[p][j]) \/ j = Len(news[p]) + 1
  <2> DEFINE q == news[p]
  <2>1. q \in Seq(NewsSet) BY <1>3
  <2> HIDE DEF q
  <2>2. /\ Append(q, event) \in Seq(NewsSet) /\ DOMAIN Append(q, event) = 1 .. Len(q) + 1
        /\ Append(q, event)[Len(q) + 1] = event /\ \A j \in DOMAIN q : Append(q, event)[j] = q[j]
    BY <1>8, <2>1, AppendIs
  <2>3. /\ \A j \in 1 .. Len(q) + 1 : (j \in DOMAIN q \/ j = Len(q) + 1) /\ j <= Len(q) + 1
        /\ Len(q) + 1 \in 1 .. Len(q) + 1
    BY <2>1
  <2> QED BY <2>2, <2>3 DEF q
<1> HIDE DEF events
<1>10. /\ listing' \in [Processes -> Seq(ListingSet)] /\ news' \in [Processes -> Seq(NewsSet)]
       /\ listing'[p] = listings /\ news'[p] = events
       /\ \A q \in Processes \ {p} : listing'[q] = listing[q] /\ news'[q] = news[q]
  BY <1>1, <1>2, <1>6, <1>9
<1>11. /\ service' \in [Processes -> ServiceSet] /\ \A q \in Processes \ {p} : service'[q] = service[q]
       /\ service'[p].path = service[p].path /\ service'[p].pending = service[p].pending
       /\ service'[p].connected = service[p].connected
       /\ service[p].connected => service'[p].sent = path
  <2>1. CASE service[p].connected
    <3> DEFINE new == [service[p] EXCEPT !.sent = path]
    <3>1. /\ new \in ServiceSet /\ new.path = service[p].path /\ new.pending = service[p].pending
          /\ new.connected = service[p].connected /\ new.sent = path
      BY <1>3, <1>5 DEF ServiceSet
    <3>2. service' = [service EXCEPT ![p] = new] BY <1>1, <2>1
    <3> HIDE DEF new
    <3> QED BY <3>1, <3>2, <1>2
  <2>2. CASE ~service[p].connected BY <2>2, <1>1, <1>2
  <2> QED BY <2>1, <2>2
<1>12. DesktopShape' BY <1>1, <1>2, <1>10, <1>11 DEF DesktopShape
<1>13. ClosesSafely' = ClosesSafely /\ Untab' = Untab BY <1>1 DEF ClosesSafely, Untab
<1>14. \A i : HasPane(p, i)' = HasPane(p, i) BY <1>1 DEF HasPane
<1>15. WindowShape(p)'
  <2>1. proc[p] \notin {"off", "raven", "fm1"} BY <1>3, <1>4 DEF ProcessFits, WindowShape
  <2>2. ~overlaps => Len(listings) <= 1 BY <1>7
  <2> QED BY <2>1, <2>2, <1>1, <1>3, <1>10, <1>11 DEF ProcessFits, WindowShape
<1>16. PanesOpen(p)'
  <2>1. ASSUME ~Untab
        PROVE  /\ \A j \in DOMAIN listings : HasPane(p, listings[j].pane)
               /\ \A j \in DOMAIN events : HasPane(p, events[j].pane)
    <3>1. /\ \A j \in DOMAIN listing[p] : HasPane(p, listing[p][j].pane)
          /\ \A j \in DOMAIN news[p] : HasPane(p, news[p][j].pane)
      BY <2>1, <1>3 DEF ProcessFits, PanesOpen
    <3> QED BY <3>1, <1>6, <1>8, <1>9
  <2> QED BY <2>1, <1>1, <1>3, <1>10, <1>13, <1>14 DEF ProcessFits, PanesOpen
<1>17. UntabFits(p)'
  <2> SUFFICES ASSUME Untab, ClosesSafely, ~overlaps PROVE UntabFits(p)' BY <1>1, <1>13 DEF UntabFits
  <2>1. /\ \A j \in DOMAIN inbox[p] : inbox[p][j].kind = "Navigate" /\ inbox[p][j].path \notin Unlistable
        /\ inbox[p] # <<>> => HasPane(p, inbox[p][Len(inbox[p])].pane)
        /\ path \in Unlistable => listing[p][k].pc = "list"
        /\ \A i \in DOMAIN shows[p] : shows[p][i] \notin Unlistable
        /\ \A j \in DOMAIN news[p] : news[p][j].kind = "DirectoryLoaded" => news[p][j].path \notin Unlistable
    BY <1>3, <1>4 DEF ProcessFits, UntabFits
  <2>2. path \notin Unlistable BY <2>1, <1>1
  <2>3. \A j \in DOMAIN events : events[j].kind = "DirectoryLoaded" => events[j].path \notin Unlistable
    BY <2>1, <2>2, <1>8, <1>9
  <2> QED BY <2>1, <2>3, <1>1, <1>7, <1>10, <1>14 DEF UntabFits
<1>18. SignalFits(p)' BY <1>1, <1>3, <1>7, <1>11 DEF ProcessFits, SignalFits
<1>19. WindowFits(p)'
  <2> SUFFICES ASSUME proc[p] # "gone", service[p].path # Root, ~overlaps, ClosesSafely
               PROVE  MoreToCome(p)' \/ NewsSays(p)'
    BY <1>1, <1>7, <1>11, <1>13 DEF WindowFits
  <2>1. CASE MoreToCome(p) BY <2>1, <1>1, <1>7, <1>13 DEF MoreToCome, Signaling
  <2>2. CASE path = service[p].path /\ HasPane(p, pane)
    <3>1. \A j \in DOMAIN events : ~(j > Len(news[p]) + 1) BY <1>3, <1>9
    <3> QED BY <2>2, <3>1, <1>8, <1>9, <1>10, <1>11, <1>14 DEF NewsSays
  <2> QED BY <2>1, <2>2, <1>3, <1>7 DEF ProcessFits, WindowFits
<1>20. ProcessFits(p)' BY <1>15, <1>16, <1>17, <1>18, <1>19 DEF ProcessFits
<1>21. Elsewhere(p) /\ SceneStays /\ OwnersFit'
  BY <1>1, <1>3, <1>10, <1>11, OwnersStayFit DEF Elsewhere, SceneStays
<1> QED BY <1>12, <1>20, <1>21, OneProcess

-------------------------------------------------------------------------------
(* WindowEvent preserves it: the last listing told is the one shown. *)
LEMMA WindowEventStep ==
    ASSUME DesktopInv, NEW p \in Processes, WindowEvent(p)
    PROVE  DesktopInv'
<1> DEFINE e == Head(news[p])
           events == Tail(news[p])
<1>1. /\ news[p] # <<>> /\ news' = [news EXCEPT ![p] = events]
      /\ shows' = IF e.kind = "DirectoryLoaded" /\ HasPane(p, e.pane)
                  THEN [shows EXCEPT ![p][e.pane] = e.path] ELSE shows
      /\ UNCHANGED <<owners, proc, tab, inbox, listing, service, overlaps, desktop>>
  BY DEF WindowEvent
<1>2. news \in [Processes -> Seq(NewsSet)] /\ DOMAIN shows = Processes /\ DesktopShape
  BY DEF DesktopInv, DesktopShape
<1>3. news[p] \in Seq(NewsSet) /\ ProcessFits(p) /\ OwnersFit BY <1>2, ShapesOf
<1>4. /\ events \in Seq(NewsSet) /\ DOMAIN events = 1 .. Len(news[p]) - 1 /\ Len(news[p]) \in Nat \ {0}
      /\ e = news[p][1] /\ e \in NewsSet /\ 1 \in DOMAIN news[p]
      /\ \A k \in DOMAIN events : events[k] = news[p][k + 1] /\ k + 1 \in DOMAIN news[p]
  BY <1>1, <1>3, TailIs
<1> HIDE DEF e, events
<1>5. e.pane \in Nat /\ e.path \in DesktopPaths BY <1>4 DEF NewsSet
<1>6. \A i : HasPane(p, i) => i \in DOMAIN shows[p] BY ActiveIsShown
<1>7. /\ DOMAIN shows' = Processes /\ DOMAIN shows'[p] = DOMAIN shows[p]
      /\ \A q \in Processes \ {p} : shows'[q] = shows[q]
      /\ \A i \in DOMAIN shows[p] :
            shows'[p][i] = IF e.kind = "DirectoryLoaded" /\ HasPane(p, e.pane) /\ i = e.pane
                           THEN e.path ELSE shows[p][i]
  <2>1. CASE e.kind = "DirectoryLoaded" /\ HasPane(p, e.pane)
    <3> DEFINE new == [shows[p] EXCEPT ![e.pane] = e.path]
    <3>1. /\ DOMAIN new = DOMAIN shows[p]
          /\ \A i \in DOMAIN shows[p] : new[i] = IF i = e.pane THEN e.path ELSE shows[p][i]
      OBVIOUS
    <3>2. shows' = [shows EXCEPT ![p] = new] BY <1>1, <2>1
    <3> HIDE DEF new
    <3>3. DOMAIN shows' = Processes /\ shows'[p] = new /\ \A q \in Processes \ {p} : shows'[q] = shows[q]
      BY <3>2, <1>2
    <3> QED BY <2>1, <3>1, <3>3
  <2>2. CASE ~(e.kind = "DirectoryLoaded" /\ HasPane(p, e.pane)) BY <2>2, <1>1, <1>2
  <2> QED BY <2>1, <2>2
<1>8. /\ news' \in [Processes -> Seq(NewsSet)] /\ news'[p] = events
      /\ \A q \in Processes \ {p} : news'[q] = news[q]
  BY <1>1, <1>2, <1>4
<1>9. DesktopShape' BY <1>1, <1>2, <1>7, <1>8 DEF DesktopShape
<1>10. ClosesSafely' = ClosesSafely /\ Untab' = Untab BY <1>1 DEF ClosesSafely, Untab
<1>11. \A i : HasPane(p, i)' = HasPane(p, i) BY <1>1 DEF HasPane
<1>12. WindowShape(p)'
  <2>1. proc[p] \notin {"off", "raven", "fm1"} BY <1>1, <1>3 DEF ProcessFits, WindowShape
  <2>2. \A i \in DOMAIN shows'[p] : shows'[p][i] \in DesktopPaths
    BY <1>3, <1>5, <1>7 DEF ProcessFits, WindowShape
  <2> QED BY <2>1, <2>2, <1>1, <1>3, <1>7 DEF ProcessFits, WindowShape
<1>13. PanesOpen(p)'
  <2>1. ASSUME ~Untab PROVE \A k \in DOMAIN events : HasPane(p, events[k].pane)
    BY <2>1, <1>3, <1>4 DEF ProcessFits, PanesOpen
  <2> QED BY <2>1, <1>1, <1>3, <1>8, <1>10, <1>11 DEF ProcessFits, PanesOpen
<1>14. UntabFits(p)'
  <2> SUFFICES ASSUME Untab, ClosesSafely, ~overlaps PROVE UntabFits(p)' BY <1>1, <1>10 DEF UntabFits
  <2>1. /\ \A i \in DOMAIN shows[p] : shows[p][i] \notin Unlistable
        /\ \A j \in DOMAIN news[p] : news[p][j].kind = "DirectoryLoaded" => news[p][j].path \notin Unlistable
    BY <1>3 DEF ProcessFits, UntabFits
  <2>2. \A i \in DOMAIN shows'[p] : shows'[p][i] \notin Unlistable BY <2>1, <1>4, <1>7
  <2>3. \A k \in DOMAIN events : events[k].kind = "DirectoryLoaded" => events[k].path \notin Unlistable
    BY <2>1, <1>4
  <2> QED BY <2>2, <2>3, <1>1, <1>3, <1>8, <1>11 DEF ProcessFits, UntabFits
<1>15. SignalFits(p)' BY <1>1, <1>3 DEF ProcessFits, SignalFits, Signaling
<1>16. WindowFits(p)'
  <2>1. Signaling(p)' = Signaling(p) /\ MoreToCome(p)' = MoreToCome(p)
    BY <1>1, <1>10 DEF Signaling, MoreToCome
  <2>2. ASSUME NewsSays(p) PROVE NewsSays(p)'
    <3>1. CASE \E k \in DOMAIN news[p] :
                  /\ news[p][k].kind = "DirectoryLoaded" /\ news[p][k].path = service[p].path
                  /\ HasPane(p, news[p][k].pane)
                  /\ \A j \in DOMAIN news[p] : j > k => news[p][j].kind # "DirectoryLoaded"
      <4>1. PICK k \in DOMAIN news[p] :
               /\ news[p][k].kind = "DirectoryLoaded" /\ news[p][k].path = service[p].path
               /\ HasPane(p, news[p][k].pane)
               /\ \A j \in DOMAIN news[p] : j > k => news[p][j].kind # "DirectoryLoaded"
        BY <3>1
      <4>2. k \in 1 .. Len(news[p]) BY <1>3
      <4>3. CASE k = 1
        <5>1. \A j \in DOMAIN events : j + 1 > k BY <4>3, <1>4
        <5>2. \A j \in DOMAIN events : events[j].kind # "DirectoryLoaded" BY <4>1, <5>1, <1>4
        <5>3. e.kind = "DirectoryLoaded" /\ HasPane(p, e.pane) /\ e.path = service[p].path
          BY <4>1, <4>3, <1>4
        <5>4. PICK l \in DOMAIN tab[p].panes : tab[p].panes[l] = e.pane BY <5>3 DEF HasPane
        <5>5. e.pane \in DOMAIN shows[p] /\ shows'[p][e.pane] = service[p].path BY <5>3, <1>6, <1>7
        <5> QED BY <5>2, <5>4, <5>5, <1>1, <1>8 DEF NewsSays
      <4>4. CASE k # 1
        <5> DEFINE l == k - 1
        <5>1. l \in DOMAIN events /\ l + 1 = k BY <4>2, <4>4, <1>4
        <5>2. \A j \in DOMAIN events : j > l => j + 1 > k BY <5>1, <4>2, <1>4
        <5> HIDE DEF l
        <5>3. /\ events[l].kind = "DirectoryLoaded" /\ events[l].path = service[p].path
              /\ HasPane(p, events[l].pane)
              /\ \A j \in DOMAIN events : j > l => events[j].kind # "DirectoryLoaded"
          BY <4>1, <5>1, <5>2, <1>4
        <5> QED BY <5>1, <5>3, <1>1, <1>8, <1>11 DEF NewsSays
      <4> QED BY <4>3, <4>4
    <3>2. CASE /\ \A k \in DOMAIN news[p] : news[p][k].kind # "DirectoryLoaded"
               /\ \E k \in DOMAIN tab[p].panes : shows[p][tab[p].panes[k]] = service[p].path
      <4>1. shows' = shows BY <3>2, <1>1, <1>4
      <4>2. \A k \in DOMAIN events : events[k].kind # "DirectoryLoaded" BY <3>2, <1>4
      <4> QED BY <3>2, <4>1, <4>2, <1>1, <1>8 DEF NewsSays
    <3> QED BY <2>2, <3>1, <3>2 DEF NewsSays
  <2> QED BY <2>1, <2>2, <1>1, <1>3, <1>10, <1>11 DEF ProcessFits, WindowFits
<1>17. ProcessFits(p)' BY <1>12, <1>13, <1>14, <1>15, <1>16 DEF ProcessFits
<1>18. Elsewhere(p) /\ SceneStays /\ OwnersFit'
  BY <1>1, <1>3, <1>7, <1>8, OwnersStayFit DEF Elsewhere, SceneStays
<1> QED BY <1>9, <1>17, <1>18, OneProcess

(* A command sent is the last of its process. *)
LEMMA SentIs ==
    ASSUME DesktopInv, NEW p \in Processes, NEW c \in CommandSet, Send(p, c)
    PROVE  /\ inbox' \in [Processes -> Seq(CommandSet)] /\ inbox'[p] # <<>>
           /\ inbox'[p][Len(inbox'[p])] = c /\ \A q \in Processes \ {p} : inbox'[q] = inbox[q]
           /\ \A k \in DOMAIN inbox'[p] :
                 (k \in DOMAIN inbox[p] /\ inbox'[p][k] = inbox[p][k]) \/ inbox'[p][k] = c
           /\ inbox[p] = <<>> => DOMAIN inbox'[p] = {1}
<1>1. inbox \in [Processes -> Seq(CommandSet)] BY DEF DesktopInv, DesktopShape
<1> DEFINE q == inbox[p]
           new == Append(q, c)
<1>2. q \in Seq(CommandSet) BY <1>1
<1> HIDE DEF q
<1>3. /\ new \in Seq(CommandSet) /\ DOMAIN new = 1 .. Len(q) + 1 /\ new # <<>> /\ Len(new) = Len(q) + 1
      /\ new[Len(q) + 1] = c /\ \A j \in DOMAIN q : new[j] = q[j]
  BY <1>2, AppendIs
<1>4. \A k \in 1 .. Len(q) + 1 : k \in DOMAIN q \/ k = Len(q) + 1 BY <1>2
<1>5. q = <<>> => 1 .. Len(q) + 1 = {1} OBVIOUS
<1>6. inbox' = [inbox EXCEPT ![p] = new] BY DEF Send, q
<1> HIDE DEF new
<1>7. /\ inbox' \in [Processes -> Seq(CommandSet)] /\ inbox'[p] = new
      /\ \A r \in Processes \ {p} : inbox'[r] = inbox[r]
  BY <1>1, <1>3, <1>6
<1> QED BY <1>3, <1>4, <1>5, <1>7 DEF q

(* OpenTab preserves it: the new pane's folder is listed next. *)
LEMMA OpenTabStep ==
    ASSUME DesktopInv, NEW p \in Processes, OpenTab(p)
    PROVE  DesktopInv'
<1> DEFINE i == tab[p].next
           folder == shows[p][ActivePaneOf(p)]
           c == Command("Navigate", i, folder)
           panes == Append(tab[p].panes, i)
           new == [panes |-> panes, active |-> Len(tab[p].panes) + 1, next |-> i + 1]
           screens == [j \in DOMAIN shows[p] \cup {i} |-> IF j = i THEN folder ELSE shows[p][j]]
<1>1. /\ proc[p] = "on" /\ Spend /\ tab' = [tab EXCEPT ![p] = new] /\ shows' = [shows EXCEPT ![p] = screens]
      /\ Send(p, c) /\ UNCHANGED <<owners, proc, listing, news, service, overlaps>>
  BY DEF OpenTab, UserAct
<1>2. tab \in [Processes -> TabSet] /\ DOMAIN shows = Processes /\ DesktopShape
  BY DEF DesktopInv, DesktopShape
<1>3. tab[p] \in TabSet /\ ProcessFits(p) /\ OwnersFit BY <1>2, ShapesOf
<1>4. tab[p].panes \in Seq(Nat) /\ i \in Nat BY <1>3 DEF TabSet
<1>5. ActivePaneOf(p) \in DOMAIN shows[p] /\ \A j : HasPane(p, j) => j \in DOMAIN shows[p] /\ j \in Nat /\ j < i
  BY ActiveIsShown
<1>6. folder \in DesktopPaths BY <1>3, <1>5 DEF ProcessFits, WindowShape
<1>7. c \in CommandSet /\ c.kind = "Navigate" /\ c.pane = i /\ c.path = folder
  <2> HIDE DEF i, folder
  <2> QED BY <1>4, <1>6, CommandIs
<1> HIDE DEF c
<1>8. /\ inbox' \in [Processes -> Seq(CommandSet)] /\ inbox'[p] # <<>>
      /\ inbox'[p][Len(inbox'[p])] = c /\ \A q \in Processes \ {p} : inbox'[q] = inbox[q]
      /\ \A k \in DOMAIN inbox'[p] :
            (k \in DOMAIN inbox[p] /\ inbox'[p][k] = inbox[p][k]) \/ inbox'[p][k] = c
      /\ inbox[p] = <<>> => DOMAIN inbox'[p] = {1}
  BY <1>1, <1>7, SentIs
<1>9. /\ panes \in Seq(Nat) /\ DOMAIN panes = 1 .. Len(tab[p].panes) + 1 /\ panes[Len(tab[p].panes) + 1] = i
      /\ \A k \in DOMAIN tab[p].panes : panes[k] = tab[p].panes[k] /\ k \in DOMAIN panes
      /\ \A k \in DOMAIN panes : k \in DOMAIN tab[p].panes \/ k = Len(tab[p].panes) + 1
      /\ Len(tab[p].panes) + 1 \in DOMAIN panes
  <2> DEFINE q == tab[p].panes
  <2>1. q \in Seq(Nat) BY <1>4
  <2> HIDE DEF q, i
  <2>2. /\ Append(q, i) \in Seq(Nat) /\ DOMAIN Append(q, i) = 1 .. Len(q) + 1
        /\ Append(q, i)[Len(q) + 1] = i /\ \A k \in DOMAIN q : Append(q, i)[k] = q[k]
    BY <1>4, <2>1, AppendIs
  <2>3. /\ \A k \in 1 .. Len(q) + 1 : k \in DOMAIN q \/ k = Len(q) + 1
        /\ \A k \in DOMAIN q : k \in 1 .. Len(q) + 1
        /\ Len(q) + 1 \in 1 .. Len(q) + 1
    BY <2>1
  <2> QED BY <2>2, <2>3 DEF q
<1> HIDE DEF panes
<1>10. /\ new \in TabSet /\ new.panes = panes /\ new.active \in DOMAIN panes /\ new.next = i + 1
  BY <1>4, <1>9 DEF TabSet
<1> HIDE DEF new
<1>11. /\ tab' \in [Processes -> TabSet] /\ tab'[p] = new /\ \A q \in Processes \ {p} : tab'[q] = tab[q]
       /\ DOMAIN shows' = Processes /\ shows'[p] = screens /\ \A q \in Processes \ {p} : shows'[q] = shows[q]
  BY <1>1, <1>2, <1>10
<1>12. desktop' \in SceneSet /\ desktop'.does = desktop.does /\ desktop'.targets = desktop.targets
  BY <1>1, <1>2, SpendKeeps
<1>13. DesktopShape' BY <1>1, <1>2, <1>8, <1>11, <1>12 DEF DesktopShape
<1>14. ClosesSafely' = ClosesSafely /\ Untab' = Untab BY <1>12 DEF ClosesSafely, Untab
<1>15. PaneAfter(p, i) /\ \A j : HasPane(p, j) => PaneAfter(p, j)
  <2>1. tab'[p].panes = panes BY <1>10, <1>11
  <2>2. PaneAfter(p, i) BY <2>1, <1>9 DEF PaneAfter
  <2>3. ASSUME NEW j, HasPane(p, j) PROVE PaneAfter(p, j) BY <2>1, <2>3, <1>9 DEF HasPane, PaneAfter
  <2> QED BY <2>2, <2>3
<1>16. WindowShape(p)'
  <2>1. \A k \in DOMAIN panes : panes[k] \in DOMAIN screens /\ panes[k] < i + 1
    <3>1. \A k \in DOMAIN tab[p].panes : HasPane(p, tab[p].panes[k]) BY DEF HasPane
    <3>2. \A k \in DOMAIN panes : panes[k] = i \/ (panes[k] \in DOMAIN shows[p] /\ panes[k] \in Nat /\ panes[k] < i)
      BY <3>1, <1>5, <1>9
    <3>3. \A j \in Nat : j < i => j < i + 1 BY <1>4
    <3>4. i < i + 1 BY <1>4
    <3> QED BY <3>2, <3>3, <3>4
  <2>2. \A j \in DOMAIN screens : screens[j] \in DesktopPaths BY <1>3, <1>6 DEF ProcessFits, WindowShape
  <2>3. tab'[p].active \in DOMAIN tab'[p].panes /\ tab'[p].panes = panes /\ tab'[p].next = i + 1
    BY <1>10, <1>11
  <2>4. WindowShape(p) /\ proc'[p] = "on" BY <1>1, <1>3 DEF ProcessFits
  <2> HIDE DEF i, screens
  <2> QED BY <2>1, <2>2, <2>3, <2>4, <1>1, <1>11 DEF WindowShape
<1>17. PanesOpen(p)'
  <2> SUFFICES ASSUME ~Untab PROVE PanesOpen(p)' BY <1>14 DEF PanesOpen
  <2>1. PanesOpen(p) BY <1>3 DEF ProcessFits
  <2>2. \A k \in DOMAIN inbox'[p] : PaneAfter(p, inbox'[p][k].pane)
    BY <2>1, <1>7, <1>8, <1>15 DEF PanesOpen
  <2>3. /\ \A k \in DOMAIN listing'[p] : PaneAfter(p, listing'[p][k].pane)
        /\ \A k \in DOMAIN news'[p] : PaneAfter(p, news'[p][k].pane)
        /\ PaneAfter(p, 0)
    BY <2>1, <1>1, <1>15 DEF PanesOpen
  <2> QED BY <2>2, <2>3 DEF PanesOpen, PaneAfter, HasPane
<1>18. UntabFits(p)'
  <2> SUFFICES ASSUME Untab, ClosesSafely, ~overlaps PROVE UntabFits(p)' BY <1>1, <1>14 DEF UntabFits
  <2>1. \A j \in DOMAIN shows[p] : shows[p][j] \notin Unlistable BY <1>3 DEF ProcessFits, UntabFits
  <2>2. folder \notin Unlistable BY <2>1, <1>5
  <2>3. \A j \in DOMAIN screens : screens[j] \notin Unlistable BY <2>1, <2>2
  <2>4. \A k \in DOMAIN inbox'[p] :
           /\ inbox'[p][k].kind = "Navigate"
           /\ inbox'[p][k].path \in Unlistable => k = 1 /\ listing[p] = <<>> /\ service[p].path = Root
    BY <2>2, <1>3, <1>7, <1>8 DEF ProcessFits, UntabFits
  <2>5. PaneAfter(p, inbox'[p][Len(inbox'[p])].pane) BY <1>7, <1>8, <1>15
  <2>6. /\ \A k \in DOMAIN listing[p] :
              listing[p][k].path \in Unlistable => listing[p][k].pc = "list" /\ service[p].path = Root
        /\ \A k \in DOMAIN news[p] : news[p][k].kind = "DirectoryLoaded" => news[p][k].path \notin Unlistable
    BY <1>3 DEF ProcessFits, UntabFits
  <2>7. \A j \in DOMAIN shows'[p] : shows'[p][j] \notin Unlistable BY <2>3, <1>11
  <2> HIDE DEF i, folder, screens
  <2> QED BY <2>4, <2>5, <2>6, <2>7, <1>1, <1>8 DEF UntabFits, HasPane, PaneAfter
<1>19. SignalFits(p)' BY <1>1, <1>3 DEF ProcessFits, SignalFits, Signaling
<1>20. WindowFits(p)'
  <2> SUFFICES ASSUME service[p].path # Root, ~overlaps, ClosesSafely, ~Untab
               PROVE  \/ Signaling(p) /\ listing[p][1].path = service[p].path /\ PaneAfter(p, listing[p][1].pane)
                      \/ ~Signaling(p) /\ NewsSays(p)'
    <3>1. Untab => MoreToCome(p)' BY <1>8, <1>14 DEF MoreToCome
    <3>2. Signaling(p)' = Signaling(p) BY <1>1 DEF Signaling
    <3> QED BY <3>1, <3>2, <1>1, <1>14 DEF WindowFits, HasPane, PaneAfter
  <2>1. ASSUME NewsSays(p) PROVE NewsSays(p)'
    <3>1. CASE \E k \in DOMAIN news[p] :
                  /\ news[p][k].kind = "DirectoryLoaded" /\ news[p][k].path = service[p].path
                  /\ HasPane(p, news[p][k].pane)
                  /\ \A j \in DOMAIN news[p] : j > k => news[p][j].kind # "DirectoryLoaded"
      BY <3>1, <1>1, <1>15 DEF NewsSays, HasPane, PaneAfter
    <3>2. CASE /\ \A k \in DOMAIN news[p] : news[p][k].kind # "DirectoryLoaded"
               /\ \E k \in DOMAIN tab[p].panes : shows[p][tab[p].panes[k]] = service[p].path
      <4>1. PICK k \in DOMAIN tab[p].panes : shows[p][tab[p].panes[k]] = service[p].path BY <3>2
      <4>2. HasPane(p, tab[p].panes[k]) BY DEF HasPane
      <4>3. tab[p].panes[k] \in DOMAIN shows[p] /\ tab[p].panes[k] # i BY <4>2, <1>4, <1>5
      <4>4. k \in DOMAIN panes /\ screens[panes[k]] = service[p].path BY <4>1, <4>3, <1>9
      <4> QED BY <3>2, <4>4, <1>1, <1>10, <1>11, SMTT(20) DEF NewsSays
    <3> QED BY <2>1, <3>1, <3>2 DEF NewsSays
  <2>2. ~MoreToCome(p) BY DEF MoreToCome
  <2> QED BY <2>1, <2>2, <1>1, <1>3, <1>15 DEF ProcessFits, WindowFits
<1>21. ProcessFits(p)' BY <1>16, <1>17, <1>18, <1>19, <1>20 DEF ProcessFits
<1>22. Elsewhere(p) /\ SceneStays /\ OwnersFit'
  BY <1>1, <1>3, <1>8, <1>11, <1>12, OwnersStayFit DEF Elsewhere, SceneStays
<1> QED BY <1>13, <1>21, <1>22, OneProcess

(* CloseTab preserves it: the pane shown next is listed again. *)
LEMMA CloseTabStep ==
    ASSUME DesktopInv, NEW p \in Processes, CloseTab(p)
    PROVE  DesktopInv'
<1>1. PICK k \in DOMAIN tab[p].panes :
         /\ tab' = [tab EXCEPT ![p].panes = RemoveAt(@, k), ![p].active = 1]
         /\ Send(p, Command("Navigate", RemoveAt(tab[p].panes, k)[1], shows[p][RemoveAt(tab[p].panes, k)[1]]))
  BY DEF CloseTab
<1> DEFINE panes == RemoveAt(tab[p].panes, k)
           c == Command("Navigate", panes[1], shows[p][panes[1]])
           new == [tab[p] EXCEPT !.panes = panes, !.active = 1]
<1>2. /\ proc[p] = "on" /\ "untab" \in desktop.does /\ Spend /\ Len(tab[p].panes) > 1
      /\ UNCHANGED <<owners, proc, shows, listing, news, service, overlaps>>
  BY DEF CloseTab, UserAct
<1>3. tab \in [Processes -> TabSet] /\ DOMAIN shows = Processes /\ DesktopShape
  BY DEF DesktopInv, DesktopShape
<1>4. tab[p] \in TabSet /\ ProcessFits(p) /\ OwnersFit BY <1>3, ShapesOf
<1>5. tab[p].panes \in Seq(Nat) /\ \A j : HasPane(p, j) => j \in DOMAIN shows[p]
  BY <1>4, ActiveIsShown DEF TabSet
<1>6. /\ panes \in Seq(Nat) /\ DOMAIN panes = 1 .. Len(tab[p].panes) - 1 /\ 1 \in DOMAIN panes
      /\ \A j \in DOMAIN panes : \E l \in DOMAIN tab[p].panes : panes[j] = tab[p].panes[l]
  <2> DEFINE q == tab[p].panes
  <2>1. q \in Seq(Nat) /\ Len(q) > 1 /\ k \in DOMAIN q BY <1>2, <1>5
  <2> HIDE DEF q
  <2>2. /\ RemoveAt(q, k) \in Seq(Nat) /\ DOMAIN RemoveAt(q, k) = 1 .. Len(q) - 1
        /\ \A j \in 1 .. Len(q) - 1 : RemoveAt(q, k)[j] = IF j < k THEN q[j] ELSE q[j + 1]
    BY <2>1, RemovedIs
  <2>3. /\ 1 \in 1 .. Len(q) - 1
        /\ \A j \in 1 .. Len(q) - 1 : j \in DOMAIN q /\ j + 1 \in DOMAIN q
    BY <2>1
  <2> QED BY <2>2, <2>3 DEF q
<1>7. tab' = [tab EXCEPT ![p] = new] /\ Send(p, c) BY <1>1
<1> HIDE DEF panes
<1>8. new \in TabSet /\ new.panes = panes /\ new.active = 1 /\ new.next = tab[p].next
  BY <1>4, <1>6 DEF TabSet
<1> HIDE DEF new
<1>9. tab' \in [Processes -> TabSet] /\ tab'[p] = new /\ \A q \in Processes \ {p} : tab'[q] = tab[q]
  BY <1>3, <1>7, <1>8
<1>10. panes[1] \in DOMAIN shows[p] /\ panes[1] \in Nat
  BY <1>4, <1>6, SMTT(20) DEF ProcessFits, WindowShape
<1>11. c \in CommandSet /\ c.kind = "Navigate" /\ c.pane = panes[1] /\ c.path = shows[p][panes[1]]
  <2> DEFINE folder == shows[p][panes[1]]
             i == panes[1]
  <2>1. folder \in DesktopPaths /\ i \in Nat BY <1>4, <1>10 DEF ProcessFits, WindowShape
  <2> HIDE DEF folder, i
  <2>2. c = Command("Navigate", i, folder) BY DEF folder, i
  <2> HIDE DEF c
  <2> QED BY <2>1, <2>2, CommandIs DEF folder, i
<1> HIDE DEF c
<1>12. /\ inbox' \in [Processes -> Seq(CommandSet)] /\ inbox'[p] # <<>>
       /\ inbox'[p][Len(inbox'[p])] = c /\ \A q \in Processes \ {p} : inbox'[q] = inbox[q]
       /\ \A j \in DOMAIN inbox'[p] :
             (j \in DOMAIN inbox[p] /\ inbox'[p][j] = inbox[p][j]) \/ inbox'[p][j] = c
  BY <1>7, <1>11, SentIs
<1>13. desktop' \in SceneSet /\ desktop'.does = desktop.does /\ desktop'.targets = desktop.targets
  BY <1>2, <1>3, SpendKeeps
<1>14. DesktopShape' BY <1>2, <1>3, <1>9, <1>12, <1>13 DEF DesktopShape
<1>15. ClosesSafely' = ClosesSafely /\ Untab' = Untab /\ Untab BY <1>2, <1>13 DEF ClosesSafely, Untab
<1>16. PaneAfter(p, panes[1]) BY <1>6, <1>8, <1>9 DEF PaneAfter
<1>17. WindowShape(p)' BY <1>2, <1>4, <1>6, <1>8, <1>9 DEF ProcessFits, WindowShape
<1>18. PanesOpen(p)' BY <1>15 DEF PanesOpen
<1>19. UntabFits(p)'
  <2> SUFFICES ASSUME ClosesSafely, ~overlaps PROVE UntabFits(p)' BY <1>2, <1>15 DEF UntabFits
  <2>1. \A j \in DOMAIN shows[p] : shows[p][j] \notin Unlistable
    BY <1>4, <1>15 DEF ProcessFits, UntabFits
  <2>2. \A j \in DOMAIN inbox'[p] :
           /\ inbox'[p][j].kind = "Navigate"
           /\ inbox'[p][j].path \in Unlistable => j = 1 /\ listing[p] = <<>> /\ service[p].path = Root
    BY <2>1, <1>4, <1>10, <1>11, <1>12, <1>15 DEF ProcessFits, UntabFits
  <2>3. PaneAfter(p, inbox'[p][Len(inbox'[p])].pane) BY <1>11, <1>12, <1>16
  <2>4. /\ \A j \in DOMAIN listing[p] :
              listing[p][j].path \in Unlistable => listing[p][j].pc = "list" /\ service[p].path = Root
        /\ \A j \in DOMAIN news[p] : news[p][j].kind = "DirectoryLoaded" => news[p][j].path \notin Unlistable
    BY <1>4, <1>15 DEF ProcessFits, UntabFits
  <2> QED BY <2>1, <2>2, <2>3, <2>4, <1>2, <1>12 DEF UntabFits, HasPane, PaneAfter
<1>20. SignalFits(p)' BY <1>2, <1>4 DEF ProcessFits, SignalFits, Signaling
<1>21. WindowFits(p)' BY <1>12, <1>15 DEF WindowFits, MoreToCome
<1>22. ProcessFits(p)' BY <1>17, <1>18, <1>19, <1>20, <1>21 DEF ProcessFits
<1>23. Elsewhere(p) /\ SceneStays /\ OwnersFit'
  BY <1>2, <1>4, <1>9, <1>12, <1>13, OwnersStayFit DEF Elsewhere, SceneStays
<1> QED BY <1>14, <1>22, <1>23, OneProcess

-------------------------------------------------------------------------------
(* Every step preserves the invariant. *)
LEMMA DesktopStepInv == DesktopInv /\ [DesktopNext]_desktopVars => DesktopInv'
<1> SUFFICES ASSUME DesktopInv, [DesktopNext]_desktopVars PROVE DesktopInv' OBVIOUS
<1>1. CASE CallFileManager1 BY <1>1, CallFileManager1Step
<1>2. CASE CallRaven1 BY <1>2, CallRaven1Step
<1>3. ASSUME NEW p \in Processes, Launch(p) PROVE DesktopInv' BY <1>3, LaunchStep
<1>4. ASSUME NEW p \in Processes, Close(p) PROVE DesktopInv' BY <1>4, CloseStep
<1>5. ASSUME NEW p \in Processes, OpenTab(p) PROVE DesktopInv' BY <1>5, OpenTabStep
<1>6. ASSUME NEW p \in Processes, CloseTab(p) PROVE DesktopInv' BY <1>6, CloseTabStep
<1>7. ASSUME NEW p \in Processes, ServeRaven(p) PROVE DesktopInv' BY <1>7, ServeRavenStep
<1>8. ASSUME NEW p \in Processes, ServeFileManager1(p) PROVE DesktopInv' BY <1>8, ServeFileManager1Step
<1>9. ASSUME NEW p \in Processes, TakeCommand(p) PROVE DesktopInv' BY <1>9, TakeCommandStep
<1>10. ASSUME NEW p \in Processes, WindowEvent(p) PROVE DesktopInv' BY <1>10, WindowEventStep
<1>11. ASSUME NEW p \in Processes, NEW k \in DOMAIN listing[p], ListDir(p, k) PROVE DesktopInv'
  BY <1>11, ListFailsStep, ListedStep
<1>12. ASSUME NEW p \in Processes, NEW k \in DOMAIN listing[p], EmitSignal(p, k) PROVE DesktopInv'
  BY <1>12, EmitSignalStep
<1>13. CASE UNCHANGED desktopVars
  <2>1. DesktopShape' /\ OwnersFit' BY <1>13, OwnersStayFit DEF DesktopInv, DesktopShape, desktopVars
  <2>2. SceneStays /\ \A q \in Processes : ProcessFits(q)
    BY <1>13 DEF SceneStays, desktopVars, DesktopInv
  <2>3. ASSUME NEW q \in Processes PROVE ProcessFits(q)' BY <1>13, <2>2, ProcessStays DEF desktopVars
  <2> QED BY <2>1, <2>3 DEF DesktopInv
<1> QED BY <1>1, <1>2, <1>3, <1>4, <1>5, <1>6, <1>7, <1>8, <1>9, <1>10, <1>11, <1>12, <1>13 DEF
    DesktopNext, Backend

(* fm1.rs, interface.rs, service.rs: queues, windows and what the service says fit each other
   in every state. *)
THEOREM DesktopAlwaysFits == DesktopSpec => []DesktopInv
<1>1. DesktopInit => DesktopInv BY DesktopInitInv
<1>2. DesktopInv /\ [DesktopNext]_desktopVars => DesktopInv' BY DesktopStepInv
<1> QED BY <1>1, <1>2, PTL DEF DesktopSpec

(* fm1.rs:151, service.rs handle_event: for any processes, folders and scenes, the names are
   held by those who asked first and still run, and a window at rest whose listings never
   overlapped shows what the bus says of it. *)
THEOREM BusAlwaysFollowsTheWindow == DesktopSpec => []BusFollowsWindow
<1>1. DesktopInv => BusFollowsWindow BY DesktopInvFollows
<1> QED BY <1>1, DesktopAlwaysFits, PTL

(* A name changes hands only when its owner closes. *)
LEMMA OwnersStayStep ==
    ASSUME DesktopInv, [DesktopNext]_desktopVars, NEW n \in Names,
           owners[n] # <<>>, owners'[n] # <<>>, Owner(n) # Owner(n)'
    PROVE  proc'[Owner(n)] = "gone"
<1>1. owners[n] \in Seq(Processes) /\ IsInjective(owners[n]) /\ owners \in [Names -> Seq(Processes)]
  BY DEF DesktopInv, DesktopShape, OwnersFit
<1>2. Owner(n) = Head(owners[n]) /\ Owner(n)' = Head(owners'[n]) BY DEF Owner
<1>3. owners' # owners BY <1>2
<1>4. ASSUME NEW p \in Processes, NEW m \in Names, Queue(p, m) PROVE FALSE
  <2>1. owners' = [owners EXCEPT ![m] = Append(owners[m], p)] BY <1>4 DEF Queue
  <2>2. n = m BY <2>1, <1>1, <1>2
  <2>3. owners'[n] = Append(owners[n], p) BY <2>1, <2>2, <1>1
  <2>4. Head(Append(owners[n], p)) = Head(owners[n])
    <3> DEFINE q == owners[n]
    <3>1. q \in Seq(Processes) /\ q # <<>> BY <1>1
    <3> HIDE DEF q
    <3>2. Head(Append(q, p)) = Head(q) BY <3>1
    <3> QED BY <3>2 DEF q
  <2> QED BY <2>3, <2>4, <1>2
<1>5. ASSUME NEW p \in Processes, Close(p) PROVE proc'[Owner(n)] = "gone"
  <2>1. owners'[n] = Leave(owners[n], p) /\ proc' = [proc EXCEPT ![p] = "gone"] BY <1>5 DEF Close
  <2>2. Head(owners[n]) # p => Head(Leave(owners[n], p)) = Head(owners[n]) BY <1>1, LeaveIs
  <2>3. Owner(n) = p BY <2>1, <2>2, <1>2
  <2> QED BY <2>1, <2>3 DEF DesktopInv, DesktopShape
<1>6. ASSUME NEW p \in Processes, ServeRaven(p) PROVE FALSE BY <1>3, <1>4, <1>6 DEF ServeRaven, Names
<1>7. ASSUME NEW p \in Processes, ServeFileManager1(p) PROVE FALSE
  BY <1>3, <1>4, <1>7 DEF ServeFileManager1, Names
<1>8. CASE CallFileManager1 \/ CallRaven1 BY <1>3, <1>8 DEF CallFileManager1, CallRaven1
<1>9. ASSUME NEW p \in Processes, Launch(p) \/ OpenTab(p) \/ CloseTab(p) PROVE FALSE
  BY <1>3, <1>9 DEF Launch, OpenTab, CloseTab
<1>10. ASSUME NEW p \in Processes, TakeCommand(p) \/ WindowEvent(p) PROVE FALSE
  BY <1>3, <1>10 DEF TakeCommand, WindowEvent
<1>11. ASSUME NEW p \in Processes, NEW k \in DOMAIN listing[p], ListDir(p, k) \/ EmitSignal(p, k) PROVE FALSE
  BY <1>3, <1>11 DEF ListDir, EmitSignal
<1>12. CASE UNCHANGED desktopVars BY <1>3, <1>12 DEF desktopVars
<1> QED BY <1>5, <1>6, <1>7, <1>8, <1>9, <1>10, <1>11, <1>12 DEF DesktopNext, Backend

(* fm1.rs:151 "the first process owns it": it keeps the name until it closes, for any processes
   and scenes. *)
THEOREM OwnersAlwaysStay == DesktopSpec => OwnersStay
<1> DEFINE Stay == \A n \in Names :
              (owners[n] # <<>> /\ owners'[n] # <<>> /\ Owner(n) # Owner(n)') => proc'[Owner(n)] = "gone"
<1>1. DesktopInv /\ [DesktopNext]_desktopVars => [Stay]_desktopVars BY OwnersStayStep
<1> HIDE DEF Stay
<1>2. DesktopSpec => [][Stay]_desktopVars BY <1>1, DesktopAlwaysFits, PTL DEF DesktopSpec
<1> QED BY <1>2 DEF Stay, OwnersStay
===============================================================================
