------------------------- MODULE ServerTunnels_proofs -------------------------
(***************************************************************************)
(* Proofs about the tunnels on the server: how one is established on       *)
(* demand (TunnelEstablishment), for any number of upgrades and tunnels    *)
(* and any limits, and how its row and its route come and go               *)
(* (TunnelLifecycle), for any users, domains, ids and concurrent requests. *)
(***************************************************************************)
EXTENDS TunnelEstablishment, TunnelLifecycle, TLAPS

-----------------------------------------------------------------------------
(* Establishment on demand.                                                *)

\* The initial state satisfies the inductive invariant.
LEMMA EstablishmentInit == Init => EstablishmentInv
<1> SUFFICES ASSUME Init PROVE EstablishmentInv
  OBVIOUS
<1>1. TypeOK
  BY DEF Init, TypeOK
<1>2. ListedUntilDone
  BY DEF Init, ListedUntilDone
<1>3. FlagIsTended
  BY DEF Init, FlagIsTended
<1>4. NoLostWakeup
  BY DEF Init, NoLostWakeup, Asleep
<1>5. QED
  BY <1>1, <1>2, <1>3, <1>4 DEF EstablishmentInv

\* Every step of a waiting upgrade preserves the invariant.
LEMMA UpgradePreserves ==
    ASSUME EstablishmentInv, NEW w \in Waiters, Upgrade(w)
    PROVE  EstablishmentInv'
<1> USE BoundsAssumption
    DEF EstablishmentInv, TypeOK, ListedUntilDone, FlagIsTended, NoLostWakeup, Clearing, Waking,
        Asleep, Failed, routerVars, callVars, clientVars
<1>1. CASE FindTunnel(w)
  <2>1. TypeOK'
    BY <1>1 DEF FindTunnel, Goto
  <2>2. ListedUntilDone'
    BY <1>1 DEF FindTunnel, Goto
  <2>3. FlagIsTended'
    BY <1>1 DEF FindTunnel, Goto
  <2>4. NoLostWakeup'
    BY <1>1 DEF FindTunnel, Goto
  <2> QED
    BY <2>1, <2>2, <2>3, <2>4
<1>2. CASE FindNoTunnel(w)
  <2>1. TypeOK'
    BY <1>2 DEF FindNoTunnel, Goto
  <2>2. ListedUntilDone'
    BY <1>2 DEF FindNoTunnel, Goto
  <2>3. FlagIsTended'
    BY <1>2 DEF FindNoTunnel, Goto
  <2>4. NoLostWakeup'
    BY <1>2 DEF FindNoTunnel, Goto
  <2> QED
    BY <2>1, <2>2, <2>3, <2>4
<1>3. CASE AddPending(w)
  <2>1. TypeOK'
    BY <1>3 DEF AddPending, Goto
  <2>2. ListedUntilDone'
    BY <1>3 DEF AddPending, Goto
  <2>3. FlagIsTended'
    BY <1>3 DEF AddPending, Goto
  <2>4. NoLostWakeup'
    BY <1>3 DEF AddPending, Goto
  <2> QED
    BY <2>1, <2>2, <2>3, <2>4
<1>4. CASE Initiate(w)
  <2>1. TypeOK'
    BY <1>4 DEF Initiate, Goto
  <2>2. ListedUntilDone'
    BY <1>4 DEF Initiate, Goto
  <2>3. FlagIsTended'
    BY <1>4 DEF Initiate, Goto
  <2>4. NoLostWakeup'
    BY <1>4 DEF Initiate, Goto
  <2> QED
    BY <2>1, <2>2, <2>3, <2>4
<1>5. CASE JoinExisting(w)
  <2>1. TypeOK'
    BY <1>5 DEF JoinExisting, Goto
  <2>2. ListedUntilDone'
    BY <1>5 DEF JoinExisting, Goto
  <2>3. FlagIsTended'
    BY <1>5 DEF JoinExisting, Goto
  <2>4. NoLostWakeup'
    BY <1>5 DEF JoinExisting, Goto
  <2> QED
    BY <2>1, <2>2, <2>3, <2>4
<1>6. CASE Woken(w)
  <2>1. TypeOK'
    BY <1>6 DEF Woken, Goto
  <2>2. ListedUntilDone'
    BY <1>6 DEF Woken, Goto
  <2>3. FlagIsTended'
    BY <1>6 DEF Woken, Goto
  <2>4. NoLostWakeup'
    BY <1>6 DEF Woken, Goto
  <2> QED
    BY <2>1, <2>2, <2>3, <2>4
<1>7. CASE Timeout(w)
  <2>1. TypeOK'
    BY <1>7 DEF Timeout, Goto
  <2>2. ListedUntilDone'
    BY <1>7 DEF Timeout, Goto
  <2>3. FlagIsTended'
    BY <1>7 DEF Timeout, Goto
  <2>4. NoLostWakeup'
    BY <1>7 DEF Timeout, Goto
  <2> QED
    BY <2>1, <2>2, <2>3, <2>4
<1>8. CASE RemovePending(w)
  <2>1. TypeOK'
    BY <1>8 DEF RemovePending, Goto
  <2>2. ListedUntilDone'
    BY <1>8 DEF RemovePending, Goto
  <2>3. FlagIsTended'
    BY <1>8 DEF RemovePending, Goto
  <2>4. NoLostWakeup'
    BY <1>8 DEF RemovePending, Goto
  <2> QED
    BY <2>1, <2>2, <2>3, <2>4
<1> HIDE DEF EstablishmentInv, TypeOK, ListedUntilDone, FlagIsTended, NoLostWakeup, Clearing, Waking,
        Asleep, Failed, routerVars, callVars, clientVars
<1> QED
  BY <1>1, <1>2, <1>3, <1>4, <1>5, <1>6, <1>7, <1>8 DEF Upgrade

\* Every step of a request goroutine preserves the invariant.
LEMMA RequestPreserves ==
    ASSUME EstablishmentInv, NEW w \in Waiters, Request(w)
    PROVE  EstablishmentInv'
<1> USE BoundsAssumption
    DEF EstablishmentInv, TypeOK, ListedUntilDone, FlagIsTended, NoLostWakeup, Clearing, Waking,
        Asleep, Failed, routerVars, callVars, clientVars
<1>1. CASE CheckExisting(w)
  <2>1. TypeOK'
    BY <1>1 DEF CheckExisting
  <2>2. ListedUntilDone'
    BY <1>1 DEF CheckExisting
  <2>3. FlagIsTended'
    BY <1>1 DEF CheckExisting
  <2>4. NoLostWakeup'
    BY <1>1 DEF CheckExisting
  <2> QED
    BY <2>1, <2>2, <2>3, <2>4
<1>2. CASE SendRequest(w)
  <2>1. TypeOK'
    BY <1>2 DEF SendRequest
  <2>2. ListedUntilDone'
    BY <1>2 DEF SendRequest
  <2>3. FlagIsTended'
    BY <1>2 DEF SendRequest
  <2>4. NoLostWakeup'
    BY <1>2 DEF SendRequest
  <2> QED
    BY <2>1, <2>2, <2>3, <2>4
<1>3. CASE SendFails(w)
  <2>1. TypeOK'
    BY <1>3 DEF SendFails
  <2>2. ListedUntilDone'
    BY <1>3 DEF SendFails
  <2>3. FlagIsTended'
    BY <1>3 DEF SendFails
  <2>4. NoLostWakeup'
    BY <1>3 DEF SendFails
  <2> QED
    BY <2>1, <2>2, <2>3, <2>4
<1>4. CASE RequestClears(w)
  <2>1. TypeOK'
    BY <1>4 DEF RequestClears, ClearInProgress
  <2>2. ListedUntilDone'
    BY <1>4 DEF RequestClears, ClearInProgress
  <2>3. FlagIsTended'
    BY <1>4 DEF RequestClears, ClearInProgress
  <2>4. NoLostWakeup'
    BY <1>4 DEF RequestClears, ClearInProgress
  <2> QED
    BY <2>1, <2>2, <2>3, <2>4
<1>5. CASE RequestWakes(w)
  <2>1. TypeOK'
    BY <1>5 DEF RequestWakes, WakePending
  <2>2. ListedUntilDone'
    BY <1>5 DEF RequestWakes, WakePending
  <2>3. FlagIsTended'
    BY <1>5 DEF RequestWakes, WakePending
  <2>4. NoLostWakeup'
    BY <1>5 DEF RequestWakes, WakePending
  <2> QED
    BY <2>1, <2>2, <2>3, <2>4
<1> HIDE DEF EstablishmentInv, TypeOK, ListedUntilDone, FlagIsTended, NoLostWakeup, Clearing, Waking,
        Asleep, Failed, routerVars, callVars, clientVars
<1> QED
  BY <1>1, <1>2, <1>3, <1>4, <1>5 DEF Request

\* Every step of a tunnel's callback preserves the invariant.
LEMMA CallbackPreserves ==
    ASSUME EstablishmentInv, NEW t \in Tunnels, Callback(t)
    PROVE  EstablishmentInv'
<1> USE BoundsAssumption
    DEF EstablishmentInv, TypeOK, ListedUntilDone, FlagIsTended, NoLostWakeup, Clearing, Waking,
        Asleep, Failed, routerVars, callVars, clientVars
<1>1. CASE TunnelClears(t)
  <2>1. TypeOK'
    BY <1>1 DEF TunnelClears, ClearInProgress
  <2>2. ListedUntilDone'
    BY <1>1 DEF TunnelClears, ClearInProgress
  <2>3. FlagIsTended'
    BY <1>1 DEF TunnelClears, ClearInProgress
  <2>4. NoLostWakeup'
    BY <1>1 DEF TunnelClears, ClearInProgress
  <2> QED
    BY <2>1, <2>2, <2>3, <2>4
<1>2. CASE TunnelWakes(t)
  <2>1. TypeOK'
    BY <1>2 DEF TunnelWakes, WakePending
  <2>2. ListedUntilDone'
    BY <1>2 DEF TunnelWakes, WakePending
  <2>3. FlagIsTended'
    BY <1>2 DEF TunnelWakes, WakePending
  <2>4. NoLostWakeup'
    BY <1>2 DEF TunnelWakes, WakePending
  <2> QED
    BY <2>1, <2>2, <2>3, <2>4
<1> HIDE DEF EstablishmentInv, TypeOK, ListedUntilDone, FlagIsTended, NoLostWakeup, Clearing, Waking,
        Asleep, Failed, routerVars, callVars, clientVars
<1> QED
  BY <1>1, <1>2 DEF Callback

\* Every step of the client preserves the invariant.
LEMMA ClientPreserves ==
    ASSUME EstablishmentInv, Client
    PROVE  EstablishmentInv'
<1> USE BoundsAssumption
    DEF EstablishmentInv, TypeOK, ListedUntilDone, FlagIsTended, NoLostWakeup, Clearing, Waking,
        Asleep, Failed, routerVars, callVars, clientVars
<1>1. CASE AskForAnother
  <2>1. TypeOK'
    BY <1>1 DEF AskForAnother
  <2>2. ListedUntilDone'
    BY <1>1 DEF AskForAnother
  <2>3. FlagIsTended'
    BY <1>1 DEF AskForAnother
  <2>4. NoLostWakeup'
    BY <1>1 DEF AskForAnother
  <2> QED
    BY <2>1, <2>2, <2>3, <2>4
<1>2. CASE ClientRefuses
  <2>1. TypeOK'
    BY <1>2 DEF ClientRefuses
  <2>2. ListedUntilDone'
    BY <1>2 DEF ClientRefuses
  <2>3. FlagIsTended'
    BY <1>2 DEF ClientRefuses
  <2>4. NoLostWakeup'
    BY <1>2 DEF ClientRefuses
  <2> QED
    BY <2>1, <2>2, <2>3, <2>4
<1>3. ASSUME NEW t \in Tunnels, TunnelArrives(t) PROVE EstablishmentInv'
  <2>1. TypeOK'
    BY <1>3 DEF TunnelArrives
  <2>2. ListedUntilDone'
    BY <1>3 DEF TunnelArrives
  <2>3. FlagIsTended'
    BY <1>3 DEF TunnelArrives
  <2>4. NoLostWakeup'
    BY <1>3 DEF TunnelArrives
  <2> QED
    BY <2>1, <2>2, <2>3, <2>4
<1>4. ASSUME NEW t \in Tunnels, TakeTunnel(t) PROVE EstablishmentInv'
  <2>1. TypeOK'
    BY <1>4 DEF TakeTunnel
  <2>2. ListedUntilDone'
    BY <1>4 DEF TakeTunnel
  <2>3. FlagIsTended'
    BY <1>4 DEF TakeTunnel
  <2>4. NoLostWakeup'
    BY <1>4 DEF TakeTunnel
  <2> QED
    BY <2>1, <2>2, <2>3, <2>4
<1> HIDE DEF EstablishmentInv, TypeOK, ListedUntilDone, FlagIsTended, NoLostWakeup, Clearing, Waking,
        Asleep, Failed, routerVars, callVars, clientVars
<1> QED
  BY <1>1, <1>2, <1>3, <1>4 DEF Client

\* EstablishmentInv is inductive.
LEMMA EstablishmentNext == EstablishmentInv /\ [Next]_vars => EstablishmentInv'
<1> SUFFICES ASSUME EstablishmentInv, [Next]_vars PROVE EstablishmentInv'
  OBVIOUS
<1>1. CASE UNCHANGED vars
  BY <1>1 DEF vars, EstablishmentInv, TypeOK, ListedUntilDone, FlagIsTended, NoLostWakeup, Clearing, Waking,
        Asleep, Failed, routerVars, callVars, clientVars
<1>2. CASE Next
  BY <1>2, UpgradePreserves, RequestPreserves, CallbackPreserves, ClientPreserves
     DEF Next
<1>3. QED
  BY <1>1, <1>2

\* The coordination of hybrid_router.go satisfies its inductive invariant in
\* every reachable state.
THEOREM EstablishmentInductive == Spec => []EstablishmentInv
BY EstablishmentInit, EstablishmentNext, PTL DEF Spec

\* However joining, timing out, arriving and taking interleave, an upgrade that
\* sleeps still has somebody to wake it, as long as no request failed.
THEOREM WakeupIsNotLost == Spec => []NoLostWakeup
<1>1. EstablishmentInv => NoLostWakeup
  BY DEF EstablishmentInv
<1>2. QED
  BY <1>1, EstablishmentInductive, PTL

\* establishmentInProgress is only set while somebody will clear it, as long as
\* no request failed.
THEOREM FlagHasOwner == Spec => []FlagIsTended
<1>1. EstablishmentInv => FlagIsTended
  BY DEF EstablishmentInv
<1>2. QED
  BY <1>1, EstablishmentInductive, PTL

-----------------------------------------------------------------------------
(* The rows and the routes.  LifecycleInv says what the checks of a         *)
(* request still guarantee when its write takes place: a domain that       *)
(* passed the check is verified for good, and the automatic domain of a    *)
(* user is always the same.  The uniqueness of ports, which has no such    *)
(* reason, does not follow.                                                *)

\* A job put together from well-formed parts is well formed, and so are the
\* unused row and the job of an idle request.
LEMMA TaskTyped ==
    ASSUME NEW i \in Ids, NEW row \in Tunnel, NEW e \in {"keep", "on", "off"},
           NEW p \in Ports \cup {"keep"}, NEW online \in BOOLEAN
    PROVE  /\ Task(i, row, e, p, online) \in Job
           /\ Task(i, row, e, p, online).id = i
           /\ Task(i, row, e, p, online).row = row
           /\ Task(i, row, e, p, online).enable = e
  BY DEF Task, Job

LEMMA Defaults ==
    Unused \in Tunnel /\ Unused.state = "free" /\ NoJob \in Job
<1>1. Unused \in Tunnel /\ Unused.state = "free"
  BY UsersAssumption, PortsAssumption DEF Unused, Tunnel, Domains
<1> QED
  BY <1>1, IdsAssumption, TaskTyped DEF NoJob

\* Calls of Caddy keep the routes within their bounds.
LEMMA RoutesTyped ==
    ASSUME routes \in [Domains -> 0..MaxRoutes], failed \in BOOLEAN,
           NEW d \in Domains,
           ConfigureRoute(d) \/ RemoveRoute(d) \/ LeaveRoutes
    PROVE  routes' \in [Domains -> 0..MaxRoutes] /\ failed' \in BOOLEAN
<1> USE ConfigAssumption
<1>1. CASE ConfigureRoute(d)
  <2>1. CASE UNCHANGED routes /\ failed' = TRUE
    BY <2>1
  <2>2. CASE /\ routes[d] < MaxRoutes
             /\ routes' = [routes EXCEPT ![d] = @ + 1]
             /\ UNCHANGED failed
    <3>1. routes[d] + 1 \in 0..MaxRoutes
      BY <2>2
    <3> QED
      BY <2>2, <3>1
  <2> QED
    BY <1>1, <2>1, <2>2 DEF ConfigureRoute
<1>2. CASE RemoveRoute(d)
  <2>1. routes[d] \in 0..MaxRoutes
    OBVIOUS
  <2>2. (IF routes[d] = 0 THEN 0 ELSE routes[d] - 1) \in 0..MaxRoutes
    BY <2>1
  <2> QED
    BY <1>2, <2>2 DEF RemoveRoute
<1>3. CASE LeaveRoutes
  BY <1>3 DEF LeaveRoutes
<1> QED
  BY <1>1, <1>2, <1>3

\* Nothing has happened yet.
LEMMA InitInv ==
    ASSUME LifecycleInit
    PROVE  LifecycleInv
<1>1. LifecycleTypeOK
  <2>1. 0 \in 0..MaxRoutes
    BY ConfigAssumption
  <2>2. tunnels \in [Ids -> Tunnel] /\ job \in [Ops -> Job]
    BY Defaults DEF LifecycleInit
  <2>3. routes \in [Domains -> 0..MaxRoutes] /\ pc \in [Ops -> Steps]
    BY <2>1 DEF LifecycleInit, Steps
  <2> QED
    BY <2>2, <2>3 DEF LifecycleInit, LifecycleTypeOK
<1>2. RequestsChecked
  BY DEF LifecycleInit, RequestsChecked
<1>3. \A i \in Ids : tunnels[i].state = "free"
  BY Defaults DEF LifecycleInit
<1> QED
  BY <1>1, <1>2, <1>3 DEF LifecycleInv, VerifiedOnce, AutoIsOwn, DomainsDistinct,
                          Live

\* A request that goes on with a job does not disturb what the others rely on,
\* as long as rows that are in use stay so and keep their domains; it relies on
\* what its own job says.
LEMMA RequestsKept ==
    ASSUME LifecycleTypeOK, RequestsChecked, NEW o \in Ops, NEW l \in Steps, NEW j \in Job,
           OpGoto(o, l), Keep(o, j), verified \subseteq verified',
           \A k \in Ids : tunnels[k].state # "free" =>
                            /\ tunnels'[k].state # "free"
                            /\ tunnels'[k].domain = tunnels[k].domain,
           l = "insert" => InsertAllowed(j.row),
           l \notin {"idle", "insert"} =>
              /\ tunnels'[j.id].state # "free"
              /\ j.row.domain = tunnels'[j.id].domain,
           l = "update" /\ j.enable = "on" => j.id \in verified'
    PROVE  pc' \in [Ops -> Steps] /\ job' \in [Ops -> Job] /\ RequestsChecked'
<1>1. pc' \in [Ops -> Steps] /\ job' \in [Ops -> Job]
  BY DEF OpGoto, Keep, LifecycleTypeOK
<1>2. \A q \in Ops \ {o} : pc'[q] = pc[q] /\ job'[q] = job[q]
  BY DEF OpGoto, Keep, LifecycleTypeOK
<1>3. pc'[o] = l /\ job'[o] = j
  BY DEF OpGoto, Keep, LifecycleTypeOK
<1>4. \A q \in Ops : job[q].id \in Ids
  BY DEF LifecycleTypeOK, Job
<1>5. ASSUME NEW q \in Ops
      PROVE  /\ pc'[q] = "insert" => InsertAllowed(job'[q].row)
             /\ pc'[q] \notin {"idle", "insert"} =>
                   /\ tunnels'[job'[q].id].state # "free"
                   /\ job'[q].row.domain = tunnels'[job'[q].id].domain
             /\ pc'[q] = "update" /\ job'[q].enable = "on" =>
                   job'[q].id \in verified'
  <2>1. CASE q = o
    BY <1>3, <2>1
  <2>2. CASE q # o
    <3>1. /\ pc[q] = "insert" => InsertAllowed(job[q].row)
          /\ pc[q] \notin {"idle", "insert"} =>
                /\ tunnels[job[q].id].state # "free"
                /\ job[q].row.domain = tunnels[job[q].id].domain
          /\ pc[q] = "update" /\ job[q].enable = "on" => job[q].id \in verified
      BY Zenon DEF RequestsChecked
    <3>2. pc'[q] = pc[q] /\ job'[q] = job[q]
      BY <1>2, <2>2
    <3> QED
      BY <1>4, <3>1, <3>2
  <2> QED
    BY <2>1, <2>2
<1>6. RequestsChecked'
  BY <1>5, Zenon DEF RequestsChecked
<1> QED
  BY <1>1, <1>6

\* A request that reads and checks, calls Caddy or returns: the table stays.
LEMMA ReadOnlyInv ==
    ASSUME LifecycleInv, UNCHANGED tunnels, verified \subseteq verified',
           verified' \in SUBSET Ids, LifecycleTypeOK', RequestsChecked'
    PROVE  LifecycleInv'
  BY DEF LifecycleInv, VerifiedOnce, AutoIsOwn, DomainsDistinct, Live

LEMMA CreateInv ==
    ASSUME LifecycleInv, NEW o \in Ops, NEW u \in Users,
           NEW d \in Domains, NEW p \in Ports, CreateTunnel(o, u, d, p)
    PROVE  LifecycleInv'
<1> DEFINE Row(x) == [state |-> "live", user |-> u, domain |-> d, port |-> p,
                      enabled |-> x, pending |-> ~x, online |-> FALSE]
           J(x) == Task(NoJob.id, Row(x), "keep", "keep", FALSE)
<1>1. PICK points \in BOOLEAN : Keep(o, J(points))
  BY DEF CreateTunnel
<1>2. d \in AutoDomains => d = AutoOf[u]
  BY Zenon DEF CreateTunnel, AutoAllowed
<1>3. /\ Row(points) \in Tunnel /\ NoJob.id \in Ids
      /\ InsertAllowed(Row(points))
  BY <1>2, Defaults DEF Tunnel, Job, InsertAllowed
<1>4. J(points) \in Job /\ J(points).row = Row(points)
  <2> HIDE DEF Row
  <2> QED
    BY <1>3 DEF Task, Job
<1>5. OpGoto(o, "insert") /\ UNCHANGED <<tunnels, routes, verified, failed>>
  BY DEF CreateTunnel
<1> HIDE DEF J, Row
<1>6. LifecycleTypeOK /\ RequestsChecked
  BY DEF LifecycleInv
<1>7. pc' \in [Ops -> Steps] /\ job' \in [Ops -> Job] /\ RequestsChecked'
  BY <1>1, <1>3, <1>4, <1>5, <1>6, RequestsKept DEF Steps
<1>8. LifecycleTypeOK'
  BY <1>5, <1>6, <1>7 DEF LifecycleTypeOK
<1> QED
  BY <1>5, <1>6, <1>7, <1>8, ReadOnlyInv DEF LifecycleTypeOK

\* The requests that read a tunnel: an update, a change of the client's address
\* and a deletion.
LEMMA ReadInv ==
    ASSUME LifecycleInv, NEW o \in Ops, NEW i \in Live,
           NEW e \in {"keep", "on", "off"}, NEW p \in Ports \cup {"keep"},
           NEW online \in BOOLEAN,
           NEW l \in {"update", "clientIP", "deleteRoute", "delete"},
           OpGoto(o, l), Keep(o, Task(i, tunnels[i], e, p, online)),
           verified' = IF Enables(tunnels[i], e) THEN verified \cup {i} ELSE verified,
           UNCHANGED <<tunnels, routes, failed>>
    PROVE  LifecycleInv'
<1> DEFINE j == Task(i, tunnels[i], e, p, online)
<1>1. LifecycleTypeOK /\ RequestsChecked /\ i \in Ids /\ tunnels[i] \in Tunnel
  BY DEF LifecycleInv, LifecycleTypeOK, Live
<1>2. j \in Job /\ j.id = i /\ j.row = tunnels[i] /\ j.enable = e
  BY <1>1, TaskTyped
<1>3. e = "on" => i \in verified'
  BY <1>1 DEF LifecycleInv, VerifiedOnce, Live, Enables
<1>4. tunnels[i].state # "free"
  BY DEF Live
<1>5. Keep(o, j) /\ l \in Steps /\ l # "insert"
  BY DEF Steps
<1>6. verified \subseteq verified' /\ verified' \in SUBSET Ids
  BY <1>1 DEF LifecycleTypeOK
<1> HIDE DEF j
<1>7. pc' \in [Ops -> Steps] /\ job' \in [Ops -> Job] /\ RequestsChecked'
  BY <1>1, <1>2, <1>3, <1>4, <1>5, <1>6, RequestsKept
<1>8. LifecycleTypeOK'
  BY <1>1, <1>6, <1>7 DEF LifecycleTypeOK
<1> QED
  BY <1>6, <1>7, <1>8, ReadOnlyInv

\* The last step of an operation, which calls Caddy; and a failed write.
LEMMA LastStepInv ==
    ASSUME LifecycleInv, NEW o \in Ops, Return(o),
           UNCHANGED <<tunnels, verified>>,
           routes' \in [Domains -> 0..MaxRoutes], failed' \in BOOLEAN
    PROVE  LifecycleInv'
<1>1. LifecycleTypeOK /\ RequestsChecked
  BY DEF LifecycleInv
<1>2. pc' \in [Ops -> Steps] /\ job' \in [Ops -> Job] /\ RequestsChecked'
  BY <1>1, Defaults, RequestsKept DEF Return, Steps
<1>3. LifecycleTypeOK'
  BY <1>1, <1>2 DEF LifecycleTypeOK
<1> QED
  BY <1>1, <1>2, <1>3, ReadOnlyInv DEF LifecycleTypeOK

LEMMA InsertInv ==
    ASSUME LifecycleInv, NEW o \in Ops, NEW i \in Ids, Insert(o, i)
    PROVE  LifecycleInv'
<1> DEFINE t == [job[o].row EXCEPT !.pending = FALSE]
<1>1. LifecycleTypeOK /\ RequestsChecked /\ NoJob \in Job
  BY Defaults DEF LifecycleInv
<1>2. job[o] \in Job /\ job[o].row \in Tunnel
  BY <1>1 DEF LifecycleTypeOK, Job
<1>3. InsertAllowed(job[o].row)
  BY <1>1, Zenon DEF Insert, RequestsChecked
<1>4. /\ t \in Tunnel /\ t.state = "live"
      /\ t.domain = job[o].row.domain /\ t.enabled = job[o].row.enabled
      /\ t.domain \in AutoDomains => t.domain = AutoOf[t.user]
  BY <1>2, <1>3 DEF InsertAllowed, Tunnel
<1>5. /\ tunnels[i].state = "free"
      /\ tunnels' = [tunnels EXCEPT ![i] = t]
      /\ \A k \in Live : tunnels[k].domain # t.domain
      /\ verified' = IF t.enabled THEN verified \cup {i} ELSE verified
      /\ OpGoto(o, "idle") /\ Keep(o, NoJob)
      /\ UNCHANGED <<routes, failed>>
  BY <1>4 DEF Insert, Return
<1> HIDE DEF t
<1>6. /\ tunnels' \in [Ids -> Tunnel] /\ tunnels'[i] = t
      /\ \A k \in Ids \ {i} : tunnels'[k] = tunnels[k]
  BY <1>1, <1>4, <1>5 DEF LifecycleTypeOK
<1>7. verified \subseteq verified' /\ verified' \in SUBSET Ids
  BY <1>1, <1>5 DEF LifecycleTypeOK
<1>8. pc' \in [Ops -> Steps] /\ job' \in [Ops -> Job] /\ RequestsChecked'
  BY <1>1, <1>5, <1>6, <1>7, RequestsKept DEF Steps
<1>9. LifecycleTypeOK'
  BY <1>1, <1>5, <1>6, <1>7, <1>8 DEF LifecycleTypeOK
<1>10. VerifiedOnce'
  BY <1>5, <1>6 DEF LifecycleInv, VerifiedOnce
<1>11. Live' = Live \cup {i}
  BY <1>4, <1>6 DEF Live
<1>12. AutoIsOwn' /\ DomainsDistinct'
  BY <1>4, <1>5, <1>6, <1>11 DEF LifecycleInv, AutoIsOwn, DomainsDistinct, Live
<1> QED
  BY <1>8, <1>9, <1>10, <1>12 DEF LifecycleInv

\* The writes of a row that exists: it keeps its domain and its owner, does not
\* come to life, and is enabled only if it was verified.
LEMMA WriteInv ==
    ASSUME LifecycleInv, NEW o \in Ops, NEW i \in Ids, NEW t \in Tunnel,
           NEW l \in {"idle", "updateRoute", "clientIPRoute"}, NEW j \in Job,
           tunnels[i].state = "live", tunnels' = [tunnels EXCEPT ![i] = t],
           t.state # "free", t.domain = tunnels[i].domain,
           t.user = tunnels[i].user, t.enabled => i \in verified,
           l # "idle" => j.id = i /\ j.row.domain = tunnels[i].domain,
           OpGoto(o, l), Keep(o, j), UNCHANGED <<routes, verified, failed>>
    PROVE  LifecycleInv'
<1>1. LifecycleTypeOK /\ RequestsChecked
  BY DEF LifecycleInv
<1>2. /\ tunnels' \in [Ids -> Tunnel] /\ tunnels'[i] = t
      /\ \A k \in Ids \ {i} : tunnels'[k] = tunnels[k]
  BY <1>1 DEF LifecycleTypeOK
<1>3. pc' \in [Ops -> Steps] /\ job' \in [Ops -> Job] /\ RequestsChecked'
  BY <1>1, <1>2, RequestsKept DEF Steps
<1>4. LifecycleTypeOK'
  BY <1>1, <1>2, <1>3 DEF LifecycleTypeOK
<1>5. VerifiedOnce'
  BY <1>2 DEF LifecycleInv, VerifiedOnce
<1>6. /\ Live' \subseteq Live
      /\ \A k \in Live : /\ tunnels'[k].domain = tunnels[k].domain
                          /\ tunnels'[k].user = tunnels[k].user
  BY <1>2 DEF Live
<1>7. AutoIsOwn' /\ DomainsDistinct'
  BY <1>6 DEF LifecycleInv, AutoIsOwn, DomainsDistinct
<1> QED
  BY <1>3, <1>4, <1>5, <1>7 DEF LifecycleInv

LEMMA UpdateInv ==
    ASSUME LifecycleInv, NEW o \in Ops, Update(o)
    PROVE  LifecycleInv'
<1> DEFINE i == job[o].id
           enabled == IF job[o].enable = "keep" THEN tunnels[i].enabled
                        ELSE job[o].enable = "on"
           t == [tunnels[i] EXCEPT
                   !.enabled = IF job[o].enable = "keep" THEN @
                                 ELSE job[o].enable = "on",
                   !.port = IF job[o].port = "keep" THEN @ ELSE job[o].port,
                   !.pending = @ /\ ~Enables(job[o].row, job[o].enable)]
           on == IF t.enabled THEN "on" ELSE "off"
           j == Task(i, job[o].row, on, job[o].port, FALSE)
<1>1. LifecycleTypeOK /\ RequestsChecked /\ VerifiedOnce
  BY DEF LifecycleInv
<1>2. /\ i \in Ids /\ job[o].row \in Tunnel /\ job[o].port \in Ports \cup {"keep"}
      /\ job[o].enable \in {"keep", "on", "off"} /\ tunnels[i] \in Tunnel
  BY <1>1 DEF LifecycleTypeOK, Job
<1>3. /\ pc[o] = "update" /\ tunnels[i].state = "live"
      /\ tunnels' = [tunnels EXCEPT ![i] = t]
      /\ \/ OpGoto(o, "updateRoute") /\ Keep(o, j)
         \/ OpGoto(o, "idle") /\ Keep(o, NoJob)
      /\ UNCHANGED <<routes, verified, failed>>
  BY Zenon DEF Update, Return
<1>4. /\ job[o].row.domain = tunnels[i].domain
      /\ job[o].enable = "on" => i \in verified
  BY <1>1, <1>3 DEF RequestsChecked
<1>5. (tunnels[i].pending /\ ~Enables(job[o].row, job[o].enable)) \in BOOLEAN
  OBVIOUS
<1>6. enabled \in BOOLEAN
  BY <1>2 DEF Tunnel
<1>7. /\ t \in Tunnel /\ t.state = "live" /\ t.enabled = enabled
      /\ t.domain = tunnels[i].domain /\ t.user = tunnels[i].user
  <2>1. PICK n, w : /\ n = (IF job[o].port = "keep" THEN tunnels[i].port ELSE job[o].port)
                    /\ w = (tunnels[i].pending /\ ~Enables(job[o].row, job[o].enable))
    OBVIOUS
  <2>2. n \in Ports /\ w \in BOOLEAN
    BY <1>2, <1>5, <2>1 DEF Tunnel
  <2>3. PICK a : a = [tunnels[i] EXCEPT !.enabled = enabled]
    OBVIOUS
  <2>4. PICK b : b = [a EXCEPT !.port = n]
    OBVIOUS
  <2>5. t = [b EXCEPT !.pending = w]
    BY <1>2, <2>1, <2>3, <2>4 DEF Tunnel
  <2> HIDE DEF t, enabled
  <2>6. /\ a \in Tunnel /\ a.enabled = enabled /\ a.state = tunnels[i].state
        /\ a.domain = tunnels[i].domain /\ a.user = tunnels[i].user
    BY <1>2, <1>6, <2>3 DEF Tunnel
  <2>7. /\ b \in Tunnel /\ b.enabled = enabled /\ b.state = tunnels[i].state
        /\ b.domain = tunnels[i].domain /\ b.user = tunnels[i].user
    BY <2>2, <2>4, <2>6 DEF Tunnel
  <2>8. QED
    BY <1>3, <2>2, <2>5, <2>7 DEF Tunnel
<1>8. enabled => i \in verified
  BY <1>1, <1>2, <1>3, <1>4 DEF VerifiedOnce
<1>9. on \in {"keep", "on", "off"}
  OBVIOUS
<1> HIDE DEF t, on, enabled
<1>10. j \in Job /\ j.id = i /\ j.row = job[o].row
  BY <1>2, <1>9 DEF Task, Job
<1> HIDE DEF j, i
<1>11. CASE OpGoto(o, "updateRoute") /\ Keep(o, j)
  BY <1>2, <1>3, <1>4, <1>7, <1>8, <1>10, <1>11, WriteInv
<1>12. CASE OpGoto(o, "idle") /\ Keep(o, NoJob)
  BY <1>2, <1>3, <1>7, <1>8, <1>12, Defaults, WriteInv
<1> QED
  BY <1>3, <1>11, <1>12

LEMMA WriteClientIPInv ==
    ASSUME LifecycleInv, NEW o \in Ops, WriteClientIP(o)
    PROVE  LifecycleInv'
<1> DEFINE i == job[o].id
           t == [tunnels[i] EXCEPT !.online = job[o].online]
<1>1. LifecycleTypeOK /\ RequestsChecked /\ VerifiedOnce
  BY DEF LifecycleInv
<1>2. /\ i \in Ids /\ tunnels[i] \in Tunnel /\ job[o] \in Job
      /\ job[o].online \in BOOLEAN
  BY <1>1 DEF LifecycleTypeOK, Job
<1>3. /\ pc[o] = "clientIP" /\ tunnels[i].state = "live"
      /\ tunnels' = [tunnels EXCEPT ![i] = t]
      /\ OpGoto(o, "clientIPRoute") /\ job' = job
      /\ UNCHANGED <<routes, verified, failed>>
  BY DEF WriteClientIP
<1>4. Keep(o, job[o])
  BY <1>1, <1>3 DEF Keep, LifecycleTypeOK
<1>5. job[o].row.domain = tunnels[i].domain
  BY <1>1, <1>3 DEF RequestsChecked
<1>6. /\ t \in Tunnel /\ t.state = "live" /\ t.enabled = tunnels[i].enabled
      /\ t.domain = tunnels[i].domain /\ t.user = tunnels[i].user
  BY <1>2, <1>3 DEF Tunnel
<1>7. t.enabled => i \in verified
  BY <1>1, <1>2, <1>3, <1>6 DEF VerifiedOnce
<1> HIDE DEF t
<1> QED
  BY <1>2, <1>3, <1>4, <1>5, <1>6, <1>7, WriteInv

LEMMA DeleteInv ==
    ASSUME LifecycleInv, NEW o \in Ops, Delete(o)
    PROVE  LifecycleInv'
<1> DEFINE i == job[o].id
           t == [tunnels[i] EXCEPT !.state = "deleted"]
<1>1. LifecycleTypeOK /\ VerifiedOnce
  BY DEF LifecycleInv
<1>2. i \in Ids /\ tunnels[i] \in Tunnel
  BY <1>1 DEF LifecycleTypeOK, Job
<1>3. /\ tunnels[i].state = "live"
      /\ tunnels' = [tunnels EXCEPT ![i] = t]
      /\ OpGoto(o, "idle") /\ Keep(o, NoJob)
      /\ UNCHANGED <<routes, verified, failed>>
  BY DEF Delete, Return
<1>4. /\ t \in Tunnel /\ t.state = "deleted" /\ t.enabled = tunnels[i].enabled
      /\ t.domain = tunnels[i].domain /\ t.user = tunnels[i].user
  BY <1>2 DEF Tunnel
<1>5. t.enabled => i \in verified
  BY <1>1, <1>2, <1>3, <1>4 DEF VerifiedOnce
<1> HIDE DEF t
<1> QED
  BY <1>2, <1>3, <1>4, <1>5, Defaults, WriteInv

\* The calls of Caddy.  The one of a deletion is followed by the deletion.
LEMMA RouteInv ==
    ASSUME LifecycleInv, NEW o \in Ops,
           UpdateRoute(o) \/ ClientIPRoute(o) \/ DeleteRoute(o)
    PROVE  LifecycleInv'
<1>1. LifecycleTypeOK /\ RequestsChecked
  BY DEF LifecycleInv
<1> DEFINE d == job[o].row.domain
<1>2. d \in Domains
  BY <1>1 DEF LifecycleTypeOK, Job, Tunnel
<1>3. /\ ConfigureRoute(d) \/ RemoveRoute(d) \/ LeaveRoutes
      /\ UNCHANGED <<tunnels, verified>>
      /\ Return(o) \/ DeleteRoute(o)
  BY DEF UpdateRoute, ClientIPRoute, DeleteRoute
<1>4. routes' \in [Domains -> 0..MaxRoutes] /\ failed' \in BOOLEAN
  BY <1>1, <1>2, <1>3, RoutesTyped DEF LifecycleTypeOK
<1>5. CASE Return(o)
  BY <1>3, <1>4, <1>5, LastStepInv
<1>6. CASE DeleteRoute(o)
  <2>1. pc[o] = "deleteRoute" /\ OpGoto(o, "delete") /\ job' = job
    BY <1>6 DEF DeleteRoute
  <2>2. job[o] \in Job /\ Keep(o, job[o])
    BY <1>1, <2>1 DEF Keep, LifecycleTypeOK
  <2>3. /\ tunnels[job[o].id].state # "free"
        /\ job[o].row.domain = tunnels[job[o].id].domain
    BY <1>1, <2>1 DEF RequestsChecked
  <2>4. pc' \in [Ops -> Steps] /\ job' \in [Ops -> Job] /\ RequestsChecked'
    BY <1>1, <1>3, <2>1, <2>2, <2>3, RequestsKept DEF Steps
  <2>5. LifecycleTypeOK'
    BY <1>1, <1>3, <1>4, <2>4 DEF LifecycleTypeOK
  <2> QED
    BY <1>1, <1>3, <2>4, <2>5, ReadOnlyInv DEF LifecycleTypeOK
<1> QED
  BY <1>3, <1>5, <1>6

\* Every step of every request keeps the invariant.
LEMMA StepInv ==
    ASSUME LifecycleInv, [LifecycleNext]_lifecycleVars
    PROVE  LifecycleInv'
<1>0. CASE UNCHANGED lifecycleVars
  BY <1>0 DEF lifecycleVars, LifecycleInv, LifecycleTypeOK, RequestsChecked, VerifiedOnce,
              AutoIsOwn, DomainsDistinct, Live
<1>1. ASSUME NEW o \in Ops, NEW i \in Ids, NEW e \in {"keep", "on", "off"},
             NEW p \in Ports \cup {"keep"}, UpdateTunnel(o, i, e, p)
      PROVE  LifecycleInv'
  BY <1>1, ReadInv DEF UpdateTunnel
<1>2. ASSUME NEW o \in Ops, NEW i \in Ids, NEW online \in BOOLEAN,
             UpdateClientIP(o, i, online)
      PROVE  LifecycleInv'
  BY <1>2, ReadInv DEF UpdateClientIP, Enables
<1>3. ASSUME NEW o \in Ops, NEW i \in Ids, DeleteTunnel(o, i)
      PROVE  LifecycleInv'
  BY <1>3, ReadInv DEF DeleteTunnel, Enables
<1>4. ASSUME NEW o \in Ops, DatabaseFails(o)
      PROVE  LifecycleInv'
  BY <1>4, LastStepInv DEF DatabaseFails, LifecycleInv, LifecycleTypeOK
<1> QED
  BY <1>0, <1>1, <1>2, <1>3, <1>4, CreateInv, InsertInv, UpdateInv,
     WriteClientIPInv, DeleteInv, RouteInv DEF LifecycleNext

\* LifecycleInv holds in every reachable state: it is inductive.
THEOREM LifecycleInductive == LifecycleSpec => []LifecycleInv
<1>1. LifecycleInit => LifecycleInv
  BY InitInv
<1>2. LifecycleInv /\ [LifecycleNext]_lifecycleVars => LifecycleInv'
  BY StepInv
<1> QED
  BY <1>1, <1>2, PTL DEF LifecycleSpec

\* However requests overlap, a tunnel with a custom domain is enabled only after
\* its DNS was verified.
THEOREM NeverUnverified == LifecycleSpec => []EnabledWasVerified
<1>1. LifecycleInv => EnabledWasVerified
  BY DEF LifecycleInv, VerifiedOnce, EnabledWasVerified, Live
<1> QED
  BY <1>1, LifecycleInductive, PTL

\* Nor can a user get two tunnels with automatic domains by overlapping requests.
THEOREM OneAutomatic == LifecycleSpec => []OneAutoPerUser
<1>1. LifecycleInv => OneAutoPerUser
  BY DEF LifecycleInv, AutoIsOwn, DomainsDistinct, OneAutoPerUser, Live
<1> QED
  BY <1>1, LifecycleInductive, PTL
=============================================================================
