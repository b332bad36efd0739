------------------------- MODULE TunnelEstablishment -------------------------
(***************************************************************************)
(* How the hybrid router obtains a TCP tunnel for the WebSocket upgrades   *)
(* of one domain (waitForTCPTunnelEstablishment): upgrades that find no    *)
(* tunnel line up in pendingConnections, the first of them has the client  *)
(* asked to open a tunnel, and the arrival of a tunnel wakes all of them.  *)
(*                                                                         *)
(* pendingConnections and establishmentInProgress are protected by two     *)
(* different locks, so an upgrade and a callback each work on them in two  *)
(* steps.  Both maps are keyed by the domain and nothing crosses domains.  *)
(***************************************************************************)
EXTENDS Naturals, FiniteSets

CONSTANTS
    Waiters,    \* WebSocket upgrade requests
    Tunnels,    \* TCP connections the client opens
    MaxWS,      \* MaxWebSocketTunnelsPerDomain (25 in the code)
    MaxAsked    \* bound: requests to open a tunnel the client has at a time

None == "none"

ASSUME BoundsAssumption == MaxWS \in Nat \ {0} /\ MaxAsked \in Nat

VARIABLES
    wpc,        \* where an upgrade is
    pending,    \* upgrades in pendingConnections
    notified,   \* upgrades whose DoneChan holds a value
    inProgress, \* establishmentInProgress
    older,      \* upgrades that were past joining when it was last set
    rpc,        \* the goroutine requestTCPTunnelEstablishment of an upgrade
    tpc,        \* the callback of a TCP tunnel's arrival
    pool,       \* tunnels in the WebSocket pool
    rejected,   \* tunnels AddConnection refused and closed
    asked,      \* requests to open a tunnel that the client has
    unsent,     \* a request could not be sent
    refused     \* the client reported that it could not open a tunnel

routerVars == <<wpc, pending, notified, inProgress, older>>
callVars == <<rpc, tpc>>
clientVars == <<pool, rejected, asked, unsent, refused>>
vars == <<routerVars, callVars, clientVars>>

TypeOK ==
    /\ wpc \in [Waiters -> {"idle", "need", "listed", "waiting", "woken",
                            "expired", "done"}]
    /\ pending \in SUBSET Waiters
    /\ notified \in SUBSET Waiters
    /\ inProgress \in BOOLEAN
    /\ older \in SUBSET Waiters
    /\ rpc \in [Waiters -> {None, "check", "send", "clear", "wake", "gone"}]
    /\ tpc \in [Tunnels -> {None, "clear", "wake", "gone"}]
    /\ pool \in SUBSET Tunnels
    /\ rejected \in SUBSET Tunnels
    /\ asked \in Nat
    /\ unsent \in BOOLEAN
    /\ refused \in BOOLEAN

Init ==
    /\ wpc = [w \in Waiters |-> "idle"]
    /\ pending = {}
    /\ notified = {}
    /\ inProgress = FALSE
    /\ older = {}
    /\ rpc = [w \in Waiters |-> None]
    /\ tpc = [t \in Tunnels |-> None]
    /\ pool = {}
    /\ rejected = {}
    /\ asked = 0
    /\ unsent = FALSE
    /\ refused = FALSE

-----------------------------------------------------------------------------
(* routeToTCPTunnel and waitForTCPTunnelEstablishment.                     *)

Goto(w, l) == wpc' = [wpc EXCEPT ![w] = l]

\* HasWebSocketConnection is true: no need to wait.
FindTunnel(w) ==
    /\ wpc[w] = "idle"
    /\ pool # {}
    /\ Goto(w, "done")
    /\ UNCHANGED <<pending, notified, inProgress, older, callVars,
                   clientVars>>

\* No WebSocket tunnel: the upgrade is turned away when the gRPC tunnel is
\* offline, or has to wait.
FindNoTunnel(w) ==
    /\ wpc[w] = "idle"
    /\ pool = {}
    /\ Goto(w, "need") \/ Goto(w, "done")
    /\ UNCHANGED <<pending, notified, inProgress, older, callVars,
                   clientVars>>

\* Join pendingConnections.
AddPending(w) ==
    /\ wpc[w] = "need"
    /\ pending' = pending \cup {w}
    /\ Goto(w, "listed")
    /\ UNCHANGED <<notified, inProgress, older, callVars, clientVars>>

\* Nobody has asked: set the flag and start the goroutine that asks the client.
Initiate(w) ==
    /\ wpc[w] = "listed"
    /\ ~inProgress
    /\ inProgress' = TRUE
    /\ older' = {v \in Waiters : wpc[v] \notin {"idle", "need", "listed"}}
    /\ rpc' = [rpc EXCEPT ![w] = "check"]
    /\ Goto(w, "waiting")
    /\ UNCHANGED <<pending, notified, tpc, clientVars>>

\* An establishment is in progress: join it.
JoinExisting(w) ==
    /\ wpc[w] = "listed"
    /\ inProgress
    /\ Goto(w, "waiting")
    /\ UNCHANGED <<pending, notified, inProgress, older, callVars,
                   clientVars>>

\* DoneChan has a value.
Woken(w) ==
    /\ wpc[w] = "waiting"
    /\ w \in notified
    /\ notified' = notified \ {w}
    /\ Goto(w, "woken")
    /\ UNCHANGED <<pending, inProgress, older, callVars, clientVars>>

\* The timer fires: clear the flag, whose ever it is.
Timeout(w) ==
    /\ wpc[w] = "waiting"
    /\ inProgress' = FALSE
    /\ Goto(w, "expired")
    /\ UNCHANGED <<pending, notified, older, callVars, clientVars>>

\* removePendingConnection.
RemovePending(w) ==
    /\ wpc[w] \in {"woken", "expired"}
    /\ pending' = pending \ {w}
    /\ Goto(w, "done")
    /\ UNCHANGED <<notified, inProgress, older, callVars, clientVars>>

-----------------------------------------------------------------------------
(* requestTCPTunnelEstablishment.                                          *)

\* Mutant: a request that finds a tunnel returns without waking anybody.
CheckExistingSilently(w) ==
    /\ rpc[w] = "check"
    /\ rpc' = [rpc EXCEPT ![w] = IF pool # {} THEN "gone" ELSE "send"]
    /\ UNCHANGED <<routerVars, tpc, clientVars>>

\* A tunnel already exists: OnTCPTunnelEstablished.  Otherwise ask for one.
CheckExisting(w) ==
    /\ rpc[w] = "check"
    /\ rpc' = [rpc EXCEPT ![w] = IF pool # {} THEN "clear" ELSE "send"]
    /\ UNCHANGED <<routerVars, tpc, clientVars>>

\* The request goes out on the gRPC tunnel.
SendRequest(w) ==
    /\ rpc[w] = "send"
    /\ asked < MaxAsked
    /\ asked' = asked + 1
    /\ rpc' = [rpc EXCEPT ![w] = "gone"]
    /\ UNCHANGED <<routerVars, tpc, pool, rejected, unsent, refused>>

\* No gRPC tunnel, or the send fails: only logged.
SendFails(w) ==
    /\ rpc[w] = "send"
    /\ unsent' = TRUE
    /\ rpc' = [rpc EXCEPT ![w] = "gone"]
    /\ UNCHANGED <<routerVars, tpc, pool, rejected, asked, refused>>

\* proxyWebSocketConnectionInternal found the pool empty and asks for a tunnel,
\* without going through the flag.
AskForAnother ==
    /\ pool = {}
    /\ asked < MaxAsked
    /\ asked' = asked + 1
    /\ UNCHANGED <<routerVars, callVars, pool, rejected, unsent, refused>>

-----------------------------------------------------------------------------
(* The client, and the pool as its tunnels come and go.                    *)

\* The client opens a tunnel; handleConnection adds it to the pool, or has it
\* closed by AddConnection at the limit, and calls back either way.
TunnelArrives(t) ==
    /\ asked > 0
    /\ tpc[t] = None
    /\ asked' = asked - 1
    /\ IF Cardinality(pool) < MaxWS
       THEN pool' = pool \cup {t} /\ UNCHANGED rejected
       ELSE rejected' = rejected \cup {t} /\ UNCHANGED pool
    /\ tpc' = [tpc EXCEPT ![t] = "clear"]
    /\ UNCHANGED <<routerVars, rpc, unsent, refused>>

\* The client cannot open a tunnel and sends an error message, which
\* handleErrorMessage only logs: it belongs to no pending request.
ClientRefuses ==
    /\ asked > 0
    /\ asked' = asked - 1
    /\ refused' = TRUE
    /\ UNCHANGED <<routerVars, callVars, pool, rejected, unsent>>

\* An upgrade takes a tunnel out of the pool, or removes a dead one.
TakeTunnel(t) ==
    /\ t \in pool
    /\ pool' = pool \ {t}
    /\ UNCHANGED <<routerVars, callVars, rejected, asked, unsent, refused>>

-----------------------------------------------------------------------------
(* OnTCPTunnelEstablished, called by a request goroutine or by the handler *)
(* of a tunnel's connection.                                               *)

\* "Clear the in-progress flag first".
ClearInProgress == inProgress' = FALSE

\* Mutant: only one of the pending upgrades is woken.
WakeOne ==
    \/ pending = {} /\ UNCHANGED notified
    \/ \E w \in pending : notified' = notified \cup {w}

\* Wake up all pending connections; a full DoneChan is skipped.
WakePending == notified' = notified \cup pending

RequestClears(w) ==
    /\ rpc[w] = "clear"
    /\ ClearInProgress
    /\ rpc' = [rpc EXCEPT ![w] = "wake"]
    /\ UNCHANGED <<wpc, pending, notified, older, tpc, clientVars>>

RequestWakes(w) ==
    /\ rpc[w] = "wake"
    /\ WakePending
    /\ rpc' = [rpc EXCEPT ![w] = "gone"]
    /\ UNCHANGED <<wpc, pending, inProgress, older, tpc, clientVars>>

TunnelClears(t) ==
    /\ tpc[t] = "clear"
    /\ ClearInProgress
    /\ tpc' = [tpc EXCEPT ![t] = "wake"]
    /\ UNCHANGED <<wpc, pending, notified, older, rpc, clientVars>>

TunnelWakes(t) ==
    /\ tpc[t] = "wake"
    /\ WakePending
    /\ tpc' = [tpc EXCEPT ![t] = "gone"]
    /\ UNCHANGED <<wpc, pending, inProgress, older, rpc, clientVars>>

-----------------------------------------------------------------------------
Upgrade(w) ==
    \/ FindTunnel(w) \/ FindNoTunnel(w) \/ AddPending(w) \/ Initiate(w)
    \/ JoinExisting(w) \/ Woken(w) \/ Timeout(w) \/ RemovePending(w)

Request(w) ==
    \/ CheckExisting(w) \/ SendRequest(w) \/ SendFails(w)
    \/ RequestClears(w) \/ RequestWakes(w)

Callback(t) == TunnelClears(t) \/ TunnelWakes(t)

Client ==
    \/ AskForAnother \/ ClientRefuses
    \/ \E t \in Tunnels : TunnelArrives(t) \/ TakeTunnel(t)

Next ==
    \/ \E w \in Waiters : Upgrade(w) \/ Request(w)
    \/ \E t \in Tunnels : Callback(t)
    \/ Client

Spec == Init /\ [][Next]_vars

\* Only the callbacks are sure to go on: the two locks they take are never held
\* across a call.  A request goroutine may stay for ever in HasWebSocketConnection,
\* and an arriving tunnel in AddConnection, when the connection manager is
\* deadlocked (ConnectionManager!RemovalReturns); Send has no deadline; and the
\* client need not answer.  The waiting upgrades' timer is left out on purpose:
\* nobody depends on it to be woken.
Fairness ==
    /\ \A w \in Waiters : WF_vars(RequestClears(w) \/ RequestWakes(w))
    /\ \A t \in Tunnels : WF_vars(Callback(t))

FairSpec == Spec /\ Fairness

-----------------------------------------------------------------------------
(* Properties.                                                             *)

\* Somebody works on an establishment and has yet to clear the flag, or at least
\* to wake the pending connections.
Clearing ==
    \/ asked > 0
    \/ \E w \in Waiters : rpc[w] \in {"check", "send", "clear"}
    \/ \E t \in Tunnels : tpc[t] = "clear"

Waking ==
    \/ Clearing
    \/ \E w \in Waiters : rpc[w] = "wake"
    \/ \E t \in Tunnels : tpc[t] = "wake"

Asleep(w) == wpc[w] = "waiting" /\ w \notin notified

Failed == unsent \/ refused

\* No upgrade sleeps through the establishment it joined: while it waits, either
\* its DoneChan is filled or somebody will still walk pendingConnections, unless
\* a request failed.  Upgrades may join, time out and clear the flag, and tunnels
\* arrive and be taken, between any two steps of the others.
NoLostWakeup == \A w \in Waiters : Asleep(w) => Waking \/ Failed

\* The flag is never left set with nobody to clear it but a timeout, unless a
\* request failed.
FlagIsTended == inProgress => Clearing \/ Failed

\* The strengthening of the two: an upgrade is in pendingConnections from when
\* it joins until it has returned.
ListedUntilDone ==
    \A w \in Waiters :
        w \in pending <=> wpc[w] \in {"listed", "waiting", "woken", "expired"}

EstablishmentInv ==
    /\ TypeOK
    /\ ListedUntilDone
    /\ FlagIsTended
    /\ NoLostWakeup

\* A request for a tunnel is in the connection manager, in Send, or with the client,
\* none of which has a deadline on the server.
Outstanding == asked > 0 \/ \E w \in Waiters : rpc[w] \in {"check", "send"}

\* A tunnel that has arrived wakes every upgrade asleep, without the help of their
\* timers, although others join, time out and clear the flag between the two steps of
\* the callback; and no upgrade sleeps on for ever unless a request failed or one is
\* outstanding again and again.
WaitersAreWoken ==
    \A w \in Waiters :
        /\ \A t \in Tunnels : (tpc[t] = "clear" /\ Asleep(w)) ~> ~Asleep(w)
        /\ []<>(~Asleep(w) \/ Failed \/ Outstanding)

\* "it will be cleared when: 1. OnTCPTunnelEstablished is called (success), OR
\* 2. This request times out (failure)": while an upgrade that set the flag sleeps
\* and nobody is waking it, the flag is set.  All timers run for the same time, so
\* only timeouts of older upgrades are held against it.
InitiatorKeepsFlag ==
    \A w \in Waiters :
        (/\ Asleep(w) /\ rpc[w] # None
         /\ \A v \in Waiters \ {w} :
               v \in older \/ wpc[v] \in {"idle", "need", "listed"}
         /\ \A v \in Waiters : rpc[v] # "wake"
         /\ \A t \in Tunnels : tpc[t] # "wake") => inProgress

\* "Clean up in-progress flag on failure": when the client has reported the
\* failure of the only establishment, the flag is not set.
FailureClearsFlag == (inProgress /\ ~unsent) => Clearing

\* "OnTCPTunnelEstablished will be called by TCP server callback when connection
\* is fully registered".
CallbackMeansRegistered == \A t \in Tunnels : tpc[t] = "clear" => t \notin rejected
=============================================================================
