-------------------------- MODULE ConnectionManager --------------------------
(***************************************************************************)
(* The pools of raw TCP tunnel connections (ConnectionManager), used by    *)
(* the goroutine of every accepted connection, which adds it to the pool   *)
(* of its domain, and by the goroutines that proxy a WebSocket upgrade:    *)
(* they take a connection out of the pool, own it for the session and      *)
(* close it.                                                               *)
(*                                                                         *)
(* Two levels of locks protect the pools: the manager's mu and the mu of   *)
(* each DomainConnections.  Where the code holds one while it waits for    *)
(* the other, the two are separate steps; who holds which lock follows     *)
(* from where the goroutines are.  A DomainConnections is named by the     *)
(* connection whose arrival created it.                                    *)
(***************************************************************************)
EXTENDS Naturals, FiniteSets

CONSTANTS
    Upgrades,   \* goroutines that proxy WebSocket upgrades, one after the other
    Conns,      \* TCP connections that clients open
    Domains,    \* tunnel domains
    MaxWS       \* MaxWebSocketTunnelsPerDomain (25 in the code)

None == "none"

ASSUME NoneIsNothing == None \notin Conns \cup Domains

ASSUME MaxWSAssumption == MaxWS \in Nat \ {0}

VARIABLES
    entry,      \* ConnectionManager.connections
    http,       \* DomainConnections.httpPool
    ws,         \* DomainConnections.wsPool
    arrived,    \* connections that were handed to AddConnection
    closed,     \* connections the server has closed
    adding,     \* the AddConnection that holds the manager's lock
    pc,         \* where the goroutine of an upgrade is
    dom,        \* the domain it serves
    held,       \* goroutines that hold the manager's lock for reading
    obj,        \* the DomainConnections it looked up
    conn,       \* the connection it was given
    dead,       \* it is removing a dead connection (RemoveDeadConnection)
    retrying    \* it is in its second attempt

poolVars == <<entry, http, ws, arrived, closed, adding>>
upgradeVars == <<pc, dom, held, obj, conn, dead, retrying>>
vars == <<poolVars, upgradeVars>>

NotAdding == [conn |-> None, dom |-> None, type |-> None]

\* States in which a pool is read, under both locks.
Reading == {"has", "size", "get", "getdead"}

PCs == Reading \cup {"idle", "wait", "take", "remove", "delete", "session"}

TypeOK ==
    /\ entry \in [Domains -> Conns \cup {None}]
    /\ http \in [Conns -> SUBSET Conns]
    /\ ws \in [Conns -> SUBSET Conns]
    /\ arrived \in SUBSET Conns
    /\ closed \in SUBSET Conns
    /\ \/ adding = NotAdding
       \/ adding \in [conn : Conns, dom : Domains, type : {"http", "ws"}]
    /\ pc \in [Upgrades -> PCs]
    /\ dom \in [Upgrades -> Domains \cup {None}]
    /\ held \in SUBSET Upgrades
    /\ obj \in [Upgrades -> Conns \cup {None}]
    /\ conn \in [Upgrades -> Conns \cup {None}]
    /\ dead \in [Upgrades -> BOOLEAN]
    /\ retrying \in [Upgrades -> BOOLEAN]

Init ==
    /\ entry = [d \in Domains |-> None]
    /\ http = [o \in Conns |-> {}]
    /\ ws = [o \in Conns |-> {}]
    /\ arrived = {}
    /\ closed = {}
    /\ adding = NotAdding
    /\ pc = [u \in Upgrades |-> "idle"]
    /\ dom = [u \in Upgrades |-> None]
    /\ held = {}
    /\ obj = [u \in Upgrades |-> None]
    /\ conn = [u \in Upgrades |-> None]
    /\ dead = [u \in Upgrades |-> FALSE]
    /\ retrying = [u \in Upgrades |-> FALSE]

-----------------------------------------------------------------------------
(* The locks.                                                              *)

\* The manager's lock can be taken for reading, and for writing.
ManagerReadable == adding = NotAdding
ManagerFree == adding = NotAdding /\ held = {}

\* The lock of a DomainConnections is held across a blocking step only by a
\* removal that found both pools empty and waits for the manager's lock.
DomainFree(o) == \A u \in Upgrades : ~(pc[u] = "delete" /\ obj[u] = o)

-----------------------------------------------------------------------------
(* AddConnection, called by handleConnection.                              *)

\* Lock the manager; get or create the domain's DomainConnections.
Arrive(c, d, t) ==
    /\ c \notin arrived
    /\ ManagerFree
    /\ arrived' = arrived \cup {c}
    /\ adding' = [conn |-> c, dom |-> d, type |-> t]
    /\ entry' = IF entry[d] = None THEN [entry EXCEPT ![d] = c] ELSE entry
    /\ UNCHANGED <<http, ws, closed, upgradeVars>>

\* Mutant: AddConnection relies on the manager's lock alone.
AddToPoolUnlocked ==
    /\ adding # NotAdding
    /\ adding' = NotAdding
    /\ LET c == adding.conn
           o == entry[adding.dom] IN
       /\ http' = IF adding.type = "http" THEN [http EXCEPT ![o] = @ \cup {c}]
                                          ELSE http
       /\ ws' = IF adding.type = "ws" THEN [ws EXCEPT ![o] = @ \cup {c}] ELSE ws
    /\ UNCHANGED <<entry, arrived, closed, upgradeVars>>

\* Lock the DomainConnections and add the connection to its pool, or close it
\* when the WebSocket pool is full; unlock both.
AddToPool ==
    /\ adding # NotAdding
    /\ DomainFree(entry[adding.dom])
    /\ adding' = NotAdding
    /\ LET c == adding.conn
           o == entry[adding.dom] IN
       \/ /\ adding.type = "http"
          /\ http' = [http EXCEPT ![o] = @ \cup {c}]
          /\ UNCHANGED <<ws, closed>>
       \/ /\ adding.type = "ws"
          /\ Cardinality(ws[o]) < MaxWS
          /\ ws' = [ws EXCEPT ![o] = @ \cup {c}]
          /\ UNCHANGED <<http, closed>>
       \/ /\ adding.type = "ws"
          /\ Cardinality(ws[o]) >= MaxWS
          /\ closed' = closed \cup {c}
          /\ UNCHANGED <<http, ws>>
    /\ UNCHANGED <<entry, arrived, upgradeVars>>

-----------------------------------------------------------------------------
(* Reading a WebSocket pool: HasWebSocketConnection, GetWebSocketPoolSize  *)
(* and GetWebSocketConnection lock the manager, then the domain.           *)

Goto(u, l) == pc' = [pc EXCEPT ![u] = l]

\* Lock the manager for reading; the domain has an entry.
ReadEntry(u) ==
    /\ pc[u] \in Reading
    /\ u \notin held
    /\ ManagerReadable
    /\ entry[dom[u]] # None
    /\ held' = held \cup {u}
    /\ obj' = [obj EXCEPT ![u] = entry[dom[u]]]
    /\ UNCHANGED <<poolVars, pc, dom, conn, dead, retrying>>

\* The pool that is read: none, if the domain has no entry.
PoolOf(u) == IF u \in held THEN ws[obj[u]] ELSE {}

\* The domain has no entry, or its lock was available; the locks are released.
Answered(u) ==
    /\ \/ u \notin held /\ ManagerReadable /\ entry[dom[u]] = None
       \/ u \in held /\ DomainFree(obj[u])
    /\ held' = held \ {u}

-----------------------------------------------------------------------------
(* routeToTCPTunnel and proxyWebSocketConnectionInternal.                  *)

\* A WebSocket upgrade request for domain d.
Upgrade(u, d) ==
    /\ pc[u] = "idle"
    /\ Goto(u, "has")
    /\ dom' = [dom EXCEPT ![u] = d]
    /\ retrying' = [retrying EXCEPT ![u] = FALSE]
    /\ UNCHANGED <<poolVars, held, obj, conn, dead>>

\* HasWebSocketConnection: go on, or have a tunnel established first.
HasWebSocketConnection(u) ==
    /\ pc[u] = "has"
    /\ Answered(u)
    /\ Goto(u, IF PoolOf(u) = {} THEN "wait" ELSE "size")
    /\ UNCHANGED <<poolVars, dom, obj, conn, dead, retrying>>

\* waitForTCPTunnelEstablishment reports success.
Established(u) ==
    /\ pc[u] = "wait"
    /\ Goto(u, "size")
    /\ UNCHANGED <<poolVars, dom, held, obj, conn, dead, retrying>>

\* The gRPC tunnel is offline, or the establishment timed out.
NotEstablished(u) ==
    /\ pc[u] = "wait"
    /\ Goto(u, "idle")
    /\ UNCHANGED <<poolVars, dom, held, obj, conn, dead, retrying>>

\* The user's quota is exceeded (GetDomainOwner reads the entry).
QuotaExceeded(u) ==
    /\ pc[u] = "size"
    /\ u \notin held
    /\ ManagerReadable
    /\ entry[dom[u]] # None
    /\ Goto(u, "idle")
    /\ UNCHANGED <<poolVars, dom, held, obj, conn, dead, retrying>>

\* GetWebSocketPoolSize: refuse with 503 when the pool is at its limit.
CheckPoolSize(u) ==
    /\ pc[u] = "size"
    /\ Answered(u)
    /\ Goto(u, IF Cardinality(PoolOf(u)) >= MaxWS THEN "idle" ELSE "get")
    /\ UNCHANGED <<poolVars, dom, obj, conn, dead, retrying>>

\* GetWebSocketConnection gives a connection of the pool.
GetConnection(u) ==
    /\ pc[u] = "get"
    /\ Answered(u)
    /\ \E c \in PoolOf(u) : conn' = [conn EXCEPT ![u] = c]
    /\ dead' = [dead EXCEPT ![u] = FALSE]
    /\ Goto(u, "take")
    /\ UNCHANGED <<poolVars, dom, obj, retrying>>

\* The pool is empty: a tunnel is requested and the pool polled for 5 seconds.
\* Failing to request one is an error that may have the router try again.
PoolEmpty(u) ==
    /\ pc[u] = "get"
    /\ Answered(u)
    /\ PoolOf(u) = {}
    /\ \/ Goto(u, "get")
       \/ Goto(u, "idle")
       \/ ~retrying[u] /\ Goto(u, "getdead")
    /\ UNCHANGED <<poolVars, dom, obj, conn, dead, retrying>>

\* RemoveSpecificWebSocketConnection[WithoutClosing] reads the entry under the
\* manager's lock and releases it.
FindEntry(u) ==
    /\ pc[u] = "take"
    /\ ManagerReadable
    /\ IF entry[dom[u]] = None
       THEN Goto(u, IF dead[u] THEN "wait" ELSE "session") /\ UNCHANGED obj
       ELSE Goto(u, "remove") /\ obj' = [obj EXCEPT ![u] = entry[dom[u]]]
    /\ UNCHANGED <<poolVars, dom, held, conn, dead, retrying>>

\* Mutant: the removal is left out when other connections remain.
RemoveFromPoolLast(u) ==
    /\ pc[u] = "remove"
    /\ DomainFree(obj[u])
    /\ LET o == obj[u] IN
       /\ ws' = IF ws[o] = {conn[u]} THEN [ws EXCEPT ![o] = {}] ELSE ws
       /\ closed' = IF dead[u] /\ conn[u] \in ws[o]
                    THEN closed \cup {conn[u]} ELSE closed
       /\ Goto(u, IF http[o] = {} /\ ws'[o] = {} THEN "delete"
                  ELSE IF dead[u] THEN "wait" ELSE "session")
    /\ UNCHANGED <<entry, http, arrived, adding, dom, held, obj, conn, dead,
                   retrying>>

\* Lock the domain, remove the connection if it is there (and close it, if it is
\* a dead one); keep the lock if no connection of either kind remains.
RemoveFromPool(u) ==
    /\ pc[u] = "remove"
    /\ DomainFree(obj[u])
    /\ LET o == obj[u]
           rest == ws[o] \ {conn[u]} IN
       /\ ws' = [ws EXCEPT ![o] = rest]
       /\ closed' = IF dead[u] /\ conn[u] \in ws[o]
                    THEN closed \cup {conn[u]} ELSE closed
       /\ Goto(u, IF http[o] = {} /\ rest = {} THEN "delete"
                  ELSE IF dead[u] THEN "wait" ELSE "session")
    /\ UNCHANGED <<entry, http, arrived, adding, dom, held, obj, conn, dead,
                   retrying>>

\* Lock the manager too, close both pools and delete the domain's entry, whose
\* ever it is; unlock both.
RemoveDomain(u) ==
    /\ pc[u] = "delete"
    /\ ManagerFree
    /\ LET o == obj[u] IN
       /\ closed' = closed \cup http[o] \cup ws[o]
       /\ http' = [http EXCEPT ![o] = {}]
       /\ ws' = [ws EXCEPT ![o] = {}]
    /\ entry' = [entry EXCEPT ![dom[u]] = None]
    /\ Goto(u, IF dead[u] THEN "wait" ELSE "session")
    /\ UNCHANGED <<arrived, adding, dom, held, obj, conn, dead, retrying>>

\* The session ends, normally or not, and its connection is closed.
EndSession(u) ==
    /\ pc[u] = "session"
    /\ closed' = closed \cup {conn[u]}
    /\ \/ Goto(u, "idle")
       \/ ~retrying[u] /\ Goto(u, "getdead")
    /\ UNCHANGED <<entry, http, ws, arrived, adding, dom, held, obj, conn,
                   dead, retrying>>

\* After a connection error the router removes a connection of the pool, any
\* one, as dead and starts over.
RemoveDeadConnection(u) ==
    /\ pc[u] = "getdead"
    /\ Answered(u)
    /\ retrying' = [retrying EXCEPT ![u] = TRUE]
    /\ IF PoolOf(u) = {}
       THEN Goto(u, "wait") /\ UNCHANGED <<conn, dead>>
       ELSE /\ \E c \in PoolOf(u) : conn' = [conn EXCEPT ![u] = c]
            /\ dead' = [dead EXCEPT ![u] = TRUE]
            /\ Goto(u, "take")
    /\ UNCHANGED <<poolVars, dom, obj>>

-----------------------------------------------------------------------------
Removal(u) == FindEntry(u) \/ RemoveFromPool(u) \/ RemoveDomain(u)

Read(u) ==
    \/ ReadEntry(u) \/ HasWebSocketConnection(u) \/ QuotaExceeded(u)
    \/ CheckPoolSize(u) \/ GetConnection(u) \/ PoolEmpty(u)
    \/ RemoveDeadConnection(u)

Add ==
    \/ \E c \in Conns, d \in Domains, t \in {"http", "ws"} : Arrive(c, d, t)
    \/ AddToPool

Next ==
    \/ Add
    \/ \E u \in Upgrades :
          \/ \E d \in Domains : Upgrade(u, d)
          \/ Established(u) \/ NotEstablished(u)
          \/ Read(u) \/ Removal(u) \/ EndSession(u)

Spec == Init /\ [][Next]_vars

\* A goroutine that can go on does, and a Go mutex starves nobody.  Nothing is
\* assumed of who connects, of upgrades, and of how long a session lasts.
Fairness ==
    /\ WF_vars(AddToPool)
    /\ \A u \in Upgrades : SF_vars(Read(u)) /\ SF_vars(Removal(u))

FairSpec == Spec /\ Fairness

-----------------------------------------------------------------------------
(* Properties.                                                             *)

\* The connections an upgrade for d can be given.
Available(d) == IF entry[d] = None THEN {} ELSE ws[entry[d]]

\* A connection a session owns, or the server has closed, is never given to a
\* later upgrade, although the session's goroutine took it out of the pool some
\* time after it was given it and through another lookup of the domain.
OwnedNotAvailable ==
    \A d \in Domains :
        /\ Available(d) \cap closed = {}
        /\ \A u \in Upgrades : pc[u] = "session" => conn[u] \notin Available(d)

\* When the entry of a domain is deleted, the pools are still as empty as when
\* they were counted: no connection that came in between is closed or lost with
\* them.
EmptyWhenDeleted ==
    \A u \in Upgrades : pc[u] = "delete" =>
        http[obj[u]] = {} /\ ws[obj[u]] = {}

\* What makes the two inductive.  Of the connections: only those that arrived are
\* in pools or closed, each is in one pool, and the one being added in none.
PooledOnce ==
    /\ \A o \in Conns :
          /\ http[o] \cup ws[o] \subseteq arrived \ {adding.conn}
          /\ o \notin arrived => http[o] = {} /\ ws[o] = {}
    /\ \A o, q \in Conns : ws[o] \cap ws[q] # {} => o = q
    /\ closed \subseteq arrived \ {adding.conn}

\* Of the domains: their entries are distinct and were created by an arrival,
\* and the one a connection is being added to has an entry.
EntriesDistinct ==
    /\ \A d \in Domains : entry[d] \in arrived \cup {None}
    /\ \A d, e \in Domains : (entry[d] = entry[e] /\ entry[d] # None) => d = e
    /\ adding # NotAdding =>
          entry[adding.dom] # None /\ adding.conn \in arrived

\* Of the goroutines: a reader of a pool reads the current entry; one that was
\* given a connection finds it in the pool it looked up, if it is available at
\* all, and does not find it any more once it has removed it.
Holders ==
    \A u \in Upgrades :
        /\ pc[u] # "idle" => dom[u] \in Domains
        /\ u \in held => /\ pc[u] \in Reading
                         /\ obj[u] # None
                         /\ obj[u] = entry[dom[u]]
        /\ pc[u] \in {"remove", "delete"} => obj[u] \in Conns
        /\ pc[u] \in {"take", "remove", "delete", "session"} =>
              conn[u] \in arrived \ {adding.conn}
        /\ \A d \in Domains : conn[u] \in Available(d) =>
              /\ pc[u] \in {"take", "remove"} => d = dom[u]
              /\ pc[u] = "remove" => obj[u] = entry[d]
              /\ pc[u] # "delete"

ManagerInv ==
    /\ TypeOK
    /\ PooledOnce
    /\ EntriesDistinct
    /\ Holders
    /\ OwnedNotAvailable
    /\ EmptyWhenDeleted

\* What the limit does limit: the connections of a domain that wait in its pool,
\* however many arrive at once and whichever are removed meanwhile.
PoolWithinLimit ==
    \A o \in Conns : IsFiniteSet(ws[o]) /\ Cardinality(ws[o]) <= MaxWS

\* What arrives at a pool and what leaves it never disturb each other: a pool is
\* not closed with a connection that has just come, and not filled beyond the limit.
PoolsKept == EmptyWhenDeleted /\ PoolWithinLimit

\* "RemoveSpecificWebSocketConnectionWithoutClosing removes a specific WebSocket
\* connection from the pool": the call returns.
RemovalReturns ==
    \A u \in Upgrades : (pc[u] = "take") ~> (pc[u] \in {"session", "wait"})

\* "Remove domain if no connections remain": a connection in a pool can be
\* reached through the manager.
PooledIsReachable ==
    \A o \in Conns : http[o] \cup ws[o] # {} => \E d \in Domains : entry[d] = o

\* "This prevents other requests from trying to use the same tunnel while it's
\* busy": two sessions never share a connection.
SessionExclusive ==
    \A u, v \in Upgrades :
        (u # v /\ pc[u] = "session" /\ pc[v] = "session") => conn[u] # conn[v]

\* "MaxWebSocketTunnelsPerDomain limits concurrent WebSocket tunnels per domain".
ConcurrentTunnelsLimited ==
    \A d \in Domains :
        Cardinality(Available(d)
            \cup {conn[u] : u \in {v \in Upgrades : pc[v] = "session" /\ dom[v] = d}})
          <= MaxWS
=============================================================================
