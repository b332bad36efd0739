----------------------- MODULE ConnectionManager_proofs -----------------------
(***************************************************************************)
(* Proofs about ConnectionManager, for any number of connections,          *)
(* goroutines and domains.                                                 *)
(***************************************************************************)
EXTENDS ConnectionManager, FiniteSetTheorems, TLAPS

\* The initial state satisfies the inductive invariant.
LEMMA ManagerInit == Init => ManagerInv
BY NoneIsNothing
   DEF Init, ManagerInv, TypeOK, PCs, Reading, NotAdding, PooledOnce, EntriesDistinct, Holders,
       OwnedNotAvailable, EmptyWhenDeleted, Available, poolVars, upgradeVars

\* Every step of AddConnection preserves the invariant.
LEMMA AddPreserves ==
    ASSUME ManagerInv, Add
    PROVE  ManagerInv'
<1> USE NoneIsNothing, MaxWSAssumption
    DEF ManagerInv, TypeOK, PCs, Reading, NotAdding, PooledOnce, EntriesDistinct, Holders,
        OwnedNotAvailable, EmptyWhenDeleted, Available, poolVars, upgradeVars
<1>1. ASSUME NEW c \in Conns, NEW d \in Domains, NEW t \in {"http", "ws"},
             Arrive(c, d, t) PROVE ManagerInv'
  <2>1. TypeOK'
    BY <1>1 DEF Arrive, ManagerFree
  <2>2. PooledOnce'
    BY <1>1 DEF Arrive, ManagerFree
  <2>3. EntriesDistinct'
    BY <1>1 DEF Arrive, ManagerFree
  <2>4. Holders'
    BY <1>1 DEF Arrive, ManagerFree
  <2>5. OwnedNotAvailable'
    BY <1>1 DEF Arrive, ManagerFree
  <2>6. EmptyWhenDeleted'
    BY <1>1 DEF Arrive, ManagerFree
  <2> QED
    BY <2>1, <2>2, <2>3, <2>4, <2>5, <2>6
<1>2. CASE AddToPool
  <2>1. TypeOK'
    <3>1. /\ adding \in [conn : Conns, dom : Domains, type : {"http", "ws"}]
          /\ adding.conn \in Conns /\ entry[adding.dom] \in Conns
      BY <1>2 DEF AddToPool
    <3>2. PICK c \in Conns, o \in Conns : c = adding.conn /\ o = entry[adding.dom]
      BY <3>1
    <3>3. /\ http' = http \/ http' = [http EXCEPT ![o] = @ \cup {c}]
          /\ ws' = ws \/ ws' = [ws EXCEPT ![o] = @ \cup {c}]
          /\ closed' = closed \/ closed' = closed \cup {c}
          /\ adding' = NotAdding
          /\ UNCHANGED <<entry, arrived, pc, dom, held, obj, conn, dead, retrying>>
      BY <1>2, <3>2 DEF AddToPool
    <3>4. http' \in [Conns -> SUBSET Conns] /\ ws' \in [Conns -> SUBSET Conns]
      BY <3>3
    <3>5. closed' \in SUBSET Conns
      BY <3>3
    <3>6. QED
      BY <3>3, <3>4, <3>5
  <2>2. PooledOnce'
    BY <1>2 DEF AddToPool, DomainFree
  <2>3. EntriesDistinct'
    BY <1>2 DEF AddToPool, DomainFree
  <2>4. Holders'
    BY <1>2 DEF AddToPool, DomainFree
  <2>5. OwnedNotAvailable'
    BY <1>2 DEF AddToPool, DomainFree
  <2>6. EmptyWhenDeleted'
    BY <1>2 DEF AddToPool, DomainFree
  <2> QED
    BY <2>1, <2>2, <2>3, <2>4, <2>5, <2>6
<1> HIDE DEF ManagerInv, TypeOK, PCs, Reading, NotAdding, PooledOnce, EntriesDistinct, Holders,
        OwnedNotAvailable, EmptyWhenDeleted, Available, poolVars, upgradeVars
<1> QED
  BY <1>1, <1>2 DEF Add

\* Every step that reads a pool preserves the invariant.
LEMMA ReadPreserves ==
    ASSUME ManagerInv, NEW u \in Upgrades, Read(u)
    PROVE  ManagerInv'
<1> USE NoneIsNothing, MaxWSAssumption
    DEF ManagerInv, TypeOK, PCs, Reading, NotAdding, PooledOnce, EntriesDistinct, Holders,
        OwnedNotAvailable, EmptyWhenDeleted, Available, poolVars, upgradeVars
<1>1. CASE ReadEntry(u)
  <2>1. TypeOK'
    BY <1>1 DEF ReadEntry, ManagerReadable
  <2>2. PooledOnce'
    BY <1>1 DEF ReadEntry, ManagerReadable
  <2>3. EntriesDistinct'
    BY <1>1 DEF ReadEntry, ManagerReadable
  <2>4. Holders'
    BY <1>1 DEF ReadEntry, ManagerReadable
  <2>5. OwnedNotAvailable'
    BY <1>1 DEF ReadEntry, ManagerReadable
  <2>6. EmptyWhenDeleted'
    BY <1>1 DEF ReadEntry, ManagerReadable
  <2> QED
    BY <2>1, <2>2, <2>3, <2>4, <2>5, <2>6
<1>2. CASE HasWebSocketConnection(u)
  <2>1. TypeOK'
    BY <1>2 DEF HasWebSocketConnection, Answered, Goto
  <2>2. PooledOnce'
    BY <1>2 DEF HasWebSocketConnection, Answered, Goto
  <2>3. EntriesDistinct'
    BY <1>2 DEF HasWebSocketConnection, Answered, Goto
  <2>4. Holders'
    BY <1>2 DEF HasWebSocketConnection, Answered, Goto
  <2>5. OwnedNotAvailable'
    BY <1>2 DEF HasWebSocketConnection, Answered, Goto
  <2>6. EmptyWhenDeleted'
    BY <1>2 DEF HasWebSocketConnection, Answered, Goto
  <2> QED
    BY <2>1, <2>2, <2>3, <2>4, <2>5, <2>6
<1>3. CASE QuotaExceeded(u)
  <2>1. TypeOK'
    BY <1>3 DEF QuotaExceeded, Goto
  <2>2. PooledOnce'
    BY <1>3 DEF QuotaExceeded, Goto
  <2>3. EntriesDistinct'
    BY <1>3 DEF QuotaExceeded, Goto
  <2>4. Holders'
    BY <1>3 DEF QuotaExceeded, Goto
  <2>5. OwnedNotAvailable'
    BY <1>3 DEF QuotaExceeded, Goto
  <2>6. EmptyWhenDeleted'
    BY <1>3 DEF QuotaExceeded, Goto
  <2> QED
    BY <2>1, <2>2, <2>3, <2>4, <2>5, <2>6
<1>4. CASE CheckPoolSize(u)
  <2>1. TypeOK'
    BY <1>4 DEF CheckPoolSize, Answered, Goto
  <2>2. PooledOnce'
    BY <1>4 DEF CheckPoolSize, Answered, Goto
  <2>3. EntriesDistinct'
    BY <1>4 DEF CheckPoolSize, Answered, Goto
  <2>4. Holders'
    BY <1>4 DEF CheckPoolSize, Answered, Goto
  <2>5. OwnedNotAvailable'
    BY <1>4 DEF CheckPoolSize, Answered, Goto
  <2>6. EmptyWhenDeleted'
    BY <1>4 DEF CheckPoolSize, Answered, Goto
  <2> QED
    BY <2>1, <2>2, <2>3, <2>4, <2>5, <2>6
<1>5. CASE GetConnection(u)
  <2>1. TypeOK'
    BY <1>5 DEF GetConnection, Answered, PoolOf, Goto
  <2>2. PooledOnce'
    BY <1>5 DEF GetConnection, Answered, PoolOf, Goto
  <2>3. EntriesDistinct'
    BY <1>5 DEF GetConnection, Answered, PoolOf, Goto
  <2>4. Holders'
    BY <1>5 DEF GetConnection, Answered, PoolOf, Goto
  <2>5. OwnedNotAvailable'
    BY <1>5 DEF GetConnection, Answered, PoolOf, Goto
  <2>6. EmptyWhenDeleted'
    BY <1>5 DEF GetConnection, Answered, PoolOf, Goto
  <2> QED
    BY <2>1, <2>2, <2>3, <2>4, <2>5, <2>6
<1>6. CASE PoolEmpty(u)
  <2>1. TypeOK'
    BY <1>6 DEF PoolEmpty, Answered, Goto
  <2>2. PooledOnce'
    BY <1>6 DEF PoolEmpty, Answered, Goto
  <2>3. EntriesDistinct'
    BY <1>6 DEF PoolEmpty, Answered, Goto
  <2>4. Holders'
    BY <1>6 DEF PoolEmpty, Answered, Goto
  <2>5. OwnedNotAvailable'
    BY <1>6 DEF PoolEmpty, Answered, Goto
  <2>6. EmptyWhenDeleted'
    BY <1>6 DEF PoolEmpty, Answered, Goto
  <2> QED
    BY <2>1, <2>2, <2>3, <2>4, <2>5, <2>6
<1>7. CASE RemoveDeadConnection(u)
  <2>1. TypeOK'
    <3>1. CASE PoolOf(u) = {}
      BY <1>7, <3>1 DEF RemoveDeadConnection, Answered, Goto
    <3>2. ASSUME NEW c \in PoolOf(u), conn' = [conn EXCEPT ![u] = c],
                 PoolOf(u) # {}
          PROVE  TypeOK'
      <4>1. c \in Conns
        BY <3>2, <1>7 DEF PoolOf, RemoveDeadConnection
      <4>2. pc' = [pc EXCEPT ![u] = "take"]
        BY <3>2, <1>7 DEF RemoveDeadConnection, Goto
      <4>3. dead' = [dead EXCEPT ![u] = TRUE]
        BY <3>2, <1>7 DEF RemoveDeadConnection
      <4>4. retrying' = [retrying EXCEPT ![u] = TRUE]
        BY <1>7 DEF RemoveDeadConnection
      <4>5. held' = held \ {u} /\ UNCHANGED <<poolVars, dom, obj>>
        BY <1>7 DEF RemoveDeadConnection, Answered
      <4>6. dead' \in [Upgrades -> BOOLEAN] /\ retrying' \in [Upgrades -> BOOLEAN]
        BY <4>3, <4>4
      <4>7. QED
        BY <4>1, <4>2, <4>5, <4>6, <3>2
    <3>3. QED
      BY <3>1, <3>2, <1>7 DEF RemoveDeadConnection
  <2>2. PooledOnce'
    BY <1>7 DEF RemoveDeadConnection, Answered, PoolOf, Goto
  <2>3. EntriesDistinct'
    BY <1>7 DEF RemoveDeadConnection, Answered, PoolOf, Goto
  <2>4. Holders'
    BY <1>7 DEF RemoveDeadConnection, Answered, PoolOf, Goto
  <2>5. OwnedNotAvailable'
    BY <1>7 DEF RemoveDeadConnection, Answered, PoolOf, Goto
  <2>6. EmptyWhenDeleted'
    BY <1>7 DEF RemoveDeadConnection, Answered, PoolOf, Goto
  <2> QED
    BY <2>1, <2>2, <2>3, <2>4, <2>5, <2>6
<1> HIDE DEF ManagerInv, TypeOK, PCs, Reading, NotAdding, PooledOnce, EntriesDistinct, Holders,
        OwnedNotAvailable, EmptyWhenDeleted, Available, poolVars, upgradeVars
<1> QED
  BY <1>1, <1>2, <1>3, <1>4, <1>5, <1>6, <1>7 DEF Read

\* Every step of a removal preserves the invariant.
LEMMA RemovalPreserves ==
    ASSUME ManagerInv, NEW u \in Upgrades, Removal(u)
    PROVE  ManagerInv'
<1> USE NoneIsNothing, MaxWSAssumption
    DEF ManagerInv, TypeOK, PCs, Reading, NotAdding, PooledOnce, EntriesDistinct, Holders,
        OwnedNotAvailable, EmptyWhenDeleted, Available, poolVars, upgradeVars
<1>1. CASE FindEntry(u)
  <2>1. TypeOK'
    BY <1>1 DEF FindEntry, ManagerReadable, Goto
  <2>2. PooledOnce'
    BY <1>1 DEF FindEntry, ManagerReadable, Goto
  <2>3. EntriesDistinct'
    BY <1>1 DEF FindEntry, ManagerReadable, Goto
  <2>4. Holders'
    BY <1>1 DEF FindEntry, ManagerReadable, Goto
  <2>5. OwnedNotAvailable'
    BY <1>1 DEF FindEntry, ManagerReadable, Goto
  <2>6. EmptyWhenDeleted'
    BY <1>1 DEF FindEntry, ManagerReadable, Goto
  <2> QED
    BY <2>1, <2>2, <2>3, <2>4, <2>5, <2>6
<1>2. CASE RemoveFromPool(u)
  <2>1. TypeOK'
    BY <1>2 DEF RemoveFromPool, DomainFree, Goto
  <2>2. PooledOnce'
    BY <1>2 DEF RemoveFromPool, DomainFree, Goto
  <2>3. EntriesDistinct'
    BY <1>2 DEF RemoveFromPool, DomainFree, Goto
  <2>4. Holders'
    BY <1>2 DEF RemoveFromPool, DomainFree, Goto
  <2>5. OwnedNotAvailable'
    BY <1>2 DEF RemoveFromPool, DomainFree, Goto
  <2>6. EmptyWhenDeleted'
    BY <1>2 DEF RemoveFromPool, DomainFree, Goto
  <2> QED
    BY <2>1, <2>2, <2>3, <2>4, <2>5, <2>6
<1>3. CASE RemoveDomain(u)
  <2>1. TypeOK'
    BY <1>3 DEF RemoveDomain, ManagerFree, Goto
  <2>2. PooledOnce'
    BY <1>3 DEF RemoveDomain, ManagerFree, Goto
  <2>3. EntriesDistinct'
    BY <1>3 DEF RemoveDomain, ManagerFree, Goto
  <2>4. Holders'
    BY <1>3 DEF RemoveDomain, ManagerFree, Goto
  <2>5. OwnedNotAvailable'
    BY <1>3 DEF RemoveDomain, ManagerFree, Goto
  <2>6. EmptyWhenDeleted'
    BY <1>3 DEF RemoveDomain, ManagerFree, Goto
  <2> QED
    BY <2>1, <2>2, <2>3, <2>4, <2>5, <2>6
<1> HIDE DEF ManagerInv, TypeOK, PCs, Reading, NotAdding, PooledOnce, EntriesDistinct, Holders,
        OwnedNotAvailable, EmptyWhenDeleted, Available, poolVars, upgradeVars
<1> QED
  BY <1>1, <1>2, <1>3 DEF Removal

\* The other steps of an upgrade preserve the invariant.
LEMMA SessionPreserves ==
    ASSUME ManagerInv, NEW u \in Upgrades,
           \/ \E d \in Domains : Upgrade(u, d)
           \/ Established(u) \/ NotEstablished(u) \/ EndSession(u)
    PROVE  ManagerInv'
<1> USE NoneIsNothing, MaxWSAssumption
    DEF ManagerInv, TypeOK, PCs, Reading, NotAdding, PooledOnce, EntriesDistinct, Holders,
        OwnedNotAvailable, EmptyWhenDeleted, Available, poolVars, upgradeVars
<1>1. ASSUME NEW d \in Domains, Upgrade(u, d) PROVE ManagerInv'
  <2>1. TypeOK'
    BY <1>1 DEF Upgrade, Goto
  <2>2. PooledOnce'
    BY <1>1 DEF Upgrade, Goto
  <2>3. EntriesDistinct'
    BY <1>1 DEF Upgrade, Goto
  <2>4. Holders'
    BY <1>1 DEF Upgrade, Goto
  <2>5. OwnedNotAvailable'
    BY <1>1 DEF Upgrade, Goto
  <2>6. EmptyWhenDeleted'
    BY <1>1 DEF Upgrade, Goto
  <2> QED
    BY <2>1, <2>2, <2>3, <2>4, <2>5, <2>6
<1>2. CASE Established(u)
  <2>1. TypeOK'
    BY <1>2 DEF Established, Goto
  <2>2. PooledOnce'
    BY <1>2 DEF Established, Goto
  <2>3. EntriesDistinct'
    BY <1>2 DEF Established, Goto
  <2>4. Holders'
    BY <1>2 DEF Established, Goto
  <2>5. OwnedNotAvailable'
    BY <1>2 DEF Established, Goto
  <2>6. EmptyWhenDeleted'
    BY <1>2 DEF Established, Goto
  <2> QED
    BY <2>1, <2>2, <2>3, <2>4, <2>5, <2>6
<1>3. CASE NotEstablished(u)
  <2>1. TypeOK'
    BY <1>3 DEF NotEstablished, Goto
  <2>2. PooledOnce'
    BY <1>3 DEF NotEstablished, Goto
  <2>3. EntriesDistinct'
    BY <1>3 DEF NotEstablished, Goto
  <2>4. Holders'
    BY <1>3 DEF NotEstablished, Goto
  <2>5. OwnedNotAvailable'
    BY <1>3 DEF NotEstablished, Goto
  <2>6. EmptyWhenDeleted'
    BY <1>3 DEF NotEstablished, Goto
  <2> QED
    BY <2>1, <2>2, <2>3, <2>4, <2>5, <2>6
<1>4. CASE EndSession(u)
  <2>1. TypeOK'
    BY <1>4 DEF EndSession, Goto
  <2>2. PooledOnce'
    BY <1>4 DEF EndSession, Goto
  <2>3. EntriesDistinct'
    BY <1>4 DEF EndSession, Goto
  <2>4. Holders'
    BY <1>4 DEF EndSession, Goto
  <2>5. OwnedNotAvailable'
    BY <1>4 DEF EndSession, Goto
  <2>6. EmptyWhenDeleted'
    BY <1>4 DEF EndSession, Goto
  <2> QED
    BY <2>1, <2>2, <2>3, <2>4, <2>5, <2>6
<1> HIDE DEF ManagerInv, TypeOK, PCs, Reading, NotAdding, PooledOnce, EntriesDistinct, Holders,
        OwnedNotAvailable, EmptyWhenDeleted, Available, poolVars, upgradeVars
<1> QED
  BY <1>1, <1>2, <1>3, <1>4 DEF ManagerInv

\* ManagerInv is inductive.
LEMMA ManagerNext == ManagerInv /\ [Next]_vars => ManagerInv'
<1> SUFFICES ASSUME ManagerInv, [Next]_vars PROVE ManagerInv'
  OBVIOUS
<1>1. CASE UNCHANGED vars
  BY <1>1 DEF vars, ManagerInv, TypeOK, PCs, Reading, NotAdding, PooledOnce, EntriesDistinct, Holders,
        OwnedNotAvailable, EmptyWhenDeleted, Available, poolVars, upgradeVars
<1>2. CASE Next
  BY <1>2, AddPreserves, ReadPreserves, RemovalPreserves, SessionPreserves
     DEF Next
<1>3. QED
  BY <1>1, <1>2

\* The pools of connection_manager.go satisfy their inductive invariant in every
\* reachable state.
THEOREM ManagerInductive == Spec => []ManagerInv
BY ManagerInit, ManagerNext, PTL DEF Spec

\* However upgrades overlap, none is given a connection that a session owns or
\* that the server has closed.
THEOREM OwnedIsNotGiven == Spec => []OwnedNotAvailable
<1>1. ManagerInv => OwnedNotAvailable
  BY DEF ManagerInv
<1>2. QED
  BY <1>1, ManagerInductive, PTL

\* A pool is left as it is, loses connections, or gains one while it has room.
LEMMA PoolChanges ==
    ASSUME ManagerInv, [Next]_vars, NEW q \in Conns
    PROVE  \/ ws'[q] = ws[q] \/ ws'[q] = {}
           \/ \E c : ws'[q] = ws[q] \ {c}
           \/ Cardinality(ws[q]) < MaxWS /\ \E c : ws'[q] = ws[q] \cup {c}
<1>0. ws \in [Conns -> SUBSET Conns]
  BY DEF ManagerInv, TypeOK
<1>1. CASE AddToPool
  <2>1. CASE ws' = ws
    BY <2>1
  <2>2. CASE /\ Cardinality(ws[entry[adding.dom]]) < MaxWS
             /\ ws' = [ws EXCEPT ![entry[adding.dom]] = @ \cup {adding.conn}]
    BY <1>0, <2>2
  <2>3. QED
    BY <1>1, <2>1, <2>2 DEF AddToPool
<1>2. ASSUME NEW u \in Upgrades, RemoveFromPool(u)
      PROVE  ws'[q] = ws[q] \/ \E c : ws'[q] = ws[q] \ {c}
  <2>1. ws' = [ws EXCEPT ![obj[u]] = ws[obj[u]] \ {conn[u]}]
    BY <1>2 DEF RemoveFromPool
  <2>2. QED
    BY <1>0, <2>1
<1>3. ASSUME NEW u \in Upgrades, RemoveDomain(u) PROVE ws'[q] = ws[q] \/ ws'[q] = {}
  BY <1>0, <1>3 DEF RemoveDomain
<1>4. CASE \E c \in Conns, d \in Domains, t \in {"http", "ws"} : Arrive(c, d, t)
  BY <1>4 DEF Arrive
<1>5. ASSUME NEW u \in Upgrades, Read(u) PROVE ws' = ws
  BY <1>5
     DEF Read, ReadEntry, HasWebSocketConnection, QuotaExceeded, CheckPoolSize, GetConnection,
         PoolEmpty, RemoveDeadConnection, poolVars
<1>6. ASSUME NEW u \in Upgrades,
             \/ \E d \in Domains : Upgrade(u, d)
             \/ Established(u) \/ NotEstablished(u) \/ FindEntry(u) \/ EndSession(u)
      PROVE  ws' = ws
  BY <1>6 DEF Upgrade, Established, NotEstablished, FindEntry, EndSession, poolVars
<1>7. CASE UNCHANGED vars
  BY <1>7 DEF vars, poolVars
<1>8. QED
  BY <1>1, <1>2, <1>3, <1>4, <1>5, <1>6, <1>7 DEF Next, Add, Removal

\* None of these takes a pool over its limit.
LEMMA LimitNext == ManagerInv /\ PoolWithinLimit /\ [Next]_vars => PoolWithinLimit'
<1> SUFFICES ASSUME ManagerInv, PoolWithinLimit, [Next]_vars, NEW q \in Conns
             PROVE  IsFiniteSet(ws'[q]) /\ Cardinality(ws'[q]) <= MaxWS
  BY DEF PoolWithinLimit
<1> DEFINE pool == ws[q]
<1>1. IsFiniteSet(pool) /\ Cardinality(pool) <= MaxWS
  BY DEF PoolWithinLimit
<1>2. Cardinality(pool) \in Nat /\ MaxWS \in Nat /\ 0 <= MaxWS
  BY <1>1, FS_CardinalityType, MaxWSAssumption
<1> HIDE DEF pool
<1>3. CASE ws'[q] = {}
  BY <1>2, <1>3, FS_EmptySet
<1>4. ASSUME NEW c, ws'[q] = pool \ {c} PROVE IsFiniteSet(ws'[q]) /\ Cardinality(ws'[q]) <= MaxWS
  <2>1. /\ IsFiniteSet(pool \ {c})
        /\ Cardinality(pool \ {c}) = IF c \in pool THEN Cardinality(pool) - 1 ELSE Cardinality(pool)
    BY <1>1, FS_RemoveElement
  <2>2. QED
    BY <1>1, <1>2, <1>4, <2>1
<1>5. ASSUME NEW c, Cardinality(pool) < MaxWS, ws'[q] = pool \cup {c}
      PROVE  IsFiniteSet(ws'[q]) /\ Cardinality(ws'[q]) <= MaxWS
  <2>1. /\ IsFiniteSet(pool \cup {c})
        /\ Cardinality(pool \cup {c}) = IF c \in pool THEN Cardinality(pool) ELSE Cardinality(pool) + 1
    BY <1>1, FS_AddElement
  <2>2. QED
    BY <1>2, <1>5, <2>1
<1>6. CASE ws'[q] = pool
  BY <1>1, <1>6
<1>7. QED
  BY <1>3, <1>4, <1>5, <1>6, PoolChanges DEF pool

\* However connections arrive and upgrades take them, deleting a domain's entry
\* loses no connection of the pools it closes, and no WebSocket pool ever holds
\* more than MaxWebSocketTunnelsPerDomain connections.
THEOREM PoolsAreKept == Spec => []PoolsKept
<1>1. Init => PoolWithinLimit
  BY FS_EmptySet, MaxWSAssumption DEF Init, PoolWithinLimit
<1>2. ManagerInv /\ PoolWithinLimit => PoolsKept
  BY DEF ManagerInv, PoolsKept
<1>3. QED
  BY <1>1, <1>2, LimitNext, ManagerInductive, PTL DEF Spec
==============================================================================
