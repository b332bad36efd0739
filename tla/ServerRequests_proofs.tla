------------------------ MODULE ServerRequests_proofs ------------------------
(***************************************************************************)
(* Proofs about what the server does with requests and what they cost.     *)
(*                                                                         *)
(* UsageService, for any records, finitely many background flushes and any *)
(* batch size: flushes are clean, nothing is charged twice, and flushes    *)
(* that follow one another without a failure lose nothing.                 *)
(*                                                                         *)
(* ServerBoot and RequestRouting, for any plans, domains, users, tunnels   *)
(* and connections: the seeding is completed by a later start, overwrites  *)
(* nothing, and every browser is answered at most once.                    *)
(***************************************************************************)
EXTENDS UsageService, RequestRouting, FiniteSetTheorems, TLAPS

-----------------------------------------------------------------------------
(* The usage service.                                                      *)

\* The initial state is clean and nothing is recorded.
LEMMA UsageBegins == UsageInit => FlushesAreClean /\ SerialInv
<1> SUFFICES ASSUME UsageInit PROVE FlushesAreClean /\ SerialInv
  OBVIOUS
<1> USE DEF UsageInit, Nothing, Unwritten, Absent
<1>1. UsageTypeOK
  BY BoundsAssumption DEF UsageTypeOK, NoRow
<1>2. \A f \in Flushers : Mine(f) = {}
  BY DEF Mine
<1>3. \A f \in Flushers : CleanFlush(f)
  BY <1>2 DEF CleanFlush
<1>4. \A k \in Keys : records[k] <= recorded[k]
  OBVIOUS
<1>5. FlushesAreClean
  BY <1>1, <1>2, <1>3, <1>4 DEF FlushesAreClean
<1>6. SerialInv
  BY <1>2 DEF SerialInv, Flushing, Committed
<1>7. QED
  BY <1>5, <1>6

-----------------------------------------------------------------------------
(* Flushes are clean.                                                      *)

\* Every step preserves the types.
LEMMA TypesKept ==
    ASSUME FlushesAreClean, [UsageNext]_usageVars
    PROVE  UsageTypeOK' /\ \A k \in Keys : records'[k] <= recorded'[k]
<1> USE BoundsAssumption DEF FlushesAreClean, UsageTypeOK, FlusherGoto, Absent, Nothing, Unwritten, NoRow
<1>1. ASSUME NEW k \in Keys, Increment(k)
      PROVE  UsageTypeOK' /\ \A j \in Keys : records'[j] <= recorded'[j]
  <2>1. records[k] + 1 <= recorded[k] + 1 /\ recorded[k] + 1 \in 0..MaxUsage /\ records[k] + 1 \in 0..MaxUsage
    BY <1>1 DEF Increment
  <2>2. records' \in [Keys -> 0..MaxUsage] /\ recorded' \in [Keys -> 0..MaxUsage]
    BY <1>1, <2>1 DEF Increment
  <2>3. \A j \in Keys : records'[j] <= recorded'[j]
    BY <1>1, <2>1 DEF Increment
  <2>4. pc' \in [Flushers -> {"idle", "triggered", "flushing", "tx", "found", "commit", "done"}]
    BY <1>1 DEF Increment
  <2>5. QED
    BY <1>1, <2>2, <2>3, <2>4 DEF Increment
<1>2. ASSUME NEW b \in Background, AlreadyFlushed(b)
      PROVE  UsageTypeOK' /\ \A j \in Keys : records'[j] <= recorded'[j]
  BY <1>2 DEF AlreadyFlushed
<1>3. ASSUME NEW f \in Flushers, SnapshotAndReset(f)
      PROVE  UsageTypeOK' /\ \A j \in Keys : records'[j] <= recorded'[j]
  <2>1. records' \in [Keys -> 0..MaxUsage] /\ left' \in [Flushers -> [Keys -> 0..MaxUsage]]
    BY <1>3 DEF SnapshotAndReset
  <2>2. \A j \in Keys : records'[j] <= recorded'[j]
    BY <1>3 DEF SnapshotAndReset
  <2>3. pc' \in [Flushers -> {"idle", "triggered", "flushing", "tx", "found", "commit", "done"}]
    BY <1>3 DEF SnapshotAndReset, Over
  <2>4. mishaps' \in SUBSET {"failure", "overlap"}
    BY <1>3 DEF SnapshotAndReset
  <2>5. QED
    BY <1>3, <2>1, <2>2, <2>3, <2>4 DEF SnapshotAndReset
<1>4. ASSUME NEW f \in Flushers, BeginBatch(f)
      PROVE  UsageTypeOK' /\ \A j \in Keys : records'[j] <= recorded'[j]
  <2>1. PICK b \in SUBSET {k \in Keys : left[f][k] > 0} : batch' = [batch EXCEPT ![f] = b]
    BY <1>4 DEF BeginBatch
  <2>2. QED
    BY <1>4, <2>1 DEF BeginBatch
<1>5. ASSUME NEW f \in Flushers, QueryRow(f)
      PROVE  UsageTypeOK' /\ \A j \in Keys : records'[j] <= recorded'[j]
  <2>1. PICK k \in batch[f] : row' = [row EXCEPT ![f] = [key |-> k, seen |-> db[k]]]
    BY <1>5 DEF QueryRow
  <2>2. k \in Keys
    OBVIOUS
  <2>3. row' \in [Flushers -> [key : Keys \cup {None}, seen : Nat \cup {-1}]]
    BY <2>1, <2>2
  <2>4. QED
    BY <1>5, <2>3 DEF QueryRow
<1>6. ASSUME NEW f \in Flushers, WriteRow(f)
      PROVE  UsageTypeOK' /\ \A j \in Keys : records'[j] <= recorded'[j]
  <2> DEFINE k == row[f].key
             sum == left[f][k] + (IF row[f].seen = Absent THEN 0 ELSE row[f].seen)
  <2>1. k \in Keys
    BY <1>6 DEF WriteRow, CleanFlush
  <2>2. sum \in Nat
    BY <2>1
  <2>3. written' = [written EXCEPT ![f][k] = sum] /\ batch' = [batch EXCEPT ![f] = @ \ {k}]
    BY <1>6 DEF WriteRow
  <2>4. written' \in [Flushers -> [Keys -> Nat \cup {-1}]] /\ batch' \in [Flushers -> SUBSET Keys]
    BY <2>1, <2>2, <2>3
  <2>5. pc' \in [Flushers -> {"idle", "triggered", "flushing", "tx", "found", "commit", "done"}]
    BY <1>6 DEF WriteRow
  <2>6. row' \in [Flushers -> [key : Keys \cup {None}, seen : Nat \cup {-1}]]
    BY <1>6 DEF WriteRow
  <2>7. QED
    BY <1>6, <2>4, <2>5, <2>6 DEF WriteRow
<1>7. ASSUME NEW f \in Flushers, Commit(f)
      PROVE  UsageTypeOK' /\ \A j \in Keys : records'[j] <= recorded'[j]
  <2> DEFINE rest == [k \in Keys |-> IF k \in Mine(f) THEN 0 ELSE left[f][k]]
  <2>1. /\ db' = [k \in Keys |-> IF k \in Mine(f) THEN written[f][k] ELSE db[k]]
        /\ left' = [left EXCEPT ![f] = rest]
        /\ pc' = [pc EXCEPT ![f] = IF rest = Nothing THEN Over(f) ELSE "flushing"]
    BY <1>7 DEF Commit, Mine
  <2>2. db' \in [Keys -> Nat \cup {-1}]
    BY <2>1 DEF Mine
  <2>3. rest \in [Keys -> 0..MaxUsage]
    OBVIOUS
  <2>4. left' \in [Flushers -> [Keys -> 0..MaxUsage]]
    BY <2>1, <2>3
  <2>5. pc' \in [Flushers -> {"idle", "triggered", "flushing", "tx", "found", "commit", "done"}]
    BY <2>1 DEF Over
  <2>6. written' \in [Flushers -> [Keys -> Nat \cup {-1}]]
    BY <1>7 DEF Commit
  <2>7. QED
    BY <1>7, <2>2, <2>4, <2>5, <2>6 DEF Commit
<1>8. ASSUME NEW f \in Flushers, FlushFails(f)
      PROVE  UsageTypeOK' /\ \A j \in Keys : records'[j] <= recorded'[j]
  BY <1>8 DEF FlushFails, Over
<1>9. CASE Stop \/ PeriodicEnds \/ StopReturns
  BY <1>9 DEF Stop, PeriodicEnds, FlusherGoto, StopReturns, flushVars
<1>10. CASE UNCHANGED usageVars
  BY <1>10 DEF usageVars, flushVars
<1>11. QED
  BY <1>1, <1>2, <1>3, <1>4, <1>5, <1>6, <1>7, <1>8, <1>9, <1>10 DEF UsageNext, FlushStep

\* A flush only changes its own part of the state.
LEMMA OthersUntouched ==
    ASSUME UsageTypeOK, NEW f \in Flushers, FlushStep(f), NEW g \in Flushers \ {f}
    PROVE  /\ pc'[g] = pc[g] /\ left'[g] = left[g] /\ batch'[g] = batch[g]
           /\ row'[g] = row[g] /\ written'[g] = written[g]
<1> USE DEF UsageTypeOK, FlusherGoto
<1>1. CASE SnapshotAndReset(f)
  BY <1>1 DEF SnapshotAndReset
<1>2. CASE BeginBatch(f)
  <2>1. PICK b \in SUBSET {k \in Keys : left[f][k] > 0} : batch' = [batch EXCEPT ![f] = b]
    BY <1>2 DEF BeginBatch
  <2>2. QED
    BY <1>2, <2>1 DEF BeginBatch
<1>3. CASE QueryRow(f)
  BY <1>3 DEF QueryRow
<1>4. CASE WriteRow(f)
  BY <1>4 DEF WriteRow
<1>5. CASE Commit(f)
  BY <1>5 DEF Commit
<1>6. CASE FlushFails(f)
  BY <1>6 DEF FlushFails
<1>7. QED
  BY <1>1, <1>2, <1>3, <1>4, <1>5, <1>6 DEF FlushStep

\* What one step of a flush does to what it keeps.
LEMMA OwnFlushClean ==
    ASSUME FlushesAreClean, NEW f \in Flushers, FlushStep(f)
    PROVE  /\ CleanFlush(f)'
           /\ \A g \in Flushers \ {f} : Mine(f)' \cap Mine(g) = {}
<1> USE DEF FlushesAreClean, UsageTypeOK, FlusherGoto
<1>0. CleanFlush(f)
  OBVIOUS
<1>1. CASE SnapshotAndReset(f)
  <2>1. /\ pc[f] \in {"idle", "triggered"}
        /\ pc'[f] \in {"idle", "done", "flushing"}
        /\ pc'[f] # "flushing" => records = Nothing
        /\ left'[f] = records /\ batch'[f] = batch[f] /\ written'[f] = written[f]
    BY <1>1 DEF SnapshotAndReset, MayFlush, Over
  <2>2. Mine(f)' = Mine(f) /\ Mine(f) = {} /\ batch[f] = {}
    BY <1>0, <2>1 DEF Mine, CleanFlush
  <2>3. QED
    BY <2>1, <2>2 DEF CleanFlush
<1>2. CASE BeginBatch(f)
  <2>1. PICK b \in SUBSET {k \in Keys : left[f][k] > 0} : batch' = [batch EXCEPT ![f] = b]
    BY <1>2 DEF BeginBatch
  <2>2. /\ pc[f] = "flushing" /\ pc'[f] = "tx" /\ batch'[f] = b
        /\ left'[f] = left[f] /\ written'[f] = written[f]
    BY <1>2, <2>1 DEF BeginBatch
  <2>3. Mine(f)' = Mine(f) /\ Mine(f) = {}
    BY <1>0, <2>2 DEF Mine, CleanFlush
  <2>4. QED
    BY <2>1, <2>2, <2>3 DEF CleanFlush
<1>3. CASE QueryRow(f)
  <2>1. PICK k \in batch[f] : row' = [row EXCEPT ![f] = [key |-> k, seen |-> db[k]]]
    BY <1>3 DEF QueryRow
  <2>2. /\ pc[f] = "tx" /\ pc'[f] = "found" /\ row'[f].key = k
        /\ batch'[f] = batch[f] /\ left'[f] = left[f] /\ written'[f] = written[f]
    BY <1>3, <2>1 DEF QueryRow
  <2>3. Mine(f)' = Mine(f)
    BY <2>2 DEF Mine
  <2>4. QED
    BY <1>0, <2>1, <2>2, <2>3 DEF CleanFlush
<1>4. CASE WriteRow(f)
  <2> DEFINE k == row[f].key
             sum == left[f][k] + (IF row[f].seen = Absent THEN 0 ELSE row[f].seen)
  <2>1. k \in batch[f] /\ k \in Keys
    BY <1>0, <1>4 DEF WriteRow, CleanFlush
  <2>2. /\ pc[f] = "found" /\ pc'[f] \in {"tx", "commit"} /\ left'[f] = left[f]
        /\ written'[f] = [written[f] EXCEPT ![k] = sum]
        /\ batch'[f] = batch[f] \ {k}
        /\ pc'[f] = "commit" => batch[f] = {k}
        /\ \A g \in Flushers \ {f} : written[g][k] = Absent
    BY <1>4 DEF WriteRow, Locked
  <2>3. sum \in Nat
    BY <2>1 DEF Absent
  <2>4. Mine(f)' = Mine(f) \cup {k}
    BY <2>1, <2>2, <2>3 DEF Mine, Absent
  <2>5. CleanFlush(f)'
    BY <1>0, <2>1, <2>2, <2>4 DEF CleanFlush
  <2>6. \A g \in Flushers \ {f} : k \notin Mine(g)
    BY <2>2 DEF Mine
  <2>7. QED
    BY <2>4, <2>5, <2>6
<1>5. CASE Commit(f)
  <2> DEFINE rest == [k \in Keys |-> IF k \in Mine(f) THEN 0 ELSE left[f][k]]
  <2>1. /\ pc[f] = "commit" /\ batch'[f] = batch[f] /\ left'[f] = rest /\ written'[f] = Unwritten
        /\ pc'[f] \in {"idle", "done", "flushing"}
        /\ pc'[f] # "flushing" => rest = Nothing
    BY <1>5 DEF Commit, Mine, Over
  <2>2. Mine(f)' = {} /\ batch[f] = {}
    BY <1>0, <2>1 DEF Mine, Unwritten, CleanFlush
  <2>3. QED
    BY <2>1, <2>2 DEF CleanFlush
<1>6. CASE FlushFails(f)
  <2>1. /\ left'[f] = Nothing /\ batch'[f] = {} /\ written'[f] = Unwritten
        /\ pc'[f] \in {"idle", "done"}
    BY <1>6 DEF FlushFails, Over
  <2>2. Mine(f)' = {}
    BY <2>1 DEF Mine, Unwritten
  <2>3. QED
    BY <2>1, <2>2 DEF CleanFlush
<1>7. QED
  BY <1>1, <1>2, <1>3, <1>4, <1>5, <1>6 DEF FlushStep

\* Every step keeps the flushes clean.
LEMMA CleanNext == FlushesAreClean /\ [UsageNext]_usageVars => FlushesAreClean'
<1> SUFFICES ASSUME FlushesAreClean, [UsageNext]_usageVars PROVE FlushesAreClean'
  OBVIOUS
<1>0. UsageTypeOK /\ UsageTypeOK' /\ \A k \in Keys : records'[k] <= recorded'[k]
  BY TypesKept DEF FlushesAreClean
<1>1. ASSUME NEW f \in Flushers, FlushStep(f)
      PROVE  FlushesAreClean'
  <2>1. ASSUME NEW g \in Flushers \ {f}
        PROVE  CleanFlush(g)' /\ Mine(g)' = Mine(g)
    <3>1. /\ pc'[g] = pc[g] /\ left'[g] = left[g] /\ batch'[g] = batch[g]
          /\ row'[g] = row[g] /\ written'[g] = written[g]
      BY <1>0, <1>1, OthersUntouched
    <3>2. Mine(g)' = Mine(g)
      BY <3>1 DEF Mine
    <3>3. QED
      BY <3>1, <3>2 DEF FlushesAreClean, CleanFlush
  <2>2. CleanFlush(f)' /\ \A g \in Flushers \ {f} : Mine(f)' \cap Mine(g) = {}
    BY <1>1, OwnFlushClean
  <2>3. ASSUME NEW g \in Flushers, NEW h \in Flushers, g # h
        PROVE  Mine(g)' \cap Mine(h)' = {}
    BY <2>1, <2>2, <2>3 DEF FlushesAreClean
  <2>4. QED
    BY <1>0, <2>1, <2>2, <2>3 DEF FlushesAreClean
<1>2. ASSUME UNCHANGED <<left, batch, row, written>>,
             \A g \in Flushers : pc'[g] = pc[g] \/ {pc[g], pc'[g]} \subseteq {"idle", "triggered", "done"}
      PROVE  FlushesAreClean'
  <2>1. \A g \in Flushers : Mine(g)' = Mine(g)
    BY <1>2 DEF Mine
  <2>2. \A g \in Flushers : CleanFlush(g)'
    BY <1>2, <2>1 DEF FlushesAreClean, CleanFlush
  <2>3. QED
    BY <1>0, <2>1, <2>2 DEF FlushesAreClean
<1>3. ASSUME NEW k \in Keys, Increment(k)
      PROVE  FlushesAreClean'
  BY <1>0, <1>2, <1>3 DEF Increment, FlusherGoto, UsageTypeOK
<1>4. ASSUME NEW b \in Background, AlreadyFlushed(b)
      PROVE  FlushesAreClean'
  BY <1>0, <1>2, <1>4 DEF AlreadyFlushed, FlusherGoto, UsageTypeOK
<1>5. CASE Stop \/ StopReturns \/ UNCHANGED usageVars
  BY <1>2, <1>5 DEF Stop, StopReturns, usageVars, flushVars
<1>6. CASE PeriodicEnds
  BY <1>0, <1>2, <1>6 DEF PeriodicEnds, FlusherGoto, UsageTypeOK
<1>7. QED
  BY <1>1, <1>3, <1>4, <1>5, <1>6 DEF UsageNext

\* However flushes overlap and fail, one that is over keeps no snapshot and no
\* locked row, and no two write the same row (usageService.FlushToDB and
\* processBatch).
THEOREM FlushesStayClean == UsageServiceSpec => []FlushesAreClean
BY UsageBegins, CleanNext, PTL DEF UsageServiceSpec

-----------------------------------------------------------------------------
(* Flushes that follow one another lose nothing.                           *)

\* A step that adds no mishap and takes no snapshot leaves those under way.
LEMMA SerialNext == FlushesAreClean /\ SerialInv /\ [UsageNext]_usageVars => SerialInv'
<1> SUFFICES ASSUME FlushesAreClean, SerialInv, [UsageNext]_usageVars, mishaps' = {} PROVE SerialInv'
  BY DEF SerialInv
<1> DEFINE Sum(f, k) == Committed(k) + records[k] + left[f][k]
<1>0. /\ UsageTypeOK /\ UsageTypeOK' /\ \A f \in Flushers : CleanFlush(f)
      /\ \A f \in Flushers \ Flushing : left[f] = Nothing /\ Mine(f) = {}
  <2>1. UsageTypeOK /\ UsageTypeOK' /\ \A f \in Flushers : CleanFlush(f)
    BY TypesKept DEF FlushesAreClean
  <2>2. QED
    BY <2>1 DEF UsageTypeOK, Flushing, CleanFlush
<1>1. \A k \in Keys : Committed(k) \in Nat /\ records[k] \in Nat /\ recorded[k] \in Nat
                      /\ \A f \in Flushers : left[f][k] \in Nat
  BY <1>0 DEF UsageTypeOK, Committed, Absent
<1>2. ASSUME mishaps = {}, UNCHANGED <<db, left, row, written>>,
             \A g \in Flushers : pc'[g] = pc[g] \/ {pc[g], pc'[g]} \subseteq {"idle", "triggered", "done"},
             \A k \in Keys : recorded'[k] - records'[k] = recorded[k] - records[k]
      PROVE  SerialInv'
  <2>1. Flushing' = Flushing /\ \A f \in Flushers : Mine(f)' = Mine(f)
    BY <1>2 DEF Flushing, Mine
  <2>2. \A k \in Keys : Committed(k)' = Committed(k) /\ records'[k] \in Nat /\ recorded'[k] \in Nat
    BY <1>0, <1>2 DEF Committed, UsageTypeOK
  <2>3. \A f \in Flushers : (\A g \in Flushers \ {f} : left'[g] = Nothing') =>
              \A k \in Keys : Committed(k)' + records'[k] + left'[f][k] = recorded'[k]
    <3>1. SUFFICES ASSUME NEW f \in Flushers, \A g \in Flushers \ {f} : left'[g] = Nothing', NEW k \in Keys
                   PROVE  Committed(k)' + records'[k] + left'[f][k] = recorded'[k]
      OBVIOUS
    <3>2. Committed(k) + records[k] + left[f][k] = recorded[k]
      BY <1>2, <3>1 DEF SerialInv, Nothing
    <3>3. /\ left'[f][k] = left[f][k] /\ Committed(k)' = Committed(k)
          /\ recorded'[k] - records'[k] = recorded[k] - records[k]
          /\ records'[k] \in Nat /\ recorded'[k] \in Nat
          /\ records[k] \in Nat /\ recorded[k] \in Nat /\ Committed(k) \in Nat /\ left[f][k] \in Nat
      BY <1>1, <1>2, <2>2
    <3>4. QED
      BY <3>2, <3>3
  <2>4. \A f \in Flushers : pc'[f] = "found" => row'[f].seen = db'[row'[f].key]
    BY <1>2 DEF SerialInv
  <2>5. \A f \in Flushers : \A k \in Mine(f)' : written'[f][k] = left'[f][k] + Committed(k)'
    BY <1>2, <2>1, <2>2 DEF SerialInv, Mine
  <2>6. QED
    BY <1>2, <2>1, <2>3, <2>4, <2>5 DEF SerialInv
<1>3. ASSUME NEW k \in Keys, Increment(k)
      PROVE  SerialInv'
  <2>1. \A j \in Keys : recorded'[j] - records'[j] = recorded[j] - records[j]
    BY <1>0, <1>1, <1>3 DEF Increment, UsageTypeOK
  <2>2. \A g \in Flushers : pc'[g] = pc[g] \/ {pc[g], pc'[g]} \subseteq {"idle", "triggered", "done"}
    BY <1>0, <1>3 DEF Increment, UsageTypeOK, FlusherGoto
  <2>3. QED
    BY <1>2, <1>3, <2>1, <2>2 DEF Increment
<1>4. ASSUME NEW b \in Background, AlreadyFlushed(b)
      PROVE  SerialInv'
  <2>1. \A g \in Flushers : pc'[g] = pc[g] \/ {pc[g], pc'[g]} \subseteq {"idle", "triggered", "done"}
    BY <1>0, <1>4 DEF AlreadyFlushed, UsageTypeOK, FlusherGoto
  <2>2. QED
    BY <1>2, <1>4, <2>1 DEF AlreadyFlushed
<1>5. CASE Stop \/ StopReturns \/ UNCHANGED usageVars
  BY <1>2, <1>5 DEF Stop, StopReturns, usageVars, flushVars
<1>p. CASE PeriodicEnds
  <2>1. \A g \in Flushers : pc'[g] = pc[g] \/ {pc[g], pc'[g]} \subseteq {"idle", "triggered", "done"}
    BY <1>0, <1>p DEF PeriodicEnds, UsageTypeOK, FlusherGoto
  <2>2. QED
    BY <1>2, <1>p, <2>1 DEF PeriodicEnds
<1>6. ASSUME NEW f \in Flushers, FlushStep(f)
      PROVE  SerialInv'
  <2>0. ASSUME NEW g \in Flushers \ {f}
        PROVE  /\ pc'[g] = pc[g] /\ left'[g] = left[g] /\ batch'[g] = batch[g]
               /\ row'[g] = row[g] /\ written'[g] = written[g] /\ Mine(g)' = Mine(g)
    BY <1>0, <1>6, OthersUntouched DEF Mine
  <2>1. CASE SnapshotAndReset(f)
    <3>1. mishaps = {} /\ Flushing = {} /\ UNCHANGED <<db, recorded>>
      BY <2>1 DEF SnapshotAndReset
    <3>2. \A g \in Flushers : left[g] = Nothing /\ Mine(g) = {} /\ g \notin Flushing
      BY <1>0, <3>1
    <3>3. /\ left'[f] = records /\ records' = Nothing /\ written'[f] = written[f]
          /\ pc'[f] \in {"idle", "done", "flushing"}
      BY <1>0, <2>1 DEF SnapshotAndReset, FlusherGoto, Over, UsageTypeOK
    <3>4. \A k \in Keys : Committed(k)' = Committed(k) /\ Committed(k) + records[k] = recorded[k]
      <4>1. \A k \in Keys : Committed(k) + records[k] + left[f][k] = recorded[k]
        BY <3>1, <3>2 DEF SerialInv
      <4>2. \A k \in Keys : left[f][k] = 0
        BY <3>2 DEF Nothing
      <4>3. QED
        BY <1>1, <3>1, <4>1, <4>2 DEF Committed
    <3>5. \A h, g \in Flushing' : h = g
      <4>1. \A g \in Flushers \ {f} : g \notin Flushing'
        BY <2>0, <3>2 DEF Flushing
      <4>2. QED
        BY <4>1 DEF Flushing
    <3>6. \A g \in Flushers : pc'[g] # "found" /\ Mine(g)' = {}
      BY <2>0, <3>2, <3>3 DEF Flushing, Mine
    <3>7. ASSUME NEW h \in Flushers, \A g \in Flushers \ {h} : left'[g] = Nothing, NEW k \in Keys
          PROVE  Committed(k)' + records'[k] + left'[h][k] = recorded'[k]
      <4>1. CASE h = f
        BY <1>1, <3>1, <3>3, <3>4, <4>1 DEF Nothing
      <4>2. CASE h # f
        <5>1. records = Nothing /\ left'[h] = Nothing
          BY <2>0, <3>2, <3>3, <3>7, <4>2
        <5>2. QED
          BY <1>1, <3>1, <3>3, <3>4, <5>1 DEF Nothing
      <4>3. QED
        BY <4>1, <4>2
    <3>8. QED
      BY <3>5, <3>6, <3>7 DEF SerialInv, Nothing
  <2>2. CASE FlushFails(f)
    BY <2>2 DEF FlushFails
  <2>3. CASE BeginBatch(f) \/ QueryRow(f) \/ WriteRow(f)
    <3>1. /\ mishaps = {} /\ UNCHANGED <<db, left, records, recorded>>
          /\ f \in Flushing /\ f \in Flushing'
      BY <1>0, <2>3 DEF BeginBatch, QueryRow, WriteRow, Flushing, FlusherGoto, UsageTypeOK
    <3>2. \A k \in Keys : Committed(k)' = Committed(k)
      BY <3>1 DEF Committed
    <3>3. \A h, g \in Flushing' : h = g
      <4>1. \A g \in Flushers \ {f} : g \notin Flushing'
        BY <2>0, <3>1 DEF Flushing, SerialInv
      <4>2. QED
        BY <4>1 DEF Flushing
    <3>4. pc'[f] = "found" => row'[f].seen = db'[row'[f].key]
      BY <1>0, <2>3, <3>1 DEF BeginBatch, QueryRow, WriteRow, FlusherGoto, UsageTypeOK
    <3>5. \A k \in Mine(f)' : written'[f][k] = left'[f][k] + Committed(k)
      <4>1. CASE BeginBatch(f) \/ QueryRow(f)
        <5>1. written' = written /\ Mine(f)' = Mine(f)
          BY <4>1 DEF BeginBatch, QueryRow, Mine
        <5>2. QED
          BY <3>1, <5>1 DEF SerialInv, Mine
      <4>2. CASE WriteRow(f)
        <5> DEFINE j == row[f].key
                   sum == left[f][j] + (IF row[f].seen = Absent THEN 0 ELSE row[f].seen)
        <5>1. j \in Keys /\ row[f].seen = db[j]
          BY <1>0, <3>1, <4>2 DEF WriteRow, CleanFlush, SerialInv, UsageTypeOK
        <5>2. written'[f] = [written[f] EXCEPT ![j] = sum] /\ sum = left[f][j] + Committed(j)
          BY <1>0, <4>2, <5>1 DEF WriteRow, UsageTypeOK, Committed
        <5>3. \A k \in Mine(f)' : k = j \/ (k \in Mine(f) /\ written'[f][k] = written[f][k])
          BY <1>0, <5>1, <5>2 DEF Mine, UsageTypeOK
        <5>4. written'[f][j] = sum
          BY <1>0, <5>1, <5>2 DEF UsageTypeOK
        <5>5. QED
          BY <3>1, <5>2, <5>3, <5>4 DEF SerialInv
      <4>3. QED
        BY <2>3, <4>1, <4>2
    <3>6. \A g \in Flushers : pc'[g] = "found" => row'[g].seen = db'[row'[g].key]
      BY <2>0, <3>1, <3>4 DEF SerialInv
    <3>7. \A g \in Flushers : \A k \in Mine(g)' : written'[g][k] = left'[g][k] + Committed(k)'
      <4>1. \A g \in Flushers : Mine(g)' \subseteq Keys
        BY DEF Mine
      <4>2. ASSUME NEW g \in Flushers \ {f}, NEW k \in Mine(g)'
            PROVE  written'[g][k] = left'[g][k] + Committed(k)
        BY <2>0, <3>1, <4>2 DEF SerialInv
      <4>3. QED
        BY <3>2, <3>5, <4>1, <4>2
    <3>8. \A h \in Flushers : (\A g \in Flushers \ {h} : left'[g] = Nothing') =>
              \A k \in Keys : Committed(k)' + records'[k] + left'[h][k] = recorded'[k]
      BY <3>1, <3>2 DEF SerialInv, Nothing
    <3>9. QED
      BY <3>3, <3>6, <3>7, <3>8 DEF SerialInv
  <2>4. CASE Commit(f)
    <3>1. mishaps = {} /\ UNCHANGED <<records, recorded>> /\ f \in Flushing /\ pc[f] = "commit"
      BY <2>4 DEF Commit, Flushing
    <3>2. \A g \in Flushers \ {f} : g \notin Flushing /\ left[g] = Nothing /\ Mine(g) = {} /\ g \notin Flushing'
      BY <1>0, <2>0, <3>1 DEF SerialInv, Flushing
    <3>3. /\ \A k \in Keys : db'[k] = IF k \in Mine(f) THEN written[f][k] ELSE db[k]
          /\ \A k \in Keys : left'[f][k] = IF k \in Mine(f) THEN 0 ELSE left[f][k]
          /\ written'[f] = Unwritten /\ pc'[f] \in {"idle", "done", "flushing"}
      BY <1>0, <2>4 DEF Commit, Mine, UsageTypeOK, FlusherGoto, Over
    <3>4. \A k \in Mine(f) : k \in Keys /\ written[f][k] = left[f][k] + Committed(k)
      BY <3>1 DEF SerialInv, Mine
    <3>5. ASSUME NEW k \in Keys
          PROVE  Committed(k)' + left'[f][k] = Committed(k) + left[f][k]
      BY <1>1, <3>3, <3>4 DEF Committed, Absent
    <3>6. \A k \in Keys : Committed(k) + records[k] + left[f][k] = recorded[k]
      BY <3>1, <3>2 DEF SerialInv
    <3>7. ASSUME NEW k \in Keys
          PROVE  Committed(k)' \in Nat /\ left'[f][k] \in Nat
      BY <1>0 DEF UsageTypeOK, Committed, Absent
    <3>8. ASSUME NEW h \in Flushers, \A g \in Flushers \ {h} : left'[g] = Nothing, NEW k \in Keys
          PROVE  Committed(k)' + records'[k] + left'[h][k] = recorded'[k]
      <4>1. CASE h = f
        BY <1>1, <3>1, <3>5, <3>6, <3>7, <4>1
      <4>2. CASE h # f
        <5>1. left'[f][k] = 0 /\ left'[h][k] = 0
          BY <2>0, <3>2, <3>8, <4>2 DEF Nothing
        <5>2. QED
          BY <1>1, <3>1, <3>5, <3>6, <3>7, <5>1
      <4>3. QED
        BY <4>1, <4>2
    <3>9. \A g \in Flushers : pc'[g] # "found" /\ Mine(g)' = {}
      BY <2>0, <3>2, <3>3 DEF Mine, Unwritten, Flushing
    <3>10. \A h, g \in Flushing' : h = g
      BY <3>2 DEF Flushing
    <3>11. QED
      BY <3>8, <3>9, <3>10 DEF SerialInv, Nothing
  <2>5. QED
    BY <1>6, <2>1, <2>2, <2>3, <2>4 DEF FlushStep
<1>7. QED
  BY <1>3, <1>4, <1>5, <1>p, <1>6 DEF UsageNext

\* The invariant gives the property: the flush under way is the one that has
\* the rest, and if none is, every snapshot is empty.
LEMMA SerialFollows == FlushesAreClean /\ SerialInv => SerialFlushesKeepAll
<1> SUFFICES ASSUME FlushesAreClean, SerialInv, mishaps = {}
             PROVE  \E f \in Flushers :
                        /\ \A g \in Flushers \ {f} : left[g] = Nothing
                        /\ \A k \in Keys : Committed(k) + records[k] + left[f][k] = recorded[k]
  BY DEF SerialFlushesKeepAll
<1>1. \A f \in Flushers \ Flushing : left[f] = Nothing
  BY DEF FlushesAreClean, CleanFlush, UsageTypeOK, Flushing
<1>2. PICK f \in Flushers : \A g \in Flushers \ {f} : g \notin Flushing
  <2>1. CASE Flushing = {}
    BY <2>1 DEF Flushers
  <2>2. CASE Flushing # {}
    BY <2>2 DEF SerialInv, Flushing
  <2>3. QED
    BY <2>1, <2>2
<1>3. \A g \in Flushers \ {f} : left[g] = Nothing
  BY <1>1, <1>2
<1>4. QED
  BY <1>3 DEF SerialInv

\* Without failures and overlaps everything that Increment counted is in the
\* database, in memory or in the one snapshot under way, whatever is recorded
\* during a flush and however its records are cut into batches.
THEOREM SerialKeepAll == UsageServiceSpec => []SerialFlushesKeepAll
<1>1. UsageServiceSpec => [](FlushesAreClean /\ SerialInv)
  BY UsageBegins, CleanNext, SerialNext, PTL DEF UsageServiceSpec
<1>2. QED
  BY <1>1, SerialFollows, PTL

-----------------------------------------------------------------------------
(* Sums over the flushes.  A sum takes one flush after another; a measure  *)
(* is what all orders of taking them agree on.                             *)

IsMeasure(m, part) ==
    /\ part \in [Flushers -> Nat]
    /\ m \in [SUBSET Flushers -> Nat]
    /\ m[{}] = 0
    /\ \A S \in SUBSET Flushers, f \in Flushers : f \notin S => m[S \cup {f}] = m[S] + part[f]

Measured(part) == \E m : IsMeasure(m, part)

\* The sum is the measure of all flushes: a smallest set on which they differ
\* would not be empty, and without its chosen flush they would differ already.
LEMMA TotalIs ==
    ASSUME NEW part, NEW m, IsMeasure(m, part)
    PROVE  Total(part) = m[Flushers] /\ Total(part) \in Nat
<1> DEFINE Chosen(s) == CHOOSE x \in s : TRUE
           Sums(g) == g = [s \in SUBSET Flushers |->
                              IF s = {} THEN 0 ELSE part[Chosen(s)] + g[s \ {Chosen(s)}]]
<1>1. Sums(m)
  <2>1. ASSUME NEW s \in SUBSET Flushers, s # {}
        PROVE  m[s] = part[Chosen(s)] + m[s \ {Chosen(s)}]
    <3>1. PICK x : x = Chosen(s)
      OBVIOUS
    <3>2. x \in s
      BY <2>1, <3>1
    <3>3. (s \ {x}) \cup {x} = s /\ s \ {x} \in SUBSET Flushers /\ x \in Flushers
      BY <3>2
    <3>4. m[s] = m[s \ {x}] + part[x] /\ part[x] \in Nat /\ m[s \ {x}] \in Nat
      BY <3>3 DEF IsMeasure
    <3>5. m[s] = part[x] + m[s \ {x}]
      BY <3>4
    <3>6. QED
      BY <3>1, <3>5
  <2> HIDE DEF Chosen
  <2>2. QED
    BY <2>1 DEF IsMeasure
<1>2. PICK iter : iter = CHOOSE g : Sums(g)
  OBVIOUS
<1>3. Sums(iter)
  <2> HIDE DEF Sums
  <2>1. QED
    BY <1>1, <1>2
<1>4. \A s \in SUBSET Flushers : s # {} => Chosen(s) \in s
  OBVIOUS
<1>5. iter[Flushers] = m[Flushers]
  <2> HIDE DEF Chosen
  <2> DEFINE T == {s \in SUBSET Flushers : iter[s] # m[s]}
  <2>1. SUFFICES ASSUME T # {} PROVE FALSE
    OBVIOUS
  <2>2. IsWellFoundedOn(StrictSubsetOrdering(Flushers), SUBSET Flushers)
    <3>1. IsFiniteSet(Flushers)
      <4>1. IsFiniteSet(Background \cup {"periodic"})
        BY FinitelyManyAssumption, FS_AddElement
      <4>2. IsFiniteSet((Background \cup {"periodic"}) \cup {"final"})
        BY <4>1, FS_AddElement
      <4>3. Flushers = (Background \cup {"periodic"}) \cup {"final"}
        BY DEF Flushers
      <4>4. QED
        BY <4>2, <4>3
    <3>2. QED
      BY <3>1, FS_StrictSubsetOrderingWellFounded, FS_FiniteSubsetsOfFinite
  <2>3. PICK s \in T : \A r \in T : ~(<<r, s>> \in StrictSubsetOrdering(Flushers))
    <3> HIDE DEF T
    <3>1. T \subseteq SUBSET Flushers
      BY DEF T
    <3>2. QED
      BY <2>1, <2>2, <3>1, WFMin
  <2>4. s # {}
    BY <1>1, <1>3
  <2>5. PICK x : x = Chosen(s)
    OBVIOUS
  <2>6. x \in s /\ s \ {x} \in SUBSET Flushers
    BY <1>4, <2>4, <2>5
  <2>7. <<s \ {x}, s>> \in StrictSubsetOrdering(Flushers)
    BY <2>6 DEF StrictSubsetOrdering
  <2>8. iter[s \ {x}] = m[s \ {x}]
    BY <2>3, <2>6, <2>7
  <2>9. s \in SUBSET Flushers /\ iter[s] # m[s]
    BY <2>3
  <2>10. iter[s] = part[x] + iter[s \ {x}]
    BY <1>3, <2>4, <2>5, <2>9
  <2>11. m[s] = part[x] + m[s \ {x}]
    BY <1>1, <2>4, <2>5, <2>9
  <2>12. QED
    BY <2>8, <2>9, <2>10, <2>11
<1>6. Total(part) = iter[Flushers]
  BY <1>2 DEF Total, MapThenSumSet, MapThenFoldSet
<1>7. m[Flushers] \in Nat
  BY DEF IsMeasure
<1>8. QED
  BY <1>5, <1>6, <1>7

\* No flush has more than all of them.
LEMMA PartIsBelow ==
    ASSUME NEW part, Measured(part), NEW f \in Flushers
    PROVE  Total(part) \in Nat /\ part[f] \in Nat /\ part[f] <= Total(part)
<1>1. PICK m : IsMeasure(m, part)
  BY DEF Measured
<1>2. Total(part) = m[Flushers] /\ Total(part) \in Nat
  BY <1>1, TotalIs
<1>3. (Flushers \ {f}) \cup {f} = Flushers /\ Flushers \ {f} \in SUBSET Flushers
  OBVIOUS
<1>4. m[Flushers] = m[Flushers \ {f}] + part[f] /\ m[Flushers \ {f}] \in Nat /\ part[f] \in Nat
  BY <1>1, <1>3 DEF IsMeasure
<1>5. QED
  BY <1>2, <1>4

\* When one flush's part changes, the sum changes with it.
LEMMA TotalMoves ==
    ASSUME NEW part, Measured(part), NEW f \in Flushers, NEW new \in [Flushers -> Nat],
           \A g \in Flushers : g # f => new[g] = part[g]
    PROVE  Measured(new) /\ Total(new) \in Nat /\ Total(new) + part[f] = Total(part) + new[f]
<1>1. PICK m : IsMeasure(m, part)
  BY DEF Measured
<1> DEFINE n == [S \in SUBSET Flushers |-> IF f \in S THEN m[S \ {f}] + new[f] ELSE m[S]]
<1>2. n \in [SUBSET Flushers -> Nat] /\ n[{}] = 0
  <2>1. \A S \in SUBSET Flushers : n[S] \in Nat
    BY <1>1 DEF IsMeasure
  <2>2. n[{}] = m[{}]
    OBVIOUS
  <2>3. QED
    BY <1>1, <2>1, <2>2 DEF IsMeasure
<1>3. ASSUME NEW S \in SUBSET Flushers, NEW g \in Flushers, g \notin S
      PROVE  n[S \cup {g}] = n[S] + new[g]
  <2>1. S \cup {g} \in SUBSET Flushers
    OBVIOUS
  <2>2. CASE g = f
    <3>1. (S \cup {g}) \ {f} = S
      BY <1>3, <2>2
    <3>2. n[S \cup {g}] = m[S] + new[f] /\ n[S] = m[S]
      BY <1>3, <2>1, <2>2, <3>1
    <3>3. QED
      BY <2>2, <3>2
  <2>3. CASE g # f /\ f \notin S
    <3>1. n[S \cup {g}] = m[S \cup {g}] /\ n[S] = m[S]
      BY <2>1, <2>3
    <3>2. QED
      BY <1>1, <1>3, <2>3, <3>1 DEF IsMeasure
  <2>4. CASE g # f /\ f \in S
    <3>1. (S \cup {g}) \ {f} = (S \ {f}) \cup {g} /\ S \ {f} \in SUBSET Flushers /\ g \notin S \ {f}
      BY <1>3, <2>4
    <3>2. m[(S \ {f}) \cup {g}] = m[S \ {f}] + part[g] /\ m[S \ {f}] \in Nat /\ part[g] \in Nat
      BY <1>1, <3>1 DEF IsMeasure
    <3>3. n[S \cup {g}] = m[(S \ {f}) \cup {g}] + new[f] /\ n[S] = m[S \ {f}] + new[f]
      BY <2>1, <2>4, <3>1
    <3>4. new[f] \in Nat /\ new[g] = part[g]
      BY <2>4
    <3> HIDE DEF n
    <3>5. QED
      BY <3>2, <3>3, <3>4
  <2>5. QED
    BY <2>2, <2>3, <2>4
<1>4. IsMeasure(n, new)
  <2> HIDE DEF n
  <2>1. QED
    BY <1>2, <1>3 DEF IsMeasure
<1>5. Total(new) = n[Flushers] /\ Total(new) \in Nat /\ Total(part) = m[Flushers]
  <2> HIDE DEF n
  <2>1. QED
    BY <1>1, <1>4, TotalIs
<1>6. n[Flushers] = m[Flushers \ {f}] + new[f]
  OBVIOUS
<1>7. m[Flushers] = m[Flushers \ {f}] + part[f] /\ m[Flushers \ {f}] \in Nat /\ part[f] \in Nat
  <2>1. (Flushers \ {f}) \cup {f} = Flushers /\ Flushers \ {f} \in SUBSET Flushers
    OBVIOUS
  <2>2. QED
    BY <1>1, <2>1 DEF IsMeasure
<1>8. new[f] \in Nat /\ Measured(new)
  <2> HIDE DEF n
  <2>1. QED
    BY <1>4 DEF Measured
<1> HIDE DEF n
<1>9. QED
  BY <1>5, <1>6, <1>7, <1>8

\* Nothing sums up to nothing.
LEMMA NothingTotal ==
    ASSUME NEW part, part = [f \in Flushers |-> 0]
    PROVE  Measured(part) /\ Total(part) = 0
<1> DEFINE m == [S \in SUBSET Flushers |-> 0]
<1>1. IsMeasure(m, part)
  BY DEF IsMeasure
<1>2. m[Flushers] = 0
  OBVIOUS
<1> HIDE DEF m
<1>3. QED
  BY <1>1, <1>2, TotalIs DEF Measured

-----------------------------------------------------------------------------
(* Nothing is charged twice.                                               *)

Seen(f) == IF row[f].seen = Absent THEN 0 ELSE row[f].seen

\* What makes NeverOvercharged inductive: a row that a flush has seen, or what it
\* has written, may be old, but never counts usage that is still in a snapshot.
ChargesHold(k) ==
    /\ Measured(Parts(k))
    /\ Committed(k) + InFlight(k) <= recorded[k]
    /\ \A f \in Flushers : pc[f] = "found" /\ row[f].key = k => Seen(f) + InFlight(k) <= recorded[k]
    /\ \A f \in Flushers : k \in Mine(f) => written[f][k] + InFlight(k) <= recorded[k] + left[f][k]

ChargeInv == \A k \in Keys : ChargesHold(k)

\* The numbers are numbers.
LEMMA ChargeTypes ==
    ASSUME UsageTypeOK, NEW k \in Keys, Measured(Parts(k))
    PROVE  /\ Committed(k) \in Nat /\ records[k] \in Nat /\ recorded[k] \in Nat
           /\ Total(Parts(k)) \in Nat /\ InFlight(k) \in Nat
           /\ \A f \in Flushers : /\ left[f][k] \in Nat /\ left[f][k] <= Total(Parts(k)) /\ Seen(f) \in Nat
                                  /\ k \in Mine(f) => written[f][k] \in Nat
<1>1. \A f \in Flushers : Parts(k)[f] = left[f][k]
  BY DEF Parts
<1>2. \A f \in Flushers : Total(Parts(k)) \in Nat /\ left[f][k] \in Nat /\ left[f][k] <= Total(Parts(k))
  BY <1>1, PartIsBelow
<1>3. "final" \in Flushers
  BY DEF Flushers
<1>4. Total(Parts(k)) \in Nat
  BY <1>2, <1>3
<1>5. Committed(k) \in Nat /\ records[k] \in Nat /\ recorded[k] \in Nat
  BY BoundsAssumption DEF Committed, UsageTypeOK
<1>6. InFlight(k) \in Nat
  BY <1>4, <1>5 DEF InFlight
<1>7. \A f \in Flushers : Seen(f) \in Nat /\ (k \in Mine(f) => written[f][k] \in Nat)
  BY DEF UsageTypeOK, Seen, Mine
<1>8. QED
  BY <1>2, <1>4, <1>5, <1>6, <1>7

\* A step that leaves the snapshots alone leaves their sum.
LEMMA PartsStay ==
    ASSUME NEW k, UNCHANGED left
    PROVE  Parts(k)' = Parts(k) /\ Total(Parts(k))' = Total(Parts(k))
<1>1. Parts(k)' = Parts(k)
  BY DEF Parts
<1>2. QED
  BY <1>1

\* A step of one flush changes the sum by its own part.
LEMMA PartsMove ==
    ASSUME UsageTypeOK, UsageTypeOK', NEW k \in Keys, Measured(Parts(k)), NEW f \in Flushers,
           NEW new, left' = [left EXCEPT ![f] = new]
    PROVE  /\ Measured(Parts(k)') /\ Total(Parts(k)') \in Nat
           /\ Total(Parts(k)') + left[f][k] = Total(Parts(k)) + new[k]
           /\ new[k] \in Nat
           /\ \A g \in Flushers : g # f => left'[g][k] = left[g][k]
<1>1. Parts(k)' \in [Flushers -> Nat]
  BY BoundsAssumption DEF Parts, UsageTypeOK
<1>2. Parts(k)[f] = left[f][k] /\ Parts(k)'[f] = new[k]
  BY DEF Parts, UsageTypeOK
<1>3. \A g \in Flushers : g # f => Parts(k)'[g] = Parts(k)[g] /\ left'[g][k] = left[g][k]
  BY DEF Parts, UsageTypeOK
<1>4. new[k] \in Nat
  BY <1>1, <1>2
<1>5. PICK part : part = Parts(k)
  OBVIOUS
<1>6. PICK next : next = Parts(k)'
  OBVIOUS
<1>7. Measured(next) /\ Total(next) \in Nat /\ Total(next) + part[f] = Total(part) + next[f]
  BY <1>1, <1>3, <1>5, <1>6, TotalMoves
<1>8. QED
  BY <1>2, <1>3, <1>4, <1>5, <1>6, <1>7

\* A request is accounted: memory and the total grow together.
LEMMA IncrementCharges ==
    ASSUME UsageTypeOK, NEW k \in Keys, ChargesHold(k), NEW j \in Keys, Increment(j)
    PROVE  ChargesHold(k)'
<1>1. Measured(Parts(k))
  BY DEF ChargesHold
<1>2. /\ Committed(k) \in Nat /\ records[k] \in Nat /\ recorded[k] \in Nat
      /\ Total(Parts(k)) \in Nat /\ InFlight(k) \in Nat
      /\ \A f \in Flushers : /\ left[f][k] \in Nat /\ Seen(f) \in Nat
                             /\ k \in Mine(f) => written[f][k] \in Nat
  BY <1>1, ChargeTypes
<1>3. Parts(k)' = Parts(k) /\ Total(Parts(k))' = Total(Parts(k))
  BY PartsStay DEF Increment
<1>4. PICK d \in {0, 1} : records'[k] = records[k] + d /\ recorded'[k] = recorded[k] + d
  <2>1. CASE j = k
    BY <2>1 DEF Increment, UsageTypeOK
  <2>2. CASE j # k
    BY <1>2, <2>2 DEF Increment, UsageTypeOK
  <2>3. QED
    BY <2>1, <2>2
<1>5. InFlight(k)' = InFlight(k) + d
  BY <1>2, <1>3, <1>4 DEF InFlight
<1>6. Committed(k)' = Committed(k) /\ \A f \in Flushers : Seen(f)' = Seen(f) /\ Mine(f)' = Mine(f)
  BY DEF Increment, Committed, Seen, Mine
<1>7. \A f \in Flushers : pc'[f] = "found" => pc[f] = "found"
  BY DEF Increment, FlusherGoto, UsageTypeOK
<1>8. UNCHANGED <<left, row, written>>
  BY DEF Increment
<1>9. QED
  BY <1>1, <1>2, <1>3, <1>4, <1>5, <1>6, <1>7, <1>8 DEF ChargesHold

\* Steps that change neither the counters nor the snapshots nor what is written.
LEMMA OtherCharges ==
    ASSUME NEW k, ChargesHold(k), UNCHANGED <<recorded, records, db, left, written>>,
           \A f \in Flushers : pc'[f] = "found" => pc[f] = "found" /\ row'[f] = row[f]
    PROVE  ChargesHold(k)'
<1>1. Parts(k)' = Parts(k) /\ Total(Parts(k))' = Total(Parts(k))
  BY PartsStay
<1>2. InFlight(k)' = InFlight(k) /\ Committed(k)' = Committed(k) /\ \A f \in Flushers : Mine(f)' = Mine(f)
  BY <1>1 DEF InFlight, Committed, Mine
<1>3. \A f \in Flushers : pc'[f] = "found" => Seen(f)' = Seen(f)
  BY DEF Seen
<1>4. QED
  BY <1>1, <1>2, <1>3 DEF ChargesHold

\* The records move into a snapshot, which was empty.
LEMMA SnapshotCharges ==
    ASSUME FlushesAreClean, UsageTypeOK', NEW k \in Keys, ChargesHold(k), NEW f \in Flushers, SnapshotAndReset(f)
    PROVE  ChargesHold(k)'
<1>1. UsageTypeOK /\ Measured(Parts(k))
  BY DEF ChargesHold, FlushesAreClean
<1>2. /\ Committed(k) \in Nat /\ records[k] \in Nat /\ recorded[k] \in Nat
      /\ Total(Parts(k)) \in Nat /\ InFlight(k) \in Nat
      /\ \A g \in Flushers : /\ left[g][k] \in Nat /\ Seen(g) \in Nat
                             /\ k \in Mine(g) => written[g][k] \in Nat
  BY <1>1, ChargeTypes
<1>3. left[f][k] = 0 /\ Mine(f) = {} /\ pc[f] # "found"
  BY DEF FlushesAreClean, CleanFlush, SnapshotAndReset, MayFlush, Nothing
<1>4. /\ Measured(Parts(k)') /\ Total(Parts(k)') \in Nat
      /\ Total(Parts(k)') + left[f][k] = Total(Parts(k)) + records[k]
      /\ \A g \in Flushers : g # f => left'[g][k] = left[g][k]
  BY <1>1, PartsMove DEF SnapshotAndReset
<1>5. records'[k] = 0
  BY DEF SnapshotAndReset, Nothing
<1>6. InFlight(k)' = InFlight(k)
  BY <1>2, <1>3, <1>4, <1>5 DEF InFlight
<1>7. UNCHANGED <<recorded, db, written, row>>
  BY DEF SnapshotAndReset
<1>8. Committed(k)' = Committed(k) /\ \A g \in Flushers : Mine(g)' = Mine(g) /\ Seen(g)' = Seen(g)
  BY <1>7 DEF Committed, Mine, Seen
<1>9. \A g \in Flushers : pc'[g] = "found" => pc[g] = "found" /\ g # f
  BY <1>1, <1>3 DEF SnapshotAndReset, FlusherGoto, Over, UsageTypeOK
<1>10. QED
  BY <1>2, <1>3, <1>4, <1>6, <1>7, <1>8, <1>9 DEF ChargesHold

\* The row that is read counts nothing that is in a snapshot.
LEMMA QueryCharges ==
    ASSUME UsageTypeOK, NEW k \in Keys, ChargesHold(k), NEW f \in Flushers, QueryRow(f)
    PROVE  ChargesHold(k)'
<1>1. Parts(k)' = Parts(k) /\ Total(Parts(k))' = Total(Parts(k))
  BY PartsStay DEF QueryRow
<1>2. UNCHANGED <<recorded, records, db, left, written>>
  BY DEF QueryRow
<1>3. InFlight(k)' = InFlight(k) /\ Committed(k)' = Committed(k) /\ \A g \in Flushers : Mine(g)' = Mine(g)
  BY <1>1, <1>2 DEF InFlight, Committed, Mine
<1>4. PICK j : row' = [row EXCEPT ![f] = [key |-> j, seen |-> db[j]]]
  BY DEF QueryRow
<1>5. row'[f].key = j /\ row'[f].seen = db[j] /\ \A g \in Flushers : g # f => row'[g] = row[g]
  BY <1>4 DEF UsageTypeOK
<1>6. ASSUME NEW g \in Flushers, pc'[g] = "found", row'[g].key = k
      PROVE  Seen(g)' + InFlight(k) <= recorded[k]
  <2>1. CASE g = f
    <3>1. Seen(g)' = Committed(k)
      BY <1>5, <1>6, <2>1 DEF Seen, Committed
    <3>2. QED
      BY <3>1 DEF ChargesHold
  <2>2. CASE g # f
    <3>1. pc[g] = "found" /\ row'[g] = row[g]
      BY <1>5, <1>6, <2>2 DEF QueryRow, FlusherGoto, UsageTypeOK
    <3>2. QED
      BY <1>6, <3>1 DEF ChargesHold, Seen
  <2>3. QED
    BY <2>1, <2>2
<1>7. QED
  BY <1>1, <1>2, <1>3, <1>6 DEF ChargesHold

\* What is written is what was seen and the flush's own part.
LEMMA WriteCharges ==
    ASSUME UsageTypeOK, NEW k \in Keys, ChargesHold(k), NEW f \in Flushers, WriteRow(f)
    PROVE  ChargesHold(k)'
<1>1. Parts(k)' = Parts(k) /\ Total(Parts(k))' = Total(Parts(k)) /\ Measured(Parts(k))
  BY PartsStay DEF WriteRow, ChargesHold
<1>2. UNCHANGED <<recorded, records, db, left>>
  BY DEF WriteRow
<1>3. InFlight(k)' = InFlight(k) /\ Committed(k)' = Committed(k)
  BY <1>1, <1>2 DEF InFlight, Committed
<1>4. /\ recorded[k] \in Nat /\ InFlight(k) \in Nat
      /\ \A g \in Flushers : left[g][k] \in Nat /\ Seen(g) \in Nat
  BY <1>1, ChargeTypes
<1>5. \A g \in Flushers : pc'[g] = "found" => pc[g] = "found" /\ row'[g] = row[g]
  BY DEF WriteRow, FlusherGoto, UsageTypeOK
<1>6. PICK j : j = row[f].key
  OBVIOUS
<1>7. pc[f] = "found" /\ written' = [written EXCEPT ![f][j] = left[f][j] + Seen(f)]
  BY <1>6 DEF WriteRow, Seen
<1>8. ASSUME NEW g \in Flushers, k \in Mine(g)'
      PROVE  written'[g][k] + InFlight(k) <= recorded[k] + left[g][k]
  <2>1. CASE g = f /\ j = k
    <3>1. written'[g][k] = left[f][k] + Seen(f)
      BY <1>7, <2>1 DEF UsageTypeOK
    <3>2. Seen(f) + InFlight(k) <= recorded[k]
      BY <1>6, <1>7, <2>1 DEF ChargesHold
    <3>3. QED
      BY <1>4, <2>1, <3>1, <3>2
  <2>2. CASE ~(g = f /\ j = k)
    <3>1. written'[g][k] = written[g][k]
      BY <1>7, <2>2 DEF UsageTypeOK
    <3>2. k \in Mine(g)
      BY <1>8, <3>1 DEF Mine
    <3>3. QED
      BY <3>1, <3>2 DEF ChargesHold
  <2>3. QED
    BY <2>1, <2>2
<1>9. QED
  BY <1>1, <1>2, <1>3, <1>5, <1>8 DEF ChargesHold, Seen

\* A commit moves the flush's part into the row, and takes it out of the sum.
LEMMA CommitCharges ==
    ASSUME FlushesAreClean, UsageTypeOK', NEW k \in Keys, ChargesHold(k), NEW f \in Flushers, Commit(f)
    PROVE  ChargesHold(k)'
<1>1. UsageTypeOK /\ Measured(Parts(k))
  BY DEF ChargesHold, FlushesAreClean
<1>2. /\ Committed(k) \in Nat /\ records[k] \in Nat /\ recorded[k] \in Nat
      /\ Total(Parts(k)) \in Nat /\ InFlight(k) \in Nat
      /\ \A g \in Flushers : /\ left[g][k] \in Nat /\ Seen(g) \in Nat
                             /\ k \in Mine(g) => written[g][k] \in Nat
  BY <1>1, ChargeTypes
<1>3. PICK rest : /\ rest = [j \in Keys |-> IF j \in Mine(f) THEN 0 ELSE left[f][j]]
                  /\ left' = [left EXCEPT ![f] = rest]
  BY DEF Commit, Mine
<1>4. /\ Measured(Parts(k)') /\ Total(Parts(k)') \in Nat
      /\ Total(Parts(k)') + left[f][k] = Total(Parts(k)) + rest[k]
      /\ \A g \in Flushers : g # f => left'[g][k] = left[g][k]
  BY <1>1, <1>3, PartsMove
<1>5. UNCHANGED <<recorded, records, row>>
  BY DEF Commit
<1>6. rest[k] \in Nat /\ rest[k] <= left[f][k]
  BY <1>2, <1>3
<1>7. InFlight(k)' + left[f][k] = InFlight(k) + rest[k] /\ InFlight(k)' \in Nat
  BY <1>2, <1>4, <1>5, <1>6 DEF InFlight
<1>8. \A g \in Flushers : pc'[g] = "found" => pc[g] = "found" /\ row'[g] = row[g] /\ Seen(g)' = Seen(g)
  BY <1>1, <1>5 DEF Commit, FlusherGoto, Over, UsageTypeOK, Seen
<1>9. Mine(f)' = {} /\ \A g \in Flushers : g # f => Mine(g)' = Mine(g) /\ written'[g][k] = written[g][k]
  BY <1>1 DEF Commit, Mine, Unwritten, UsageTypeOK
<1>10. InFlight(k)' <= InFlight(k)
  BY <1>2, <1>7, <1>6
<1>11. Committed(k)' + InFlight(k)' <= recorded[k]
  <2>1. CASE k \in Mine(f)
    <3>1. db'[k] = written[f][k] /\ written[f][k] # Absent /\ rest[k] = 0
      BY <1>3, <2>1 DEF Commit, Mine
    <3>2. Committed(k)' = written[f][k]
      BY <3>1 DEF Committed
    <3>3. written[f][k] + InFlight(k) <= recorded[k] + left[f][k]
      BY <2>1 DEF ChargesHold
    <3>4. QED
      BY <1>2, <1>7, <2>1, <3>1, <3>2, <3>3
  <2>2. CASE k \notin Mine(f)
    <3>1. Committed(k)' = Committed(k)
      BY <2>2 DEF Commit, Mine, Committed
    <3>2. QED
      BY <1>2, <1>7, <1>10, <3>1 DEF ChargesHold
  <2>3. QED
    BY <2>1, <2>2
<1>12. \A g \in Flushers : pc'[g] = "found" /\ row'[g].key = k => Seen(g)' + InFlight(k)' <= recorded[k]
  BY <1>2, <1>7, <1>8, <1>10 DEF ChargesHold
<1>13. \A g \in Flushers : k \in Mine(g)' => written'[g][k] + InFlight(k)' <= recorded[k] + left'[g][k]
  BY <1>2, <1>4, <1>7, <1>9, <1>10 DEF ChargesHold
<1>14. QED
  BY <1>4, <1>5, <1>11, <1>12, <1>13 DEF ChargesHold

\* A flush that fails takes its part out of the sum, and gives up its rows.
LEMMA FailureCharges ==
    ASSUME FlushesAreClean, UsageTypeOK', NEW k \in Keys, ChargesHold(k), NEW f \in Flushers, FlushFails(f)
    PROVE  ChargesHold(k)'
<1>1. UsageTypeOK /\ Measured(Parts(k))
  BY DEF ChargesHold, FlushesAreClean
<1>2. /\ Committed(k) \in Nat /\ records[k] \in Nat /\ recorded[k] \in Nat
      /\ Total(Parts(k)) \in Nat /\ InFlight(k) \in Nat
      /\ \A g \in Flushers : /\ left[g][k] \in Nat /\ Seen(g) \in Nat
                             /\ k \in Mine(g) => written[g][k] \in Nat
  BY <1>1, ChargeTypes
<1>3. left' = [left EXCEPT ![f] = Nothing] /\ Nothing[k] = 0
  BY DEF FlushFails, Nothing
<1>4. /\ Measured(Parts(k)') /\ Total(Parts(k)') \in Nat
      /\ Total(Parts(k)') + left[f][k] = Total(Parts(k)) + 0
      /\ \A g \in Flushers : g # f => left'[g][k] = left[g][k]
  <2>1. PICK new : new = Nothing
    OBVIOUS
  <2>2. left' = [left EXCEPT ![f] = new] /\ new[k] = 0
    BY <1>3, <2>1
  <2>3. QED
    BY <1>1, <2>2, PartsMove
<1>5. UNCHANGED <<recorded, records, db>>
  BY DEF FlushFails
<1>6. InFlight(k)' \in Nat /\ InFlight(k)' <= InFlight(k) /\ Committed(k)' = Committed(k)
  BY <1>2, <1>4, <1>5 DEF InFlight, Committed
<1>7. \A g \in Flushers : pc'[g] = "found" => g # f /\ pc[g] = "found" /\ row'[g] = row[g] /\ Seen(g)' = Seen(g)
  BY <1>1 DEF FlushFails, FlusherGoto, Over, UsageTypeOK, Seen
<1>8. Mine(f)' = {} /\ \A g \in Flushers : g # f => Mine(g)' = Mine(g) /\ written'[g][k] = written[g][k]
  BY <1>1 DEF FlushFails, Mine, Unwritten, UsageTypeOK
<1>9. \A g \in Flushers : pc'[g] = "found" /\ row'[g].key = k => Seen(g)' + InFlight(k)' <= recorded[k]
  BY <1>2, <1>6, <1>7 DEF ChargesHold
<1>10. \A g \in Flushers : k \in Mine(g)' => written'[g][k] + InFlight(k)' <= recorded[k] + left'[g][k]
  BY <1>2, <1>4, <1>6, <1>8 DEF ChargesHold
<1>11. Committed(k)' + InFlight(k)' <= recorded[k]
  BY <1>2, <1>6 DEF ChargesHold
<1>12. QED
  BY <1>4, <1>5, <1>9, <1>10, <1>11 DEF ChargesHold

\* Nothing is charged at the beginning.
LEMMA ChargesBegin == UsageInit => ChargeInv
<1> SUFFICES ASSUME UsageInit, NEW k \in Keys
             PROVE  ChargesHold(k)
  BY DEF ChargeInv
<1>1. Parts(k) = [f \in Flushers |-> 0]
  BY DEF UsageInit, Parts, Nothing
<1>2. Measured(Parts(k)) /\ Total(Parts(k)) = 0
  BY <1>1, NothingTotal
<1>3. Committed(k) = 0 /\ InFlight(k) = 0 /\ recorded[k] = 0
  BY <1>2 DEF UsageInit, Committed, InFlight, Nothing, Unwritten
<1>4. \A f \in Flushers : pc[f] # "found" /\ Mine(f) = {}
  BY DEF UsageInit, Mine, Unwritten
<1>5. QED
  BY <1>2, <1>3, <1>4 DEF ChargesHold

\* No step charges twice.
LEMMA ChargesNext == FlushesAreClean /\ ChargeInv /\ [UsageNext]_usageVars => ChargeInv'
<1> SUFFICES ASSUME FlushesAreClean, [UsageNext]_usageVars, NEW k \in Keys, ChargesHold(k)
             PROVE  ChargesHold(k)'
  BY DEF ChargeInv
<1>1. UsageTypeOK /\ UsageTypeOK'
  BY TypesKept DEF FlushesAreClean
<1>2. ASSUME NEW j \in Keys, Increment(j)
      PROVE  ChargesHold(k)'
  BY <1>1, <1>2, IncrementCharges
<1>3. ASSUME NEW b \in Background, AlreadyFlushed(b)
      PROVE  ChargesHold(k)'
  <2>1. \A f \in Flushers : pc'[f] = "found" => pc[f] = "found" /\ row'[f] = row[f]
    BY <1>1, <1>3 DEF AlreadyFlushed, FlusherGoto, UsageTypeOK
  <2>2. QED
    BY <1>3, <2>1, OtherCharges DEF AlreadyFlushed
<1>4. ASSUME NEW f \in Flushers, FlushStep(f)
      PROVE  ChargesHold(k)'
  <2>1. CASE BeginBatch(f)
    <3>1. \A g \in Flushers : pc'[g] = "found" => pc[g] = "found" /\ row'[g] = row[g]
      BY <1>1, <2>1 DEF BeginBatch, FlusherGoto, UsageTypeOK
    <3>2. QED
      BY <2>1, <3>1, OtherCharges DEF BeginBatch
  <2>2. QED
    BY <1>1, <1>4, <2>1, SnapshotCharges, QueryCharges, WriteCharges, CommitCharges, FailureCharges DEF FlushStep
<1>5. CASE Stop \/ StopReturns \/ UNCHANGED usageVars
  <2>1. UNCHANGED <<recorded, records, db, left, written, pc, row>>
    BY <1>5 DEF Stop, StopReturns, usageVars, flushVars
  <2>2. QED
    BY <2>1, OtherCharges
<1>6. CASE PeriodicEnds
  <2>1. \A f \in Flushers : pc'[f] = "found" => pc[f] = "found" /\ row'[f] = row[f]
    BY <1>1, <1>6 DEF PeriodicEnds, FlusherGoto, UsageTypeOK
  <2>2. QED
    BY <1>6, <2>1, OtherCharges DEF PeriodicEnds
<1>7. QED
  BY <1>2, <1>3, <1>4, <1>5, <1>6 DEF UsageNext

\* No step of a flush, of a request or of Stop breaks the order of the last flushes.
LEMMA StopOrderNext == UsageTypeOK /\ StopIsLast /\ [UsageNext]_usageVars => StopIsLast'
<1> SUFFICES ASSUME UsageTypeOK, StopIsLast, [UsageNext]_usageVars PROVE StopIsLast'
  OBVIOUS
<1> USE TasksAssumption
<1> DEFINE Order == /\ pc["final"] # "idle" => running # "running" /\ pc["periodic"] = "done"
                    /\ running = "stopped" => pc["final"] = "done"
<1>1. /\ pc \in [Flushers -> {"idle", "triggered", "flushing", "tx", "found", "commit", "done"}]
      /\ "final" \in Flushers /\ "periodic" \in Flushers
  BY DEF UsageTypeOK, Flushers
<1>2. Order
  BY DEF StopIsLast
<1>3. ASSUME NEW b \in Background, NEW l, pc' = [pc EXCEPT ![b] = l], running' = running
      PROVE  Order'
  <2>1. pc'["final"] = pc["final"] /\ pc'["periodic"] = pc["periodic"]
    BY <1>1, <1>3
  <2>2. QED
    BY <1>2, <1>3, <2>1
<1>4. ASSUME NEW k \in Keys, Increment(k) PROVE Order'
  <2>1. running' = running
    BY <1>4 DEF Increment
  <2>2. CASE pc' = pc
    BY <1>2, <2>1, <2>2
  <2>3. ASSUME NEW b \in Background, FlusherGoto(b, "triggered") PROVE Order'
    BY <1>3, <2>1, <2>3 DEF FlusherGoto
  <2>4. QED
    BY <1>4, <2>2, <2>3 DEF Increment
<1>5. ASSUME NEW b \in Background, AlreadyFlushed(b) PROVE Order'
  BY <1>3, <1>5 DEF AlreadyFlushed, FlusherGoto
<1>6. ASSUME NEW f \in Flushers, FlushStep(f) PROVE Order'
  <2>1. /\ running' = running
        /\ \E l \in {"idle", "triggered", "flushing", "tx", "found", "commit", "done"} :
              pc' = [pc EXCEPT ![f] = l] /\ (l = "idle" => f # "final")
        /\ pc[f] = "idle" => MayFlush(f)
        /\ pc[f] # "done"
    <3>1. CASE SnapshotAndReset(f)
      BY <1>1, <3>1 DEF SnapshotAndReset, FlusherGoto, Over, MayFlush
    <3>2. CASE BeginBatch(f) \/ QueryRow(f) \/ WriteRow(f)
      BY <3>2 DEF BeginBatch, QueryRow, WriteRow, FlusherGoto
    <3>3. CASE Commit(f) \/ FlushFails(f)
      BY <3>3 DEF Commit, FlushFails, FlusherGoto, Over, Flushing
    <3>4. QED
      BY <1>6, <3>1, <3>2, <3>3 DEF FlushStep
  <2>2. CASE f = "final"
    <3>1. pc'["periodic"] = pc["periodic"]
      BY <1>1, <2>1, <2>2
    <3>2. running # "running" /\ pc["periodic"] = "done" /\ running # "stopped"
      BY <1>2, <2>1, <2>2 DEF MayFlush
    <3>3. QED
      BY <2>1, <3>1, <3>2
  <2>3. CASE f = "periodic"
    <3>1. pc'["final"] = pc["final"]
      BY <1>1, <2>1, <2>3
    <3>2. pc["final"] = "idle"
      BY <1>2, <2>1, <2>3
    <3>3. QED
      BY <1>2, <2>1, <3>1, <3>2
  <2>4. CASE f \in Background
    BY <1>3, <2>1, <2>4
  <2>5. QED
    BY <2>2, <2>3, <2>4 DEF Flushers
<1>7. ASSUME Stop PROVE Order'
  BY <1>2, <1>7 DEF Stop, flushVars
<1>p. ASSUME PeriodicEnds PROVE Order'
  <2>1. pc'["final"] = pc["final"] /\ pc'["periodic"] = "done" /\ running' = running
    BY <1>1, <1>p DEF PeriodicEnds, FlusherGoto
  <2>2. QED
    BY <1>2, <2>1
<1>8. ASSUME StopReturns PROVE Order'
  BY <1>2, <1>8 DEF StopReturns, flushVars
<1>9. ASSUME UNCHANGED usageVars PROVE Order'
  BY <1>2, <1>9 DEF usageVars, flushVars
<1>10. Order'
  <2> HIDE DEF Order
  <2>1. QED
    BY <1>4, <1>5, <1>6, <1>7, <1>p, <1>8, <1>9 DEF UsageNext
<1>11. QED
  BY <1>10 DEF StopIsLast, Flushing, Flushers

\* However many flushes overlap, fail halfway or race for the creation of a row,
\* no usage is charged twice: what is in the database and on its way there was
\* recorded; flushes are clean; and when Stop has returned only those that
\* increments started can still be under way.
THEOREM NothingIsChargedTwice == UsageServiceSpec => []UsageInv
<1>1. FlushesAreClean /\ ChargeInv /\ StopIsLast => UsageInv
  BY DEF ChargeInv, ChargesHold, NeverOvercharged, UsageInv
<1>2. UsageInit => StopIsLast
  BY DEF UsageInit, StopIsLast, Flushers
<1>3. FlushesAreClean /\ StopIsLast /\ [UsageNext]_usageVars => StopIsLast'
  BY StopOrderNext DEF FlushesAreClean
<1>4. QED
  BY <1>1, <1>2, <1>3, UsageBegins, ChargesBegin, CleanNext, ChargesNext, PTL DEF UsageServiceSpec

-----------------------------------------------------------------------------
(* The server's start.                                                     *)

BootTypes ==
    /\ server \in Stages /\ outage \in BOOLEAN /\ clean \in BOOLEAN
    /\ seed \in [at : Nat \ {0}, create : BOOLEAN]
    /\ server = "versions" => seed.at <= 2
    /\ server = "plans" => seed.at <= Len(DefaultPlans)

\* A plan's row has the number of its entry in the list.
PlanRows ==
    \A i \in DOMAIN plans :
        /\ i \in 1..Len(DefaultPlans)
        /\ plans[i].name = DefaultPlans[i] /\ plans[i].limit = PlanLimit

VersionRows == \A k \in DOMAIN versions : DOMAIN versions[k] = ClientVersionColumns

\* What the seeding has got through, and what it may rely on for its insert.
SeedProgress ==
    /\ server = "versions" => \A n \in 1..2 : n < seed.at => DefaultKeys[n] \in DOMAIN versions
    /\ server = "versions" /\ seed.create => DefaultKeys[seed.at] \notin DOMAIN versions
    /\ server \in {"plans", "caddy", "router"} /\ clean => \A n \in 1..2 : DefaultKeys[n] \in DOMAIN versions
    /\ server = "plans" /\ clean => \A n \in 1..Len(DefaultPlans) : n < seed.at => n \in DOMAIN plans
    /\ server = "plans" /\ seed.create => seed.at \notin DOMAIN plans
    /\ server \in {"caddy", "router"} /\ clean => 1..Len(DefaultPlans) \subseteq DOMAIN plans

BootInv == BootTypes /\ PlanRows /\ VersionRows /\ SeedProgress

\* A step of the process, whatever else the server does with it.
BootNext ==
    \/ Boot \/ Seeding \/ LoadConfig \/ Start \/ Publish \/ ShutdownHTTP
    \/ \E slow \in BOOLEAN : StopRouter(slow)
    \/ Stopped \/ Crash \/ DatabaseLost \/ DatabaseBack

\* The list of keys has two entries.
LEMMA TwoKeys == Len(DefaultKeys) = 2
BY DEF DefaultKeys

\* A default plan is found by its name exactly when its row is there.
LEMMA PlanFound ==
    ASSUME PlanRows, NEW n \in 1..Len(DefaultPlans)
    PROVE  PlanExist(plans, [name |-> DefaultPlans[n]]) <=> n \in DOMAIN plans
<1>1. PlanFields([name |-> DefaultPlans[n]]) = {"name"}
  BY DEF PlanFields, PlanColumns
<1>2. \A i \in DOMAIN plans : PlanEQ(plans[i], [name |-> DefaultPlans[n]]) <=> plans[i].name = DefaultPlans[n]
  BY <1>1 DEF PlanEQ
<1>3. \A i \in DOMAIN plans : PlanEQ(plans[i], [name |-> DefaultPlans[n]]) <=> i = n
  BY <1>2, BootAssumption DEF PlanRows
<1>4. QED
  BY <1>3 DEF PlanExist, PlanWhere

\* A plan that is not there is inserted: no other row has its name.
LEMMA PlanInserted ==
    ASSUME PlanRows, seed.at \in 1..Len(DefaultPlans), seed.at \notin DOMAIN plans
    PROVE  /\ NewPlan.err = "none"
           /\ DOMAIN NewPlan.table = DOMAIN plans \cup {seed.at}
           /\ NewPlan.table[seed.at].name = DefaultPlans[seed.at]
           /\ NewPlan.table[seed.at].limit = PlanLimit
           /\ \A i \in DOMAIN plans : NewPlan.table[i] = plans[i]
<1> DEFINE m == PlanNew(DefaultPlans[seed.at], PlanLimit)
           entry == PlanSpec(m)
<1>1. Filled(m, PlanDefaults) = m
  BY DEF Filled, PlanDefaults, PlanNew
<1>2. PlanCheck(Filled(m, PlanDefaults))
  BY <1>1 DEF PlanCheck, PlanFields, PlanColumns, PlanNew
<1>3. entry.name = DefaultPlans[seed.at] /\ entry.limit = PlanLimit
  BY <1>1 DEF PlanSpec, PlanColumns, PlanNew
<1> HIDE DEF entry
<1>4. ASSUME NEW u \in PlanUnique
      PROVE  ~Clashes(plans, seed.at, entry, u)
  <2>1. u = {"name"}
    BY <1>4 DEF PlanUnique
  <2>2. \A i \in DOMAIN plans : plans[i].name # entry.name
    BY <1>3, BootAssumption DEF PlanRows
  <2>3. QED
    BY <2>1, <2>2 DEF Clashes
<1>5. NewPlan = Succeeds(Put(plans, seed.at, entry))
  BY <1>2, <1>4 DEF NewPlan, PlanCreate, Inserted, entry
<1>6. QED
  BY <1>3, <1>5 DEF Succeeds, Put

VersionPut(t, k, u) ==
    /\ DOMAIN u = DOMAIN t \cup {k}
    /\ DOMAIN u[k] = ClientVersionColumns
    /\ \A i \in DOMAIN t : i # k => u[i] = t[i]

\* A version's row that is written: its columns are set and no other row changes.
LEMMA VersionWritten ==
    ASSUME NEW t, NEW k, NEW entry, DOMAIN entry = ClientVersionColumns,
           k \in DOMAIN t => DOMAIN t[k] = ClientVersionColumns,
           NEW u, u = UpdateClientVersionConfig(t, k, entry)
    PROVE  VersionPut(t, k, u)
<1> USE DEF VersionPut
<1>1. CASE k \in DOMAIN t
  <2>1. u = Put(t, k, Mutated(t[k], entry, ClientVersionFields(entry)))
    BY <1>1 DEF UpdateClientVersionConfig, ClientVersionExist, ClientVersionUpdateOne, Rewritten, Succeeds
  <2>2. QED
    BY <1>1, <2>1 DEF Put, Mutated
<1>2. CASE k \notin DOMAIN t
  <2>1. Filled(entry, ClientVersionDefaults) = [c \in ClientVersionColumns |-> entry[c]]
    BY DEF Filled, ClientVersionDefaults, ClientVersionColumns
  <2>2. ClientVersionCheck(Filled(entry, ClientVersionDefaults))
    BY <2>1 DEF ClientVersionCheck, ClientVersionFields
  <2>3. u = Put(t, k, ClientVersionSpec(entry))
    BY <1>2, <2>2 DEF UpdateClientVersionConfig, ClientVersionExist, ClientVersionCreate, Inserted, Succeeds
  <2>4. QED
    BY <1>2, <2>3 DEF Put, ClientVersionSpec
<1>3. QED
  BY <1>1, <1>2

\* The first entry of a stage.
LEMMA FirstIs == FirstSeed \in [at : Nat \ {0}, create : BOOLEAN] /\ FirstSeed.at = 1 /\ FirstSeed.create = FALSE
BY DEF FirstSeed

\* A server that was never started.
LEMMA BootBegins == BootInit => BootInv
<1> SUFFICES ASSUME BootInit PROVE BootInv
  OBVIOUS
<1>1. DOMAIN plans = {} /\ DOMAIN versions = {}
  BY DEF BootInit
<1>2. BootTypes
  BY FirstIs DEF BootInit, BootTypes, Stages
<1>3. PlanRows /\ VersionRows
  BY <1>1 DEF PlanRows, VersionRows
<1>4. SeedProgress
  BY DEF BootInit, SeedProgress
<1>5. QED
  BY <1>2, <1>3, <1>4 DEF BootInv

\* The end of a stage other than the two of the seeding writes nothing.
LEMMA LeaveKeeps ==
    ASSUME BootInv, NEW next \in Stages \ {"versions", "plans", "caddy", "router"}, Leave(next), clean' \in BOOLEAN,
           UNCHANGED <<plans, versions, outage>>
    PROVE  BootInv'
BY FirstIs DEF BootInv, BootTypes, PlanRows, VersionRows, SeedProgress, Leave

\* A statement that failed ends the seeding of the versions, and is remembered.
LEMMA CutKeeps ==
    ASSUME BootInv, server' = "plans", seed' = FirstSeed, clean' = FALSE, UNCHANGED <<plans, versions, outage>>
    PROVE  BootInv'
<1>1. BootTypes'
  <2>1. seed' \in [at : Nat \ {0}, create : BOOLEAN] /\ seed'.at <= Len(DefaultPlans)
    BY FirstIs, BootAssumption
  <2>2. server' \in Stages /\ outage' \in BOOLEAN /\ clean' \in BOOLEAN
    BY DEF BootInv, BootTypes, Stages
  <2>3. QED
    BY <2>1, <2>2 DEF BootTypes
<1>2. PlanRows' /\ VersionRows'
  BY DEF BootInv, PlanRows, VersionRows
<1>3. SeedProgress'
  BY FirstIs DEF SeedProgress
<1>4. QED
  BY <1>1, <1>2, <1>3 DEF BootInv

\* The check of a version: an outage ends the stage and is remembered.
LEMMA CheckVersionKeeps == BootInv /\ CheckVersion => BootInv'
<1> SUFFICES ASSUME BootInv, CheckVersion PROVE BootInv'
  OBVIOUS
<1> USE DEF BootInv, CheckVersion
<1>1. seed.at \in 1..2 /\ seed.at \in Nat
  BY DEF BootTypes
<1>2. CASE outage
  <2>1. server' = "plans" /\ seed' = FirstSeed /\ clean' = FALSE /\ UNCHANGED <<plans, versions, outage>>
    BY <1>2 DEF Leave
  <2>2. QED
    BY <2>1, CutKeeps
<1>3. CASE ~outage /\ Exists(versions, DefaultKeys[seed.at])
  <2>1. DefaultKeys[seed.at] \in DOMAIN versions
    BY <1>3 DEF Exists, ClientVersionExist
  <2>2. CASE seed.at < 2
    <3>1. server' = "versions" /\ seed' = [at |-> seed.at + 1, create |-> FALSE]
      BY <1>3, <2>2, TwoKeys DEF Advance
    <3>2. seed'.at = seed.at + 1 /\ seed'.create = FALSE /\ seed' \in [at : Nat \ {0}, create : BOOLEAN]
      BY <1>1, <3>1
    <3>3. QED
      BY <1>1, <1>3, <2>1, <2>2, <3>1, <3>2 DEF BootTypes, PlanRows, VersionRows, SeedProgress, Stages
  <2>3. CASE ~(seed.at < 2)
    <3>1. server' = "plans" /\ seed' = FirstSeed
      BY <1>3, <2>3, TwoKeys DEF Advance
    <3>2. \A n \in 1..2 : DefaultKeys[n] \in DOMAIN versions
      BY <1>1, <2>1, <2>3 DEF SeedProgress
    <3>3. QED
      BY <1>1, <1>3, <3>1, <3>2, FirstIs, BootAssumption DEF BootTypes, PlanRows, VersionRows, SeedProgress, Stages
  <2>4. QED
    BY <2>2, <2>3
<1>4. CASE ~outage /\ ~Exists(versions, DefaultKeys[seed.at])
  <2>1. seed'.at = seed.at /\ seed'.create = TRUE /\ seed' \in [at : Nat \ {0}, create : BOOLEAN]
    BY <1>4 DEF BootTypes
  <2>2. DefaultKeys[seed.at] \notin DOMAIN versions
    BY <1>4 DEF Exists, ClientVersionExist
  <2>3. QED
    BY <1>4, <2>1, <2>2 DEF BootTypes, PlanRows, VersionRows, SeedProgress, Stages
<1>5. QED
  BY <1>2, <1>3, <1>4

\* The row of a version that is not there is written; every other row stays.
LEMMA VersionCreated ==
    ASSUME BootInv, CreateVersion, ~outage
    PROVE  /\ DOMAIN versions' = DOMAIN versions \cup {DefaultKeys[seed.at]}
           /\ VersionRows'
           /\ \A k \in DOMAIN versions : versions'[k] = versions[k]
<1> DEFINE entry == DefaultConfig(Semver(1))
           key == DefaultKeys[seed.at]
<1>1. DOMAIN entry = ClientVersionColumns
  BY DEF DefaultConfig, ClientVersionColumns
<1>2. key \notin DOMAIN versions
  BY DEF BootInv, SeedProgress, CreateVersion
<1>3. versions' = UpdateClientVersionConfig(versions, key, entry)
  BY DEF CreateVersion
<1> HIDE DEF entry, key
<1>4. VersionPut(versions, key, versions')
  BY <1>1, <1>2, <1>3, VersionWritten
<1>5. QED
  BY <1>2, <1>4 DEF BootInv, VersionRows, VersionPut, key

\* The insert of a version.
LEMMA CreateVersionKeeps == BootInv /\ CreateVersion => BootInv'
<1> SUFFICES ASSUME BootInv, CreateVersion PROVE BootInv'
  OBVIOUS
<1> USE DEF BootInv
<1>1. seed.at \in 1..2 /\ seed.at \in Nat
  BY DEF BootTypes, CreateVersion
<1>2. CASE outage
  <2>1. server' = "plans" /\ seed' = FirstSeed /\ clean' = FALSE /\ UNCHANGED <<plans, versions, outage>>
    BY <1>2 DEF CreateVersion, Leave
  <2>2. QED
    BY <2>1, CutKeeps
<1>3. CASE ~outage
  <2>1. /\ DOMAIN versions' = DOMAIN versions \cup {DefaultKeys[seed.at]}
        /\ VersionRows'
    BY <1>3, VersionCreated
  <2>2. PlanRows' /\ UNCHANGED <<plans, outage, clean>>
    BY <1>3 DEF CreateVersion, PlanRows
  <2>3. CASE seed.at < 2
    <3>1. server' = "versions" /\ seed' = [at |-> seed.at + 1, create |-> FALSE]
      BY <1>3, <2>3, TwoKeys DEF Advance, CreateVersion
    <3>2. seed'.at = seed.at + 1 /\ seed'.create = FALSE /\ seed' \in [at : Nat \ {0}, create : BOOLEAN]
      BY <1>1, <3>1
    <3>3. SeedProgress'
      BY <1>1, <2>1, <2>3, <3>1, <3>2 DEF SeedProgress, CreateVersion
    <3>4. QED
      BY <1>1, <2>1, <2>2, <2>3, <3>1, <3>2, <3>3 DEF BootTypes, Stages
  <2>4. CASE ~(seed.at < 2)
    <3>1. server' = "plans" /\ seed' = FirstSeed
      BY <1>3, <2>4, TwoKeys DEF Advance, CreateVersion
    <3>2. \A n \in 1..2 : DefaultKeys[n] \in DOMAIN versions'
      BY <1>1, <2>1, <2>4 DEF SeedProgress, CreateVersion
    <3>3. QED
      BY <2>1, <2>2, <3>1, <3>2, FirstIs, BootAssumption DEF BootTypes, SeedProgress, Stages
  <2>5. QED
    BY <2>3, <2>4
<1>4. QED
  BY <1>2, <1>3

\* The check of a plan: without an answer it is skipped, and remembered.
LEMMA CheckPlanKeeps == BootInv /\ CheckPlan => BootInv'
<1> SUFFICES ASSUME BootInv, CheckPlan PROVE BootInv'
  OBVIOUS
<1> USE DEF BootInv, CheckPlan
<1>1. seed.at \in 1..Len(DefaultPlans) /\ seed.at \in Nat /\ Len(DefaultPlans) \in Nat \ {0}
  BY BootAssumption DEF BootTypes
<1>2. PlanRows' /\ VersionRows' /\ UNCHANGED <<plans, versions, outage>>
  BY DEF PlanRows, VersionRows
<1>3. CASE outage \/ PlanExist(plans, [name |-> DefaultPlans[seed.at]])
  <2>1. clean' \in BOOLEAN /\ (clean' => clean /\ seed.at \in DOMAIN plans)
    BY <1>1, <1>3, PlanFound DEF BootTypes
  <2>2. CASE seed.at < Len(DefaultPlans)
    <3>1. server' = "plans" /\ seed' = [at |-> seed.at + 1, create |-> FALSE]
      BY <1>3, <2>2 DEF Advance
    <3>2. seed'.at = seed.at + 1 /\ seed'.create = FALSE /\ seed' \in [at : Nat \ {0}, create : BOOLEAN]
      BY <1>1, <3>1
    <3>3. SeedProgress'
      BY <1>1, <1>2, <2>1, <3>1, <3>2 DEF SeedProgress
    <3>4. QED
      BY <1>1, <1>2, <2>1, <2>2, <3>1, <3>2, <3>3 DEF BootTypes, Stages
  <2>3. CASE ~(seed.at < Len(DefaultPlans))
    <3>1. server' = "caddy" /\ seed' = FirstSeed
      BY <1>3, <2>3 DEF Advance
    <3>2. clean' => \A n \in 1..Len(DefaultPlans) : n \in DOMAIN plans
      BY <1>1, <2>1, <2>3 DEF SeedProgress
    <3>3. QED
      BY <1>2, <2>1, <3>1, <3>2, FirstIs DEF BootTypes, SeedProgress, Stages
  <2>4. QED
    BY <2>2, <2>3
<1>4. CASE ~(outage \/ PlanExist(plans, [name |-> DefaultPlans[seed.at]]))
  <2>1. seed'.at = seed.at /\ seed'.create = TRUE /\ seed' \in [at : Nat \ {0}, create : BOOLEAN]
    BY <1>4 DEF BootTypes
  <2>2. seed.at \notin DOMAIN plans
    BY <1>1, <1>4, PlanFound
  <2>3. QED
    BY <1>2, <1>4, <2>1, <2>2 DEF BootTypes, SeedProgress, Stages
<1>5. QED
  BY <1>3, <1>4

\* The insert of a plan, which cannot meet a constraint.
LEMMA CreatePlanKeeps == BootInv /\ CreatePlan => BootInv'
<1> SUFFICES ASSUME BootInv, CreatePlan PROVE BootInv'
  OBVIOUS
<1> USE DEF BootInv
<1>1. seed.at \in 1..Len(DefaultPlans) /\ seed.at \in Nat /\ Len(DefaultPlans) \in Nat \ {0}
  BY BootAssumption DEF BootTypes, CreatePlan
<1>2. seed.at \notin DOMAIN plans
  BY DEF SeedProgress, CreatePlan
<1>3. /\ NewPlan.err = "none"
      /\ DOMAIN NewPlan.table = DOMAIN plans \cup {seed.at}
      /\ NewPlan.table[seed.at].name = DefaultPlans[seed.at]
      /\ NewPlan.table[seed.at].limit = PlanLimit
      /\ \A i \in DOMAIN plans : NewPlan.table[i] = plans[i]
  BY <1>1, <1>2, PlanInserted
<1>4. VersionRows' /\ UNCHANGED <<versions, outage>>
  BY DEF CreatePlan, VersionRows
<1>5. CASE outage
  <2>1. server' = "caddy" /\ seed' = FirstSeed /\ clean' = FALSE /\ plans' = plans
    BY <1>5 DEF CreatePlan, Leave, BootTypes
  <2>2. QED
    BY <1>4, <2>1, FirstIs DEF BootTypes, PlanRows, SeedProgress, Stages
<1>6. CASE ~outage
  <2>1. plans' = NewPlan.table /\ clean' = clean
    BY <1>3, <1>6 DEF CreatePlan
  <2>2. DOMAIN plans' = DOMAIN plans \cup {seed.at} /\ PlanRows'
    BY <1>1, <1>3, <2>1 DEF PlanRows
  <2>3. CASE seed.at < Len(DefaultPlans)
    <3>1. server' = "plans" /\ seed' = [at |-> seed.at + 1, create |-> FALSE]
      BY <1>3, <1>6, <2>3 DEF Advance, CreatePlan
    <3>2. seed'.at = seed.at + 1 /\ seed'.create = FALSE /\ seed' \in [at : Nat \ {0}, create : BOOLEAN]
      BY <1>1, <3>1
    <3>3. SeedProgress'
      BY <1>1, <1>4, <2>1, <2>2, <3>1, <3>2 DEF SeedProgress, CreatePlan
    <3>4. QED
      BY <1>1, <1>4, <2>1, <2>2, <2>3, <3>1, <3>2, <3>3 DEF BootTypes, Stages
  <2>4. CASE ~(seed.at < Len(DefaultPlans))
    <3>1. server' = "caddy" /\ seed' = FirstSeed
      BY <1>3, <1>6, <2>4 DEF Advance, CreatePlan
    <3>2. clean' => \A n \in 1..Len(DefaultPlans) : n \in DOMAIN plans'
      BY <1>1, <2>1, <2>2, <2>4 DEF SeedProgress, CreatePlan
    <3>3. QED
      BY <1>4, <2>1, <2>2, <3>1, <3>2, FirstIs DEF BootTypes, SeedProgress, Stages, CreatePlan
  <2>5. QED
    BY <2>3, <2>4
<1>7. QED
  BY <1>5, <1>6 DEF BootTypes

\* A published version changes no row but its own.
LEMMA PublishKeeps == BootInv /\ Publish => BootInv'
<1> SUFFICES ASSUME BootInv, Publish PROVE BootInv'
  OBVIOUS
<1> DEFINE entry == [DefaultConfig(Semver(2)) EXCEPT !.force = TRUE]
<1>1. DOMAIN entry = ClientVersionColumns
  BY DEF DefaultConfig, ClientVersionColumns
<1>2. versions' = UpdateClientVersionConfig(versions, DefaultKeys[1], entry)
  BY DEF Publish
<1>3. DefaultKeys[1] \in DOMAIN versions => DOMAIN versions[DefaultKeys[1]] = ClientVersionColumns
  BY DEF BootInv, VersionRows
<1> HIDE DEF entry
<1>4. VersionPut(versions, DefaultKeys[1], versions')
  BY <1>1, <1>2, <1>3, VersionWritten
<1>5. VersionRows'
  BY <1>4 DEF BootInv, VersionRows, VersionPut
<1>6. QED
  BY <1>5 DEF BootInv, Publish, BootTypes, PlanRows, SeedProgress

\* The seeding's invariant is inductive.
LEMMA BootSteps == BootInv /\ (BootNext \/ UNCHANGED bootVars) => BootInv'
<1> SUFFICES ASSUME BootInv, BootNext \/ UNCHANGED bootVars PROVE BootInv'
  OBVIOUS
<1>1. CASE Boot
  BY <1>1, FirstIs DEF Boot, Leave, BootInv, BootTypes, PlanRows, VersionRows, SeedProgress, Stages
<1>2. CASE Seeding
  BY <1>2, CheckVersionKeeps, CreateVersionKeeps, CheckPlanKeeps, CreatePlanKeeps DEF Seeding
<1>3. CASE LoadConfig
  BY <1>3, FirstIs DEF LoadConfig, Leave, BootInv, BootTypes, PlanRows, VersionRows, SeedProgress, Stages
<1>4. CASE Start \/ ShutdownHTTP \/ Stopped \/ Crash
  <2>1. clean' \in BOOLEAN /\ UNCHANGED <<plans, versions, outage>>
    BY <1>4 DEF Start, ShutdownHTTP, Stopped, Crash, BootInv, BootTypes
  <2>2. \E next \in Stages \ {"versions", "plans", "caddy", "router"} : Leave(next)
    BY <1>4 DEF Start, ShutdownHTTP, Stopped, Crash, Stages
  <2>3. QED
    BY <2>1, <2>2, LeaveKeeps
<1>5. ASSUME NEW slow \in BOOLEAN, StopRouter(slow)
      PROVE  BootInv'
  <2>1. clean' \in BOOLEAN /\ UNCHANGED <<plans, versions, outage>>
    BY <1>5 DEF StopRouter, BootInv, BootTypes
  <2>2. \E next \in Stages \ {"versions", "plans", "caddy", "router"} : Leave(next)
    BY <1>5 DEF StopRouter, Stages
  <2>3. QED
    BY <2>1, <2>2, LeaveKeeps
<1>6. CASE Publish
  BY <1>6, PublishKeeps
<1>7. CASE DatabaseLost \/ DatabaseBack
  <2>1. UNCHANGED <<server, seed, plans, versions, clean>> /\ outage' \in BOOLEAN
    BY <1>7 DEF DatabaseLost, DatabaseBack
  <2>2. QED
    BY <2>1 DEF BootInv, BootTypes, PlanRows, VersionRows, SeedProgress
<1>8. CASE UNCHANGED bootVars
  BY <1>8 DEF bootVars, BootInv, BootTypes, PlanRows, VersionRows, SeedProgress
<1>9. QED
  BY <1>1, <1>2, <1>3, <1>4, <1>5, <1>6, <1>7, <1>8 DEF BootNext

\* Every step of the server is one of the process, or leaves it as it is.
LEMMA NextIsBoot == [Next]_vars => BootNext \/ UNCHANGED bootVars
<1> SUFFICES ASSUME [Next]_vars PROVE BootNext \/ UNCHANGED bootVars
  OBVIOUS
<1>1. ASSUME NEW r \in Requests, Arrive(r) \/ Step(r) \/ EndSession(r) \/ Hangs(r)
      PROVE  UNCHANGED bootVars
  BY <1>1 DEF Arrive, Step, EndSession, Hangs, OnlyReq, routeToGRPCTunnel, routeToGRPCChunkedStreaming, LookupStream,
              CheckEnabled, CheckQuota, ReadLimit, SumUsage, StoreResult, AdmitRequest, SendStreamed, Respond,
              routeToTCPTunnel, Established, WaitOver, CheckUpgrade, TakeConnection, Handshake, AfterError
<1>2. ASSUME NEW u \in UserIds, Age(u)
      PROVE  UNCHANGED bootVars
  BY <1>2 DEF Age
<1>3. ASSUME NEW d \in Domains, ClientConnects(d) \/ ClientLeaves(d) \/ PoolGrows(d) \/ PoolEmpties(d)
      PROVE  UNCHANGED bootVars
  BY <1>3 DEF ClientConnects, ClientLeaves, PoolGrows, PoolEmpties
<1>4. CASE CreateTunnel \/ UpdateTunnel \/ DeleteTunnel \/ VerifyTunnels \/ Refresh \/ Flush \/ NewMonth
  BY <1>4 DEF CreateTunnel, UpdateTunnel, DeleteTunnel, VerifyTunnels, Refresh, Flush, NewMonth
<1>5. CASE Boots \/ Starts \/ Ends
  BY <1>5 DEF Boots, Starts, Ends, BootNext
<1>6. CASE StopsRouter
  <2>1. PICK slow \in {FALSE, \E d \in Domains : IsTunnelActive(d)} : StopRouter(slow)
    BY <1>6 DEF StopsRouter
  <2>2. slow \in BOOLEAN
    BY <2>1
  <2>3. QED
    BY <2>1, <2>2 DEF BootNext
<1>7. CASE UNCHANGED vars
  BY <1>7 DEF vars
<1>8. QED
  BY <1>1, <1>2, <1>3, <1>4, <1>5, <1>6, <1>7 DEF Next

\* Starting again after a crash anywhere in the seeding completes it: a server
\* that is about to accept connections, and met no failed statement on its way,
\* has every default plan and version, for any list of plans.
THEOREM SeedingCompletes == Spec => []SeedsComplete
<1>1. Init => BootInv
  BY BootBegins DEF Init
<1>2. BootInv /\ [Next]_vars => BootInv'
  BY BootSteps, NextIsBoot
<1>3. BootInv => SeedsComplete
  <2> SUFFICES ASSUME BootInv, server = "router", clean
               PROVE  HasPlans /\ HasVersions
    BY DEF SeedsComplete
  <2>1. HasPlans
    BY PlanFound DEF HasPlans, BootInv, SeedProgress
  <2>2. HasVersions
    BY TwoKeys DEF HasVersions, BootInv, SeedProgress, Exists, ClientVersionExist
  <2>3. QED
    BY <2>1, <2>2
<1>4. QED
  BY <1>1, <1>2, <1>3, PTL DEF Spec

\* No start overwrites what an administrator has published, however often the
\* server is restarted: outside of normal operation, rows of plans and versions
\* are only added.
THEOREM SeedingOverwritesNothing == Spec => SeedsOverwriteNothing
<1> DEFINE Untouched == server # "up" =>
         /\ \A p \in DOMAIN plans : p \in DOMAIN plans' /\ plans'[p] = plans[p]
         /\ \A k \in DOMAIN versions : k \in DOMAIN versions' /\ versions'[k] = versions[k]
<1>1. Init => BootInv
  BY BootBegins DEF Init
<1>2. BootInv /\ [Next]_vars => BootInv'
  BY BootSteps, NextIsBoot
<1>3. BootInv /\ [Next]_vars => [Untouched]_bootVars
  <2> SUFFICES ASSUME BootInv, BootNext, server # "up"
               PROVE  Untouched
    BY NextIsBoot
  <2>1. CASE CreateVersion
    <3>1. CASE outage
      BY <2>1, <3>1 DEF CreateVersion
    <3>2. CASE ~outage
      BY <2>1, <3>2, VersionCreated DEF CreateVersion
    <3>3. QED
      BY <3>1, <3>2
  <2>2. CASE CreatePlan
    <3>1. CASE UNCHANGED plans
      BY <2>2, <3>1 DEF CreatePlan
    <3>2. CASE plans' = NewPlan.table
      <4>1. seed.at \in 1..Len(DefaultPlans) /\ seed.at \notin DOMAIN plans
        BY <2>2, BootAssumption DEF CreatePlan, BootInv, BootTypes, SeedProgress
      <4>2. QED
        BY <2>2, <3>2, <4>1, PlanInserted DEF CreatePlan, BootInv
    <3>3. QED
      BY <2>2, <3>1, <3>2 DEF CreatePlan
  <2>3. CASE CheckVersion \/ CheckPlan
    BY <2>3 DEF CheckVersion, CheckPlan
  <2>4. CASE ~Seeding
    BY <2>4 DEF BootNext, Boot, LoadConfig, Start, Publish, ShutdownHTTP, StopRouter, Stopped, Crash,
                DatabaseLost, DatabaseBack
  <2>5. QED
    BY <2>1, <2>2, <2>3, <2>4 DEF Seeding
<1>4. QED
  BY <1>1, <1>2, <1>3, PTL DEF Spec, SeedsOverwriteNothing

-----------------------------------------------------------------------------
(* The connections.                                                        *)

Owners == UserIds \cup {0}
Answers == {"allow", "block"}
Limits == {0, DefaultLimit, PlanLimit}

Connections ==
    [pc : PCs, domain : Domains, route : {"none", "tcp", "chunked", "upload", "plain"}, owner : Owners, user : Owners,
     limit : Limits, decision : Answers, open : BOOLEAN, said : {0, 1}, err : {"none", "connection", "other"},
     retry : BOOLEAN]

\* An open connection has not been answered, unless it has become a session.
Silent(c) == c.open /\ c.pc # "session" => c.said = 0

Sound(c) == c \in Connections /\ Silent(c)

ConnectionsInv == req \in [Requests -> Connections] /\ \A r \in Requests : Silent(req[r])

TunnelRows(t) ==
    \A i \in DOMAIN t : DOMAIN t[i] = TunnelColumns /\ t[i].domain \in Domains /\ t[i].owner \in UserIds

\* What the process keeps, and the rows it is taken from.
ServerInv ==
    /\ quota \in [UserIds -> {"none", "allow", "block"}]
    /\ memory \in [Pairs -> 0..MaxBytes]
    /\ stream \in [Domains -> Owners] /\ pool \in [Domains -> Owners]
    /\ cache \in SUBSET Domains /\ result \in SUBSET Domains
    /\ loop \in {"waiting", "building", "stopped"}
    /\ TunnelRows(tunnels)

ServingInv == BootInv /\ ServerInv /\ ConnectionsInv

\* The enabled domains are domains.
LEMMA EnabledAreDomains ==
    ASSUME TunnelRows(tunnels)
    PROVE  EnabledDomains(tunnels) \subseteq Domains
BY DEF TunnelRows, EnabledDomains, TunnelAll, TunnelRow, TunnelWhere, TunnelColumns

\* A connection that is over, whatever it was answered.
LEMMA NoRequestIs ==
    /\ NoRequest \in Connections /\ NoRequest.open = FALSE /\ NoRequest.said = 0
    /\ \A s \in {0, 1} : Sound([NoRequest EXCEPT !.said = s])
<1>1. (CHOOSE d \in Domains : TRUE) \in Domains
  BY RoutingAssumption
<1>2. NoRequest \in Connections /\ NoRequest.open = FALSE /\ NoRequest.said = 0
  BY <1>1 DEF NoRequest, Connections, PCs, Owners, Answers, Limits
<1> HIDE DEF NoRequest
<1>3. ASSUME NEW s \in {0, 1}
      PROVE  Sound([NoRequest EXCEPT !.said = s])
  BY <1>2 DEF Sound, Silent, Connections
<1>4. QED
  BY <1>2, <1>3

\* A connection's step changes this connection only.
LEMMA ConnectionKept ==
    ASSUME ConnectionsInv, NEW r \in Requests, NEW c, Sound(c), req' = [req EXCEPT ![r] = c]
    PROVE  ConnectionsInv'
BY DEF ConnectionsInv, Sound

\* A status line is the first one, unless the connection is a session's.
LEMMA SaidIs ==
    ASSUME ConnectionsInv, NEW r \in Requests, req[r].pc # "session"
    PROVE  Said(r) \in {0, 1}
BY DEF ConnectionsInv, Connections, Silent, Said

\* An answer ends the connection.
LEMMA ReplyKeeps ==
    ASSUME ConnectionsInv, NEW r \in Requests, req[r].pc # "session", Reply(r)
    PROVE  ConnectionsInv'
<1>1. Said(r) \in {0, 1}
  BY SaidIs
<1>2. Sound([NoRequest EXCEPT !.said = Said(r)])
  BY <1>1, NoRequestIs
<1>3. QED
  BY <1>2, ConnectionKept DEF Reply

\* A connection goes on, and nothing is sent to the browser.
LEMMA GotoKeeps ==
    ASSUME ConnectionsInv, NEW r \in Requests, req[r].pc # "session", NEW l \in PCs, Goto(r, l)
    PROVE  ConnectionsInv'
<1>1. PICK c : c = [req[r] EXCEPT !.pc = l]
  OBVIOUS
<1>2. Sound(c)
  BY <1>1 DEF Sound, Silent, ConnectionsInv, Connections
<1>3. req' = [req EXCEPT ![r] = c]
  BY <1>1 DEF Goto
<1>4. QED
  BY <1>2, <1>3, ConnectionKept

\* A limit is the plan's, or the default.
LEMMA LimitIs ==
    ASSUME PlanRows, NEW u
    PROVE  LimitOf(u) \in Limits
<1> DEFINE m == [name |-> UserRow(users, u).plan, active |-> TRUE]
           plan == PlanOnly(plans, m)
<1>1. plan # 0 => plan \in DOMAIN plans
  <2>1. PICK ids : ids = PlanWhere(plans, m)
    OBVIOUS
  <2>2. plan = One(ids) /\ ids \subseteq DOMAIN plans
    BY <2>1 DEF PlanOnly, PlanWhere
  <2>3. plan # 0 => Cardinality(ids) = 1
    BY <2>2 DEF One
  <2>4. plan # 0 => ids # {}
    BY <2>3, FS_EmptySet
  <2>5. QED
    BY <2>2, <2>3, <2>4 DEF One
<1>2. plan # 0 => PlanRow(plans, plan).limit = PlanLimit
  BY <1>1 DEF PlanRows, PlanRow, PlanColumns
<1> HIDE DEF plan
<1>3. LimitOf(u) = IF outage \/ UserOnly(users, [uid |-> u]) = 0 \/ plan = 0
                   THEN DefaultLimit ELSE PlanRow(plans, plan).limit
  BY DEF LimitOf, plan
<1>4. QED
  BY <1>2, <1>3 DEF Limits

\* The check of a user's quota.
LEMMA CheckUserKeeps ==
    ASSUME ConnectionsInv, ServerInv, NEW r \in Requests, NEW u \in Owners, req[r].pc # "session", CheckUser(r, u)
    PROVE  ConnectionsInv'
<1>1. PICK old : old = req[r]
  OBVIOUS
<1>2. old \in Connections /\ Silent(old) /\ old.pc # "session"
  BY <1>1 DEF ConnectionsInv
<1>3. CASE u = 0 \/ DefaultLimit = 0
  <2>1. PICK c : c = [old EXCEPT !.pc = "decided", !.decision = "allow"]
    OBVIOUS
  <2>2. Sound(c)
    BY <1>2, <2>1 DEF Sound, Silent, Connections, PCs, Answers
  <2>3. req' = [req EXCEPT ![r] = c]
    BY <1>3, <1>1, <2>1 DEF CheckUser
  <2>4. QED
    BY <2>2, <2>3, ConnectionKept
<1>4. CASE ~(u = 0 \/ DefaultLimit = 0) /\ quota[u] # "none"
  <2>1. PICK c : c = [old EXCEPT !.pc = "decided", !.decision = quota[u]]
    OBVIOUS
  <2>2. quota[u] \in Answers
    BY <1>4 DEF ServerInv, Owners, Answers
  <2>3. Sound(c)
    BY <1>2, <2>1, <2>2 DEF Sound, Silent, Connections, PCs
  <2>4. req' = [req EXCEPT ![r] = c]
    BY <1>4, <1>1, <2>1 DEF CheckUser
  <2>5. QED
    BY <2>3, <2>4, ConnectionKept
<1>5. CASE ~(u = 0 \/ DefaultLimit = 0) /\ quota[u] = "none"
  <2>1. PICK c : c = [old EXCEPT !.pc = "limit", !.user = u]
    OBVIOUS
  <2>2. Sound(c)
    BY <1>2, <2>1 DEF Sound, Silent, Connections, PCs
  <2>3. req' = [req EXCEPT ![r] = c]
    BY <1>5, <1>1, <2>1 DEF CheckUser
  <2>4. QED
    BY <2>2, <2>3, ConnectionKept
<1>6. QED
  BY <1>3, <1>4, <1>5

\* The proxy of an upgrade returns: the connection is closed, so that what the
\* router does after an error is not seen by the browser.
LEMMA ReturnKeeps ==
    ASSUME ConnectionsInv, NEW r \in Requests, NEW said \in {0, 1}, NEW err \in {"none", "connection", "other"},
           Return(r, said, err)
    PROVE  ConnectionsInv'
<1>1. PICK c : c = Closed(req[r])
  OBVIOUS
<1>2. c \in Connections /\ c.open = FALSE
  BY <1>1 DEF Closed, ConnectionsInv, Connections
<1>3. CASE err = "none" \/ c.retry
  <2>1. req' = [req EXCEPT ![r] = [NoRequest EXCEPT !.said = said]]
    BY <1>1, <1>3 DEF Return
  <2>2. QED
    BY <2>1, NoRequestIs, ConnectionKept
<1>4. CASE ~(err = "none" \/ c.retry)
  <2>1. PICK e : e = [c EXCEPT !.pc = "failed", !.said = said, !.err = err]
    OBVIOUS
  <2>2. Sound(e)
    BY <1>2, <2>1 DEF Sound, Silent, Connections, PCs
  <2>3. req' = [req EXCEPT ![r] = e]
    BY <1>1, <1>4, <2>1 DEF Return
  <2>4. QED
    BY <2>2, <2>3, ConnectionKept
<1>5. QED
  BY <1>3, <1>4

\* The choice of a path and the checks that touch the connection only.
LEMMA RequestsKeep ==
    ASSUME ServingInv, NEW r \in Requests,
           \/ Arrive(r) \/ routeToGRPCTunnel(r) \/ routeToGRPCChunkedStreaming(r) \/ LookupStream(r)
           \/ CheckEnabled(r) \/ CheckQuota(r) \/ ReadLimit(r) \/ SumUsage(r) \/ AdmitRequest(r)
           \/ SendStreamed(r) \/ routeToTCPTunnel(r) \/ Established(r) \/ WaitOver(r) \/ CheckUpgrade(r)
           \/ Handshake(r) \/ Hangs(r)
    PROVE  ConnectionsInv' /\ OnlyReq
<1>0. ConnectionsInv /\ ServerInv /\ PlanRows /\ req[r] \in Connections /\ req[r].domain \in Domains
  BY DEF ServingInv, ConnectionsInv, Connections, BootInv
<1>1. CASE Arrive(r)
  <2>1. PICK d \in Domains, k \in Kinds :
           req' = [req EXCEPT ![r] = [NoRequest EXCEPT !.pc = "routed", !.domain = d,
                                          !.route = ProxyConnection(k), !.open = TRUE]]
    BY <1>1 DEF Arrive
  <2>2. ProxyConnection(k) \in {"none", "tcp", "chunked", "upload", "plain"}
    BY DEF ProxyConnection
  <2>3. PICK old : old = NoRequest
    OBVIOUS
  <2>4. old \in Connections /\ old.said = 0
    BY <2>3, NoRequestIs
  <2>5. PICK c : c = [old EXCEPT !.pc = "routed", !.domain = d, !.route = ProxyConnection(k), !.open = TRUE]
    OBVIOUS
  <2>6. Sound(c)
    BY <2>2, <2>4, <2>5 DEF Sound, Silent, Connections, PCs
  <2>7. QED
    BY <1>0, <1>1, <2>1, <2>3, <2>5, <2>6, ConnectionKept DEF Arrive
<1>2. CASE routeToGRPCTunnel(r)
  <2>1. Reply(r) \/ \E l \in {"plain", "stream"} : Goto(r, l)
    BY <1>2 DEF routeToGRPCTunnel, WriteNotConnectedPage, ProxyHTTPRequestWithChunking
  <2>2. QED
    BY <1>0, <1>2, <2>1, ReplyKeeps, GotoKeeps DEF routeToGRPCTunnel, At, PCs
<1>3. CASE routeToGRPCChunkedStreaming(r)
  <2>1. Reply(r) \/ \E l \in {"plain", "stream"} : Goto(r, l)
    BY <1>3 DEF routeToGRPCChunkedStreaming, WriteNotConnectedPage, ProxyHTTPRequestWithChunking, isLargeFileRequest
  <2>2. QED
    BY <1>0, <1>3, <2>1, ReplyKeeps, GotoKeeps DEF routeToGRPCChunkedStreaming, At, PCs
<1>4. CASE LookupStream(r) \/ SendStreamed(r)
  <2>1. req[r].pc # "session" /\ OnlyReq
    BY <1>4 DEF LookupStream, SendStreamed, At
  <2>2. CASE Reply(r)
    BY <1>0, <2>1, <2>2, ReplyKeeps
  <2>3. CASE ~Reply(r)
    <3>1. PICK l \in {"enabled", "sent"} :
             req' = [req EXCEPT ![r].pc = l, ![r].owner = stream[req[r].domain]]
      BY <1>4, <2>3 DEF LookupStream, SendStreamed
    <3>2. stream[req[r].domain] \in Owners
      BY <1>0 DEF ServerInv
    <3>3. PICK c : c = [req[r] EXCEPT !.pc = l, !.owner = stream[req[r].domain]]
      OBVIOUS
    <3>4. Sound(c)
      BY <1>0, <2>1, <3>1, <3>2, <3>3 DEF Sound, Silent, ConnectionsInv, Connections, PCs
    <3>5. req' = [req EXCEPT ![r] = c]
      BY <3>1, <3>3
    <3>6. QED
      BY <1>0, <2>1, <3>4, <3>5, ConnectionKept
  <2>4. QED
    BY <2>2, <2>3
<1>5. CASE CheckEnabled(r)
  BY <1>0, <1>5, ReplyKeeps, GotoKeeps DEF CheckEnabled, At, PCs
<1>6. CASE CheckQuota(r)
  <2>1. stream[req[r].domain] \in Owners
    BY <1>0 DEF ServerInv
  <2>2. QED
    BY <1>0, <1>6, <2>1, CheckUserKeeps DEF CheckQuota, At
<1>7. CASE ReadLimit(r)
  <2>1. PICK l : l = LimitOf(req[r].user)
    OBVIOUS
  <2>2. l \in Limits
    BY <1>0, <2>1, LimitIs
  <2>3. PICK c : c = [req[r] EXCEPT !.pc = "sum", !.limit = l]
    OBVIOUS
  <2>4. Sound(c)
    BY <1>0, <1>7, <2>2, <2>3 DEF ReadLimit, At, Sound, Silent, ConnectionsInv, Connections, PCs
  <2>5. req' = [req EXCEPT ![r] = c]
    BY <1>7, <2>1, <2>3 DEF ReadLimit
  <2>6. QED
    BY <1>0, <1>7, <2>4, <2>5, ConnectionKept DEF ReadLimit
<1>8. CASE SumUsage(r)
  <2>1. CASE outage
    <3>1. PICK c : c = [req[r] EXCEPT !.pc = "decided", !.decision = "allow", !.limit = 0, !.user = 0]
      OBVIOUS
    <3>2. Sound(c)
      BY <1>0, <1>8, <3>1 DEF SumUsage, At, Sound, Silent, ConnectionsInv, Connections, PCs, Owners, Limits, Answers
    <3>3. req' = [req EXCEPT ![r] = c]
      BY <1>8, <2>1, <3>1 DEF SumUsage
    <3>4. QED
      BY <1>0, <1>8, <3>2, <3>3, ConnectionKept DEF SumUsage
  <2>2. CASE ~outage
    <3>1. PICK b : b = Decision(Used(req[r].user), req[r].limit)
      OBVIOUS
    <3>2. b \in Answers
      BY <3>1 DEF Decision, Answers
    <3>3. PICK c : c = [req[r] EXCEPT !.pc = "store", !.decision = b, !.limit = 0]
      OBVIOUS
    <3>4. Sound(c)
      BY <1>0, <1>8, <3>2, <3>3 DEF SumUsage, At, Sound, Silent, ConnectionsInv, Connections, PCs, Limits
    <3>5. req' = [req EXCEPT ![r] = c]
      BY <1>8, <2>2, <3>1, <3>3 DEF SumUsage
    <3>6. QED
      BY <1>0, <1>8, <3>4, <3>5, ConnectionKept DEF SumUsage
  <2>3. QED
    BY <2>1, <2>2
<1>9. CASE AdmitRequest(r)
  BY <1>0, <1>9, ReplyKeeps, GotoKeeps DEF AdmitRequest, At, PCs
<1>10. CASE routeToTCPTunnel(r)
  BY <1>0, <1>10, ReplyKeeps, GotoKeeps DEF routeToTCPTunnel, At, PCs
<1>11. CASE Established(r) \/ WaitOver(r)
  BY <1>0, <1>11, ReplyKeeps, GotoKeeps DEF Established, WaitOver, At, PCs
<1>12. CASE CheckUpgrade(r)
  <2>1. GetDomainOwner(req[r].domain) \in Owners
    BY <1>0 DEF ServerInv, GetDomainOwner
  <2>2. QED
    BY <1>0, <1>12, <2>1, CheckUserKeeps DEF CheckUpgrade, At
<1>13. CASE Handshake(r)
  <2>1. req[r].pc = "handshake" /\ Said(r) \in {0, 1} /\ req[r].said \in {0, 1} /\ OnlyReq
    BY <1>0, <1>13, SaidIs DEF Handshake, At, Connections
  <2>2. CASE Return(r, req[r].said, "connection")
    BY <1>0, <2>1, <2>2, ReturnKeeps
  <2>3. CASE \E e \in {"connection", "other"} : Return(r, Said(r), e)
    BY <1>0, <2>1, <2>3, ReturnKeeps
  <2>4. CASE req' = [req EXCEPT ![r].pc = "session", ![r].said = Said(r)]
    <3>1. PICK c : c = [req[r] EXCEPT !.pc = "session", !.said = Said(r)]
      OBVIOUS
    <3>2. Sound(c)
      BY <1>0, <2>1, <3>1 DEF Sound, Silent, Connections, PCs
    <3>3. req' = [req EXCEPT ![r] = c]
      BY <2>4, <3>1
    <3>4. QED
      BY <1>0, <2>1, <3>2, <3>3, ConnectionKept
  <2>5. QED
    BY <1>13, <2>2, <2>3, <2>4 DEF Handshake
<1>14. CASE Hangs(r)
  BY <1>0, <1>14, GotoKeeps DEF Hangs, NoDeadline, PCs
<1>15. QED
  BY <1>1, <1>2, <1>3, <1>4, <1>5, <1>6, <1>7, <1>8, <1>9, <1>10, <1>11, <1>12, <1>13, <1>14

\* The steps that also store a verdict, charge, or take from the pool.
LEMMA EffectsKeep ==
    ASSUME ServingInv, NEW r \in Requests,
           StoreResult(r) \/ Respond(r) \/ TakeConnection(r) \/ EndSession(r) \/ AfterError(r)
    PROVE  ConnectionsInv' /\ ServerInv' /\ UNCHANGED bootVars
<1>0. ConnectionsInv /\ ServerInv /\ req[r] \in Connections /\ req[r].domain \in Domains
  BY DEF ServingInv, ConnectionsInv, Connections
<1>1. ASSUME NEW u, NEW d, Charge(u, d)
      PROVE  memory' \in [Pairs -> 0..MaxBytes]
  <2>1. PICK k : k = <<u, d>>
    OBVIOUS
  <2>2. memory' = [memory EXCEPT ![k] = IF memory[k] < MaxBytes THEN memory[k] + 1 ELSE memory[k]]
    BY <1>1, <2>1 DEF Charge
  <2>3. memory \in [Pairs -> 0..MaxBytes]
    BY <1>0 DEF ServerInv
  <2>4. k \in Pairs => (IF memory[k] < MaxBytes THEN memory[k] + 1 ELSE memory[k]) \in 0..MaxBytes
    BY <2>3, RoutingAssumption
  <2>5. QED
    BY <2>2, <2>3, <2>4
<1>2. ASSUME NEW d \in Domains, pool' = [pool EXCEPT ![d] = 0] \/ UNCHANGED pool
      PROVE  pool' \in [Domains -> Owners]
  BY <1>0, <1>2 DEF ServerInv, Owners
<1>3. CASE StoreResult(r)
  <2>1. PICK c : c = [req[r] EXCEPT !.pc = "decided", !.user = 0]
    OBVIOUS
  <2>2. Sound(c)
    BY <1>0, <1>3, <2>1 DEF StoreResult, At, Sound, Silent, ConnectionsInv, Connections, PCs, Owners
  <2>3. req' = [req EXCEPT ![r] = c]
    BY <1>3, <2>1 DEF StoreResult
  <2>4. quota' \in [UserIds -> {"none", "allow", "block"}]
    BY <1>0, <1>3 DEF StoreResult, ServerInv, Connections, Answers
  <2>5. ConnectionsInv'
    BY <1>0, <2>2, <2>3, ConnectionKept
  <2>6. QED
    BY <1>0, <1>3, <2>4, <2>5 DEF StoreResult, ServerInv, tables, status, links
<1>4. CASE Respond(r)
  <2>1. ConnectionsInv'
    BY <1>0, <1>4, ReplyKeeps DEF Respond, At
  <2>2. memory' \in [Pairs -> 0..MaxBytes]
    BY <1>0, <1>1, <1>4 DEF Respond, ServerInv
  <2>3. QED
    BY <1>0, <1>4, <2>1, <2>2 DEF Respond, ServerInv, tables, status, links
<1>5. CASE TakeConnection(r)
  <2>1. Said(r) \in {0, 1}
    BY <1>0, <1>5, SaidIs DEF TakeConnection, At
  <2>2. Return(r, Said(r), "other") \/ Goto(r, "handshake")
    BY <1>5 DEF TakeConnection
  <2>3. ConnectionsInv'
    BY <1>0, <1>5, <2>1, <2>2, ReturnKeeps, GotoKeeps DEF TakeConnection, At, PCs
  <2>4. pool' \in [Domains -> Owners]
    BY <1>0, <1>2, <1>5 DEF TakeConnection
  <2>5. QED
    BY <1>0, <1>5, <2>3, <2>4 DEF TakeConnection, ServerInv, tables, status
<1>6. CASE EndSession(r)
  <2>1. req[r].said \in {0, 1} /\ Return(r, req[r].said, "none")
    BY <1>0, <1>6 DEF EndSession, Connections
  <2>2. ConnectionsInv'
    BY <1>0, <2>1, ReturnKeeps
  <2>3. memory' \in [Pairs -> 0..MaxBytes]
    BY <1>0, <1>1, <1>6 DEF EndSession, ServerInv
  <2>4. QED
    BY <1>0, <1>6, <2>2, <2>3 DEF EndSession, ServerInv, tables, status, links
<1>7. CASE AfterError(r)
  <2>1. pool' \in [Domains -> Owners]
    BY <1>0, <1>2, <1>7 DEF AfterError
  <2>2. ConnectionsInv'
    <3>1. req[r].pc = "failed"
      BY <1>7 DEF AfterError, At
    <3>2. CASE Reply(r)
      BY <1>0, <3>1, <3>2, ReplyKeeps
    <3>3. CASE req' = [req EXCEPT ![r].pc = "wait", ![r].retry = TRUE, ![r].err = "none"]
      <4>1. PICK c : c = [req[r] EXCEPT !.pc = "wait", !.retry = TRUE, !.err = "none"]
        OBVIOUS
      <4>2. Sound(c)
        BY <1>0, <3>1, <4>1 DEF Sound, Silent, ConnectionsInv, Connections, PCs
      <4>3. req' = [req EXCEPT ![r] = c]
        BY <3>3, <4>1
      <4>4. QED
        BY <1>0, <4>2, <4>3, ConnectionKept
    <3>4. QED
      BY <1>7, <3>2, <3>3 DEF AfterError
  <2>3. QED
    BY <1>0, <1>7, <2>1, <2>2 DEF AfterError, ServerInv, tables, status
<1>8. QED
  BY <1>3, <1>4, <1>5, <1>6, <1>7

-----------------------------------------------------------------------------
(* The tables, the clients and the background tasks.                       *)

\* A new tunnel has its domain and its owner.
LEMMA TunnelInserted ==
    ASSUME NEW i, NEW d \in Domains, NEW u \in UserIds, TunnelRows(tunnels), NEW saved,
           saved = TunnelCreate(tunnels, i, TunnelNew(d, u, TRUE), users), saved.err = "none"
    PROVE  TunnelRows(saved.table)
<1> DEFINE m == TunnelNew(d, u, TRUE)
           entry == TunnelSpec(m)
<1>1. DOMAIN entry = TunnelColumns /\ entry.domain = d /\ entry.owner = u
  BY DEF TunnelSpec, TunnelColumns, Filled, TunnelNew
<1> HIDE DEF entry
<1>2. saved.table = Put(tunnels, i, entry)
  BY DEF TunnelCreate, Inserted, Fails, Succeeds, entry
<1>3. /\ DOMAIN saved.table = DOMAIN tunnels \cup {i}
      /\ \A k \in DOMAIN saved.table :
            saved.table[k] = (IF k = i THEN entry ELSE tunnels[k])
  BY <1>2 DEF Put
<1>4. \A k \in DOMAIN saved.table : k = i => saved.table[k] = entry
  BY <1>3
<1>5. \A k \in DOMAIN saved.table :
         k # i => k \in DOMAIN tunnels /\ saved.table[k] = tunnels[k]
  BY <1>3
<1>6. QED
  BY <1>1, <1>4, <1>5 DEF TunnelRows

\* The columns that are changed are neither the domain nor the owner.
LEMMA RowMutated ==
    ASSUME NEW entry, DOMAIN entry = TunnelColumns, NEW m, NEW fields, fields \cap {"domain", "owner"} = {}
    PROVE  /\ DOMAIN Mutated(entry, m, fields) = TunnelColumns
           /\ Mutated(entry, m, fields).domain = entry.domain
           /\ Mutated(entry, m, fields).owner = entry.owner
BY DEF Mutated, TunnelColumns

\* Tunnels keep their domains and owners when they are written or deleted.
LEMMA TunnelsKeep ==
    ASSUME ServerInv, CreateTunnel \/ UpdateTunnel \/ DeleteTunnel \/ VerifyTunnels
    PROVE  TunnelRows(tunnels')
<1>0. TunnelRows(tunnels)
  BY DEF ServerInv
<1>1. CASE CreateTunnel
  BY <1>0, <1>1, TunnelInserted DEF CreateTunnel
<1>2. CASE UpdateTunnel
  <2>1. PICK i \in DOMAIN tunnels :
           tunnels' = TunnelUpdateOne(tunnels, i, [enabled |-> ~TunnelRow(tunnels, i).enabled]).table
    BY <1>2 DEF UpdateTunnel
  <2> DEFINE m == [enabled |-> ~TunnelRow(tunnels, i).enabled]
             entry == Mutated(tunnels[i], m, TunnelFields(m))
  <2>2. TunnelFields(m) \cap {"domain", "owner"} = {}
    BY DEF TunnelFields
  <2>3. tunnels' = TunnelUpdateOne(tunnels, i, m).table
    BY <2>1
  <2> HIDE DEF m
  <2>4. tunnels' = tunnels \/ tunnels' = Put(tunnels, i, entry)
    BY <2>1, <2>3 DEF TunnelUpdateOne, Rewritten, Fails, Succeeds
  <2>5. DOMAIN entry = TunnelColumns /\ entry.domain = tunnels[i].domain /\ entry.owner = tunnels[i].owner
    BY <1>0, <2>2, RowMutated DEF TunnelRows
  <2> HIDE DEF entry
  <2>6. QED
    BY <1>0, <2>4, <2>5 DEF Put, TunnelRows
<1>3. CASE DeleteTunnel
  <2>1. PICK i \in DOMAIN tunnels : tunnels' = TunnelDelete(tunnels, i).table
    BY <1>3 DEF DeleteTunnel
  <2>2. tunnels' = Without(tunnels, {i})
    BY <2>1 DEF TunnelDelete, Removed, Succeeds
  <2>3. QED
    BY <1>0, <2>2 DEF Without, TunnelRows
<1>4. CASE VerifyTunnels
  <2> DEFINE m == [enabled |-> TRUE, pending |-> FALSE]
  <2>1. PICK ids : tunnels' = RewrittenAll(tunnels, ids, m, TunnelFields(m)).table
    BY <1>4 DEF VerifyTunnels
  <2>2. TunnelFields(m) \cap {"domain", "owner"} = {}
    BY DEF TunnelFields
  <2> HIDE DEF m
  <2>3. tunnels' = [i \in DOMAIN tunnels |-> IF i \in ids THEN Mutated(tunnels[i], m, TunnelFields(m)) ELSE tunnels[i]]
    BY <2>1 DEF RewrittenAll, Succeeds
  <2>4. \A i \in DOMAIN tunnels :
            LET entry == Mutated(tunnels[i], m, TunnelFields(m))
            IN DOMAIN entry = TunnelColumns /\ entry.domain = tunnels[i].domain /\ entry.owner = tunnels[i].owner
    BY <1>0, <2>2, RowMutated DEF TunnelRows
  <2>5. QED
    BY <1>0, <2>3, <2>4 DEF TunnelRows
<1>5. QED
  BY <1>1, <1>2, <1>3, <1>4

\* A client that connects is its tunnel's owner.
LEMMA ClientsKeep ==
    ASSUME ServerInv, NEW d \in Domains, ClientConnects(d) \/ ClientLeaves(d) \/ PoolGrows(d) \/ PoolEmpties(d)
    PROVE  ServerInv'
<1>1. \A i \in DOMAIN tunnels : TunnelRow(tunnels, i).owner \in UserIds
  BY DEF ServerInv, TunnelRows, TunnelRow, TunnelColumns
<1>2. stream' \in [Domains -> Owners] /\ pool' \in [Domains -> Owners]
  <2>1. CASE ClientConnects(d)
    BY <1>1, <2>1 DEF ClientConnects, TunnelWhere, ServerInv, Owners
  <2>2. CASE ClientLeaves(d)
    BY <2>2 DEF ClientLeaves, ServerInv, Owners
  <2>3. CASE PoolGrows(d)
    BY <1>1, <2>3 DEF PoolGrows, TunnelWhere, ServerInv, Owners
  <2>4. CASE PoolEmpties(d)
    BY <2>4 DEF PoolEmpties, ServerInv, Owners
  <2>5. QED
    BY <2>1, <2>2, <2>3, <2>4
<1>3. UNCHANGED <<tables, status, quota, memory>>
  BY DEF ClientConnects, ClientLeaves, PoolGrows, PoolEmpties
<1>4. QED
  BY <1>2, <1>3 DEF ServerInv, tables, status

\* The refresh of the status cache.
LEMMA RefreshKeeps == ServerInv /\ Refresh => ServerInv'
<1> SUFFICES ASSUME ServerInv, Refresh PROVE ServerInv'
  OBVIOUS
<1>1. EnabledDomains(tunnels) \subseteq Domains
  BY EnabledAreDomains DEF ServerInv
<1>2. UNCHANGED <<bootVars, tables, quota, memory, links, req>> /\ (Status!Query \/ Status!SwapCache)
  BY DEF Refresh
<1>3. cache' \in SUBSET Domains /\ result' \in SUBSET Domains /\ loop' \in {"waiting", "building", "stopped"}
  BY <1>1, <1>2 DEF ServerInv, Status!Query, Status!SwapCache
<1>4. QED
  BY <1>2, <1>3 DEF ServerInv, tables, links

\* The server's initial state.
LEMMA ServingBegins == Init => ServingInv
<1> SUFFICES ASSUME Init PROVE ServingInv
  OBVIOUS
<1>1. BootInv
  BY BootBegins DEF Init
<1>2. TunnelRows(tunnels)
  BY DEF Init, TunnelRows
<1>3. ConnectionsInv
  BY NoRequestIs DEF Init, ConnectionsInv, Silent
<1>4. ServerInv
  BY <1>2, RoutingAssumption DEF Init, ServerInv, Owners
<1>5. QED
  BY <1>1, <1>3, <1>4 DEF ServingInv

\* The server's invariant is inductive.
LEMMA ServingSteps == ServingInv /\ [Next]_vars => ServingInv'
<1> SUFFICES ASSUME ServingInv, [Next]_vars PROVE ServingInv'
  OBVIOUS
<1>0. BootInv' /\ ServerInv /\ ConnectionsInv
  BY BootSteps, NextIsBoot DEF ServingInv
<1> SUFFICES ServerInv' /\ ConnectionsInv'
  BY <1>0 DEF ServingInv
<1>1. ASSUME NEW r \in Requests, Arrive(r) \/ Step(r) \/ EndSession(r) \/ Hangs(r)
      PROVE  ServerInv' /\ ConnectionsInv'
  <2>1. CASE StoreResult(r) \/ Respond(r) \/ TakeConnection(r) \/ EndSession(r) \/ AfterError(r)
    BY <2>1, EffectsKeep
  <2>2. CASE ~(StoreResult(r) \/ Respond(r) \/ TakeConnection(r) \/ EndSession(r) \/ AfterError(r))
    <3>1. ConnectionsInv' /\ OnlyReq
      BY <1>1, <2>2, RequestsKeep DEF Step
    <3>2. ServerInv'
      BY <1>0, <3>1 DEF OnlyReq, ServerInv, tables, status, links
    <3>3. QED
      BY <3>1, <3>2
  <2>3. QED
    BY <2>1, <2>2
<1>2. ASSUME NEW u \in UserIds, Age(u)
      PROVE  ServerInv' /\ ConnectionsInv'
  BY <1>0, <1>2 DEF Age, ServerInv, ConnectionsInv, tables, status, links
<1>3. ASSUME NEW d \in Domains, ClientConnects(d) \/ ClientLeaves(d) \/ PoolGrows(d) \/ PoolEmpties(d)
      PROVE  ServerInv' /\ ConnectionsInv'
  <2>1. UNCHANGED req
    BY <1>3 DEF ClientConnects, ClientLeaves, PoolGrows, PoolEmpties
  <2>2. QED
    BY <1>0, <1>3, <2>1, ClientsKeep DEF ConnectionsInv
<1>4. CASE CreateTunnel \/ UpdateTunnel \/ DeleteTunnel \/ VerifyTunnels
  <2>1. UNCHANGED <<status, quota, memory, links, req>>
    BY <1>4 DEF CreateTunnel, UpdateTunnel, DeleteTunnel, VerifyTunnels
  <2>2. TunnelRows(tunnels')
    BY <1>0, <1>4, TunnelsKeep
  <2>3. QED
    BY <1>0, <2>1, <2>2 DEF ServerInv, ConnectionsInv, TunnelRows, status, links
<1>5. CASE Refresh
  BY <1>0, <1>5, RefreshKeeps DEF Refresh, ConnectionsInv
<1>6. CASE Flush
  <2>1. memory' \in [Pairs -> 0..MaxBytes]
    BY <1>0, <1>6, RoutingAssumption DEF Flush, ServerInv
  <2>2. QED
    BY <1>0, <1>6, <2>1 DEF Flush, ServerInv, ConnectionsInv, status, links
<1>7. CASE NewMonth
  BY <1>0, <1>7 DEF NewMonth, ServerInv, ConnectionsInv, status, links
<1>8. CASE Boots
  BY <1>0, <1>8 DEF Boots, ServerInv, ConnectionsInv, tables, status, links
<1>9. CASE Starts
  BY <1>0, <1>9 DEF Starts, ServerInv, ConnectionsInv, tables, links
<1>10. CASE StopsRouter
  <2>1. loop' = "stopped" /\ UNCHANGED <<cache, result>>
    BY <1>10 DEF StopsRouter, Status!Stop
  <2>2. QED
    BY <1>0, <1>10, <2>1 DEF StopsRouter, ServerInv, ConnectionsInv, tables, Owners
<1>11. CASE Ends
  <2>1. Forget /\ UNCHANGED tunnels
    BY <1>11 DEF Ends
  <2>2. TunnelRows(tunnels)'
    BY <1>0, <2>1 DEF ServerInv, TunnelRows
  <2>3. QED
    <3>1. ConnectionsInv'
      BY <2>1, NoRequestIs DEF Forget, ConnectionsInv, Silent
    <3>2. ServerInv'
      BY <2>1, <2>2, RoutingAssumption DEF Forget, ServerInv, Owners
    <3>3. QED
      BY <3>1, <3>2
<1>12. CASE UNCHANGED vars
  BY <1>0, <1>12 DEF vars, ServerInv, ConnectionsInv, tables, status, links
<1>13. QED
  BY <1>1, <1>2, <1>3, <1>4, <1>5, <1>6, <1>7, <1>8, <1>9, <1>10, <1>11, <1>12 DEF Next

\* Whatever fails, and however the retry of an upgrade meets the connection that
\* the first attempt closed, no browser is sent a second status line; the caches,
\* counters and links stay those of known users and domains.
THEOREM BrowsersAreAnsweredOnce == Spec => []RoutingInv
<1>1. ServingInv => RoutingInv
  <2> SUFFICES ASSUME ServingInv PROVE RoutingInv
    OBVIOUS
  <2>1. AnsweredOnce
    <3>1. \A r \in Requests : req[r].said \in {0, 1}
      BY DEF ServingInv, ConnectionsInv, Connections
    <3>2. QED
      BY <3>1 DEF AnsweredOnce
  <2>2. Status!TypeOK
    BY EnabledAreDomains DEF ServingInv, ServerInv, Status!TypeOK
  <2>3. \A r \in Requests : req[r].pc \in PCs /\ req[r].decision \in {"allow", "block"}
    BY DEF ServingInv, ConnectionsInv, Connections, Answers
  <2>4. QED
    BY <2>1, <2>2, <2>3 DEF RoutingInv, TypeOK, ServingInv, ServerInv, BootInv, BootTypes, Owners
<1>2. QED
  BY <1>1, ServingBegins, ServingSteps, PTL DEF Spec
=============================================================================
