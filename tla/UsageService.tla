----------------------------- MODULE UsageService -----------------------------
(***************************************************************************)
(* The accounting of traffic (usageService): proxied requests add to       *)
(* records in memory; flushes move the records to the database.  A flush   *)
(* is made by the periodic task, by background goroutines that increments  *)
(* start when the last flush is long ago, and by Stop.                     *)
(*                                                                         *)
(* The counters of a record (bytes in, bytes out, requests) are treated    *)
(* alike and modelled by one.  A transaction of the database (PostgreSQL,  *)
(* read committed) sees what is committed, locks the rows it writes until  *)
(* it ends, and fails on a row that another one has created meanwhile.     *)
(***************************************************************************)
EXTENDS Integers, FiniteSets, FiniteSetsExt

CONSTANTS
    Keys,           \* record keys: a day, a user and a tunnel
    Background,     \* background flushes
    BatchSize,      \* records written in one transaction (1000 in the code)
    MaxUsage        \* bound: usage recorded for one key

ASSUME BoundsAssumption == BatchSize \in Nat \ {0} /\ MaxUsage \in Nat

\* Goroutines are finitely many at any time.
ASSUME FinitelyManyAssumption == IsFiniteSet(Background)

\* The background flushes are neither the periodic task's nor Stop's.
ASSUME TasksAssumption == Background \cap {"periodic", "final"} = {}

Flushers == Background \cup {"periodic", "final"}

None == "none"

\* No such row.
Absent == -1

VARIABLES
    recorded,   \* all usage reported so far, per key
    records,    \* usageService.records
    db,         \* the committed rows
    pc,         \* where a flush is
    left,       \* its snapshot, as far as it is not committed
    batch,      \* records of its transaction that are still to be written
    row,        \* the record it is writing, and the row it has seen for it
    written,    \* what its transaction has written
    running,    \* lifecycle: running, stopping, stopped
    mishaps     \* history: has a database call failed, did flushes overlap

flushVars == <<pc, left, batch, row, written>>
usageVars == <<recorded, records, db, flushVars, running, mishaps>>

NoRow == [key |-> None, seen |-> Absent]

Nothing == [k \in Keys |-> 0]

Unwritten == [k \in Keys |-> Absent]

UsageTypeOK ==
    /\ recorded \in [Keys -> 0..MaxUsage]
    /\ records \in [Keys -> 0..MaxUsage]
    /\ db \in [Keys -> Nat \cup {Absent}]
    /\ pc \in [Flushers -> {"idle", "triggered", "flushing", "tx", "found",
                            "commit", "done"}]
    /\ left \in [Flushers -> [Keys -> 0..MaxUsage]]
    /\ batch \in [Flushers -> SUBSET Keys]
    /\ row \in [Flushers -> [key : Keys \cup {None}, seen : Nat \cup {Absent}]]
    /\ written \in [Flushers -> [Keys -> Nat \cup {Absent}]]
    /\ running \in {"running", "stopping", "stopped"}
    /\ mishaps \in SUBSET {"failure", "overlap"}

UsageInit ==
    /\ recorded = Nothing
    /\ records = Nothing
    /\ db = Unwritten
    /\ pc = [f \in Flushers |-> "idle"]
    /\ left = [f \in Flushers |-> Nothing]
    /\ batch = [f \in Flushers |-> {}]
    /\ row = [f \in Flushers |-> NoRow]
    /\ written = [f \in Flushers |-> Unwritten]
    /\ running = "running"
    /\ mishaps = {}

FlusherGoto(f, l) == pc' = [pc EXCEPT ![f] = l]

-----------------------------------------------------------------------------
\* A request is accounted; the flush interval may have passed.
Increment(k) ==
    /\ recorded[k] < MaxUsage
    /\ recorded' = [recorded EXCEPT ![k] = @ + 1]
    /\ records' = [records EXCEPT ![k] = @ + 1]
    /\ \/ UNCHANGED pc
       \/ \E b \in Background : pc[b] = "idle" /\ FlusherGoto(b, "triggered")
    /\ UNCHANGED <<db, left, batch, row, written, running, mishaps>>

\* A background flush finds that another one has just flushed.
AlreadyFlushed(b) ==
    /\ pc[b] = "triggered"
    /\ FlusherGoto(b, "done")
    /\ UNCHANGED <<recorded, records, db, left, batch, row, written, running,
                   mishaps>>

\* The periodic task finds the stop channel closed.  A tick that is ready as
\* well may be taken before it, any number of times.
PeriodicEnds ==
    /\ running # "running"
    /\ pc["periodic"] = "idle"
    /\ FlusherGoto("periodic", "done")
    /\ UNCHANGED <<recorded, records, db, left, batch, row, written, running,
                   mishaps>>

\* The interval of the periodic task; a triggered background flush; or the final
\* flush, once the periodic task has ended.
MayFlush(f) ==
    \/ f = "periodic" /\ pc[f] = "idle"
    \/ f \in Background /\ pc[f] = "triggered"
    \/ f = "final" /\ pc[f] = "idle" /\ running = "stopping"
         /\ pc["periodic"] = "done"

\* What a flush is when it returns.
Over(f) == IF f = "periodic" THEN "idle" ELSE "done"

\* Flushes that hold a snapshot.
Flushing == {f \in Flushers : pc[f] \in {"flushing", "tx", "found", "commit"}}

\* Mutant: the records are copied but not reset.
SnapshotWithoutReset(f) ==
    /\ MayFlush(f)
    /\ left' = [left EXCEPT ![f] = records]
    /\ FlusherGoto(f, IF records = Nothing THEN Over(f) ELSE "flushing")
    /\ mishaps' = IF Flushing = {} THEN mishaps ELSE mishaps \cup {"overlap"}
    /\ UNCHANGED <<recorded, records, db, batch, row, written, running>>

\* FlushToDB: SnapshotAndReset.
SnapshotAndReset(f) ==
    /\ MayFlush(f)
    /\ left' = [left EXCEPT ![f] = records]
    /\ records' = Nothing
    /\ FlusherGoto(f, IF records = Nothing THEN Over(f) ELSE "flushing")
    /\ mishaps' = IF Flushing = {} THEN mishaps ELSE mishaps \cup {"overlap"}
    /\ UNCHANGED <<recorded, db, batch, row, written, running>>

\* processBatch: a transaction for the next records.
BeginBatch(f) ==
    /\ pc[f] = "flushing"
    /\ LET rest == {k \in Keys : left[f][k] > 0} IN
       \E b \in SUBSET rest :
          /\ Cardinality(b) = Min({BatchSize, Cardinality(rest)})
          /\ batch' = [batch EXCEPT ![f] = b]
    /\ FlusherGoto(f, "tx")
    /\ UNCHANGED <<recorded, records, db, left, row, written, running, mishaps>>

\* Query the row of the next record.
QueryRow(f) ==
    /\ pc[f] = "tx"
    /\ \E k \in batch[f] : row' = [row EXCEPT ![f] = [key |-> k, seen |-> db[k]]]
    /\ FlusherGoto(f, "found")
    /\ UNCHANGED <<recorded, records, db, left, batch, written, running, mishaps>>

Locked(f, k) == \E g \in Flushers \ {f} : written[g][k] # Absent

\* Set the row to what was seen plus the record, or create it.
WriteRow(f) ==
    /\ pc[f] = "found"
    /\ LET k == row[f].key
           seen == row[f].seen IN
       /\ ~Locked(f, k)
       /\ seen = Absent => db[k] = Absent
       /\ written' = [written EXCEPT ![f][k] =
                         left[f][k] + (IF seen = Absent THEN 0 ELSE seen)]
       /\ batch' = [batch EXCEPT ![f] = @ \ {k}]
       /\ FlusherGoto(f, IF batch[f] = {k} THEN "commit" ELSE "tx")
    /\ row' = [row EXCEPT ![f] = NoRow]
    /\ UNCHANGED <<recorded, records, db, left, running, mishaps>>

\* Mutant: only the first batch of a snapshot is written.
CommitOneBatch(f) ==
    /\ pc[f] = "commit"
    /\ db' = [k \in Keys |-> IF written[f][k] # Absent THEN written[f][k] ELSE db[k]]
    /\ left' = [left EXCEPT ![f] = Nothing]
    /\ FlusherGoto(f, Over(f))
    /\ written' = [written EXCEPT ![f] = Unwritten]
    /\ UNCHANGED <<recorded, records, batch, row, running, mishaps>>

\* Commit; go on with the next batch, if there is one.
Commit(f) ==
    /\ pc[f] = "commit"
    /\ LET mine == {k \in Keys : written[f][k] # Absent}
           rest == [k \in Keys |-> IF k \in mine THEN 0 ELSE left[f][k]] IN
       /\ db' = [k \in Keys |-> IF k \in mine THEN written[f][k] ELSE db[k]]
       /\ left' = [left EXCEPT ![f] = rest]
       /\ FlusherGoto(f, IF rest = Nothing THEN Over(f) ELSE "flushing")
    /\ written' = [written EXCEPT ![f] = Unwritten]
    /\ UNCHANGED <<recorded, records, batch, row, running, mishaps>>

\* Mutant: the transaction is not rolled back.
FlushFailsOpen(f) ==
    /\ f \in Flushing
    /\ left' = [left EXCEPT ![f] = Nothing]
    /\ batch' = [batch EXCEPT ![f] = {}]
    /\ row' = [row EXCEPT ![f] = NoRow]
    /\ FlusherGoto(f, Over(f))
    /\ mishaps' = mishaps \cup {"failure"}
    /\ UNCHANGED <<recorded, records, db, written, running>>

\* A database call fails, or the row to be created exists: the transaction is
\* rolled back and the flush returns, dropping the rest of its snapshot.
FlushFails(f) ==
    /\ f \in Flushing
    /\ left' = [left EXCEPT ![f] = Nothing]
    /\ batch' = [batch EXCEPT ![f] = {}]
    /\ row' = [row EXCEPT ![f] = NoRow]
    /\ written' = [written EXCEPT ![f] = Unwritten]
    /\ FlusherGoto(f, Over(f))
    /\ mishaps' = mishaps \cup {"failure"}
    /\ UNCHANGED <<recorded, records, db, running>>

\* Stop closes stopChan and waits for the periodic task.
Stop ==
    /\ running = "running"
    /\ running' = "stopping"
    /\ UNCHANGED <<recorded, records, db, flushVars, mishaps>>

\* Mutant: Stop waits until no usage is left in memory.
StopAwaitsQuiet ==
    /\ running = "stopping"
    /\ pc["final"] = "done"
    /\ records = Nothing
    /\ running' = "stopped"
    /\ UNCHANGED <<recorded, records, db, flushVars, mishaps>>

\* Stop returns after its final flush.
StopReturns ==
    /\ running = "stopping"
    /\ pc["final"] = "done"
    /\ running' = "stopped"
    /\ UNCHANGED <<recorded, records, db, flushVars, mishaps>>

-----------------------------------------------------------------------------
FlushStep(f) ==
    \/ SnapshotAndReset(f) \/ BeginBatch(f) \/ QueryRow(f) \/ WriteRow(f)
    \/ Commit(f) \/ FlushFails(f)

UsageNext ==
    \/ \E k \in Keys : Increment(k)
    \/ \E b \in Background : AlreadyFlushed(b)
    \/ \E f \in Flushers : FlushStep(f)
    \/ Stop \/ PeriodicEnds \/ StopReturns

UsageServiceSpec == UsageInit /\ [][UsageNext]_usageVars

\* A flush that has begun goes on, and Stop does: calls of the database return.
\* A select that finds the stop channel closed again and again, with a tick or
\* without, takes it at last: its choice is uniform.
UsageFairness ==
    /\ \A f \in Flushers : WF_usageVars(BeginBatch(f) \/ QueryRow(f) \/ WriteRow(f)
                                   \/ Commit(f) \/ FlushFails(f))
    /\ SF_usageVars(PeriodicEnds)
    /\ WF_usageVars(SnapshotAndReset("final"))
    /\ WF_usageVars(StopReturns)

UsageFairSpec == UsageServiceSpec /\ UsageFairness

-----------------------------------------------------------------------------
(* Properties.                                                             *)

Committed(k) == IF db[k] = Absent THEN 0 ELSE db[k]

Total(part) == MapThenSumSet(LAMBDA f : part[f], Flushers)

\* Usage of k in the snapshots of the flushes.
Parts(k) == [f \in Flushers |-> left[f][k]]

\* Usage of k that is somewhere on its way to the database.
InFlight(k) == records[k] + Total(Parts(k))

\* The rows that the transaction of f has written, and holds locked.
Mine(f) == {k \in Keys : written[f][k] # Absent}

\* What a flush keeps, by where it is.
CleanFlush(f) ==
    /\ pc[f] \in {"idle", "triggered", "done"} => left[f] = Nothing
    /\ pc[f] \in {"idle", "triggered", "done", "flushing"} => batch[f] = {} /\ Mine(f) = {}
    /\ pc[f] = "commit" => batch[f] = {}
    /\ pc[f] = "found" => row[f].key \in batch[f]
    /\ batch[f] \cap Mine(f) = {}
    /\ \A k \in batch[f] \cup Mine(f) : left[f][k] > 0

\* A flush that is over keeps nothing: no part of its snapshot, no row locked
\* by its transaction (which would stop every later flush of that row).  One
\* that is under way writes each record of its snapshot at most once, and no
\* row is being written by two flushes.
FlushesAreClean ==
    /\ UsageTypeOK
    /\ \A k \in Keys : records[k] <= recorded[k]
    /\ \A f \in Flushers : CleanFlush(f)
    /\ \A f, g \in Flushers : f # g => Mine(f) \cap Mine(g) = {}

\* No usage is charged twice, however flushes overlap, fail halfway or race for
\* the creation of a row: what is in the database and on its way there was
\* recorded.
NeverOvercharged ==
    \A k \in Keys : Committed(k) + InFlight(k) <= recorded[k]

\* The final flush begins after the last periodic one has ended, and Stop returns
\* after it: then only flushes that increments have started can still be under way.
StopIsLast ==
    /\ pc["final"] # "idle" => running # "running" /\ pc["periodic"] = "done"
    /\ running = "stopped" =>
          /\ pc["final"] = "done"
          /\ \A f \in Flushing : f \in Background

\* All this, whatever flushes are under way and whichever of their calls fails.
UsageInv == FlushesAreClean /\ NeverOvercharged /\ StopIsLast

\* Stop returns, whatever flushes are under way.
StopEnds == (running = "stopping") ~> (running = "stopped")

\* All usage of k is in the database or on its way.
Kept(k) == Committed(k) + InFlight(k) = recorded[k]

\* No usage is lost as long as flushes follow one another and the database does
\* not fail, whatever requests record during them and whatever their batches:
\* what was recorded is committed, in memory or in the one snapshot there is.
SerialFlushesKeepAll ==
    mishaps = {} => \E f \in Flushers :
        /\ \A g \in Flushers \ {f} : left[g] = Nothing
        /\ \A k \in Keys : Committed(k) + records[k] + left[f][k] = recorded[k]

\* What makes it inductive: there is one flush under way, the row it has seen
\* is the row that is there, and what it has written is the sum.
SerialInv ==
    mishaps = {} =>
        /\ \A f, g \in Flushing : f = g
        /\ \A f \in Flushers : pc[f] = "found" => row[f].seen = db[row[f].key]
        /\ \A f \in Flushers : \A k \in Mine(f) : written[f][k] = left[f][k] + Committed(k)
        /\ \A f \in Flushers : (\A g \in Flushers \ {f} : left[g] = Nothing) =>
              \A k \in Keys : Committed(k) + records[k] + left[f][k] = recorded[k]

\* "FlushToDB persists the current snapshot to the database (upsert by
\* period/user/tunnel/domain)": while no database call fails, no usage is lost.
UsageKept == "failure" \notin mishaps => \A k \in Keys : Kept(k)

\* "Stop stops the background flush task and performs a final flush": when Stop
\* has returned, no flush is under way any more.
StopWaitsForFlushes ==
    running = "stopped" => \A f \in Flushers : left[f] = Nothing
===============================================================================
