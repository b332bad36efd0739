--------------------------- MODULE ClientHost_proofs ---------------------------
(***************************************************************************)
(* Proofs about the client's host, for any number of updater threads,      *)
(* versions, starts and commands.                                          *)
(***************************************************************************)
EXTENDS ClientHost, TLAPS

-----------------------------------------------------------------------------
(* Versions and the server's table.                                        *)

\* A release is an update of another exactly when its number is larger.
LEMMA SemverOrder ==
    ASSUME NEW a \in Nat, NEW b \in Nat
    PROVE  /\ IsUpdateAvailable(Semver(a), Semver(b)) <=> a < b
           /\ Semver(a) = Semver(b) => a = b
<1> DEFINE v == Semver(a)
           w == Semver(b)
<1>1. /\ v.kind = "semver" /\ v.parts = <<a>> /\ v.commit = ""
      /\ w.kind = "semver" /\ w.parts = <<b>> /\ w.commit = ""
  BY DEF Semver, Version
<1>2. v = w <=> a = b
  <2>1. <<a>>[1] = a /\ <<b>>[1] = b
    OBVIOUS
  <2>2. v = w => v.parts[1] = w.parts[1]
    OBVIOUS
  <2>3. QED
    BY <1>1, <2>1, <2>2
<1>3. ComparePadded(<<a>>, <<b>>) = IF a = b THEN 0 ELSE IF a < b THEN -1 ELSE 1
  <2> DEFINE differ == {i \in 1..1 : parseVersionPart(<<a>>, i) # parseVersionPart(<<b>>, i)}
             first == CHOOSE i \in differ : \A j \in differ : i <= j
  <2>1. /\ parseVersionPart(<<a>>, 1) = a /\ parseVersionPart(<<b>>, 1) = b
        /\ Len(<<a>>) = 1 /\ Len(<<b>>) = 1
    BY DEF parseVersionPart
  <2>2. CASE a = b
    <3>1. differ = {}
      BY <2>1, <2>2
    <3>2. QED
      BY <2>1, <2>2, <3>1 DEF ComparePadded
  <2>3. CASE a # b
    <3>1. differ = {1}
      BY <2>1, <2>3
    <3>2. first = 1
      BY <3>1
    <3>3. QED
      BY <2>1, <2>3, <3>1, <3>2 DEF ComparePadded
  <2>4. QED
    BY <2>2, <2>3
<1>4. CompareVersions(v, w) = IF a = b THEN 0 ELSE ComparePadded(<<a>>, <<b>>)
  <2>1. /\ extractCommitFromVersion(v) = "" /\ extractCommitFromVersion(w) = ""
        /\ extractCommitHash(w) = ""
    BY <1>1 DEF extractCommitFromVersion, extractCommitHash
  <2> HIDE DEF v, w
  <2>2. QED
    BY <1>1, <1>2, <2>1 DEF CompareVersions
<1>5. QED
  BY <1>2, <1>3, <1>4 DEF IsUpdateAvailable

\* A row of the table, as the version service reads it.
LEMMA RowRead ==
    ASSUME RowsInd, NEW k \in {Key, TestKey}
    PROVE  ClientVersionRow(rows, k).latest = rows[k].latest
BY DEF RowsInd, ClientVersionRow, ClientVersionColumns

\* The rows that answer a client: the one for all platforms of its channel.
LEMMA ChannelRow ==
    ASSUME RowsInd, NEW c \in {"stable", "test"}
    PROVE  getClientVersionConfig(rows, c, "linux", "amd64") = <<c, "all", "all">>
<1> DEFINE keys == Fallbacks(c, "linux", "amd64")
           found == {i \in 1..4 : ClientVersionExist(rows, keys[i])}
<1>1. /\ keys[1] = <<c, "linux", "amd64">> /\ keys[2] = <<c, "linux", "all">>
      /\ keys[3] = <<c, "all", "amd64">> /\ keys[4] = <<c, "all", "all">>
  BY DEF Fallbacks
<1>2. keys[1] \notin DOMAIN rows /\ keys[2] \notin DOMAIN rows /\ keys[3] \notin DOMAIN rows
  BY <1>1 DEF RowsInd, Key, TestKey
<1>3. keys[4] \in DOMAIN rows
  BY <1>1 DEF RowsInd, Key, TestKey
<1> HIDE DEF keys
<1>4. found = {4}
  BY <1>2, <1>3 DEF ClientVersionExist
<1>5. (CHOOSE i \in found : \A j \in found : i <= j) = 4
  BY <1>4
<1>6. getClientVersionConfig(rows, c, "linux", "amd64") = keys[4]
  BY <1>4, <1>5 DEF getClientVersionConfig, keys
<1>7. QED
  BY <1>1, <1>6

\* What is offered as an update is the latest stable release.
LEMMA Offered ==
    ASSUME TypeOK, RowsInd, NEW p \in Procs, proc[p].ver # 0, VersionInfo(p).available
    PROVE  Wanted(p) = Latest /\ Latest \in Versions
<1> DEFINE ver == proc[p].ver
           resolved == ResolveReleaseChannel(conf)
           c == IF resolved = "" THEN "stable" ELSE resolved
           key == getClientVersionConfig(rows, c, "linux", "amd64")
           row == ClientVersionRow(rows, key)
<1>1. ver \in Versions /\ ver \in Nat /\ ver >= 1
  BY HostAssumption DEF TypeOK, Processes, Versions
<1>2. c \in {"stable", "test"}
  BY DEF TypeOK, Configs, ResolveReleaseChannel
<1>3. key = <<c, "all", "all">>
  BY <1>2, ChannelRow
<1>4. <<c, "all", "all">> \in {Key, TestKey} /\ <<c, "all", "all">> # <<>>
  <2>1. c = "stable" \/ c = "test"
    BY <1>2
  <2>2. <<c, "all", "all">> \in {Key, TestKey}
    BY <2>1 DEF Key, TestKey
  <2>3. Len(<<c, "all", "all">>) = 3 /\ Len(<<>>) = 0
    OBVIOUS
  <2>4. QED
    BY <2>2, <2>3
<1>5. VersionInfo(p).available = IsUpdateAvailable(Semver(ver), row.latest) /\ VersionInfo(p).latest = row.latest
  BY <1>3, <1>4 DEF VersionInfo, GetVersionInfo
<1> HIDE DEF ver, c, key
<1>6. key \in {Key, TestKey} /\ row.latest = rows[key].latest
  BY <1>3, <1>4, RowRead
<1>7. key = Key
  <2>1. ASSUME key = TestKey
        PROVE  FALSE
    <3>1. row.latest = Semver(1)
      BY <1>6, <2>1 DEF RowsInd
    <3>2. ver < 1
      BY <1>1, <1>5, <3>1, SemverOrder
    <3>3. QED
      BY <1>1, <3>2
  <2>2. QED
    BY <1>6, <2>1
<1>8. Latest \in Versions /\ Latest \in Nat /\ VersionInfo(p).latest = Semver(Latest)
  <2>1. Latest \in Versions /\ rows[Key].latest = Semver(Latest)
    BY DEF RowsInd
  <2>2. QED
    BY <1>5, <1>6, <1>7, <2>1, HostAssumption DEF Versions
<1>9. \A n \in Versions : Semver(n) = VersionInfo(p).latest <=> n = Latest
  BY <1>8, SemverOrder, HostAssumption DEF Versions
<1>10. QED
  BY <1>8, <1>9 DEF Wanted

\* The table u is t with the row of k replaced or added.
RowPut(t, k, row, u) ==
    /\ DOMAIN u = DOMAIN t \cup {k}
    /\ DOMAIN u[k] = ClientVersionColumns /\ u[k].latest = row.latest
    /\ \A i \in DOMAIN t : i # k => u[i] = t[i]

\* A row that is written: updated when it exists, inserted otherwise.
LEMMA RowWritten ==
    ASSUME NEW t, NEW k, NEW row, DOMAIN row = ClientVersionColumns,
           k \in DOMAIN t => DOMAIN t[k] = ClientVersionColumns,
           NEW u, u = UpdateClientVersionConfig(t, k, row)
    PROVE  RowPut(t, k, row, u)
<1> USE DEF RowPut
<1>1. CASE k \in DOMAIN t
  <2>1. ClientVersionFields(row) = ClientVersionColumns
    BY DEF ClientVersionFields
  <2>2. u = Put(t, k, Mutated(t[k], row, ClientVersionColumns))
    BY <1>1, <2>1 DEF UpdateClientVersionConfig, ClientVersionExist, ClientVersionUpdateOne, Rewritten, Succeeds
  <2>3. Mutated(t[k], row, ClientVersionColumns) = [c \in ClientVersionColumns |-> row[c]]
    BY <1>1 DEF Mutated
  <2>4. QED
    BY <1>1, <2>2, <2>3 DEF Put, ClientVersionColumns
<1>2. CASE k \notin DOMAIN t
  <2>1. Filled(row, ClientVersionDefaults) = [c \in ClientVersionColumns |-> row[c]]
    BY DEF Filled, ClientVersionDefaults, ClientVersionColumns
  <2>2. ClientVersionSpec(row) = [c \in ClientVersionColumns |-> row[c]]
    BY <2>1 DEF ClientVersionSpec
  <2>3. ClientVersionCheck(Filled(row, ClientVersionDefaults))
    BY <2>1 DEF ClientVersionCheck, ClientVersionFields
  <2>4. u = Put(t, k, ClientVersionSpec(row))
    BY <1>2, <2>3 DEF UpdateClientVersionConfig, ClientVersionExist, ClientVersionCreate, Inserted, Succeeds
  <2>5. QED
    BY <1>2, <2>2, <2>4 DEF Put, ClientVersionColumns
<1>3. QED
  BY <1>1, <1>2

\* The server's first start writes a row for each channel.
LEMMA RowsSeeded == Init => RowsInd
<1> SUFFICES ASSUME Init PROVE RowsInd
  OBVIOUS
<1> DEFINE row == DefaultConfig(Semver(1))
           one == UpdateClientVersionConfig(<<>>, Key, row)
           two == UpdateClientVersionConfig(one, TestKey, row)
<1>1. DOMAIN row = ClientVersionColumns /\ row.latest = Semver(1)
  BY DEF DefaultConfig, ClientVersionColumns
<1>2. DOMAIN <<>> = {}
  OBVIOUS
<1>3. Key # TestKey
  <2>1. Key[1] = "stable" /\ TestKey[1] = "test"
    BY DEF Key, TestKey
  <2>2. QED
    BY <2>1
<1>4. DefaultKeys[1] = Key /\ DefaultKeys[2] = TestKey
  BY DEF DefaultKeys, Key, TestKey
<1>5. DOMAIN one = {Key} /\ DOMAIN one[Key] = ClientVersionColumns /\ one[Key].latest = Semver(1)
  <2>1. RowPut(<<>>, Key, row, one)
    <3> HIDE DEF row
    <3>1. QED
      BY <1>1, <1>2, RowWritten
  <2>2. QED
    BY <1>1, <1>2, <2>1 DEF RowPut
<1>6. /\ DOMAIN two = {Key, TestKey} /\ two[Key] = one[Key]
      /\ DOMAIN two[TestKey] = ClientVersionColumns /\ two[TestKey].latest = Semver(1)
  <2>1. TestKey \notin DOMAIN one
    BY <1>3, <1>5
  <2> HIDE DEF row, one
  <2>2. RowPut(one, TestKey, row, two)
    BY <1>1, <2>1, RowWritten
  <2> HIDE DEF two
  <2>3. QED
    BY <1>1, <1>3, <1>5, <2>2 DEF RowPut
<1>7. rows = two
  <2>1. rows = InitializeDefaultConfigs(<<>>, Semver(1))
    BY DEF Init
  <2>2. Seeded(<<>>, Key, Semver(1)) = one
    BY <1>2 DEF Seeded, Exists, ClientVersionExist
  <2>3. Seeded(one, TestKey, Semver(1)) = two
    BY <1>3, <1>5 DEF Seeded, Exists, ClientVersionExist
  <2> HIDE DEF one, two
  <2>4. QED
    BY <1>4, <2>1, <2>2, <2>3 DEF InitializeDefaultConfigs
<1> HIDE DEF one, two
<1>8. Semver(1).parts[1] = 1
  BY DEF Semver, Version
<1>9. QED
  BY <1>5, <1>6, <1>7, <1>8, HostAssumption DEF RowsInd, Latest, Versions

\* A release goes above the one before, or is noted as a step back.
LEMMA RowsPublished ==
    ASSUME TypeOK, RowsInd, Publish
    PROVE  /\ RowsInd'
           /\ past' \in Histories /\ past'.overlap = past.overlap /\ past'.torn = past.torn
           /\ past'.unlinked = past.unlinked /\ past'.login = past.login /\ past'.stale = past.stale
           /\ past'.overtaken = past.overtaken /\ past'.best = past.best
           /\ past.rolled => past'.rolled
           /\ ~past'.rolled => Latest' >= Latest
<1>1. PICK v \in Versions, required \in BOOLEAN :
         /\ past' = [past EXCEPT !.rolled = @ \/ IsUpdateAvailable(Semver(v), rows[Key].latest)]
         /\ rows' = UpdateClientVersionConfig(rows, Key,
                        [latest |-> Semver(v), force |-> required,
                         minimum |-> IF required THEN Semver(v) ELSE NoMinimum])
  BY DEF Publish
<1> DEFINE row == [latest |-> Semver(v), force |-> required,
                   minimum |-> IF required THEN Semver(v) ELSE NoMinimum]
<1>2. DOMAIN row = ClientVersionColumns /\ row.latest = Semver(v)
  BY DEF ClientVersionColumns
<1>3. Key # TestKey
  <2>1. Key[1] = "stable" /\ TestKey[1] = "test"
    BY DEF Key, TestKey
  <2>2. QED
    BY <2>1
<1>4. DOMAIN rows = {Key, TestKey} /\ \A k \in DOMAIN rows : DOMAIN rows[k] = ClientVersionColumns
  BY DEF RowsInd
<1> HIDE DEF row
<1>5. /\ DOMAIN rows' = {Key, TestKey}
      /\ DOMAIN rows'[Key] = ClientVersionColumns /\ rows'[Key].latest = Semver(v)
      /\ rows'[TestKey] = rows[TestKey]
  <2>1. rows' = UpdateClientVersionConfig(rows, Key, row)
    BY <1>1 DEF row
  <2>2. RowPut(rows, Key, row, rows')
    BY <1>2, <1>4, <2>1, RowWritten
  <2>3. QED
    BY <1>2, <1>3, <1>4, <2>2 DEF RowPut
<1>6. Semver(v).parts[1] = v
  BY DEF Semver, Version
<1>7. Latest' = v
  BY <1>5, <1>6 DEF Latest, Key
<1>8. RowsInd'
  BY <1>4, <1>5, <1>7 DEF RowsInd, Key, TestKey
<1>9. PICK b \in BOOLEAN : b <=> past.rolled \/ IsUpdateAvailable(Semver(v), rows[Key].latest)
  OBVIOUS
<1>10. past' = [past EXCEPT !.rolled = b] /\ past \in Histories
  BY <1>1, <1>9 DEF TypeOK, Histories
<1>11. /\ past' \in Histories /\ past'.rolled = b /\ past'.overlap = past.overlap /\ past'.torn = past.torn
       /\ past'.unlinked = past.unlinked /\ past'.login = past.login /\ past'.stale = past.stale
       /\ past'.overtaken = past.overtaken /\ past'.best = past.best
  BY <1>10 DEF Histories
<1>12. ~b => v >= Latest
  <2>1. Latest \in Nat /\ v \in Nat /\ rows[Key].latest = Semver(Latest)
    BY HostAssumption DEF RowsInd, Versions
  <2>2. IsUpdateAvailable(Semver(v), rows[Key].latest) <=> v < Latest
    BY <2>1, SemverOrder
  <2>3. QED
    BY <1>9, <2>1, <2>2
<1>13. QED
  BY <1>7, <1>8, <1>9, <1>11, <1>12

-----------------------------------------------------------------------------
(* What a step does to the processes.                                      *)

Only(p) == proc' \in [Procs -> Processes] /\ \A o \in Procs : o # p => proc'[o] = proc[o]

\* A process goes on with its command.
Run(p, pc, fd, lock, cfg, todo) ==
    /\ Only(p)
    /\ proc'[p].cmd = proc[p].cmd /\ proc'[p].ver = proc[p].ver /\ proc'[p].cur = proc[p].cur
    /\ proc'[p].pc = pc /\ proc'[p].fd = fd /\ proc'[p].lock = lock
    /\ proc'[p].cfg = cfg /\ proc'[p].todo = todo

\* A process that does not run is one of the processes.
LEMMA OffIsProcess == Off \in Processes
<1>1. [token |-> 0, channel |-> "stable", auto |-> TRUE, whole |-> TRUE] \in Configs
  BY DEF Configs
<1>2. PICK g \in Configs : g = [token |-> 0, channel |-> "stable", auto |-> TRUE, whole |-> TRUE]
  BY <1>1
<1>3. Off = [cmd |-> "none", pc |-> "off", ver |-> 0, cur |-> FALSE, fd |-> 0, lock |-> 0, cfg |-> g, todo |-> {}]
  BY <1>2 DEF Off
<1>4. /\ "none" \in Commands \cup {"none", "connect"} /\ "off" \in PCs /\ 0 \in Versions \cup {0}
      /\ FALSE \in BOOLEAN /\ 0 \in Nat /\ {} \in SUBSET {"crt", "key", "connect"}
  BY DEF PCs
<1>5. QED
  BY <1>3, <1>4, Zenon DEF Processes

\* A process whose fields are known.
LEMMA ProcessFields ==
    ASSUME NEW q \in Processes
    PROVE  /\ q.cmd \in Commands \cup {"none", "connect"} /\ q.pc \in PCs /\ q.ver \in Versions \cup {0}
           /\ q.cur \in BOOLEAN /\ q.fd \in Nat /\ q.lock \in Nat /\ q.cfg \in Configs
           /\ q.todo \in SUBSET {"crt", "key", "connect"}
BY DEF Processes

\* One field of a process changes: its place,
LEMMA PcChanged ==
    ASSUME NEW a \in Processes, NEW c \in PCs, NEW b, b = [a EXCEPT !.pc = c]
    PROVE  /\ b \in Processes /\ b.cmd = a.cmd /\ b.ver = a.ver /\ b.cur = a.cur
           /\ b.pc = c /\ b.fd = a.fd /\ b.lock = a.lock /\ b.cfg = a.cfg /\ b.todo = a.todo
BY DEF Processes

\* its file descriptor,
LEMMA FdChanged ==
    ASSUME NEW a \in Processes, NEW f \in Nat, NEW b, b = [a EXCEPT !.fd = f]
    PROVE  /\ b \in Processes /\ b.cmd = a.cmd /\ b.ver = a.ver /\ b.cur = a.cur
           /\ b.pc = a.pc /\ b.fd = f /\ b.lock = a.lock /\ b.cfg = a.cfg /\ b.todo = a.todo
BY DEF Processes

\* the file whose lock it holds,
LEMMA LockChanged ==
    ASSUME NEW a \in Processes, NEW l \in Nat, NEW b, b = [a EXCEPT !.lock = l]
    PROVE  /\ b \in Processes /\ b.cmd = a.cmd /\ b.ver = a.ver /\ b.cur = a.cur
           /\ b.pc = a.pc /\ b.fd = a.fd /\ b.lock = l /\ b.cfg = a.cfg /\ b.todo = a.todo
BY DEF Processes

\* its configuration,
LEMMA CfgChanged ==
    ASSUME NEW a \in Processes, NEW g \in Configs, NEW b, b = [a EXCEPT !.cfg = g]
    PROVE  /\ b \in Processes /\ b.cmd = a.cmd /\ b.ver = a.ver /\ b.cur = a.cur
           /\ b.pc = a.pc /\ b.fd = a.fd /\ b.lock = a.lock /\ b.cfg = g /\ b.todo = a.todo
BY DEF Processes

\* the certificates it has to write.
LEMMA TodoChanged ==
    ASSUME NEW a \in Processes, NEW t \in SUBSET {"crt", "key", "connect"}, NEW b, b = [a EXCEPT !.todo = t]
    PROVE  /\ b \in Processes /\ b.cmd = a.cmd /\ b.ver = a.ver /\ b.cur = a.cur
           /\ b.pc = a.pc /\ b.fd = a.fd /\ b.lock = a.lock /\ b.cfg = a.cfg /\ b.todo = t
BY DEF Processes

\* Goto changes where a process is.
LEMMA GotoRuns ==
    ASSUME TypeOK, NEW p \in Procs, NEW c \in PCs, Goto(p, c)
    PROVE  Run(p, c, proc[p].fd, proc[p].lock, proc[p].cfg, proc[p].todo)
<1>1. proc \in [Procs -> Processes]
  BY DEF TypeOK
<1>2. proc' = [proc EXCEPT ![p] = [proc[p] EXCEPT !.pc = c]]
  BY <1>1 DEF Goto
<1>3. [proc[p] EXCEPT !.pc = c] \in Processes
  BY <1>1 DEF Processes
<1>4. QED
  BY <1>1, <1>2, <1>3 DEF Run, Only, Processes

\* Moves changes its file descriptor and its lock too.
LEMMA MovesRuns ==
    ASSUME TypeOK, NEW p \in Procs, NEW c \in PCs, NEW f \in Nat, NEW l \in Nat, Moves(p, c, f, l)
    PROVE  Run(p, c, f, l, proc[p].cfg, proc[p].todo)
<1> DEFINE q == [[[proc[p] EXCEPT !.pc = c] EXCEPT !.fd = f] EXCEPT !.lock = l]
<1>1. proc \in [Procs -> Processes]
  BY DEF TypeOK
<1>2. proc' = [proc EXCEPT ![p] = q]
  BY <1>1 DEF Moves
<1>3. /\ q \in Processes
      /\ q.cmd = proc[p].cmd /\ q.ver = proc[p].ver /\ q.cur = proc[p].cur /\ q.pc = c
      /\ q.fd = f /\ q.lock = l /\ q.cfg = proc[p].cfg /\ q.todo = proc[p].todo
  <2>1. PICK a : a = [proc[p] EXCEPT !.pc = c]
    OBVIOUS
  <2>2. PICK b : b = [a EXCEPT !.fd = f]
    OBVIOUS
  <2>3. q = [b EXCEPT !.lock = l]
    BY <2>1, <2>2
  <2> HIDE DEF q
  <2>4. /\ a \in Processes /\ a.cmd = proc[p].cmd /\ a.ver = proc[p].ver /\ a.cur = proc[p].cur
        /\ a.pc = c /\ a.cfg = proc[p].cfg /\ a.todo = proc[p].todo
    BY <1>1, <2>1, PcChanged
  <2>5. /\ b \in Processes /\ b.cmd = proc[p].cmd /\ b.ver = proc[p].ver /\ b.cur = proc[p].cur
        /\ b.pc = c /\ b.fd = f /\ b.cfg = proc[p].cfg /\ b.todo = proc[p].todo
    BY <2>2, <2>4, FdChanged
  <2>6. QED
    BY <2>3, <2>5, LockChanged
<1> HIDE DEF q
<1>4. QED
  BY <1>1, <1>2, <1>3 DEF Run, Only

\* LoadConfig fills in the configuration.
LEMMA LoadRuns ==
    ASSUME TypeOK, NEW p \in Procs, NEW c \in PCs, NEW g \in Configs,
           proc' = [proc EXCEPT ![p].pc = c, ![p].cfg = g]
    PROVE  Run(p, c, proc[p].fd, proc[p].lock, g, proc[p].todo)
<1> DEFINE q == [[proc[p] EXCEPT !.pc = c] EXCEPT !.cfg = g]
<1>1. proc \in [Procs -> Processes]
  BY DEF TypeOK
<1>2. proc' = [proc EXCEPT ![p] = q]
  BY <1>1
<1>3. /\ q \in Processes
      /\ q.cmd = proc[p].cmd /\ q.ver = proc[p].ver /\ q.cur = proc[p].cur /\ q.pc = c
      /\ q.fd = proc[p].fd /\ q.lock = proc[p].lock /\ q.cfg = g /\ q.todo = proc[p].todo
  <2>1. PICK a : a = [proc[p] EXCEPT !.pc = c]
    OBVIOUS
  <2>2. q = [a EXCEPT !.cfg = g]
    BY <2>1
  <2> HIDE DEF q
  <2>3. /\ a \in Processes /\ a.cmd = proc[p].cmd /\ a.ver = proc[p].ver /\ a.cur = proc[p].cur
        /\ a.pc = c /\ a.fd = proc[p].fd /\ a.lock = proc[p].lock /\ a.todo = proc[p].todo
    BY <1>1, <2>1, PcChanged
  <2>4. QED
    BY <2>2, <2>3, CfgChanged
<1> HIDE DEF q
<1>4. proc'[p] = q /\ \A o \in Procs : o # p => proc'[o] = proc[o]
  BY <1>1, <1>2
<1>5. proc' \in [Procs -> Processes]
  BY <1>1, <1>2, <1>3
<1>6. QED
  BY <1>3, <1>4, <1>5 DEF Run, Only

\* login notes which certificates it has to write.
LEMMA TodoRuns ==
    ASSUME TypeOK, NEW p \in Procs, NEW c \in PCs, NEW t \in SUBSET {"crt", "key", "connect"},
           \/ proc' = [proc EXCEPT ![p].pc = c, ![p].todo = t]
           \/ proc' = [proc EXCEPT ![p].todo = t, ![p].pc = c]
    PROVE  Run(p, c, proc[p].fd, proc[p].lock, proc[p].cfg, t)
<1> DEFINE q == [[proc[p] EXCEPT !.pc = c] EXCEPT !.todo = t]
           r == [[proc[p] EXCEPT !.todo = t] EXCEPT !.pc = c]
<1>1. proc \in [Procs -> Processes]
  BY DEF TypeOK
<1>2. proc' = [proc EXCEPT ![p] = q] \/ proc' = [proc EXCEPT ![p] = r]
  BY <1>1
<1>3. /\ q \in Processes
      /\ q.cmd = proc[p].cmd /\ q.ver = proc[p].ver /\ q.cur = proc[p].cur /\ q.pc = c
      /\ q.fd = proc[p].fd /\ q.lock = proc[p].lock /\ q.cfg = proc[p].cfg /\ q.todo = t
  <2>1. PICK a : a = [proc[p] EXCEPT !.pc = c]
    OBVIOUS
  <2>2. q = [a EXCEPT !.todo = t]
    BY <2>1
  <2> HIDE DEF q
  <2>3. /\ a \in Processes /\ a.cmd = proc[p].cmd /\ a.ver = proc[p].ver /\ a.cur = proc[p].cur
        /\ a.pc = c /\ a.fd = proc[p].fd /\ a.lock = proc[p].lock /\ a.cfg = proc[p].cfg
    BY <1>1, <2>1, PcChanged
  <2>4. QED
    BY <2>2, <2>3 DEF Processes
<1>4. /\ r \in Processes
      /\ r.cmd = proc[p].cmd /\ r.ver = proc[p].ver /\ r.cur = proc[p].cur /\ r.pc = c
      /\ r.fd = proc[p].fd /\ r.lock = proc[p].lock /\ r.cfg = proc[p].cfg /\ r.todo = t
  <2>1. PICK a : a = [proc[p] EXCEPT !.todo = t]
    OBVIOUS
  <2>2. r = [a EXCEPT !.pc = c]
    BY <2>1
  <2> HIDE DEF r
  <2>3. /\ a \in Processes /\ a.cmd = proc[p].cmd /\ a.ver = proc[p].ver /\ a.cur = proc[p].cur
        /\ a.todo = t /\ a.fd = proc[p].fd /\ a.lock = proc[p].lock /\ a.cfg = proc[p].cfg
    BY <1>1, <2>1, TodoChanged
  <2>4. QED
    BY <2>2, <2>3, PcChanged
<1> HIDE DEF q, r
<1>5. PICK x \in {q, r} : proc' = [proc EXCEPT ![p] = x]
  BY <1>2
<1>6. proc'[p] = x /\ \A o \in Procs : o # p => proc'[o] = proc[o]
  BY <1>1, <1>5
<1>7. proc' \in [Procs -> Processes]
  BY <1>1, <1>3, <1>4, <1>5
<1>8. QED
  BY <1>3, <1>4, <1>5, <1>6, <1>7 DEF Run, Only

\* A process is gone.
LEMMA OffEnds ==
    ASSUME TypeOK, NEW p \in Procs, proc' = [proc EXCEPT ![p] = Off]
    PROVE  Only(p) /\ proc'[p] = Off
BY OffIsProcess DEF TypeOK, Only

-----------------------------------------------------------------------------
(* What a step leaves alone.                                               *)

\* Nobody opens, locks or removes the pid file; locks may be dropped.
LockKept ==
    /\ UNCHANGED pid /\ (past.unlinked => past'.unlinked)
    /\ \A p \in Procs :
          \/ proc'[p].lock = 0 /\ proc'[p].pc # "lock"
          \/ /\ proc'[p].lock = proc[p].lock /\ (proc'[p].fd = proc[p].fd \/ proc'[p].pc # "lock")
             /\ proc'[p].pc \in {"lock", "clean_remove", "unlink"} => proc'[p].pc = proc[p].pc
             /\ Transient(p) => proc'[p].pc = proc[p].pc

\* The step keeps the invariant of the lock.
LEMMA LocksKept ==
    ASSUME TypeOK, LockInd, LockKept
    PROVE  LockInd'
<1> USE DEF LockInd, LockKept, At, Transient
<1>1. pid' = pid
  OBVIOUS
<1>2. "svc" \in Procs /\ "shell" \in Procs
  BY DEF Procs
<1>3. ASSUME NEW p \in Procs
      PROVE  /\ proc'[p].pc \in {"clean_remove", "unlink"} => proc'[p].lock = 0
             /\ At(p, "lock")' => proc'[p].fd # 0 /\ (past'.unlinked \/ proc'[p].fd = pid')
             /\ proc'[p].lock # 0 /\ ~Transient(p)' => past'.unlinked \/ proc'[p].lock = pid'
  BY <1>1, <1>3
<1>4. proc'["svc"].lock = proc'["shell"].lock => proc'["svc"].lock = 0
  BY <1>2
<1>5. QED
  BY <1>1, <1>3, <1>4

\* Neither the configuration nor the certificates are written, and a login
\* goes on where it was or is over.
LoginKept ==
    /\ UNCHANGED <<conf, certs>> /\ spent'.logins = spent.logins
    /\ (past.login => past'.login) /\ past'.stale = past.stale
    /\ \A p \in Procs : /\ proc'[p].cfg.whole
                        /\ proc[p].pc = "saving" => proc'[p].pc = "saving" \/ past'.login
                        /\ proc'[p].pc = "mixing" => proc[p].pc = "mixing" \/ past'.login
    /\ LoginUnder => past'.login \/ LoginUnder'
    /\ proc[ "shell" ].pc = "certs" => past'.login \/ proc'["shell"].pc = "certs"
    /\ LoginUnder' => /\ LoginUnder /\ proc'["shell"].pc = proc["shell"].pc
                      /\ proc'["shell"].todo = proc["shell"].todo

\* The step keeps the invariant of the login.
LEMMA LoginsKept ==
    ASSUME LoginInd, LoginKept, CommandsRun'
    PROVE  LoginInd'
<1> USE DEF LoginInd, LoginKept, At
<1>1. "shell" \in Procs
  BY DEF Procs
<1>2. proc'["shell"].pc = "certs" => LoginUnder'
  BY <1>1 DEF CommandsRun, PCsOf, ServicePCs, ConnectPCs, UpdatePCs, LoginUnder
<1>3. /\ past'.login \/ conf'.whole \/ \E p \in Procs : proc'[p].pc = "saving"
      /\ past'.login \/ \A p \in Procs : proc'[p].pc # "mixing"
  OBVIOUS
<1>4. past'.login \/ certs'.crt = certs'.key \/ At("shell", "certs")'
  OBVIOUS
<1>5. At("shell", "certs")' => /\ proc'["shell"].todo # {}
                               /\ \A f \in {"crt", "key"} \ proc'["shell"].todo : certs'[f] = spent'.logins
  BY <1>2
<1>6. LoginUnder' /\ ~At("shell", "certs")' => certs'.crt = spent'.logins /\ certs'.key = spent'.logins
  OBVIOUS
<1>7. past'.login \/ past'.stale \/ conf'.token = certs'.key \/ LoginUnder'
  OBVIOUS
<1>8. QED
  BY <1>3, <1>4, <1>5, <1>6, <1>7

\* No file of an update changes, and no thread but those that end.
UpdateKept ==
    /\ UNCHANGED <<exe, files, rows>>
    /\ past'.overlap = past.overlap /\ past'.overtaken = past.overtaken /\ past'.best = past.best
    /\ past'.rolled = past.rolled
    /\ past.torn => past'.torn
    /\ \A u \in Threads :
          upd'[u] = upd[u] \/ (upd'[u].pc \in {"idle", "restart"} /\ (Writes(u) => past'.torn \/ past.overlap))
    /\ \A p \in Procs :
          /\ proc'[p].pc # "off" => proc'[p].ver # 0
          /\ proc'[p].pc # "off" /\ proc'[p].cur => exe \in Versions \/ (proc[p].pc # "off" /\ proc[p].cur)
          /\ proc'[p].pc \in {"stop", "stopping"} =>
                proc[p].pc \in {"stop", "stopping"} /\ \A u \in Threads : Home[u] = p => upd'[u] = upd[u]
          /\ \/ \A u \in Threads : Home[u] = p => upd'[u].pc \in {"idle", "restart"}
             \/ /\ proc[p].cmd = "connect" => proc'[p].cmd = "connect"
                /\ proc[p].pc = "updating" => proc'[p].cmd = proc[p].cmd /\ proc'[p].pc = "updating"

\* The step keeps the invariant of the updates.
LEMMA UpdatesKept ==
    ASSUME TypeOK, UpdateInd, UpdateKept
    PROVE  UpdateInd'
<1> USE DEF UpdateKept
<1>1. \A u \in Threads : Home[u] \in Procs
  BY HostAssumption
<1>2. RowsInd'
  BY DEF UpdateInd, RowsInd, Latest
<1>3. \A p \in Procs : Running(p)' => proc'[p].ver # 0
  BY DEF Running
<1>5. \A u \in Threads : Working(u)' => Working(u) /\ upd'[u] = upd[u]
  BY DEF Working
<1>6. \A u \in Threads : Working(u)' => Hosted(u)'
  BY <1>1, <1>5 DEF UpdateInd, Hosted, Working
<1>7. \A u \in Threads : Asked(u)' => Asked(u) /\ upd'[u] = upd[u]
  BY <1>1, <1>5 DEF Asked, Waiting
<1>8. \A u \in Threads : Asked(u)' => upd'[u].want # 0
  BY <1>7 DEF UpdateInd
<1>9. ~past.overlap => ExeInd'
  <2> SUFFICES ASSUME ~past.overlap PROVE ExeInd'
    OBVIOUS
  <2>1. ExeInd
    BY DEF UpdateInd
  <2>2. \A u \in Threads : Working(u)' /\ FilesOf(u) => FilesOf(u)'
    BY <1>5 DEF FilesOf, HasBackup
  <2>3. \A u \in Threads : Writes(u) => Writes(u)' \/ past'.torn
    BY DEF Writes
  <2>4. \A u \in Threads : Working(u)' => FilesOf(u)'
    BY <1>5, <2>1, <2>2 DEF ExeInd
  <2>5. \A u \in Threads : upd'[u].pc \in {"restoring", "sudo"} => exe' = Part
    BY <2>1 DEF ExeInd
  <2>6. \A p \in Procs : Running(p)' /\ proc'[p].cur => exe' \in Versions
    BY <2>1 DEF ExeInd, Running
  <2>7. QED
    BY <1>5, <2>1, <2>3, <2>4, <2>5, <2>6 DEF ExeInd
<1>10. ~past.overlap /\ ~past.rolled => Newest'
  BY <1>7 DEF UpdateInd, Newest, Latest
<1>11. ~past.overlap /\ ~past.rolled /\ ~past.overtaken => Upwards'
  <2>1. \A u \in Threads : HasBackup(u)' => HasBackup(u) /\ upd'[u] = upd[u]
    BY DEF HasBackup
  <2>2. QED
    BY <1>7, <2>1 DEF UpdateInd, Upwards
<1>12. QED
  BY <1>2, <1>3, <1>6, <1>8, <1>9, <1>10, <1>11 DEF UpdateInd

\* Nothing of an update changes at all.
LEMMA UpdatesUntouched ==
    ASSUME UNCHANGED <<exe, files, rows, upd>>,
           past'.overlap = past.overlap, past'.torn = past.torn, past'.overtaken = past.overtaken,
           past'.best = past.best, past'.rolled = past.rolled,
           \A p \in Procs :
              /\ proc'[p].pc # "off" => proc'[p].ver # 0
              /\ proc'[p].pc # "off" /\ proc'[p].cur => exe \in Versions \/ (proc[p].pc # "off" /\ proc[p].cur)
              /\ proc'[p].pc \in {"stop", "stopping"} => proc[p].pc \in {"stop", "stopping"}
              /\ proc[p].cmd = "connect" => proc'[p].cmd = "connect"
              /\ proc[p].pc = "updating" => proc'[p].cmd = proc[p].cmd /\ proc'[p].pc = "updating"
    PROVE  UpdateKept
BY DEF UpdateKept

\* The history a process leaves when it ends.
LEMMA EndedIs ==
    ASSUME TypeOK, NEW p \in Procs, NEW e, e = Ended(p)
    PROVE  /\ e \in Histories
           /\ e.torn <=> past.torn \/ Writing(p)
           /\ e.login <=> past.login \/ Saving(p)
                            \/ (proc[p].cmd = "login" /\ proc[p].pc \in {"certs", "save"})
           /\ e.overlap = past.overlap /\ e.unlinked = past.unlinked /\ e.stale = past.stale
           /\ e.overtaken = past.overtaken /\ e.best = past.best /\ e.rolled = past.rolled
<1>1. past \in Histories
  BY DEF TypeOK
<1>2. PICK a \in BOOLEAN : a <=> past.torn \/ Writing(p)
  OBVIOUS
<1>3. PICK b \in BOOLEAN : b <=> past.login \/ Saving(p)
                                   \/ (proc[p].cmd = "login" /\ proc[p].pc \in {"certs", "save"})
  OBVIOUS
<1>4. e = [past EXCEPT !.torn = a, !.login = b]
  BY <1>1, <1>2, <1>3 DEF Ended, Histories
<1>5. QED
  BY <1>1, <1>2, <1>3, <1>4 DEF Histories

-----------------------------------------------------------------------------
(* The end of a process.                                                   *)

LEMMA IdleIsUpdater == Idle \in Updaters /\ Idle.pc = "idle" /\ Idle.want = 0
BY DEF Idle, Updaters, UpdaterPCs, Contents

\* A process that exits, or is killed, leaves an excuse for what it leaves
\* half done.
LEMMA ExitKeeps ==
    ASSUME HostInd, NEW p \in Procs, Exit(p), UNCHANGED <<exe, files, pid, unit, conf, certs, rows, spent>>
    PROVE  HostInd'
<1> USE DEF HostInd
<1>1. Only(p) /\ proc'[p] = Off
  BY OffEnds DEF Exit, Gone
<1>2. /\ Off.cmd = "none" /\ Off.pc = "off" /\ Off.lock = 0 /\ Off.fd = 0 /\ Off.cfg.whole
      /\ Off.cur = FALSE
  BY DEF Off
<1>3. /\ upd' \in [Threads -> Updaters]
      /\ \A u \in Threads : upd'[u] = IF Home[u] = p THEN Idle ELSE upd[u]
  BY IdleIsUpdater DEF Exit, Gone, TypeOK
<1>4. /\ past' \in Histories
      /\ past'.torn <=> past.torn \/ Writing(p)
      /\ past'.login <=> past.login \/ Saving(p)
                            \/ (proc[p].cmd = "login" /\ proc[p].pc \in {"certs", "save"})
      /\ past'.overlap = past.overlap /\ past'.unlinked = past.unlinked /\ past'.stale = past.stale
      /\ past'.overtaken = past.overtaken /\ past'.best = past.best /\ past'.rolled = past.rolled
  BY EndedIs DEF Exit
<1>5. TypeOK'
  BY <1>1, <1>3, <1>4 DEF TypeOK, Only
<1>6. CommandsRun'
  BY <1>1, <1>2, <1>4 DEF CommandsRun, Only, PCsOf, Procs
<1>7. LockInd'
  <2>1. LockKept
    BY <1>1, <1>2, <1>4 DEF LockKept, Only
  <2>2. QED
    BY <2>1, LocksKept
<1>8. LoginInd'
  <2>1. LoginKept
    BY <1>1, <1>2, <1>4 DEF LoginKept, LoginUnder, LoginInd, Only, Procs, CommandsRun, PCsOf, ServicePCs, ConnectPCs, UpdatePCs, Saving
  <2>2. QED
    BY <1>6, <2>1, LoginsKept
<1>9. UpdateInd'
  <2>1. \A u \in Threads : Home[u] = p /\ Writes(u) => Writing(p)
    BY DEF Writes, Writing
  <2>2. \A o \in Procs : o # p => \A u \in Threads : Home[u] = o => upd'[u] = upd[u]
    BY <1>3
  <2>3. UpdateKept
    BY <1>1, <1>2, <1>3, <1>4, <2>1, <2>2, IdleIsUpdater DEF UpdateKept, Only, UpdateInd, Running
  <2>4. QED
    BY <2>3, UpdatesKept
<1>10. QED
  BY <1>5, <1>6, <1>7, <1>8, <1>9

-----------------------------------------------------------------------------
(* connect: from the version check to the end.                             *)

\* No history changes but, perhaps, that of the pid file.
SamePast ==
    /\ past' \in Histories
    /\ past'.overlap = past.overlap /\ past'.torn = past.torn /\ past'.rolled = past.rolled
    /\ past'.login = past.login /\ past'.stale = past.stale /\ past'.overtaken = past.overtaken
    /\ past'.best = past.best

\* Places from which the configuration is not being written.
Calm(p) == PCsOf(proc[p].cmd) \ {"saving", "mixing"}

\* A step of connect or of `service singleton' that writes no file but the pid
\* file keeps the invariant when it keeps that of the lock.
LEMMA ConnectKeeps ==
    ASSUME HostInd, NEW p \in Procs, proc[p].cmd \in {"connect", "service"}, NEW c \in Calm(p),
           NEW f \in Nat, NEW l \in Nat, NEW t,
           Run(p, c, f, l, proc[p].cfg, t), ~Saving(p),
           UNCHANGED <<exe, files, upd, unit, conf, certs, rows, spent>>,
           SamePast, pid' \in Nat, LockInd'
    PROVE  HostInd'
<1> USE DEF HostInd, SamePast
<1>1. TypeOK'
  BY DEF TypeOK, Run, Only
<1>2. CommandsRun'
  BY DEF CommandsRun, Run, Only, Procs, Calm
<1>3. /\ proc[p].pc # "off" /\ proc[p].pc # "updating" /\ proc[p].pc # "certs"
      /\ c # "off" /\ c \notin {"stop", "stopping"} /\ c # "mixing" /\ proc[p].pc # "saving"
  BY DEF CommandsRun, PCsOf, ServicePCs, ConnectPCs, Calm, Saving
<1>4. LoginInd'
  <2>1. CASE p = "shell"
    <3>1. ~LoginUnder /\ ~LoginUnder'
      BY <2>1 DEF LoginUnder, Run
    <3>2. proc["shell"].pc # "certs" /\ proc["shell"].pc # "saving"
      BY <1>3, <2>1
    <3>3. LoginKept
      BY <1>3, <2>1, <3>1, <3>2 DEF LoginKept, LoginInd, Run, Only
    <3>4. QED
      BY <1>2, <3>3, LoginsKept
  <2>2. CASE p # "shell"
    <3>1. proc'["shell"] = proc["shell"]
      BY <2>2 DEF Run, Only, Procs
    <3>2. LoginKept
      BY <1>3, <2>2, <3>1 DEF LoginKept, LoginInd, LoginUnder, Run, Only
    <3>3. QED
      BY <1>2, <3>2, LoginsKept
  <2>3. QED
    BY <2>1, <2>2
<1>5. UpdateInd'
  <2>1. UpdateKept
    BY <1>3, UpdatesUntouched DEF UpdateInd, Run, Only, Running
  <2>2. QED
    BY <2>1, UpdatesKept
<1>6. QED
  BY <1>1, <1>2, <1>4, <1>5

\* A step of them that only goes on, with what is left to do, keeps it too.
LEMMA ConnectRuns ==
    ASSUME HostInd, NEW p \in Procs, proc[p].cmd \in {"connect", "service"}, NEW c \in Calm(p), NEW f \in Nat, NEW t,
           c \notin {"lock", "clean_remove", "unlink"}, Run(p, c, f, proc[p].lock, proc[p].cfg, t),
           ~Saving(p), ~Transient(p),
           UNCHANGED <<exe, files, upd, unit, conf, certs, rows, spent, pid, past>>
    PROVE  HostInd'
<1>1. TypeOK /\ LockInd
  BY DEF HostInd
<1>2. proc[p].lock \in Nat
  BY <1>1 DEF TypeOK, Processes
<1>3. LockKept
  BY <1>1 DEF LockKept, Run, Only
<1>4. LockInd'
  BY <1>1, <1>3, LocksKept
<1>5. SamePast /\ pid' \in Nat
  BY <1>1 DEF SamePast, TypeOK
<1>6. QED
  BY <1>2, <1>4, <1>5, ConnectKeeps

LEMMA ConnectGoes ==
    ASSUME HostInd, NEW p \in Procs, proc[p].cmd \in {"connect", "service"}, NEW c \in Calm(p), Goto(p, c),
           c \notin {"lock", "clean_remove", "unlink"}, ~Saving(p), ~Transient(p),
           UNCHANGED <<exe, files, upd, unit, conf, certs, rows, spent, pid, past>>
    PROVE  HostInd'
<1>1. TypeOK /\ c \in PCs
  BY DEF HostInd, PCs, Calm, PCsOf
<1>2. proc[p].fd \in Nat
  BY <1>1 DEF TypeOK, Processes
<1>3. Run(p, c, proc[p].fd, proc[p].lock, proc[p].cfg, proc[p].todo)
  BY <1>1, GotoRuns
<1>4. QED
  BY <1>2, <1>3, ConnectRuns

\* The pid file is locked by its inode: what a step of one process does.
LEMMA LockMoves ==
    ASSUME HostInd, NEW p \in Procs, proc[p].cmd \in {"connect", "service"}, NEW c \in Calm(p), NEW f \in Nat, NEW l \in Nat,
           Moves(p, c, f, l), ~Saving(p),
           UNCHANGED <<exe, files, upd, unit, conf, certs, rows, spent, past>>,
           pid' \in Nat, pid' = pid \/ pid = 0,
           c = "lock" => f # 0 /\ (past.unlinked \/ f = pid'),
           l # 0 /\ c \notin {"clean_unlock", "probe_unlock"} => past.unlinked \/ l = pid',
           l # 0 => ~Locked(l), c \in {"clean_remove", "unlink"} => l = 0
    PROVE  HostInd'
<1>1. TypeOK /\ LockInd /\ c \in PCs
  BY DEF HostInd, PCs, Calm, PCsOf
<1>2. Run(p, c, f, l, proc[p].cfg, proc[p].todo)
  BY <1>1, MovesRuns
<1>3. LockInd'
  <2>1. proc'[p].pc = c /\ proc'[p].fd = f /\ proc'[p].lock = l
    BY <1>2 DEF Run
  <2>2. \A o \in Procs : o # p => proc'[o] = proc[o]
    BY <1>2 DEF Run, Only
  <2>3. \A o \in Procs : proc[o].lock \in Nat /\ proc[o].fd \in Nat
    BY <1>1 DEF TypeOK, Processes
  <2>5. ASSUME NEW o \in Procs
        PROVE  /\ proc'[o].pc \in {"clean_remove", "unlink"} => proc'[o].lock = 0
               /\ At(o, "lock")' => proc'[o].fd # 0 /\ (past'.unlinked \/ proc'[o].fd = pid')
               /\ proc'[o].lock # 0 /\ ~Transient(o)' => past'.unlinked \/ proc'[o].lock = pid'
    <3>1. CASE o = p
      BY <2>1, <3>1 DEF At, Transient
    <3>2. CASE o # p
      BY <1>1, <2>2, <2>3, <3>2 DEF At, LockInd, Transient
    <3>3. QED
      BY <3>1, <3>2
  <2>6. proc'["svc"].lock = proc'["shell"].lock => proc'["svc"].lock = 0
    BY <1>1, <2>1, <2>2 DEF LockInd, Locked, Procs
  <2>7. QED
    BY <2>5, <2>6 DEF LockInd
<1>4. SamePast
  BY <1>1 DEF SamePast, TypeOK
<1>5. QED
  BY <1>2, <1>3, <1>4, ConnectKeeps

\* Removing the pid file is noted when another process is using it.
LEMMA RemoveKeeps ==
    ASSUME HostInd, NEW p \in Procs, proc[p].cmd \in {"connect", "service"}, NEW c \in Calm(p),
           c \in {"conflict", "probe", "closing", "reload"}, proc[p].pc \in {"clean_remove", "unlink"},
           Remove(p), Goto(p, c), LockOnly
    PROVE  HostInd'
<1>1. TypeOK /\ LockInd /\ c \in PCs
  BY DEF HostInd, PCs, Calm, PCsOf
<1>2. Run(p, c, proc[p].fd, proc[p].lock, proc[p].cfg, proc[p].todo)
  BY <1>1, GotoRuns
<1>3. proc[p].fd \in Nat /\ proc[p].lock = 0
  BY <1>1 DEF TypeOK, Processes, LockInd
<1>4. pid' \in Nat /\ pid' = 0
  BY DEF Remove
<1>5. PICK b \in BOOLEAN :
         b <=> past.unlinked \/ \E q \in Procs \ {p} :
                  pid # 0 /\ (pid = proc[q].lock \/ (pid = proc[q].fd /\ proc[q].pc = "lock"))
  OBVIOUS
<1>6. past' = [past EXCEPT !.unlinked = b] /\ past \in Histories
  BY <1>1, <1>5 DEF Remove, TypeOK, Histories
<1>7. SamePast /\ past'.unlinked = b
  BY <1>6 DEF SamePast, Histories
<1>8. LockInd'
  <2>1. \A o \in Procs : o # p => proc'[o] = proc[o]
    BY <1>2 DEF Run, Only
  <2>2. proc'[p].pc = c /\ proc'[p].fd = proc[p].fd /\ proc'[p].lock = 0
    BY <1>2, <1>3 DEF Run
  <2>4. ASSUME NEW o \in Procs
        PROVE  /\ proc'[o].pc \in {"clean_remove", "unlink"} => proc'[o].lock = 0
               /\ At(o, "lock")' => proc'[o].fd # 0 /\ (past'.unlinked \/ proc'[o].fd = pid')
               /\ proc'[o].lock # 0 /\ ~Transient(o)' => past'.unlinked \/ proc'[o].lock = pid'
    <3>1. CASE o = p
      BY <1>1, <1>4, <2>2, <3>1 DEF At, LockInd
    <3>2. CASE o # p
      BY <1>1, <1>4, <1>5, <1>7, <2>1, <3>2 DEF At, LockInd, Transient
    <3>3. QED
      BY <3>1, <3>2
  <2>5. proc'["svc"].lock = proc'["shell"].lock => proc'["svc"].lock = 0
    BY <1>1, <1>3, <2>1, <2>2 DEF LockInd, Procs
  <2>6. QED
    BY <2>4, <2>5 DEF LockInd
<1>9. ~Saving(p) /\ proc[p].lock \in Nat
  BY <1>3 DEF Saving
<1>10. QED
  BY <1>1, <1>2, <1>3, <1>4, <1>7, <1>8, <1>9, ConnectKeeps DEF LockOnly

\* A process at one of connect's own places runs connect.
LEMMA IsConnect ==
    ASSUME HostInd, NEW p \in Procs,
           proc[p].pc \in {"version", "conflict", "open", "lock", "connecting", "up", "release", "unlink", "reload", "closing"}
    PROVE  proc[p].cmd = "connect"
BY DEF HostInd, CommandsRun, PCsOf, ServicePCs, ConnectPCs, UpdatePCs, LoginPCs

\* CleanupStaleLock is connect's and `service singleton's, the probe only the
\* latter's.
LEMMA IsClean ==
    ASSUME HostInd, NEW p \in Procs
    PROVE  /\ proc[p].pc \in {"clean", "clean_lock", "clean_unlock", "clean_remove"} => proc[p].cmd \in {"connect", "service"}
           /\ proc[p].pc \in {"service", "probe", "probe_lock", "probe_unlock"} => proc[p].cmd = "service" /\ p = "shell"
BY DEF HostInd, CommandsRun, PCsOf, ServicePCs, ConnectPCs, UpdatePCs, LoginPCs, Procs

\* The places they go to.
LEMMA CalmIs ==
    ASSUME NEW p
    PROVE  /\ proc[p].cmd = "connect" =>
                 {"clean", "clean_lock", "clean_unlock", "clean_remove", "conflict", "open", "lock", "connecting", "save",
                  "up", "release", "unlink", "reload", "closing"} \subseteq Calm(p)
           /\ proc[p].cmd = "service" =>
                 {"clean", "clean_lock", "clean_unlock", "clean_remove", "probe", "probe_lock", "probe_unlock"}
                    \subseteq Calm(p)
           /\ proc[p].cmd \in {"connect", "service"} => AfterClean(p) \in Calm(p) /\ AfterClean(p) \in {"conflict", "probe"}
           /\ proc[p].cmd = "connect" => AfterRelease(p) \in Calm(p) /\ AfterRelease(p) \in {"closing", "reload"}
BY DEF Calm, PCsOf, ConnectPCs, ServicePCs, AfterClean, AfterRelease

\* The shell's command is over, and nothing else changes but the unit.
LEMMA ShellEnds ==
    ASSUME HostInd, proc' = [proc EXCEPT !["shell"] = Off], proc["shell"].cmd = "service",
           unit' \in {"absent", "active", "stopped", "halted"},
           UNCHANGED <<exe, files, pid, conf, certs, upd, rows, spent, past>>
    PROVE  HostInd'
<1> USE DEF HostInd
<1>1. Only("shell") /\ proc'["shell"] = Off /\ "shell" \in Procs
  BY OffEnds DEF Procs
<1>2. Off.cmd = "none" /\ Off.pc = "off" /\ Off.lock = 0 /\ Off.fd = 0 /\ Off.cfg.whole
  BY DEF Off
<1>3. proc["shell"].pc \notin {"saving", "mixing", "certs", "updating", "off"}
  BY <1>1 DEF CommandsRun, PCsOf, ServicePCs
<1>4. TypeOK'
  BY <1>1 DEF TypeOK, Only
<1>5. CommandsRun'
  BY <1>1, <1>2 DEF CommandsRun, Only, PCsOf, Procs
<1>6. LockKept
  BY <1>1, <1>2 DEF LockKept, Only
<1>7. LoginKept
  BY <1>1, <1>2, <1>3 DEF LoginKept, LoginUnder, LoginInd, Only
<1>8. UpdateKept
  BY <1>1, <1>2, <1>3, UpdatesUntouched DEF UpdateInd, Only, Running
<1>9. QED
  BY <1>4, <1>5, <1>6, <1>7, <1>8, LocksKept, LoginsKept, UpdatesKept

\* There is always a number for a new file.
LEMMA FreshIs == Fresh \in Nat \ {0}
<1> DEFINE Free(i) == \A q \in Procs : i \notin {proc[q].fd, proc[q].lock}
<1>1. \E i \in Inodes : Free(i)
  <2>1. 1 \in Inodes /\ 2 \in Inodes /\ 3 \in Inodes /\ 4 \in Inodes /\ 5 \in Inodes
    BY DEF Inodes
  <2>2. \A i : Free(i) <=> i # proc["svc"].fd /\ i # proc["svc"].lock /\ i # proc["shell"].fd /\ i # proc["shell"].lock
    BY DEF Procs
  <2>3. Free(1) \/ Free(2) \/ Free(3) \/ Free(4) \/ Free(5)
    <3> HIDE DEF Free
    <3>1. QED
      BY <2>2
  <2>4. QED
    BY <2>1, <2>3
<1>2. Fresh \in Inodes
  BY <1>1 DEF Fresh
<1>3. QED
  BY <1>2 DEF Inodes

\* connect does not get the lock: it exits, or goes on without a tunnel.
LEMMA RefusedKeeps ==
    ASSUME HostInd, NEW p \in Procs, Refused(p), proc[p].cmd = "connect", ~Saving(p), ~Transient(p),
           UNCHANGED <<HostFiles, unit, rows, spent>>
    PROVE  HostInd'
<1>1. CASE ~Restoring(p)
  BY <1>1, ExitKeeps DEF Refused, HostFiles
<1>2. CASE Restoring(p)
  <2>1. proc' = [proc EXCEPT ![p].pc = "up", ![p].fd = 0, ![p].todo = {}] /\ UNCHANGED <<upd, past>>
    BY <1>2 DEF Refused
  <2>2. proc \in [Procs -> Processes] /\ "up" \in PCs /\ 0 \in Nat /\ {} \in SUBSET {"crt", "key", "connect"}
    BY DEF HostInd, TypeOK, PCs, ConnectPCs
  <2>3. PICK a : a = [proc[p] EXCEPT !.pc = "up"]
    OBVIOUS
  <2>4. PICK b : b = [a EXCEPT !.fd = 0]
    OBVIOUS
  <2>5. PICK c : c = [b EXCEPT !.todo = {}]
    OBVIOUS
  <2>6. proc' = [proc EXCEPT ![p] = c]
    BY <2>1, <2>2, <2>3, <2>4, <2>5
  <2>7. /\ a \in Processes /\ a.cmd = proc[p].cmd /\ a.ver = proc[p].ver /\ a.cur = proc[p].cur
        /\ a.pc = "up" /\ a.lock = proc[p].lock /\ a.cfg = proc[p].cfg
    BY <2>2, <2>3, PcChanged
  <2>8. /\ b \in Processes /\ b.cmd = proc[p].cmd /\ b.ver = proc[p].ver /\ b.cur = proc[p].cur
        /\ b.pc = "up" /\ b.fd = 0 /\ b.lock = proc[p].lock /\ b.cfg = proc[p].cfg
    BY <2>2, <2>4, <2>7, FdChanged
  <2>9. /\ c \in Processes /\ c.cmd = proc[p].cmd /\ c.ver = proc[p].ver /\ c.cur = proc[p].cur
        /\ c.pc = "up" /\ c.fd = 0 /\ c.lock = proc[p].lock /\ c.cfg = proc[p].cfg /\ c.todo = {}
    BY <2>5, <2>8 DEF Processes
  <2>10. Run(p, "up", 0, proc[p].lock, proc[p].cfg, {})
    BY <2>2, <2>6, <2>9 DEF Run, Only
  <2>11. "up" \in Calm(p)
    BY CalmIs
  <2>12. QED
    BY <2>1, <2>10, <2>11, ConnectRuns DEF HostFiles
<1>3. QED
  BY <1>1, <1>2

\* `service singleton' ends, or asks once more.
LEMMA ProbedKeeps ==
    ASSUME HostInd, NEW p \in Procs, Probed(p), proc[p].pc \in {"probe", "probe_lock", "probe_unlock"},
           UNCHANGED <<pid, past>>, LockOnly
    PROVE  HostInd'
<1>1. proc[p].cmd = "service" /\ p = "shell" /\ ~Saving(p)
  BY IsClean DEF Saving
<1>2. unit \in {"absent", "active", "stopped", "halted"} /\ pid \in Nat
  BY DEF HostInd, TypeOK
<1>3. CASE proc' = [proc EXCEPT ![p] = Off]
  BY <1>1, <1>2, <1>3, ShellEnds DEF LockOnly
<1>4. CASE proc' = [proc EXCEPT ![p].pc = "clean", ![p].fd = 0, ![p].lock = 0]
  <2>1. Moves(p, "clean", 0, 0) /\ "clean" \in Calm(p)
    BY <1>1, <1>4, CalmIs DEF Moves
  <2>2. QED
    BY <1>1, <1>2, <2>1, LockMoves DEF LockOnly
<1>5. QED
  BY <1>3, <1>4 DEF Probed

\* Taking, releasing and cleaning up the lock keep the invariant.
LEMMA LocksKeep ==
    ASSUME HostInd, NEW p \in Procs, LockStep(p)
    PROVE  HostInd'
<1> DEFINE q == proc[p]
<1>1. TypeOK /\ LockInd
  BY DEF HostInd
<1>2. pid \in Nat /\ q.fd \in Nat /\ unit \in {"absent", "active", "stopped", "halted"}
  BY <1>1 DEF TypeOK, Processes
<1>3. ~Saving(p)
  BY DEF LockStep, CleanOpen, CleanLock, CleanUnlock, CleanRemove, CheckServiceConflict, AcquireOpen, AcquireLock,
     ReleaseLock, ReleaseRemove, Singleton, ProbeOpen, ProbeLock, ProbeUnlock, At, Saving
<1> HIDE DEF q
<1>4. CASE CleanOpen(p)
  <2>1. q.pc = "clean" /\ q.cmd \in {"connect", "service"} /\ ~Transient(p)
    BY <1>4, IsClean DEF CleanOpen, At, q, Transient
  <2>2. AfterClean(p) \in Calm(p) /\ AfterClean(p) \in {"conflict", "probe"} /\ "clean_lock" \in Calm(p)
    BY <2>1, CalmIs DEF q
  <2>3. CASE pid = 0
    BY <1>3, <1>4, <2>1, <2>2, <2>3, ConnectGoes DEF CleanOpen, LockOnly, q
  <2>4. CASE pid # 0
    <3>1. Moves(p, "clean_lock", pid, 0)
      BY <1>4, <2>4 DEF CleanOpen
    <3>2. QED
      BY <1>2, <1>3, <1>4, <2>1, <2>2, <3>1, LockMoves DEF CleanOpen, LockOnly, q
  <2>5. QED
    BY <2>3, <2>4
<1>5. CASE CleanLock(p)
  <2>1. q.pc = "clean_lock" /\ q.cmd \in {"connect", "service"}
    BY <1>5, IsClean DEF CleanLock, At, q
  <2>2. AfterClean(p) \in Calm(p) /\ AfterClean(p) \in {"conflict", "probe"} /\ "clean_unlock" \in Calm(p)
    BY <2>1, CalmIs DEF q
  <2>3. CASE Locked(q.fd)
    BY <1>2, <1>3, <1>5, <2>1, <2>2, <2>3, LockMoves DEF CleanLock, LockOnly, q
  <2>4. CASE ~Locked(q.fd)
    BY <1>2, <1>3, <1>5, <2>1, <2>2, <2>4, LockMoves DEF CleanLock, LockOnly, q
  <2>5. QED
    BY <2>3, <2>4
<1>6. CASE CleanUnlock(p)
  <2>1. q.cmd \in {"connect", "service"} /\ Moves(p, "clean_remove", 0, 0)
    BY <1>6, IsClean DEF CleanUnlock, At, q
  <2>2. "clean_remove" \in Calm(p)
    BY <2>1, CalmIs DEF q
  <2>3. QED
    BY <1>2, <1>3, <1>6, <2>1, <2>2, LockMoves DEF CleanUnlock, LockOnly, q
<1>7. CASE CleanRemove(p)
  <2>1. q.pc = "clean_remove" /\ q.cmd \in {"connect", "service"}
    BY <1>7, IsClean DEF CleanRemove, At, q
  <2>2. AfterClean(p) \in Calm(p) /\ AfterClean(p) \in {"conflict", "probe"}
    BY <2>1, CalmIs DEF q
  <2>3. QED
    BY <1>7, <2>1, <2>2, RemoveKeeps DEF CleanRemove, q
<1>8. CASE CheckServiceConflict(p)
  <2>1. q.pc = "conflict" /\ q.cmd = "connect" /\ ~Transient(p)
    BY <1>8, IsConnect DEF CheckServiceConflict, At, q, Transient
  <2>2. "open" \in Calm(p)
    BY <2>1, CalmIs DEF q
  <2>3. CASE p = "shell" /\ IsRunning
    BY <1>3, <1>8, <2>1, <2>3, RefusedKeeps DEF CheckServiceConflict, q
  <2>4. CASE ~(p = "shell" /\ IsRunning)
    BY <1>3, <1>8, <2>1, <2>2, <2>4, ConnectGoes DEF CheckServiceConflict, HostFiles, q
  <2>5. QED
    BY <2>3, <2>4
<1>9. CASE AcquireOpen(p)
  <2>1. q.pc = "open" /\ q.cmd = "connect" /\ Moves(p, "lock", pid', 0)
    BY <1>9, IsConnect DEF AcquireOpen, At, q
  <2>2. "lock" \in Calm(p)
    BY <2>1, CalmIs DEF q
  <2>3. pid' \in Nat /\ pid' # 0 /\ (pid' = pid \/ pid = 0)
    BY <1>2, <1>9, FreshIs DEF AcquireOpen
  <2>4. QED
    BY <1>3, <1>9, <2>1, <2>2, <2>3, LockMoves DEF AcquireOpen, LockOnly, q
<1>10. CASE AcquireLock(p)
  <2>1. q.pc = "lock" /\ q.cmd = "connect" /\ ~Transient(p)
    BY <1>10, IsConnect DEF AcquireLock, At, q, Transient
  <2>2. "connecting" \in Calm(p)
    BY <2>1, CalmIs DEF q
  <2>3. CASE Locked(q.fd)
    BY <1>3, <1>10, <2>1, <2>3, RefusedKeeps DEF AcquireLock, q
  <2>4. CASE ~Locked(q.fd)
    <3>1. Moves(p, "connecting", 0, q.fd) /\ UNCHANGED <<upd, past>>
      BY <1>10, <2>4 DEF AcquireLock, q
    <3>2. past.unlinked \/ q.fd = pid
      BY <1>1, <2>1 DEF LockInd, At, q
    <3>3. QED
      BY <1>2, <1>3, <1>10, <2>1, <2>2, <2>4, <3>1, <3>2, LockMoves DEF AcquireLock, HostFiles, q
  <2>5. QED
    BY <2>3, <2>4
<1>11. CASE ReleaseLock(p)
  <2>1. q.pc = "release" /\ q.cmd = "connect" /\ ~Transient(p)
    BY <1>11, IsConnect DEF ReleaseLock, At, q, Transient
  <2>2. "unlink" \in Calm(p) /\ AfterRelease(p) \in Calm(p) /\ AfterRelease(p) \in {"closing", "reload"}
    BY <2>1, CalmIs DEF q
  <2>3. CASE q.lock = 0
    BY <1>3, <1>11, <2>1, <2>2, <2>3, ConnectGoes DEF ReleaseLock, LockOnly, q
  <2>4. CASE q.lock # 0
    <3>1. Moves(p, "unlink", 0, 0)
      BY <1>11, <2>4 DEF ReleaseLock, q
    <3>2. QED
      BY <1>2, <1>3, <1>11, <2>1, <2>2, <3>1, LockMoves DEF ReleaseLock, LockOnly, q
  <2>5. QED
    BY <2>3, <2>4
<1>12. CASE ReleaseRemove(p)
  <2>1. q.pc = "unlink" /\ q.cmd = "connect"
    BY <1>12, IsConnect DEF ReleaseRemove, At, q
  <2>2. AfterRelease(p) \in Calm(p) /\ AfterRelease(p) \in {"closing", "reload"}
    BY <2>1, CalmIs DEF q
  <2>3. QED
    BY <1>12, <2>1, <2>2, RemoveKeeps DEF ReleaseRemove, q
<1>13. CASE Singleton(p)
  <2>1. q.cmd = "service" /\ ~Transient(p)
    BY <1>13, IsClean DEF Singleton, At, q, Transient
  <2>2. "clean" \in Calm(p)
    BY <2>1, CalmIs DEF q
  <2>3. QED
    BY <1>3, <1>13, <2>1, <2>2, ConnectGoes DEF Singleton, HostFiles, q
<1>14. CASE ProbeOpen(p)
  <2>1. q.pc = "probe" /\ q.cmd = "service"
    BY <1>14, IsClean DEF ProbeOpen, At, q
  <2>2. "probe_lock" \in Calm(p)
    BY <2>1, CalmIs DEF q
  <2>3. CASE pid = 0
    BY <1>14, <2>1, <2>3, ProbedKeeps DEF ProbeOpen, q
  <2>4. CASE pid # 0
    <3>1. Moves(p, "probe_lock", pid, 0)
      BY <1>14, <2>4 DEF ProbeOpen
    <3>2. QED
      BY <1>2, <1>3, <1>14, <2>1, <2>2, <3>1, LockMoves DEF ProbeOpen, LockOnly, q
  <2>5. QED
    BY <2>3, <2>4
<1>15. CASE ProbeLock(p)
  <2>1. q.pc = "probe_lock" /\ q.cmd = "service"
    BY <1>15, IsClean DEF ProbeLock, At, q
  <2>2. "probe_unlock" \in Calm(p)
    BY <2>1, CalmIs DEF q
  <2>3. CASE Locked(q.fd)
    BY <1>15, <2>1, <2>3, ProbedKeeps DEF ProbeLock, q
  <2>4. CASE ~Locked(q.fd)
    BY <1>2, <1>3, <1>15, <2>1, <2>2, <2>4, LockMoves DEF ProbeLock, LockOnly, q
  <2>5. QED
    BY <2>3, <2>4
<1>16. CASE ProbeUnlock(p)
  BY <1>16, ProbedKeeps DEF ProbeUnlock, At
<1>17. QED
  BY <1>4, <1>5, <1>6, <1>7, <1>8, <1>9, <1>10, <1>11, <1>12, <1>13, <1>14, <1>15, <1>16 DEF LockStep

\* So do the version check and the tunnel.
LEMMA ConnectsKeep ==
    ASSUME HostInd, NEW p \in Procs, ConnectStep(p)
    PROVE  HostInd'
<1>1. proc[p].pc \in {"version", "connecting", "up", "closing", "reload"} /\ UNCHANGED <<HostFiles, unit, rows, spent>>
  BY DEF ConnectStep, CheckVersion, Connected, Interrupt, Disconnected, Reload, At
<1>2. proc[p].cmd = "connect" /\ ~Saving(p) /\ ~Transient(p)
  BY <1>1, IsConnect DEF Saving, Transient
<1>3. {"clean", "save", "up", "release"} \subseteq Calm(p)
  BY <1>2, CalmIs
<1>4. CASE Exit(p)
  BY <1>1, <1>4, ExitKeeps DEF HostFiles
<1>5. ASSUME NEW c \in {"clean", "save", "up", "release"}, Goto(p, c), UNCHANGED <<upd, past>>
      PROVE  HostInd'
  BY <1>1, <1>2, <1>3, <1>5, ConnectGoes DEF HostFiles
<1>6. CASE CheckVersion(p)
  BY <1>4, <1>5, <1>6 DEF CheckVersion
<1>7. CASE Connected(p)
  <2>1. CASE proc' = [proc EXCEPT ![p].pc = "up", ![p].todo = {}] /\ UNCHANGED <<upd, past>>
    <3>1. TypeOK /\ "up" \in PCs /\ {} \in SUBSET {"crt", "key", "connect"} /\ proc[p].fd \in Nat
      BY DEF HostInd, TypeOK, PCs, ConnectPCs, Processes
    <3>2. Run(p, "up", proc[p].fd, proc[p].lock, proc[p].cfg, {})
      BY <2>1, <3>1, TodoRuns
    <3>3. QED
      BY <1>1, <1>2, <1>3, <2>1, <3>1, <3>2, ConnectRuns DEF HostFiles
  <2>2. QED
    BY <1>4, <1>5, <1>7, <2>1 DEF Connected
<1>8. CASE Interrupt(p)
  BY <1>5, <1>8 DEF Interrupt
<1>9. CASE Disconnected(p)
  BY <1>4, <1>9 DEF Disconnected
<1>10. CASE Reload(p)
  <2>1. CASE Goto(p, "clean") /\ UNCHANGED <<upd, past>>
    BY <1>5, <2>1
  <2>2. CASE Refused(p)
    BY <1>1, <1>2, <2>2, RefusedKeeps
  <2>3. QED
    BY <1>10, <2>1, <2>2 DEF Reload
<1>11. QED
  BY <1>6, <1>7, <1>8, <1>9, <1>10 DEF ConnectStep

-----------------------------------------------------------------------------
(* Processes start, load and save the configuration, and log in.           *)

\* A process that starts holds nothing and runs a whole executable.
LEMMA StartKeeps ==
    ASSUME HostInd, NEW p \in Procs, NEW cmd \in Commands \cup {"connect"}, p = "svc" => cmd = "connect",
           Start(p, cmd), UNCHANGED spent \/ spent' \in [starts : Nat, commands : Nat, logins : {spent.logins}, updates : Nat, releases : Nat]
    PROVE  HostInd'
<1> DEFINE c == IF cmd = "service" THEN "service" ELSE "load"
           q == [Off EXCEPT !.cmd = cmd, !.ver = exe, !.cur = TRUE, !.pc = c]
<1> USE DEF HostInd
<1>1. /\ proc[p].pc = "off" /\ exe \in Versions /\ proc' = [proc EXCEPT ![p] = q]
      /\ UNCHANGED <<exe, files, pid, conf, certs, upd, unit, rows, past>>
  BY DEF Start, Running, HostFiles
<1>2. c \in PCs /\ c \in {"load", "service"} /\ c \in PCsOf(cmd) /\ cmd # "none"
  BY HostAssumption DEF PCs, PCsOf, ServicePCs, ConnectPCs, UpdatePCs, LoginPCs
<1>3. /\ q \in Processes /\ q.cmd = cmd /\ q.ver = exe /\ q.pc = c /\ q.fd = 0 /\ q.lock = 0 /\ q.cfg.whole
  <2>1. PICK o \in Processes : o = Off
    BY OffIsProcess
  <2>2. o.fd = 0 /\ o.lock = 0 /\ o.cfg.whole
    BY <2>1 DEF Off
  <2>3. q = [o EXCEPT !.cmd = cmd, !.ver = exe, !.cur = TRUE, !.pc = c]
    BY <2>1
  <2> HIDE DEF q, c
  <2>4. QED
    BY <1>1, <1>2, <2>2, <2>3 DEF Processes
<1> HIDE DEF c, q
<1>4. Only(p) /\ proc'[p] = q
  BY <1>1, <1>3 DEF Only, TypeOK
<1>5. spent' \in [starts : Nat, commands : Nat, logins : Nat, updates : Nat, releases : Nat] /\ spent'.logins = spent.logins
  BY DEF TypeOK
<1>6. TypeOK'
  BY <1>1, <1>4, <1>5 DEF TypeOK, Only
<1>7. proc[p].cmd = "none"
  BY <1>1, HostAssumption DEF CommandsRun, PCsOf, ServicePCs, ConnectPCs, UpdatePCs, LoginPCs, TypeOK
<1>8. CommandsRun'
  <2>1. \A o \in Procs : proc'[o].pc \in PCsOf(proc'[o].cmd)
    BY <1>2, <1>3, <1>4 DEF Only, CommandsRun
  <2>2. proc'["svc"].cmd \in {"none", "connect"}
    BY <1>3, <1>4 DEF Only, CommandsRun, Procs
  <2>3. QED
    BY <2>1, <2>2 DEF CommandsRun
<1>9. LockInd'
  <2>1. LockKept
    BY <1>1, <1>2, <1>3, <1>4 DEF LockKept, Only
  <2>2. QED
    BY <2>1, LocksKept
<1>10. LoginInd'
  <2>1. LoginKept
    BY <1>1, <1>2, <1>3, <1>4, <1>5 DEF LoginKept, LoginUnder, LoginInd, Only, Procs
  <2>2. QED
    BY <1>8, <2>1, LoginsKept
<1>11. UpdateInd'
  <2>1. exe # 0
    BY <1>1, HostAssumption DEF Versions
  <2>2. UpdateKept
    BY <1>1, <1>2, <1>3, <1>4, <1>7, <2>1, UpdatesUntouched DEF UpdateInd, Only, Running
  <2>3. QED
    BY <2>2, UpdatesKept
<1>12. QED
  BY <1>6, <1>8, <1>9, <1>10, <1>11

\* systemd and the user start processes.
LEMMA StartsKeep ==
    ASSUME HostInd, UnitStarts \/ \E cmd \in Commands : UserRuns(cmd)
    PROVE  HostInd'
<1>1. spent \in [starts : Nat, commands : Nat, logins : Nat, updates : Nat, releases : Nat]
  BY DEF HostInd, TypeOK
<1>2. CASE UnitStarts
  <2>1. spent' \in [starts : Nat, commands : Nat, logins : {spent.logins}, updates : Nat, releases : Nat]
    BY <1>1, <1>2 DEF UnitStarts
  <2>2. QED
    BY <1>2, <2>1, StartKeeps DEF UnitStarts, Procs
<1>3. CASE \E cmd \in Commands : UserRuns(cmd)
  <2>1. PICK cmd \in Commands : UserRuns(cmd)
    BY <1>3
  <2>2. spent' \in [starts : Nat, commands : Nat, logins : {spent.logins}, updates : Nat, releases : Nat]
    BY <1>1, <2>1 DEF UserRuns
  <2>3. QED
    BY <2>1, <2>2, StartKeeps DEF UserRuns, Procs
<1>4. QED
  BY <1>2, <1>3

\* The histories that a command which writes the configuration leaves alone.
QuietPast ==
    /\ past'.overlap = past.overlap /\ past'.torn = past.torn /\ past'.rolled = past.rolled
    /\ past'.overtaken = past.overtaken /\ past'.best = past.best /\ past'.unlinked = past.unlinked

\* Loading, saving and logging in only concern the invariant of the login.
LEMMA ConfigRuns ==
    ASSUME HostInd, NEW p \in Procs, NEW c \in PCsOf(proc[p].cmd), NEW g, NEW t,
           Run(p, c, proc[p].fd, proc[p].lock, g, t),
           proc[p].pc \in {"load", "save", "saving", "mixing", "fetch", "certs"},
           c \in {"version", "check", "fetch", "certs", "save", "saving", "up"},
           UNCHANGED <<exe, files, pid, upd, unit, rows>>, QuietPast
    PROVE  CommandsRun' /\ LockInd' /\ UpdateInd'
<1> USE DEF HostInd, QuietPast
<1>1. CommandsRun'
  BY DEF CommandsRun, Run, Only, Procs
<1>2. LockInd'
  <2>1. LockKept
    BY DEF LockKept, Run, Only, Transient
  <2>2. QED
    BY <2>1, LocksKept
<1>3. UpdateInd'
  <2>1. UpdateKept
    BY UpdatesUntouched DEF UpdateInd, Run, Only, Running
  <2>2. QED
    BY <2>1, UpdatesKept
<1>4. QED
  BY <1>1, <1>2, <1>3

\* Loading the configuration.
LEMMA LoadKeeps ==
    ASSUME HostInd, NEW p \in Procs, Load(p)
    PROVE  HostInd'
<1> USE DEF HostInd
<1>1. CASE Exit(p)
  BY <1>1, ExitKeeps DEF Load, HostFiles
<1>2. CASE /\ conf.whole
           /\ proc' = [proc EXCEPT ![p].pc = AfterLoad(p), ![p].cfg = conf]
           /\ UNCHANGED <<upd, past>>
  <2> DEFINE c == AfterLoad(p)
  <2>1. proc[p].pc = "load" /\ proc[p].pc \in PCsOf(proc[p].cmd)
    BY DEF Load, At, CommandsRun
  <2>2. /\ c \in PCs /\ c \in PCsOf(proc[p].cmd) /\ c \in {"version", "check", "fetch", "save"}
        /\ proc[p].cmd = "login" => c = "fetch"
    BY <2>1 DEF AfterLoad, PCs, PCsOf, ServicePCs, ConnectPCs, UpdatePCs, LoginPCs
  <2> HIDE DEF c
  <2>3. conf \in Configs
    BY DEF TypeOK
  <2>4. Run(p, c, proc[p].fd, proc[p].lock, conf, proc[p].todo)
    BY <1>2, <2>2, <2>3, LoadRuns DEF c
  <2>5. UNCHANGED <<exe, files, pid, conf, certs, unit, rows, spent>>
    BY DEF Load, HostFiles
  <2>6. TypeOK'
    BY <1>2, <2>4, <2>5 DEF TypeOK, Run, Only
  <2>7. CommandsRun' /\ LockInd' /\ UpdateInd'
    BY <1>2, <2>1, <2>2, <2>4, <2>5, ConfigRuns DEF QuietPast
  <2>8. LoginKept
    BY <1>2, <2>1, <2>2, <2>4, <2>5 DEF LoginKept, LoginUnder, LoginInd, Run, Only, Procs
  <2>9. QED
    BY <2>6, <2>7, <2>8, LoginsKept
<1>3. QED
  BY <1>1, <1>2 DEF Load

\* The configuration is truncated while the other process writes it.
LEMMA SavesMix ==
    ASSUME HostInd, NEW p \in Procs, SaveBegins(p), \E q \in Procs \ {p} : Saving(q)
    PROVE  HostInd'
<1> USE DEF HostInd
<1>1. /\ proc[p].pc = "save" /\ proc' = [q \in Procs |-> [proc[q] EXCEPT !.pc = "mixing"]]
      /\ past' = [past EXCEPT !.login = TRUE]
      /\ UNCHANGED <<exe, files, pid, certs, upd, unit, rows, spent>>
  BY DEF SaveBegins, At
<1>2. conf' \in Configs
  BY DEF SaveBegins, TypeOK, Configs
<1>3. /\ past' \in Histories /\ QuietPast /\ past'.login /\ past'.stale = past.stale
  BY <1>1 DEF TypeOK, Histories, QuietPast
<1>4. "mixing" \in PCs /\ proc \in [Procs -> Processes]
  BY DEF PCs, ConnectPCs, TypeOK
<1>5. ASSUME NEW q \in Procs
      PROVE  /\ proc'[q] \in Processes /\ proc'[q].pc = "mixing"
             /\ proc'[q].cmd = proc[q].cmd /\ proc'[q].ver = proc[q].ver /\ proc'[q].cur = proc[q].cur
             /\ proc'[q].fd = proc[q].fd /\ proc'[q].lock = proc[q].lock /\ proc'[q].cfg = proc[q].cfg
             /\ proc'[q].todo = proc[q].todo
  <2>1. PICK r : r = [proc[q] EXCEPT !.pc = "mixing"]
    OBVIOUS
  <2>2. proc'[q] = r
    BY <1>1, <2>1
  <2>3. QED
    BY <1>4, <2>1, <2>2, PcChanged
<1>6. \A q \in Procs : proc[q].pc \in {"save", "saving", "mixing"}
  BY <1>1 DEF Saving, Procs
<1>7. TypeOK'
  <2>1. proc' = [q \in Procs |-> proc'[q]]
    BY <1>1
  <2>2. proc' \in [Procs -> Processes]
    BY <1>5, <2>1
  <2>3. QED
    BY <1>1, <1>2, <1>3, <2>2 DEF TypeOK
<1>8. CommandsRun'
  <2>1. \A q \in Procs : "mixing" \in PCsOf(proc[q].cmd)
    BY <1>6 DEF CommandsRun, PCsOf, ServicePCs, ConnectPCs, UpdatePCs, LoginPCs
  <2>2. QED
    BY <1>5, <2>1 DEF CommandsRun, Procs
<1>9. LockKept
  BY <1>1, <1>3, <1>5, <1>6 DEF LockKept, Transient, QuietPast
<1>10. UpdateKept
  BY <1>1, <1>3, <1>5, <1>6, UpdatesUntouched DEF UpdateInd, Running, QuietPast
<1>11. LoginInd'
  <2>1. "shell" \in Procs
    BY DEF Procs
  <2>2. LoginUnder' => LoginUnder /\ proc["shell"].pc # "certs"
    BY <1>5, <1>6, <2>1 DEF LoginUnder
  <2>3. proc'["shell"].pc # "certs"
    BY <1>5, <2>1
  <2>4. QED
    BY <1>1, <1>3, <1>5, <2>2, <2>3 DEF LoginInd, At
<1>12. QED
  BY <1>7, <1>8, <1>9, <1>10, <1>11, LocksKept, UpdatesKept

\* The configuration is truncated.
LEMMA SaveBeginsKeeps ==
    ASSUME HostInd, NEW p \in Procs, SaveBegins(p)
    PROVE  HostInd'
<1> SUFFICES ASSUME ~ \E q \in Procs \ {p} : Saving(q) PROVE HostInd'
  BY SavesMix
<1> USE DEF HostInd
<1>1. /\ proc[p].pc = "save" /\ Goto(p, "saving") /\ proc[p].pc \in PCsOf(proc[p].cmd)
      /\ UNCHANGED <<exe, files, pid, certs, upd, unit, rows, spent, past>>
  BY DEF SaveBegins, At, CommandsRun
<1>2. /\ conf' \in Configs /\ conf'.token = conf.token
  BY DEF SaveBegins, TypeOK, Configs
<1>3. "saving" \in PCs /\ "saving" \in PCsOf(proc[p].cmd)
  BY <1>1 DEF PCs, PCsOf, ServicePCs, ConnectPCs, UpdatePCs, LoginPCs
<1>4. Run(p, "saving", proc[p].fd, proc[p].lock, proc[p].cfg, proc[p].todo)
  BY <1>1, <1>3, GotoRuns
<1>5. TypeOK'
  BY <1>1, <1>2, <1>4 DEF TypeOK, Run, Only
<1>6. CommandsRun' /\ LockInd' /\ UpdateInd'
  BY <1>1, <1>3, <1>4, ConfigRuns DEF QuietPast
<1>7. LoginInd'
  <2>1. proc'[p].pc = "saving"
    BY <1>4 DEF Run
  <2>2. \A o \in Procs : proc'[o].cfg = proc[o].cfg /\ proc'[o].cmd = proc[o].cmd /\ proc'[o].todo = proc[o].todo
    BY <1>4 DEF Run, Only
  <2>3. /\ proc'["shell"].pc = proc["shell"].pc \/ (proc["shell"].pc = "save" /\ proc'["shell"].pc = "saving")
        /\ "shell" \in Procs
    BY <1>1, <1>4 DEF Run, Only, Procs
  <2>4. LoginUnder' <=> LoginUnder
    BY <2>2, <2>3 DEF LoginUnder
  <2>5. proc'["shell"].pc = "certs" <=> proc["shell"].pc = "certs"
    BY <2>3
  <2>6. \A o \in Procs : proc'[o].pc = "mixing" => proc[o].pc = "mixing"
    BY <1>1, <1>4 DEF Run, Only
  <2>7. QED
    BY <1>1, <1>2, <2>1, <2>2, <2>3, <2>4, <2>5, <2>6 DEF LoginInd, At
<1>8. QED
  BY <1>5, <1>6, <1>7

\* What a command saves is whole, and only login changes the token.
LEMMA SavedIs ==
    ASSUME HostInd, NEW p \in Procs, NEW g \in Saved(p)
    PROVE  /\ g \in Configs /\ g.whole
           /\ g.token = IF proc[p].cmd = "login" THEN spent.logins ELSE proc[p].cfg.token
<1>1. proc[p].cfg \in Configs /\ proc[p].cfg.whole /\ spent.logins \in Nat
  BY DEF HostInd, TypeOK, Processes, LoginInd
<1>2. CASE proc[p].cmd = "login"
  BY <1>1, <1>2 DEF Saved, Configs
<1>3. CASE proc[p].cmd = "test-mode"
  BY <1>1, <1>3 DEF Saved, TestMode, Configs
<1>4. CASE proc[p].cmd = "auto-update"
  BY <1>1, <1>4 DEF Saved, AutoUpdate, Configs
<1>5. CASE proc[p].cmd \notin {"login", "test-mode", "auto-update"}
  BY <1>1, <1>5 DEF Saved
<1>6. QED
  BY <1>2, <1>3, <1>4, <1>5

\* The configuration is written; a token that is not the last one is noted.
LEMMA SaveKeeps ==
    ASSUME HostInd, NEW p \in Procs, Save(p)
    PROVE  HostInd'
<1> USE DEF HostInd
<1>1. /\ proc[p].pc \in {"saving", "mixing"} /\ proc[p].pc \in PCsOf(proc[p].cmd)
      /\ conf' \in Saved(p) \/ (proc[p].pc = "mixing" /\ \E g \in Saved(p) : conf' = [g EXCEPT !.whole = FALSE])
      /\ UNCHANGED <<exe, files, pid, certs, upd, unit, rows, spent>>
  BY DEF Save, Saving, At, CommandsRun
<1>2. /\ conf' \in Configs /\ (past.login \/ conf'.whole)
      /\ conf'.token = IF proc[p].cmd = "login" THEN spent.logins ELSE proc[p].cfg.token
  <2>1. CASE conf' \in Saved(p)
    BY <2>1, SavedIs
  <2>2. CASE proc[p].pc = "mixing" /\ \E g \in Saved(p) : conf' = [g EXCEPT !.whole = FALSE]
    <3>1. PICK g \in Saved(p) : conf' = [g EXCEPT !.whole = FALSE]
      BY <2>2
    <3>2. /\ g \in Configs
          /\ g.token = IF proc[p].cmd = "login" THEN spent.logins ELSE proc[p].cfg.token
      BY SavedIs
    <3>3. conf' \in Configs /\ conf'.token = g.token
      BY <3>1, <3>2 DEF Configs
    <3>4. past.login
      BY <2>2 DEF LoginInd, At
    <3>5. QED
      BY <3>2, <3>3, <3>4
  <2>3. QED
    BY <1>1, <2>1, <2>2
<1>3. PICK b \in BOOLEAN :
         b <=> proc[p].cmd # "login" /\ (past.stale \/ proc[p].cfg.token # conf.token)
  OBVIOUS
<1>4. past' = [past EXCEPT !.stale = b] /\ past \in Histories
  BY <1>3 DEF Save, TypeOK, Histories
<1>5. past' \in Histories /\ QuietPast /\ past'.login = past.login /\ past'.stale = b
  BY <1>4 DEF QuietPast, Histories
<1>6. proc' \in [Procs -> Processes] /\ CommandsRun' /\ LockInd' /\ UpdateInd'
      /\ (\A o \in Procs : proc'[o].cfg.whole)
      /\ (\A o \in Procs : o # p => proc'[o] = proc[o]) /\ proc'[p].pc \in {"up", "off"}
  <2>1. CASE proc[p].cmd = "connect"
    <3>1. "up" \in PCs /\ "up" \in PCsOf(proc[p].cmd)
      BY <2>1 DEF PCs, PCsOf, ServicePCs, ConnectPCs
    <3>2. Run(p, "up", proc[p].fd, proc[p].lock, proc[p].cfg, proc[p].todo)
      BY <2>1, <3>1, GotoRuns DEF Save
    <3>3. QED
      BY <1>1, <1>5, <3>1, <3>2, ConfigRuns DEF Run, Only, LoginInd
  <2>2. CASE proc[p].cmd # "connect"
    <3>1. Only(p) /\ proc'[p] = Off
      BY <2>2, OffEnds DEF Save
    <3>2. Off.cmd = "none" /\ Off.pc = "off" /\ Off.lock = 0 /\ Off.fd = 0 /\ Off.cfg.whole
      BY DEF Off
    <3>4. CommandsRun'
      BY <1>1, <1>5, <3>1, <3>2 DEF CommandsRun, Only, PCsOf, Procs, QuietPast
    <3>5. LockKept
      BY <1>1, <1>5, <3>1, <3>2 DEF LockKept, Only, QuietPast
    <3>6. UpdateKept
      BY <1>1, <1>5, <2>2, <3>1, <3>2, UpdatesUntouched DEF UpdateInd, Only, Running, QuietPast
    <3>7. QED
      BY <3>1, <3>2, <3>4, <3>5, <3>6, LocksKept, UpdatesKept DEF Only, LoginInd
  <2>3. QED
    BY <2>1, <2>2
<1>7. TypeOK'
  BY <1>1, <1>2, <1>5, <1>6 DEF TypeOK
<1>8. LoginInd'
  <2>1. CASE p = "shell"
    <3>1. ~LoginUnder' /\ proc'["shell"].pc # "certs" /\ proc["shell"].pc # "certs"
      BY <1>1, <1>6, <2>1 DEF LoginUnder
    <3>2. past'.login \/ past'.stale \/ conf'.token = certs'.key
      <4>1. CASE proc[p].cmd = "login"
        BY <1>1, <1>2, <2>1, <4>1 DEF LoginInd, LoginUnder, At
      <4>2. CASE proc[p].cmd # "login"
        BY <1>1, <1>2, <1>3, <1>5, <2>1, <4>2 DEF LoginInd, LoginUnder
      <4>3. QED
        BY <4>1, <4>2
    <3>3. past'.login \/ certs'.crt = certs'.key
      BY <1>1, <1>5, <3>1 DEF LoginInd, At
    <3>4. past'.login \/ \A o \in Procs : proc'[o].pc # "mixing"
      BY <1>5, <1>6 DEF LoginInd, At
    <3>5. QED
      BY <1>2, <1>5, <1>6, <3>1, <3>2, <3>3, <3>4 DEF LoginInd, At
  <2>2. CASE p # "shell"
    <3>1. proc'["shell"] = proc["shell"] /\ proc[p].cmd # "login"
      BY <1>6, <2>2 DEF Procs, CommandsRun
    <3>2. LoginUnder' <=> LoginUnder
      BY <3>1 DEF LoginUnder
    <3>3. past'.login \/ past'.stale \/ conf'.token = certs'.key \/ LoginUnder'
      BY <1>1, <1>2, <1>3, <1>5, <3>1, <3>2 DEF LoginInd
    <3>4. past'.login \/ \A o \in Procs : proc'[o].pc # "mixing"
      BY <1>5, <1>6 DEF LoginInd, At
    <3>5. QED
      BY <1>1, <1>2, <1>5, <1>6, <3>1, <3>2, <3>3, <3>4 DEF LoginInd, At
  <2>3. QED
    BY <2>1, <2>2
<1>9. QED
  BY <1>6, <1>7, <1>8

\* A write of connect fails, and it goes on.
LEMMA SaveFailsKeeps ==
    ASSUME HostInd, NEW p \in Procs, SaveFails(p)
    PROVE  HostInd'
<1> USE DEF HostInd
<1>1. /\ proc[p].cmd = "connect" /\ proc[p].pc \in {"save", "saving", "mixing"} /\ Goto(p, "up")
      /\ UNCHANGED <<exe, files, pid, conf, certs, upd, unit, rows, spent>>
  BY DEF SaveFails, Saving, At, HostFiles
<1>2. PICK b \in BOOLEAN : b <=> past.login \/ Saving(p)
  OBVIOUS
<1>3. past' = [past EXCEPT !.login = b] /\ past \in Histories
  BY <1>2 DEF SaveFails, TypeOK, Histories
<1>4. past' \in Histories /\ QuietPast /\ past'.login = b /\ past'.stale = past.stale
  BY <1>3 DEF QuietPast, Histories
<1>5. "up" \in PCs /\ "up" \in PCsOf(proc[p].cmd)
  BY <1>1 DEF PCs, PCsOf, ConnectPCs
<1>6. Run(p, "up", proc[p].fd, proc[p].lock, proc[p].cfg, proc[p].todo)
  BY <1>1, <1>5, GotoRuns
<1>7. TypeOK'
  BY <1>1, <1>4, <1>6 DEF TypeOK, Run, Only
<1>8. CommandsRun' /\ LockInd' /\ UpdateInd'
  BY <1>1, <1>4, <1>5, <1>6, ConfigRuns
<1>9. LoginKept
  <2>1. CASE p = "shell"
    <3>1. ~LoginUnder /\ ~LoginUnder'
      BY <1>1, <1>6, <2>1 DEF LoginUnder, Run
    <3>2. QED
      BY <1>1, <1>2, <1>4, <1>6, <2>1, <3>1 DEF LoginKept, LoginInd, Run, Only, Saving
  <2>2. CASE p # "shell"
    <3>1. proc'["shell"] = proc["shell"]
      BY <1>6, <2>2 DEF Run, Only, Procs
    <3>2. QED
      BY <1>1, <1>2, <1>4, <1>6, <2>2, <3>1 DEF LoginKept, LoginInd, LoginUnder, Run, Only, Saving
  <2>3. QED
    BY <2>1, <2>2
<1>10. QED
  BY <1>7, <1>8, <1>9, LoginsKept

\* A login gets its certificates, or fails.
LEMMA FetchKeeps ==
    ASSUME HostInd, NEW p \in Procs, Fetch(p)
    PROVE  HostInd'
<1> USE DEF HostInd
<1>1. CASE Exit(p) /\ UNCHANGED spent
  BY <1>1, ExitKeeps DEF Fetch, HostFiles
<1>2. CASE /\ proc' = [proc EXCEPT ![p].pc = "certs", ![p].todo = {"crt", "key"}]
           /\ spent' = [spent EXCEPT !.logins = @ + 1]
           /\ UNCHANGED <<upd, past>>
  <2>1. /\ proc[p].pc = "fetch" /\ proc[p].pc \in PCsOf(proc[p].cmd)
        /\ UNCHANGED <<exe, files, pid, conf, certs, unit, rows>>
    BY DEF Fetch, At, HostFiles, CommandsRun
  <2>2. "certs" \in PCs /\ "certs" \in PCsOf(proc[p].cmd) /\ proc[p].cmd = "login" /\ p = "shell"
    BY <2>1 DEF PCs, PCsOf, ServicePCs, ConnectPCs, UpdatePCs, LoginPCs, CommandsRun, Procs
  <2>3. Run(p, "certs", proc[p].fd, proc[p].lock, proc[p].cfg, {"crt", "key"})
    BY <1>2, <2>2, TodoRuns
  <2>4. spent' \in [starts : Nat, commands : Nat, logins : Nat, updates : Nat, releases : Nat]
    BY <1>2 DEF TypeOK
  <2>5. TypeOK'
    BY <1>2, <2>1, <2>3, <2>4 DEF TypeOK, Run, Only
  <2>6. CommandsRun' /\ LockInd' /\ UpdateInd'
    BY <1>2, <2>1, <2>2, <2>3, ConfigRuns DEF QuietPast
  <2>7. LoginInd'
    <3>1. /\ proc'["shell"].pc = "certs" /\ proc'["shell"].cmd = "login" /\ proc'["shell"].todo = {"crt", "key"}
          /\ proc["shell"].pc = "fetch"
      BY <2>1, <2>2, <2>3 DEF Run
    <3>2. LoginUnder' /\ ~LoginUnder
      BY <3>1 DEF LoginUnder
    <3>3. \A o \in Procs : /\ proc'[o].cfg = proc[o].cfg /\ (proc[o].pc = "saving" => proc'[o].pc = "saving")
                           /\ proc'[o].pc = "mixing" => proc[o].pc = "mixing"
      BY <2>1, <2>3 DEF Run, Only
    <3>4. QED
      BY <1>2, <2>1, <3>1, <3>2, <3>3 DEF LoginInd, At
  <2>8. QED
    BY <2>5, <2>6, <2>7
<1>3. QED
  BY <1>1, <1>2 DEF Fetch

\* A certificate or key is written.
LEMMA WriteCertKeeps ==
    ASSUME HostInd, NEW p \in Procs, WriteCert(p)
    PROVE  HostInd'
<1> USE DEF HostInd
<1>1. /\ proc[p].pc = "certs" /\ proc[p].pc \in PCsOf(proc[p].cmd)
      /\ UNCHANGED <<exe, files, pid, conf, upd, unit, rows, spent, past>>
  BY DEF WriteCert, At, CommandsRun
<1>2. proc[p].cmd = "login" /\ p = "shell" /\ {"certs", "save"} \subseteq PCs \cap PCsOf(proc[p].cmd)
  BY <1>1 DEF PCs, PCsOf, ServicePCs, ConnectPCs, UpdatePCs, LoginPCs, CommandsRun, Procs
<1>3. PICK f \in proc[p].todo :
         /\ certs' = [certs EXCEPT ![f] = spent.logins]
         /\ proc' = [proc EXCEPT ![p].todo = @ \ {f},
                                 ![p].pc = IF proc[p].todo = {f} THEN "save" ELSE "certs"]
  BY DEF WriteCert
<1>4. PICK t : t = proc[p].todo \ {f}
  OBVIOUS
<1>5. PICK c \in {"certs", "save"} : c = IF proc[p].todo = {f} THEN "save" ELSE "certs"
  OBVIOUS
<1>6. proc[p].todo \in SUBSET {"crt", "key", "connect"} /\ t \in SUBSET {"crt", "key", "connect"}
      /\ f \in {"crt", "key", "connect"} /\ proc \in [Procs -> Processes]
  BY <1>3, <1>4 DEF TypeOK, Processes
<1>7. Run(p, c, proc[p].fd, proc[p].lock, proc[p].cfg, t)
  <2>1. proc' = [proc EXCEPT ![p].todo = t, ![p].pc = c]
    BY <1>3, <1>4, <1>5, <1>6
  <2>2. QED
    BY <1>2, <1>6, <2>1, TodoRuns
<1>8. /\ certs' \in [crt : Nat, key : Nat]
      /\ \A h \in {"crt", "key"} : certs'[h] = IF h = f THEN spent.logins ELSE certs[h]
  <2>1. certs \in [crt : Nat, key : Nat] /\ spent.logins \in Nat
    BY DEF TypeOK
  <2>2. CASE f = "crt"
    BY <1>3, <2>1, <2>2
  <2>3. CASE f = "key"
    BY <1>3, <2>1, <2>3
  <2>4. CASE f = "connect"
    BY <1>3, <2>1, <2>4
  <2>5. QED
    BY <1>6, <2>2, <2>3, <2>4
<1>9. TypeOK'
  BY <1>1, <1>7, <1>8 DEF TypeOK, Run, Only
<1>10. CommandsRun' /\ LockInd' /\ UpdateInd'
  BY <1>1, <1>2, <1>5, <1>7, ConfigRuns DEF QuietPast
<1>11. LoginInd'
  <2>1. proc'["shell"].pc = c /\ proc'["shell"].cmd = "login" /\ proc'["shell"].todo = t
    BY <1>2, <1>7 DEF Run
  <2>2. LoginUnder'
    BY <1>5, <2>1 DEF LoginUnder
  <2>3. \A o \in Procs : /\ proc'[o].cfg = proc[o].cfg /\ (proc[o].pc = "saving" => proc'[o].pc = "saving")
                         /\ proc'[o].pc = "mixing" => proc[o].pc = "mixing"
    BY <1>1, <1>5, <1>7 DEF Run, Only
  <2>4. \A h \in {"crt", "key"} \ t : certs'[h] = spent.logins
    BY <1>1, <1>2, <1>4, <1>6, <1>8 DEF LoginInd, At
  <2>5. c = "save" => t = {}
    BY <1>4, <1>5
  <2>6. c = "certs" => t # {}
    BY <1>3, <1>4, <1>5
  <2>7. c = "save" => certs'.crt = spent.logins /\ certs'.key = spent.logins
    BY <2>4, <2>5
  <2>8. past'.login \/ conf'.whole \/ \E o \in Procs : At(o, "saving")'
    BY <1>1, <2>3 DEF LoginInd, At
  <2>9. QED
    BY <1>1, <1>5, <2>1, <2>2, <2>3, <2>4, <2>6, <2>7, <2>8 DEF LoginInd, At
<1>12. QED
  BY <1>9, <1>10, <1>11

\* The steps that read or write the configuration and the certificates.
LEMMA ConfigsKeep ==
    ASSUME HostInd, NEW p \in Procs, ConfigStep(p)
    PROVE  HostInd'
BY LoadKeeps, SaveBeginsKeeps, SaveKeeps, SaveFailsKeeps, FetchKeeps, WriteCertKeeps DEF ConfigStep

\* A kill or a power failure.
LEMMA CrashKeeps ==
    ASSUME HostInd, NEW p \in Procs, Crash(p)
    PROVE  HostInd'
BY ExitKeeps DEF Crash, HostFiles

-----------------------------------------------------------------------------
(* The unit: systemctl, and what update does around an installation.       *)

\* SIGTERM lets a tunnel that is up disconnect, and ends anything else.
LEMMA TerminatedIs ==
    ASSUME TypeOK, NEW t, t = Terminated("svc")
    PROVE  /\ t \in Processes
           /\ IF proc["svc"].pc = "up"
              THEN /\ t.pc = "release" /\ t.cmd = proc["svc"].cmd /\ t.ver = proc["svc"].ver /\ t.cur = proc["svc"].cur
                   /\ t.fd = proc["svc"].fd /\ t.lock = proc["svc"].lock /\ t.cfg = proc["svc"].cfg /\ t # Off
              ELSE t = Off
<1>1. proc["svc"] \in Processes
  BY DEF TypeOK, Procs
<1>2. PICK q \in Processes : q = proc["svc"]
  BY <1>1
<1>3. CASE q.pc = "up"
  <2>1. t = [q EXCEPT !.pc = "release"]
    BY <1>2, <1>3 DEF Terminated
  <2>2. "release" \in PCs
    BY DEF PCs, ConnectPCs
  <2>3. /\ t \in Processes /\ t.pc = "release" /\ t.cmd = q.cmd /\ t.ver = q.ver /\ t.cur = q.cur
        /\ t.fd = q.fd /\ t.lock = q.lock /\ t.cfg = q.cfg
    BY <2>1, <2>2 DEF Processes
  <2>4. t # Off
    <3>1. Off.pc = "off"
      BY DEF Off
    <3>2. QED
      BY <2>3, <3>1
  <2>5. QED
    BY <1>2, <1>3, <2>3, <2>4
<1>4. CASE q.pc # "up"
  BY <1>2, <1>4, OffIsProcess DEF Terminated
<1>5. QED
  BY <1>3, <1>4

\* A thread that works has a process that runs.
LEMMA NoneWork ==
    ASSUME HostInd, NEW p \in Procs, proc[p].cmd # "connect", proc[p].pc # "updating"
    PROVE  \A u \in Threads : Home[u] = p => ~Working(u) /\ ~Writes(u)
BY DEF HostInd, UpdateInd, Working, Hosted, Writes

\* systemctl stop or restart, with what the command that called it does.
LEMMA SignalKeeps ==
    ASSUME HostInd, NEW next \in [Threads -> Updaters], Signalled(next),
           \A u \in Threads : \/ next[u] = upd[u]
                              \/ /\ next[u].pc = "restart" /\ ~Writes(u)
                                 /\ proc'[Home[u]].pc \notin {"stop", "stopping"},
           proc' \in [Procs -> Processes], proc'["svc"] = Terminated("svc"),
           \/ proc'["shell"] = proc["shell"]
           \/ proc["shell"].pc = "service" /\ proc'["shell"] = Off
           \/ /\ proc["shell"].pc = "stop" /\ proc'["shell"].pc = "stopping"
              /\ proc'["shell"].cmd = proc["shell"].cmd /\ proc'["shell"].ver = proc["shell"].ver
              /\ proc'["shell"].cur = proc["shell"].cur /\ proc'["shell"].fd = proc["shell"].fd
              /\ proc'["shell"].lock = proc["shell"].lock /\ proc'["shell"].cfg = proc["shell"].cfg,
           unit' \in {"absent", "active", "stopped", "halted"},
           UNCHANGED <<exe, files, pid, conf, certs, rows, spent>>
    PROVE  HostInd'
<1> USE DEF HostInd
<1> DEFINE t == Terminated("svc")
<1>1. /\ Off.cmd = "none" /\ Off.pc = "off" /\ Off.lock = 0 /\ Off.fd = 0 /\ Off.cfg.whole
      /\ Off.cur = FALSE
  BY DEF Off
<1>2. IF proc["svc"].pc = "up"
      THEN /\ t.pc = "release" /\ t.cmd = proc["svc"].cmd /\ t.ver = proc["svc"].ver /\ t.cur = proc["svc"].cur
           /\ t.fd = proc["svc"].fd /\ t.lock = proc["svc"].lock /\ t.cfg = proc["svc"].cfg /\ t # Off
      ELSE t = Off
  BY TerminatedIs
<1> HIDE DEF t
<1>3. /\ upd' \in [Threads -> Updaters]
      /\ \A u \in Threads : upd'[u] = IF Home[u] = "svc" /\ proc["svc"].pc # "up" THEN Idle ELSE next[u]
  BY <1>2, IdleIsUpdater DEF Signalled, TypeOK, t
<1>4. "svc" \in Procs /\ "shell" \in Procs /\ \A p \in Procs : p = "svc" \/ p = "shell"
  BY DEF Procs
<1>5. past' = past \/ (past' = Ended("svc") /\ proc["svc"].pc \notin {"up", "off"})
  BY <1>2 DEF Signalled, Running, t
<1>6. /\ past' \in Histories
      /\ past.torn => past'.torn
      /\ proc["svc"].pc # "up" /\ Writing("svc") => past'.torn
      /\ past.login => past'.login
      /\ proc["svc"].pc \in {"saving", "mixing"} => past'.login
      /\ past'.overlap = past.overlap /\ past'.unlinked = past.unlinked /\ past'.stale = past.stale
      /\ past'.overtaken = past.overtaken /\ past'.best = past.best /\ past'.rolled = past.rolled
  <2>1. CASE proc["svc"].pc \in {"up", "off"}
    <3>1. past' = past
      BY <1>5, <2>1
    <3>2. proc["svc"].pc = "off" => proc["svc"].cmd # "connect"
      BY <1>4 DEF CommandsRun, PCsOf, ConnectPCs
    <3>3. proc["svc"].pc = "off" => ~Writing("svc")
      BY <1>4, <3>2, NoneWork DEF Writing
    <3>4. QED
      BY <2>1, <3>1, <3>3 DEF TypeOK
  <2>2. CASE proc["svc"].pc \notin {"up", "off"}
    <3>1. past' = Ended("svc")
      BY <1>2, <2>2 DEF Signalled, Running, t
    <3>2. QED
      BY <1>4, <3>1, EndedIs DEF Saving
  <2>3. QED
    BY <2>1, <2>2
<1>7. TypeOK'
  BY <1>3, <1>6 DEF TypeOK
<1>8. /\ proc["shell"].pc = "service" => proc["shell"].cmd = "service"
      /\ proc["shell"].pc = "stop" => proc["shell"].cmd = "update"
      /\ proc["svc"].cmd \in {"none", "connect"}
  BY <1>4 DEF CommandsRun, PCsOf, ServicePCs, ConnectPCs, UpdatePCs, LoginPCs
<1>9. CommandsRun'
  <2>1. proc'["svc"].pc \in PCsOf(proc'["svc"].cmd) /\ proc'["svc"].cmd \in {"none", "connect"}
    <3>1. CASE proc["svc"].pc = "up"
      <4>1. proc["svc"].cmd = "connect"
        BY <1>4, <3>1 DEF CommandsRun, PCsOf
      <4>2. QED
        BY <1>2, <3>1, <4>1 DEF PCsOf, ServicePCs, ConnectPCs, t
    <3>2. CASE proc["svc"].pc # "up"
      BY <1>1, <1>2, <3>2 DEF PCsOf, t
    <3>3. QED
      BY <3>1, <3>2
  <2>2. proc'["shell"].pc \in PCsOf(proc'["shell"].cmd)
    BY <1>1, <1>4, <1>8 DEF CommandsRun, PCsOf, ServicePCs, UpdatePCs
  <2>3. QED
    BY <1>4, <2>1, <2>2 DEF CommandsRun
<1>10. LockInd'
  <2>1. LockKept
    BY <1>1, <1>2, <1>4, <1>6 DEF LockKept, Transient, t
  <2>2. QED
    BY <2>1, LocksKept
<1>11. LoginInd'
  <2>1. proc["shell"].pc \in {"service", "stop"} => ~LoginUnder /\ proc["shell"].pc # "certs"
    BY DEF LoginUnder
  <2>2. proc'["shell"] = proc["shell"] => (LoginUnder' <=> LoginUnder)
    BY DEF LoginUnder
  <2>3. proc'["shell"] = Off \/ proc'["shell"].pc = "stopping" => ~LoginUnder'
    BY <1>1 DEF LoginUnder
  <2>4. \A p \in Procs : proc'[p].cfg.whole
    BY <1>1, <1>2, <1>4 DEF LoginInd, t
  <2>5. \A p \in Procs : /\ proc[p].pc = "saving" => proc'[p].pc = "saving" \/ past'.login
                         /\ proc'[p].pc = "mixing" => proc[p].pc = "mixing" \/ past'.login
    <3>1. proc'["svc"].pc # "mixing"
      BY <1>1, <1>2 DEF t
    <3>2. QED
      BY <1>1, <1>4, <1>6, <3>1
  <2>6. LoginKept
    BY <1>6, <2>1, <2>2, <2>3, <2>4, <2>5 DEF LoginKept
  <2>7. QED
    BY <1>9, <2>6, LoginsKept
<1>12. UpdateInd'
  <2>1. \A u \in Threads : upd'[u] = upd[u] \/ (upd'[u].pc \in {"idle", "restart"} /\ (Writes(u) => past'.torn))
    BY <1>3, <1>6, IdleIsUpdater DEF Writing
  <2>2. \A u \in Threads : Home[u] \in Procs
    BY HostAssumption
  <2>3. /\ proc'["svc"].pc # "off" => proc'["svc"].ver # 0
        /\ proc'["svc"].pc # "off" /\ proc'["svc"].cur => proc["svc"].pc # "off" /\ proc["svc"].cur
        /\ proc'["svc"].pc \notin {"stop", "stopping"}
    BY <1>1, <1>2, <1>4 DEF UpdateInd, Running, t
  <2>4. \/ \A u \in Threads : Home[u] = "svc" => upd'[u].pc \in {"idle", "restart"}
        \/ /\ proc["svc"].cmd = "connect" => proc'["svc"].cmd = "connect"
           /\ proc["svc"].pc = "updating" => proc'["svc"].cmd = proc["svc"].cmd /\ proc'["svc"].pc = "updating"
    BY <1>2, <1>3, IdleIsUpdater DEF t
  <2>5. /\ proc'["shell"].pc # "off" => proc'["shell"].ver # 0
        /\ proc'["shell"].pc # "off" /\ proc'["shell"].cur => proc["shell"].pc # "off" /\ proc["shell"].cur
        /\ proc'["shell"].pc \in {"stop", "stopping"} => proc["shell"].pc \in {"stop", "stopping"}
    BY <1>1, <1>4 DEF UpdateInd, Running
  <2>6. proc'["shell"].pc \in {"stop", "stopping"} => \A u \in Threads : Home[u] = "shell" => upd'[u] = upd[u]
    BY <1>3
  <2>7. /\ proc["shell"].cmd = "connect" => proc'["shell"].cmd = "connect"
        /\ proc["shell"].pc = "updating" => proc'["shell"].cmd = proc["shell"].cmd /\ proc'["shell"].pc = "updating"
    BY <1>8
  <2>8. UpdateKept
    BY <1>4, <1>6, <2>1, <2>3, <2>4, <2>5, <2>6, <2>7 DEF UpdateKept
  <2>9. QED
    BY <2>8, UpdatesKept
<1>13. QED
  BY <1>7, <1>9, <1>10, <1>11, <1>12

\* The service commands.
LEMMA ServicesKeep ==
    ASSUME HostInd, NEW p \in Procs, ServiceStep(p)
    PROVE  HostInd'
<1>1. proc[p].pc = "service" /\ UNCHANGED <<exe, files, pid, conf, certs, rows, spent>>
  BY DEF ServiceStep, Install, Uninstall, StartService, StopService, RestartService, UnitCommand, At, HostFiles
<1>2. p = "shell" /\ proc["shell"].cmd = "service"
  BY <1>1, IsClean
<1>3. TypeOK /\ upd \in [Threads -> Updaters] /\ unit \in {"absent", "active", "stopped", "halted"} /\ proc \in [Procs -> Processes]
  BY DEF HostInd, TypeOK
<1>4. Terminated("svc") \in Processes /\ Off \in Processes /\ Off.cmd = "none"
  BY <1>3, TerminatedIs, OffIsProcess DEF Off
<1>5. ASSUME NEW left \in SUBSET {"active", "stopped", "absent"}, UnitCommand(p, left)
      PROVE  HostInd'
  <2>1. unit' \in {"absent", "active", "stopped", "halted"}
    BY <1>3, <1>5 DEF UnitCommand
  <2>2. CASE unit' = "active"
    <3>1. proc' = [proc EXCEPT !["shell"] = Off] /\ UNCHANGED <<upd, past>>
      BY <1>2, <1>3, <1>5, <2>2 DEF UnitCommand, Procs
    <3>2. QED
      BY <1>1, <1>2, <2>1, <3>1, ShellEnds
  <2>3. CASE unit' # "active"
    <3>1. proc' = [proc EXCEPT ![p] = Off, !["svc"] = Terminated("svc")] /\ Signalled(upd)
      BY <1>5, <2>3 DEF UnitCommand
    <3>2. /\ proc' \in [Procs -> Processes] /\ proc'["svc"] = Terminated("svc") /\ proc'["shell"] = Off
      BY <1>2, <1>3, <1>4, <3>1 DEF Procs
    <3>3. QED
      BY <1>1, <1>2, <1>3, <2>1, <3>1, <3>2, SignalKeeps
  <2>4. QED
    BY <2>2, <2>3
<1>6. CASE RestartService(p)
  <2>1. proc' = [proc EXCEPT ![p] = Off, !["svc"] = Terminated("svc")] /\ Signalled(upd) /\ unit' = "active"
    BY <1>6 DEF RestartService
  <2>2. /\ proc' \in [Procs -> Processes] /\ proc'["svc"] = Terminated("svc") /\ proc'["shell"] = Off
    BY <1>2, <1>3, <1>4, <2>1 DEF Procs
  <2>3. QED
    BY <1>1, <1>2, <1>3, <2>1, <2>2, SignalKeeps
<1>7. QED
  BY <1>5, <1>6 DEF ServiceStep, Install, Uninstall, StartService, StopService

-----------------------------------------------------------------------------
(* giraffecloud update around an installation.                             *)

\* The thread in which update installs.
LEMMA OwnIs == Own("shell") \in Threads /\ Home[Own("shell")] = "shell"
BY HostAssumption DEF Own

\* At update's own places the process is the shell's.
LEMMA IsUpdate ==
    ASSUME HostInd, NEW p \in Procs, proc[p].pc \in {"check", "stop", "stopping", "updating"} \/ proc[p].cmd = "update"
    PROVE  p = "shell" /\ proc[p].cmd = "update"
BY DEF HostInd, CommandsRun, PCsOf, ServicePCs, ConnectPCs, UpdatePCs, LoginPCs, Procs

\* update has asked for a version and waits.
LEMMA CheckKeeps ==
    ASSUME HostInd, NEW p \in Procs, CheckForUpdates(p)
    PROVE  HostInd'
<1> USE DEF HostInd
<1>1. proc[p].pc = "check" /\ UNCHANGED <<exe, files, pid, conf, certs, unit, rows>>
  BY DEF CheckForUpdates, At, HostFiles
<1>2. CASE Exit(p) /\ UNCHANGED spent
  BY <1>1, <1>2, ExitKeeps
<1>3. CASE /\ VersionInfo(p).available /\ Goto(p, "stop") /\ UNCHANGED past
           /\ upd' = [upd EXCEPT ![Own(p)].pc = "idle", ![Own(p)].want = Wanted(p)]
           /\ spent' = [spent EXCEPT !.updates = @ + 1]
  <2>1. p = "shell" /\ proc[p].cmd = "update"
    BY <1>1, IsUpdate
  <2> DEFINE o == Own("shell")
  <2>2. o \in Threads /\ Home[o] = "shell"
    BY OwnIs
  <2>3. proc[p].ver # 0
    BY <1>1 DEF UpdateInd, Running
  <2>4. Wanted(p) = Latest /\ Latest \in Versions
    BY <1>3, <2>3, Offered DEF UpdateInd
  <2>5. Latest # 0 /\ Latest \in Nat
    BY <2>4, HostAssumption DEF Versions
  <2>6. \A u \in Threads : Home[u] = "shell" => ~Working(u) /\ ~Writes(u)
    BY <1>1, <2>1, NoneWork
  <2> HIDE DEF o
  <2>7. /\ upd' \in [Threads -> Updaters] /\ upd'[o].want = Latest /\ upd'[o].pc = "idle"
        /\ \A u \in Threads : u # o => upd'[u] = upd[u]
    <3>1. upd \in [Threads -> Updaters] /\ "idle" \in UpdaterPCs
      BY DEF TypeOK, UpdaterPCs
    <3>2. PICK r : r = [[upd[o] EXCEPT !.pc = "idle"] EXCEPT !.want = Latest]
      OBVIOUS
    <3>3. upd' = [upd EXCEPT ![o] = r]
      BY <1>3, <2>1, <2>4, <3>1, <3>2 DEF o
    <3>4. r \in Updaters /\ r.pc = "idle" /\ r.want = Latest
      BY <2>2, <2>4, <3>1, <3>2 DEF Updaters
    <3>5. QED
      BY <2>2, <3>1, <3>3, <3>4
  <2>8. "stop" \in PCs /\ "stop" \in PCsOf("update")
    BY DEF PCs, PCsOf, ServicePCs, UpdatePCs
  <2>9. Run(p, "stop", proc[p].fd, proc[p].lock, proc[p].cfg, proc[p].todo)
    BY <1>3, <2>8, GotoRuns
  <2>10. TypeOK' /\ spent'.logins = spent.logins
    BY <1>1, <1>3, <2>7, <2>9 DEF TypeOK, Run, Only
  <2>11. CommandsRun'
    BY <1>1, <1>3, <2>1, <2>8, <2>9 DEF CommandsRun, Run, Only, Procs
  <2>12. LockKept
    BY <1>1, <1>3, <2>9 DEF LockKept, Run, Only, Transient
  <2>13. LoginKept
    BY <1>1, <1>3, <2>1, <2>9, <2>10 DEF LoginKept, LoginUnder, LoginInd, Run, Only
  <2>14. UpdateInd'
    <3>1. \A u \in Threads : Working(u)' => Working(u) /\ u # o /\ upd'[u] = upd[u] /\ Home[u] # "shell"
      <4>1. ~Working(o)'
        BY <2>7 DEF Working
      <4>2. \A u \in Threads : u # o /\ Working(u)' => Working(u)
        BY <2>7 DEF Working
      <4>3. QED
        BY <2>6, <2>7, <4>1, <4>2
    <3>2. \A u \in Threads : Working(u)' => Hosted(u)'
      <4>1. \A u \in Threads : Home[u] \in Procs /\ (Home[u] # "shell" => proc'[Home[u]] = proc[Home[u]])
        BY <2>1, <2>9, HostAssumption DEF Run, Only
      <4>2. \A u \in Threads : Home[u] # "shell" /\ Hosted(u) => Hosted(u)'
        BY <4>1 DEF Hosted
      <4>3. QED
        BY <3>1, <4>2 DEF UpdateInd
    <3>3. \A u \in Threads : Asked(u)' => u = o \/ (Asked(u) /\ upd'[u] = upd[u])
      BY <3>1 DEF Asked, o
    <3>4. \A u \in Threads : Asked(u)' => upd'[u].want # 0
      BY <2>5, <2>7, <3>3 DEF UpdateInd
    <3>5. \A u \in Threads : HasBackup(u)' => HasBackup(u) /\ upd'[u] = upd[u]
      BY <2>7 DEF HasBackup
    <3>6. \A q \in Procs : Running(q)' => Running(q) /\ proc'[q].ver # 0 /\ proc'[q].cur = proc[q].cur
      BY <1>1, <2>3, <2>9 DEF Run, Only, Running, UpdateInd
    <3>7. ~past.overlap => ExeInd'
      <4> SUFFICES ASSUME ~past.overlap PROVE ExeInd'
        OBVIOUS
      <4>1. ExeInd
        BY DEF UpdateInd
      <4>2. \A u \in Threads : Working(u)' => FilesOf(u)'
        <5>1. SUFFICES ASSUME NEW u \in Threads, Working(u)' PROVE FilesOf(u)'
          OBVIOUS
        <5>2. FilesOf(u) /\ upd'[u] = upd[u]
          BY <3>1, <4>1, <5>1 DEF ExeInd
        <5>3. files' = files /\ past' = past
          BY <1>1, <1>3
        <5>4. QED
          BY <5>2, <5>3 DEF FilesOf, HasBackup
      <4>3. \A u \in Threads : Writes(u) => Writes(u)'
        BY <1>1, <2>2, <2>6, <2>7 DEF Writes
      <4>4. \A u \in Threads : upd'[u].pc \in {"restoring", "sudo"} => exe' = Part
        BY <1>1, <2>7, <4>1 DEF ExeInd
      <4>5. QED
        BY <1>1, <1>3, <3>1, <3>6, <4>1, <4>2, <4>3, <4>4 DEF ExeInd
    <3>8. ~past.overlap /\ ~past.rolled => Newest'
      <4> SUFFICES ASSUME ~past.overlap, ~past.rolled PROVE Newest'
        OBVIOUS
      <4>1. Latest' = Latest /\ past' = past
        BY <1>1, <1>3 DEF Latest
      <4>2. Newest
        BY DEF UpdateInd
      <4>3. ASSUME NEW u \in Threads, Asked(u)'
            PROVE  upd'[u].want <= Latest'
        <5>1. CASE u = o
          BY <2>5, <2>7, <4>1, <5>1
        <5>2. CASE u # o
          BY <3>3, <4>1, <4>2, <4>3, <5>2 DEF Newest
        <5>3. QED
          BY <5>1, <5>2
      <4>4. QED
        BY <4>1, <4>2, <4>3 DEF Newest
    <3>9. ~past.overlap /\ ~past.rolled /\ ~past.overtaken => Upwards'
      <4> SUFFICES ASSUME ~past.overlap, ~past.rolled, ~past.overtaken PROVE Upwards'
        OBVIOUS
      <4>1. past.best <= Latest
        BY DEF UpdateInd, Newest
      <4>2. \A u \in Threads : Asked(u)' => upd'[u].want >= past.best
        BY <1>1, <1>3, <2>7, <3>3, <4>1, HostAssumption DEF UpdateInd, Upwards, TypeOK, Histories, Versions
      <4>3. QED
        BY <1>1, <1>3, <3>5, <4>2 DEF UpdateInd, Upwards
    <3>10. RowsInd'
      BY <1>1 DEF UpdateInd, RowsInd, Latest
    <3>11. QED
      BY <1>3, <3>2, <3>4, <3>6, <3>7, <3>8, <3>9, <3>10 DEF UpdateInd
  <2>15. QED
    BY <2>10, <2>11, <2>12, <2>13, <2>14, LocksKept, LoginsKept
<1>4. QED
  BY <1>2, <1>3 DEF CheckForUpdates, Asks

\* update stops the unit, or fails to.
LEMMA StopKeeps ==
    ASSUME HostInd, NEW p \in Procs, StopUnit(p)
    PROVE  HostInd'
<1> USE DEF HostInd
<1>1. proc[p].pc = "stop" /\ UNCHANGED <<exe, files, pid, conf, certs, rows, spent>>
  BY DEF StopUnit, At, HostFiles
<1>2. p = "shell" /\ proc[p].cmd = "update"
  BY <1>1, IsUpdate
<1>3. "stopping" \in PCs /\ "stopping" \in PCsOf("update")
  BY DEF PCs, PCsOf, ServicePCs, UpdatePCs
<1>4. CASE /\ unit' = "halted" /\ Signalled(upd)
           /\ proc' = [proc EXCEPT ![p].pc = "stopping", !["svc"] = Terminated("svc")]
  <2>1. proc \in [Procs -> Processes] /\ Terminated("svc") \in Processes /\ upd \in [Threads -> Updaters]
    BY TerminatedIs DEF TypeOK
  <2>2. PICK q : q = [proc["shell"] EXCEPT !.pc = "stopping"]
    OBVIOUS
  <2>3. /\ q \in Processes /\ q.pc = "stopping"
        /\ q.cmd = proc["shell"].cmd /\ q.ver = proc["shell"].ver /\ q.cur = proc["shell"].cur
        /\ q.fd = proc["shell"].fd /\ q.lock = proc["shell"].lock /\ q.cfg = proc["shell"].cfg
    BY <1>3, <2>1, <2>2 DEF Processes, Procs
  <2>4. proc' = [proc EXCEPT !["shell"] = q, !["svc"] = Terminated("svc")]
    BY <1>2, <1>4, <2>1, <2>2 DEF Procs
  <2>5. proc' \in [Procs -> Processes] /\ proc'["svc"] = Terminated("svc") /\ proc'["shell"] = q
    BY <2>1, <2>3, <2>4 DEF Procs
  <2>6. QED
    BY <1>1, <1>2, <1>4, <2>1, <2>3, <2>5, SignalKeeps
<1>5. CASE Goto(p, "stopping") /\ UNCHANGED <<unit, upd, past>>
  <2>1. Run(p, "stopping", proc[p].fd, proc[p].lock, proc[p].cfg, proc[p].todo)
    BY <1>3, <1>5, GotoRuns
  <2>2. TypeOK'
    BY <1>1, <1>5, <2>1 DEF TypeOK, Run, Only
  <2>3. CommandsRun'
    BY <1>1, <1>2, <1>3, <1>5, <2>1 DEF CommandsRun, Run, Only, Procs
  <2>4. LockKept
    BY <1>1, <1>5, <2>1 DEF LockKept, Run, Only, Transient
  <2>5. LoginKept
    BY <1>1, <1>2, <1>5, <2>1 DEF LoginKept, LoginUnder, LoginInd, Run, Only
  <2>6. UpdateKept
    BY <1>1, <1>5, <2>1, UpdatesUntouched DEF UpdateInd, Run, Only, Running
  <2>7. QED
    BY <2>2, <2>3, <2>4, <2>5, <2>6, LocksKept, LoginsKept, UpdatesKept
<1>6. QED
  BY <1>4, <1>5 DEF StopUnit

\* One thread goes on, with the version it wants.
Goes(u, c, b) ==
    /\ upd' \in [Threads -> Updaters]
    /\ upd'[u].pc = c /\ upd'[u].want = upd[u].want /\ upd'[u].backup = b
    /\ \A w \in Threads : w # u => upd'[w] = upd[w]

\* UGoto changes where a thread is.
LEMMA UGotoGoes ==
    ASSUME TypeOK, NEW u \in Threads, NEW c \in UpdaterPCs, UGoto(u, c)
    PROVE  Goes(u, c, upd[u].backup)
<1>1. upd \in [Threads -> Updaters]
  BY DEF TypeOK
<1>2. upd' = [upd EXCEPT ![u] = [upd[u] EXCEPT !.pc = c]]
  BY <1>1 DEF UGoto
<1>3. PICK r : r = [upd[u] EXCEPT !.pc = c]
  OBVIOUS
<1>4. r \in Updaters /\ r.pc = c /\ r.want = upd[u].want /\ r.backup = upd[u].backup
  BY <1>1, <1>3 DEF Updaters
<1>5. QED
  BY <1>1, <1>2, <1>3, <1>4 DEF Goes

\* The update of `update' begins although the other process is still there.
LEMMA SpareKeeps ==
    ASSUME HostInd, NEW p \in Procs, KillOthers(p), Goto(p, "updating"), UGoto(Own(p), "download"),
           past' = [past EXCEPT !.overlap = @ \/ Working2(Own(p))]
    PROVE  HostInd'
<1> USE DEF HostInd
<1>1. proc[p].pc = "stopping" /\ UNCHANGED <<exe, files, pid, conf, certs, unit, rows, spent>>
  BY DEF KillOthers, At, HostFiles
<1>2. p = "shell" /\ proc[p].cmd = "update"
  BY <1>1, IsUpdate
<1> DEFINE o == Own("shell")
<1>3. o \in Threads /\ Home[o] = "shell"
  BY OwnIs
<1>4. \A u \in Threads : Home[u] = "shell" => ~Working(u) /\ ~Writes(u)
  BY <1>1, <1>2, NoneWork
<1>5. Asked(o) /\ upd[o].want # 0
  BY <1>1, <1>2, <1>3 DEF Asked, Waiting, UpdateInd
<1>6. "updating" \in PCs /\ "updating" \in PCsOf("update") /\ "download" \in UpdaterPCs
  BY DEF PCs, PCsOf, UpdatePCs, UpdaterPCs
<1>7. Run(p, "updating", proc[p].fd, proc[p].lock, proc[p].cfg, proc[p].todo)
  BY <1>6, GotoRuns
<1>8. Goes(o, "download", upd[o].backup)
  BY <1>2, <1>3, <1>6, UGotoGoes
<1>9. /\ past' \in Histories /\ (past'.overlap <=> past.overlap \/ Working2(o))
      /\ past'.torn = past.torn /\ past'.rolled = past.rolled
      /\ past'.unlinked = past.unlinked /\ past'.login = past.login /\ past'.stale = past.stale
      /\ past'.overtaken = past.overtaken /\ past'.best = past.best
  <2>1. past \in Histories
    BY DEF TypeOK
  <2>2. PICK b \in BOOLEAN : b <=> past.overlap \/ Working2(o)
    OBVIOUS
  <2>3. past' = [past EXCEPT !.overlap = b]
    BY <1>2, <2>1, <2>2 DEF Histories
  <2>4. QED
    BY <2>1, <2>2, <2>3 DEF Histories
<1> HIDE DEF o
<1>10. TypeOK'
  BY <1>1, <1>7, <1>8, <1>9 DEF TypeOK, Run, Only, Goes
<1>11. CommandsRun'
  BY <1>1, <1>2, <1>6, <1>7 DEF CommandsRun, Run, Only, Procs
<1>12. LockKept
  BY <1>1, <1>7, <1>9 DEF LockKept, Run, Only, Transient
<1>13. LoginKept
  BY <1>1, <1>2, <1>7, <1>9 DEF LoginKept, LoginUnder, LoginInd, Run, Only
<1>14. UpdateInd'
  <2>1. \A u \in Threads : Home[u] \in Procs
    BY HostAssumption
  <2>2. \A u \in Threads : u # o => upd'[u] = upd[u] /\ (Working(u)' <=> Working(u)) /\ (HasBackup(u)' <=> HasBackup(u))
    BY <1>8 DEF Goes, Working, HasBackup
  <2>3. Hosted(o)'
    BY <1>2, <1>3, <1>7 DEF Hosted, Run, o
  <2>4. \A u \in Threads : Working(u)' => Hosted(u)'
    <3>1. \A u \in Threads : Home[u] # "shell" => proc'[Home[u]] = proc[Home[u]]
      BY <1>2, <1>7, <2>1 DEF Run, Only
    <3>2. \A u \in Threads : u # o /\ Working(u)' => Hosted(u) /\ Home[u] # "shell"
      BY <1>4, <2>2 DEF UpdateInd
    <3>3. QED
      BY <2>3, <3>1, <3>2 DEF Hosted
  <2>5. \A u \in Threads : Asked(u)' => u = o \/ (Asked(u) /\ upd'[u] = upd[u])
    BY <2>2 DEF Asked, o
  <2>6. upd'[o].want = upd[o].want /\ upd'[o].pc = "download"
    BY <1>8 DEF Goes
  <2>7. \A u \in Threads : Asked(u)' => upd'[u].want # 0
    BY <1>5, <2>5, <2>6 DEF UpdateInd
  <2>8. \A q \in Procs : /\ Running(q)' => Running(q) /\ proc'[q].ver # 0
                         /\ proc'[q].cur = proc[q].cur
    BY <1>1, <1>7 DEF Run, Only, Running, UpdateInd
  <2>9. RowsInd' /\ Latest' = Latest
    BY <1>1 DEF UpdateInd, RowsInd, Latest
  <2>10. ASSUME ~past'.overlap
         PROVE  ExeInd'
    <3>1. ExeInd
      BY <1>9, <2>10 DEF UpdateInd
    <3>2. \A u \in Threads : ~Working(u)
      BY <1>3, <1>4, <1>9, <2>10 DEF Working2
    <3>3. \A u \in Threads : Working(u)' => u = o
      BY <2>2, <3>2
    <3>4. \A u \in Threads : ~Writes(u)
      BY <3>2 DEF Working, Writes
    <3>5. FilesOf(o)'
      BY <2>6 DEF FilesOf, HasBackup
    <3>6. \A u \in Threads : upd'[u].pc \notin {"restoring", "sudo"}
      BY <2>2, <2>6, <3>2 DEF Working
    <3>7. exe' \in Versions \/ (exe' = Part /\ past'.torn)
      BY <1>1, <1>9, <3>1, <3>4 DEF ExeInd
    <3>8. \A q \in Procs : Running(q)' /\ proc'[q].cur => exe' \in Versions
      BY <1>1, <2>8, <3>1 DEF ExeInd
    <3>9. QED
      BY <3>3, <3>5, <3>6, <3>7, <3>8 DEF ExeInd
  <2>11. ~past'.overlap /\ ~past'.rolled => Newest'
    BY <1>3, <1>5, <1>9, <2>5, <2>6, <2>9 DEF UpdateInd, Newest
  <2>12. ~past'.overlap /\ ~past'.rolled /\ ~past'.overtaken => Upwards'
    <3>1. \A u \in Threads : HasBackup(u)' => HasBackup(u) /\ upd'[u] = upd[u]
      BY <2>2, <2>6 DEF HasBackup
    <3>2. QED
      BY <1>1, <1>3, <1>5, <1>9, <2>5, <2>6, <3>1 DEF UpdateInd, Upwards
  <2>13. QED
    BY <2>4, <2>7, <2>8, <2>9, <2>10, <2>11, <2>12 DEF UpdateInd
<1>15. QED
  BY <1>10, <1>11, <1>12, <1>13, <1>14, LocksKept, LoginsKept

\* update kills the other processes and begins to install.
LEMMA KillKeeps ==
    ASSUME HostInd, NEW p \in Procs, KillOthers(p)
    PROVE  HostInd'
<1> SUFFICES ASSUME
           /\ proc' = [proc EXCEPT ![p].pc = "updating", !["svc"] = Off]
           /\ upd' = [u \in Threads |-> CASE u = Own(p) -> [upd[u] EXCEPT !.pc = "download"]
                                          [] Home[u] = "svc" -> Idle
                                          [] OTHER -> upd[u]]
           /\ past' = IF Running("svc") THEN Ended("svc") ELSE past
             PROVE  HostInd'
  BY SpareKeeps DEF KillOthers
<1> USE DEF HostInd
<1>1. /\ proc[p].pc = "stopping" /\ UNCHANGED <<exe, files, pid, conf, certs, unit, rows, spent>>
      /\ proc' = [proc EXCEPT ![p].pc = "updating", !["svc"] = Off]
      /\ past' = IF Running("svc") THEN Ended("svc") ELSE past
  BY DEF KillOthers, At, HostFiles
<1>2. p = "shell" /\ proc[p].cmd = "update"
  BY <1>1, IsUpdate
<1> DEFINE o == Own("shell")
<1>3. o \in Threads /\ Home[o] = "shell"
  BY OwnIs
<1>4. "svc" \in Procs /\ "shell" \in Procs /\ \A q \in Procs : q = "svc" \/ q = "shell"
  BY DEF Procs
<1>5. Off.cmd = "none" /\ Off.pc = "off" /\ Off.lock = 0 /\ Off.fd = 0 /\ Off.cfg.whole
  BY DEF Off
<1>6. /\ proc' \in [Procs -> Processes] /\ proc'["svc"] = Off /\ proc'["shell"].pc = "updating"
      /\ proc'["shell"].cmd = "update" /\ proc'["shell"].ver = proc["shell"].ver
      /\ proc'["shell"].cur = proc["shell"].cur /\ proc'["shell"].fd = proc["shell"].fd
      /\ proc'["shell"].lock = proc["shell"].lock /\ proc'["shell"].cfg = proc["shell"].cfg
  <2>1. proc \in [Procs -> Processes] /\ "updating" \in PCs
    BY DEF TypeOK, PCs, UpdatePCs
  <2>2. PICK q : q = [proc["shell"] EXCEPT !.pc = "updating"]
    OBVIOUS
  <2>3. /\ q \in Processes /\ q.pc = "updating"
        /\ q.cmd = proc["shell"].cmd /\ q.ver = proc["shell"].ver /\ q.cur = proc["shell"].cur
        /\ q.fd = proc["shell"].fd /\ q.lock = proc["shell"].lock /\ q.cfg = proc["shell"].cfg
    BY <1>4, <2>1, <2>2 DEF Processes
  <2>4. proc' = [proc EXCEPT !["shell"] = q, !["svc"] = Off]
    BY <1>1, <1>2, <1>4, <2>1, <2>2
  <2>5. QED
    BY <1>2, <1>4, <2>1, <2>3, <2>4, OffIsProcess
<1> HIDE DEF o
<1>7. /\ upd' \in [Threads -> Updaters]
      /\ upd'[o].pc = "download" /\ upd'[o].want = upd[o].want
      /\ \A u \in Threads : u # o => upd'[u] = IF Home[u] = "svc" THEN Idle ELSE upd[u]
  <2>1. upd' = [u \in Threads |-> CASE u = o -> [upd[u] EXCEPT !.pc = "download"]
                                    [] Home[u] = "svc" -> Idle
                                    [] OTHER -> upd[u]]
    BY <1>2 DEF o
  <2>2. upd[o] \in Updaters /\ upd \in [Threads -> Updaters]
    BY <1>3 DEF TypeOK
  <2>3. PICK w : w = [upd[o] EXCEPT !.pc = "download"]
    OBVIOUS
  <2>4. w \in Updaters /\ w.pc = "download" /\ w.want = upd[o].want
    BY <2>2, <2>3 DEF Updaters, UpdaterPCs
  <2>5. \A u \in Threads : upd'[u] = IF u = o THEN w ELSE IF Home[u] = "svc" THEN Idle ELSE upd[u]
    <3>1. upd'[o] = w
      BY <1>3, <2>1, <2>3
    <3>2. ASSUME NEW u \in Threads, u # o
          PROVE  upd'[u] = IF Home[u] = "svc" THEN Idle ELSE upd[u]
      BY <2>1, <3>2
    <3>3. QED
      BY <3>1, <3>2
  <2>6. upd' = [u \in Threads |-> upd'[u]]
    BY <2>1
  <2>7. \A u \in Threads : upd'[u] \in Updaters
    BY <2>2, <2>4, <2>5, IdleIsUpdater
  <2>8. QED
    BY <1>3, <2>4, <2>5, <2>6, <2>7
<1>8. \A u \in Threads : Home[u] = "shell" => ~Working(u) /\ ~Writes(u)
  BY <1>1, <1>2, NoneWork
<1>9. /\ past' \in Histories
      /\ past.torn => past'.torn
      /\ Writing("svc") => past'.torn
      /\ past.login => past'.login
      /\ proc["svc"].pc \in {"saving", "mixing"} => past'.login
      /\ past'.overlap = past.overlap /\ past'.unlinked = past.unlinked /\ past'.stale = past.stale
      /\ past'.overtaken = past.overtaken /\ past'.best = past.best /\ past'.rolled = past.rolled
  <2>1. CASE proc["svc"].pc = "off"
    <3>1. past' = past
      BY <1>1, <2>1 DEF Running
    <3>2. proc["svc"].cmd # "connect"
      BY <1>4, <2>1 DEF CommandsRun, PCsOf, ConnectPCs
    <3>3. ~Writing("svc")
      BY <1>4, <2>1, <3>2, NoneWork DEF Writing
    <3>4. QED
      BY <2>1, <3>1, <3>3 DEF TypeOK
  <2>2. CASE proc["svc"].pc # "off"
    <3>1. past' = Ended("svc")
      BY <1>1, <2>2 DEF Running
    <3>2. QED
      BY <1>4, <3>1, EndedIs DEF Saving
  <2>3. QED
    BY <2>1, <2>2
<1>10. TypeOK'
  BY <1>1, <1>6, <1>7, <1>9 DEF TypeOK
<1>11. CommandsRun'
  BY <1>1, <1>4, <1>5, <1>6 DEF CommandsRun, PCsOf, ServicePCs, UpdatePCs
<1>12. LockKept
  BY <1>1, <1>2, <1>4, <1>5, <1>6, <1>9 DEF LockKept, Transient
<1>13. LoginKept
  BY <1>1, <1>2, <1>4, <1>5, <1>6, <1>9 DEF LoginKept, LoginUnder, LoginInd
<1>14. UpdateInd'
  <2>1. \A u \in Threads : Home[u] \in Procs
    BY HostAssumption
  <2>2. \A u \in Threads : u # o => upd'[u].pc \in {"idle", "restart"}
    BY <1>4, <1>7, <1>8, <2>1, IdleIsUpdater DEF Working
  <2>3. \A u \in Threads : Working(u)' => u = o
    BY <2>2 DEF Working
  <2>4. Hosted(o)'
    BY <1>3, <1>6 DEF Hosted, o
  <2>5. Asked(o) /\ upd[o].want # 0
    BY <1>1, <1>2, <1>3 DEF Asked, Waiting, o, UpdateInd
  <2>6. \A u \in Threads : Asked(u)' => u = o
    BY <2>3 DEF Asked, o
  <2>7. \A q \in Procs : Running(q)' => q = "shell"
    BY <1>4, <1>5, <1>6 DEF Running
  <2>8. proc["shell"].ver # 0 /\ Running("shell")
    BY <1>1, <1>2, <1>4 DEF UpdateInd, Running
  <2>9. \A u \in Threads : ~HasBackup(u)'
    BY <1>7, <2>2 DEF HasBackup
  <2>10. ~past.overlap => ExeInd'
    <3> SUFFICES ASSUME ~past.overlap PROVE ExeInd'
      OBVIOUS
    <3>1. ExeInd
      BY DEF UpdateInd
    <3>2. FilesOf(o)'
      BY <1>7 DEF FilesOf, HasBackup
    <3>3. \A u \in Threads : Writes(u) => past'.torn
      BY <1>4, <1>8, <1>9, <2>1 DEF Writes, Writing
    <3>4. \A u \in Threads : upd'[u].pc \notin {"restoring", "sudo"}
      BY <1>7, <2>2
    <3>5. exe' \in Versions \/ (exe' = Part /\ past'.torn)
      BY <1>1, <1>9, <3>1, <3>3 DEF ExeInd
    <3>6. \A q \in Procs : Running(q)' /\ proc'[q].cur => exe' \in Versions
      BY <1>1, <1>4, <1>6, <2>7, <2>8, <3>1 DEF ExeInd
    <3>7. QED
      BY <2>3, <3>2, <3>4, <3>5, <3>6 DEF ExeInd
  <2>11. ~past.overlap /\ ~past.rolled => Newest'
    BY <1>1, <1>3, <1>7, <1>9, <2>5, <2>6 DEF UpdateInd, Newest, Latest
  <2>12. ~past.overlap /\ ~past.rolled /\ ~past.overtaken => Upwards'
    BY <1>1, <1>3, <1>7, <1>9, <2>5, <2>6, <2>9 DEF UpdateInd, Upwards
  <2>13. RowsInd'
    BY <1>1 DEF UpdateInd, RowsInd, Latest
  <2>14. \A u \in Threads : Asked(u)' => upd'[u].want # 0
    BY <1>7, <2>5, <2>6
  <2>15. \A q \in Procs : Running(q)' => proc'[q].ver # 0
    BY <1>6, <2>7, <2>8
  <2>16. QED
    BY <1>9, <2>3, <2>4, <2>10, <2>11, <2>12, <2>13, <2>14, <2>15 DEF UpdateInd
<1>15. QED
  BY <1>10, <1>11, <1>12, <1>13, <1>14, LocksKept, LoginsKept

\* The steps of update before it installs.
LEMMA UpdatesKeep ==
    ASSUME HostInd, NEW p \in Procs, UpdateStep(p)
    PROVE  HostInd'
BY CheckKeeps, StopKeeps, KillKeeps DEF UpdateStep

\* update is over, and has started the unit or not.
LEMMA StartUnitKeeps ==
    ASSUME HostInd, NEW u \in Threads, StartUnit(u)
    PROVE  HostInd'
<1> USE DEF HostInd
<1> DEFINE p == Home[u]
<1>1. /\ upd[u].pc = "installed" /\ proc[p].cmd = "update"
      /\ upd' = [upd EXCEPT ![u] = Idle] /\ proc' = [proc EXCEPT ![p] = Off]
      /\ UNCHANGED <<exe, files, pid, conf, certs, rows, spent, past>>
      /\ unit' = "active" \/ unit' = unit
  BY DEF StartUnit, UAt, HostFiles
<1>2. p = "shell"
  BY <1>1, IsUpdate, HostAssumption
<1>3. /\ proc["shell"].cmd = "update" /\ proc["shell"].pc = "updating" /\ u = Own("shell")
  <2>1. Working(u)
    BY <1>1 DEF Working
  <2>2. QED
    BY <1>1, <1>2, <2>1 DEF UpdateInd, Hosted
<1> HIDE DEF p
<1>4. "shell" \in Procs
  BY DEF Procs
<1>5. Only("shell") /\ proc'["shell"] = Off
  BY <1>1, <1>2, <1>4, OffEnds
<1>6. /\ Off.cmd = "none" /\ Off.pc = "off" /\ Off.lock = 0 /\ Off.fd = 0 /\ Off.cfg.whole
  BY DEF Off
<1>7. upd' \in [Threads -> Updaters] /\ upd'[u] = Idle /\ \A w \in Threads : w # u => upd'[w] = upd[w]
  BY <1>1, IdleIsUpdater DEF TypeOK
<1>8. past' = past
  BY <1>1
<1>9. TypeOK'
  BY <1>1, <1>5, <1>7, <1>8 DEF TypeOK, Only
<1>10. CommandsRun'
  BY <1>1, <1>3, <1>5, <1>6, <1>8 DEF CommandsRun, Only, PCsOf, Procs
<1>11. LockKept
  BY <1>1, <1>5, <1>6, <1>8 DEF LockKept, Only
<1>12. LoginKept
  BY <1>1, <1>3, <1>5, <1>6, <1>8 DEF LoginKept, LoginUnder, LoginInd, Only
<1>13. UpdateKept
  <2>1. \A w \in Threads : Home[w] = "shell" /\ w # u => upd[w].pc \in {"idle", "restart"}
    BY <1>3 DEF UpdateInd, Working, Hosted
  <2>2. ~Writes(u)
    BY <1>1 DEF Writes
  <2>3. \A w \in Threads : Home[w] = "shell" => upd'[w].pc \in {"idle", "restart"}
    BY <1>7, <2>1, IdleIsUpdater
  <2>4. \A q \in Procs : q # "shell" => \A w \in Threads : Home[w] = q => upd'[w] = upd[w]
    BY <1>2, <1>7 DEF p
  <2>5. QED
    BY <1>1, <1>5, <1>6, <1>7, <1>8, <2>2, <2>3, <2>4, IdleIsUpdater DEF UpdateKept, Only, UpdateInd, Running
<1>14. QED
  BY <1>9, <1>10, <1>11, <1>12, <1>13, LocksKept, LoginsKept, UpdatesKept

-----------------------------------------------------------------------------
(* An updater thread.                                                      *)

\* Processes are where they were; some may run from a file that is gone.
SameProcs ==
    /\ proc' \in [Procs -> Processes]
    /\ \A p \in Procs :
          /\ proc'[p].cmd = proc[p].cmd /\ proc'[p].pc = proc[p].pc /\ proc'[p].ver = proc[p].ver
          /\ proc'[p].fd = proc[p].fd /\ proc'[p].lock = proc[p].lock /\ proc'[p].cfg = proc[p].cfg
          /\ proc'[p].todo = proc[p].todo /\ (proc'[p].cur => proc[p].cur)

\* Nothing is torn; a version that is reached was wanted, and `update', if it
\* waits, is overtaken.
PastReaches(u) ==
    /\ past' \in Histories
    /\ past'.overlap = past.overlap /\ past'.torn = past.torn /\ past'.rolled = past.rolled
    /\ past'.unlinked = past.unlinked /\ past'.login = past.login /\ past'.stale = past.stale
    /\ past.overtaken => past'.overtaken
    /\ \/ past'.best = past.best \/ past.overlap
       \/ past'.best = upd[u].want /\ (past'.overtaken \/ \A p \in Procs : ~Waiting(p))

\* A thread that works has its place in a process, which does not wait.
LEMMA WorkerIs ==
    ASSUME HostInd, NEW u \in Threads, Working(u)
    PROVE  /\ Home[u] \in Procs /\ Hosted(u) /\ upd[u].want # 0 /\ upd[u].want \in Versions
           /\ proc[Home[u]].pc \notin {"stop", "stopping", "certs", "off"}
           /\ proc[Home[u]].cmd = "update" => proc[Home[u]].pc = "updating" /\ Home[u] = "shell"
           /\ proc[Home[u]].cmd # "update" => proc[Home[u]].cmd = "connect"
<1>1. Home[u] \in Procs
  BY HostAssumption
<1>2. Hosted(u)
  BY DEF HostInd, UpdateInd
<1>3. Asked(u)
  BY DEF Asked
<1>4. upd[u].want # 0
  BY <1>3 DEF HostInd, UpdateInd
<1>5. upd[u].want \in Versions
  BY <1>4 DEF HostInd, TypeOK, Updaters
<1>6. proc[Home[u]].cmd = "update" => Home[u] = "shell"
  BY <1>1, IsUpdate
<1>7. proc[Home[u]].cmd = "connect" => proc[Home[u]].pc \in ConnectPCs
  BY <1>1 DEF HostInd, CommandsRun, PCsOf
<1>8. QED
  BY <1>1, <1>2, <1>4, <1>5, <1>6, <1>7 DEF Hosted, ConnectPCs

\* While no installations overlap, a thread that works is the only one.
LEMMA OnlyWorker ==
    ASSUME HostInd, ~past.overlap, NEW u \in Threads, Working(u)
    PROVE  /\ \A w \in Threads : w # u => ~Working(w) /\ ~Writes(w) /\ ~HasBackup(w)
           /\ FilesOf(u)
           /\ ~past.rolled => upd[u].want <= Latest
           /\ ~past.rolled /\ ~past.overtaken => upd[u].want >= past.best
<1>1. ExeInd /\ (~past.rolled => Newest) /\ (~past.rolled /\ ~past.overtaken => Upwards)
  BY DEF HostInd, UpdateInd
<1>2. \A w \in Threads : w # u => ~Working(w)
  BY <1>1 DEF ExeInd
<1>3. \A w \in Threads : w # u => ~Writes(w) /\ ~HasBackup(w)
  BY <1>2 DEF Writes, HasBackup, Working
<1>4. Asked(u)
  BY DEF Asked
<1>5. QED
  BY <1>1, <1>2, <1>3, <1>4 DEF ExeInd, Newest, Upwards

\* A step of a thread keeps the invariant when, as long as it is the only one
\* that works, what it leaves in the files is what the next steps expect.
LEMMA ThreadGoes ==
    ASSUME HostInd, NEW u \in Threads, Working(u), NEW c \in UpdaterPCs \ {"idle", "restart"}, NEW b \in Contents,
           Goes(u, c, b), SameProcs, PastReaches(u),
           exe' \in Contents, files' \in [dl : Contents, ext : Contents, new : Contents],
           UNCHANGED <<pid, unit, conf, certs, rows, spent>>,
           ~past.overlap =>
              /\ FilesOf(u)'
              /\ c \in {"restoring", "sudo"} => exe' = Part
              /\ exe' \in Versions \/ (exe' = Part /\ (past.torn \/ Writes(u)'))
              /\ \A p \in Procs : Running(p) /\ proc'[p].cur => exe' \in Versions,
           ~past.overlap /\ ~past.rolled /\ ~past'.overtaken =>
              /\ exe' \in Versions => exe' >= past'.best
              /\ HasBackup(u)' /\ b \in Versions => b >= past'.best
    PROVE  HostInd'
<1> USE DEF HostInd, SameProcs, PastReaches
<1>1. Home[u] \in Procs /\ Hosted(u) /\ upd[u].want # 0 /\ upd[u].want \in Versions
  BY WorkerIs
<1>2. \A p \in Procs : (Running(p)' <=> Running(p)) /\ (Waiting(p)' <=> Waiting(p))
  BY DEF Running, Waiting
<1>3. TypeOK'
  BY DEF TypeOK, Goes
<1>4. CommandsRun'
  BY DEF CommandsRun, Procs
<1>5. LockKept
  BY DEF LockKept
<1>6. LoginKept
  BY DEF LoginKept, LoginUnder, LoginInd, Procs
<1>7. UpdateInd'
  <2>1. RowsInd' /\ Latest' = Latest
    BY DEF UpdateInd, RowsInd, Latest
  <2>2. \A w \in Threads : Working(w)' => Working(w)
    BY DEF Goes, Working
  <2>3. \A w \in Threads : Home[w] \in Procs /\ (Hosted(w) => Hosted(w)')
    BY HostAssumption DEF Hosted
  <2>4. \A w \in Threads : Working(w)' => Hosted(w)'
    BY <2>2, <2>3 DEF UpdateInd
  <2>5. \A w \in Threads : Asked(w)' => Asked(w) /\ upd'[w].want = upd[w].want
    BY <1>2, <2>2, <2>3 DEF Asked, Goes
  <2>6. \A w \in Threads : Asked(w)' => upd'[w].want # 0
    BY <2>5 DEF UpdateInd
  <2>7. \A p \in Procs : Running(p)' => proc'[p].ver # 0
    BY <1>2 DEF UpdateInd
  <2>8. ASSUME ~past.overlap
        PROVE  ExeInd' /\ (~past.rolled => Newest')
    <3>1. ExeInd /\ (~past.rolled => Newest)
      BY <2>8 DEF UpdateInd
    <3>2. /\ \A w \in Threads : w # u => ~Working(w) /\ ~Writes(w) /\ ~HasBackup(w)
          /\ ~past.rolled => upd[u].want <= Latest
      BY <2>8, OnlyWorker
    <3>3. \A w \in Threads : Working(w)' => w = u
      BY <2>2, <3>2
    <3>4. \A w \in Threads : upd'[w].pc \in {"restoring", "sudo"} => Working(w)'
      BY DEF Working
    <3>5. \A w \in Threads : upd'[w].pc \in {"restoring", "sudo"} => exe' = Part
      BY <2>8, <3>3, <3>4 DEF Goes
    <3>6. \A p \in Procs : Running(p)' /\ proc'[p].cur => exe' \in Versions
      BY <1>2, <2>8
    <3>7. ExeInd'
      BY <2>8, <3>3, <3>5, <3>6 DEF ExeInd
    <3>8. ~past.rolled => past'.best <= Latest
      BY <2>8, <3>1, <3>2 DEF Newest
    <3>9. ~past.rolled => Newest'
      BY <2>1, <2>5, <3>1, <3>8 DEF Newest
    <3>10. QED
      BY <3>7, <3>9
  <2>9. ASSUME ~past.overlap, ~past.rolled, ~past'.overtaken
        PROVE  Upwards'
    <3>1. Upwards /\ ~past.overtaken
      BY <2>9 DEF UpdateInd
    <3>2. /\ \A w \in Threads : w # u => ~Working(w) /\ ~Writes(w) /\ ~HasBackup(w)
          /\ upd[u].want >= past.best
      BY <2>9, <3>1, OnlyWorker
    <3>3. \A w \in Threads : HasBackup(w)' => w = u
      BY <3>2 DEF HasBackup, Goes
    <3>4. upd[u].want >= past'.best
      BY <1>1, <2>9, <3>2, HostAssumption DEF Versions
    <3>5. ASSUME NEW w \in Threads, Asked(w)'
          PROVE  upd'[w].want >= past'.best
      <4>1. CASE w = u
        BY <3>4, <4>1 DEF Goes
      <4>2. CASE w # u
        <5>1. Waiting(Home[w])
          BY <1>2, <2>2, <2>3, <3>2, <3>5, <4>2 DEF Asked, Working
        <5>2. past'.best = past.best
          BY <2>3, <2>9, <5>1
        <5>3. QED
          BY <2>5, <3>1, <3>5, <5>2 DEF Upwards
      <4>3. QED
        BY <4>1, <4>2
    <3>6. \A w \in Threads : HasBackup(w)' /\ upd'[w].backup \in Versions => upd'[w].backup >= past'.best
      BY <2>9, <3>3 DEF Goes
    <3>7. QED
      BY <2>9, <3>5, <3>6 DEF Upwards
  <2>10. QED
    BY <2>1, <2>4, <2>6, <2>7, <2>8, <2>9 DEF UpdateInd
<1>8. QED
  BY <1>3, <1>4, <1>5, <1>6, <1>7, LocksKept, LoginsKept

\* A step that leaves the executable alone.
LEMMA ThreadMoves ==
    ASSUME HostInd, NEW u \in Threads, Working(u), NEW c \in UpdaterPCs \ {"idle", "restart", "sudo", "restoring"}, UGoto(u, c),
           upd[u].pc \in {"restoring", "sudo", "restore"} => c = "restore",
           HasBackup(u)' => HasBackup(u),
           files' \in [dl : Contents, ext : Contents, new : Contents],
           UNCHANGED <<exe, proc, pid, unit, conf, certs, rows, spent, past>>,
           ~past.overlap =>
              /\ c \in {"checksum", "backup", "extract", "extracting"} => files'.dl \in {upd[u].want, Bad}
              /\ c = "verify" => files'.ext \in {upd[u].want, Bad}
              /\ c \in {"stage", "staging", "rename", "sudo_begin"} => files'.ext = upd[u].want
              /\ c = "rename" => files'.new = upd[u].want
    PROVE  HostInd'
<1> USE DEF HostInd
<1> DEFINE b == upd[u].backup
<1>1. Goes(u, c, b)
  BY UGotoGoes
<1>2. b \in Contents /\ SameProcs /\ PastReaches(u) /\ exe' \in Contents
  BY DEF TypeOK, Updaters, SameProcs, PastReaches
<1>3. ASSUME ~past.overlap
      PROVE  /\ FilesOf(u)'
             /\ exe' \in Versions \/ (exe' = Part /\ (past.torn \/ Writes(u)'))
             /\ \A p \in Procs : Running(p) /\ proc'[p].cur => exe' \in Versions
  <2>1. ExeInd
    BY <1>3 DEF UpdateInd
  <2>2. FilesOf(u) /\ \A w \in Threads : w # u => ~Writes(w)
    BY <1>3, OnlyWorker
  <2>3. FilesOf(u)'
    BY <1>1, <1>3, <2>2 DEF FilesOf, Goes
  <2>4. exe = Part /\ Writes(u) => Writes(u)'
    BY <1>1 DEF Writes, Goes
  <2>5. QED
    BY <2>1, <2>2, <2>3, <2>4 DEF ExeInd
<1>4. ASSUME ~past.overlap, ~past.rolled, ~past'.overtaken
      PROVE  /\ exe' \in Versions => exe' >= past'.best
             /\ HasBackup(u)' /\ b \in Versions => b >= past'.best
  BY <1>4 DEF UpdateInd, Upwards
<1>5. QED
  <2> HIDE DEF b
  <2>1. QED
    BY <1>1, <1>2, <1>3, <1>4, ThreadGoes

-----------------------------------------------------------------------------
(* The end of a thread.                                                    *)

\* An update is over: `update' exits, connect goes on.  No other thread that
\* works is touched.
LEMMA EndsKeep ==
    ASSUME HostInd, NEW u \in Threads, Working(u), NEW t \in BOOLEAN, Ends(u, t), FailOnly
    PROVE  /\ proc' \in [Procs -> Processes]
           /\ \A p \in Procs : proc'[p] = proc[p] \/ (p = Home[u] /\ proc'[p] = Off)
           /\ upd' \in [Threads -> Updaters] /\ upd'[u] = Idle
           /\ \A w \in Threads : \/ upd'[w] = upd[w]
                                 \/ upd'[w] = Idle /\ Home[w] = Home[u] /\ (w # u => ~Working(w))
           /\ \A p \in Procs : proc'[p] # proc[p] => \A w \in Threads : Home[w] = p => upd'[w] = Idle
           /\ past' \in Histories /\ (past'.torn <=> past.torn \/ t)
           /\ past'.overlap = past.overlap /\ past'.overtaken = past.overtaken
           /\ past'.best = past.best /\ past'.rolled = past.rolled
           /\ CommandsRun' /\ LockInd' /\ LoginInd'
<1> USE DEF HostInd
<1> DEFINE h == Home[u]
<1>1. /\ h \in Procs /\ Hosted(u)
      /\ proc[h].pc \notin {"stop", "stopping", "certs", "off"}
      /\ proc[h].cmd = "update" => proc[h].pc = "updating" /\ h = "shell"
  BY WorkerIs
<1> HIDE DEF h
<1>2. UNCHANGED <<pid, unit, conf, certs, rows, spent>>
  BY DEF FailOnly
<1>3. \/ proc[h].cmd = "update" /\ Gone(h)
      \/ proc[h].cmd # "update" /\ upd' = [upd EXCEPT ![u] = Idle] /\ UNCHANGED proc
  BY DEF Ends, h
<1>4. /\ Off.cmd = "none" /\ Off.pc = "off" /\ Off.lock = 0 /\ Off.fd = 0 /\ Off.cfg.whole
      /\ Off.cur = FALSE
  BY DEF Off
<1>5. /\ proc' \in [Procs -> Processes]
      /\ \A p \in Procs : proc'[p] = proc[p] \/ (p = h /\ proc[h].cmd = "update" /\ proc'[p] = Off)
  <2>1. CASE proc[h].cmd = "update"
    BY <1>1, <1>3, <2>1, OffEnds DEF Gone, Only
  <2>2. CASE proc[h].cmd # "update"
    BY <1>3, <2>2 DEF TypeOK
  <2>3. QED
    BY <2>1, <2>2
<1>6. proc[h].cmd = "update" => \A w \in Threads : Home[w] = h /\ w # u => ~Working(w)
  BY <1>1 DEF UpdateInd, Hosted, h
<1>7. /\ upd' \in [Threads -> Updaters] /\ upd'[u] = Idle
      /\ \A w \in Threads : \/ upd'[w] = upd[w]
                            \/ upd'[w] = Idle /\ Home[w] = h /\ (w # u => ~Working(w))
      /\ \A p \in Procs : proc'[p] # proc[p] => \A w \in Threads : Home[w] = p => upd'[w] = Idle
  <2>1. CASE proc[h].cmd = "update"
    BY <1>3, <1>5, <1>6, <2>1, IdleIsUpdater DEF Gone, TypeOK, h
  <2>2. CASE proc[h].cmd # "update"
    BY <1>3, <2>2, IdleIsUpdater DEF TypeOK, h
  <2>3. QED
    BY <2>1, <2>2
<1>8. /\ past' \in Histories /\ (past'.torn <=> past.torn \/ t)
      /\ past'.overlap = past.overlap /\ past'.overtaken = past.overtaken
      /\ past'.best = past.best /\ past'.rolled = past.rolled
      /\ past'.login = past.login /\ past'.stale = past.stale /\ past'.unlinked = past.unlinked
  <2>1. past \in Histories
    BY DEF TypeOK
  <2>2. PICK b \in BOOLEAN : b <=> past.torn \/ t
    OBVIOUS
  <2>3. past' = [past EXCEPT !.torn = b]
    BY <2>1, <2>2 DEF Ends, Histories
  <2>4. QED
    BY <2>1, <2>2, <2>3 DEF Histories
<1>9. CommandsRun'
  BY <1>1, <1>4, <1>5 DEF CommandsRun, PCsOf, Procs
<1>10. LockKept
  BY <1>2, <1>4, <1>5, <1>8 DEF LockKept
<1>11. LoginKept
  BY <1>1, <1>2, <1>4, <1>5, <1>8 DEF LoginKept, LoginUnder, LoginInd, Procs
<1>12. QED
  BY <1>5, <1>7, <1>8, <1>9, <1>10, <1>11, LocksKept, LoginsKept DEF h

\* An update that fails; what it leaves half written is noted.
LEMMA FailedKeeps ==
    ASSUME HostInd, NEW u \in Threads, Working(u), Failed(u), UNCHANGED <<exe, files>>, FailOnly
    PROVE  HostInd'
<1> USE DEF HostInd
<1>1. PICK t \in BOOLEAN : t <=> Writes(u)
  OBVIOUS
<1>2. Ends(u, t)
  BY <1>1 DEF Failed, Ends, Writes
<1>3. /\ proc' \in [Procs -> Processes]
      /\ \A p \in Procs : proc'[p] = proc[p] \/ (p = Home[u] /\ proc'[p] = Off)
      /\ upd' \in [Threads -> Updaters] /\ upd'[u] = Idle
      /\ \A w \in Threads : \/ upd'[w] = upd[w]
                            \/ upd'[w] = Idle /\ Home[w] = Home[u] /\ (w # u => ~Working(w))
      /\ \A p \in Procs : proc'[p] # proc[p] => \A w \in Threads : Home[w] = p => upd'[w] = Idle
      /\ past' \in Histories /\ (past'.torn <=> past.torn \/ t)
      /\ past'.overlap = past.overlap /\ past'.overtaken = past.overtaken
      /\ past'.best = past.best /\ past'.rolled = past.rolled
      /\ CommandsRun' /\ LockInd' /\ LoginInd'
  BY <1>2, EndsKeep
<1>4. UNCHANGED <<pid, unit, conf, certs, rows, spent>>
  BY DEF FailOnly
<1>5. TypeOK'
  BY <1>3, <1>4 DEF TypeOK
<1>6. proc[Home[u]].pc \notin {"stop", "stopping", "certs", "off"}
  BY WorkerIs
<1>7. \A w \in Threads : ~Working(w) => ~Writes(w)
  BY DEF Working, Writes
<1>8. Off.pc = "off"
  BY DEF Off
<1>9. UpdateKept
  <2>1. \A w \in Threads : upd'[w] = upd[w] \/ (upd'[w].pc = "idle" /\ (Writes(w) => past'.torn))
    BY <1>1, <1>3, <1>7, IdleIsUpdater
  <2>2. \A p \in Procs : /\ proc'[p].pc # "off" => proc'[p].ver # 0
                         /\ proc'[p].pc # "off" => proc'[p] = proc[p]
    BY <1>3, <1>8 DEF UpdateInd, Running
  <2>3. \A p \in Procs : proc'[p].pc \in {"stop", "stopping"} =>
           proc[p].pc \in {"stop", "stopping"} /\ \A w \in Threads : Home[w] = p => upd'[w] = upd[w]
    BY <1>3, <1>6, <1>8
  <2>4. \A p \in Procs : proc'[p] = proc[p] \/ \A w \in Threads : Home[w] = p => upd'[w].pc = "idle"
    BY <1>3, IdleIsUpdater
  <2>5. QED
    BY <1>3, <1>4, <2>1, <2>2, <2>3, <2>4 DEF UpdateKept
<1>10. QED
  BY <1>3, <1>5, <1>9, UpdatesKept

\* The backup is back: nothing is torn by that.
LEMMA RestoreBackupKeeps ==
    ASSUME HostInd, NEW u \in Threads, RestoreBackup(u)
    PROVE  HostInd'
<1> USE DEF HostInd
<1>1. upd[u].pc = "restoring" /\ UNCHANGED <<files, pid, unit, conf, certs, rows, spent>> /\ FailOnly
  BY DEF RestoreBackup, UAt, FailOnly
<1>2. Working(u)
  BY <1>1 DEF Working
<1>3. CASE Failed(u) /\ UNCHANGED exe
  BY <1>1, <1>2, <1>3, FailedKeeps
<1>4. CASE exe' = upd[u].backup /\ Ends(u, FALSE)
  <2>1. /\ proc' \in [Procs -> Processes]
        /\ \A p \in Procs : proc'[p] = proc[p] \/ (p = Home[u] /\ proc'[p] = Off)
        /\ upd' \in [Threads -> Updaters] /\ upd'[u] = Idle
        /\ \A w \in Threads : \/ upd'[w] = upd[w]
                              \/ upd'[w] = Idle /\ Home[w] = Home[u] /\ (w # u => ~Working(w))
        /\ \A p \in Procs : proc'[p] # proc[p] => \A w \in Threads : Home[w] = p => upd'[w] = Idle
        /\ past' \in Histories /\ (past'.torn <=> past.torn)
        /\ past'.overlap = past.overlap /\ past'.overtaken = past.overtaken
        /\ past'.best = past.best /\ past'.rolled = past.rolled
        /\ CommandsRun' /\ LockInd' /\ LoginInd'
    BY <1>1, <1>2, <1>4, EndsKeep
  <2>2. upd[u].backup \in Contents
    BY DEF TypeOK, Updaters
  <2>3. TypeOK'
    BY <1>1, <1>4, <2>1, <2>2 DEF TypeOK
  <2>4. proc[Home[u]].pc \notin {"stop", "stopping", "certs", "off"}
    BY <1>2, WorkerIs
  <2>5. RowsInd' /\ Latest' = Latest
    BY <1>1 DEF UpdateInd, RowsInd, Latest
  <2>6. \A w \in Threads : Home[w] \in Procs
    BY HostAssumption
  <2>7. Off.pc = "off"
    BY DEF Off
  <2>8. \A w \in Threads : Working(w)' => Working(w) /\ upd'[w] = upd[w] /\ proc'[Home[w]] = proc[Home[w]]
    BY <2>1, <2>6, IdleIsUpdater DEF Working
  <2>9. \A w \in Threads : Working(w)' => Hosted(w)'
    BY <2>8 DEF UpdateInd, Hosted
  <2>10. \A p \in Procs : Waiting(p)' => Waiting(p) /\ p # Home[u]
    BY <2>1, <2>4, <2>7 DEF Waiting
  <2>11. \A w \in Threads : Asked(w)' => Asked(w) /\ upd'[w] = upd[w]
    BY <2>1, <2>6, <2>8, <2>10 DEF Asked
  <2>12. \A p \in Procs : Running(p)' => Running(p) /\ proc'[p] = proc[p]
    BY <2>1, <2>7 DEF Running
  <2>13. \A w \in Threads : Asked(w)' => upd'[w].want # 0
    BY <2>11 DEF UpdateInd
  <2>14. \A p \in Procs : Running(p)' => proc'[p].ver # 0
    BY <2>12 DEF UpdateInd
  <2>15. ASSUME ~past.overlap
         PROVE  /\ ExeInd' /\ (~past.rolled => Newest')
                /\ ~past.rolled /\ ~past.overtaken => Upwards'
    <3>1. /\ ExeInd /\ (~past.rolled => Newest)
          /\ ~past.rolled /\ ~past.overtaken => Upwards
      BY <2>15 DEF UpdateInd
    <3>2. (\A w \in Threads : w # u => ~Working(w)) /\ FilesOf(u)
      BY <1>2, <2>15, OnlyWorker
    <3>3. \A w \in Threads : upd'[w].pc \in {"idle", "restart"}
      BY <2>1, <3>2, IdleIsUpdater DEF Working
    <3>4. HasBackup(u) /\ (upd[u].backup \in Versions \/ (past.torn /\ upd[u].backup = Part))
      BY <1>1, <3>2 DEF FilesOf, HasBackup
    <3>5. exe = Part /\ Part \notin Versions
      BY <1>1, <3>1, HostAssumption DEF ExeInd
    <3>6. \A p \in Procs : ~(Running(p)' /\ proc'[p].cur)
      BY <2>12, <3>1, <3>5 DEF ExeInd
    <3>7. ExeInd'
      BY <1>4, <2>1, <3>3, <3>4, <3>6 DEF ExeInd, Working
    <3>8. ~past.rolled => Newest'
      BY <2>1, <2>5, <2>11, <3>1 DEF Newest
    <3>9. ~past.rolled /\ ~past.overtaken => Upwards'
      <4>1. \A w \in Threads : ~HasBackup(w)'
        BY <3>3 DEF HasBackup
      <4>2. QED
        BY <1>4, <2>1, <2>11, <3>1, <3>4, <4>1 DEF Upwards
    <3>10. QED
      BY <3>7, <3>8, <3>9
  <2>16. UpdateInd'
    BY <2>1, <2>5, <2>9, <2>13, <2>14, <2>15 DEF UpdateInd
  <2>17. QED
    BY <2>1, <2>3, <2>16
<1>5. QED
  BY <1>3, <1>4 DEF RestoreBackup

\* A thread of connect has installed a version: the unit is restarted when it
\* runs.
LEMMA InstalledKeeps ==
    ASSUME HostInd, NEW u \in Threads, Installed(u)
    PROVE  HostInd'
<1> USE DEF HostInd
<1>1. /\ upd[u].pc = "installed" /\ proc[Home[u]].cmd = "connect"
      /\ UNCHANGED <<exe, files, pid, conf, certs, unit, rows, spent>>
  BY DEF Installed, UAt, HostFiles
<1>2. Working(u) /\ ~Writes(u)
  BY <1>1 DEF Working, Writes
<1>3. Home[u] \in Procs /\ proc[Home[u]].pc \notin {"stop", "stopping"}
  BY <1>2, WorkerIs
<1>4. "restart" \in UpdaterPCs
  BY DEF UpdaterPCs
<1>5. CASE UGoto(u, "restart") /\ UNCHANGED <<proc, past>>
  <2>1. Goes(u, "restart", upd[u].backup)
    BY <1>4, <1>5, UGotoGoes
  <2>2. TypeOK'
    BY <1>1, <1>5, <2>1 DEF TypeOK, Goes
  <2>3. CommandsRun' /\ LockKept /\ LoginKept
    BY <1>1, <1>5 DEF CommandsRun, LockKept, LoginKept, LoginUnder, LoginInd
  <2>4. UpdateKept
    BY <1>1, <1>2, <1>3, <1>5, <2>1 DEF UpdateKept, UpdateInd, Running, Goes
  <2>5. QED
    BY <2>2, <2>3, <2>4, LocksKept, LoginsKept, UpdatesKept
<1>6. CASE proc' = [proc EXCEPT !["svc"] = Terminated("svc")] /\ Signalled([upd EXCEPT ![u].pc = "restart"])
  <2>1. proc \in [Procs -> Processes] /\ upd \in [Threads -> Updaters]
        /\ unit' \in {"absent", "active", "stopped", "halted"}
    BY <1>1 DEF TypeOK
  <2>2. Terminated("svc") \in Processes /\ Terminated("svc").pc \in {"release", "off"}
    <3>1. PICK t : t = Terminated("svc")
      OBVIOUS
    <3>2. t \in Processes /\ (t.pc = "release" \/ t = Off)
      BY <3>1, TerminatedIs
    <3>3. Off.pc = "off"
      BY DEF Off
    <3>4. QED
      BY <3>1, <3>2, <3>3
  <2>3. /\ proc' \in [Procs -> Processes] /\ proc'["svc"] = Terminated("svc")
        /\ proc'["shell"] = proc["shell"]
    BY <1>6, <2>1, <2>2 DEF Procs
  <2>4. proc'[Home[u]].pc \notin {"stop", "stopping"}
    BY <1>3, <2>2, <2>3 DEF Procs
  <2>5. PICK next : next = [upd EXCEPT ![u].pc = "restart"]
    OBVIOUS
  <2>6. /\ next \in [Threads -> Updaters] /\ next[u].pc = "restart"
        /\ \A w \in Threads : w # u => next[w] = upd[w]
    <3>1. PICK r : r = [upd[u] EXCEPT !.pc = "restart"]
      OBVIOUS
    <3>2. r \in Updaters /\ r.pc = "restart"
      BY <1>4, <2>1, <3>1 DEF Updaters
    <3>3. next = [upd EXCEPT ![u] = r]
      BY <2>1, <2>5, <3>1
    <3>4. QED
      BY <2>1, <3>2, <3>3
  <2>7. Signalled(next)
    BY <1>6, <2>5
  <2>8. QED
    BY <1>1, <1>2, <2>1, <2>3, <2>4, <2>6, <2>7, SignalKeeps
<1>7. QED
  BY <1>5, <1>6 DEF Installed

\* RestoreState takes the tunnel down, to take it up again.
LEMMA RestoreStateKeeps ==
    ASSUME HostInd, NEW u \in Threads, RestoreState(u)
    PROVE  HostInd'
<1> USE DEF HostInd
<1> DEFINE p == Home[u]
<1>1. /\ upd[u].pc = "restart" /\ proc[p].cmd = "connect" /\ upd' = [upd EXCEPT ![u] = Idle]
      /\ UNCHANGED <<exe, files, pid, conf, certs, unit, rows, spent, past>>
  BY DEF RestoreState, UAt, HostFiles
<1>2. p \in Procs
  BY HostAssumption
<1>3. \/ UNCHANGED proc
      \/ proc[p].pc = "up" /\ proc' = [proc EXCEPT ![p].pc = "release", ![p].todo = {"connect"}]
  BY DEF RestoreState, At
<1>4. /\ upd' \in [Threads -> Updaters] /\ upd'[u] = Idle /\ \A w \in Threads : w # u => upd'[w] = upd[w]
      /\ Home[u] = p
  BY <1>1, IdleIsUpdater DEF TypeOK
<1> HIDE DEF p
<1>5. ~Writes(u) /\ upd'[u].pc = "idle"
  BY <1>1, <1>4, IdleIsUpdater DEF Writes
<1>6. proc[p].pc \in ConnectPCs
  BY <1>1, <1>2 DEF CommandsRun, PCsOf
<1>7. proc[p].pc \notin {"stop", "stopping", "updating"}
  BY <1>6 DEF ConnectPCs
<1>8. CASE UNCHANGED proc
  <2>1. TypeOK'
    BY <1>1, <1>4, <1>8 DEF TypeOK
  <2>2. CommandsRun' /\ LockKept /\ LoginKept
    BY <1>1, <1>8 DEF CommandsRun, LockKept, LoginKept, LoginUnder, LoginInd
  <2>3. UpdateKept
    BY <1>1, <1>4, <1>5, <1>7, <1>8 DEF UpdateKept, UpdateInd, Running
  <2>4. QED
    BY <2>1, <2>2, <2>3, LocksKept, LoginsKept, UpdatesKept
<1>9. CASE proc[p].pc = "up" /\ proc' = [proc EXCEPT ![p].pc = "release", ![p].todo = {"connect"}]
  <2>1. "release" \in PCs /\ "release" \in PCsOf("connect") /\ {"connect"} \in SUBSET {"crt", "key", "connect"}
    BY DEF PCs, PCsOf, ConnectPCs
  <2>2. Run(p, "release", proc[p].fd, proc[p].lock, proc[p].cfg, {"connect"})
    BY <1>2, <1>9, <2>1, TodoRuns
  <2>3. TypeOK'
    BY <1>1, <1>4, <2>2 DEF TypeOK, Run, Only
  <2>4. CommandsRun'
    BY <1>1, <1>2, <2>1, <2>2 DEF CommandsRun, Run, Only, Procs
  <2>5. LockKept
    BY <1>1, <1>9, <2>2 DEF LockKept, Run, Only, Transient
  <2>6. LoginKept
    BY <1>1, <1>2, <1>9, <2>2 DEF LoginKept, LoginUnder, LoginInd, Run, Only, Procs
  <2>7. UpdateKept
    BY <1>1, <1>4, <1>5, <1>7, <1>9, <2>2 DEF UpdateKept, UpdateInd, Run, Only, Running
  <2>8. QED
    BY <2>3, <2>4, <2>5, <2>6, <2>7, LocksKept, LoginsKept, UpdatesKept
<1>10. QED
  BY <1>3, <1>8, <1>9

-----------------------------------------------------------------------------
(* The steps of an installation.                                           *)

\* What is written to a file, when nobody else writes.
LEMMA WrittenIs ==
    ASSUME TypeOK, NEW u \in Threads, NEW f \in {"dl", "ext", "new"}, NEW c \in Contents, NEW g \in Written(u, f, c)
    PROVE  /\ g \in [dl : Contents, ext : Contents, new : Contents]
           /\ (\A w \in Threads : w # u => ~Working(w)) => g = [files EXCEPT ![f] = c]
<1>1. files \in [dl : Contents, ext : Contents, new : Contents] /\ Part \in Contents
  BY DEF TypeOK, Contents
<1>2. g = [files EXCEPT ![f] = c] \/ g = [files EXCEPT ![f] = Part]
  BY DEF Written
<1>3. (\A w \in Threads : w # u => ~Working(w)) => g = [files EXCEPT ![f] = c]
  BY DEF Written
<1>4. \A d \in Contents : [files EXCEPT ![f] = d] \in [dl : Contents, ext : Contents, new : Contents]
  <2> SUFFICES ASSUME NEW d \in Contents
               PROVE  [files EXCEPT ![f] = d] \in [dl : Contents, ext : Contents, new : Contents]
    OBVIOUS
  <2>1. CASE f = "dl"
    BY <1>1, <2>1
  <2>2. CASE f = "ext"
    BY <1>1, <2>2
  <2>3. CASE f = "new"
    BY <1>1, <2>3
  <2>4. QED
    BY <2>1, <2>2, <2>3
<1>5. QED
  BY <1>1, <1>2, <1>3, <1>4

\* The download of an archive, up to its verification.
LEMMA DownloadsKeep ==
    ASSUME HostInd, NEW u \in Threads, DownloadUpdate(u)
    PROVE  HostInd'
<1> DEFINE Files == [dl : Contents, ext : Contents, new : Contents]
<1>1. /\ upd[u].pc \in {"download", "downloading", "checksum"}
      /\ UNCHANGED <<exe, pid, unit, conf, certs, rows, spent>> /\ FailOnly
  BY DEF DownloadUpdate, DownloadBegins, Download, VerifyChecksum, UAt, FailOnly
<1>2. Working(u) /\ ~Writes(u) /\ ~HasBackup(u)
  BY <1>1 DEF Working, Writes, HasBackup
<1>3. CASE Failed(u) /\ UNCHANGED files
  BY <1>1, <1>2, <1>3, FailedKeeps
<1>4. TypeOK /\ files \in Files /\ Part \in Contents /\ Bad \in Contents /\ upd[u].want \in Contents
  <2>1. upd[u].want \in Versions
    BY <1>2, WorkerIs
  <2>2. QED
    BY <2>1 DEF HostInd, TypeOK, Contents
<1>5. ASSUME NEW c \in {"downloading", "checksum", "backup"}, UGoto(u, c)
      PROVE  /\ c \in UpdaterPCs \ {"idle", "restart", "sudo", "restoring"}
             /\ ~HasBackup(u)'
  <2>1. c \in UpdaterPCs \ {"idle", "restart", "sudo", "restoring"}
    BY DEF UpdaterPCs
  <2>2. upd'[u].pc = c
    BY <1>4, <1>5, <2>1, UGotoGoes DEF Goes
  <2>3. QED
    BY <2>1, <2>2 DEF HasBackup
<1>6. CASE /\ files' = [files EXCEPT !.dl = Part] /\ UGoto(u, "downloading") /\ UNCHANGED <<proc, past>>
  <2>1. files' \in Files
    BY <1>4, <1>6
  <2>2. QED
    BY <1>1, <1>2, <1>5, <1>6, <2>1, ThreadMoves
<1>7. CASE /\ \E c \in {upd[u].want, Bad} : files' \in Written(u, "dl", c)
           /\ UGoto(u, "checksum") /\ UNCHANGED <<proc, past>>
  <2>1. PICK c \in {upd[u].want, Bad} : files' \in Written(u, "dl", c)
    BY <1>7
  <2>2. /\ files' \in Files
        /\ (\A w \in Threads : w # u => ~Working(w)) => files' = [files EXCEPT !.dl = c]
    BY <1>4, <2>1, WrittenIs
  <2>3. ~past.overlap => files'.dl \in {upd[u].want, Bad}
    BY <1>2, <1>4, <2>2, OnlyWorker
  <2>4. QED
    BY <1>1, <1>2, <1>5, <1>7, <2>2, <2>3, ThreadMoves
<1>8. CASE upd[u].pc = "checksum" /\ UGoto(u, "backup") /\ UNCHANGED <<files, proc, past>>
  <2>1. ~past.overlap => files.dl \in {upd[u].want, Bad}
    BY <1>2, <1>8, OnlyWorker DEF FilesOf
  <2>2. QED
    BY <1>1, <1>2, <1>4, <1>5, <1>8, <2>1, ThreadMoves
<1>9. QED
  BY <1>3, <1>6, <1>7, <1>8 DEF DownloadUpdate, DownloadBegins, Download, VerifyChecksum, UAt

\* Steps between the backup and the replacement of the executable.
LEMMA PreparationsKeep ==
    ASSUME HostInd, NEW u \in Threads,
           \/ ExtractArchive(u) \/ VerifyNewBinary(u) \/ StageBegins(u) \/ Stage(u)
    PROVE  HostInd'
<1> DEFINE Files == [dl : Contents, ext : Contents, new : Contents]
<1>1. /\ upd[u].pc \in {"extracting", "verify", "stage", "staging"}
      /\ UNCHANGED <<exe, proc, pid, unit, conf, certs, rows, spent, past>>
  BY DEF ExtractArchive, VerifyNewBinary, StageBegins, Stage, UAt, UpdOnly
<1>2. Working(u) /\ HasBackup(u)
  BY <1>1 DEF Working, HasBackup
<1>3. TypeOK /\ files \in Files /\ Part \in Contents /\ files.dl \in Contents /\ files.ext \in Contents
  BY DEF HostInd, TypeOK, Contents
<1>4. /\ upd[u].want \in Versions
      /\ ~past.overlap => FilesOf(u) /\ \A w \in Threads : w # u => ~Working(w)
  BY <1>2, WorkerIs, OnlyWorker
<1>5. Bad \notin Versions
  BY HostAssumption
<1>6. {"verify", "restore", "stage", "sudo_begin", "staging", "rename"}
         \subseteq UpdaterPCs \ {"idle", "restart", "sudo", "restoring"}
  BY DEF UpdaterPCs
<1>8. CASE ExtractArchive(u)
  <2>1. CASE files' \in Written(u, "ext", files.dl) /\ UGoto(u, "verify")
    <3>1. /\ files' \in Files
          /\ (\A w \in Threads : w # u => ~Working(w)) => files' = [files EXCEPT !.ext = files.dl]
      BY <1>3, <2>1, WrittenIs
    <3>2. ~past.overlap => files.dl \in {upd[u].want, Bad}
      BY <1>4, <1>8 DEF FilesOf, ExtractArchive, UAt
    <3>3. ~past.overlap => files'.ext \in {upd[u].want, Bad}
      BY <1>3, <1>4, <3>1, <3>2
    <3>4. QED
      BY <1>1, <1>2, <1>6, <2>1, <3>1, <3>3, ThreadMoves
  <2>2. CASE UGoto(u, "restore") /\ UNCHANGED files
    BY <1>1, <1>2, <1>3, <1>6, <2>2, ThreadMoves
  <2>3. QED
    BY <1>8, <2>1, <2>2 DEF ExtractArchive
<1>9. CASE VerifyNewBinary(u)
  <2>1. /\ upd[u].pc = "verify" /\ UNCHANGED files
        /\ UGoto(u, IF files.ext \in Versions THEN "stage" ELSE "restore")
    BY <1>9 DEF VerifyNewBinary, UAt
  <2>2. CASE files.ext \in Versions
    <3>1. UGoto(u, "stage")
      BY <2>1, <2>2
    <3>2. ~past.overlap => files'.ext = upd[u].want
      BY <1>4, <1>5, <2>1, <2>2 DEF FilesOf
    <3>3. QED
      BY <1>1, <1>2, <1>3, <1>6, <2>1, <3>1, <3>2, ThreadMoves
  <2>3. CASE files.ext \notin Versions
    <3>1. UGoto(u, "restore")
      BY <2>1, <2>3
    <3>2. QED
      BY <1>1, <1>2, <1>3, <1>6, <2>1, <3>1, ThreadMoves
  <2>4. QED
    BY <2>2, <2>3
<1>10. CASE StageBegins(u)
  <2>1. ~past.overlap => files.ext = upd[u].want
    BY <1>4, <1>10 DEF FilesOf, StageBegins, UAt
  <2>2. CASE files' = [files EXCEPT !.new = Part] /\ UGoto(u, "staging")
    <3>1. files' \in Files /\ files'.ext = files.ext
      BY <1>3, <2>2
    <3>2. QED
      BY <1>1, <1>2, <1>6, <2>1, <2>2, <3>1, ThreadMoves
  <2>3. CASE UGoto(u, "sudo_begin") /\ UNCHANGED files
    BY <1>1, <1>2, <1>3, <1>6, <2>1, <2>3, ThreadMoves
  <2>4. CASE UGoto(u, "restore") /\ UNCHANGED files
    BY <1>1, <1>2, <1>3, <1>6, <2>4, ThreadMoves
  <2>5. QED
    BY <1>10, <2>2, <2>3, <2>4 DEF StageBegins
<1>11. CASE Stage(u)
  <2>1. CASE files' \in Written(u, "new", files.ext) /\ UGoto(u, "rename")
    <3>1. /\ files' \in Files
          /\ (\A w \in Threads : w # u => ~Working(w)) => files' = [files EXCEPT !.new = files.ext]
      BY <1>3, <2>1, WrittenIs
    <3>2. ~past.overlap => files.ext = upd[u].want
      BY <1>4, <1>11 DEF FilesOf, Stage, UAt
    <3>3. ~past.overlap => files'.new = upd[u].want /\ files'.ext = upd[u].want
      BY <1>3, <1>4, <3>1, <3>2
    <3>4. QED
      BY <1>1, <1>2, <1>6, <2>1, <3>1, <3>3, ThreadMoves
  <2>2. CASE UGoto(u, "restore") /\ UNCHANGED files
    BY <1>1, <1>2, <1>3, <1>6, <2>2, ThreadMoves
  <2>3. QED
    BY <1>11, <2>1, <2>2 DEF Stage
<1>12. QED
  BY <1>8, <1>9, <1>10, <1>11

\* The archive begins to be extracted.
LEMMA ExtractBeginsKeeps ==
    ASSUME HostInd, NEW u \in Threads, ExtractBegins(u)
    PROVE  HostInd'
<1>1. upd[u].pc = "extract" /\ UNCHANGED <<exe, pid, unit, conf, certs, rows, spent>> /\ FailOnly
  BY DEF ExtractBegins, UAt, FailOnly
<1>2. Working(u) /\ HasBackup(u)
  BY <1>1 DEF Working, HasBackup
<1>3. CASE files' = [files EXCEPT !.ext = Part] /\ UGoto(u, "extracting") /\ UNCHANGED <<proc, past>>
  <2>1. files' \in [dl : Contents, ext : Contents, new : Contents] /\ files'.dl = files.dl
    BY <1>3 DEF HostInd, TypeOK, Contents
  <2>2. ~past.overlap => files'.dl \in {upd[u].want, Bad}
    BY <1>1, <1>2, <2>1, OnlyWorker DEF FilesOf
  <2>3. "extracting" \in UpdaterPCs \ {"idle", "restart", "sudo", "restoring"}
    BY DEF UpdaterPCs
  <2>4. QED
    BY <1>1, <1>2, <1>3, <2>1, <2>2, <2>3, ThreadMoves
<1>4. CASE Failed(u) /\ UNCHANGED files
  BY <1>1, <1>2, <1>4, FailedKeeps
<1>5. QED
  BY <1>3, <1>4 DEF ExtractBegins

\* The backup is what the executable is.
LEMMA BackupKeeps ==
    ASSUME HostInd, NEW u \in Threads, CreateBackup(u), ~Failed(u)
    PROVE  HostInd'
<1> USE DEF HostInd
<1>1. /\ upd[u].pc = "backup" /\ upd' = [upd EXCEPT ![u].pc = "extract", ![u].backup = exe]
      /\ UNCHANGED <<exe, files, proc, pid, unit, conf, certs, rows, spent, past>>
  BY DEF CreateBackup, UAt, FailOnly
<1>2. Working(u) /\ ~Writes(u)
  BY <1>1 DEF Working, Writes
<1>3. exe \in Contents /\ "extract" \in UpdaterPCs
  BY DEF TypeOK, UpdaterPCs
<1>4. Goes(u, "extract", exe)
  <2>1. upd \in [Threads -> Updaters]
    BY DEF TypeOK
  <2>2. PICK r : r = [[upd[u] EXCEPT !.pc = "extract"] EXCEPT !.backup = exe]
    OBVIOUS
  <2>3. upd' = [upd EXCEPT ![u] = r]
    BY <1>1, <2>1, <2>2
  <2>4. r \in Updaters /\ r.pc = "extract" /\ r.want = upd[u].want /\ r.backup = exe
    BY <1>3, <2>1, <2>2 DEF Updaters
  <2>5. QED
    BY <2>1, <2>3, <2>4 DEF Goes
<1>5. SameProcs /\ PastReaches(u)
  BY <1>1 DEF TypeOK, SameProcs, PastReaches
<1>6. ASSUME ~past.overlap
      PROVE  /\ FilesOf(u)'
             /\ exe \in Versions \/ (exe = Part /\ past.torn)
             /\ \A p \in Procs : Running(p) /\ proc[p].cur => exe \in Versions
  <2>1. FilesOf(u) /\ \A w \in Threads : w # u => ~Writes(w)
    BY <1>2, <1>6, OnlyWorker
  <2>2. ExeInd
    BY <1>6 DEF UpdateInd
  <2>3. exe \in Versions \/ (exe = Part /\ past.torn)
    BY <1>2, <2>1, <2>2 DEF ExeInd
  <2>4. FilesOf(u)'
    BY <1>1, <1>4, <2>1, <2>3 DEF FilesOf, Goes
  <2>5. QED
    BY <2>2, <2>3, <2>4 DEF ExeInd
<1>7. ~past.overlap /\ ~past.rolled /\ ~past.overtaken => (exe \in Versions => exe >= past.best)
  BY DEF UpdateInd, Upwards
<1>8. files' \in [dl : Contents, ext : Contents, new : Contents]
  BY <1>1 DEF TypeOK
<1>9. QED
  <2>1. "extract" \in UpdaterPCs \ {"idle", "restart"} /\ "extract" \notin {"restoring", "sudo"}
    BY <1>3
  <2>2. past' = past /\ exe' = exe /\ proc' = proc
    BY <1>1
  <2>3. ~past.overlap =>
           /\ FilesOf(u)'
           /\ exe' \in Versions \/ (exe' = Part /\ (past.torn \/ Writes(u)'))
           /\ \A p \in Procs : Running(p) /\ proc'[p].cur => exe' \in Versions
    BY <1>6, <2>2
  <2>4. ~past.overlap /\ ~past.rolled /\ ~past'.overtaken =>
           /\ exe' \in Versions => exe' >= past'.best
           /\ HasBackup(u)' /\ exe \in Versions => exe >= past'.best
    BY <1>7, <2>2
  <2>5. QED
    BY <1>1, <1>2, <1>3, <1>4, <1>5, <1>8, <2>1, <2>2, <2>3, <2>4, ThreadGoes

\* A backup that cannot be made ends the update.
LEMMA CreateBackupKeeps ==
    ASSUME HostInd, NEW u \in Threads, CreateBackup(u)
    PROVE  HostInd'
<1>1. CASE Failed(u)
  <2>1. Working(u) /\ UNCHANGED <<exe, files>> /\ FailOnly
    BY DEF CreateBackup, UAt, Working
  <2>2. QED
    BY <1>1, <2>1, FailedKeeps
<1>2. QED
  BY <1>1, BackupKeeps

\* The path names another file: no process runs from it.
LEMMA ReplacedIs ==
    ASSUME TypeOK, Replaced
    PROVE  SameProcs /\ \A p \in Procs : proc'[p].cur = FALSE
<1>1. proc \in [Procs -> Processes]
  BY DEF TypeOK
<1>2. ASSUME NEW p \in Procs
      PROVE  /\ proc'[p] \in Processes /\ proc'[p].cur = FALSE
             /\ proc'[p].cmd = proc[p].cmd /\ proc'[p].pc = proc[p].pc /\ proc'[p].ver = proc[p].ver
             /\ proc'[p].fd = proc[p].fd /\ proc'[p].lock = proc[p].lock /\ proc'[p].cfg = proc[p].cfg
             /\ proc'[p].todo = proc[p].todo
  <2>1. PICK r : r = [proc[p] EXCEPT !.cur = FALSE]
    OBVIOUS
  <2>2. proc'[p] = r
    BY <1>1, <2>1 DEF Replaced
  <2>3. proc[p] \in Processes
    BY <1>1
  <2>4. /\ r \in Processes /\ r.cur = FALSE
        /\ r.cmd = proc[p].cmd /\ r.pc = proc[p].pc /\ r.ver = proc[p].ver
        /\ r.fd = proc[p].fd /\ r.lock = proc[p].lock /\ r.cfg = proc[p].cfg /\ r.todo = proc[p].todo
    BY <2>1, <2>3 DEF Processes
  <2>5. QED
    BY <2>2, <2>4
<1>3. proc' = [p \in Procs |-> proc'[p]]
  BY <1>1 DEF Replaced
<1>4. QED
  BY <1>2, <1>3 DEF SameProcs

\* The history of a version that was reached.
LEMMA ReachedIs ==
    ASSUME TypeOK, NEW u \in Threads, NEW c \in Contents, ~past.overlap => c = upd[u].want /\ c \in Versions, Reached(c),
           ~past.overlap /\ ~past.rolled /\ ~past.overtaken => upd[u].want >= past.best
    PROVE  /\ PastReaches(u)
           /\ ~past.overlap /\ ~past.rolled /\ ~past'.overtaken => c >= past'.best
<1>1. past \in Histories
  BY DEF TypeOK
<1>2. PICK o \in BOOLEAN : o <=> past.overtaken \/ \E p \in Procs : Waiting(p)
  OBVIOUS
<1>3. PICK b : b = IF c \in Versions /\ c > past.best THEN c ELSE past.best
  OBVIOUS
<1>4. past' = [past EXCEPT !.best = b, !.overtaken = o]
  BY <1>1, <1>2, <1>3 DEF Reached, Histories
<1>5. b \in Versions /\ past.best \in Versions
  BY <1>1, <1>3 DEF Histories
<1>6. /\ past' \in Histories /\ past'.best = b /\ past'.overtaken = o
      /\ past'.overlap = past.overlap /\ past'.torn = past.torn /\ past'.rolled = past.rolled
      /\ past'.unlinked = past.unlinked /\ past'.login = past.login /\ past'.stale = past.stale
  BY <1>1, <1>4, <1>5 DEF Histories
<1>7. ~past.overlap /\ ~past.rolled /\ ~past.overtaken => c >= b
  BY <1>3, <1>5, HostAssumption DEF Versions
<1>8. b = past.best \/ b = c
  BY <1>3
<1>9. QED
  BY <1>2, <1>6, <1>7, <1>8 DEF PastReaches

\* The staged copy becomes the executable, or stays behind.
LEMMA RenameKeeps ==
    ASSUME HostInd, NEW u \in Threads, Rename(u)
    PROVE  HostInd'
<1> USE DEF HostInd
<1>1. /\ upd[u].pc = "rename" /\ files' = [files EXCEPT !.new = None]
      /\ UNCHANGED <<pid, unit, conf, certs, rows, spent>>
  BY DEF Rename, UAt, ReplaceOnly
<1>2. Working(u) /\ HasBackup(u)
  BY <1>1 DEF Working, HasBackup
<1>3. /\ files' \in [dl : Contents, ext : Contents, new : Contents] /\ files.new \in Contents
      /\ upd[u].backup \in Contents
  BY <1>1 DEF TypeOK, Contents, Updaters
<1>4. CASE UGoto(u, "restore") /\ UNCHANGED <<exe, proc, past>>
  <2>1. "restore" \in UpdaterPCs \ {"idle", "restart", "sudo", "restoring"}
    BY DEF UpdaterPCs
  <2>2. QED
    BY <1>1, <1>2, <1>3, <1>4, <2>1, ThreadMoves
<1>7. CASE UGoto(u, "sudo_begin") /\ UNCHANGED <<exe, proc, past>>
  <2>1. "sudo_begin" \in UpdaterPCs \ {"idle", "restart", "sudo", "restoring"}
    BY DEF UpdaterPCs
  <2>2. files'.ext = files.ext
    BY <1>1 DEF TypeOK
  <2>3. ~past.overlap => files'.ext = upd[u].want
    BY <1>1, <1>2, <2>2, OnlyWorker DEF FilesOf
  <2>4. QED
    BY <1>1, <1>2, <1>3, <1>7, <2>1, <2>3, ThreadMoves
<1>5. CASE exe' = files.new /\ Replaced /\ Reached(files.new) /\ UGoto(u, "tidy")
  <2>1. "tidy" \in UpdaterPCs \ {"idle", "restart"}
    BY DEF UpdaterPCs
  <2>2. Goes(u, "tidy", upd[u].backup)
    BY <1>5, <2>1, UGotoGoes
  <2>3. /\ upd[u].want \in Versions /\ (~past.overlap => files.new = upd[u].want)
        /\ ~past.overlap /\ ~past.rolled /\ ~past.overtaken => upd[u].want >= past.best
    BY <1>1, <1>2, WorkerIs, OnlyWorker DEF FilesOf
  <2>4. PastReaches(u) /\ (~past.overlap /\ ~past.rolled /\ ~past'.overtaken => exe' >= past'.best)
    BY <1>3, <1>5, <2>3, ReachedIs
  <2>5. SameProcs /\ \A p \in Procs : proc'[p].cur = FALSE
    BY <1>5, ReplacedIs
  <2>6. FilesOf(u)' /\ ~HasBackup(u)'
    BY <2>2 DEF FilesOf, Goes, HasBackup
  <2>7. ~past.overlap => exe' \in Versions
    BY <1>5, <2>3
  <2>8. "tidy" \notin {"restoring", "sudo"}
    OBVIOUS
  <2>9. QED
    BY <1>1, <1>2, <1>3, <1>5, <2>1, <2>2, <2>4, <2>5, <2>6, <2>7, <2>8, ThreadGoes
<1>6. QED
  BY <1>4, <1>5, <1>7 DEF Rename

\* `sudo install' unlinks the executable first.
LEMMA SudoBeginsKeeps ==
    ASSUME HostInd, NEW u \in Threads, SudoBegins(u)
    PROVE  HostInd'
<1> USE DEF HostInd
<1>1. /\ upd[u].pc = "sudo_begin"
      /\ UNCHANGED <<files, past, pid, unit, conf, certs, rows, spent>>
  BY DEF SudoBegins, UAt, ReplaceOnly
<1>2. Working(u) /\ HasBackup(u)
  BY <1>1 DEF Working, HasBackup
<1>3. files' \in [dl : Contents, ext : Contents, new : Contents] /\ upd[u].backup \in Contents /\ Part \in Contents
  BY <1>1 DEF TypeOK, Contents, Updaters
<1>4. CASE UGoto(u, "restore") /\ UNCHANGED <<exe, proc>>
  <2>1. "restore" \in UpdaterPCs \ {"idle", "restart", "sudo", "restoring"}
    BY DEF UpdaterPCs
  <2>2. QED
    BY <1>1, <1>2, <1>3, <1>4, <2>1, ThreadMoves
<1>5. CASE exe' = Part /\ Replaced /\ UGoto(u, "sudo")
  <2>1. "sudo" \in UpdaterPCs \ {"idle", "restart"}
    BY DEF UpdaterPCs
  <2>2. Goes(u, "sudo", upd[u].backup)
    BY <1>5, <2>1, UGotoGoes
  <2>3. PastReaches(u)
    BY <1>1 DEF PastReaches, TypeOK
  <2>4. SameProcs /\ \A p \in Procs : proc'[p].cur = FALSE
    BY <1>5, ReplacedIs
  <2>5. ~past.overlap => FilesOf(u)'
    <3>1. ~past.overlap => FilesOf(u)
      BY <1>2, OnlyWorker
    <3>2. QED
      BY <1>1, <1>2, <2>2, <3>1 DEF FilesOf, Goes
  <2>6. Writes(u)'
    BY <2>2 DEF Writes, Goes
  <2>7. ~past.overlap /\ ~past.rolled /\ ~past.overtaken => (upd[u].backup \in Versions => upd[u].backup >= past.best)
    BY <1>2 DEF UpdateInd, Upwards
  <2>8. exe' \notin Versions
    BY <1>5, HostAssumption
  <2>9. ~past.overlap /\ ~past.rolled /\ ~past'.overtaken =>
           /\ exe' \in Versions => exe' >= past'.best
           /\ HasBackup(u)' /\ upd[u].backup \in Versions => upd[u].backup >= past'.best
    BY <1>1, <2>7, <2>8
  <2>10. QED
    BY <1>1, <1>2, <1>3, <1>5, <2>1, <2>2, <2>3, <2>4, <2>5, <2>6, <2>9, ThreadGoes
<1>6. QED
  BY <1>4, <1>5 DEF SudoBegins

\* `sudo install' has written the new executable, or fails half-way.
LEMMA SudoInstallKeeps ==
    ASSUME HostInd, NEW u \in Threads, SudoInstall(u)
    PROVE  HostInd'
<1> USE DEF HostInd
<1>1. /\ upd[u].pc = "sudo"
      /\ UNCHANGED <<files, proc, pid, unit, conf, certs, rows, spent>>
  BY DEF SudoInstall, UAt, UpdOnly
<1>2. Working(u) /\ HasBackup(u)
  BY <1>1 DEF Working, HasBackup
<1>3. /\ files' \in [dl : Contents, ext : Contents, new : Contents] /\ upd[u].backup \in Contents
      /\ files.ext \in Contents
  BY <1>1 DEF TypeOK, Contents, Updaters
<1>4. CASE UGoto(u, "restore") /\ UNCHANGED <<exe, past>>
  <2>1. "restore" \in UpdaterPCs \ {"idle", "restart", "sudo", "restoring"}
    BY DEF UpdaterPCs
  <2>2. QED
    BY <1>1, <1>2, <1>3, <1>4, <2>1, ThreadMoves
<1>5. CASE exe' = files.ext /\ Reached(files.ext) /\ UGoto(u, "tidy")
  <2>1. "tidy" \in UpdaterPCs \ {"idle", "restart"} /\ "tidy" \notin {"restoring", "sudo"}
    BY DEF UpdaterPCs
  <2>2. Goes(u, "tidy", upd[u].backup)
    BY <1>5, <2>1, UGotoGoes
  <2>3. /\ upd[u].want \in Versions /\ (~past.overlap => files.ext = upd[u].want)
        /\ ~past.overlap /\ ~past.rolled /\ ~past.overtaken => upd[u].want >= past.best
    BY <1>1, <1>2, WorkerIs, OnlyWorker DEF FilesOf
  <2>4. PastReaches(u) /\ (~past.overlap /\ ~past.rolled /\ ~past'.overtaken => exe' >= past'.best)
    BY <1>3, <1>5, <2>3, ReachedIs
  <2>5. SameProcs
    BY <1>1 DEF SameProcs, TypeOK
  <2>6. FilesOf(u)' /\ ~HasBackup(u)'
    BY <2>2 DEF FilesOf, Goes, HasBackup
  <2>7. ~past.overlap => exe' \in Versions
    BY <1>5, <2>3
  <2>8. QED
    BY <1>1, <1>2, <1>3, <1>5, <2>1, <2>2, <2>4, <2>5, <2>6, <2>7, ThreadGoes
<1>6. QED
  BY <1>4, <1>5 DEF SudoInstall

\* The backup is written back in place, or by `sudo install'.
LEMMA RestoreBeginsKeeps ==
    ASSUME HostInd, NEW u \in Threads, RestoreBegins(u)
    PROVE  HostInd'
<1> USE DEF HostInd
<1>1. upd[u].pc = "restore" /\ UNCHANGED <<files, pid, unit, conf, certs, rows, spent>> /\ FailOnly
  BY DEF RestoreBegins, UAt, FailOnly
<1>2. Working(u) /\ HasBackup(u)
  BY <1>1 DEF Working, HasBackup
<1>3. /\ files' \in [dl : Contents, ext : Contents, new : Contents] /\ upd[u].backup \in Contents
      /\ Part \in Contents /\ Part \notin Versions
  BY <1>1, HostAssumption DEF TypeOK, Contents, Updaters
<1>4. CASE Failed(u) /\ UNCHANGED exe
  BY <1>1, <1>2, <1>4, FailedKeeps
<1>5. CASE /\ (~Busy /\ UNCHANGED proc) \/ Replaced
           /\ exe' = Part /\ UGoto(u, "restoring") /\ UNCHANGED past
  <2>1. "restoring" \in UpdaterPCs \ {"idle", "restart"}
    BY DEF UpdaterPCs
  <2>2. Goes(u, "restoring", upd[u].backup)
    BY <1>5, <2>1, UGotoGoes
  <2>3. PastReaches(u)
    BY <1>5 DEF PastReaches, TypeOK
  <2>4. SameProcs /\ \A p \in Procs : ~(Running(p) /\ proc'[p].cur)
    <3>1. CASE ~Busy /\ UNCHANGED proc
      BY <3>1 DEF Busy, SameProcs, TypeOK
    <3>2. CASE Replaced
      BY <3>2, ReplacedIs
    <3>3. QED
      BY <1>5, <3>1, <3>2
  <2>5. ~past.overlap => FilesOf(u)'
    <3>1. ~past.overlap => FilesOf(u)
      BY <1>2, OnlyWorker
    <3>2. QED
      BY <1>1, <1>2, <1>5, <2>2, <3>1 DEF FilesOf, Goes
  <2>6. Writes(u)'
    BY <2>2 DEF Writes, Goes
  <2>7. ~past.overlap /\ ~past.rolled /\ ~past.overtaken => (upd[u].backup \in Versions => upd[u].backup >= past.best)
    BY <1>2 DEF UpdateInd, Upwards
  <2>8. ~past.overlap /\ ~past.rolled /\ ~past'.overtaken =>
           /\ exe' \in Versions => exe' >= past'.best
           /\ HasBackup(u)' /\ upd[u].backup \in Versions => upd[u].backup >= past'.best
    BY <1>3, <1>5, <2>7
  <2>9. QED
    BY <1>1, <1>2, <1>3, <1>5, <2>1, <2>2, <2>3, <2>4, <2>5, <2>6, <2>8, ThreadGoes
<1>6. QED
  BY <1>4, <1>5 DEF RestoreBegins

\* The temporary files are removed.
LEMMA TidyKeeps ==
    ASSUME HostInd, NEW u \in Threads, Tidy(u)
    PROVE  HostInd'
<1>1. /\ upd[u].pc = "tidy" /\ files' = [files EXCEPT !.dl = None, !.ext = None] /\ UGoto(u, "installed")
      /\ UNCHANGED <<exe, proc, pid, unit, conf, certs, rows, spent, past>>
  BY DEF Tidy, UAt, UpdOnly
<1>2. Working(u)
  BY <1>1 DEF Working
<1>3. TypeOK /\ files' \in [dl : Contents, ext : Contents, new : Contents]
  BY <1>1 DEF HostInd, TypeOK, Contents
<1>4. "installed" \in UpdaterPCs \ {"idle", "restart", "sudo", "restoring"}
  BY DEF UpdaterPCs
<1>5. ~HasBackup(u)'
  BY <1>1, <1>3, <1>4, UGotoGoes DEF HasBackup, Goes
<1>6. QED
  BY <1>1, <1>2, <1>3, <1>4, <1>5, ThreadMoves

\* The steps of an installation.
LEMMA InstallsKeep ==
    ASSUME HostInd, NEW u \in Threads, InstallUpdate(u)
    PROVE  HostInd'
BY CreateBackupKeeps, ExtractBeginsKeeps, PreparationsKeep, RenameKeeps, SudoBeginsKeeps, SudoInstallKeeps, RestoreBeginsKeeps,
   RestoreBackupKeeps, TidyKeeps DEF InstallUpdate

-----------------------------------------------------------------------------
(* The beginning of an update, and a release.                              *)

\* A thread of connect begins to install what the server offers.  When another
\* thread is at it, the installations overlap.
LEMMA CheckAndUpdateKeeps ==
    ASSUME HostInd, NEW u \in Threads, CheckAndUpdate(u)
    PROVE  HostInd'
<1> USE DEF HostInd
<1> DEFINE h == Home[u]
<1>1. /\ upd[u].pc = "idle" /\ proc[h].pc = "up" /\ VersionInfo(h).available
      /\ upd' = [upd EXCEPT ![u].pc = "download", ![u].want = Wanted(h)]
      /\ past' = [past EXCEPT !.overlap = @ \/ Working2(u)]
      /\ spent' = [spent EXCEPT !.updates = @ + 1]
      /\ UNCHANGED <<exe, files, proc, pid, unit, conf, certs, rows>>
  BY DEF CheckAndUpdate, UAt, At, Asks
<1>2. h \in Procs
  BY HostAssumption
<1>3. proc[h].cmd = "connect"
  BY <1>1, <1>2 DEF CommandsRun, PCsOf, ServicePCs, UpdatePCs, LoginPCs
<1>4. Wanted(h) = Latest /\ Latest \in Versions
  <2>1. RowsInd /\ proc[h].ver # 0
    BY <1>1, <1>2 DEF UpdateInd, Running
  <2>2. QED
    BY <1>1, <1>2, <2>1, Offered
<1>5. Latest \in Nat /\ Latest # 0
  BY <1>4, HostAssumption DEF Versions
<1> HIDE DEF h
<1>6. /\ upd' \in [Threads -> Updaters] /\ upd'[u].pc = "download" /\ upd'[u].want = Latest
      /\ \A w \in Threads : w # u => upd'[w] = upd[w]
  <2>1. upd \in [Threads -> Updaters] /\ "download" \in UpdaterPCs
    BY DEF TypeOK, UpdaterPCs
  <2>2. PICK r : r = [[upd[u] EXCEPT !.pc = "download"] EXCEPT !.want = Latest]
    OBVIOUS
  <2>3. upd' = [upd EXCEPT ![u] = r]
    BY <1>1, <1>4, <2>1, <2>2
  <2>4. r \in Updaters /\ r.pc = "download" /\ r.want = Latest
    BY <1>4, <2>1, <2>2 DEF Updaters
  <2>5. QED
    BY <2>1, <2>3, <2>4
<1>7. /\ past' \in Histories /\ (past'.overlap <=> past.overlap \/ Working2(u))
      /\ past'.torn = past.torn /\ past'.rolled = past.rolled
      /\ past'.unlinked = past.unlinked /\ past'.login = past.login /\ past'.stale = past.stale
      /\ past'.overtaken = past.overtaken /\ past'.best = past.best /\ past'.rolled = past.rolled
  <2>1. past \in Histories
    BY DEF TypeOK
  <2>2. PICK o \in BOOLEAN : o <=> past.overlap \/ Working2(u)
    OBVIOUS
  <2>3. past' = [past EXCEPT !.overlap = o]
    BY <1>1, <2>1, <2>2 DEF Histories
  <2>4. QED
    BY <2>1, <2>2, <2>3 DEF Histories
<1>8. TypeOK' /\ spent'.logins = spent.logins
  <2>1. /\ spent' \in [starts : Nat, commands : Nat, logins : Nat, updates : Nat, releases : Nat]
        /\ spent'.logins = spent.logins
    BY <1>1 DEF TypeOK
  <2>2. QED
    BY <1>1, <1>6, <1>7, <2>1 DEF TypeOK
<1>9. CommandsRun'
  BY <1>1, <1>7 DEF CommandsRun
<1>10. LockKept
  BY <1>1, <1>7 DEF LockKept
<1>11. LoginKept
  BY <1>1, <1>7, <1>8 DEF LoginKept, LoginUnder, LoginInd
<1>12. UpdateInd'
  <2>1. RowsInd' /\ Latest' = Latest
    BY <1>1 DEF UpdateInd, RowsInd, Latest
  <2>2. \A w \in Threads : Working(w)' => w = u \/ Working(w)
    BY <1>6 DEF Working
  <2>3. Hosted(u)'
    BY <1>1, <1>3 DEF Hosted, h
  <2>4. \A w \in Threads : Working(w)' => Hosted(w)'
    BY <1>1, <2>2, <2>3 DEF UpdateInd, Hosted
  <2>5. \A w \in Threads : Asked(w)' => w = u \/ (Asked(w) /\ upd'[w] = upd[w])
    BY <1>1, <1>6, <2>2 DEF Asked, Waiting
  <2>6. \A w \in Threads : Asked(w)' => upd'[w].want # 0
    BY <1>5, <1>6, <2>5 DEF UpdateInd
  <2>7. \A p \in Procs : Running(p)' => proc'[p].ver # 0
    BY <1>1 DEF UpdateInd, Running
  <2>8. ASSUME ~past'.overlap
        PROVE  /\ ExeInd' /\ (~past.rolled => Newest')
               /\ ~past.rolled /\ ~past'.overtaken => Upwards'
    <3>1. /\ ExeInd /\ (~past.rolled => Newest)
          /\ ~past.rolled /\ ~past.overtaken => Upwards
      BY <1>7, <2>8 DEF UpdateInd
    <3>2. \A w \in Threads : ~Working(w)
      BY <1>1, <1>7, <2>8 DEF Working2, Working
    <3>3. \A w \in Threads : upd'[w].pc \in {"idle", "restart", "download"}
      BY <1>6, <3>2 DEF Working
    <3>4. \A w \in Threads : ~Writes(w) /\ ~HasBackup(w)'
      BY <3>2, <3>3 DEF Writes, HasBackup, Working
    <3>5. \A w \in Threads : Working(w)' => w = u
      BY <2>2, <3>2
    <3>6. FilesOf(u)'
      BY <1>6, <3>4 DEF FilesOf
    <3>7. \A p \in Procs : Running(p)' /\ proc'[p].cur => exe' \in Versions
      BY <1>1, <3>1 DEF ExeInd, Running
    <3>8. ExeInd'
      BY <1>1, <1>6, <1>7, <3>1, <3>3, <3>4, <3>5, <3>6, <3>7 DEF ExeInd
    <3>9. ASSUME ~past.rolled
          PROVE  \A w \in Threads : Asked(w)' => upd'[w].want <= Latest /\ (~past.overtaken => upd'[w].want >= past.best)
      <4>1. past.best <= Latest /\ past.best \in Nat
        BY <3>1, <3>9, HostAssumption DEF Newest, TypeOK, Histories, Versions
      <4>2. Latest <= Latest /\ Latest >= past.best
        BY <1>5, <4>1
      <4>3. QED
        BY <1>6, <2>5, <3>1, <3>9, <4>2 DEF Newest, Upwards
    <3>10. ~past.rolled => Newest'
      BY <1>7, <2>1, <3>1, <3>9 DEF Newest
    <3>11. ~past.rolled /\ ~past'.overtaken => Upwards'
      BY <1>1, <1>7, <3>1, <3>4, <3>9 DEF Upwards
    <3>12. QED
      BY <3>8, <3>10, <3>11
  <2>9. QED
    BY <1>7, <2>1, <2>4, <2>6, <2>7, <2>8 DEF UpdateInd
<1>13. QED
  BY <1>8, <1>9, <1>10, <1>11, <1>12, LocksKept, LoginsKept

\* A release on the server.
LEMMA PublishKeeps ==
    ASSUME HostInd, Publish
    PROVE  HostInd'
<1> USE DEF HostInd
<1>1. /\ UNCHANGED <<exe, files, pid, conf, certs, proc, upd, unit>>
      /\ spent' = [spent EXCEPT !.releases = @ + 1]
  BY DEF Publish, HostFiles
<1>2. /\ RowsInd'
      /\ past' \in Histories /\ past'.overlap = past.overlap /\ past'.torn = past.torn
      /\ past'.unlinked = past.unlinked /\ past'.login = past.login /\ past'.stale = past.stale
      /\ past'.overtaken = past.overtaken /\ past'.best = past.best
      /\ past.rolled => past'.rolled
      /\ ~past'.rolled => Latest' >= Latest
  BY RowsPublished DEF UpdateInd
<1>3. /\ spent' \in [starts : Nat, commands : Nat, logins : Nat, updates : Nat, releases : Nat]
      /\ spent'.logins = spent.logins
  BY <1>1 DEF TypeOK
<1>4. TypeOK'
  BY <1>1, <1>2, <1>3 DEF TypeOK, RowsInd, Key
<1>5. CommandsRun'
  BY <1>1 DEF CommandsRun
<1>6. LockKept
  BY <1>1, <1>2 DEF LockKept
<1>7. LoginKept
  BY <1>1, <1>2, <1>3 DEF LoginKept, LoginUnder, LoginInd
<1>8. UpdateInd'
  <2>1. Latest \in Nat /\ Latest' \in Nat /\ past.best \in Nat
        /\ \A u \in Threads : upd[u].want \in Nat
    BY <1>2, HostAssumption DEF UpdateInd, RowsInd, TypeOK, Histories, Versions, Updaters
  <2>2. /\ \A u \in Threads : Working(u)' => Hosted(u)'
        /\ \A u \in Threads : Asked(u)' <=> Asked(u)
        /\ \A p \in Procs : Running(p)' => proc'[p].ver # 0
    BY <1>1 DEF UpdateInd, Working, Hosted, Asked, Waiting, Running
  <2>3. ~past'.overlap /\ ~past'.rolled => Newest'
    <3> SUFFICES ASSUME ~past'.overlap, ~past'.rolled PROVE Newest'
      OBVIOUS
    <3>1. past.best <= Latest /\ \A u \in Threads : Asked(u) => upd[u].want <= Latest
      BY <1>2 DEF UpdateInd, Newest
    <3>2. past.best <= Latest' /\ \A u \in Threads : Asked(u) => upd[u].want <= Latest'
      BY <1>2, <2>1, <3>1
    <3>3. QED
      BY <1>1, <1>2, <2>2, <3>2 DEF Newest
  <2>4. ~past'.overlap => ExeInd'
    <3>1. ExeInd => ExeInd'
      BY <1>1, <1>2 DEF ExeInd, Working, FilesOf, HasBackup, Writes, Running
    <3>2. QED
      BY <1>2, <3>1 DEF UpdateInd
  <2>5. ~past'.overlap /\ ~past'.rolled /\ ~past'.overtaken => Upwards'
    <3>1. Upwards => Upwards'
      BY <1>1, <1>2, <2>2 DEF Upwards, HasBackup
    <3>2. QED
      BY <1>2, <3>1 DEF UpdateInd
  <2>6. \A u \in Threads : Asked(u)' => upd'[u].want # 0
    BY <1>1, <2>2 DEF UpdateInd
  <2>7. QED
    BY <1>2, <2>2, <2>3, <2>4, <2>5, <2>6 DEF UpdateInd
<1>9. QED
  BY <1>4, <1>5, <1>6, <1>7, <1>8, LocksKept, LoginsKept

-----------------------------------------------------------------------------
(* The theorems.                                                           *)

\* The invariant holds when the client is installed.
LEMMA HostBegins == Init => HostInd
<1> SUFFICES ASSUME Init PROVE HostInd
  OBVIOUS
<1> USE DEF Init
<1>1. RowsInd
  BY RowsSeeded
<1>2. /\ proc \in [Procs -> Processes] /\ upd \in [Threads -> Updaters]
      /\ \A p \in Procs : proc[p] = Off
      /\ \A u \in Threads : upd[u] = Idle
  BY OffIsProcess, IdleIsUpdater
<1>3. /\ Off.cmd = "none" /\ Off.pc = "off" /\ Off.lock = 0 /\ Off.fd = 0 /\ Off.cfg.whole
  BY DEF Off
<1>4. "svc" \in Procs /\ "shell" \in Procs
  BY DEF Procs
<1>5. 1 \in Versions /\ 1 \in Contents
  BY HostAssumption DEF Versions, Contents
<1>6. TypeOK
  <2>1. past \in Histories
    BY <1>5 DEF Histories
  <2>2. conf \in Configs
    BY DEF Configs
  <2>3. files \in [dl : Contents, ext : Contents, new : Contents]
    BY DEF Contents
  <2>4. Key \in DOMAIN rows
    BY <1>1 DEF RowsInd
  <2>5. pid \in Nat /\ certs \in [crt : Nat, key : Nat]
        /\ spent \in [starts : Nat, commands : Nat, logins : Nat, updates : Nat, releases : Nat]
    OBVIOUS
  <2>6. QED
    BY <1>2, <1>5, <2>1, <2>2, <2>3, <2>4, <2>5 DEF TypeOK
<1>7. CommandsRun
  BY <1>2, <1>3, <1>4 DEF CommandsRun, PCsOf
<1>8. LockInd
  BY <1>2, <1>3, <1>4 DEF LockInd, At
<1>9. LoginInd
  BY <1>2, <1>3, <1>4 DEF LoginInd, At, LoginUnder
<1>10. UpdateInd
  <2>1. \A u \in Threads : Home[u] \in Procs
    BY HostAssumption
  <2>2. \A u \in Threads : ~Working(u) /\ ~Asked(u) /\ ~HasBackup(u) /\ ~Writes(u)
    BY <1>2, <1>3, <2>1, IdleIsUpdater DEF Working, Asked, Waiting, HasBackup, Writes
  <2>3. \A p \in Procs : ~Running(p)
    BY <1>2, <1>3 DEF Running
  <2>4. ExeInd
    BY <1>2, <1>5, <2>2, <2>3, IdleIsUpdater DEF ExeInd
  <2>5. Newest
    <3>1. Latest \in Versions
      BY <1>1 DEF RowsInd
    <3>2. 1 <= Latest
      BY <3>1, HostAssumption DEF Versions
    <3>3. QED
      BY <2>2, <3>2 DEF Newest
  <2>6. Upwards
    BY <2>2 DEF Upwards
  <2>7. QED
    BY <1>1, <2>2, <2>3, <2>4, <2>5, <2>6 DEF UpdateInd
<1>11. QED
  BY <1>6, <1>7, <1>8, <1>9, <1>10 DEF HostInd

\* Every step keeps it.
LEMMA HostSteps == HostInd /\ [Next]_vars => HostInd'
<1> SUFFICES ASSUME HostInd, [Next]_vars PROVE HostInd'
  OBVIOUS
<1>1. CASE UnitStarts \/ \E cmd \in Commands : UserRuns(cmd)
  BY <1>1, StartsKeep
<1>2. ASSUME NEW p \in Procs,
             Crash(p) \/ ConfigStep(p) \/ LockStep(p) \/ ConnectStep(p) \/ UpdateStep(p) \/ ServiceStep(p)
      PROVE  HostInd'
  BY <1>2, CrashKeeps, ConfigsKeep, LocksKeep, ConnectsKeep, UpdatesKeep, ServicesKeep
<1>3. ASSUME NEW u \in Threads, UpdaterStep(u)
      PROVE  HostInd'
  BY <1>3, CheckAndUpdateKeeps, DownloadsKeep, InstallsKeep, InstalledKeeps, RestoreStateKeeps, StartUnitKeeps DEF UpdaterStep
<1>4. CASE Publish
  BY <1>4, PublishKeeps
<1>5. CASE UNCHANGED vars
  <2>1. UNCHANGED <<exe, files, proc, upd, pid, unit, conf, certs, rows, spent, past>>
    BY <1>5 DEF vars
  <2>2. TypeOK' /\ CommandsRun' /\ LockInd' /\ LoginInd'
    BY <2>1 DEF HostInd, TypeOK, CommandsRun, LockInd, LoginInd, LoginUnder, At, Transient
  <2>3. UpdateKept
    BY <2>1 DEF UpdateKept, HostInd, UpdateInd, Running
  <2>4. QED
    BY <2>2, <2>3, UpdatesKept DEF HostInd
<1>6. QED
  BY <1>1, <1>2, <1>3, <1>4, <1>5 DEF Next

LEMMA HostHolds == Spec => []HostInd
BY HostBegins, HostSteps, PTL DEF Spec

\* The executable is a whole binary unless installations overlapped or a write
\* in place is under way, was cut off by the end of its process, or failed and
\* was not made good; and it is never older than what was once there, unless
\* installations overlapped, a waiting `update' was overtaken or a version
\* earlier than the latest was published.
THEOREM UpdatesAreSafe == Spec => []UpdateIsSafe
<1>1. HostInd => UpdateIsSafe
  <2> SUFFICES ASSUME HostInd PROVE UpdateIsSafe
    OBVIOUS
  <2>1. TypeOK
    BY DEF HostInd
  <2>2. ASSUME ~past.overlap, ~past.torn, ~Writing("svc"), ~Writing("shell")
        PROVE  exe \in Versions
    <3>1. \A u \in Threads : Home[u] \in {"svc", "shell"}
      BY HostAssumption DEF Procs
    <3>2. \A u \in Threads : ~Writes(u)
      BY <2>2, <3>1 DEF Writes, Writing
    <3>3. QED
      BY <2>2, <3>2 DEF HostInd, UpdateInd, ExeInd
  <2>3. NeverDowngraded
    BY DEF NeverDowngraded, HostInd, UpdateInd, Upwards
  <2>4. QED
    BY <2>1, <2>2, <2>3 DEF UpdateIsSafe, ExeWhole
<1>2. QED
  BY <1>1, HostHolds, PTL

\* Two processes hold the singleton lock at once only after a pid file in use
\* was removed.
THEOREM TunnelIsSingle == Spec => []OneTunnel
<1>1. HostInd => OneTunnel
  BY DEF HostInd, LockInd, OneTunnel, At, Transient, Procs
<1>2. QED
  BY <1>1, HostHolds, PTL

\* The configuration and the key pair are complete and belong together unless
\* a writer is at it, was killed at it, failed at it or wrote beside another;
\* the token is the last login's unless a command saved what it had loaded
\* before.
THEOREM LoginsStick == Spec => []LoginSticks
<1>1. HostInd => LoginSticks
  BY DEF HostInd, LoginInd, LoginSticks, LoginUnder, At, Procs
<1>2. QED
  BY <1>1, HostHolds, PTL
=============================================================================
