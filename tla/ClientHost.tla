----------------------------- MODULE ClientHost -----------------------------
(***************************************************************************)
(* A Linux host with the client on it: the systemd unit, which runs         *)
(* `connect`, and a shell, in which a user runs one command after another.  *)
(* They share the executable, the updater's temporary files, the pid file   *)
(* that is locked, the configuration and the certificates, and any of them  *)
(* may be killed between two steps.                                         *)
(***************************************************************************)
EXTENDS ClientVersions

CONSTANTS
    Threads,      \* goroutines that check for updates
    Home,         \* the process of each: "svc" or "shell"
    Commands,     \* what the user may run
    Bad, Part, None,  \* contents of a file that is no whole binary
    MaxVersion,   \* bound: versions ever released
    MaxStarts,    \* bound: starts of the unit's process
    MaxCommands,  \* bound: commands of the user
    MaxUpdates,   \* bound: updates that are begun
    MaxReleases   \* bound: publications of a version

Procs == {"svc", "shell"}
Versions == 1..MaxVersion

ASSUME HostAssumption ==
    /\ MaxVersion \in Nat \ {0}
    /\ Commands \subseteq {"connect", "update", "login", "test-mode", "auto-update", "service"}
    /\ Home \in [Threads -> Procs]
    /\ \E u \in Threads : Home[u] = "shell"      \* the updater of `update'
    /\ {Bad, Part, None} \cap Versions = {}
    /\ Bad # Part /\ Bad # None /\ Part # None

\* What a file holds: a version's binary, an archive or binary that is no
\* good, a part of one, or the file does not exist.
Contents == Versions \cup {Bad, Part, None}

VARIABLES
    exe,      \* the contents of the executable
    files,    \* downloaded archive, extracted binary, .giraffecloud.new
    proc,     \* the processes
    upd,      \* the updater threads
    pid,      \* the inode that the path of the pid file names, or 0
    unit,     \* the systemd unit
    conf,     \* config.json
    certs,    \* the login client.crt and client.key come from
    rows,     \* the server's client_versions table
    spent,    \* starts, commands, logins, updates and releases so far
    past      \* history: what excuses a broken state

vars == <<exe, files, proc, upd, pid, unit, conf, certs, rows, spent, past>>

Off == [cmd |-> "none", pc |-> "off", ver |-> 0, cur |-> FALSE, fd |-> 0, lock |-> 0,
        cfg |-> [token |-> 0, channel |-> "stable", auto |-> TRUE, whole |-> TRUE], todo |-> {}]

\* An updater that has nothing under way, and has made no backup.
Idle == [pc |-> "idle", want |-> 0, backup |-> None]

Key == <<"stable", "all", "all">>

Init ==
    /\ exe = 1
    /\ files = [dl |-> None, ext |-> None, new |-> None]
    /\ proc = [p \in Procs |-> Off]
    /\ upd = [u \in Threads |-> Idle]
    /\ pid = 0
    /\ unit \in {"absent", "active"}
    /\ conf = [token |-> 1, channel |-> "stable", auto |-> TRUE, whole |-> TRUE]
    /\ certs = [crt |-> 1, key |-> 1]
    /\ rows = InitializeDefaultConfigs(<<>>, Semver(1))
    /\ spent = [starts |-> 0, commands |-> 0, logins |-> 1, updates |-> 0, releases |-> 0]
    /\ past = [overlap |-> FALSE, torn |-> FALSE, unlinked |-> FALSE, login |-> FALSE,
               stale |-> FALSE, overtaken |-> FALSE, rolled |-> FALSE, best |-> 1]

-----------------------------------------------------------------------------
(* Processes.                                                              *)

At(p, pc) == proc[p].pc = pc
Running(p) == proc[p].pc # "off"
Goto(p, pc) == proc' = [proc EXCEPT ![p].pc = pc]

\* A thread that is between its check and the end of its installation.
Working(u) == upd[u].pc \notin {"idle", "restart"}

\* The executable was truncated and is not written yet.
Writes(u) == upd[u].pc \in {"restoring", "sudo"} \/ (upd[u].pc = "restore" /\ exe = Part)
Writing(p) == \E u \in Threads : Home[u] = p /\ Writes(u)

\* In os.WriteFile of the configuration, alone or beside the other process.
Saving(p) == proc[p].pc \in {"saving", "mixing"}

\* The process is gone: so are its threads and its lock.  The files stay.
Ended(p) == [past EXCEPT !.torn = @ \/ Writing(p),
                         !.login = @ \/ Saving(p) \/ (proc[p].cmd = "login" /\ proc[p].pc \in {"certs", "save"})]
Gone(p) ==
    /\ proc' = [proc EXCEPT ![p] = Off]
    /\ upd' = [u \in Threads |-> IF Home[u] = p THEN Idle ELSE upd[u]]
Exit(p) == Gone(p) /\ past' = Ended(p)

\* systemctl is-active: not while systemd waits to start the process again.
IsRunning == unit = "active" /\ Running("svc")

HostFiles == <<exe, files, pid, conf, certs>>

\* An executable that is not whole does not start.
Start(p, cmd) ==
    /\ ~Running(p) /\ exe \in Versions
    /\ proc' = [proc EXCEPT ![p] = [Off EXCEPT !.cmd = cmd, !.ver = exe, !.cur = TRUE,
                                    !.pc = IF cmd = "service" THEN "service" ELSE "load"]]
    /\ UNCHANGED <<HostFiles, upd, unit, rows, past>>

\* Restart=always: the unit's process is started again as long as it is active.
UnitStarts ==
    /\ unit = "active" /\ spent.starts < MaxStarts
    /\ Start("svc", "connect")
    /\ spent' = [spent EXCEPT !.starts = @ + 1]

UserRuns(cmd) ==
    /\ spent.commands < MaxCommands
    /\ Start("shell", cmd)
    /\ spent' = [spent EXCEPT !.commands = @ + 1]

\* A crash, a power failure or kill -KILL.
Crash(p) ==
    /\ Running(p)
    /\ Exit(p)
    /\ UNCHANGED <<HostFiles, unit, rows, spent>>

\* SIGTERM cancels the context of `connect`, which then disconnects; before
\* the tunnel is up nothing is there to be released.
Terminated(p) == IF proc[p].pc = "up" THEN [proc[p] EXCEPT !.pc = "release"] ELSE Off

\* systemctl stop or restart: the unit's process gets SIGTERM; the threads
\* that it does not end go on as in `next'.
Signalled(next) ==
    LET over == Terminated("svc") = Off IN
    /\ upd' = [u \in Threads |-> IF Home[u] = "svc" /\ over THEN Idle ELSE next[u]]
    /\ past' = IF Running("svc") /\ over THEN Ended("svc") ELSE past

-----------------------------------------------------------------------------
(* LoadConfig and SaveConfig.  os.WriteFile truncates before it writes.    *)

AfterLoad(p) == CASE proc[p].cmd = "connect" -> "version"
                  [] proc[p].cmd = "update" -> "check"
                  [] proc[p].cmd = "login" -> "fetch"
                  [] OTHER -> "save"

\* connect reads its certificates too: the key must be the certificate's.
Load(p) ==
    /\ At(p, "load")
    /\ IF conf.whole /\ (proc[p].cmd = "connect" => certs.crt = certs.key)
       THEN proc' = [proc EXCEPT ![p].pc = AfterLoad(p), ![p].cfg = conf] /\ UNCHANGED <<upd, past>>
       ELSE Exit(p)
    /\ UNCHANGED <<HostFiles, unit, rows, spent>>

SaveBegins(p) ==
    /\ At(p, "save")
    /\ conf' = [conf EXCEPT !.whole = FALSE]
    /\ IF \E q \in Procs \ {p} : Saving(q)
       THEN /\ proc' = [q \in Procs |-> [proc[q] EXCEPT !.pc = "mixing"]]
            /\ past' = [past EXCEPT !.login = TRUE]
       ELSE Goto(p, "saving") /\ UNCHANGED past
    /\ UNCHANGED <<exe, files, pid, certs, upd, unit, rows, spent>>

\* The bug: login saves what it loaded.
SavedAsLoaded(p) == {proc[p].cfg}

\* test-mode enable and disable set both channels, in one settings block each.
TestMode(cfg) == {[cfg EXCEPT !.channel = c] : c \in {"stable", "test"}}

\* auto-update enable, disable and config: MergeConfig takes the whole block
\* of settings, the channel of the loaded configuration with it.
AutoUpdate(cfg) == {[cfg EXCEPT !.auto = on] : on \in BOOLEAN}

\* What is written is the configuration that was loaded, with the command's
\* change: connect (its domain), login (the token), the settings.
\* MergeConfig keeps the token, the domain and the certificates' paths.
Saved(p) ==
    CASE proc[p].cmd = "login" -> {[proc[p].cfg EXCEPT !.token = spent.logins]}
      [] proc[p].cmd = "test-mode" -> TestMode(proc[p].cfg)
      [] proc[p].cmd = "auto-update" -> AutoUpdate(proc[p].cfg)
      [] OTHER -> {proc[p].cfg}

\* The shorter of two that are written at once leaves the end of the longer.
Save(p) ==
    /\ Saving(p)
    /\ conf' \in Saved(p) \cup {[c EXCEPT !.whole = FALSE] : c \in IF At(p, "mixing") THEN Saved(p) ELSE {}}
    /\ IF proc[p].cmd = "connect" THEN Goto(p, "up") ELSE proc' = [proc EXCEPT ![p] = Off]
    /\ past' = [past EXCEPT !.stale = IF proc[p].cmd = "login" THEN FALSE
                                      ELSE @ \/ proc[p].cfg.token # conf.token]
    /\ UNCHANGED <<exe, files, pid, certs, upd, unit, rows, spent>>

\* connect only warns of a write that fails.  Every other command then exits,
\* which leaves what a crash at that place leaves.
SaveFails(p) ==
    /\ proc[p].cmd = "connect" /\ (At(p, "save") \/ Saving(p))
    /\ Goto(p, "up")
    /\ past' = [past EXCEPT !.login = @ \/ Saving(p)]
    /\ UNCHANGED <<HostFiles, upd, unit, rows, spent>>

\* login: a fresh key and certificate from the server, written one file at a
\* time in the random order of a Go map, then the configuration.
Fetch(p) ==
    /\ At(p, "fetch")
    /\ \/ Exit(p) /\ UNCHANGED spent
       \/ /\ proc' = [proc EXCEPT ![p].pc = "certs", ![p].todo = {"crt", "key"}]
          /\ spent' = [spent EXCEPT !.logins = @ + 1]
          /\ UNCHANGED <<upd, past>>
    /\ UNCHANGED <<HostFiles, unit, rows>>

WriteCert(p) ==
    /\ At(p, "certs")
    /\ \E f \in proc[p].todo :
          /\ certs' = [certs EXCEPT ![f] = spent.logins]
          /\ proc' = [proc EXCEPT ![p].todo = @ \ {f},
                                  ![p].pc = IF proc[p].todo = {f} THEN "save" ELSE "certs"]
    /\ UNCHANGED <<exe, files, pid, conf, upd, unit, rows, spent, past>>

-----------------------------------------------------------------------------
(* connect: the version check, then the singleton lock.                    *)

VersionInfo(p) ==
    GetVersionInfo(rows, Semver(proc[p].ver), ResolveReleaseChannel(conf), "linux", "amd64")

\* A required update ends the process; a server that does not answer does not.
CheckVersion(p) ==
    /\ At(p, "version")
    /\ \/ VersionInfo(p).required /\ Exit(p)
       \/ Goto(p, "clean") /\ UNCHANGED <<upd, past>>
    /\ UNCHANGED <<HostFiles, unit, rows, spent>>

\* flock belongs to the inode, not to the path.
Locked(i) == \E q \in Procs : proc[q].lock = i

Moves(p, pc, fd, lock) == proc' = [proc EXCEPT ![p].pc = pc, ![p].fd = fd, ![p].lock = lock]
LockOnly == UNCHANGED <<exe, files, upd, unit, conf, certs, rows, spent>>

\* CleanupStaleLock: open; lock if nobody has it; unlock; remove the path.
\* connect goes on to its own lock, `service singleton' to a look at it.
AfterClean(p) == IF proc[p].cmd = "service" THEN "probe" ELSE "conflict"

CleanOpen(p) ==
    /\ At(p, "clean")
    /\ IF pid = 0 THEN Goto(p, AfterClean(p)) ELSE Moves(p, "clean_lock", pid, 0)
    /\ UNCHANGED <<pid, past>> /\ LockOnly

CleanLock(p) ==
    /\ At(p, "clean_lock")
    /\ IF Locked(proc[p].fd)
       THEN Moves(p, AfterClean(p), 0, 0)
       ELSE Moves(p, "clean_unlock", proc[p].fd, proc[p].fd)
    /\ UNCHANGED <<pid, past>> /\ LockOnly

CleanUnlock(p) ==
    /\ At(p, "clean_unlock")
    /\ Moves(p, "clean_remove", 0, 0)
    /\ UNCHANGED <<pid, past>> /\ LockOnly

\* The path is removed whatever inode it names by now.
Remove(p) ==
    /\ pid' = 0
    /\ past' = [past EXCEPT !.unlinked = @ \/ \E q \in Procs \ {p} :
                   /\ pid # 0
                   /\ pid = proc[q].lock \/ (pid = proc[q].fd /\ proc[q].pc = "lock")]

CleanRemove(p) ==
    /\ At(p, "clean_remove")
    /\ Remove(p)
    /\ Goto(p, AfterClean(p))
    /\ LockOnly

\* Connect fails.  After an update RestoreState then leaves the process as it
\* is, without a tunnel; connect itself exits.
Restoring(p) == proc[p].todo = {"connect"}
Refused(p) ==
    IF Restoring(p) THEN proc' = [proc EXCEPT ![p].pc = "up", ![p].fd = 0, ![p].todo = {}] /\ UNCHANGED <<upd, past>>
    ELSE Exit(p)

\* The unit's own process skips the question (GIRAFFECLOUD_IS_SERVICE).
CheckServiceConflict(p) ==
    /\ At(p, "conflict")
    /\ IF p = "shell" /\ IsRunning
       THEN Refused(p)
       ELSE Goto(p, "open") /\ UNCHANGED <<upd, past>>
    /\ UNCHANGED <<HostFiles, unit, rows, spent>>

\* A new file gets an inode that no process has open.
Inodes == 1..5
Fresh == CHOOSE i \in Inodes : \A q \in Procs : i \notin {proc[q].fd, proc[q].lock}

AcquireOpen(p) ==
    /\ At(p, "open")
    /\ pid' = IF pid = 0 THEN Fresh ELSE pid
    /\ Moves(p, "lock", pid', 0)
    /\ UNCHANGED past /\ LockOnly

\* The bug: a lock that is held is taken all the same.
AcquireLockAnyway(p) ==
    /\ At(p, "lock")
    /\ Moves(p, "connecting", 0, proc[p].fd)
    /\ UNCHANGED <<HostFiles, upd, unit, rows, spent, past>>

AcquireLock(p) ==
    /\ At(p, "lock")
    /\ IF Locked(proc[p].fd)
       THEN Refused(p)
       ELSE Moves(p, "connecting", 0, proc[p].fd) /\ UNCHANGED <<upd, past>>
    /\ UNCHANGED <<HostFiles, unit, rows, spent>>

\* connectWithRetry; a domain that was given is then saved.  RestoreState has
\* the lock now, whether the connection succeeds or not.
Connected(p) ==
    /\ At(p, "connecting")
    /\ \/ ~Restoring(p) /\ Goto(p, "save") /\ UNCHANGED <<upd, past>>
       \/ proc' = [proc EXCEPT ![p].pc = "up", ![p].todo = {}] /\ UNCHANGED <<upd, past>>
       \/ ~Restoring(p) /\ Exit(p)
    /\ UNCHANGED <<HostFiles, unit, rows, spent>>

\* Ctrl-C or SIGTERM: Disconnect, whose first act is ReleaseLock.  RestoreState
\* calls it too, and goes on.
AfterRelease(p) == IF Restoring(p) THEN "reload" ELSE "closing"

Interrupt(p) ==
    /\ At(p, "up")
    /\ Goto(p, "release")
    /\ UNCHANGED <<HostFiles, upd, unit, rows, spent, past>>

ReleaseLock(p) ==
    /\ At(p, "release")
    /\ IF proc[p].lock = 0 THEN Goto(p, AfterRelease(p)) ELSE Moves(p, "unlink", 0, 0)
    /\ UNCHANGED <<pid, past>> /\ LockOnly

ReleaseRemove(p) ==
    /\ At(p, "unlink")
    /\ Remove(p)
    /\ Goto(p, AfterRelease(p))
    /\ LockOnly

\* RestoreState reads the configuration again, for the server's address only.
Reload(p) ==
    /\ At(p, "reload")
    /\ IF conf.whole THEN Goto(p, "clean") /\ UNCHANGED <<upd, past>> ELSE Refused(p)
    /\ UNCHANGED <<HostFiles, unit, rows, spent>>

Disconnected(p) ==
    /\ At(p, "closing")
    /\ Exit(p)
    /\ UNCHANGED <<HostFiles, unit, rows, spent>>

\* service singleton: IsRunning cleans up and takes the lock for a moment;
\* GetRunningPID does it a second time.
Singleton(p) ==
    /\ At(p, "service")
    /\ Goto(p, "clean")
    /\ UNCHANGED <<HostFiles, upd, unit, rows, spent, past>>

Probed(p) == proc' \in {[proc EXCEPT ![p] = Off], [proc EXCEPT ![p].pc = "clean", ![p].fd = 0, ![p].lock = 0]}

ProbeOpen(p) ==
    /\ At(p, "probe")
    /\ IF pid = 0 THEN Probed(p) ELSE Moves(p, "probe_lock", pid, 0)
    /\ UNCHANGED <<pid, past>> /\ LockOnly

ProbeLock(p) ==
    /\ At(p, "probe_lock")
    /\ IF Locked(proc[p].fd) THEN Probed(p) ELSE Moves(p, "probe_unlock", proc[p].fd, proc[p].fd)
    /\ UNCHANGED <<pid, past>> /\ LockOnly

ProbeUnlock(p) ==
    /\ At(p, "probe_unlock")
    /\ Probed(p)
    /\ UNCHANGED <<pid, past>> /\ LockOnly

-----------------------------------------------------------------------------
(* checkAndUpdate: the on-connect hook and the background loop.  Which of   *)
(* them it is, and the update window, only decide when it happens.          *)

UAt(u, pc) == upd[u].pc = pc
UGoto(u, pc) == upd' = [upd EXCEPT ![u].pc = pc]
UpdOnly == UNCHANGED <<proc, pid, unit, conf, certs, rows, spent>>

\* The update fails.  In `giraffecloud update` the process exits, whatever
\* it did to the unit before.
Ends(u, torn) ==
    /\ IF proc[Home[u]].cmd = "update" THEN Gone(Home[u])
       ELSE upd' = [upd EXCEPT ![u] = Idle] /\ UNCHANGED proc
    /\ past' = [past EXCEPT !.torn = @ \/ torn]
Failed(u) == Ends(u, Writes(u))
FailOnly == UNCHANGED <<pid, unit, conf, certs, rows, spent>>

Working2(u) == \E w \in Threads \ {u} : Working(w)
Wanted(p) == CHOOSE v \in Versions : Semver(v) = VersionInfo(p).latest
Asks(u, p, pc) ==
    /\ VersionInfo(p).available /\ spent.updates < MaxUpdates
    /\ spent' = [spent EXCEPT !.updates = @ + 1]
    /\ upd' = [upd EXCEPT ![u].pc = pc, ![u].want = Wanted(p)]

\* Whether updates are automatic is the setting that connect loaded.
\* RequiredOnly is another setting.
CheckAndUpdate(u) ==
    LET p == Home[u] IN
    /\ UAt(u, "idle") /\ At(p, "up") /\ proc[p].cfg.auto
    /\ Asks(u, p, "download")
    /\ past' = [past EXCEPT !.overlap = @ \/ Working2(u)]
    /\ UNCHANGED <<exe, files, proc, pid, unit, conf, certs, rows>>

\* A file that another thread is writing too may end up as a mixture.
Written(u, f, c) ==
    IF \E w \in Threads \ {u} : Working(w) THEN {[files EXCEPT ![f] = c], [files EXCEPT ![f] = Part]}
    ELSE {[files EXCEPT ![f] = c]}

DownloadBegins(u) ==
    /\ UAt(u, "download")
    /\ \/ /\ files' = [files EXCEPT !.dl = Part]
          /\ UGoto(u, "downloading")
          /\ UNCHANGED <<proc, past>>
       \/ Failed(u) /\ UNCHANGED files
    /\ UNCHANGED exe /\ FailOnly

\* A body that is cut short is an error; one that is wrong is not.
Download(u) ==
    /\ UAt(u, "downloading")
    /\ \/ /\ \E c \in {upd[u].want, Bad} : files' \in Written(u, "dl", c)
          /\ UGoto(u, "checksum")
          /\ UNCHANGED <<proc, past>>
       \/ Failed(u) /\ UNCHANGED files
    /\ UNCHANGED exe /\ FailOnly

\* Checksums that cannot be downloaded are a warning.
VerifyChecksum(u) ==
    /\ UAt(u, "checksum")
    /\ \/ UGoto(u, "backup") /\ UNCHANGED <<proc, past>>
       \/ files.dl # upd[u].want /\ Failed(u)
    /\ UNCHANGED <<exe, files>> /\ FailOnly

\* The bug: a backup that is there already is kept.
CreateBackupOnce(u) ==
    /\ UAt(u, "backup")
    /\ upd' = [upd EXCEPT ![u].pc = "extract", ![u].backup = 1]
    /\ UNCHANGED <<exe, files, past>> /\ UpdOnly

CreateBackup(u) ==
    /\ UAt(u, "backup")
    /\ \/ upd' = [upd EXCEPT ![u].pc = "extract", ![u].backup = exe] /\ UNCHANGED <<proc, past>>
       \/ Failed(u)
    /\ UNCHANGED <<exe, files>> /\ FailOnly

ExtractBegins(u) ==
    /\ UAt(u, "extract")
    /\ \/ /\ files' = [files EXCEPT !.ext = Part]
          /\ UGoto(u, "extracting")
          /\ UNCHANGED <<proc, past>>
       \/ Failed(u) /\ UNCHANGED files
    /\ UNCHANGED exe /\ FailOnly

ExtractArchive(u) ==
    /\ UAt(u, "extracting")
    /\ \/ /\ files.dl \in Versions \cup {Bad}
          /\ files' \in Written(u, "ext", files.dl)
          /\ UGoto(u, "verify")
       \/ /\ files.dl \notin Versions
          /\ UGoto(u, "restore") /\ UNCHANGED files
    /\ UNCHANGED <<exe, past>> /\ UpdOnly

\* The bug: the new binary is not run before it is installed.
VerifyNothing(u) ==
    /\ UAt(u, "verify")
    /\ UGoto(u, "stage")
    /\ UNCHANGED <<exe, files, past>> /\ UpdOnly

\* findExecutable and verifyNewBinary, which runs it.
VerifyNewBinary(u) ==
    /\ UAt(u, "verify")
    /\ UGoto(u, IF files.ext \in Versions THEN "stage" ELSE "restore")
    /\ UNCHANGED <<exe, files, past>> /\ UpdOnly

\* The path names another inode now: no process runs from it.
Replaced == proc' = [p \in Procs |-> [proc[p] EXCEPT !.cur = FALSE]]
ReplaceOnly == UNCHANGED <<pid, unit, conf, certs, rows, spent>>

\* `update' has asked for the latest version and not begun to install it: it
\* waits for its user's answer and for the other processes to be gone.
Waiting(p) == proc[p].pc \in {"stop", "stopping"}
Reached(c) == past' = [past EXCEPT !.best = IF c \in Versions /\ c > @ THEN c ELSE @,
                                   !.overtaken = @ \/ \E p \in Procs : Waiting(p)]

\* replaceExecutable: a copy beside the executable, then an atomic rename.
StageBegins(u) ==
    /\ UAt(u, "stage")
    /\ \/ /\ files' = [files EXCEPT !.new = Part]
          /\ UGoto(u, "staging")
       \/ /\ UGoto(u, IF Home[u] = "shell" THEN "sudo_begin" ELSE "restore")
          /\ UNCHANGED files
    /\ UNCHANGED <<exe, past>> /\ UpdOnly

Stage(u) ==
    /\ UAt(u, "staging")
    /\ \/ files' \in Written(u, "new", files.ext) /\ UGoto(u, "rename")
       \/ UGoto(u, "restore") /\ UNCHANGED files
    /\ UNCHANGED <<exe, past>> /\ UpdOnly

Rename(u) ==
    /\ UAt(u, "rename")
    /\ \/ /\ files.new # None
          /\ exe' = files.new
          /\ Replaced /\ Reached(files.new)
          /\ UGoto(u, "tidy")
       \/ /\ UGoto(u, "restore") \/ (Home[u] = "shell" /\ UGoto(u, "sudo_begin"))
          /\ UNCHANGED <<exe, proc, past>>
    /\ files' = [files EXCEPT !.new = None]
    /\ ReplaceOnly

\* `sudo install` of the extracted binary: the target is unlinked and written.
SudoBegins(u) ==
    /\ UAt(u, "sudo_begin")
    /\ \/ /\ exe' = Part
          /\ Replaced
          /\ UGoto(u, "sudo")
       \/ UGoto(u, "restore") /\ UNCHANGED <<exe, proc>>     \* no password
    /\ UNCHANGED <<files, past>> /\ ReplaceOnly

SudoInstall(u) ==
    /\ UAt(u, "sudo")
    /\ \/ /\ exe' = files.ext
          /\ Reached(files.ext)
          /\ UGoto(u, "tidy")
       \/ UGoto(u, "restore") /\ UNCHANGED <<exe, past>>
    /\ UNCHANGED files /\ UpdOnly

\* restoreBackup truncates and writes in place: the kernel refuses while the
\* inode runs.  Without the permission it is `sudo install' again.
Busy == \E p \in Procs : Running(p) /\ proc[p].cur

RestoreBegins(u) ==
    /\ UAt(u, "restore")
    /\ \/ /\ \/ ~Busy /\ UNCHANGED proc
             \/ Home[u] = "shell" /\ Replaced
          /\ exe' = Part
          /\ UGoto(u, "restoring")
          /\ UNCHANGED past
       \/ Failed(u) /\ UNCHANGED exe
    /\ UNCHANGED files /\ FailOnly

\* It may fail half-way, which is logged and no more.
RestoreBackup(u) ==
    /\ UAt(u, "restoring")
    /\ \/ exe' = upd[u].backup /\ Ends(u, FALSE)
       \/ Failed(u) /\ UNCHANGED exe
    /\ UNCHANGED files /\ FailOnly

Tidy(u) ==
    /\ UAt(u, "tidy")
    /\ files' = [files EXCEPT !.dl = None, !.ext = None]
    /\ UGoto(u, "installed")
    /\ UNCHANGED <<exe, past>> /\ UpdOnly

\* performUpdate ends: the unit is restarted when it is active (a detached
\* `systemctl restart`).  Otherwise the old version goes on running.
Installed(u) ==
    LET p == Home[u] IN
    /\ UAt(u, "installed") /\ proc[p].cmd = "connect"
    /\ \/ /\ IsRunning
          /\ proc' = [proc EXCEPT !["svc"] = Terminated("svc")]
          /\ Signalled([upd EXCEPT ![u].pc = "restart"])
       \/ /\ UGoto(u, "restart")
          /\ UNCHANGED <<proc, past>>
    /\ UNCHANGED <<HostFiles, unit, rows, spent>>

\* Then RestoreState takes the tunnel down and up again, if its state was
\* preserved, is not too old, and the process is still there.
RestoreState(u) ==
    LET p == Home[u] IN
    /\ UAt(u, "restart") /\ proc[p].cmd = "connect"
    /\ upd' = [upd EXCEPT ![u] = Idle]
    /\ \/ At(p, "up") /\ proc' = [proc EXCEPT ![p].pc = "release", ![p].todo = {"connect"}]
       \/ UNCHANGED proc
    /\ UNCHANGED <<HostFiles, unit, rows, spent, past>>

-----------------------------------------------------------------------------
(* giraffecloud update.                                                    *)

Own(p) == CHOOSE u \in Threads : Home[u] = p

CheckForUpdates(p) ==
    /\ At(p, "check")
    /\ \/ /\ Asks(Own(p), p, "idle")
          /\ Goto(p, "stop")
          /\ UNCHANGED past
       \/ Exit(p) /\ UNCHANGED spent    \* none, the check failed, or the user says no
    /\ UNCHANGED <<HostFiles, unit, rows>>

\* `systemctl stop` returns when the unit's process is gone; it may fail.
StopUnit(p) ==
    /\ At(p, "stop")
    /\ \/ /\ IsRunning
          /\ unit' = "halted"
          /\ proc' = [proc EXCEPT ![p].pc = "stopping", !["svc"] = Terminated("svc")]
          /\ Signalled(upd)
       \/ Goto(p, "stopping") /\ UNCHANGED <<unit, upd, past>>
    /\ UNCHANGED <<HostFiles, rows, spent>>

\* Every other process of that name gets SIGTERM, then SIGKILL; a unit that
\* is still active starts its process again.  Without pgrep, or the right to
\* kill it, the other process goes on.
KillOthers(p) ==
    /\ At(p, "stopping")
    /\ unit = "halted" => ~Running("svc")
    /\ \/ /\ proc' = [proc EXCEPT ![p].pc = "updating", !["svc"] = Off]
          /\ upd' = [u \in Threads |-> CASE u = Own(p) -> [upd[u] EXCEPT !.pc = "download"]
                                        [] Home[u] = "svc" -> Idle
                                        [] OTHER -> upd[u]]
          /\ past' = IF Running("svc") THEN Ended("svc") ELSE past
       \/ /\ Goto(p, "updating")
          /\ UGoto(Own(p), "download")
          /\ past' = [past EXCEPT !.overlap = @ \/ Working2(Own(p))]
    /\ UNCHANGED <<HostFiles, unit, rows, spent>>

\* The unit is started whenever it is not active, running before or not; a
\* start that fails is only logged.
StartUnit(u) ==
    LET p == Home[u] IN
    /\ UAt(u, "installed") /\ proc[p].cmd = "update"
    /\ unit' = unit \/ (unit # "absent" /\ unit' = "active")
    /\ upd' = [upd EXCEPT ![u] = Idle]
    /\ proc' = [proc EXCEPT ![p] = Off]
    /\ UNCHANGED <<HostFiles, rows, spent, past>>

-----------------------------------------------------------------------------
(* giraffecloud service.  Each command is several calls of systemctl, of    *)
(* which one may fail: the unit is then left installed and not active.      *)

UnitCommand(p, left) ==
    /\ At(p, "service")
    /\ unit' \in left \cup {unit}
    /\ proc' = [proc EXCEPT ![p] = Off, !["svc"] = IF unit' = "active" THEN @ ELSE Terminated("svc")]
    /\ IF unit' = "active" THEN UNCHANGED <<upd, past>> ELSE Signalled(upd)
    /\ UNCHANGED <<HostFiles, rows, spent>>

Install(p) == UnitCommand(p, {"active", "stopped"})
Uninstall(p) == unit # "absent" /\ UnitCommand(p, {"absent", "stopped"})
StartService(p) == unit # "absent" /\ UnitCommand(p, {"active"})
StopService(p) == unit # "absent" /\ UnitCommand(p, {"stopped"})
RestartService(p) ==
    /\ At(p, "service") /\ unit # "absent"
    /\ unit' = "active"
    /\ proc' = [proc EXCEPT ![p] = Off, !["svc"] = Terminated("svc")]
    /\ Signalled(upd)
    /\ UNCHANGED <<HostFiles, rows, spent>>

\* An administrator publishes a version, as a required update or not.  Nothing
\* keeps it from being earlier than the one before.
Publish ==
    /\ spent.releases < MaxReleases
    /\ spent' = [spent EXCEPT !.releases = @ + 1]
    /\ \E v \in Versions, required \in BOOLEAN :
          /\ past' = [past EXCEPT !.rolled = @ \/ IsUpdateAvailable(Semver(v), rows[Key].latest)]
          /\ rows' = UpdateClientVersionConfig(rows, Key,
                         [latest |-> Semver(v), force |-> required,
                          minimum |-> IF required THEN Semver(v) ELSE NoMinimum])
    /\ UNCHANGED <<HostFiles, proc, upd, unit>>

-----------------------------------------------------------------------------
ConfigStep(p) == Load(p) \/ SaveBegins(p) \/ Save(p) \/ SaveFails(p) \/ Fetch(p) \/ WriteCert(p)
LockStep(p) ==
    \/ CleanOpen(p) \/ CleanLock(p) \/ CleanUnlock(p) \/ CleanRemove(p)
    \/ CheckServiceConflict(p) \/ AcquireOpen(p) \/ AcquireLock(p)
    \/ ReleaseLock(p) \/ ReleaseRemove(p)
    \/ Singleton(p) \/ ProbeOpen(p) \/ ProbeLock(p) \/ ProbeUnlock(p)
ConnectStep(p) == CheckVersion(p) \/ Connected(p) \/ Interrupt(p) \/ Disconnected(p) \/ Reload(p)
UpdateStep(p) == CheckForUpdates(p) \/ StopUnit(p) \/ KillOthers(p)
ServiceStep(p) == Install(p) \/ Uninstall(p) \/ StartService(p) \/ StopService(p) \/ RestartService(p)
DownloadUpdate(u) == DownloadBegins(u) \/ Download(u) \/ VerifyChecksum(u)
InstallUpdate(u) ==
    \/ CreateBackup(u) \/ ExtractBegins(u) \/ ExtractArchive(u) \/ VerifyNewBinary(u)
    \/ StageBegins(u) \/ Stage(u) \/ Rename(u) \/ SudoBegins(u) \/ SudoInstall(u)
    \/ RestoreBegins(u) \/ RestoreBackup(u) \/ Tidy(u)
UpdaterStep(u) ==
    CheckAndUpdate(u) \/ DownloadUpdate(u) \/ InstallUpdate(u) \/ Installed(u) \/ RestoreState(u) \/ StartUnit(u)

Next ==
    \/ UnitStarts
    \/ \E cmd \in Commands : UserRuns(cmd)
    \/ \E p \in Procs : Crash(p) \/ ConfigStep(p) \/ LockStep(p) \/ ConnectStep(p) \/ UpdateStep(p) \/ ServiceStep(p)
    \/ \E u \in Threads : UpdaterStep(u)
    \/ Publish

Spec == Init /\ [][Next]_vars

-----------------------------------------------------------------------------
ConnectPCs == {"load", "version", "clean", "clean_lock", "clean_unlock", "clean_remove", "conflict", "open", "lock",
               "connecting", "save", "saving", "mixing", "up", "release", "unlink", "reload", "closing"}
UpdatePCs == {"load", "check", "stop", "stopping", "updating"}
LoginPCs == {"load", "fetch", "certs", "save", "saving", "mixing"}
ServicePCs == {"service", "clean", "clean_lock", "clean_unlock", "clean_remove", "probe", "probe_lock", "probe_unlock"}
PCs == ConnectPCs \cup UpdatePCs \cup LoginPCs \cup ServicePCs \cup {"off"}
UpdaterPCs == {"idle", "download", "downloading", "checksum", "backup", "extract", "extracting", "verify", "stage",
               "staging", "rename", "sudo_begin", "sudo", "restore", "restoring", "tidy", "installed", "restart"}

Configs == [token : Nat, channel : {"stable", "test"}, auto : BOOLEAN, whole : BOOLEAN]
Processes == [cmd : Commands \cup {"none", "connect"}, pc : PCs, ver : Versions \cup {0}, cur : BOOLEAN,
              fd : Nat, lock : Nat, cfg : Configs, todo : SUBSET {"crt", "key", "connect"}]
Updaters == [pc : UpdaterPCs, want : Versions \cup {0}, backup : Contents]
Histories == [overlap : BOOLEAN, torn : BOOLEAN, unlinked : BOOLEAN, login : BOOLEAN, stale : BOOLEAN,
              overtaken : BOOLEAN, rolled : BOOLEAN, best : Versions]

TypeOK ==
    /\ exe \in Contents
    /\ files \in [dl : Contents, ext : Contents, new : Contents]
    /\ proc \in [Procs -> Processes]
    /\ upd \in [Threads -> Updaters]
    /\ pid \in Nat
    /\ unit \in {"absent", "active", "stopped", "halted"}
    /\ conf \in Configs
    /\ certs \in [crt : Nat, key : Nat]
    /\ Key \in DOMAIN rows
    /\ spent \in [starts : Nat, commands : Nat, logins : Nat, updates : Nat, releases : Nat]
    /\ past \in Histories

\* The executable is a whole binary of some version at every moment, crashes
\* included, unless two threads were installing at once, or a write in place (a
\* restore or a `sudo install`) is under way, was killed half-way, or failed
\* half-way and was not made good by the restore that follows it.
ExeWhole ==
    /\ TypeOK
    /\ ~past.overlap /\ ~past.torn /\ ~Writing("svc") /\ ~Writing("shell")
       => exe \in Versions

\* Without overlapping installations the version on disk never goes back,
\* although threads compare with the version that runs, not the one on disk,
\* and a failed installation restores the backup it made.  But `update'
\* installs the version it asked for first: another thread may have installed
\* a later one while it waited.  And an administrator may publish an earlier
\* one.
NeverDowngraded ==
    ~past.overlap /\ ~past.overtaken /\ ~past.rolled /\ exe \in Versions => exe >= past.best

\* What an update leaves can be started and is no older than what was there,
\* whichever download, check, copy, rename or process fails: only a write in
\* place that is cut short can break it.
UpdateIsSafe == ExeWhole /\ NeverDowngraded

\* Not the lock of a tunnel: it is taken to find out whether there is one.
Transient(p) == proc[p].pc \in {"clean_unlock", "probe_unlock"}

\* Two processes hold the singleton lock at once only after one of them
\* removed a pid file that the other had locked or was about to lock.
OneTunnel ==
    (\A p \in Procs : proc[p].lock # 0 /\ ~Transient(p)) => past.unlinked

\* "Start service again if it was running": `update` starts no unit that had
\* been stopped before it.
StartsWhatRan ==
    [][unit = "stopped" /\ unit' = "active" => proc["shell"].cmd # "update"]_vars

\* config.json and the key pair are complete and belong together, unless a
\* writer is at it, or one was killed at it, failed at it or wrote beside
\* another; and the token is the last login's, unless a command saved a
\* configuration it had loaded before that login.
LoginSticks ==
    (\A p \in Procs : proc[p].pc \notin {"certs", "save", "saving", "mixing"}) /\ ~past.login
    => /\ conf.whole /\ certs.crt = certs.key
       /\ conf.token = certs.key \/ past.stale

-----------------------------------------------------------------------------
(* The invariants above, strengthened until every step keeps them.         *)

PCsOf(cmd) ==
    CASE cmd = "none" -> {"off"}
      [] cmd = "connect" -> ConnectPCs
      [] cmd = "update" -> UpdatePCs
      [] cmd = "login" -> LoginPCs
      [] cmd = "service" -> ServicePCs
      [] OTHER -> {"load", "save", "saving", "mixing"}

\* A process is where its command can be; the unit only runs connect.
CommandsRun ==
    /\ \A p \in Procs : proc[p].pc \in PCsOf(proc[p].cmd)
    /\ proc["svc"].cmd \in {"none", "connect"}

\* Until a pid file in use was removed, its path names the inode that is
\* locked, or is about to be.  No inode is locked twice.
LockInd ==
    /\ \A p \in Procs :
          /\ proc[p].pc \in {"clean_remove", "unlink"} => proc[p].lock = 0
          /\ At(p, "lock") => proc[p].fd # 0 /\ (past.unlinked \/ proc[p].fd = pid)
          /\ proc[p].lock # 0 /\ ~Transient(p) => past.unlinked \/ proc[p].lock = pid
    /\ proc["svc"].lock = proc["shell"].lock => proc["svc"].lock = 0

\* login has written its certificates, or is at it.
LoginUnder == proc["shell"].cmd = "login" /\ proc["shell"].pc \in {"certs", "save", "saving", "mixing"}

LoginInd ==
    /\ \A p \in Procs : proc[p].cfg.whole
    /\ past.login \/ conf.whole \/ \E p \in Procs : At(p, "saving")
    /\ past.login \/ \A p \in Procs : ~At(p, "mixing")
    /\ past.login \/ certs.crt = certs.key \/ At("shell", "certs")
    /\ At("shell", "certs") => /\ proc["shell"].todo # {}
                              /\ \A f \in {"crt", "key"} \ proc["shell"].todo : certs[f] = spent.logins
    /\ LoginUnder /\ ~At("shell", "certs") => certs.crt = spent.logins /\ certs.key = spent.logins
    /\ past.login \/ past.stale \/ conf.token = certs.key \/ LoginUnder

\* What the server offers: the latest stable release; the test row stays.
Latest == rows[Key].latest.parts[1]
TestKey == <<"test", "all", "all">>
RowsInd ==
    /\ DOMAIN rows = {Key, TestKey}
    /\ \A k \in DOMAIN rows : DOMAIN rows[k] = ClientVersionColumns
    /\ Latest \in Versions /\ rows[Key].latest = Semver(Latest)
    /\ rows[TestKey].latest = Semver(1)

\* A thread works in a process that is connected, or is `update's own.
Hosted(u) ==
    LET q == proc[Home[u]] IN
    \/ q.cmd = "connect"
    \/ q.cmd = "update" /\ q.pc = "updating" /\ u = Own("shell")

HasBackup(u) == upd[u].pc \in {"extract", "extracting", "verify", "stage", "staging", "rename",
                               "sudo_begin", "sudo", "restore", "restoring"}

\* What the only thread that works finds in the files, where it is.
FilesOf(u) ==
    /\ upd[u].pc \in {"checksum", "backup", "extract", "extracting"} => files.dl \in {upd[u].want, Bad}
    /\ upd[u].pc = "verify" => files.ext \in {upd[u].want, Bad}
    /\ upd[u].pc \in {"stage", "staging", "rename", "sudo_begin", "sudo"} => files.ext = upd[u].want
    /\ upd[u].pc = "rename" => files.new = upd[u].want
    /\ HasBackup(u) => upd[u].backup \in Versions \/ (past.torn /\ upd[u].backup = Part)

\* The executable while no two installations overlapped.
ExeInd ==
    /\ \A u, w \in Threads : Working(u) /\ Working(w) => u = w
    /\ \A u \in Threads : Working(u) => FilesOf(u)
    /\ \A u \in Threads : upd[u].pc \in {"restoring", "sudo"} => exe = Part
    /\ \A p \in Procs : Running(p) /\ proc[p].cur => exe \in Versions
    /\ exe \in Versions \/ (exe = Part /\ (past.torn \/ \E u \in Threads : Writes(u)))

\* A version some thread has asked for and may install.
Asked(u) == Working(u) \/ (Waiting(Home[u]) /\ u = Own("shell"))
Newest ==
    /\ past.best <= Latest
    /\ \A u \in Threads : Asked(u) => upd[u].want <= Latest

\* Nothing that may become the executable is older than what it once was.
Upwards ==
    /\ exe \in Versions => exe >= past.best
    /\ \A u \in Threads : Asked(u) => upd[u].want >= past.best
    /\ \A u \in Threads : HasBackup(u) /\ upd[u].backup \in Versions => upd[u].backup >= past.best

UpdateInd ==
    /\ RowsInd
    /\ \A p \in Procs : Running(p) => proc[p].ver # 0
    /\ \A u \in Threads : Working(u) => Hosted(u)
    /\ \A u \in Threads : Asked(u) => upd[u].want # 0
    /\ ~past.overlap => ExeInd
    /\ ~past.overlap /\ ~past.rolled => Newest
    /\ ~past.overlap /\ ~past.rolled /\ ~past.overtaken => Upwards

HostInd == TypeOK /\ CommandsRun /\ LockInd /\ LoginInd /\ UpdateInd
=============================================================================
