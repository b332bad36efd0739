-------------------------- MODULE GRPCTunnelClient --------------------------
(***************************************************************************)
(* The client's end of the gRPC tunnel (GRPCTunnelClient): Start, Stop and *)
(* IsConnected, which callers may run at once; the goroutine that reads    *)
(* the stream and, when it breaks, becomes the goroutine that reconnects;  *)
(* and the goroutines that answer uploads on whatever c.stream is by then. *)
(*                                                                         *)
(* c.mu is held through connect() and through the whole loop of reconnect, *)
(* so who holds it, mu[c], is state.  `stopping' stands for the flag, the  *)
(* closed stopChan and the cancelled context, which Stop changes together. *)
(* The metrics are left out, and so is MaxReconnectAttempts, -1 (no limit) *)
(* in the only configuration a client is ever made with.                   *)
(***************************************************************************)
EXTENDS Naturals, FiniteSets

CONSTANTS
    Clients,     \* GRPCTunnelClient objects
    Callers,     \* goroutines that call Start, Stop and IsConnected
    Uploads,     \* request ids of streamed uploads
    NoOne,       \* nobody holds c.mu; no client
    MaxFailures, \* consecutive failures that open the circuit breaker (10)
    MaxFaults    \* bound: changes of the environment

Threads == {"t1", "t2"}

ASSUME ClientAssumption ==
    /\ Callers \cap Threads = {}
    /\ NoOne \notin Callers \cup Threads \cup Clients
    /\ MaxFailures \in Nat \ {0}
    /\ MaxFaults \in Nat

VARIABLES
    connected,  \* c.connected
    stopping,   \* c.stopping, stopChan closed, context cancelled
    mu,         \* who holds c.mu
    phase,      \* how far the connect() of the holder is, or how it ended
    stream,     \* c.stream: nil, live, or dead (closed or broken)
    thread,     \* goroutines of c: reading the stream, or reconnecting
    fails,      \* consecutiveFailures
    call,       \* what each caller is doing
    upload,     \* goroutine of each upload
    world,      \* server, certificates and account, as they are now
    faults,     \* changes of the environment so far
    panic       \* a method was called on the nil c.stream

lockVars == <<connected, stopping, mu, phase, stream, fails>>
envVars == <<world, faults>>
vars == <<lockVars, thread, call, upload, envVars, panic>>

Results == {"ok", "fatal", "auth", "fail"}
Phases == {"none", "config", "dial", "handshake", "control"} \cup Results

Reading == {"recv", "serve", "err", "check"}
Reconnecting == {"relock", "loop", "connect", "wait", "break"}
UploadStates == {"none", "local", "body", "chunk", "error", "errsend", "done"}

CallStates ==
    [op : {"none", "start", "stop", "isconn"},
     client : Clients \cup {NoOne},
     at : {"lock", "connect", "done"},
     res : {"none", "yes", "no", "already"} \cup Results]

NoCall == [op |-> "none", client |-> NoOne, at |-> "done", res |-> "none"]

TypeOK ==
    /\ connected \in [Clients -> BOOLEAN]
    /\ stopping \in [Clients -> BOOLEAN]
    /\ mu \in [Clients -> Callers \cup Threads \cup {NoOne}]
    /\ phase \in [Clients -> Phases]
    /\ stream \in [Clients -> {"nil", "live", "dead"}]
    /\ thread \in [Clients -> [Threads -> Reading \cup Reconnecting \cup {"idle"}]]
    /\ fails \in [Clients -> 0..MaxFailures]
    /\ call \in [Callers -> CallStates]
    /\ \A p \in Callers : call[p].at # "done" => call[p].client \in Clients
    /\ upload \in [Clients -> [Uploads -> UploadStates]]
    /\ world \in [server : {"up", "hung", "down"}, certs : BOOLEAN, account : BOOLEAN]
    /\ faults \in 0..MaxFaults
    /\ panic \in BOOLEAN

Init ==
    /\ connected = [c \in Clients |-> FALSE]
    /\ stopping = [c \in Clients |-> FALSE]
    /\ mu = [c \in Clients |-> NoOne]
    /\ phase = [c \in Clients |-> "none"]
    /\ stream = [c \in Clients |-> "nil"]
    /\ thread = [c \in Clients |-> [t \in Threads |-> "idle"]]
    /\ fails = [c \in Clients |-> 0]
    /\ call = [p \in Callers |-> NoCall]
    /\ upload = [c \in Clients |-> [u \in Uploads |-> "none"]]
    /\ world = [server |-> "up", certs |-> TRUE, account |-> TRUE]
    /\ faults = 0
    /\ panic = FALSE

-----------------------------------------------------------------------------
(* Callers.                                                                *)

Call(p, op, c) ==
    /\ call[p].at = "done"
    /\ call' = [call EXCEPT ![p] = [op |-> op, client |-> c, at |-> "lock", res |-> "none"]]
    /\ UNCHANGED <<lockVars, thread, upload, envVars, panic>>

Return(p, res) == call' = [call EXCEPT ![p] = [NoCall EXCEPT !.res = res]]

\* Mutant: Start does not look whether the client is connected.
StartLockedAnyway(p) ==
    LET c == call[p].client IN
    /\ call[p].op = "start" /\ call[p].at = "lock"
    /\ mu[c] = NoOne
    /\ mu' = [mu EXCEPT ![c] = p]
    /\ phase' = [phase EXCEPT ![c] = "config"]
    /\ call' = [call EXCEPT ![p].at = "connect"]
    /\ UNCHANGED <<connected, stopping, stream, fails, thread, upload, envVars, panic>>

\* Start takes c.mu and refuses a client that is connected; c.connecting is
\* only set while c.mu is held, so nobody ever sees it set.
StartLocked(p) ==
    LET c == call[p].client IN
    /\ call[p].op = "start" /\ call[p].at = "lock"
    /\ mu[c] = NoOne
    /\ \/ /\ connected[c]
          /\ Return(p, "already")
          /\ UNCHANGED <<mu, phase>>
       \/ /\ ~connected[c]
          /\ mu' = [mu EXCEPT ![c] = p]
          /\ phase' = [phase EXCEPT ![c] = "config"]
          /\ call' = [call EXCEPT ![p].at = "connect"]
    /\ UNCHANGED <<connected, stopping, stream, fails, thread, upload, envVars, panic>>

\* A goroutine that is not running: which one makes no difference.
NewReader(c) ==
    LET idle == {t \in Threads : thread[c][t] = "idle"} IN
    /\ idle # {}
    /\ thread' = [thread EXCEPT ![c][CHOOSE t \in idle : TRUE] = "recv"]

\* Mutant: a failed Start returns without unlocking c.mu.
StartDoneLocked(p) ==
    LET c == call[p].client IN
    /\ call[p].at = "connect" /\ mu[c] = p
    /\ phase[c] \in Results
    /\ connected' = [connected EXCEPT ![c] = phase[c] = "ok"]
    /\ IF phase[c] = "ok" THEN NewReader(c) ELSE UNCHANGED thread
    /\ mu' = [mu EXCEPT ![c] = IF phase[c] = "ok" THEN NoOne ELSE p]
    /\ phase' = [phase EXCEPT ![c] = "none"]
    /\ Return(p, phase[c])
    /\ UNCHANGED <<stopping, stream, fails, upload, envVars, panic>>

\* After connect: a success starts the goroutine that reads the stream.
StartDone(p) ==
    LET c == call[p].client IN
    /\ call[p].at = "connect" /\ mu[c] = p
    /\ phase[c] \in Results
    /\ connected' = [connected EXCEPT ![c] = phase[c] = "ok"]
    /\ \/ /\ phase[c] = "ok"
          /\ NewReader(c)
       \/ phase[c] # "ok" /\ UNCHANGED thread
    /\ mu' = [mu EXCEPT ![c] = NoOne]
    /\ phase' = [phase EXCEPT ![c] = "none"]
    /\ Return(p, phase[c])
    /\ UNCHANGED <<stopping, stream, fails, upload, envVars, panic>>

\* The stream that CloseSend and conn.Close leave behind.
Closed(c) == IF stream[c] = "nil" THEN "nil" ELSE "dead"

Stop(p) ==
    LET c == call[p].client IN
    /\ call[p].op = "stop" /\ call[p].at = "lock"
    /\ mu[c] = NoOne
    /\ \/ /\ connected[c]
          /\ stopping' = [stopping EXCEPT ![c] = TRUE]
          /\ stream' = [stream EXCEPT ![c] = Closed(c)]
          /\ connected' = [connected EXCEPT ![c] = FALSE]
       \/ ~connected[c] /\ UNCHANGED <<stopping, stream, connected>>
    /\ Return(p, "ok")
    /\ UNCHANGED <<mu, phase, fails, thread, upload, envVars, panic>>

IsConnected(p) ==
    LET c == call[p].client IN
    /\ call[p].op = "isconn" /\ call[p].at = "lock"
    /\ mu[c] = NoOne
    /\ Return(p, IF connected[c] THEN "yes" ELSE "no")
    /\ UNCHANGED <<lockVars, thread, upload, envVars, panic>>

-----------------------------------------------------------------------------
(* connect(), run by whoever holds c.mu.                                   *)

ConnectStep(c, from, to) ==
    /\ phase[c] = from
    /\ phase' = [phase EXCEPT ![c] = to]
    /\ UNCHANGED <<connected, stopping, mu, fails, thread, call, upload, envVars, panic>>

\* ValidateCertificateFiles and CreateSecureTLSConfig succeed: the files are
\* there, can be parsed, and the key is the certificate's.
CreateSecureTLSConfig == world.certs

\* A configuration or certificate that cannot be loaded is the error that ends
\* a reconnection.
LoadConfig(c) ==
    /\ \/ ~CreateSecureTLSConfig /\ ConnectStep(c, "config", "fatal")
       \/ CreateSecureTLSConfig /\ ConnectStep(c, "config", "dial")
    /\ UNCHANGED stream

\* Mutant: the dial does not use the client's context.
OpenStreamAnyway(c) ==
    \/ /\ world.server # "down"
       /\ ConnectStep(c, "dial", "handshake")
       /\ stream' = [stream EXCEPT ![c] = "live"]
    \/ /\ world.server = "down"
       /\ ConnectStep(c, "dial", "fail")
       /\ UNCHANGED stream

\* DialContext and EstablishTunnel, both under the client's context.
OpenStream(c) ==
    \/ /\ world.server # "down" /\ ~stopping[c]
       /\ ConnectStep(c, "dial", "handshake")
       /\ stream' = [stream EXCEPT ![c] = "live"]
    \/ /\ world.server = "down" \/ stopping[c]
       /\ ConnectStep(c, "dial", "fail")
       /\ UNCHANGED stream

\* sendHandshake and waitForHandshakeResponse, which gives up after 10 s.
Handshake(c) ==
    \/ /\ stream[c] = "live" /\ world.server = "up" /\ world.account
       /\ ConnectStep(c, "handshake", "control")
       /\ UNCHANGED stream
    \/ /\ stream[c] = "live" /\ world.server = "up" /\ ~world.account
       /\ ConnectStep(c, "handshake", "auth")
       /\ stream' = [stream EXCEPT ![c] = "dead"]
    \/ /\ stream[c] = "dead" \/ world.server # "up"
       /\ ConnectStep(c, "handshake", "fail")
       /\ stream' = [stream EXCEPT ![c] = "dead"]

\* establishControlChannel: its failure is tolerated, but its Recv has no time
\* limit, so that a server that answers nothing keeps connect() here.
ControlChannel(c) ==
    /\ world.server = "up" \/ stream[c] = "dead"
    /\ ConnectStep(c, "control", "ok")
    /\ UNCHANGED stream

Connecting(c) == LoadConfig(c) \/ OpenStream(c) \/ Handshake(c) \/ ControlChannel(c)

-----------------------------------------------------------------------------
(* handleIncomingMessages.                                                 *)

Goto(c, t, from, to) ==
    /\ thread[c][t] = from
    /\ thread' = [thread EXCEPT ![c][t] = to]

ReaderStops(c, t) ==
    /\ stopping[c]
    /\ Goto(c, t, "recv", "idle")
    /\ UNCHANGED <<lockVars, call, upload, envVars, panic>>

\* Requests, the chunks of an upload and requests for tunnels are served by
\* the reading goroutine itself, which reads nothing meanwhile.
ReaderServes(c, t) ==
    /\ stream[c] = "live"
    /\ Goto(c, t, "recv", "serve")
    /\ UNCHANGED <<lockVars, call, upload, envVars, panic>>

Served(c, t) ==
    /\ Goto(c, t, "serve", "recv")
    /\ UNCHANGED <<lockVars, call, upload, envVars, panic>>

\* End of stream and cancellation are not recorded, other errors are.
ReaderFails(c, t) ==
    /\ stream[c] = "dead"
    /\ Goto(c, t, "recv", "err") \/ Goto(c, t, "recv", "check")
    /\ UNCHANGED <<lockVars, call, upload, envVars, panic>>

RecordError(c, t) ==
    /\ mu[c] = NoOne
    /\ Goto(c, t, "err", "check")
    /\ UNCHANGED <<lockVars, call, upload, envVars, panic>>

\* The stop channel is looked at without the lock, c.stopping with it.
CheckStopping(c, t) ==
    /\ \/ stopping[c] /\ Goto(c, t, "check", "idle")
       \/ ~stopping[c] /\ mu[c] = NoOne /\ Goto(c, t, "check", "relock")
    /\ UNCHANGED <<lockVars, call, upload, envVars, panic>>

-----------------------------------------------------------------------------
(* reconnect.                                                              *)

\* Mutant: the stream is cleared and the client still counts as connected.
ReconnectBeginConnected(c, t) ==
    /\ mu[c] = NoOne
    /\ IF ~connected[c] \/ stopping[c]
       THEN Goto(c, t, "relock", "idle") /\ UNCHANGED <<mu, stream, fails>>
       ELSE /\ Goto(c, t, "relock", "loop")
            /\ mu' = [mu EXCEPT ![c] = t]
            /\ stream' = [stream EXCEPT ![c] = "nil"]
            /\ fails' = [fails EXCEPT ![c] = 0]
    /\ UNCHANGED <<connected, stopping, phase, call, upload, envVars, panic>>

ReconnectBegin(c, t) ==
    /\ mu[c] = NoOne
    /\ \/ /\ ~connected[c] \/ stopping[c]
          /\ Goto(c, t, "relock", "idle")
          /\ UNCHANGED <<connected, mu, stream, fails>>
       \/ /\ connected[c] /\ ~stopping[c]
          /\ Goto(c, t, "relock", "loop")
          /\ connected' = [connected EXCEPT ![c] = FALSE]
          /\ mu' = [mu EXCEPT ![c] = t]
          /\ stream' = [stream EXCEPT ![c] = "nil"]
          /\ fails' = [fails EXCEPT ![c] = 0]
    /\ UNCHANGED <<stopping, phase, call, upload, envVars, panic>>

ReconnectTry(c, t) ==
    /\ mu[c] = t
    /\ \/ /\ stopping[c]
          /\ Goto(c, t, "loop", "idle")
          /\ mu' = [mu EXCEPT ![c] = NoOne]
          /\ UNCHANGED phase
       \/ /\ ~stopping[c]
          /\ Goto(c, t, "loop", "connect")
          /\ phase' = [phase EXCEPT ![c] = "config"]
          /\ UNCHANGED mu
    /\ UNCHANGED <<connected, stopping, stream, fails, call, upload, envVars, panic>>

\* A success hands over to a new reading goroutine; a configuration or
\* certificate error gives up; other errors wait, the last of MaxFailures in
\* a row for five minutes.
ReconnectDone(c, t) ==
    /\ mu[c] = t /\ thread[c][t] = "connect"
    /\ phase[c] \in Results
    /\ phase' = [phase EXCEPT ![c] = "none"]
    /\ \/ /\ phase[c] = "ok"
          /\ Goto(c, t, "connect", "recv")
          /\ connected' = [connected EXCEPT ![c] = TRUE]
          /\ mu' = [mu EXCEPT ![c] = NoOne]
          /\ UNCHANGED fails
       \/ /\ phase[c] = "fatal"
          /\ Goto(c, t, "connect", "idle")
          /\ mu' = [mu EXCEPT ![c] = NoOne]
          /\ UNCHANGED <<connected, fails>>
       \/ /\ phase[c] \in {"auth", "fail"}
          /\ fails' = [fails EXCEPT ![c] = @ + 1]
          /\ Goto(c, t, "connect", IF fails[c] + 1 >= MaxFailures THEN "break" ELSE "wait")
          /\ UNCHANGED <<connected, mu>>
    /\ UNCHANGED <<stopping, stream, call, upload, envVars, panic>>

\* Mutant: the open circuit breaker ends the reconnection.
BackoffEnds(c, t) ==
    /\ \/ Goto(c, t, "wait", "loop") /\ UNCHANGED <<fails, mu>>
       \/ /\ Goto(c, t, "break", "idle")
          /\ mu' = [mu EXCEPT ![c] = NoOne]
          /\ fails' = [fails EXCEPT ![c] = 0]
    /\ UNCHANGED <<connected, stopping, phase, stream, call, upload, envVars, panic>>

BackoffOver(c, t) ==
    /\ \/ Goto(c, t, "wait", "loop") /\ UNCHANGED fails
       \/ Goto(c, t, "break", "loop") /\ fails' = [fails EXCEPT ![c] = 0]
    /\ UNCHANGED <<connected, stopping, mu, phase, stream, call, upload, envVars, panic>>

-----------------------------------------------------------------------------
(* Uploads: a goroutine forwards the body, as its chunks come, to the      *)
(* local service and the answer to c.stream.                               *)

UploadStart(c, t, u) ==
    /\ thread[c][t] = "recv" /\ stream[c] = "live"
    /\ upload[c][u] = "none"
    /\ upload' = [upload EXCEPT ![c][u] = "local"]
    /\ UNCHANGED <<lockVars, thread, call, envVars, panic>>

\* Send on c.stream: on the nil stream it panics.
Send(c, u, then) ==
    /\ panic' = (stream[c] = "nil")
    /\ upload' = [upload EXCEPT ![c][u] = then]

\* The local service's answer is empty: sendCompleteResponse tests nothing.
SendEmpty(c, u) ==
    /\ upload[c][u] = "local"
    /\ Send(c, u, "done")
    /\ UNCHANGED <<lockVars, thread, call, envVars>>

\* The answer has a body, or the request failed or timed out.
\* A chunk and an error test c.stream first and use it afterwards.
TestStream(c, u) ==
    /\ \E part \in IF upload[c][u] = "local" THEN {"body", "error"} ELSE {upload[c][u]} \cap {"body", "error"} :
          upload' = [upload EXCEPT ![c][u] =
             CASE stream[c] = "nil" /\ part = "body"  -> "error"
               [] stream[c] = "nil" /\ part = "error" -> "done"
               [] stream[c] # "nil" /\ part = "body"  -> "chunk"
               [] OTHER -> "errsend"]
    /\ UNCHANGED <<lockVars, thread, call, envVars, panic>>

\* Once a chunk is sent the body goes on, is over, or cannot be read any more.
SendTested(c, u) ==
    /\ \/ /\ upload[c][u] = "errsend"
          /\ Send(c, u, "done")
       \/ /\ upload[c][u] = "chunk"
          /\ \E then \in IF stream[c] = "dead" THEN {"error"} ELSE {"body", "done", "error"} :
                Send(c, u, then)
    /\ UNCHANGED <<lockVars, thread, call, envVars>>

\* The server has cancelled the request, which is looked at before each read and
\* before each send: the goroutine ends without a word.
UploadCancelled(c, u) ==
    /\ upload[c][u] \in {"local", "body", "chunk"}
    /\ upload' = [upload EXCEPT ![c][u] = "done"]
    /\ UNCHANGED <<lockVars, thread, call, envVars, panic>>

Uploading(c, u) ==
    SendEmpty(c, u) \/ TestStream(c, u) \/ SendTested(c, u) \/ UploadCancelled(c, u)

-----------------------------------------------------------------------------
(* The environment: the server and the network, the files, the account.    *)

Change(w) ==
    /\ faults < MaxFaults
    /\ faults' = faults + 1
    /\ w # world
    /\ world' = w
    /\ stream' = [c \in Clients |-> IF w.server = "down" THEN Closed(c) ELSE stream[c]]
    /\ UNCHANGED <<connected, stopping, mu, phase, fails, thread, call, upload, panic>>

ServerChanges == \E s \in {"up", "hung", "down"} : Change([world EXCEPT !.server = s])
FilesChange == Change([world EXCEPT !.certs = ~@])
AccountChanges == Change([world EXCEPT !.account = ~@])

StreamBreaks(c) ==
    /\ faults < MaxFaults
    /\ faults' = faults + 1
    /\ stream[c] = "live"
    /\ stream' = [stream EXCEPT ![c] = "dead"]
    /\ UNCHANGED <<connected, stopping, mu, phase, fails, thread, call, upload, world, panic>>

Environment == ServerChanges \/ FilesChange \/ AccountChanges \/ \E c \in Clients : StreamBreaks(c)

-----------------------------------------------------------------------------
CallerStep(p) == StartLocked(p) \/ StartDone(p) \/ Stop(p) \/ IsConnected(p)

\* The steps of a goroutine that wait for c.mu, and the others.
LockStep(c, t) == RecordError(c, t) \/ CheckStopping(c, t) \/ ReconnectBegin(c, t)

OwnStep(c, t) ==
    \/ ReaderStops(c, t) \/ Served(c, t) \/ ReaderFails(c, t)
    \/ ReconnectTry(c, t) \/ ReconnectDone(c, t) \/ BackoffOver(c, t)

ClientNext ==
    \/ \E p \in Callers : CallerStep(p)
    \/ \E c \in Clients : Connecting(c)
    \/ \E c \in Clients, t \in Threads : LockStep(c, t) \/ OwnStep(c, t) \/ ReaderServes(c, t)
    \/ \E c \in Clients, t \in Threads, u \in Uploads : UploadStart(c, t, u)
    \/ \E c \in Clients, u \in Uploads : Uploading(c, u)
    \/ Environment

\* On its own: anybody calls anything, at any time.
Next ==
    /\ ~panic
    /\ \/ \E p \in Callers, op \in {"start", "stop", "isconn"}, c \in Clients : Call(p, op, c)
       \/ ClientNext

\* Goroutines run and timers fire; a Go mutex hands itself over to the
\* goroutine that has waited for a millisecond, so who waits gets it.
Fairness ==
    /\ \A p \in Callers : SF_vars(~panic /\ CallerStep(p))
    /\ \A c \in Clients : WF_vars(~panic /\ Connecting(c))
    /\ \A c \in Clients, t \in Threads :
          /\ SF_vars(~panic /\ LockStep(c, t))
          /\ WF_vars(~panic /\ OwnStep(c, t))

Spec == Init /\ [][Next]_vars /\ Fairness

-----------------------------------------------------------------------------
Active(c) == {t \in Threads : thread[c][t] # "idle"}
Holding == {"loop", "connect", "wait", "break"}

\* A client that says it is connected has a goroutine that reads its stream
\* or is about to reconnect it, and no client ever has two: Start, Stop, the
\* reader and the reconnection hand the connection over under c.mu without
\* losing it and without serving it twice.
ConnectedIsTended ==
    \A c \in Clients :
        /\ \A t, u \in Active(c) : t = u
        /\ connected[c] => \E t \in Threads : thread[c][t] \in Reading \cup {"relock"}

\* Who holds c.mu, how far its connect() is, and what the flags say meanwhile.
HandedOver(c) ==
    /\ stopping[c] => ~connected[c]
    /\ \A t \in Threads :
          /\ (thread[c][t] \in Holding) <=> (mu[c] = t)
          /\ thread[c][t] \in Holding => ~connected[c]
          /\ thread[c][t] \in Holding \ {"break"} => fails[c] < MaxFailures
          /\ thread[c][t] \in Reading \cup {"relock"} => connected[c] \/ stopping[c]
          /\ mu[c] = t => ((phase[c] = "none") <=> (thread[c][t] # "connect"))
    /\ \A p \in Callers :
          /\ (mu[c] = p) <=> (call[p].at = "connect" /\ call[p].client = c)
          /\ mu[c] = p => phase[c] # "none" /\ ~connected[c]
    /\ mu[c] = NoOne => phase[c] = "none"
    /\ phase[c] \in {"handshake", "control", "ok"} => stream[c] # "nil" /\ ~stopping[c]
    /\ connected[c] => stream[c] # "nil"

\* The types, and the facts about c.mu, the goroutines and the flags that make
\* it inductive.
ClientInv == TypeOK /\ ConnectedIsTended /\ \A c \in Clients : HandedOver(c)

\* Whoever holds c.mu can take its next step, so that all who wait for it get their
\* turn: it dials, it has a result to act on, or it waits for its timer.  Only
\* establishControlChannel's Recv, which has no time limit, keeps c.mu for as long
\* as a server is silent.
ServerIsSilent(c) ==
    phase[c] = "control" /\ world.server # "up" /\ stream[c] = "live"

HolderGoesOn ==
    \A c \in Clients : mu[c] # NoOne =>
        \/ ServerIsSilent(c)
        \/ phase[c] \in {"config", "dial"}
        \/ phase[c] = "handshake" /\ stream[c] \in {"live", "dead"}
        \/ phase[c] = "control" /\ (world.server = "up" \/ stream[c] = "dead")
        \/ /\ phase[c] \in Results
           /\ \/ \E p \in Callers : mu[c] = p /\ call[p].at = "connect" /\ call[p].client = c
              \/ \E t \in Threads : mu[c] = t /\ thread[c][t] = "connect"
        \/ \E t \in Threads : mu[c] = t /\ thread[c][t] \in {"loop", "wait", "break"}

\* What Stop stopped stays stopped: a Start or a reconnection that was under
\* way, or comes later, never connects that client again.
StoppedStaysStopped ==
    [][\A c \in Clients : stopping[c] => stopping'[c] /\ ~connected'[c]]_vars

\* The answer to an upload meets the nil c.stream only when its client has
\* lost its connection: never while the client is connected.
NoPanicWhileConnected ==
    panic => \E c \in Clients : stream[c] = "nil" /\ ~connected[c]

ClientCore == ClientInv /\ NoPanicWhileConnected

\* All together: no step of Start, Stop, the reader, the reconnection and the
\* uploads loses, doubles or dereferences a connection that another one took, or
\* keeps c.mu from the others while the server answers.
ClientSafe == ClientCore /\ HolderGoesOn

\* The files stay readable, and from some time on the server answers and the
\* account is in order.
ServerRecovers == []world.certs /\ <>[](world.server = "up" /\ world.account)

\* A client that lost its stream has it again, however long the server was
\* away and whichever step the loss interrupted, unless it was stopped.
Reconnects ==
    ServerRecovers => \A c \in Clients :
        (\E t \in Threads : thread[c][t] # "idle" /\ stream[c] # "live")
            ~> ((connected[c] /\ stream[c] = "live") \/ stopping[c] \/ panic)

\* Start, Stop and IsConnected return, though reconnect keeps c.mu for as
\* long as the server is away.
CallsReturn ==
    ServerRecovers => \A p \in Callers : (call[p].at = "lock") ~> (call[p].at = "done" \/ panic)
=============================================================================
