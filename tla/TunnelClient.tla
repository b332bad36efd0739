---------------------------- MODULE TunnelClient ----------------------------
(***************************************************************************)
(* The client program's Tunnel, composed with the gRPC clients it makes:   *)
(* the executions of connectWithRetry, which Connect, RestoreState and     *)
(* every unexpected end of a WebSocket connection start and which may      *)
(* overlap; the tunnels the server asks for, dialled by the goroutine that *)
(* reads the gRPC stream; and RestoreState with the Disconnect inside it.  *)
(*                                                                         *)
(* Left out because nothing sets or calls them: t.conn, httpConnections,   *)
(* isReconnecting (set and cleared under reconnectMutex, so that nobody    *)
(* sees it set), and StateMaintenance (the one error that reaches          *)
(* isMaintenanceError never says so).  MaxRetries is -1, no limit.         *)
(***************************************************************************)
EXTENDS GRPCTunnelClient

CONSTANTS
    Updater,     \* the caller that runs RestoreState; the others run reconnections
    Conns,       \* bound: WebSocket connections ever dialled at once
    MaxTunnels,  \* maxWebSocketTunnels (25)
    MaxRestores  \* bound: updates that restore the connection

ASSUME TunnelAssumption ==
    /\ Updater \in Callers
    /\ IsFiniteSet(Conns)
    /\ MaxTunnels \in Nat \ {0}
    /\ MaxRestores \in Nat

VARIABLES
    tstate,     \* t.state
    grpc,       \* t.grpcClient, or NoOne
    enabled,    \* t.grpcEnabled
    cancelled,  \* t.ctx is cancelled
    retried,    \* t.retryCount > 0
    locked,     \* the singleton lock is held
    made,       \* clients made so far
    run,        \* the connectWithRetry of each caller
    est,        \* the tunnel the reader of each client is establishing
    ws,         \* WebSocket connections
    rs,         \* RestoreState
    restores,   \* how often it was begun
    overlap     \* history: an execution of connectWithRetry overlapped another one,
                \* or the part of Disconnect that stops the client

connVars == <<grpc, enabled, made>>
tunnelVars == <<tstate, connVars, cancelled, retried, locked, run, est, ws, rs, restores, overlap>>
allVars == <<vars, tunnelVars>>

Idle == [at |-> "idle", tls |-> FALSE]

RunStates == [at : {"idle", "top", "wait", "look", "make", "isconn", "start", "answer"}, tls : BOOLEAN]

RestoreStates ==
    [at : {"idle", "kept", "cancel", "stop", "close", "drain", "config", "lock"}, enabled : BOOLEAN]

TunnelTypeOK ==
    /\ tstate \in {"disconnected", "connecting", "connected", "reconnecting", "failed"}
    /\ grpc \in Clients \cup {NoOne}
    /\ enabled \in BOOLEAN /\ cancelled \in BOOLEAN /\ retried \in BOOLEAN /\ locked \in BOOLEAN
    /\ made \subseteq Clients
    /\ run \in [Callers -> RunStates]
    /\ est \in [Clients -> {"none", "address", "dial"}]
    /\ ws \in [Conns -> {"none", "pooled", "broken", "closed"}]
    /\ rs \in RestoreStates
    /\ restores \in 0..MaxRestores
    /\ overlap \in BOOLEAN

Running(p) == run[p].at # "idle"

\* Disconnect has begun and t.grpcClient is not cleared yet.
Stopping == rs.at \in {"cancel", "stop"}

\* Connect has taken the singleton lock, made the context and called
\* connectWithRetry, with the TLS configuration the command prepared.
TunnelInit ==
    /\ Init
    /\ tstate = "disconnected"
    /\ grpc = NoOne /\ enabled = FALSE /\ made = {}
    /\ cancelled = FALSE /\ retried = FALSE /\ locked = TRUE
    /\ \E p \in Callers \ {Updater} :
          run = [q \in Callers |-> IF q = p THEN [at |-> "top", tls |-> TRUE] ELSE Idle]
    /\ est = [c \in Clients |-> "none"]
    /\ ws = [w \in Conns |-> "none"]
    /\ rs = [at |-> "idle", enabled |-> FALSE]
    /\ restores = 0
    /\ overlap = FALSE

-----------------------------------------------------------------------------
(* connectWithRetry.                                                       *)

\* A new execution starts with retryCount = 0, which the others share.
RunBegins(p, tls) ==
    /\ run' = [run EXCEPT ![p] = [at |-> "top", tls |-> tls]]
    /\ retried' = FALSE
    /\ overlap' = (overlap \/ Stopping \/ \E q \in Callers : Running(q))

RunGoto(p, to) == run' = [run EXCEPT ![p].at = to]
RunEnds(p) == run' = [run EXCEPT ![p] = Idle]

RunTop(p) ==
    /\ run[p].at = "top"
    /\ \/ /\ cancelled
          /\ RunEnds(p)
          /\ UNCHANGED tstate
       \/ /\ ~cancelled
          /\ tstate' = IF retried THEN "reconnecting" ELSE "connecting"
          /\ RunGoto(p, IF retried THEN "wait" ELSE "look")
    /\ UNCHANGED <<vars, connVars, cancelled, retried, locked, est, ws, rs, restores, overlap>>

RunWaited(p) ==
    /\ run[p].at = "wait"
    /\ RunGoto(p, "look") \/ (cancelled /\ RunEnds(p))
    /\ UNCHANGED <<vars, tstate, connVars, cancelled, retried, locked, est, ws, rs, restores, overlap>>

isAuthenticationError(res) == res = "auth"

\* A failed attempt: an authentication error ends the execution.
RunFails(p, res) ==
    /\ retried' = TRUE
    /\ IF isAuthenticationError(res) THEN RunEnds(p) /\ tstate' = "failed" ELSE RunGoto(p, "top") /\ UNCHANGED tstate

\* The first half of attemptDualConnections: without a TLS configuration it
\* needs the files; then it looks whether there is a client.
RunLook(p) ==
    /\ run[p].at = "look"
    /\ \/ /\ ~run[p].tls /\ ~CreateSecureTLSConfig
          /\ RunFails(p, "fatal")
          /\ UNCHANGED call
       \/ /\ run[p].tls \/ CreateSecureTLSConfig
          /\ grpc = NoOne
          /\ RunGoto(p, "make")
          /\ UNCHANGED <<call, retried, tstate>>
       \/ /\ run[p].tls \/ CreateSecureTLSConfig
          /\ grpc # NoOne
          /\ call' = [call EXCEPT ![p] = [op |-> "isconn", client |-> grpc, at |-> "lock", res |-> "none"]]
          /\ RunGoto(p, "isconn")
          /\ UNCHANGED <<retried, tstate>>
    /\ UNCHANGED <<lockVars, thread, upload, envVars, panic, connVars, cancelled, locked, est, ws, rs,
                   restores, overlap>>

\* The client is assigned without a lock: another execution that found none
\* either will assign its own.
RunMake(p) ==
    /\ run[p].at = "make"
    /\ Clients \ made # {}
    /\ LET c == CHOOSE x \in Clients \ made : TRUE IN
          /\ grpc' = c
          /\ made' = made \cup {c}
          /\ call' = [call EXCEPT ![p] = [op |-> "start", client |-> c, at |-> "lock", res |-> "none"]]
    /\ RunGoto(p, "start")
    /\ UNCHANGED <<lockVars, thread, upload, envVars, panic, tstate, enabled, cancelled, retried, locked,
                   est, ws, rs, restores, overlap>>

\* The pointer is read again for Start: Disconnect may have cleared it.
RunChecked(p) ==
    /\ run[p].at = "isconn" /\ call[p].at = "done"
    /\ \/ /\ call[p].res = "yes"
          /\ enabled' = TRUE
          /\ call' = [call EXCEPT ![p] = NoCall]
          /\ RunGoto(p, "answer")
          /\ UNCHANGED panic
       \/ /\ call[p].res = "no"
          /\ panic' = (grpc = NoOne)
          /\ IF grpc = NoOne THEN UNCHANGED call
             ELSE call' = [call EXCEPT ![p] = [op |-> "start", client |-> grpc, at |-> "lock", res |-> "none"]]
          /\ RunGoto(p, "start")
          /\ UNCHANGED enabled
    /\ UNCHANGED <<lockVars, thread, upload, envVars, tstate, grpc, made, cancelled, retried, locked, est,
                   ws, rs, restores, overlap>>

RunStarted(p) ==
    /\ run[p].at = "start" /\ call[p].at = "done"
    /\ \/ /\ isAuthenticationError(call[p].res)
          /\ RunFails(p, call[p].res)
          /\ UNCHANGED enabled
       \/ /\ ~isAuthenticationError(call[p].res)
          /\ enabled' = (call[p].res = "ok")
          /\ RunGoto(p, "answer")
          /\ UNCHANGED <<retried, tstate>>
    /\ call' = [call EXCEPT ![p] = NoCall]
    /\ UNCHANGED <<lockVars, thread, upload, envVars, panic, grpc, made, cancelled, locked, est, ws, rs, restores, overlap>>

\* grpcEnabled is read again: another execution, or an update, may have written
\* it meanwhile.
RunAnswer(p) ==
    /\ run[p].at = "answer"
    /\ \/ /\ enabled
          /\ retried' = FALSE
          /\ tstate' = "connected"
          /\ RunEnds(p)
       \/ ~enabled /\ RunFails(p, "fail")
    /\ UNCHANGED <<vars, connVars, cancelled, locked, est, ws, rs, restores, overlap>>

RunStep(p) ==
    \/ RunTop(p) \/ RunWaited(p) \/ RunLook(p) \/ RunMake(p) \/ RunChecked(p)
    \/ RunStarted(p) \/ RunAnswer(p)

-----------------------------------------------------------------------------
(* Tunnels on demand.                                                      *)

Pool == {w \in Conns : ws[w] \in {"pooled", "broken"}}

\* Mutant: one tunnel too many is let through.
EstablishBeginAtLimit(c, t) ==
    /\ thread[c][t] = "serve"
    /\ est[c] = "none"
    /\ Cardinality(Pool) <= MaxTunnels
    /\ CreateSecureTLSConfig
    /\ est' = [est EXCEPT ![c] = "address"]
    /\ UNCHANGED <<vars, tstate, connVars, cancelled, retried, locked, run, ws, rs, restores, overlap>>

\* The limit is checked, then the files.  A refusal is reported to the server.
EstablishBegin(c, t) ==
    /\ thread[c][t] = "serve"
    /\ est[c] = "none"
    /\ Cardinality(Pool) < MaxTunnels
    /\ CreateSecureTLSConfig
    /\ est' = [est EXCEPT ![c] = "address"]
    /\ UNCHANGED <<vars, tstate, connVars, cancelled, retried, locked, run, ws, rs, restores, overlap>>

\* The server's address is read from t.grpcClient, whatever it is by now.
EstablishAddress(c) ==
    /\ est[c] = "address"
    /\ panic' = (grpc = NoOne)
    /\ est' = [est EXCEPT ![c] = "dial"]
    /\ UNCHANGED <<lockVars, thread, call, upload, envVars, tstate, connVars, cancelled, retried, locked,
                   run, ws, rs, restores, overlap>>

\* Dial and handshake; the connection joins the pool and gets its goroutine.
EstablishDial(c) ==
    /\ est[c] = "dial"
    /\ est' = [est EXCEPT ![c] = "none"]
    /\ \/ /\ world.server = "up" /\ world.account
          /\ \E w \in Conns : ws[w] = "none" /\ ws' = [ws EXCEPT ![w] = "pooled"]
       \/ /\ world.server # "up" \/ ~world.account
          /\ UNCHANGED ws
    /\ UNCHANGED <<vars, tstate, connVars, cancelled, retried, locked, run, rs, restores, overlap>>

\* The peer or the network ends a connection, or its session is over.
ConnectionBreaks(w) ==
    /\ ws[w] = "pooled"
    /\ ws' = [ws EXCEPT ![w] = "broken"]
    /\ UNCHANGED <<vars, tstate, connVars, cancelled, retried, locked, run, est, rs, restores, overlap>>

\* handleWebSocketConnection returns: it was told to, its connection was
\* closed, or the connection ended the way connections are expected to end.
HandlerReturns(w) ==
    /\ ws[w] \in {"broken", "closed"} \/ (cancelled /\ ws[w] = "pooled")
    /\ ws' = [ws EXCEPT ![w] = "none"]
    /\ UNCHANGED <<vars, tstate, connVars, cancelled, retried, locked, run, est, rs, restores, overlap>>

\* Mutant: the reconnection drops the gRPC client as well.
ReconnectAfresh(w) ==
    /\ ws[w] = "broken"
    /\ ws' = [x \in Conns |-> CASE x = w -> "none" [] x \in Pool \ {w} -> "closed" [] OTHER -> ws[x]]
    /\ grpc' = NoOne
    /\ \E p \in Callers \ {Updater} : ~Running(p) /\ RunBegins(p, FALSE)
    /\ UNCHANGED <<vars, tstate, enabled, made, cancelled, locked, est, rs, restores>>

\* Another error: coordinatedReconnect closes every connection, leaves the
\* gRPC client alone and starts connectWithRetry.
CoordinatedReconnect(w) ==
    /\ ws[w] = "broken"
    /\ ws' = [x \in Conns |-> CASE x = w -> "none" [] x \in Pool \ {w} -> "closed" [] OTHER -> ws[x]]
    /\ \E p \in Callers \ {Updater} : ~Running(p) /\ RunBegins(p, FALSE)
    /\ UNCHANGED <<vars, tstate, connVars, cancelled, locked, est, rs, restores>>

-----------------------------------------------------------------------------
(* PreserveState and, the update installed, RestoreState.                  *)

RestoreGoto(to) == rs' = [rs EXCEPT !.at = to]
RestoreEnds == rs' = [at |-> "idle", enabled |-> FALSE]

PreserveState ==
    /\ rs.at = "idle" /\ ~Running(Updater) /\ restores < MaxRestores
    /\ tstate = "connected"
    /\ rs' = [at |-> "kept", enabled |-> enabled]
    /\ restores' = restores + 1
    /\ UNCHANGED <<vars, tstate, connVars, cancelled, retried, locked, run, est, ws, overlap>>

\* A state that is too old is refused; only a connected tunnel is disconnected
\* first.
RestoreBegin ==
    /\ rs.at = "kept"
    /\ RestoreEnds \/ RestoreGoto(IF tstate = "connected" THEN "cancel" ELSE "config")
    /\ UNCHANGED <<vars, tstate, connVars, cancelled, retried, locked, run, est, ws, restores, overlap>>

DisconnectCancel ==
    /\ rs.at = "cancel"
    /\ locked' = FALSE
    /\ cancelled' = TRUE
    /\ overlap' = (overlap \/ \E q \in Callers : Running(q))
    /\ \/ /\ enabled /\ grpc # NoOne
          /\ call' = [call EXCEPT ![Updater] = [op |-> "stop", client |-> grpc, at |-> "lock", res |-> "none"]]
          /\ RestoreGoto("stop")
       \/ /\ ~enabled \/ grpc = NoOne
          /\ RestoreGoto("close")
          /\ UNCHANGED call
    /\ UNCHANGED <<lockVars, thread, upload, envVars, panic, tstate, connVars, retried, run, est, ws,
                   restores>>

DisconnectStopped ==
    /\ rs.at = "stop" /\ call[Updater].at = "done"
    /\ grpc' = NoOne
    /\ enabled' = FALSE
    /\ call' = [call EXCEPT ![Updater] = NoCall]
    /\ RestoreGoto("close")
    /\ UNCHANGED <<lockVars, thread, upload, envVars, panic, tstate, made, cancelled, retried, locked, run, est, ws, restores, overlap>>

DisconnectClose ==
    /\ rs.at = "close"
    /\ ws' = [w \in Conns |-> IF w \in Pool THEN "closed" ELSE ws[w]]
    /\ RestoreGoto("drain")
    /\ UNCHANGED <<vars, tstate, connVars, cancelled, retried, locked, run, est, restores, overlap>>

\* The goroutines are waited for, ten seconds at most.
DisconnectDone ==
    /\ rs.at = "drain"
    /\ tstate' = "disconnected"
    /\ RestoreGoto("config")
    /\ UNCHANGED <<vars, connVars, cancelled, retried, locked, run, est, ws, restores, overlap>>

\* LoadConfig may fail.  Certificates that cannot be read are left out of the
\* TLS configuration, which Connect is given all the same.
RestoreConfig ==
    /\ rs.at = "config"
    /\ enabled' = rs.enabled
    /\ \/ RestoreEnds /\ UNCHANGED cancelled
       \/ RestoreGoto("lock") /\ cancelled' = FALSE
    /\ UNCHANGED <<vars, tstate, grpc, made, retried, locked, run, est, ws, restores, overlap>>

\* Connect: a lock that was not given up is not granted again, and neither is
\* one that another process has, or the service has a claim to, by now.
RestoreConnect ==
    /\ rs.at = "lock"
    /\ RestoreEnds
    /\ \/ UNCHANGED <<locked, run, retried, overlap, cancelled>>
       \/ /\ ~locked
          /\ locked' = TRUE
          /\ RunBegins(Updater, TRUE)
          /\ cancelled' = FALSE
    /\ UNCHANGED <<vars, tstate, connVars, est, ws, restores>>

RestoreStep ==
    \/ RestoreBegin \/ DisconnectCancel \/ DisconnectStopped \/ DisconnectClose
    \/ DisconnectDone \/ RestoreConfig \/ RestoreConnect

-----------------------------------------------------------------------------
\* The steps of the clients; a reader is not done while it establishes a tunnel.
OfClients(A) == ~panic /\ A /\ UNCHANGED tunnelVars

ReaderStep(c, t) == OwnStep(c, t) /\ (est[c] = "none" \/ thread[c][t] # "serve")

ClientStep ==
    \/ \E p \in Callers : CallerStep(p)
    \/ \E c \in Clients : Connecting(c)
    \/ \E c \in Clients, t \in Threads : LockStep(c, t) \/ ReaderStep(c, t) \/ ReaderServes(c, t)
    \/ \E c \in Clients, t \in Threads, u \in Uploads : UploadStart(c, t, u)
    \/ \E c \in Clients, u \in Uploads : Uploading(c, u)
    \/ Environment

TunnelStep ==
    \/ \E p \in Callers : RunStep(p)
    \/ \E c \in Clients, t \in Threads : EstablishBegin(c, t)
    \/ \E c \in Clients : EstablishAddress(c) \/ EstablishDial(c)
    \/ \E w \in Conns : ConnectionBreaks(w) \/ HandlerReturns(w) \/ CoordinatedReconnect(w)
    \/ PreserveState \/ RestoreStep

TunnelNext == OfClients(ClientStep) \/ (~panic /\ TunnelStep)

TunnelSpec == TunnelInit /\ [][TunnelNext]_allVars

-----------------------------------------------------------------------------
\* A call of the gRPC client is made by the execution that waits for it, or by
\* the Disconnect inside RestoreState, which runs no execution meanwhile.
CallsBelong ==
    /\ rs.at # "idle" => ~Running(Updater)
    /\ \A p \in Callers : call[p].at = "connect" => call[p].op = "start"
    /\ \A p \in Callers : call[p].at # "done" =>
          \/ run[p].at \in {"isconn", "start"} /\ call[p].op = run[p].at
          \/ p = Updater /\ rs.at = "stop" /\ call[p].op = "stop"

Starting(c) == \E p \in Callers : call[p].at # "done" /\ call[p].client = c /\ call[p].op = "start"

\* Until the first update there is one client at most, t.grpcClient: whoever
\* makes one is alone, and no later execution makes another one.
OneClientAtFirst ==
    restores = 0 =>
        /\ rs.at = "idle"
        /\ \A c \in Clients \ {grpc} :
              ~connected[c] /\ est[c] = "none" /\ ~Starting(c) /\ \A t \in Threads : thread[c][t] = "idle"
        /\ grpc = NoOne =>
              /\ \A w \in Conns : ws[w] = "none"
              /\ \A p, q \in Callers : Running(p) /\ Running(q) => p = q
              /\ \A p \in Callers : run[p].at \notin {"isconn", "start"}
        /\ grpc # NoOne => \A p \in Callers : run[p].at # "make"

\* t.grpcClient is used without a lock.  Its use crashes the program only once
\* an update has taken the client away (the other crash is the answer to an
\* upload that finds no stream).
CrashNeedsRestore ==
    panic => \/ restores > 0
             \/ \E c \in Clients, u \in Uploads : upload[c][u] # "none" /\ stream[c] = "nil"

\* What GRPCTunnelClient promises each caller on its own holds with the
\* overlapping callers of the Tunnel as well.
TunnelInv == TunnelTypeOK /\ ClientInv /\ CallsBelong /\ OneClientAtFirst /\ CrashNeedsRestore

\* Connections to the server that nobody will ever stop: a connected client
\* that is not t.grpcClient is left behind only when an execution of
\* connectWithRetry overlapped another one or the stopping of the client.
StrayOnlyAfterOverlap == \A c \in Clients : connected[c] /\ c # grpc => overlap

\* A client that will never be connected again.
Retired(c) ==
    ~connected[c] /\ ~Starting(c) /\ \A t \in Threads : thread[c][t] # "idle" => stopping[c]

\* What makes it inductive: executions and the stopping exclude each other as
\* long as nothing overlapped, and Stop leaves a client that is retired.
StrayInv ==
    ~overlap =>
        /\ \A p, q \in Callers : Running(p) /\ Running(q) => p = q
        /\ \A p \in Callers : run[p].at = "make" => grpc = NoOne
        /\ \A c \in Clients \ {grpc} : Retired(c)
        /\ rs.at = "stop" =>
              /\ \A p \in Callers : ~Running(p)
              /\ call[Updater].at # "done" => call[Updater].client = grpc
              /\ call[Updater].at = "done" => \A c \in Clients : Retired(c)

\* The limit on WebSocket tunnels is checked before the dial and the pool
\* grows after it.  One goroutine of a client does both, so the limit holds
\* until an update replaces the client while the old one's reader is still
\* dialling; every client made after the first costs one place at most.
LimitUntilRestore == restores = 0 => Cardinality(Pool) <= MaxTunnels
TunnelsWithinLimit == LimitUntilRestore /\ Cardinality(Pool) < MaxTunnels + Cardinality(made)

\* A place is left for the tunnel that is being established.
PlaceIsLeft ==
    restores = 0 /\ (\E c \in Clients : est[c] # "none") => Cardinality(Pool) < MaxTunnels

\* A client that was not made does nothing, and of those that were each is
\* establishing one tunnel at most.
OnlyMade ==
    /\ IsFiniteSet(made)
    /\ grpc \in made \cup {NoOne}
    /\ \A p \in Callers : call[p].at # "done" => call[p].client \in made
    /\ \A c \in Clients \ made : est[c] = "none" /\ \A t \in Threads : thread[c][t] = "idle"

Establishing == {c \in Clients : est[c] # "none"}

PlacesAreCounted == Cardinality(Pool) + Cardinality(Establishing) < MaxTunnels + Cardinality(made)
=============================================================================
