------------------------ MODULE TunnelClient_proofs ------------------------
(***************************************************************************)
(* Proofs about the client program: GRPCTunnelClient on its own, for any   *)
(* clients and callers, and TunnelClient, for any callers, connections and *)
(* limits.                                                                 *)
(***************************************************************************)
EXTENDS TunnelClient, FiniteSetTheorems, TLAPS

-----------------------------------------------------------------------------
(* The gRPC client.                                                        *)

\* What a caller's record may become.
LEMMA CallTypes ==
    /\ NoCall \in CallStates
    /\ \A res \in {"yes", "no", "already"} \cup Results :
          /\ [NoCall EXCEPT !.res = res] \in CallStates
          /\ [NoCall EXCEPT !.res = res].at = "done"
    /\ \A op \in {"start", "stop", "isconn"}, c \in Clients :
          [op |-> op, client |-> c, at |-> "lock", res |-> "none"] \in CallStates
    /\ \A r \in CallStates : [r EXCEPT !.at = "connect"] \in CallStates
  BY DEF NoCall, CallStates, Results

\* No client is connected at first and nobody holds a lock.
LEMMA ClientsInit == Init => ClientInv
<1> SUFFICES ASSUME Init PROVE ClientInv
  OBVIOUS
<1> USE ClientAssumption DEF Init, Threads, NoCall
<1>1. TypeOK
  <2>1. call \in [Callers -> CallStates] /\ \A p \in Callers : call[p].at = "done"
    BY CallTypes DEF NoCall
  <2>2. thread \in [Clients -> [Threads -> Reading \cup Reconnecting \cup {"idle"}]]
    OBVIOUS
  <2>3. fails \in [Clients -> 0..MaxFailures] /\ faults \in 0..MaxFaults
    OBVIOUS
  <2>4. mu \in [Clients -> Callers \cup Threads \cup {NoOne}] /\ phase \in [Clients -> Phases]
    BY DEF Phases
  <2>5. upload \in [Clients -> [Uploads -> UploadStates]]
    BY DEF UploadStates
  <2>6. QED
    BY <2>1, <2>2, <2>3, <2>4, <2>5 DEF TypeOK
<1>2. ConnectedIsTended
  BY DEF ConnectedIsTended, Active
<1>3. \A c \in Clients : HandedOver(c)
  BY DEF HandedOver, Holding, Reading
<1>4. QED
  BY <1>1, <1>2, <1>3 DEF ClientInv

\* A call that begins, by a caller that has none under way.
LEMMA CallPreserves ==
    ASSUME ClientInv, NEW p \in Callers, NEW c \in Clients, NEW op \in {"start", "stop", "isconn"},
           call[p].at = "done",
           call' = [call EXCEPT ![p] = [op |-> op, client |-> c, at |-> "lock", res |-> "none"]],
           UNCHANGED <<lockVars, thread, upload, envVars, panic>>
    PROVE  ClientInv'
<1>1. TypeOK'
  BY CallTypes DEF ClientInv, TypeOK, lockVars, envVars
<1>2. ConnectedIsTended'
  BY DEF ClientInv, ConnectedIsTended, Active, lockVars
<1>3. ASSUME NEW d \in Clients PROVE HandedOver(d)'
  BY DEF ClientInv, TypeOK, HandedOver, lockVars
<1>4. QED
  BY <1>1, <1>2, <1>3 DEF ClientInv

\* A step that leaves the locks, the flags and the goroutines alone.
LEMMA QuietPreserves ==
    ASSUME ClientInv, TypeOK', UNCHANGED <<connected, stopping, mu, phase, thread, call, fails>>,
           \A c \in Clients : stream'[c] = "nil" => stream[c] = "nil"
    PROVE  ClientInv'
<1>1. ConnectedIsTended'
  BY DEF ClientInv, ConnectedIsTended, Active
<1>2. ASSUME NEW d \in Clients PROVE HandedOver(d)'
  BY DEF ClientInv, TypeOK, HandedOver
<1>3. QED
  BY <1>1, <1>2 DEF ClientInv

\* What a step does to one client leaves the others as they were.
LEMMA OthersPreserved ==
    ASSUME ClientInv, NEW d \in Clients,
           connected'[d] = connected[d], stopping'[d] = stopping[d], mu'[d] = mu[d], phase'[d] = phase[d],
           thread'[d] = thread[d], stream'[d] = stream[d], fails'[d] = fails[d],
           \A p \in Callers : \/ call'[p] = call[p]
                              \/ /\ ~(call[p].at = "connect" /\ call[p].client = d)
                                 /\ ~(call'[p].at = "connect" /\ call'[p].client = d)
    PROVE  HandedOver(d)'
  BY DEF ClientInv, HandedOver

\* The steps of the callers.
LEMMA CallerPreserves ==
    ASSUME ClientInv, NEW p \in Callers, CallerStep(p)
    PROVE  ClientInv'
<1> USE ClientAssumption DEF ClientInv, Threads
<1>a. PICK c \in Clients : call[p].client = c
  BY DEF TypeOK, CallerStep, StartLocked, StartDone, Stop, IsConnected
<1>0. p # NoOne /\ p \notin Threads /\ call[p].client = c
  BY <1>a
<1>1. CASE StartLocked(p)
  <2>1. c \in Clients /\ call[p].at # "connect" /\ mu[c] = NoOne /\ call[p] \in CallStates
    BY <1>0, <1>1 DEF TypeOK, StartLocked
  <2>2. CASE connected[c]
    <3>1. UNCHANGED <<lockVars, thread, upload, envVars, panic>>
          /\ call' = [call EXCEPT ![p] = [NoCall EXCEPT !.res = "already"]]
      BY <1>0, <1>1, <2>2 DEF StartLocked, Return, lockVars
    <3>2. TypeOK'
      BY <3>1, CallTypes DEF TypeOK, lockVars, envVars
    <3>3. ConnectedIsTended'
      BY <3>1 DEF ConnectedIsTended, Active, lockVars
    <3>4. ASSUME NEW d \in Clients PROVE HandedOver(d)'
      BY <2>1, <3>1, CallTypes, OthersPreserved DEF TypeOK, lockVars
    <3>5. QED
      BY <3>2, <3>3, <3>4
  <2>3. CASE ~connected[c]
    <3>1. /\ UNCHANGED <<connected, stopping, stream, fails, thread, upload, envVars, panic>>
          /\ mu' = [mu EXCEPT ![c] = p]
          /\ phase' = [phase EXCEPT ![c] = "config"]
          /\ call' = [call EXCEPT ![p].at = "connect"]
      BY <1>0, <1>1, <2>3 DEF StartLocked
    <3>2. TypeOK'
      <4>1. call' = [call EXCEPT ![p] = [call[p] EXCEPT !.at = "connect"]] /\ call'[p].client = c
        BY <1>0, <2>1, <3>1 DEF TypeOK, CallStates
      <4>2. call' \in [Callers -> CallStates]
        BY <2>1, <4>1, CallTypes DEF TypeOK
      <4>3. \A q \in Callers : call'[q].at # "done" => call'[q].client \in Clients
        BY <2>1, <4>1 DEF TypeOK
      <4>4. mu' \in [Clients -> Callers \cup Threads \cup {NoOne}] /\ phase' \in [Clients -> Phases]
        BY <2>1, <3>1 DEF TypeOK, Phases
      <4>5. QED
        BY <3>1, <4>2, <4>3, <4>4 DEF TypeOK, envVars
    <3>3. ConnectedIsTended'
      BY <3>1 DEF ConnectedIsTended, Active
    <3>4. \A q \in Callers : q # p => call'[q] = call[q]
      BY <3>1 DEF TypeOK
    <3>5. call'[p].at = "connect" /\ call'[p].client = c
      BY <1>0, <2>1, <3>1 DEF TypeOK, CallStates
    <3>6. ASSUME NEW d \in Clients, d # c PROVE HandedOver(d)'
      BY <2>1, <3>1, <3>4, <3>5, <3>6, OthersPreserved DEF TypeOK
    <3>7. HandedOver(c)'
      <4>1. mu'[c] = p /\ phase'[c] = "config"
        BY <2>1, <3>1 DEF TypeOK
      <4>2. \A q \in Callers : ~(call[q].at = "connect" /\ call[q].client = c)
        BY <1>0, <2>1 DEF HandedOver
      <4>3. QED
        BY <1>0, <2>1, <2>3, <3>1, <3>4, <3>5, <4>1, <4>2 DEF HandedOver
    <3>8. QED
      BY <3>2, <3>3, <3>6, <3>7
  <2>4. QED
    BY <2>2, <2>3
<1>2. CASE StartDone(p)
  <2>1. c \in Clients /\ mu[c] = p /\ phase[c] \in Results
    BY <1>0, <1>2 DEF TypeOK, StartDone
  <2>2. \A t \in Threads : phase[c] = "ok" => thread[c][t] = "idle"
    BY <1>0, <1>2, <2>1 DEF TypeOK, HandedOver, StartDone, Reading, Reconnecting, Holding
  <2>3. /\ phase[c] # "ok" => thread' = thread
        /\ phase[c] = "ok" => \E t \in Threads : thread' = [thread EXCEPT ![c][t] = "recv"]
    BY <1>0, <1>2 DEF StartDone, NewReader
  <2>4. /\ UNCHANGED <<stopping, stream, fails, upload, envVars, panic>>
        /\ mu' = [mu EXCEPT ![c] = NoOne]
        /\ phase' = [phase EXCEPT ![c] = "none"]
        /\ call' = [call EXCEPT ![p] = [NoCall EXCEPT !.res = phase[c]]]
        /\ connected' = [connected EXCEPT ![c] = phase[c] = "ok"]
    BY <1>0, <1>2 DEF StartDone, Return
  <2>5. TypeOK'
    <3>1. call' \in [Callers -> CallStates]
      BY <2>1, <2>4, CallTypes DEF TypeOK
    <3>2. \A q \in Callers : call'[q].at # "done" => call'[q].client \in Clients
      BY <2>1, <2>4, CallTypes DEF TypeOK
    <3>3. thread' \in [Clients -> [Threads -> Reading \cup Reconnecting \cup {"idle"}]]
      <4>1. CASE phase[c] # "ok"
        BY <2>3, <4>1 DEF TypeOK
      <4>2. CASE phase[c] = "ok"
        <5>1. PICK t \in Threads : thread' = [thread EXCEPT ![c][t] = "recv"]
          BY <2>3, <4>2
        <5>2. "recv" \in Reading
          BY DEF Reading
        <5>3. QED
          BY <2>1, <5>1, <5>2 DEF TypeOK
      <4>3. QED
        BY <4>1, <4>2
    <3>4. /\ mu' \in [Clients -> Callers \cup Threads \cup {NoOne}]
          /\ phase' \in [Clients -> Phases]
          /\ connected' \in [Clients -> BOOLEAN]
      BY <2>1, <2>4 DEF TypeOK, Phases
    <3>5. QED
      BY <2>4, <3>1, <3>2, <3>3, <3>4 DEF TypeOK, envVars
  <2>6. ConnectedIsTended'
    BY <1>0, <1>2, <2>1, <2>2, <2>3, <2>4 DEF TypeOK, ConnectedIsTended, Active, Reading
  <2>7. \A q \in Callers : q # p => call'[q] = call[q]
    BY <2>4 DEF TypeOK
  <2>8. call'[p].at = "done" /\ call[p].client = c
    BY <1>0, <2>1, <2>4, CallTypes DEF TypeOK
  <2>9. ASSUME NEW d \in Clients, d # c PROVE HandedOver(d)'
    <3>1. thread'[d] = thread[d]
      BY <2>1, <2>3, <2>9 DEF TypeOK
    <3>2. connected'[d] = connected[d] /\ mu'[d] = mu[d] /\ phase'[d] = phase[d]
      BY <2>1, <2>4, <2>9 DEF TypeOK
    <3>3. QED
      BY <2>4, <2>7, <2>8, <2>9, <3>1, <3>2, OthersPreserved
  <2>10. HandedOver(c)'
    <3>1. mu'[c] = NoOne /\ phase'[c] = "none" /\ (connected'[c] <=> phase[c] = "ok")
      BY <2>1, <2>4 DEF TypeOK
    <3>2. \A q \in Callers : ~(call'[q].at = "connect" /\ call'[q].client = c)
      BY <1>0, <2>1, <2>7, <2>8 DEF HandedOver
    <3>3. \A t \in Threads :
            /\ thread'[c][t] \notin Holding
            /\ thread'[c][t] \in Reading \cup {"relock"} => connected'[c] \/ stopping[c]
      <4>1. CASE phase[c] = "ok"
        <5>1. PICK t \in Threads : thread' = [thread EXCEPT ![c][t] = "recv"]
          BY <2>3, <4>1
        <5>2. \A u \in Threads : thread'[c][u] = IF u = t THEN "recv" ELSE "idle"
          BY <2>1, <2>2, <4>1, <5>1 DEF TypeOK
        <5>3. QED
          BY <3>1, <4>1, <5>2 DEF Holding
      <4>2. CASE phase[c] # "ok"
        BY <1>0, <2>1, <2>3, <3>1, <4>2 DEF TypeOK, HandedOver
      <4>3. QED
        BY <4>1, <4>2
    <3>4. QED
      BY <1>0, <2>1, <2>4, <3>1, <3>2, <3>3 DEF HandedOver
  <2>11. QED
    BY <2>5, <2>6, <2>9, <2>10
<1>3. CASE Stop(p)
  <2>1. c \in Clients
    BY <1>0, <1>3 DEF TypeOK, Stop
  <2>2. TypeOK'
    <3>1. call' = [call EXCEPT ![p] = [NoCall EXCEPT !.res = "ok"]]
      BY <1>0, <1>3 DEF Stop, Return
    <3>2. "ok" \in Results
      BY DEF Results
    <3>3. call' \in [Callers -> CallStates] /\ \A q \in Callers : call'[q].at # "done" => call'[q].client \in Clients
      BY <3>1, <3>2, CallTypes DEF TypeOK
    <3>4. QED
      BY <1>0, <1>3, <2>1, <3>3 DEF TypeOK, Stop, Closed, envVars
  <2>3. ConnectedIsTended'
    <3>1. thread' = thread /\ \A d \in Clients : connected'[d] => connected[d]
      BY <1>0, <1>3, <2>1 DEF TypeOK, Stop
    <3>2. QED
      BY <3>1 DEF ConnectedIsTended, Active
  <2>4. ASSUME NEW d \in Clients PROVE HandedOver(d)'
    BY <1>0, <1>3, <2>1 DEF TypeOK, HandedOver, Stop, Closed, Return, NoCall, Holding, Reading
  <2>5. QED
    BY <2>2, <2>3, <2>4
<1>4. CASE IsConnected(p)
  <2>1. c \in Clients
    BY <1>0, <1>4 DEF TypeOK, IsConnected
  <2>2. TypeOK'
    <3>1. \E res \in {"yes", "no"} : call' = [call EXCEPT ![p] = [NoCall EXCEPT !.res = res]]
      BY <1>0, <1>4 DEF IsConnected, Return
    <3>2. PICK r \in CallStates : r.at = "done" /\ call' = [call EXCEPT ![p] = r]
      BY <3>1, CallTypes
    <3>3. call' \in [Callers -> CallStates] /\ \A q \in Callers : call'[q].at # "done" => call'[q].client \in Clients
      BY <3>2 DEF TypeOK
    <3>4. QED
      BY <1>0, <1>4, <3>3 DEF TypeOK, IsConnected, lockVars, envVars
  <2>3. ConnectedIsTended'
    BY <1>0, <1>4 DEF ConnectedIsTended, Active, IsConnected, lockVars
  <2>4. ASSUME NEW d \in Clients PROVE HandedOver(d)'
    BY <1>0, <1>4, <2>1 DEF TypeOK, HandedOver, IsConnected, Return, NoCall, lockVars
  <2>5. QED
    BY <2>2, <2>3, <2>4
<1>5. QED
  BY <1>1, <1>2, <1>3, <1>4 DEF CallerStep

\* The steps of connect().
LEMMA ConnectingPreserves ==
    ASSUME ClientInv, NEW c \in Clients, Connecting(c)
    PROVE  ClientInv'
<1> USE DEF ClientInv
<1>1. UNCHANGED <<connected, stopping, mu, fails, thread, call, upload, envVars, panic>>
  BY DEF Connecting, LoadConfig, OpenStream, Handshake, ControlChannel, ConnectStep
<1>2. /\ phase[c] \in {"config", "dial", "handshake", "control"}
      /\ phase' \in [Clients -> Phases]
      /\ stream' \in [Clients -> {"nil", "live", "dead"}]
      /\ phase'[c] # "none"
      /\ phase'[c] \in {"handshake", "control", "ok"} => stream'[c] # "nil" /\ ~stopping[c]
      /\ \A d \in Clients \ {c} : phase'[d] = phase[d] /\ stream'[d] = stream[d]
      /\ stream[c] # "nil" => stream'[c] # "nil"
  <2>1. CASE LoadConfig(c)
    BY <2>1 DEF LoadConfig, ConnectStep, TypeOK, Phases, Results
  <2>2. CASE OpenStream(c)
    BY <2>2 DEF OpenStream, ConnectStep, TypeOK, Phases, Results
  <2>3. CASE Handshake(c)
    <3>1. phase[c] = "handshake" /\ stream[c] # "nil" /\ ~stopping[c]
      BY <2>3 DEF Handshake, ConnectStep, TypeOK, HandedOver
    <3>2. /\ \E to \in {"control", "auth", "fail"} : phase' = [phase EXCEPT ![c] = to]
          /\ stream' = stream \/ stream' = [stream EXCEPT ![c] = "dead"]
      BY <2>3 DEF Handshake, ConnectStep
    <3>3. {"control", "auth", "fail"} \subseteq Phases
      BY DEF Phases, Results
    <3>4. PICK to \in {"control", "auth", "fail"} : phase' = [phase EXCEPT ![c] = to]
      BY <3>2
    <3>5. /\ phase' \in [Clients -> Phases] /\ phase'[c] = to
          /\ \A d \in Clients \ {c} : phase'[d] = phase[d]
      BY <3>3, <3>4 DEF TypeOK
    <3>6. /\ stream' \in [Clients -> {"nil", "live", "dead"}] /\ stream'[c] # "nil"
          /\ \A d \in Clients \ {c} : stream'[d] = stream[d]
      BY <3>1, <3>2 DEF TypeOK
    <3>7. QED
      BY <3>1, <3>5, <3>6
  <2>4. CASE ControlChannel(c)
    BY <2>4 DEF ControlChannel, ConnectStep, TypeOK, HandedOver, Phases, Results
  <2>5. QED
    BY <2>1, <2>2, <2>3, <2>4 DEF Connecting
<1>3. TypeOK'
  BY <1>1, <1>2 DEF TypeOK, envVars
<1>4. ConnectedIsTended'
  BY <1>1 DEF ConnectedIsTended, Active
<1>5. ASSUME NEW d \in Clients, d # c PROVE HandedOver(d)'
  BY <1>1, <1>2, <1>5, OthersPreserved
<1>6. HandedOver(c)'
  BY <1>1, <1>2 DEF TypeOK, HandedOver
<1>7. QED
  BY <1>3, <1>4, <1>5, <1>6

\* A step of one goroutine of one client, from its new state to the invariant:
\* the lock and the flags of the client may change with it.
LEMMA ThreadPreserves ==
    ASSUME ClientInv, NEW c \in Clients, NEW t \in Threads,
           NEW to \in Reading \cup Reconnecting \cup {"idle"}, thread[c][t] # "idle",
           thread' = [thread EXCEPT ![c][t] = to],
           UNCHANGED <<stopping, call, upload, envVars, panic>>,
           connected' \in [Clients -> BOOLEAN], mu' \in [Clients -> Callers \cup Threads \cup {NoOne}],
           phase' \in [Clients -> Phases], stream' \in [Clients -> {"nil", "live", "dead"}],
           fails' \in [Clients -> 0..MaxFailures],
           \A d \in Clients \ {c} : /\ connected'[d] = connected[d] /\ mu'[d] = mu[d]
                                    /\ phase'[d] = phase[d] /\ stream'[d] = stream[d]
                                    /\ fails'[d] = fails[d],
           \/ mu'[c] = mu[c]
           \/ mu[c] = t /\ mu'[c] = NoOne
           \/ mu[c] = NoOne /\ mu'[c] = t,
           to \in Holding <=> mu'[c] = t,
           to \in Holding \ {"break"} => fails'[c] < MaxFailures,
           connected'[c] => connected[c] \/ mu[c] = t,
           connected'[c] => to \in Reading \cup {"relock"} /\ stream'[c] # "nil" /\ ~stopping[c],
           to \in Reading \cup {"relock"} => connected'[c] \/ stopping[c],
           to \in Holding => ((phase'[c] = "none") <=> (to # "connect")),
           mu'[c] # mu[c] => phase'[c] = "none",
           mu[c] # t => phase'[c] = phase[c],
           phase'[c] \notin {"handshake", "control", "ok"} \/ (phase'[c] = phase[c] /\ stream'[c] = stream[c])
    PROVE  ClientInv'
<1> USE ClientAssumption DEF ClientInv
<1>1. TypeOK'
  BY DEF TypeOK, envVars
<1>2. /\ \A u \in Threads \ {t} : thread[c][u] = "idle" /\ thread'[c][u] = "idle"
      /\ thread'[c][t] = to
      /\ \A d \in Clients \ {c} : thread'[d] = thread[d]
  BY DEF TypeOK, ConnectedIsTended, Active
<1>3. ConnectedIsTended'
  <2>1. ASSUME NEW d \in Clients, d # c
        PROVE  /\ \A x, y \in Active(d)' : x = y
               /\ connected'[d] => \E x \in Threads : thread'[d][x] \in Reading \cup {"relock"}
    BY <1>2, <2>1 DEF ConnectedIsTended, Active
  <2>2. \A x, y \in Active(c)' : x = y
    BY <1>2 DEF Active
  <2>3. connected'[c] => \E x \in Threads : thread'[c][x] \in Reading \cup {"relock"}
    BY <1>2
  <2>4. QED
    BY <2>1, <2>2, <2>3 DEF ConnectedIsTended
<1>4. ASSUME NEW d \in Clients, d # c PROVE HandedOver(d)'
  BY <1>2, <1>4, OthersPreserved
<1>5. HandedOver(c)'
  <2>1. \A u \in Threads \ {t} : mu[c] # u /\ mu'[c] # u /\ thread'[c][u] \notin Holding
    BY <1>2 DEF HandedOver, Holding
  <2>2. \A u \in Threads :
          /\ (thread'[c][u] \in Holding) <=> (mu'[c] = u)
          /\ thread'[c][u] \in Holding => ~connected'[c]
          /\ thread'[c][u] \in Holding \ {"break"} => fails'[c] < MaxFailures
          /\ thread'[c][u] \in Reading \cup {"relock"} => connected'[c] \/ stopping[c]
          /\ mu'[c] = u => ((phase'[c] = "none") <=> (thread'[c][u] # "connect"))
    BY <1>2, <2>1 DEF Holding, Reading
  <2>3. \A p \in Callers : /\ p # t /\ ((mu'[c] = p) <=> (mu[c] = p))
                           /\ mu'[c] = p => phase'[c] # "none" /\ ~connected'[c]
    BY DEF HandedOver
  <2>4. mu'[c] = NoOne => phase'[c] = "none"
    BY DEF HandedOver
  <2>5. QED
    BY <2>2, <2>3, <2>4 DEF HandedOver
<1>6. QED
  BY <1>1, <1>3, <1>4, <1>5

\* A step of the reading goroutine that changes nothing else.
LEMMA MovePreserves ==
    ASSUME ClientInv, NEW c \in Clients, NEW t \in Threads,
           thread[c][t] \in Reading, NEW to \in Reading \cup {"relock", "idle"},
           thread' = [thread EXCEPT ![c][t] = to],
           to = "idle" => stopping[c],
           UNCHANGED <<lockVars, call, upload, envVars, panic>>
    PROVE  ClientInv'
<1>1. mu[c] # t /\ to \notin Holding /\ thread[c][t] # "idle" /\ to \in Reading \cup Reconnecting \cup {"idle"}
  BY DEF ClientInv, HandedOver, Holding, Reading, Reconnecting
<1>2. connected[c] => to \in Reading \cup {"relock"} /\ stream[c] # "nil" /\ ~stopping[c]
  BY DEF ClientInv, HandedOver
<1>3. to \in Reading \cup {"relock"} => connected[c] \/ stopping[c]
  BY DEF ClientInv, HandedOver
<1>4. /\ connected' \in [Clients -> BOOLEAN] /\ mu' \in [Clients -> Callers \cup Threads \cup {NoOne}]
      /\ phase' \in [Clients -> Phases] /\ stream' \in [Clients -> {"nil", "live", "dead"}]
      /\ fails' \in [Clients -> 0..MaxFailures]
  BY DEF ClientInv, TypeOK, lockVars
<1>5. UNCHANGED <<connected, stopping, mu, phase, stream, fails>>
  BY DEF lockVars
<1>6. QED
  BY <1>1, <1>2, <1>3, <1>4, <1>5, ThreadPreserves

\* The reading goroutine.
LEMMA ReaderPreserves ==
    ASSUME ClientInv, NEW c \in Clients, NEW t \in Threads,
           \/ ReaderStops(c, t) \/ ReaderServes(c, t) \/ Served(c, t) \/ ReaderFails(c, t)
           \/ RecordError(c, t) \/ CheckStopping(c, t)
    PROVE  ClientInv'
<1>1. UNCHANGED <<lockVars, call, upload, envVars, panic>>
  BY DEF ReaderStops, ReaderServes, Served, ReaderFails, RecordError, CheckStopping
<1>2. PICK to \in Reading \cup {"relock", "idle"} :
         thread[c][t] \in Reading /\ thread' = [thread EXCEPT ![c][t] = to] /\ (to = "idle" => stopping[c])
  BY DEF ReaderStops, ReaderServes, Served, ReaderFails, RecordError, CheckStopping, Goto, Reading
<1>3. QED
  BY <1>1, <1>2, MovePreserves

\* The reconnecting goroutine.
LEMMA ReconnectPreserves ==
    ASSUME ClientInv, NEW c \in Clients, NEW t \in Threads,
           ReconnectBegin(c, t) \/ ReconnectTry(c, t) \/ ReconnectDone(c, t) \/ BackoffOver(c, t)
    PROVE  ClientInv'
<1> USE ClientAssumption
<1>0. t \in Callers \cup Threads \cup {NoOne} /\ t # NoOne /\ t \notin Callers
  OBVIOUS
<1>1. CASE ReconnectBegin(c, t)
  <2>1. CASE ~connected[c] \/ stopping[c]
    <3>1. thread[c][t] = "relock" /\ thread' = [thread EXCEPT ![c][t] = "idle"] /\ mu[c] = NoOne
      BY <1>1, <2>1 DEF ReconnectBegin, Goto
    <3>2. UNCHANGED <<lockVars, call, upload, envVars, panic>>
      BY <1>1, <2>1 DEF ReconnectBegin, lockVars
    <3>3. ~connected[c]
      BY <2>1 DEF ClientInv, HandedOver
    <3>4. /\ connected' \in [Clients -> BOOLEAN] /\ mu' \in [Clients -> Callers \cup Threads \cup {NoOne}]
          /\ phase' \in [Clients -> Phases] /\ stream' \in [Clients -> {"nil", "live", "dead"}]
          /\ fails' \in [Clients -> 0..MaxFailures] /\ UNCHANGED <<connected, stopping, mu, phase, stream, fails>>
      BY <3>2 DEF ClientInv, TypeOK, lockVars
    <3>5. "idle" \in Reading \cup Reconnecting \cup {"idle"} /\ "idle" \notin Holding
      BY DEF Holding
    <3>6. "idle" \notin Reading \cup {"relock"}
      BY DEF Reading
    <3>7. QED
      BY <1>0, <3>1, <3>2, <3>3, <3>4, <3>5, <3>6, ThreadPreserves
  <2>2. CASE connected[c] /\ ~stopping[c]
    <3>1. thread[c][t] = "relock" /\ thread' = [thread EXCEPT ![c][t] = "loop"] /\ mu[c] = NoOne
      BY <1>1, <2>2 DEF ReconnectBegin, Goto
    <3>2. /\ connected' = [connected EXCEPT ![c] = FALSE]
          /\ mu' = [mu EXCEPT ![c] = t]
          /\ stream' = [stream EXCEPT ![c] = "nil"]
          /\ fails' = [fails EXCEPT ![c] = 0]
          /\ UNCHANGED <<stopping, phase, call, upload, envVars, panic>>
      BY <1>1, <2>2 DEF ReconnectBegin
    <3>3. phase[c] = "none"
      BY <3>1 DEF ClientInv, HandedOver
    <3>4. /\ connected' \in [Clients -> BOOLEAN] /\ mu' \in [Clients -> Callers \cup Threads \cup {NoOne}]
          /\ phase' \in [Clients -> Phases] /\ stream' \in [Clients -> {"nil", "live", "dead"}]
          /\ fails' \in [Clients -> 0..MaxFailures]
      BY <3>2 DEF ClientInv, TypeOK
    <3>5. "loop" \in Reading \cup Reconnecting \cup {"idle"} /\ "loop" \in Holding
      BY DEF Holding, Reconnecting
    <3>6. "loop" \notin Reading \cup {"relock"}
      BY DEF Reading
    <3>7. /\ \A d \in Clients \ {c} : /\ connected'[d] = connected[d] /\ mu'[d] = mu[d]
                                      /\ phase'[d] = phase[d] /\ stream'[d] = stream[d]
                                      /\ fails'[d] = fails[d]
          /\ ~connected'[c] /\ mu'[c] = t /\ fails'[c] < MaxFailures
      BY <3>2 DEF ClientInv, TypeOK
    <3>8. QED
      BY <1>0, <3>1, <3>2, <3>3, <3>4, <3>5, <3>6, <3>7, ThreadPreserves
  <2>3. QED
    BY <2>1, <2>2 DEF ClientInv, TypeOK
<1>2. CASE ReconnectTry(c, t)
  <2>0. /\ mu[c] = t /\ thread[c][t] = "loop" /\ ~connected[c] /\ phase[c] = "none"
        /\ fails[c] < MaxFailures
        /\ UNCHANGED <<connected, stopping, stream, fails, call, upload, envVars, panic>>
    BY <1>2 DEF ReconnectTry, Goto, ClientInv, HandedOver, Holding
  <2>1. CASE stopping[c]
    <3>1. thread' = [thread EXCEPT ![c][t] = "idle"] /\ mu' = [mu EXCEPT ![c] = NoOne] /\ phase' = phase
      BY <1>2, <2>1 DEF ReconnectTry, Goto
    <3>2. /\ connected' \in [Clients -> BOOLEAN] /\ mu' \in [Clients -> Callers \cup Threads \cup {NoOne}]
          /\ phase' \in [Clients -> Phases] /\ stream' \in [Clients -> {"nil", "live", "dead"}]
          /\ fails' \in [Clients -> 0..MaxFailures]
      BY <2>0, <3>1 DEF ClientInv, TypeOK
    <3>3. "idle" \in Reading \cup Reconnecting \cup {"idle"} /\ "idle" \notin Holding
      BY DEF Holding
    <3>4. "idle" \notin Reading \cup {"relock"}
      BY DEF Reading
    <3>5. (\A d \in Clients \ {c} : mu'[d] = mu[d]) /\ mu'[c] = NoOne
      BY <3>1 DEF ClientInv, TypeOK
    <3>6. QED
      BY <1>0, <2>0, <3>1, <3>2, <3>3, <3>4, <3>5, ThreadPreserves
  <2>2. CASE ~stopping[c]
    <3>1. thread' = [thread EXCEPT ![c][t] = "connect"] /\ mu' = mu /\ phase' = [phase EXCEPT ![c] = "config"]
      BY <1>2, <2>2 DEF ReconnectTry, Goto
    <3>2. /\ connected' \in [Clients -> BOOLEAN] /\ mu' \in [Clients -> Callers \cup Threads \cup {NoOne}]
          /\ phase' \in [Clients -> Phases] /\ stream' \in [Clients -> {"nil", "live", "dead"}]
          /\ fails' \in [Clients -> 0..MaxFailures]
      BY <2>0, <3>1 DEF ClientInv, TypeOK, Phases
    <3>3. "connect" \in Reading \cup Reconnecting \cup {"idle"} /\ "connect" \in Holding
      BY DEF Holding, Reconnecting
    <3>4. "connect" \notin Reading \cup {"relock"}
      BY DEF Reading
    <3>5. (\A d \in Clients \ {c} : phase'[d] = phase[d]) /\ phase'[c] = "config"
      BY <3>1 DEF ClientInv, TypeOK
    <3>6. QED
      BY <1>0, <2>0, <3>1, <3>2, <3>3, <3>4, <3>5, ThreadPreserves
  <2>3. QED
    BY <2>1, <2>2
<1>3. CASE ReconnectDone(c, t)
  <2>0. /\ mu[c] = t /\ thread[c][t] = "connect" /\ ~connected[c] /\ phase[c] \in Results
        /\ phase' = [phase EXCEPT ![c] = "none"]
        /\ UNCHANGED <<stopping, stream, call, upload, envVars, panic>>
    BY <1>3 DEF ReconnectDone, ClientInv, HandedOver, Holding
  <2>f. fails[c] < MaxFailures /\ fails[c] \in 0..MaxFailures
    BY <2>0 DEF ClientInv, TypeOK, HandedOver, Holding
  <2>1. /\ phase' \in [Clients -> Phases] /\ stream' \in [Clients -> {"nil", "live", "dead"}]
        /\ \A d \in Clients \ {c} : phase'[d] = phase[d] /\ stream'[d] = stream[d]
        /\ phase'[c] = "none"
    BY <2>0 DEF ClientInv, TypeOK, Phases
  <2>2. CASE phase[c] = "ok"
    <3>1. /\ thread' = [thread EXCEPT ![c][t] = "recv"]
          /\ connected' = [connected EXCEPT ![c] = TRUE]
          /\ mu' = [mu EXCEPT ![c] = NoOne]
          /\ fails' = fails
      BY <1>3, <2>2 DEF ReconnectDone, Goto
    <3>2. /\ connected' \in [Clients -> BOOLEAN] /\ mu' \in [Clients -> Callers \cup Threads \cup {NoOne}]
          /\ fails' \in [Clients -> 0..MaxFailures]
          /\ \A d \in Clients \ {c} : mu'[d] = mu[d] /\ connected'[d] = connected[d]
          /\ mu'[c] = NoOne /\ connected'[c]
      BY <3>1 DEF ClientInv, TypeOK
    <3>3. "recv" \in Reading \cup Reconnecting \cup {"idle"} /\ "recv" \notin Holding /\ "recv" \in Reading \cup {"relock"}
      BY DEF Holding, Reading
    <3>4. stream[c] # "nil" /\ ~stopping[c]
      BY <2>2 DEF ClientInv, HandedOver
    <3>5. QED
      BY <1>0, <2>0, <2>1, <3>1, <3>2, <3>3, <3>4, ThreadPreserves
  <2>3. CASE phase[c] = "fatal"
    <3>1. /\ thread' = [thread EXCEPT ![c][t] = "idle"]
          /\ mu' = [mu EXCEPT ![c] = NoOne]
          /\ UNCHANGED <<connected, fails>>
      BY <1>3, <2>3 DEF ReconnectDone, Goto
    <3>2. /\ connected' \in [Clients -> BOOLEAN] /\ mu' \in [Clients -> Callers \cup Threads \cup {NoOne}]
          /\ fails' \in [Clients -> 0..MaxFailures]
          /\ \A d \in Clients \ {c} : mu'[d] = mu[d] /\ connected'[d] = connected[d]
          /\ mu'[c] = NoOne
      BY <3>1 DEF ClientInv, TypeOK
    <3>3. "idle" \in Reading \cup Reconnecting \cup {"idle"} /\ "idle" \notin Holding
      BY DEF Holding
    <3>4. "idle" \notin Reading \cup {"relock"}
      BY DEF Reading
    <3>5. QED
      BY <1>0, <2>0, <2>1, <3>1, <3>2, <3>3, <3>4, ThreadPreserves
  <2>4. CASE phase[c] \in {"auth", "fail"}
    <3>1. /\ fails' = [fails EXCEPT ![c] = @ + 1]
          /\ thread' = [thread EXCEPT ![c][t] = IF fails[c] + 1 >= MaxFailures THEN "break" ELSE "wait"]
          /\ UNCHANGED <<connected, mu>>
      BY <1>3, <2>4 DEF ReconnectDone, Goto
    <3>2. PICK to \in {"break", "wait"} : thread' = [thread EXCEPT ![c][t] = to]
      BY <3>1
    <3>3. /\ connected' \in [Clients -> BOOLEAN] /\ mu' \in [Clients -> Callers \cup Threads \cup {NoOne}]
          /\ fails' \in [Clients -> 0..MaxFailures] /\ fails'[c] = fails[c] + 1
          /\ \A d \in Clients \ {c} : fails'[d] = fails[d]
      BY <2>f, <3>1 DEF ClientInv, TypeOK
    <3>4. to \in Reading \cup Reconnecting \cup {"idle"} /\ to \in Holding
      BY DEF Holding, Reconnecting
    <3>5. to \notin Reading \cup {"relock"} /\ to # "connect"
      BY DEF Reading
    <3>6. thread'[c][t] = to
      BY <3>2 DEF ClientInv, TypeOK
    <3>7. to # "break" => fails'[c] < MaxFailures
      BY <2>f, <3>1, <3>3, <3>6 DEF ClientInv, TypeOK
    <3>8. QED
      BY <1>0, <2>0, <2>1, <3>1, <3>2, <3>3, <3>4, <3>5, <3>7, ThreadPreserves
  <2>5. QED
    BY <2>0, <2>2, <2>3, <2>4 DEF Results
<1>4. CASE BackoffOver(c, t)
  <2>1. /\ thread[c][t] \in {"wait", "break"} /\ thread' = [thread EXCEPT ![c][t] = "loop"]
        /\ UNCHANGED <<connected, stopping, mu, phase, stream, call, upload, envVars, panic>>
        /\ fails' = IF thread[c][t] = "wait" THEN fails ELSE [fails EXCEPT ![c] = 0]
    BY <1>4 DEF BackoffOver, Goto
  <2>2. mu[c] = t /\ ~connected[c] /\ phase[c] = "none"
    BY <2>1 DEF ClientInv, HandedOver, Holding
  <2>3. thread[c][t] = "wait" => fails[c] < MaxFailures
    BY DEF ClientInv, HandedOver, Holding
  <2>4. /\ connected' \in [Clients -> BOOLEAN] /\ mu' \in [Clients -> Callers \cup Threads \cup {NoOne}]
        /\ phase' \in [Clients -> Phases] /\ stream' \in [Clients -> {"nil", "live", "dead"}]
        /\ fails' \in [Clients -> 0..MaxFailures] /\ fails'[c] < MaxFailures
        /\ \A d \in Clients \ {c} : fails'[d] = fails[d]
    BY <2>1, <2>3 DEF ClientInv, TypeOK
  <2>5. "loop" \in Reading \cup Reconnecting \cup {"idle"} /\ "loop" \in Holding
    BY DEF Holding, Reconnecting
  <2>6. "loop" \notin Reading \cup {"relock"}
    BY DEF Reading
  <2>7. QED
    BY <1>0, <2>1, <2>2, <2>4, <2>5, <2>6, ThreadPreserves
<1>5. QED
  BY <1>1, <1>2, <1>3, <1>4

\* The goroutines of the uploads change their own state only, and panic.
LEMMA UploadPreserves ==
    ASSUME ClientInv, NEW c \in Clients, NEW u \in Uploads,
           Uploading(c, u) \/ \E t \in Threads : UploadStart(c, t, u)
    PROVE  ClientInv'
<1>1. UNCHANGED <<lockVars, thread, call, envVars>>
  BY DEF Uploading, SendEmpty, TestStream, SendTested, UploadCancelled, UploadStart
<1>2. panic' \in BOOLEAN /\ \E to \in UploadStates : upload' = [upload EXCEPT ![c][u] = to]
  <2>1. CASE \E t \in Threads : UploadStart(c, t, u)
    BY <2>1 DEF UploadStart, UploadStates, ClientInv, TypeOK
  <2>2. CASE SendEmpty(c, u)
    BY <2>2 DEF SendEmpty, Send, UploadStates
  <2>3. CASE TestStream(c, u)
    BY <2>3 DEF TestStream, UploadStates, ClientInv, TypeOK
  <2>4. CASE SendTested(c, u)
    BY <2>4 DEF SendTested, Send, UploadStates
  <2>5. CASE UploadCancelled(c, u)
    BY <2>5 DEF UploadCancelled, UploadStates, ClientInv, TypeOK
  <2>6. QED
    BY <2>1, <2>2, <2>3, <2>4, <2>5 DEF Uploading
<1>3. TypeOK'
  BY <1>1, <1>2 DEF ClientInv, TypeOK, lockVars, envVars
<1>4. QED
  BY <1>1, <1>3, QuietPreserves DEF lockVars

\* The server, the network, the files and the account.
LEMMA EnvironmentPreserves ==
    ASSUME ClientInv, Environment
    PROVE  ClientInv'
<1>1. /\ UNCHANGED <<connected, stopping, mu, phase, fails, thread, call, upload, panic>>
      /\ faults < MaxFaults /\ faults' = faults + 1
  BY DEF Environment, ServerChanges, FilesChange, AccountChanges, Change, StreamBreaks
<1>2. world' \in [server : {"up", "hung", "down"}, certs : BOOLEAN, account : BOOLEAN]
  <2>1. CASE ServerChanges
    BY <2>1 DEF ServerChanges, Change, ClientInv, TypeOK
  <2>2. CASE FilesChange
    BY <2>2 DEF FilesChange, Change, ClientInv, TypeOK
  <2>3. CASE AccountChanges
    BY <2>3 DEF AccountChanges, Change, ClientInv, TypeOK
  <2>4. CASE \E c \in Clients : StreamBreaks(c)
    BY <2>4 DEF StreamBreaks, ClientInv, TypeOK
  <2>5. QED
    BY <2>1, <2>2, <2>3, <2>4 DEF Environment
<1>3. /\ stream' \in [Clients -> {"nil", "live", "dead"}]
      /\ \A c \in Clients : stream'[c] = "nil" => stream[c] = "nil"
  <2>1. CASE \E c \in Clients : StreamBreaks(c)
    BY <2>1 DEF StreamBreaks, ClientInv, TypeOK
  <2>2. CASE \E w : stream' = [c \in Clients |-> IF w.server = "down" THEN Closed(c) ELSE stream[c]]
    BY <2>2 DEF Closed, ClientInv, TypeOK
  <2>3. QED
    BY <2>1, <2>2 DEF Environment, ServerChanges, FilesChange, AccountChanges, Change
<1>4. TypeOK'
  BY <1>1, <1>2, <1>3, ClientAssumption DEF ClientInv, TypeOK
<1>5. QED
  BY <1>1, <1>3, <1>4, QuietPreserves

\* Every step of the clients, whoever composes them.
LEMMA ClientNextPreserves ==
    ASSUME ClientInv, ClientNext
    PROVE  ClientInv'
<1>1. CASE \E p \in Callers : CallerStep(p)
  BY <1>1, CallerPreserves
<1>2. CASE \E c \in Clients : Connecting(c)
  BY <1>2, ConnectingPreserves
<1>3. CASE \E c \in Clients, t \in Threads : LockStep(c, t) \/ OwnStep(c, t) \/ ReaderServes(c, t)
  BY <1>3, ReaderPreserves, ReconnectPreserves DEF LockStep, OwnStep
<1>4. CASE \E c \in Clients, t \in Threads, u \in Uploads : UploadStart(c, t, u)
  BY <1>4, UploadPreserves
<1>5. CASE \E c \in Clients, u \in Uploads : Uploading(c, u)
  BY <1>5, UploadPreserves
<1>6. CASE Environment
  BY <1>6, EnvironmentPreserves
<1>7. QED
  BY <1>1, <1>2, <1>3, <1>4, <1>5, <1>6 DEF ClientNext

\* What one step of the clients does to the flag of a panic and to `stopping'.
LEMMA ClientNextFlags ==
    ASSUME ClientInv, ClientNext
    PROVE  /\ panic' => panic \/ \E c \in Clients, u \in Uploads :
                                     upload'[c][u] # "none" /\ stream[c] = "nil" /\ stream' = stream /\ connected' = connected
           /\ \A c \in Clients : stopping[c] => stopping'[c]
<1>1. CASE \E p \in Callers : CallerStep(p)
  <2>1. PICK p \in Callers : CallerStep(p)
    BY <1>1
  <2>2. CASE Stop(p)
    BY <2>2 DEF Stop, lockVars, ClientInv, TypeOK
  <2>3. CASE StartLocked(p) \/ StartDone(p) \/ IsConnected(p)
    BY <2>3 DEF StartLocked, StartDone, IsConnected, lockVars
  <2>4. QED
    BY <2>1, <2>2, <2>3 DEF CallerStep
<1>2. CASE \E c \in Clients : Connecting(c)
  BY <1>2 DEF Connecting, LoadConfig, OpenStream, Handshake, ControlChannel, ConnectStep
<1>3. CASE \E c \in Clients, t \in Threads : LockStep(c, t) \/ OwnStep(c, t) \/ ReaderServes(c, t)
  BY <1>3 DEF LockStep, OwnStep, ReaderStops, ReaderServes, Served, ReaderFails, RecordError,
              CheckStopping, ReconnectBegin, ReconnectTry, ReconnectDone, BackoffOver, lockVars
<1>4. CASE \E c \in Clients, t \in Threads, u \in Uploads : UploadStart(c, t, u)
  BY <1>4 DEF UploadStart, lockVars
<1>5. CASE \E c \in Clients, u \in Uploads : Uploading(c, u)
  <2>1. PICK c \in Clients, u \in Uploads : Uploading(c, u)
    BY <1>5
  <2>2. UNCHANGED <<stream, connected, stopping>>
    BY <2>1 DEF Uploading, SendEmpty, TestStream, SendTested, UploadCancelled, lockVars
  <2>3. panic' => panic \/ (stream[c] = "nil" /\ upload'[c][u] # "none")
    <3>1. CASE TestStream(c, u) \/ UploadCancelled(c, u)
      BY <3>1 DEF TestStream, UploadCancelled
    <3>2. CASE SendEmpty(c, u) \/ SendTested(c, u)
      <4>1. PICK to \in {"done", "error", "body"} : Send(c, u, to)
        BY <3>2 DEF SendEmpty, SendTested
      <4>2. QED
        BY <4>1 DEF Send, ClientInv, TypeOK
    <3>3. QED
      BY <2>1, <3>1, <3>2 DEF Uploading
  <2>4. QED
    BY <2>2, <2>3
<1>6. CASE Environment
  BY <1>6 DEF Environment, ServerChanges, FilesChange, AccountChanges, Change, StreamBreaks
<1>7. QED
  BY <1>1, <1>2, <1>3, <1>4, <1>5, <1>6 DEF ClientNext

\* A step of GRPCTunnelClient on its own.
LEMMA ClientStepSafe ==
    ASSUME ClientCore, [Next]_vars
    PROVE  ClientCore' /\ \A c \in Clients : stopping[c] => stopping'[c] /\ ~connected'[c]
<1> USE DEF ClientCore
<1>1. CASE UNCHANGED vars
  <2>1. UNCHANGED <<connected, stopping, mu, phase, thread, call, fails, stream, upload, world, faults, panic>>
    BY <1>1 DEF vars, lockVars, envVars
  <2>2. TypeOK'
    BY <2>1 DEF ClientInv, TypeOK
  <2>3. ClientInv'
    BY <2>1, <2>2, QuietPreserves
  <2>4. QED
    BY <2>1, <2>3 DEF NoPanicWhileConnected, ClientInv, HandedOver
<1>2. CASE Next
  <2>1. CASE \E p \in Callers, op \in {"start", "stop", "isconn"}, c \in Clients : Call(p, op, c)
    <3>1. ClientInv' /\ UNCHANGED <<lockVars, panic>>
      BY <2>1, CallPreserves DEF Call
    <3>2. QED
      BY <3>1 DEF NoPanicWhileConnected, lockVars, ClientInv, HandedOver
  <2>2. CASE ClientNext
    <3>1. ClientInv'
      BY <2>2, ClientNextPreserves
    <3>2. NoPanicWhileConnected'
      BY <1>2, <2>2, ClientNextFlags DEF Next, NoPanicWhileConnected, ClientInv, HandedOver
    <3>3. \A c \in Clients : stopping[c] => stopping'[c] /\ ~connected'[c]
      BY <2>2, <3>1, ClientNextFlags DEF ClientInv, HandedOver
    <3>4. QED
      BY <3>1, <3>2, <3>3
  <2>3. QED
    BY <1>2, <2>1, <2>2 DEF Next
<1>3. QED
  BY <1>1, <1>2

\* Whoever holds c.mu, a caller of Start or a reconnecting goroutine, is at a
\* step it can take, unless the server is silent.
LEMMA HolderReady == ClientInv => HolderGoesOn
<1> SUFFICES ASSUME ClientInv, NEW c \in Clients, mu[c] # NoOne
             PROVE  \/ ServerIsSilent(c)
                    \/ phase[c] \in {"config", "dial"}
                    \/ phase[c] = "handshake" /\ stream[c] \in {"live", "dead"}
                    \/ phase[c] = "control" /\ (world.server = "up" \/ stream[c] = "dead")
                    \/ /\ phase[c] \in Results
                       /\ \/ \E p \in Callers : mu[c] = p /\ call[p].at = "connect" /\ call[p].client = c
                          \/ \E t \in Threads : mu[c] = t /\ thread[c][t] = "connect"
                    \/ \E t \in Threads : mu[c] = t /\ thread[c][t] \in {"loop", "wait", "break"}
  BY DEF HolderGoesOn
<1>1. /\ mu[c] \in Callers \cup Threads
      /\ phase[c] \in Phases
      /\ stream[c] \in {"nil", "live", "dead"}
  BY DEF ClientInv, TypeOK
<1>2. phase[c] \in {"handshake", "control"} => stream[c] \in {"live", "dead"}
  BY <1>1 DEF ClientInv, HandedOver
<1>3. phase[c] = "control" => ServerIsSilent(c) \/ world.server = "up" \/ stream[c] = "dead"
  BY <1>2 DEF ServerIsSilent
<1>4. CASE mu[c] \in Callers
  <2>1. PICK p \in Callers : mu[c] = p
    BY <1>4
  <2>2. call[p].at = "connect" /\ call[p].client = c /\ phase[c] # "none"
    BY <2>1 DEF ClientInv, HandedOver
  <2>3. QED
    BY <1>1, <1>2, <1>3, <2>1, <2>2 DEF Phases
<1>5. CASE mu[c] \in Threads
  <2>1. PICK t \in Threads : mu[c] = t
    BY <1>5
  <2>2. thread[c][t] \in Holding /\ (phase[c] = "none" <=> thread[c][t] # "connect")
    BY <2>1 DEF ClientInv, HandedOver
  <2>3. QED
    BY <1>1, <1>2, <1>3, <2>1, <2>2 DEF Phases, Holding
<1>6. QED
  BY <1>1, <1>4, <1>5

\* Start, Stop, the reader, the reconnection and the uploads of any number of
\* clients, called by anybody at any time, hand every connection over under
\* c.mu: none is lost, served twice, or used by an upload while it is nil and
\* its client says it is connected; and nobody keeps c.mu at a step it cannot
\* take, except while the server is silent.
THEOREM ClientsAreSafe == Spec => []ClientSafe
<1>1. Init => ClientCore
  BY ClientsInit DEF ClientCore, NoPanicWhileConnected, Init
<1>2. ClientCore /\ [Next]_vars => ClientCore'
  BY ClientStepSafe
<1>3. ClientCore => ClientSafe
  BY HolderReady DEF ClientCore, ClientSafe
<1>4. QED
  BY <1>1, <1>2, <1>3, PTL DEF Spec

\* A client that Stop stopped is never connected again, whatever Start or
\* reconnection was under way.
THEOREM StoppedForGood == Spec => StoppedStaysStopped
<1>1. ClientCore /\ [Next]_vars => [\A c \in Clients : stopping[c] => stopping'[c] /\ ~connected'[c]]_vars
  BY ClientStepSafe
<1>2. ClientSafe => ClientCore
  BY DEF ClientSafe
<1>3. QED
  BY <1>1, <1>2, ClientsAreSafe, PTL DEF Spec, StoppedStaysStopped

-----------------------------------------------------------------------------
(* The Tunnel: what it checks, with what makes it inductive.               *)

TunnelSafe == TunnelInv /\ StrayInv /\ PlaceIsLeft /\ LimitUntilRestore

\* The first execution of connectWithRetry is alone and there is no client.
LEMMA TunnelSafeInit == TunnelInit => TunnelSafe
<1> SUFFICES ASSUME TunnelInit PROVE TunnelSafe
  OBVIOUS
<1> USE ClientAssumption, TunnelAssumption DEF TunnelInit
<1>1. ClientInv
  BY ClientsInit
<1>2. PICK p \in Callers \ {Updater} :
         run = [q \in Callers |-> IF q = p THEN [at |-> "top", tls |-> TRUE] ELSE Idle]
  OBVIOUS
<1>3. TunnelTypeOK
  <2>1. run \in [Callers -> RunStates]
    BY <1>2 DEF RunStates, Idle
  <2>2. rs \in RestoreStates
    BY DEF RestoreStates
  <2>3. est \in [Clients -> {"none", "address", "dial"}] /\ ws \in [Conns -> {"none", "pooled", "broken", "closed"}]
    OBVIOUS
  <2>4. restores \in 0..MaxRestores /\ made \subseteq Clients /\ grpc \in Clients \cup {NoOne}
    OBVIOUS
  <2>5. QED
    BY <2>1, <2>2, <2>3, <2>4 DEF TunnelTypeOK
<1>4. \A q \in Callers : call[q].at = "done" /\ (Running(q) => q = p) /\ run[q].at \in {"idle", "top"}
  BY <1>2 DEF Running, Idle, Init, NoCall
<1>5. \A c \in Clients : ~connected[c] /\ \A t \in Threads : thread[c][t] = "idle"
  BY DEF Init
<1>6. CallsBelong
  BY <1>4 DEF CallsBelong
<1>7. OneClientAtFirst
  BY <1>4, <1>5 DEF OneClientAtFirst, Starting
<1>8. CrashNeedsRestore
  BY DEF CrashNeedsRestore, Init
<1>9. StrayInv
  BY <1>4, <1>5 DEF StrayInv, Retired, Starting
<1>10. PlaceIsLeft /\ LimitUntilRestore
  <2>1. Pool = {}
    BY DEF Pool
  <2>2. QED
    BY <2>1, FS_EmptySet DEF PlaceIsLeft, LimitUntilRestore
<1>11. QED
  BY <1>1, <1>3, <1>6, <1>7, <1>8, <1>9, <1>10 DEF TunnelSafe, TunnelInv

\* How a step of the clients may change what the Tunnel's invariants speak of.
LEMMA ClientEffects ==
    ASSUME ClientInv, CallsBelong, ClientNext
    PROVE  /\ \A p \in Callers : call'[p].at # "done" =>
                 /\ call[p].at # "done" /\ call'[p].client = call[p].client /\ call'[p].op = call[p].op
                 /\ call'[p].at = "connect" /\ call[p].at # "connect" => call[p].op = "start"
           /\ \A c \in Clients, t \in Threads : thread'[c][t] # "idle" => thread[c][t] # "idle" \/ Starting(c)
           /\ \A c \in Clients : connected'[c] =>
                 connected[c] \/ Starting(c) \/ \E t \in Threads : thread[c][t] # "idle" /\ ~stopping[c]
<1> USE DEF ClientInv
<1>1. CASE \E p \in Callers : CallerStep(p)
  <2>1. PICK p \in Callers : CallerStep(p)
    BY <1>1
  <2>2. PICK c \in Clients : call[p].client = c
    BY <2>1 DEF TypeOK, CallerStep, StartLocked, StartDone, Stop, IsConnected
  <2>3. CASE StartDone(p)
    <3>1. call[p].at = "connect" /\ call[p].op = "start" /\ Starting(c)
      BY <2>2, <2>3 DEF StartDone, CallsBelong, Starting
    <3>2. /\ call' = [call EXCEPT ![p] = [NoCall EXCEPT !.res = phase[c]]]
          /\ connected' = [connected EXCEPT ![c] = phase[c] = "ok"]
          /\ thread' = thread \/ \E t \in Threads : thread' = [thread EXCEPT ![c][t] = "recv"]
      BY <2>2, <2>3 DEF StartDone, Return, NewReader
    <3>3. [NoCall EXCEPT !.res = phase[c]].at = "done"
      BY <2>2, <2>3, CallTypes DEF StartDone
    <3>4. \A q \in Callers : call'[q].at # "done" => call'[q] = call[q]
      BY <3>2, <3>3 DEF TypeOK
    <3>5. \A d \in Clients, t \in Threads : d # c => thread'[d][t] = thread[d][t] /\ connected'[d] = connected[d]
      BY <3>2 DEF TypeOK
    <3>6. QED
      BY <3>1, <3>4, <3>5 DEF Threads
  <2>4. CASE StartLocked(p) \/ Stop(p) \/ IsConnected(p)
    <3>1. thread' = thread /\ \A d \in Clients : connected'[d] => connected[d]
      BY <2>2, <2>4 DEF TypeOK, StartLocked, Stop, IsConnected, lockVars
    <3>2. \A q \in Callers : q # p => call'[q] = call[q]
      BY <2>4 DEF TypeOK, StartLocked, Stop, IsConnected, Return
    <3>3. call[p].at = "lock" /\ call[p] \in CallStates
      BY <2>4 DEF TypeOK, StartLocked, Stop, IsConnected
    <3>4. \/ call'[p].at = "done"
          \/ call[p].op = "start" /\ call'[p] = [call[p] EXCEPT !.at = "connect"]
      <4>1. CASE StartLocked(p)
        <5>1. \/ call' = [call EXCEPT ![p] = [NoCall EXCEPT !.res = "already"]]
              \/ call' = [call EXCEPT ![p].at = "connect"]
          BY <4>1 DEF StartLocked, Return
        <5>2. [NoCall EXCEPT !.res = "already"].at = "done" /\ call[p].op = "start"
          BY <4>1 DEF NoCall, StartLocked
        <5>3. QED
          BY <5>1, <5>2 DEF TypeOK
      <4>2. CASE Stop(p)
        <5>1. call' = [call EXCEPT ![p] = [NoCall EXCEPT !.res = "ok"]] /\ [NoCall EXCEPT !.res = "ok"].at = "done"
          BY <4>2 DEF Stop, Return, NoCall
        <5>2. QED
          BY <5>1 DEF TypeOK
      <4>3. CASE IsConnected(p)
        <5>1. \E res : call' = [call EXCEPT ![p] = [NoCall EXCEPT !.res = res]]
          BY <4>3 DEF IsConnected, Return
        <5>2. \A res : [NoCall EXCEPT !.res = res].at = "done"
          BY DEF NoCall
        <5>3. QED
          BY <5>1, <5>2 DEF TypeOK
      <4>4. QED
        BY <2>4, <4>1, <4>2, <4>3
    <3>5. call'[p].at # "done" => call'[p].client = call[p].client /\ call'[p].op = call[p].op
      BY <3>3, <3>4 DEF CallStates
    <3>6. QED
      BY <3>1, <3>2, <3>3, <3>4, <3>5
  <2>5. QED
    BY <2>1, <2>3, <2>4 DEF CallerStep
<1>2. CASE \E c \in Clients : Connecting(c)
  BY <1>2 DEF Connecting, LoadConfig, OpenStream, Handshake, ControlChannel, ConnectStep
<1>3. CASE \E c \in Clients, t \in Threads : LockStep(c, t) \/ OwnStep(c, t) \/ ReaderServes(c, t)
  <2>1. PICK c \in Clients, t \in Threads : LockStep(c, t) \/ OwnStep(c, t) \/ ReaderServes(c, t)
    BY <1>3
  <2>2. call' = call /\ thread[c][t] # "idle" /\ \E to : thread' = [thread EXCEPT ![c][t] = to]
    BY <2>1 DEF LockStep, OwnStep, ReaderStops, ReaderServes, Served, ReaderFails, RecordError,
                CheckStopping, ReconnectBegin, ReconnectTry, ReconnectDone, BackoffOver, Goto
  <2>3. \A d \in Clients, x \in Threads : d # c \/ x # t => thread'[d][x] = thread[d][x]
    BY <2>2 DEF TypeOK
  <2>4. CASE ~ReconnectDone(c, t)
    <3>1. \A d \in Clients : connected'[d] => connected[d]
      BY <2>1, <2>4 DEF LockStep, OwnStep, ReaderStops, ReaderServes, Served, ReaderFails, RecordError,
                  CheckStopping, ReconnectBegin, ReconnectTry, BackoffOver, lockVars, TypeOK
    <3>2. QED
      BY <2>2, <2>3, <3>1
  <2>5. CASE ReconnectDone(c, t)
    <3>1. (\A d \in Clients \ {c} : connected'[d] = connected[d]) /\ (connected'[c] => connected[c] \/ phase[c] = "ok")
      BY <2>5 DEF ReconnectDone, TypeOK
    <3>2. phase[c] = "ok" => ~stopping[c]
      BY DEF HandedOver
    <3>3. QED
      BY <2>2, <2>3, <3>1, <3>2
  <2>6. QED
    BY <2>4, <2>5
<1>4. CASE \E c \in Clients, t \in Threads, u \in Uploads : UploadStart(c, t, u)
  BY <1>4 DEF UploadStart, lockVars
<1>5. CASE \E c \in Clients, u \in Uploads : Uploading(c, u)
  BY <1>5 DEF Uploading, SendEmpty, TestStream, SendTested, UploadCancelled, lockVars
<1>6. CASE Environment
  BY <1>6 DEF Environment, ServerChanges, FilesChange, AccountChanges, Change, StreamBreaks
<1>7. QED
  BY <1>1, <1>2, <1>3, <1>4, <1>5, <1>6 DEF ClientNext

\* Stop, once it has returned, leaves a client that is retired, if nobody is
\* starting it.
LEMMA StopRetires ==
    ASSUME ClientInv, CallsBelong, ClientNext, NEW p \in Callers, NEW c \in Clients,
           call[p].at # "done", call[p].op = "stop", call[p].client = c, call'[p].at = "done", ~Starting(c)
    PROVE  ~connected'[c] /\ \A t \in Threads : thread'[c][t] # "idle" => stopping'[c]
<1> USE ClientAssumption DEF ClientInv, Threads
<1>1. \E q \in Callers : CallerStep(q)
  <2>1. CASE \E d \in Clients : Connecting(d)
    BY <2>1 DEF Connecting, LoadConfig, OpenStream, Handshake, ControlChannel, ConnectStep
  <2>2. CASE \E d \in Clients, t \in Threads : LockStep(d, t) \/ OwnStep(d, t) \/ ReaderServes(d, t)
    BY <2>2 DEF LockStep, OwnStep, ReaderStops, ReaderServes, Served, ReaderFails, RecordError,
                CheckStopping, ReconnectBegin, ReconnectTry, ReconnectDone, BackoffOver
  <2>3. CASE \E d \in Clients, t \in Threads, u \in Uploads : UploadStart(d, t, u)
    BY <2>3 DEF UploadStart
  <2>4. CASE \E d \in Clients, u \in Uploads : Uploading(d, u)
    BY <2>4 DEF Uploading, SendEmpty, TestStream, SendTested, UploadCancelled
  <2>5. CASE Environment
    BY <2>5 DEF Environment, ServerChanges, FilesChange, AccountChanges, Change, StreamBreaks
  <2>6. QED
    BY <2>1, <2>2, <2>3, <2>4, <2>5 DEF ClientNext
<1>2. CallerStep(p)
  <2>1. PICK q \in Callers : CallerStep(q)
    BY <1>1
  <2>2. \A r \in Callers : r # q => call'[r] = call[r]
    BY <2>1 DEF CallerStep, StartLocked, StartDone, Stop, IsConnected, Return, TypeOK
  <2>3. QED
    BY <2>1, <2>2
<1>3. Stop(p)
  BY <1>2 DEF CallerStep, StartLocked, StartDone, IsConnected, CallsBelong
<1>4. mu[c] = NoOne /\ thread' = thread
  BY <1>3 DEF Stop
<1>5. CASE connected[c]
  BY <1>3, <1>5 DEF Stop, TypeOK
<1>6. CASE ~connected[c]
  <2>1. UNCHANGED <<connected, stopping>>
    BY <1>3, <1>6 DEF Stop
  <2>2. \A t \in Threads : thread[c][t] # "idle" => thread[c][t] \in Reading \cup {"relock"}
    BY <1>4 DEF HandedOver, TypeOK, Holding, Reading, Reconnecting
  <2>3. QED
    BY <1>4, <1>6, <2>1, <2>2 DEF HandedOver
<1>7. QED
  BY <1>5, <1>6

\* A retired client stays retired, and one that was never used stays unused,
\* whatever the clients do.
LEMMA RetiredStays ==
    ASSUME ClientInv, CallsBelong, ClientNext, NEW c \in Clients, ~Starting(c)
    PROVE  /\ ~Starting(c)'
           /\ Retired(c) => Retired(c)'
           /\ ~connected[c] /\ (\A t \in Threads : thread[c][t] = "idle")
                 => ~connected'[c] /\ \A t \in Threads : thread'[c][t] = "idle"
<1>1. ~Starting(c)'
  BY ClientEffects DEF Starting
<1>2. Retired(c) => Retired(c)'
  BY <1>1, ClientEffects, ClientNextFlags DEF Retired
<1>3. QED
  BY <1>1, <1>2, ClientEffects

\* The steps of the clients in the Tunnel.
LEMMA OfClientsPreserves ==
    ASSUME TunnelSafe, OfClients(ClientStep)
    PROVE  TunnelSafe'
<1> USE ClientAssumption, TunnelAssumption DEF TunnelSafe, TunnelInv
<1>1. ClientNext
  BY DEF OfClients, ClientStep, ClientNext, ReaderStep
<1>2. UNCHANGED <<tstate, grpc, enabled, made, cancelled, retried, locked, run, est, ws, rs, restores, overlap>>
      /\ ~panic
  BY DEF OfClients, tunnelVars, connVars
<1>3. ClientInv'
  BY <1>1, ClientNextPreserves
<1>4. TunnelTypeOK'
  BY <1>2 DEF TunnelTypeOK
<1>5. CallsBelong'
  BY <1>1, <1>2, ClientEffects DEF CallsBelong, Running
<1>6. OneClientAtFirst'
  <2>1. SUFFICES ASSUME restores = 0 PROVE OneClientAtFirst'
    BY <1>2 DEF OneClientAtFirst
  <2>2. \A c \in Clients \ {grpc} :
          ~connected'[c] /\ est[c] = "none" /\ ~Starting(c)' /\ \A t \in Threads : thread'[c][t] = "idle"
    BY <1>1, <2>1, RetiredStays DEF OneClientAtFirst
  <2>3. QED
    BY <1>2, <2>1, <2>2 DEF OneClientAtFirst, Running
<1>7. CrashNeedsRestore'
  BY <1>1, <1>2, ClientNextFlags DEF CrashNeedsRestore
<1>8. StrayInv'
  <2>1. SUFFICES ASSUME ~overlap PROVE StrayInv'
    BY <1>2 DEF StrayInv
  <2>2. \A c \in Clients \ {grpc} : Retired(c)'
    BY <1>1, <2>1, RetiredStays DEF StrayInv, Retired
  <2>3. ASSUME rs.at = "stop"
        PROVE  /\ call'[Updater].at # "done" => call'[Updater].client = grpc
               /\ call'[Updater].at = "done" => \A c \in Clients : Retired(c)'
    <3>1. \A p \in Callers : ~Running(p)
      BY <2>1, <2>3 DEF StrayInv
    <3>2. \A c \in Clients : ~Starting(c)
      BY <3>1 DEF CallsBelong, Starting, Running
    <3>3. call'[Updater].at # "done" => call'[Updater].client = grpc
      BY <1>1, <2>1, <2>3, ClientEffects DEF StrayInv
    <3>4. ASSUME call'[Updater].at = "done" PROVE \A c \in Clients : Retired(c)'
      <4>1. CASE call[Updater].at = "done"
        BY <1>1, <2>1, <2>3, <3>2, <4>1, RetiredStays DEF StrayInv
      <4>2. CASE call[Updater].at # "done"
        <5>1. call[Updater].op = "stop" /\ call[Updater].client = grpc /\ grpc \in Clients
          BY <2>1, <2>3, <3>1, <4>2 DEF StrayInv, CallsBelong, Running, ClientInv, TypeOK
        <5>2. ~connected'[grpc] /\ \A t \in Threads : thread'[grpc][t] # "idle" => stopping'[grpc]
          BY <1>1, <3>2, <3>4, <4>2, <5>1, StopRetires
        <5>3. Retired(grpc)'
          BY <1>1, <1>2, <3>2, <5>1, <5>2, RetiredStays DEF Retired, Starting
        <5>4. ASSUME NEW c \in Clients, c # grpc PROVE Retired(c)'
          BY <2>2, <5>4
        <5>5. QED
          BY <1>2, <5>3, <5>4 DEF Retired, Starting
      <4>3. QED
        BY <4>1, <4>2
    <3>5. QED
      BY <3>3, <3>4
  <2>4. QED
    BY <1>2, <2>1, <2>2, <2>3 DEF StrayInv, Running
<1>9. PlaceIsLeft' /\ LimitUntilRestore'
  BY <1>2 DEF PlaceIsLeft, LimitUntilRestore, Pool
<1>10. QED
  BY <1>3, <1>4, <1>5, <1>6, <1>7, <1>8, <1>9

\* A caller's record is set by the execution or the Disconnect that runs it.
LEMMA CallSetPreserves ==
    ASSUME ClientInv, NEW p \in Callers, NEW r \in CallStates, call[p].at = "done",
           r.at \in {"lock", "done"}, r.at # "done" => r.client \in Clients,
           call' = [call EXCEPT ![p] = r], panic' \in BOOLEAN,
           UNCHANGED <<lockVars, thread, upload, envVars>>
    PROVE  ClientInv' /\ call'[p] = r /\ \A q \in Callers \ {p} : call'[q] = call[q]
<1> USE DEF ClientInv
<1>1. call'[p] = r /\ \A q \in Callers \ {p} : call'[q] = call[q]
  BY DEF TypeOK
<1>2. TypeOK'
  BY <1>1 DEF TypeOK, lockVars, envVars
<1>3. ConnectedIsTended'
  BY DEF ConnectedIsTended, Active, lockVars
<1>4. ASSUME NEW d \in Clients PROVE HandedOver(d)'
  BY <1>1, OthersPreserved DEF TypeOK, lockVars
<1>5. QED
  BY <1>1, <1>2, <1>3, <1>4

\* An execution or a restoration that makes a call has none under way.
LEMMA CallIsDone ==
    ASSUME CallsBelong, NEW p \in Callers
    PROVE  /\ run[p].at \in {"top", "wait", "look", "make", "answer"} => call[p].at = "done"
           /\ ~Running(p) /\ p # Updater => call[p].at = "done"
           /\ rs.at # "idle" /\ rs.at # "stop" => call[Updater].at = "done"
<1>1. rs.at # "idle" /\ rs.at # "stop" => call[Updater].at = "done"
  BY TunnelAssumption DEF CallsBelong, Running
<1>2. QED
  BY <1>1 DEF CallsBelong, Running

\* The program counter of an execution.
LEMMA RunMoves ==
    ASSUME TunnelTypeOK, NEW p \in Callers,
           NEW to \in {"idle", "top", "wait", "look", "make", "isconn", "start", "answer"},
           RunGoto(p, to) \/ (to = "idle" /\ RunEnds(p))
    PROVE  /\ run' \in [Callers -> RunStates]
           /\ run'[p].at = to
           /\ \A q \in Callers \ {p} : run'[q] = run[q]
<1>1. \E r \in RunStates : r.at = to /\ run' = [run EXCEPT ![p] = r]
  <2>1. CASE RunEnds(p) /\ to = "idle"
    BY <2>1 DEF RunEnds, Idle, RunStates
  <2>2. CASE RunGoto(p, to)
    <3>1. run[p] \in RunStates
      BY DEF TunnelTypeOK
    <3>2. [run[p] EXCEPT !.at = to] \in RunStates /\ [run[p] EXCEPT !.at = to].at = to
      BY <3>1 DEF RunStates
    <3>3. run' = [run EXCEPT ![p] = [run[p] EXCEPT !.at = to]]
      BY <2>2 DEF RunGoto, TunnelTypeOK
    <3>4. QED
      BY <3>2, <3>3
  <2>3. QED
    BY <2>1, <2>2
<1>2. QED
  BY <1>1 DEF TunnelTypeOK

\* A step of one execution that makes no client: where it goes, and whom it
\* calls.
LEMMA RunFrame ==
    ASSUME TunnelSafe, ~panic, NEW p \in Callers, Running(p), call[p].at = "done",
           NEW to \in {"idle", "top", "wait", "look", "make", "isconn", "start", "answer"},
           RunGoto(p, to) \/ (to = "idle" /\ RunEnds(p)),
           to = "make" => grpc = NoOne,
           to \in {"isconn", "start"} => grpc # NoOne \/ restores > 0,
           NEW r \in CallStates, call' = [call EXCEPT ![p] = r], r.at \in {"lock", "done"},
           r.at # "done" => r.op = to /\ to \in {"isconn", "start"} /\ r.client = grpc /\ grpc # NoOne,
           panic' \in BOOLEAN, panic' => restores > 0,
           UNCHANGED <<lockVars, thread, upload, envVars, grpc, made, cancelled, locked, est, ws, rs,
                       restores, overlap>>,
           tstate' \in {"disconnected", "connecting", "connected", "reconnecting", "failed"},
           enabled' \in BOOLEAN, retried' \in BOOLEAN
    PROVE  TunnelSafe'
<1> USE ClientAssumption, TunnelAssumption DEF TunnelSafe, TunnelInv
<1>1. /\ run' \in [Callers -> RunStates] /\ run'[p].at = to /\ \A q \in Callers \ {p} : run'[q] = run[q]
  BY RunMoves
<1>2. TunnelTypeOK'
  BY <1>1 DEF TunnelTypeOK
<1>3. ClientInv' /\ call'[p] = r /\ \A q \in Callers \ {p} : call'[q] = call[q]
  <2>1. r.at # "done" => r.client \in Clients
    BY DEF TunnelTypeOK
  <2>2. ClientInv
    OBVIOUS
  <2> HIDE DEF TunnelSafe, TunnelInv
  <2>3. QED
    BY <2>1, <2>2, CallSetPreserves
<1>4. \A q \in Callers : Running(q)' => Running(q)
  BY <1>1 DEF Running
<1>5. CallsBelong'
  <2>1. rs.at # "idle" => ~Running(Updater)'
    BY <1>4 DEF CallsBelong
  <2>2. \A q \in Callers : call'[q].at = "connect" => call'[q].op = "start"
    BY <1>3 DEF CallsBelong
  <2>3. \A q \in Callers : call'[q].at # "done" =>
          \/ run'[q].at \in {"isconn", "start"} /\ call'[q].op = run'[q].at
          \/ q = Updater /\ rs.at = "stop" /\ call'[q].op = "stop"
    BY <1>1, <1>3 DEF CallsBelong
  <2>4. QED
    BY <2>1, <2>2, <2>3 DEF CallsBelong
<1>6. UNCHANGED <<connected, stopping, thread, stream>>
  BY DEF lockVars
<1>7. \A c \in Clients : c # grpc => (Starting(c)' => Starting(c)) /\ (Retired(c) => Retired(c)')
  BY <1>3, <1>6 DEF Starting, Retired
<1>8. OneClientAtFirst'
  <2>1. SUFFICES ASSUME restores = 0 PROVE OneClientAtFirst'
    BY DEF OneClientAtFirst
  <2>2. \A c \in Clients \ {grpc} :
          ~connected'[c] /\ est[c] = "none" /\ ~Starting(c)' /\ \A t \in Threads : thread'[c][t] = "idle"
    BY <1>6, <1>7, <2>1 DEF OneClientAtFirst
  <2>3. grpc = NoOne => \A q \in Callers : run'[q].at \notin {"isconn", "start"}
    BY <1>1, <2>1 DEF OneClientAtFirst
  <2>4. grpc # NoOne => \A q \in Callers : run'[q].at # "make"
    BY <1>1, <2>1 DEF OneClientAtFirst
  <2>5. QED
    BY <1>4, <2>1, <2>2, <2>3, <2>4 DEF OneClientAtFirst
<1>9. CrashNeedsRestore'
  BY DEF CrashNeedsRestore
<1>10. StrayInv'
  <2>1. SUFFICES ASSUME ~overlap PROVE StrayInv'
    BY DEF StrayInv
  <2>2. rs.at # "stop"
    BY <2>1 DEF StrayInv
  <2>3. \A q \in Callers : run'[q].at = "make" => grpc = NoOne
    BY <1>1, <2>1 DEF StrayInv
  <2>4. QED
    BY <1>4, <1>7, <2>1, <2>2, <2>3 DEF StrayInv
<1>11. PlaceIsLeft' /\ LimitUntilRestore'
  BY DEF PlaceIsLeft, LimitUntilRestore, Pool
<1>12. QED
  BY <1>2, <1>3, <1>5, <1>8, <1>9, <1>10, <1>11

\* connectWithRetry makes its client: alone, as long as nothing overlapped.
LEMMA RunMakePreserves ==
    ASSUME TunnelSafe, ~panic, NEW p \in Callers, RunMake(p)
    PROVE  TunnelSafe'
<1> USE ClientAssumption, TunnelAssumption DEF TunnelSafe, TunnelInv
<1>1. PICK c \in Clients \ made :
         /\ grpc' = c /\ made' = made \cup {c}
         /\ call' = [call EXCEPT ![p] = [op |-> "start", client |-> c, at |-> "lock", res |-> "none"]]
  BY DEF RunMake
<1>2. /\ run[p].at = "make" /\ RunGoto(p, "start")
      /\ UNCHANGED <<lockVars, thread, upload, envVars, panic, tstate, enabled, cancelled, retried, locked,
                     est, ws, rs, restores, overlap>>
  BY DEF RunMake
<1>3. run' \in [Callers -> RunStates] /\ run'[p].at = "start" /\ \A q \in Callers \ {p} : run'[q] = run[q]
  BY <1>2, RunMoves
<1>4. call[p].at = "done" /\ Running(p)
  BY <1>2, CallIsDone DEF Running
<1> DEFINE r == [op |-> "start", client |-> c, at |-> "lock", res |-> "none"]
<1>5. r \in CallStates /\ r.at = "lock" /\ r.op = "start" /\ r.client = c
  BY CallTypes
<1> HIDE DEF r
<1>6. ClientInv' /\ call'[p] = r /\ \A q \in Callers \ {p} : call'[q] = call[q]
  <2>1. call' = [call EXCEPT ![p] = r] /\ panic' \in BOOLEAN
    BY <1>1, <1>2 DEF r, ClientInv, TypeOK
  <2>2. QED
    BY <1>2, <1>4, <1>5, <2>1, CallSetPreserves
<1>7. TunnelTypeOK'
  BY <1>1, <1>2, <1>3 DEF TunnelTypeOK
<1>8. \A q \in Callers : Running(q)' => Running(q)
  BY <1>3, <1>4 DEF Running
<1>9. CallsBelong'
  <2>1. rs.at # "idle" => ~Running(Updater)'
    BY <1>8 DEF CallsBelong
  <2>2. \A q \in Callers : call'[q].at = "connect" => call'[q].op = "start"
    BY <1>5, <1>6 DEF CallsBelong
  <2>3. \A q \in Callers : call'[q].at # "done" =>
          \/ run'[q].at \in {"isconn", "start"} /\ call'[q].op = run'[q].at
          \/ q = Updater /\ rs.at = "stop" /\ call'[q].op = "stop"
    BY <1>3, <1>5, <1>6 DEF CallsBelong
  <2>4. QED
    BY <1>2, <2>1, <2>2, <2>3 DEF CallsBelong
<1>10. UNCHANGED <<connected, stopping, thread, stream>>
  BY <1>2 DEF lockVars
<1>11. \A d \in Clients : d # c => (Starting(d)' => Starting(d)) /\ (Retired(d) => Retired(d)')
  BY <1>5, <1>6, <1>10 DEF Starting, Retired
<1>12. OneClientAtFirst'
  <2>1. SUFFICES ASSUME restores = 0 PROVE OneClientAtFirst'
    BY <1>2 DEF OneClientAtFirst
  <2>2. grpc = NoOne /\ \A q \in Callers : Running(q) => q = p
    BY <1>2, <1>4, <2>1 DEF OneClientAtFirst
  <2>3. \A d \in Clients \ {c} :
          ~connected'[d] /\ est[d] = "none" /\ ~Starting(d)' /\ \A t \in Threads : thread'[d][t] = "idle"
    BY <1>10, <1>11, <2>1, <2>2 DEF OneClientAtFirst
  <2>4. \A q \in Callers : run'[q].at # "make"
    BY <1>3, <2>2 DEF Running
  <2>5. rs.at = "idle" /\ c # NoOne
    BY <2>1 DEF OneClientAtFirst
  <2>6. QED
    BY <1>1, <1>2, <2>3, <2>4, <2>5 DEF OneClientAtFirst
<1>13. CrashNeedsRestore'
  BY <1>2 DEF CrashNeedsRestore
<1>14. StrayInv'
  <2>1. SUFFICES ASSUME ~overlap PROVE StrayInv'
    BY <1>2 DEF StrayInv
  <2>2. grpc = NoOne /\ rs.at # "stop" /\ \A q \in Callers : Running(q) => q = p
    BY <1>2, <1>4, <2>1 DEF StrayInv
  <2>3. \A q \in Callers : run'[q].at # "make"
    BY <1>3, <2>2 DEF Running
  <2>4. \A d \in Clients \ {c} : Retired(d)'
    BY <1>11, <2>1, <2>2 DEF StrayInv
  <2>5. QED
    BY <1>1, <1>2, <1>8, <2>2, <2>3, <2>4 DEF StrayInv
<1>15. PlaceIsLeft' /\ LimitUntilRestore'
  BY <1>2 DEF PlaceIsLeft, LimitUntilRestore, Pool
<1>16. QED
  BY <1>6, <1>7, <1>9, <1>12, <1>13, <1>14, <1>15

\* The steps of connectWithRetry.
LEMMA RunPreserves ==
    ASSUME TunnelSafe, ~panic, NEW p \in Callers, RunStep(p)
    PROVE  TunnelSafe'
<1> USE ClientAssumption, TunnelAssumption
<1> DEFINE Places == {"idle", "top", "wait", "look", "make", "isconn", "start", "answer"}
<1>0. /\ call[p] \in CallStates /\ call = [call EXCEPT ![p] = call[p]]
      /\ NoCall \in CallStates /\ NoCall.at = "done" /\ panic \in BOOLEAN
      /\ tstate \in {"disconnected", "connecting", "connected", "reconnecting", "failed"}
      /\ enabled \in BOOLEAN /\ retried \in BOOLEAN /\ grpc \in Clients \cup {NoOne}
  BY CallTypes DEF TunnelSafe, TunnelInv, TunnelTypeOK, ClientInv, TypeOK, NoCall
<1>1. CASE RunTop(p)
  <2>1. call[p].at = "done" /\ Running(p)
    BY <1>1, CallIsDone DEF RunTop, Running, TunnelSafe, TunnelInv
  <2>2. UNCHANGED <<vars, connVars, cancelled, retried, locked, est, ws, rs, restores, overlap>>
    BY <1>1 DEF RunTop
  <2>3. PICK to \in {"idle", "wait", "look"} : RunGoto(p, to) \/ (to = "idle" /\ RunEnds(p))
    BY <1>1 DEF RunTop
  <2>4. tstate' \in {"disconnected", "connecting", "connected", "reconnecting", "failed"}
    BY <1>0, <1>1 DEF RunTop
  <2>5. QED
    BY <1>0, <2>1, <2>2, <2>3, <2>4, RunFrame DEF vars, connVars
<1>2. CASE RunWaited(p)
  <2>1. call[p].at = "done" /\ Running(p)
    BY <1>2, CallIsDone DEF RunWaited, Running, TunnelSafe, TunnelInv
  <2>2. UNCHANGED <<vars, tstate, connVars, cancelled, retried, locked, est, ws, rs, restores, overlap>>
    BY <1>2 DEF RunWaited
  <2>3. PICK to \in {"idle", "look"} : RunGoto(p, to) \/ (to = "idle" /\ RunEnds(p))
    BY <1>2 DEF RunWaited
  <2>4. QED
    BY <1>0, <2>1, <2>2, <2>3, RunFrame DEF vars, connVars
<1>3. CASE RunLook(p)
  <2>1. call[p].at = "done" /\ Running(p)
    BY <1>3, CallIsDone DEF RunLook, Running, TunnelSafe, TunnelInv
  <2>2. UNCHANGED <<lockVars, thread, upload, envVars, panic, connVars, cancelled, locked, est, ws, rs,
                    restores, overlap>>
    BY <1>3 DEF RunLook
  <2>3. CASE RunFails(p, "fatal") /\ UNCHANGED call
    <3>1. RunGoto(p, "top") /\ UNCHANGED tstate /\ retried' = TRUE
      BY <2>3 DEF RunFails, isAuthenticationError
    <3>2. QED
      BY <1>0, <2>1, <2>2, <2>3, <3>1, RunFrame DEF connVars
  <2>4. CASE grpc = NoOne /\ RunGoto(p, "make") /\ UNCHANGED <<call, retried, tstate>>
    BY <1>0, <2>1, <2>2, <2>4, RunFrame DEF connVars
  <2>5. CASE /\ grpc # NoOne /\ RunGoto(p, "isconn") /\ UNCHANGED <<retried, tstate>>
             /\ call' = [call EXCEPT ![p] = [op |-> "isconn", client |-> grpc, at |-> "lock", res |-> "none"]]
    <3> DEFINE r == [op |-> "isconn", client |-> grpc, at |-> "lock", res |-> "none"]
    <3>1. r \in CallStates /\ r.at = "lock" /\ r.op = "isconn" /\ r.client = grpc /\ call' = [call EXCEPT ![p] = r]
      BY <1>0, <2>5, CallTypes
    <3> HIDE DEF r
    <3>2. /\ grpc # NoOne /\ RunGoto(p, "isconn")
          /\ enabled' \in BOOLEAN /\ retried' \in BOOLEAN /\ panic' \in BOOLEAN /\ ~panic'
          /\ tstate' \in {"disconnected", "connecting", "connected", "reconnecting", "failed"}
          /\ UNCHANGED <<lockVars, thread, upload, envVars, grpc, made, cancelled, locked, est, ws, rs,
                         restores, overlap>>
      BY <1>0, <2>2, <2>5 DEF connVars
    <3>3. QED
      BY <2>1, <3>1, <3>2, RunFrame
  <2>6. QED
    BY <1>3, <2>3, <2>4, <2>5 DEF RunLook
<1>4. CASE RunMake(p)
  BY <1>4, RunMakePreserves
<1>5. CASE RunChecked(p)
  <2>1. call[p].at = "done" /\ Running(p) /\ run[p].at = "isconn"
    BY <1>5 DEF RunChecked, Running
  <2>2. UNCHANGED <<lockVars, thread, upload, envVars, tstate, grpc, made, cancelled, retried, locked, est,
                    ws, rs, restores, overlap>>
    BY <1>5 DEF RunChecked
  <2>3. grpc # NoOne \/ restores > 0
    BY <2>1 DEF TunnelSafe, TunnelInv, OneClientAtFirst, TunnelTypeOK
  <2>4. CASE enabled' = TRUE /\ call' = [call EXCEPT ![p] = NoCall] /\ RunGoto(p, "answer") /\ UNCHANGED panic
    BY <1>0, <2>1, <2>2, <2>4, RunFrame
  <2>5. CASE /\ panic' = (grpc = NoOne)
             /\ IF grpc = NoOne THEN UNCHANGED call
                ELSE call' = [call EXCEPT ![p] = [op |-> "start", client |-> grpc, at |-> "lock", res |-> "none"]]
             /\ RunGoto(p, "start")
             /\ UNCHANGED enabled
    <3>1. CASE grpc = NoOne
      BY <1>0, <2>1, <2>2, <2>3, <2>5, <3>1, RunFrame
    <3>2. CASE grpc # NoOne
      <4> DEFINE r == [op |-> "start", client |-> grpc, at |-> "lock", res |-> "none"]
      <4>1. r \in CallStates /\ r.at = "lock" /\ r.op = "start" /\ r.client = grpc /\ call' = [call EXCEPT ![p] = r]
        BY <1>0, <2>5, <3>2, CallTypes
      <4> HIDE DEF r
      <4>2. QED
        BY <1>0, <2>1, <2>2, <2>3, <2>5, <3>2, <4>1, RunFrame
    <3>3. QED
      BY <3>1, <3>2
  <2>6. QED
    BY <1>5, <2>4, <2>5 DEF RunChecked
<1>6. CASE RunStarted(p)
  <2>1. call[p].at = "done" /\ Running(p)
    BY <1>6 DEF RunStarted, Running
  <2>2. /\ UNCHANGED <<lockVars, thread, upload, envVars, panic, grpc, made, cancelled, locked, est, ws, rs,
                       restores, overlap>>
        /\ call' = [call EXCEPT ![p] = NoCall]
    BY <1>6 DEF RunStarted
  <2>3. PICK to \in {"idle", "top", "answer"} : RunGoto(p, to) \/ (to = "idle" /\ RunEnds(p))
    BY <1>6 DEF RunStarted, RunFails
  <2>4. /\ tstate' \in {"disconnected", "connecting", "connected", "reconnecting", "failed"}
        /\ enabled' \in BOOLEAN /\ retried' \in BOOLEAN
    BY <1>0, <1>6 DEF RunStarted, RunFails
  <2>5. QED
    BY <1>0, <2>1, <2>2, <2>3, <2>4, RunFrame
<1>7. CASE RunAnswer(p)
  <2>1. call[p].at = "done" /\ Running(p)
    BY <1>7, CallIsDone DEF RunAnswer, Running, TunnelSafe, TunnelInv
  <2>2. UNCHANGED <<vars, connVars, cancelled, locked, est, ws, rs, restores, overlap>>
    BY <1>7 DEF RunAnswer
  <2>3. PICK to \in {"idle", "top"} : RunGoto(p, to) \/ (to = "idle" /\ RunEnds(p))
    BY <1>7 DEF RunAnswer, RunFails
  <2>4. /\ tstate' \in {"disconnected", "connecting", "connected", "reconnecting", "failed"}
        /\ retried' \in BOOLEAN
    BY <1>0, <1>7 DEF RunAnswer, RunFails
  <2>5. QED
    BY <1>0, <2>1, <2>2, <2>3, <2>4, RunFrame DEF vars, connVars
<1>8. QED
  BY <1>1, <1>2, <1>3, <1>4, <1>5, <1>6, <1>7 DEF RunStep

\* A step that leaves the executions and the restoration alone: a tunnel is
\* established, or a connection ends.
LEMMA AsideFrame ==
    ASSUME TunnelSafe, ~panic,
           UNCHANGED <<lockVars, thread, call, upload, envVars, tstate, connVars, cancelled, retried, locked,
                       run, rs, restores, overlap>>,
           panic' \in BOOLEAN, panic' => restores > 0,
           est' \in [Clients -> {"none", "address", "dial"}],
           ws' \in [Conns -> {"none", "pooled", "broken", "closed"}],
           restores = 0 => /\ \A c \in Clients \ {grpc} : est'[c] = "none"
                           /\ grpc = NoOne => \A w \in Conns : ws'[w] = "none",
           PlaceIsLeft', LimitUntilRestore'
    PROVE  TunnelSafe'
<1> USE DEF TunnelSafe, TunnelInv
<1>1. UNCHANGED <<connected, stopping, mu, phase, thread, call, fails, stream, grpc, enabled, made>>
  BY DEF lockVars, connVars
<1>2. TypeOK'
  BY DEF ClientInv, TypeOK, lockVars, envVars
<1>3. ClientInv'
  BY <1>1, <1>2, QuietPreserves
<1>4. TunnelTypeOK'
  BY <1>1 DEF TunnelTypeOK
<1>5. CallsBelong'
  BY <1>1 DEF CallsBelong, Running
<1>6. \A c \in Clients : (Starting(c)' <=> Starting(c)) /\ (Retired(c)' <=> Retired(c))
  BY <1>1 DEF Starting, Retired
<1>7. OneClientAtFirst'
  BY <1>1, <1>6 DEF OneClientAtFirst, Running
<1>8. CrashNeedsRestore'
  BY DEF CrashNeedsRestore
<1>9. StrayInv'
  BY <1>1, <1>6 DEF StrayInv, Running
<1>10. QED
  BY <1>3, <1>4, <1>5, <1>7, <1>8, <1>9

\* The pool is finite, and no larger when no connection joins it.
LEMMA PoolShrinks ==
    ASSUME TunnelTypeOK, \A w \in Conns : ws'[w] \in {"pooled", "broken"} => ws[w] \in {"pooled", "broken"}
    PROVE  /\ IsFiniteSet(Pool) /\ Cardinality(Pool) \in Nat
           /\ Cardinality(Pool') \in Nat /\ Cardinality(Pool') <= Cardinality(Pool)
<1>1. IsFiniteSet(Pool) /\ Cardinality(Pool) \in Nat
  BY TunnelAssumption, FS_Subset, FS_CardinalityType DEF Pool
<1>2. Pool' \subseteq Pool
  BY DEF Pool
<1>3. IsFiniteSet(Pool') /\ Cardinality(Pool') <= Cardinality(Pool)
  BY <1>1, <1>2, FS_Subset
<1>4. QED
  BY <1>1, <1>3, FS_CardinalityType

\* Establishing a tunnel: a place was left for it when it began.
LEMMA EstablishPreserves ==
    ASSUME TunnelSafe, ~panic, NEW c \in Clients,
           (\E t \in Threads : EstablishBegin(c, t)) \/ EstablishAddress(c) \/ EstablishDial(c)
    PROVE  TunnelSafe'
<1> USE ClientAssumption, TunnelAssumption
<1>0. /\ TunnelTypeOK /\ PlaceIsLeft /\ LimitUntilRestore /\ OneClientAtFirst /\ panic \in BOOLEAN
      /\ MaxTunnels \in Nat /\ Cardinality(Pool) \in Nat /\ IsFiniteSet(Pool)
      /\ est \in [Clients -> {"none", "address", "dial"}]
      /\ ws \in [Conns -> {"none", "pooled", "broken", "closed"}]
  <2>1. IsFiniteSet(Pool)
    BY FS_Subset DEF Pool
  <2>2. QED
    BY <2>1, FS_CardinalityType DEF TunnelSafe, TunnelInv, TunnelTypeOK, ClientInv, TypeOK
<1>1. restores = 0 /\ est[c] # "none" => c = grpc
  BY <1>0 DEF OneClientAtFirst
<1>2. restores = 0 /\ (\E t \in Threads : thread[c][t] = "serve") => c = grpc
  BY <1>0 DEF OneClientAtFirst
<1>3. CASE \E t \in Threads : EstablishBegin(c, t)
  <2>1. PICK t \in Threads : EstablishBegin(c, t)
    BY <1>3
  <2>2. /\ thread[c][t] = "serve" /\ Cardinality(Pool) < MaxTunnels
        /\ est' = [est EXCEPT ![c] = "address"] /\ ws' = ws
        /\ UNCHANGED <<vars, tstate, connVars, cancelled, retried, locked, run, rs, restores, overlap>>
    BY <2>1 DEF EstablishBegin
  <2>3. PlaceIsLeft' /\ LimitUntilRestore'
    BY <1>0, <2>2 DEF PlaceIsLeft, LimitUntilRestore, Pool
  <2>4. est' \in [Clients -> {"none", "address", "dial"}]
    BY <1>0, <2>2
  <2>5. restores = 0 => /\ \A d \in Clients \ {grpc} : est'[d] = "none"
                        /\ grpc = NoOne => \A w \in Conns : ws'[w] = "none"
    BY <1>0, <1>2, <2>2 DEF OneClientAtFirst
  <2>6. QED
    BY <1>0, <2>2, <2>3, <2>4, <2>5, AsideFrame DEF vars
<1>4. CASE EstablishAddress(c)
  <2>1. /\ est[c] = "address" /\ panic' = (grpc = NoOne)
        /\ est' = [est EXCEPT ![c] = "dial"] /\ ws' = ws
        /\ UNCHANGED <<lockVars, thread, call, upload, envVars, tstate, connVars, cancelled, retried, locked,
                       run, rs, restores, overlap>>
    BY <1>4 DEF EstablishAddress
  <2>2. est' \in [Clients -> {"none", "address", "dial"}] /\ restores \in Nat
    BY <1>0, <2>1 DEF TunnelTypeOK
  <2>3. PlaceIsLeft' /\ LimitUntilRestore'
    BY <1>0, <2>1 DEF PlaceIsLeft, LimitUntilRestore, Pool
  <2>4. restores = 0 => c = grpc /\ grpc # NoOne
    BY <1>1, <2>1
  <2>5. restores = 0 => /\ \A d \in Clients \ {grpc} : est'[d] = "none"
                        /\ grpc = NoOne => \A w \in Conns : ws'[w] = "none"
    BY <1>0, <2>1, <2>4 DEF OneClientAtFirst
  <2>6. panic' \in BOOLEAN /\ (panic' => restores > 0)
    <3>1. panic' \in BOOLEAN /\ (panic' => grpc = NoOne)
      BY <2>1
    <3>2. grpc = NoOne => restores > 0
      BY <2>2, <2>4
    <3>3. QED
      BY <3>1, <3>2
  <2>7. QED
    BY <1>0, <2>1, <2>2, <2>3, <2>5, <2>6, AsideFrame
<1>5. CASE EstablishDial(c)
  <2>1. /\ est[c] = "dial" /\ est' = [est EXCEPT ![c] = "none"]
        /\ ws' = ws \/ \E w \in Conns : ws[w] = "none" /\ ws' = [ws EXCEPT ![w] = "pooled"]
        /\ UNCHANGED <<vars, tstate, connVars, cancelled, retried, locked, run, rs, restores, overlap>>
    BY <1>5 DEF EstablishDial
  <2>2. /\ est' \in [Clients -> {"none", "address", "dial"}]
        /\ ws' \in [Conns -> {"none", "pooled", "broken", "closed"}]
    BY <1>0, <2>1
  <2>3. restores = 0 => c = grpc /\ grpc # NoOne
    BY <1>1, <2>1
  <2>4. restores = 0 => \A d \in Clients : est'[d] = "none"
    BY <1>0, <2>1, <2>3 DEF OneClientAtFirst
  <2>5. PlaceIsLeft'
    BY <2>1, <2>4 DEF PlaceIsLeft
  <2>6. LimitUntilRestore'
    <3>1. SUFFICES ASSUME restores = 0 PROVE Cardinality(Pool') <= MaxTunnels
      BY <2>1 DEF LimitUntilRestore
    <3>2. Cardinality(Pool) < MaxTunnels
      BY <1>0, <2>1, <3>1 DEF PlaceIsLeft
    <3>3. CASE ws' = ws
      BY <1>0, <3>2, <3>3 DEF Pool
    <3>4. CASE \E w \in Conns : ws[w] = "none" /\ ws' = [ws EXCEPT ![w] = "pooled"]
      <4>1. PICK w \in Conns : ws[w] = "none" /\ ws' = [ws EXCEPT ![w] = "pooled"]
        BY <3>4
      <4>2. Pool' = Pool \cup {w} /\ w \notin Pool
        BY <1>0, <4>1 DEF Pool
      <4>3. Cardinality(Pool') = Cardinality(Pool) + 1
        BY <1>0, <4>2, FS_AddElement
      <4>4. QED
        BY <1>0, <3>2, <4>3
    <3>5. QED
      BY <2>1, <3>3, <3>4
  <2>7. QED
    BY <1>0, <2>1, <2>2, <2>3, <2>4, <2>5, <2>6, AsideFrame DEF vars
<1>6. QED
  BY <1>3, <1>4, <1>5

\* A WebSocket connection breaks, or its goroutine returns.
LEMMA ConnectionPreserves ==
    ASSUME TunnelSafe, ~panic, NEW w \in Conns, ConnectionBreaks(w) \/ HandlerReturns(w)
    PROVE  TunnelSafe'
<1> USE TunnelAssumption
<1>0. /\ TunnelTypeOK /\ PlaceIsLeft /\ LimitUntilRestore /\ OneClientAtFirst /\ panic \in BOOLEAN
      /\ est \in [Clients -> {"none", "address", "dial"}]
      /\ ws \in [Conns -> {"none", "pooled", "broken", "closed"}]
  BY DEF TunnelSafe, TunnelInv, TunnelTypeOK, ClientInv, TypeOK
<1>1. /\ ws[w] # "none"
      /\ \/ ws[w] = "pooled" /\ ws' = [ws EXCEPT ![w] = "broken"]
         \/ ws' = [ws EXCEPT ![w] = "none"]
      /\ UNCHANGED <<vars, tstate, connVars, cancelled, retried, locked, run, est, rs, restores, overlap>>
  BY DEF ConnectionBreaks, HandlerReturns
<1>2. Cardinality(Pool') \in Nat /\ Cardinality(Pool) \in Nat /\ Cardinality(Pool') <= Cardinality(Pool)
  BY <1>0, <1>1, PoolShrinks
<1>3. PlaceIsLeft' /\ LimitUntilRestore'
  BY <1>0, <1>1, <1>2 DEF PlaceIsLeft, LimitUntilRestore
<1>4. ws' \in [Conns -> {"none", "pooled", "broken", "closed"}]
  BY <1>0, <1>1
<1>5. restores = 0 => /\ \A d \in Clients \ {grpc} : est'[d] = "none"
                      /\ grpc = NoOne => \A x \in Conns : ws'[x] = "none"
  BY <1>0, <1>1 DEF OneClientAtFirst
<1>6. QED
  BY <1>0, <1>1, <1>3, <1>4, <1>5, AsideFrame DEF vars

\* An execution begins: alone, as long as nothing overlaps.
LEMMA RunBeginsFrame ==
    ASSUME TunnelSafe, ~panic, NEW p \in Callers, ~Running(p), NEW tls \in BOOLEAN, RunBegins(p, tls),
           call[p].at = "done", p = Updater => rs'.at = "idle",
           UNCHANGED <<vars, tstate, connVars, est, restores>>,
           cancelled' \in BOOLEAN, locked' \in BOOLEAN, rs' \in RestoreStates,
           rs' = rs \/ (rs.at # "stop" /\ rs'.at = "idle"),
           restores = 0 => rs'.at = "idle" /\ grpc # NoOne,
           ws' \in [Conns -> {"none", "pooled", "broken", "closed"}],
           \A w \in Conns : ws'[w] \in {"pooled", "broken"} => ws[w] \in {"pooled", "broken"}
    PROVE  TunnelSafe'
<1> USE ClientAssumption, TunnelAssumption DEF TunnelSafe, TunnelInv
<1>1. /\ UNCHANGED <<connected, stopping, mu, phase, thread, call, fails, stream, grpc, enabled, made>>
      /\ UNCHANGED <<upload, world, faults, panic>>
  BY DEF vars, lockVars, envVars, connVars
<1>2. /\ run' \in [Callers -> RunStates] /\ run'[p].at = "top"
      /\ \A q \in Callers \ {p} : run'[q] = run[q]
      /\ retried' = FALSE /\ overlap' \in BOOLEAN
      /\ ~overlap' => ~overlap /\ ~Stopping /\ \A q \in Callers : ~Running(q)
  <2>1. [at |-> "top", tls |-> tls] \in RunStates /\ [at |-> "top", tls |-> tls].at = "top"
    BY DEF RunStates
  <2>2. QED
    BY <2>1 DEF RunBegins, TunnelTypeOK
<1>3. TypeOK'
  BY <1>1 DEF ClientInv, TypeOK
<1>4. ClientInv'
  BY <1>1, <1>3, QuietPreserves
<1>5. TunnelTypeOK'
  BY <1>1, <1>2 DEF TunnelTypeOK
<1>6. CallsBelong'
  <2>1. rs'.at # "idle" => ~Running(Updater)'
    BY <1>2 DEF CallsBelong, Running
  <2>2. \A q \in Callers : call[q].at # "done" =>
          \/ run'[q].at \in {"isconn", "start"} /\ call[q].op = run'[q].at
          \/ q = Updater /\ rs'.at = "stop" /\ call[q].op = "stop"
    BY <1>2, CallIsDone DEF CallsBelong
  <2>3. QED
    BY <1>1, <2>1, <2>2 DEF CallsBelong
<1>7. \A c \in Clients : (Starting(c)' <=> Starting(c)) /\ (Retired(c)' <=> Retired(c))
  BY <1>1 DEF Starting, Retired
<1>8. OneClientAtFirst'
  <2>1. \A q \in Callers : run'[q].at = "make" => run[q].at = "make"
    BY <1>2
  <2>2. QED
    BY <1>1, <1>7, <2>1 DEF OneClientAtFirst
<1>9. CrashNeedsRestore'
  BY <1>1 DEF CrashNeedsRestore
<1>10. StrayInv'
  <2>1. SUFFICES ASSUME ~overlap' PROVE StrayInv'
    BY DEF StrayInv
  <2>2. ~overlap /\ rs.at # "stop" /\ rs'.at # "stop" /\ \A q \in Callers : Running(q)' => q = p
    BY <1>2, <2>1 DEF Stopping, Running
  <2>3. \A q \in Callers : run'[q].at # "make"
    BY <1>2, <2>1 DEF Running
  <2>4. QED
    BY <1>1, <1>7, <2>1, <2>2, <2>3 DEF StrayInv
<1>11. PlaceIsLeft' /\ LimitUntilRestore'
  <2>1. Cardinality(Pool') \in Nat /\ Cardinality(Pool) \in Nat /\ Cardinality(Pool') <= Cardinality(Pool)
    BY PoolShrinks
  <2>2. QED
    BY <2>1 DEF PlaceIsLeft, LimitUntilRestore
<1>12. QED
  BY <1>4, <1>5, <1>6, <1>8, <1>9, <1>10, <1>11

\* coordinatedReconnect closes the connections and starts an execution.
LEMMA CoordinatedReconnectPreserves ==
    ASSUME TunnelSafe, ~panic, NEW w \in Conns, CoordinatedReconnect(w)
    PROVE  TunnelSafe'
<1>1. /\ ws[w] = "broken"
      /\ ws' = [x \in Conns |-> CASE x = w -> "none" [] x \in Pool \ {w} -> "closed" [] OTHER -> ws[x]]
      /\ UNCHANGED <<vars, tstate, connVars, cancelled, locked, est, rs, restores>>
  BY DEF CoordinatedReconnect
<1>2. PICK p \in Callers \ {Updater} : ~Running(p) /\ RunBegins(p, FALSE)
  BY DEF CoordinatedReconnect
<1>3. call[p].at = "done"
  BY <1>2, CallIsDone DEF TunnelSafe, TunnelInv
<1>4. /\ cancelled' \in BOOLEAN /\ locked' \in BOOLEAN /\ rs' \in RestoreStates /\ rs' = rs
      /\ restores = 0 => rs'.at = "idle" /\ grpc # NoOne
  BY <1>1 DEF TunnelSafe, TunnelInv, TunnelTypeOK, OneClientAtFirst
<1>5. /\ ws' \in [Conns -> {"none", "pooled", "broken", "closed"}]
      /\ \A x \in Conns : ws'[x] \in {"pooled", "broken"} => ws[x] \in {"pooled", "broken"}
  BY <1>1 DEF TunnelSafe, TunnelInv, TunnelTypeOK, Pool
<1>6. QED
  BY <1>1, <1>2, <1>3, <1>4, <1>5, RunBeginsFrame

\* A step of an update that makes no call and leaves the executions alone.
LEMMA RestoreFrame ==
    ASSUME TunnelSafe, rs' \in RestoreStates, rs'.at # "stop", rs.at # "idle" \/ ~Running(Updater),
           UNCHANGED <<vars, grpc, made, retried, run, est, overlap>>,
           tstate' \in {"disconnected", "connecting", "connected", "reconnecting", "failed"},
           enabled' \in BOOLEAN, cancelled' \in BOOLEAN, locked' \in BOOLEAN,
           ws' \in [Conns -> {"none", "pooled", "broken", "closed"}],
           rs.at # "stop", restores' \in 0..MaxRestores, restores' # 0
    PROVE  TunnelSafe'
<1> USE TunnelAssumption DEF TunnelSafe, TunnelInv
<1>1. /\ UNCHANGED <<connected, stopping, mu, phase, thread, call, fails, stream>>
      /\ UNCHANGED <<upload, world, faults, panic>>
  BY DEF vars, lockVars, envVars
<1>2. TypeOK'
  BY <1>1 DEF ClientInv, TypeOK
<1>3. ClientInv'
  BY <1>1, <1>2, QuietPreserves
<1>4. TunnelTypeOK'
  BY DEF TunnelTypeOK
<1>5. CallsBelong'
  BY <1>1 DEF CallsBelong, Running
<1>6. StrayInv'
  BY <1>1 DEF StrayInv, Running, Retired, Starting
<1>7. OneClientAtFirst' /\ CrashNeedsRestore' /\ PlaceIsLeft' /\ LimitUntilRestore'
  BY DEF OneClientAtFirst, CrashNeedsRestore, PlaceIsLeft, LimitUntilRestore
<1>8. QED
  BY <1>3, <1>4, <1>5, <1>6, <1>7

\* PreserveState and RestoreState.
LEMMA RestorePreserves ==
    ASSUME TunnelSafe, ~panic, PreserveState \/ RestoreStep
    PROVE  TunnelSafe'
<1> USE ClientAssumption, TunnelAssumption
<1>0. /\ TunnelTypeOK /\ OneClientAtFirst /\ CallsBelong /\ StrayInv /\ ClientInv
      /\ rs \in RestoreStates /\ restores \in 0..MaxRestores
      /\ tstate \in {"disconnected", "connecting", "connected", "reconnecting", "failed"}
      /\ enabled \in BOOLEAN /\ cancelled \in BOOLEAN /\ locked \in BOOLEAN
      /\ ws \in [Conns -> {"none", "pooled", "broken", "closed"}]
  BY DEF TunnelSafe, TunnelInv, TunnelTypeOK
<1>r. \A to \in {"cancel", "stop", "close", "drain", "config", "lock"} :
         RestoreGoto(to) => rs' \in RestoreStates /\ rs'.at = to
  BY <1>0 DEF RestoreGoto, RestoreStates
<1>e. RestoreEnds => rs' \in RestoreStates /\ rs'.at = "idle"
  BY DEF RestoreEnds, RestoreStates
<1>1. CASE PreserveState
  <2>1. /\ rs.at = "idle" /\ ~Running(Updater) /\ restores < MaxRestores /\ restores' = restores + 1
        /\ rs' = [at |-> "kept", enabled |-> enabled]
        /\ UNCHANGED <<vars, tstate, connVars, cancelled, retried, locked, run, est, ws, overlap>>
    BY <1>1 DEF PreserveState
  <2>2. rs' \in RestoreStates /\ rs'.at = "kept"
    BY <1>0, <2>1 DEF RestoreStates
  <2>3. restores' \in 0..MaxRestores /\ restores' # 0
    BY <1>0, <2>1
  <2>4. QED
    BY <1>0, <2>1, <2>2, <2>3, RestoreFrame DEF connVars
<1>2. ASSUME RestoreStep PROVE rs.at # "idle" /\ restores # 0 /\ restores' = restores /\ ~Running(Updater)
  <2>1. rs.at # "idle" /\ restores' = restores
    BY <1>2 DEF RestoreStep, RestoreBegin, DisconnectCancel, DisconnectStopped, DisconnectClose,
                DisconnectDone, RestoreConfig, RestoreConnect
  <2>2. QED
    BY <1>0, <2>1 DEF OneClientAtFirst, CallsBelong
<1>3. CASE RestoreBegin
  <2>1. /\ rs.at = "kept" /\ UNCHANGED <<vars, tstate, connVars, cancelled, retried, locked, run, est, ws, restores, overlap>>
        /\ RestoreEnds \/ RestoreGoto("cancel") \/ RestoreGoto("config")
    BY <1>3 DEF RestoreBegin
  <2>2. QED
    BY <1>0, <1>r, <1>e, <1>2, <1>3, <2>1, RestoreFrame DEF connVars, RestoreStep
<1>4. CASE DisconnectClose
  <2>1. /\ rs.at = "close" /\ RestoreGoto("drain")
        /\ ws' = [w \in Conns |-> IF w \in Pool THEN "closed" ELSE ws[w]]
        /\ UNCHANGED <<vars, tstate, connVars, cancelled, retried, locked, run, est, restores, overlap>>
    BY <1>4 DEF DisconnectClose
  <2>2. ws' \in [Conns -> {"none", "pooled", "broken", "closed"}]
    BY <1>0, <2>1
  <2>3. QED
    BY <1>0, <1>r, <1>2, <1>4, <2>1, <2>2, RestoreFrame DEF connVars, RestoreStep
<1>5. CASE DisconnectDone
  <2>1. /\ rs.at = "drain" /\ RestoreGoto("config") /\ tstate' = "disconnected"
        /\ UNCHANGED <<vars, connVars, cancelled, retried, locked, run, est, ws, restores, overlap>>
    BY <1>5 DEF DisconnectDone
  <2>2. QED
    BY <1>0, <1>r, <1>2, <1>5, <2>1, RestoreFrame DEF connVars, RestoreStep
<1>6. CASE RestoreConfig
  <2>1. /\ rs.at = "config" /\ enabled' = rs.enabled
        /\ RestoreEnds \/ RestoreGoto("lock")
        /\ cancelled' \in BOOLEAN
        /\ UNCHANGED <<vars, tstate, grpc, made, retried, locked, run, est, ws, restores, overlap>>
    BY <1>0, <1>6 DEF RestoreConfig
  <2>2. enabled' \in BOOLEAN
    BY <1>0, <2>1 DEF RestoreStates
  <2>3. QED
    BY <1>0, <1>r, <1>e, <1>2, <1>6, <2>1, <2>2, RestoreFrame DEF RestoreStep
<1>7. CASE RestoreConnect
  <2>1. /\ rs.at = "lock" /\ RestoreEnds /\ locked' \in BOOLEAN
        /\ UNCHANGED <<vars, tstate, connVars, est, ws, restores>>
    BY <1>0, <1>7 DEF RestoreConnect
  <2>2. CASE UNCHANGED <<run, retried, overlap, cancelled>>
    BY <1>0, <1>e, <1>2, <1>7, <2>1, <2>2, RestoreFrame DEF connVars, RestoreStep
  <2>3. CASE RunBegins(Updater, TRUE) /\ cancelled' = FALSE
    <3>1. call[Updater].at = "done"
      BY <1>0, <2>1, CallIsDone
    <3>2. QED
      BY <1>0, <1>e, <1>2, <1>7, <2>1, <2>3, <3>1, RunBeginsFrame DEF RestoreStep
  <2>4. QED
    BY <1>7, <2>2, <2>3 DEF RestoreConnect
<1>8. CASE DisconnectCancel
  <2>1. /\ rs.at = "cancel" /\ locked' = FALSE /\ cancelled' = TRUE
        /\ overlap' = (overlap \/ \E q \in Callers : Running(q))
        /\ UNCHANGED <<lockVars, thread, upload, envVars, panic, tstate, connVars, retried, run, est, ws,
                       restores>>
    BY <1>8 DEF DisconnectCancel
  <2>2. restores # 0 /\ ~Running(Updater) /\ call[Updater].at = "done"
    BY <1>0, <1>2, <1>8, <2>1, CallIsDone DEF RestoreStep
  <2>3. PICK r \in CallStates :
           /\ call' = [call EXCEPT ![Updater] = r]
           /\ \/ /\ RestoreGoto("stop") /\ r.op = "stop" /\ r.client = grpc /\ r.at = "lock" /\ grpc \in Clients
              \/ /\ RestoreGoto("close") /\ r = call[Updater]
    <3>1. CASE grpc # NoOne /\ RestoreGoto("stop") /\
               call' = [call EXCEPT ![Updater] = [op |-> "stop", client |-> grpc, at |-> "lock", res |-> "none"]]
      <4>1. grpc \in Clients /\ [op |-> "stop", client |-> grpc, at |-> "lock", res |-> "none"] \in CallStates
        BY <1>0, <3>1, CallTypes DEF TunnelTypeOK
      <4>2. QED
        BY <3>1, <4>1
    <3>2. CASE RestoreGoto("close") /\ UNCHANGED call
      BY <1>0, <3>2 DEF ClientInv, TypeOK
    <3>3. QED
      BY <1>8, <3>1, <3>2 DEF DisconnectCancel
  <2>4. rs' \in RestoreStates /\ (rs'.at = "stop" \/ rs'.at = "close")
    BY <1>r, <2>3
  <2>5. rs'.at = "stop" => r.op = "stop" /\ r.client = grpc /\ r.at = "lock" /\ grpc \in Clients
    BY <1>r, <2>3
  <2>6. rs'.at # "stop" => r = call[Updater]
    BY <1>r, <2>3
  <2>7. ClientInv' /\ call'[Updater] = r /\ \A q \in Callers \ {Updater} : call'[q] = call[q]
    <3>1. r.at \in {"lock", "done"} /\ (r.at # "done" => r.client \in Clients) /\ panic' \in BOOLEAN
      BY <1>0, <2>1, <2>2, <2>4, <2>5, <2>6 DEF ClientInv, TypeOK
    <3>2. QED
      BY <1>0, <2>1, <2>2, <2>3, <3>1, CallSetPreserves
  <2>8. TunnelTypeOK'
    BY <1>0, <2>1, <2>4 DEF TunnelTypeOK, connVars
  <2>9. CallsBelong'
    BY <1>0, <2>1, <2>2, <2>4, <2>5, <2>6, <2>7 DEF CallsBelong, Running
  <2>10. UNCHANGED <<connected, stopping, thread, grpc>>
    BY <2>1 DEF lockVars, connVars
  <2>11. \A c \in Clients : (Starting(c)' <=> Starting(c)) /\ (Retired(c)' <=> Retired(c))
    BY <2>2, <2>4, <2>5, <2>6, <2>7, <2>10 DEF Starting, Retired
  <2>12. StrayInv'
    <3>1. SUFFICES ASSUME ~overlap' PROVE StrayInv'
      BY DEF StrayInv
    <3>2. ~overlap /\ \A q \in Callers : ~Running(q) /\ ~Running(q)' /\ run'[q] = run[q]
      BY <2>1, <3>1 DEF Running
    <3>3. QED
      BY <1>0, <2>4, <2>5, <2>7, <2>10, <2>11, <3>1, <3>2 DEF StrayInv
  <2>13. OneClientAtFirst' /\ CrashNeedsRestore' /\ PlaceIsLeft' /\ LimitUntilRestore'
    BY <1>0, <2>1, <2>2 DEF OneClientAtFirst, CrashNeedsRestore, PlaceIsLeft, LimitUntilRestore
  <2>14. QED
    BY <2>7, <2>8, <2>9, <2>12, <2>13 DEF TunnelSafe, TunnelInv
<1>9. CASE DisconnectStopped
  <2>1. /\ rs.at = "stop" /\ call[Updater].at = "done" /\ grpc' = NoOne /\ enabled' = FALSE
        /\ call' = [call EXCEPT ![Updater] = NoCall] /\ RestoreGoto("close")
        /\ UNCHANGED <<lockVars, thread, upload, envVars, panic, tstate, made, cancelled, retried, locked, run,
                       est, ws, restores, overlap>>
    BY <1>9 DEF DisconnectStopped
  <2>2. restores # 0 /\ ~Running(Updater) /\ rs' \in RestoreStates /\ rs'.at = "close"
    BY <1>2, <1>9, <1>r, <2>1 DEF RestoreStep
  <2>3. NoCall \in CallStates /\ NoCall.at = "done" /\ panic' \in BOOLEAN
    BY <1>0, <2>1, CallTypes DEF NoCall, ClientInv, TypeOK
  <2>4. ClientInv' /\ call'[Updater] = NoCall /\ \A q \in Callers \ {Updater} : call'[q] = call[q]
    BY <1>0, <2>1, <2>3, CallSetPreserves
  <2>5. TunnelTypeOK'
    BY <1>0, <2>1, <2>2 DEF TunnelTypeOK
  <2>6. CallsBelong'
    BY <1>0, <2>1, <2>2, <2>3, <2>4 DEF CallsBelong, Running
  <2>7. UNCHANGED <<connected, stopping, thread>>
    BY <2>1 DEF lockVars
  <2>8. \A c \in Clients : Retired(c) => Retired(c)'
    BY <2>3, <2>4, <2>7 DEF Starting, Retired
  <2>9. StrayInv'
    BY <1>0, <2>1, <2>2, <2>8 DEF StrayInv, Running
  <2>10. OneClientAtFirst' /\ CrashNeedsRestore' /\ PlaceIsLeft' /\ LimitUntilRestore'
    BY <1>0, <2>1, <2>2 DEF OneClientAtFirst, CrashNeedsRestore, PlaceIsLeft, LimitUntilRestore
  <2>11. QED
    BY <2>4, <2>5, <2>6, <2>9, <2>10 DEF TunnelSafe, TunnelInv
<1>10. QED
  BY <1>1, <1>3, <1>4, <1>5, <1>6, <1>7, <1>8, <1>9 DEF RestoreStep

\* A step of the Tunnel, or none.
LEMMA TunnelStepSafe == TunnelSafe /\ [TunnelNext]_allVars => TunnelSafe'
<1> SUFFICES ASSUME TunnelSafe, [TunnelNext]_allVars PROVE TunnelSafe'
  OBVIOUS
<1>1. CASE OfClients(ClientStep)
  BY <1>1, OfClientsPreserves
<1>2. CASE ~panic /\ TunnelStep
  BY <1>2, RunPreserves, EstablishPreserves, ConnectionPreserves, CoordinatedReconnectPreserves,
     RestorePreserves DEF TunnelStep
<1>3. CASE UNCHANGED allVars
  <2>1. UNCHANGED <<vars, tunnelVars>>
    BY <1>3 DEF allVars
  <2>2. /\ UNCHANGED <<connected, stopping, mu, phase, thread, call, fails, stream, upload, world, faults, panic>>
        /\ UNCHANGED <<tstate, grpc, enabled, made, cancelled, retried, locked, run, est, ws, rs, restores, overlap>>
    BY <2>1 DEF vars, lockVars, envVars, tunnelVars, connVars
  <2>3. TypeOK'
    BY <2>2 DEF TunnelSafe, TunnelInv, ClientInv, TypeOK
  <2>4. ClientInv'
    BY <2>2, <2>3, QuietPreserves DEF TunnelSafe, TunnelInv
  <2>5. TunnelTypeOK' /\ CallsBelong'
    BY <2>2 DEF TunnelSafe, TunnelInv, TunnelTypeOK, CallsBelong, Running
  <2>6. OneClientAtFirst' /\ CrashNeedsRestore' /\ StrayInv'
    BY <2>2 DEF TunnelSafe, TunnelInv, OneClientAtFirst, CrashNeedsRestore, StrayInv, Starting, Retired, Running
  <2>7. PlaceIsLeft' /\ LimitUntilRestore'
    BY <2>2 DEF TunnelSafe, PlaceIsLeft, LimitUntilRestore, Pool
  <2>8. QED
    BY <2>4, <2>5, <2>6, <2>7 DEF TunnelSafe, TunnelInv
<1>4. QED
  BY <1>1, <1>2, <1>3 DEF TunnelNext

\* Reconnections, tunnels on demand and updates, however they overlap: the
\* clients stay what GRPCTunnelClient promises, there is one client until the
\* first update, and t.grpcClient crashes nothing before it.
THEOREM TunnelIsSafe == TunnelSpec => []TunnelInv
<1>1. TunnelSafe => TunnelInv
  BY DEF TunnelSafe
<1>2. QED
  BY <1>1, TunnelSafeInit, TunnelStepSafe, PTL DEF TunnelSpec

\* A connection that nobody will ever stop is left behind only when an execution
\* of connectWithRetry overlapped another one or Disconnect's stopping.
THEOREM StraysNeedOverlap == TunnelSpec => []StrayOnlyAfterOverlap
<1>1. TunnelSafe => StrayOnlyAfterOverlap
  BY DEF TunnelSafe, StrayInv, StrayOnlyAfterOverlap, Retired
<1>2. QED
  BY <1>1, TunnelSafeInit, TunnelStepSafe, PTL DEF TunnelSpec

-----------------------------------------------------------------------------
(* The limit on WebSocket tunnels, however many clients updates have made. *)

LimitInv == OnlyMade /\ PlacesAreCounted

\* What is counted is finite.
LEMMA CountedIsFinite ==
    ASSUME TunnelTypeOK, OnlyMade
    PROVE  /\ IsFiniteSet(Pool) /\ Cardinality(Pool) \in Nat
           /\ Establishing \subseteq made
           /\ IsFiniteSet(Establishing) /\ Cardinality(Establishing) \in Nat
           /\ Cardinality(made) \in Nat /\ Cardinality(Establishing) <= Cardinality(made)
<1>1. IsFiniteSet(Pool)
  BY TunnelAssumption, FS_Subset DEF Pool
<1>2. Establishing \subseteq made /\ IsFiniteSet(made)
  BY DEF OnlyMade, Establishing
<1>3. QED
  BY <1>1, <1>2, FS_Subset, FS_CardinalityType

\* A step that makes no client, begins no tunnel and adds none to the pool.
LEMMA QuietLimit ==
    ASSUME LimitInv, TunnelTypeOK, TunnelTypeOK', UNCHANGED <<made, est, thread>>,
           grpc' \in made \cup {NoOne},
           \A p \in Callers : call'[p].at # "done" => call'[p].client \in made,
           \A w \in Conns : ws'[w] \in {"pooled", "broken"} => ws[w] \in {"pooled", "broken"}
    PROVE  LimitInv'
<1> USE TunnelAssumption DEF LimitInv
<1>1. OnlyMade'
  BY DEF OnlyMade
<1>2. Establishing' = Establishing
  BY DEF Establishing
<1>3. QED
  BY <1>1, <1>2, CountedIsFinite, PoolShrinks DEF PlacesAreCounted

\* An execution of connectWithRetry calls t.grpcClient, or the client it makes.
LEMMA RunKeepsLimit ==
    ASSUME LimitInv, TunnelSafe, TunnelTypeOK', NEW p \in Callers, RunStep(p)
    PROVE  LimitInv'
<1> USE ClientAssumption, TunnelAssumption
<1>0. /\ TunnelTypeOK /\ OnlyMade /\ call \in [Callers -> CallStates] /\ NoCall.at = "done"
      /\ grpc \in made \cup {NoOne} /\ made \subseteq Clients
  BY DEF TunnelSafe, TunnelInv, TunnelTypeOK, ClientInv, TypeOK, LimitInv, OnlyMade, NoCall
<1>1. CASE RunMake(p)
  <2>1. PICK c \in Clients \ made :
           /\ grpc' = c /\ made' = made \cup {c}
           /\ call' = [call EXCEPT ![p] = [op |-> "start", client |-> c, at |-> "lock", res |-> "none"]]
    BY <1>1 DEF RunMake
  <2>2. UNCHANGED <<thread, est, ws>>
    BY <1>1 DEF RunMake
  <2>3. IsFiniteSet(made') /\ Cardinality(made') = Cardinality(made) + 1
    BY <1>0, <2>1, FS_AddElement DEF OnlyMade
  <2>4. OnlyMade'
    BY <1>0, <2>1, <2>2, <2>3 DEF OnlyMade
  <2>5. Pool' = Pool /\ Establishing' = Establishing
    BY <2>2 DEF Pool, Establishing
  <2>6. PlacesAreCounted'
    BY <1>0, <2>3, <2>5, CountedIsFinite DEF LimitInv, PlacesAreCounted
  <2>7. QED
    BY <2>4, <2>6 DEF LimitInv
<1>2. CASE ~RunMake(p)
  <2>1. UNCHANGED <<made, est, thread, grpc, ws>>
    BY <1>2 DEF RunStep, RunTop, RunWaited, RunLook, RunChecked, RunStarted, RunAnswer, vars, connVars
  <2>2. \/ call' = call
        \/ call' = [call EXCEPT ![p] = NoCall]
        \/ \E op \in {"isconn", "start"} : grpc # NoOne /\
              call' = [call EXCEPT ![p] = [op |-> op, client |-> grpc, at |-> "lock", res |-> "none"]]
    BY <1>2 DEF RunStep, RunTop, RunWaited, RunLook, RunChecked, RunStarted, RunAnswer, vars
  <2>3. \A q \in Callers : call'[q].at # "done" => call'[q].client \in made
    BY <1>0, <2>2 DEF OnlyMade
  <2>4. QED
    BY <1>0, <2>1, <2>3, QuietLimit
<1>3. QED
  BY <1>1, <1>2

\* A place is found free when a tunnel begins, and taken when it is established.
LEMMA EstablishKeepsLimit ==
    ASSUME LimitInv, TunnelTypeOK, ClientInv, NEW c \in Clients,
           (\E t \in Threads : EstablishBegin(c, t)) \/ EstablishAddress(c) \/ EstablishDial(c)
    PROVE  LimitInv'
<1> USE ClientAssumption, TunnelAssumption
<1>0. /\ OnlyMade /\ IsFiniteSet(Pool) /\ Cardinality(Pool) \in Nat
      /\ Establishing \subseteq made /\ IsFiniteSet(Establishing) /\ Cardinality(Establishing) \in Nat
      /\ Cardinality(made) \in Nat /\ IsFiniteSet(made) /\ MaxTunnels \in Nat
      /\ Cardinality(Pool) + Cardinality(Establishing) < MaxTunnels + Cardinality(made)
      /\ est \in [Clients -> {"none", "address", "dial"}]
      /\ ws \in [Conns -> {"none", "pooled", "broken", "closed"}]
  BY CountedIsFinite DEF LimitInv, PlacesAreCounted, OnlyMade, TunnelTypeOK
<1>1. UNCHANGED <<made, grpc, call, thread>>
  BY DEF EstablishBegin, EstablishAddress, EstablishDial, vars, connVars
<1>2. c \in made /\ \E e \in {"none", "address", "dial"} : est' = [est EXCEPT ![c] = e]
  <2>1. CASE \E t \in Threads : EstablishBegin(c, t)
    BY <1>0, <2>1 DEF EstablishBegin, OnlyMade
  <2>2. CASE EstablishAddress(c) \/ EstablishDial(c)
    BY <1>0, <2>2 DEF EstablishAddress, EstablishDial, OnlyMade
  <2>3. QED
    BY <2>1, <2>2
<1>3. OnlyMade'
  BY <1>0, <1>1, <1>2 DEF OnlyMade
<1>4. CASE \E t \in Threads : EstablishBegin(c, t)
  <2>1. est' = [est EXCEPT ![c] = "address"] /\ ws' = ws /\ Cardinality(Pool) < MaxTunnels
    BY <1>4 DEF EstablishBegin
  <2>2. Pool' = Pool /\ Establishing' \subseteq made
    BY <1>0, <1>2, <2>1 DEF Pool, Establishing
  <2>3. Cardinality(Establishing') \in Nat /\ Cardinality(Establishing') <= Cardinality(made)
    BY <1>0, <2>2, FS_Subset, FS_CardinalityType
  <2>4. Cardinality(Pool) + Cardinality(Establishing') < MaxTunnels + Cardinality(made)
    BY <1>0, <2>1, <2>3
  <2>5. QED
    BY <1>1, <1>3, <2>2, <2>4 DEF LimitInv, PlacesAreCounted
<1>5. CASE EstablishAddress(c)
  <2>1. est[c] = "address" /\ est' = [est EXCEPT ![c] = "dial"] /\ ws' = ws
    BY <1>5 DEF EstablishAddress
  <2>2. Pool' = Pool /\ Establishing' = Establishing
    BY <1>0, <2>1 DEF Pool, Establishing
  <2>3. QED
    BY <1>0, <1>1, <1>3, <2>2 DEF LimitInv, PlacesAreCounted
<1>6. CASE EstablishDial(c)
  <2>1. /\ est[c] = "dial" /\ est' = [est EXCEPT ![c] = "none"]
        /\ ws' = ws \/ \E w \in Conns : ws[w] = "none" /\ ws' = [ws EXCEPT ![w] = "pooled"]
    BY <1>6 DEF EstablishDial
  <2>2. Establishing' = Establishing \ {c} /\ c \in Establishing
    BY <1>0, <2>1 DEF Establishing
  <2>3. Cardinality(Establishing') = Cardinality(Establishing) - 1
    BY <1>0, <2>2, FS_RemoveElement
  <2>4. Cardinality(Pool') \in Nat /\ Cardinality(Pool') <= Cardinality(Pool) + 1
    <3>1. CASE ws' = ws
      BY <1>0, <3>1 DEF Pool
    <3>2. CASE \E w \in Conns : ws[w] = "none" /\ ws' = [ws EXCEPT ![w] = "pooled"]
      <4>1. PICK w \in Conns : ws[w] = "none" /\ ws' = [ws EXCEPT ![w] = "pooled"]
        BY <3>2
      <4>2. Pool' = Pool \cup {w} /\ w \notin Pool
        BY <1>0, <4>1 DEF Pool
      <4>3. Cardinality(Pool') = Cardinality(Pool) + 1
        BY <1>0, <4>2, FS_AddElement
      <4>4. QED
        BY <1>0, <4>3
    <3>3. QED
      BY <2>1, <3>1, <3>2
  <2>5. Cardinality(Pool') + Cardinality(Establishing') < MaxTunnels + Cardinality(made)
    BY <1>0, <2>3, <2>4
  <2>6. QED
    BY <1>1, <1>3, <2>5 DEF LimitInv, PlacesAreCounted
<1>7. QED
  BY <1>4, <1>5, <1>6

\* Every other step leaves the clients that were made, and their tunnels, alone.
LEMMA LimitStep == LimitInv /\ TunnelSafe /\ [TunnelNext]_allVars => LimitInv'
<1> SUFFICES ASSUME LimitInv, TunnelSafe, [TunnelNext]_allVars PROVE LimitInv'
  OBVIOUS
<1> USE ClientAssumption, TunnelAssumption
<1>0. /\ TunnelTypeOK /\ TunnelTypeOK' /\ ClientInv /\ CallsBelong /\ OnlyMade
      /\ call \in [Callers -> CallStates] /\ grpc \in made \cup {NoOne}
      /\ ws \in [Conns -> {"none", "pooled", "broken", "closed"}]
  BY TunnelStepSafe DEF TunnelSafe, TunnelInv, TunnelTypeOK, ClientInv, TypeOK, LimitInv, OnlyMade
<1>1. CASE OfClients(ClientStep)
  <2>1. ClientNext /\ UNCHANGED <<made, grpc, est, ws>>
    BY <1>1 DEF OfClients, ClientStep, ClientNext, ReaderStep, tunnelVars, connVars
  <2>2. \A p \in Callers : call'[p].at # "done" => call'[p].client \in made
    BY <1>0, <2>1, ClientEffects DEF OnlyMade
  <2>3. \A c \in Clients \ made, t \in Threads : thread'[c][t] = "idle"
    BY <1>0, <2>1, ClientEffects DEF OnlyMade, Starting
  <2>4. OnlyMade'
    BY <1>0, <2>1, <2>2, <2>3 DEF OnlyMade
  <2>5. Pool' = Pool /\ Establishing' = Establishing
    BY <2>1 DEF Pool, Establishing
  <2>6. QED
    BY <2>1, <2>4, <2>5 DEF LimitInv, PlacesAreCounted
<1>2. CASE \E p \in Callers : RunStep(p)
  BY <1>0, <1>2, RunKeepsLimit
<1>3. CASE \E c \in Clients : \/ \E t \in Threads : EstablishBegin(c, t)
                              \/ EstablishAddress(c) \/ EstablishDial(c)
  BY <1>0, <1>3, EstablishKeepsLimit
<1>4. CASE \E w \in Conns : ConnectionBreaks(w) \/ HandlerReturns(w) \/ CoordinatedReconnect(w)
  <2>1. PICK w \in Conns : ConnectionBreaks(w) \/ HandlerReturns(w) \/ CoordinatedReconnect(w)
    BY <1>4
  <2>2. UNCHANGED <<made, grpc, est, thread, call>>
    BY <2>1 DEF ConnectionBreaks, HandlerReturns, CoordinatedReconnect, vars, connVars
  <2>3. \A x \in Conns : ws'[x] \in {"pooled", "broken"} => ws[x] \in {"pooled", "broken"}
    BY <1>0, <2>1 DEF ConnectionBreaks, HandlerReturns, CoordinatedReconnect, Pool
  <2>4. QED
    BY <1>0, <2>2, <2>3, QuietLimit DEF OnlyMade
<1>5. CASE PreserveState \/ RestoreStep
  <2>1. UNCHANGED <<made, est, thread>> /\ (grpc' = grpc \/ grpc' = NoOne)
    BY <1>5 DEF PreserveState, RestoreStep, RestoreBegin, DisconnectCancel, DisconnectStopped, DisconnectClose,
                DisconnectDone, RestoreConfig, RestoreConnect, vars, connVars
  <2>2. \/ call' = call
        \/ call' = [call EXCEPT ![Updater] = NoCall]
        \/ grpc # NoOne /\
              call' = [call EXCEPT ![Updater] = [op |-> "stop", client |-> grpc, at |-> "lock", res |-> "none"]]
    BY <1>5 DEF PreserveState, RestoreStep, RestoreBegin, DisconnectCancel, DisconnectStopped, DisconnectClose,
                DisconnectDone, RestoreConfig, RestoreConnect, vars
  <2>3. \A q \in Callers : call'[q].at # "done" => call'[q].client \in made
    BY <1>0, <2>2 DEF OnlyMade, NoCall
  <2>4. \A x \in Conns : ws'[x] \in {"pooled", "broken"} => ws[x] \in {"pooled", "broken"}
    BY <1>0, <1>5 DEF PreserveState, RestoreStep, RestoreBegin, DisconnectCancel, DisconnectStopped,
                DisconnectClose, DisconnectDone, RestoreConfig, RestoreConnect, Pool
  <2>5. QED
    BY <1>0, <2>1, <2>3, <2>4, QuietLimit
<1>6. CASE UNCHANGED allVars
  BY <1>0, <1>6, QuietLimit DEF allVars, vars, lockVars, tunnelVars, connVars, OnlyMade
<1>7. QED
  BY <1>1, <1>2, <1>3, <1>4, <1>5, <1>6 DEF TunnelNext, TunnelStep

\* Until the first update the client never has more WebSocket tunnels than
\* maxWebSocketTunnels, although the limit is checked before the dial; after it
\* there is at most one more for every client that was made after the first,
\* however the readers of the old clients and of the new one overlap.
THEOREM TunnelLimitHolds == TunnelSpec => []TunnelsWithinLimit
<1>1. TunnelInit => LimitInv
  <2> SUFFICES ASSUME TunnelInit PROVE LimitInv
    OBVIOUS
  <2>1. Pool = {} /\ Establishing = {} /\ made = {}
    BY DEF TunnelInit, Pool, Establishing
  <2>2. IsFiniteSet(made) /\ Cardinality(Pool) = 0 /\ Cardinality(Establishing) = 0 /\ Cardinality(made) = 0
    BY <2>1, FS_EmptySet
  <2>3. OnlyMade
    BY <2>2 DEF OnlyMade, TunnelInit, Init, NoCall
  <2>4. PlacesAreCounted
    BY <2>2, TunnelAssumption DEF PlacesAreCounted
  <2>5. QED
    BY <2>3, <2>4 DEF LimitInv
<1>2. TunnelSafe /\ LimitInv => TunnelsWithinLimit
  <2> SUFFICES ASSUME TunnelSafe, LimitInv PROVE TunnelsWithinLimit
    OBVIOUS
  <2>1. TunnelTypeOK /\ OnlyMade /\ LimitUntilRestore /\ PlacesAreCounted
    BY DEF TunnelSafe, TunnelInv, LimitInv
  <2>2. Cardinality(Pool) < MaxTunnels + Cardinality(made)
    BY <2>1, CountedIsFinite, TunnelAssumption DEF PlacesAreCounted
  <2>3. QED
    BY <2>1, <2>2 DEF TunnelsWithinLimit
<1>3. QED
  BY <1>1, <1>2, TunnelSafeInit, TunnelStepSafe, LimitStep, PTL DEF TunnelSpec
=============================================================================
