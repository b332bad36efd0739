---------------------------- MODULE StreamRegistry ----------------------------
(***************************************************************************)
(* The gRPC server's map of connected tunnels (tunnelStreams): the         *)
(* handlers EstablishTunnel, one per data stream a client opens, with the  *)
(* deferred function each runs when it leaves, and the handlers            *)
(* ControlChannel, one per control stream, which attach themselves to the  *)
(* data stream registered for their domain.                                *)
(*                                                                         *)
(* A client that reconnects opens a new data stream while the handler of   *)
(* its old one may still be running: nothing orders the two.               *)
(***************************************************************************)
EXTENDS Naturals

CONSTANTS
    Domains,    \* tunnel domains
    Streams,    \* data streams, each with its EstablishTunnel handler
    Controls    \* control streams, each with its ControlChannel handler

Absent == "none"

\* The address of a client's on-demand TCP tunnel, which is not one of a stream.
TCP == "tcp"

ASSUME AbsentIsNobody ==
    /\ Absent \notin Streams \cup Controls \cup Domains
    /\ TCP \notin Streams

VARIABLES
    est,        \* where the EstablishTunnel handler of a data stream is
    dom,        \* the domain of the tunnel it authenticated as
    registry,   \* tunnelStreams: the stream registered for a domain
    connected,  \* streams whose TunnelStream.connected is true
    reader,     \* handleClientMessages of a stream: none, running or gone
    broken,     \* streams whose context is cancelled
    clientIP,   \* the client IP on the domain's row: whose peer address it is
    ipFailed,   \* domains for which an UpdateClientIP reported an error
    ctl,        \* TunnelStream.ControlStream
    cpc,        \* where the ControlChannel handler of a control stream is
    asked,      \* the domain its handshake names
    cfor        \* the data stream it looked up

dataVars == <<est, dom, registry, connected, reader, broken>>
ipVars == <<clientIP, ipFailed>>
controlVars == <<ctl, cpc, asked, cfor>>
registryVars == <<dataVars, ipVars, controlVars>>

EstStates == {"idle", "authenticated", "configured", "registered", "running",
              "leaving", "removed", "gone"}

RegistryTypeOK ==
    /\ est \in [Streams -> EstStates]
    /\ dom \in [Streams -> Domains \cup {Absent}]
    /\ registry \in [Domains -> Streams \cup {Absent}]
    /\ connected \in SUBSET Streams
    /\ reader \in [Streams -> {Absent, "running", "gone"}]
    /\ broken \in SUBSET Streams
    /\ clientIP \in [Domains -> Streams \cup {Absent, TCP}]
    /\ ipFailed \in SUBSET Domains
    /\ ctl \in [Streams -> Controls \cup {Absent}]
    /\ cpc \in [Controls -> {"idle", "found", "attached", "open", "gone"}]
    /\ asked \in [Controls -> Domains \cup {Absent}]
    /\ cfor \in [Controls -> Streams \cup {Absent}]

RegistryInit ==
    /\ est = [s \in Streams |-> "idle"]
    /\ dom = [s \in Streams |-> Absent]
    /\ registry = [d \in Domains |-> Absent]
    /\ connected = {}
    /\ reader = [s \in Streams |-> Absent]
    /\ broken = {}
    /\ clientIP = [d \in Domains |-> Absent]
    /\ ipFailed = {}
    /\ ctl = [s \in Streams |-> Absent]
    /\ cpc = [c \in Controls |-> "idle"]
    /\ asked = [c \in Controls |-> Absent]
    /\ cfor = [c \in Controls |-> Absent]

-----------------------------------------------------------------------------
(* EstablishTunnel.                                                        *)

EstGoto(s, l) == est' = [est EXCEPT ![s] = l]

\* The handshake names or implies a tunnel of the token's owner.
Authenticate(s, d) ==
    /\ est[s] = "idle"
    /\ EstGoto(s, "authenticated")
    /\ dom' = [dom EXCEPT ![s] = d]
    /\ UNCHANGED <<registry, connected, reader, broken, ipVars, controlVars>>

\* No handshake, an invalid one, or a token that matches no enabled tunnel.
Refuse(s) ==
    /\ est[s] = "idle"
    /\ EstGoto(s, "gone")
    /\ UNCHANGED <<dom, registry, connected, reader, broken, ipVars,
                   controlVars>>

\* UpdateClientIP(ip) succeeds.
RecordClientIP(s) ==
    /\ est[s] = "authenticated"
    /\ EstGoto(s, "configured")
    /\ clientIP' = [clientIP EXCEPT ![dom[s]] = s]
    /\ UNCHANGED <<dom, registry, connected, reader, broken, ipFailed,
                   controlVars>>

\* UpdateClientIP(ip) fails, before or after the row is written: the handler
\* returns before it has deferred anything.
RecordClientIPFails(s) ==
    /\ est[s] = "authenticated"
    /\ EstGoto(s, "gone")
    /\ \/ clientIP' = [clientIP EXCEPT ![dom[s]] = s]
       \/ UNCHANGED clientIP
    /\ ipFailed' = ipFailed \cup {dom[s]}
    /\ UNCHANGED <<dom, registry, connected, reader, broken, controlVars>>

\* The stream takes the domain's place in tunnelStreams, whoever held it, and
\* the deferred function is set up.
RegisterStream(s) ==
    /\ est[s] = "configured"
    /\ EstGoto(s, "registered")
    /\ registry' = [registry EXCEPT ![dom[s]] = s]
    /\ connected' = connected \cup {s}
    /\ UNCHANGED <<dom, reader, broken, ipVars, controlVars>>

\* The handshake response is sent and handleClientMessages started.
StartStream(s) ==
    /\ est[s] = "registered"
    /\ s \notin broken
    /\ EstGoto(s, "running")
    /\ reader' = [reader EXCEPT ![s] = "running"]
    /\ UNCHANGED <<dom, registry, connected, broken, ipVars, controlVars>>

\* Mutant: the deferred function is only set up once the response is sent.
HandshakeSendFailsEarly(s) ==
    /\ est[s] = "registered"
    /\ EstGoto(s, "gone")
    /\ UNCHANGED <<dom, registry, connected, reader, broken, ipVars,
                   controlVars>>

\* The handshake response cannot be sent.
HandshakeSendFails(s) ==
    /\ est[s] = "registered"
    /\ EstGoto(s, "leaving")
    /\ UNCHANGED <<dom, registry, connected, reader, broken, ipVars,
                   controlVars>>

\* The connection of the client breaks or is closed.
StreamBreaks(s) ==
    /\ est[s] \notin {"idle", "gone"}
    /\ s \notin broken
    /\ broken' = broken \cup {s}
    /\ UNCHANGED <<est, dom, registry, connected, reader, ipVars, controlVars>>

\* handleClientMessages gets an error from Recv, also after the handler left.
ReaderEnds(s) ==
    /\ reader[s] = "running"
    /\ s \in broken \/ est[s] = "gone"
    /\ reader' = [reader EXCEPT ![s] = "gone"]
    /\ connected' = connected \ {s}
    /\ UNCHANGED <<est, dom, registry, broken, ipVars, controlVars>>

\* monitorTunnelHealth sees the cancelled context.
MonitorSeesCancel(s) ==
    /\ est[s] = "running"
    /\ s \in broken
    /\ EstGoto(s, "leaving")
    /\ UNCHANGED <<dom, registry, connected, reader, broken, ipVars,
                   controlVars>>

\* monitorTunnelHealth cannot send a health check.
HealthCheckFails(s) ==
    /\ est[s] = "running"
    /\ EstGoto(s, "leaving")
    /\ UNCHANGED <<dom, registry, connected, reader, broken, ipVars,
                   controlVars>>

\* Mutant: a stream that is broken when its handler leaves keeps its entry.
UnregisterHealthy(s) ==
    /\ est[s] = "leaving"
    /\ EstGoto(s, "removed")
    /\ registry' = IF s \in broken THEN registry
                   ELSE [registry EXCEPT ![dom[s]] = Absent]
    /\ UNCHANGED <<dom, connected, reader, broken, ipVars, controlVars>>

\* The deferred function deletes the domain's entry, whose ever it is.
Unregister(s) ==
    /\ est[s] = "leaving"
    /\ EstGoto(s, "removed")
    /\ registry' = [registry EXCEPT ![dom[s]] = Absent]
    /\ UNCHANGED <<dom, connected, reader, broken, ipVars, controlVars>>

\* Mutant: the address is cleared only for a stream still marked connected.
ClearClientIPIfConnected(s) ==
    /\ est[s] = "removed"
    /\ EstGoto(s, "gone")
    /\ clientIP' = IF s \in connected
                   THEN [clientIP EXCEPT ![dom[s]] = Absent] ELSE clientIP
    /\ UNCHANGED <<dom, registry, connected, reader, broken, ipFailed,
                   controlVars>>

\* ... and, after cleanupTunnelStreamState, clears the client IP.
ClearClientIP(s) ==
    /\ est[s] = "removed"
    /\ EstGoto(s, "gone")
    /\ clientIP' = [clientIP EXCEPT ![dom[s]] = Absent]
    /\ UNCHANGED <<dom, registry, connected, reader, broken, ipFailed,
                   controlVars>>

\* UpdateClientIP("") fails, before or after the row is written; only logged.
ClearClientIPFails(s) ==
    /\ est[s] = "removed"
    /\ EstGoto(s, "gone")
    /\ \/ clientIP' = [clientIP EXCEPT ![dom[s]] = Absent]
       \/ UNCHANGED clientIP
    /\ ipFailed' = ipFailed \cup {dom[s]}
    /\ UNCHANGED <<dom, registry, connected, reader, broken, controlVars>>

\* The other writer of the row: handleConnection, the handshake of an on-demand TCP
\* tunnel, records the address its client connects from, at any time, whoever holds
\* the domain's streams.  Nobody clears it when that tunnel ends.  (Its
\* UpdateClientIP may report an error after the row is written, or before; the
\* handshake is then refused, and the row is what this step, or none, leaves.)
RecordTCPClientIP(d) ==
    /\ clientIP' = [clientIP EXCEPT ![d] = TCP]
    /\ UNCHANGED <<dataVars, ipFailed, controlVars>>

-----------------------------------------------------------------------------
(* ControlChannel.                                                         *)

CGoto(c, l) == cpc' = [cpc EXCEPT ![c] = l]

\* Mutant: any tunnel serves a control stream whose domain has none.
FindTunnelAny(c, d) ==
    /\ cpc[c] = "idle"
    /\ CGoto(c, "found")
    /\ asked' = [asked EXCEPT ![c] = d]
    /\ \E e \in Domains :
          /\ registry[e] # Absent
          /\ registry[d] = Absent \/ e = d
          /\ cfor' = [cfor EXCEPT ![c] = registry[e]]
    /\ UNCHANGED <<dataVars, ipVars, ctl>>

\* The data stream of the handshake's domain is looked up.
FindTunnel(c, d) ==
    /\ cpc[c] = "idle"
    /\ registry[d] # Absent
    /\ CGoto(c, "found")
    /\ asked' = [asked EXCEPT ![c] = d]
    /\ cfor' = [cfor EXCEPT ![c] = registry[d]]
    /\ UNCHANGED <<dataVars, ipVars, ctl>>

\* "data tunnel must be established first", or no valid handshake.
RefuseControl(c) ==
    /\ cpc[c] = "idle"
    /\ CGoto(c, "gone")
    /\ UNCHANGED <<dataVars, ipVars, ctl, asked, cfor>>

\* The stream found is used, registered or not by now.
AttachControl(c) ==
    /\ cpc[c] = "found"
    /\ CGoto(c, "attached")
    /\ ctl' = [ctl EXCEPT ![cfor[c]] = c]
    /\ UNCHANGED <<dataVars, ipVars, asked, cfor>>

\* The confirmation is sent; the detaching function is deferred.
ConfirmControl(c) ==
    /\ cpc[c] = "attached"
    /\ CGoto(c, "open")
    /\ UNCHANGED <<dataVars, ipVars, ctl, asked, cfor>>

\* The confirmation cannot be sent: the handler returns without detaching.
ConfirmFails(c) ==
    /\ cpc[c] = "attached"
    /\ CGoto(c, "gone")
    /\ UNCHANGED <<dataVars, ipVars, ctl, asked, cfor>>

\* The control stream ends, or a pong cannot be sent: the deferred function
\* clears the field, whose ever stream it holds.
CloseControl(c) ==
    /\ cpc[c] = "open"
    /\ CGoto(c, "gone")
    /\ ctl' = [ctl EXCEPT ![cfor[c]] = Absent]
    /\ UNCHANGED <<dataVars, ipVars, asked, cfor>>

-----------------------------------------------------------------------------
Tunnel(s) ==
    \/ \E d \in Domains : Authenticate(s, d)
    \/ Refuse(s) \/ RecordClientIP(s) \/ RecordClientIPFails(s)
    \/ RegisterStream(s) \/ StartStream(s) \/ HandshakeSendFails(s)
    \/ StreamBreaks(s) \/ ReaderEnds(s)
    \/ MonitorSeesCancel(s) \/ HealthCheckFails(s)
    \/ Unregister(s) \/ ClearClientIP(s) \/ ClearClientIPFails(s)

Control(c) ==
    \/ \E d \in Domains : FindTunnel(c, d)
    \/ RefuseControl(c) \/ AttachControl(c) \/ ConfirmControl(c)
    \/ ConfirmFails(c) \/ CloseControl(c)

RegistryNext ==
    \/ \E s \in Streams : Tunnel(s)
    \/ \E c \in Controls : Control(c)
    \/ \E d \in Domains : RecordTCPClientIP(d)

RegistrySpec == RegistryInit /\ [][RegistryNext]_registryVars

\* A handler whose next step is enabled takes it: its calls return, and a broken
\* stream is noticed.  Nothing is assumed of the clients.
RegistryFairness ==
    \A s \in Streams :
        /\ WF_registryVars(\/ RecordClientIP(s) \/ RecordClientIPFails(s)
                   \/ RegisterStream(s) \/ StartStream(s)
                   \/ HandshakeSendFails(s) \/ MonitorSeesCancel(s)
                   \/ Unregister(s) \/ ClearClientIP(s)
                   \/ ClearClientIPFails(s))
        /\ WF_registryVars(ReaderEnds(s))

FairRegistrySpec == RegistrySpec /\ RegistryFairness

-----------------------------------------------------------------------------
(* Properties.                                                             *)

\* IsTunnelActive, which the HTTP router asks.
IsTunnelActive(d) == registry[d] # Absent /\ registry[d] \in connected

\* A handler past its registration that has not yet run the deferred delete.
Holding(s) == est[s] \in {"registered", "running", "leaving"}

\* tunnelStreams never holds a stream whose handler is done with it, nor one of
\* another domain, in spite of the failures between registration and exit: a
\* request is never sent to a stream nobody will clean up.
RegisteredIsHeld ==
    \A d \in Domains : registry[d] # Absent =>
        Holding(registry[d]) /\ dom[registry[d]] = d

\* Once the last EstablishTunnel handler of a domain has left, its row carries the
\* address of none of them, in whatever order overlapping handlers recorded and
\* cleared it, unless an UpdateClientIP of theirs failed.  An address that is left
\* is that of an on-demand TCP tunnel, whose handshake wrote it after the last of
\* them had cleared the row.
AddressCleared ==
    \A d \in Domains :
        (\A s \in Streams : dom[s] = d => est[s] \in {"authenticated", "gone"})
            => clientIP[d] \in {Absent, TCP} \/ d \in ipFailed

\* A cancel never goes to a control stream opened for another domain: the handshake
\* of the control stream a data stream holds named that stream's domain (the name is
\* taken on trust: the handler asks for no token), although the lookup and the
\* attachment are separate steps and the entry may change hands in between.
ControlSameDomain ==
    \A s \in Streams : ctl[s] # Absent => asked[ctl[s]] = dom[s]

\* The strengthening that makes them inductive.  A handler past its
\* authentication has a domain and one before it has none; an address recorded by
\* a handler has an owner in flight; a control handler holds a stream of its domain.
HandlersHaveDomains ==
    \A s \in Streams :
        /\ est[s] = "idle" => dom[s] = Absent
        /\ est[s] \notin {"idle", "gone"} => dom[s] \in Domains

AddressOwned ==
    \A d \in Domains :
        \/ clientIP[d] \in {Absent, TCP}
        \/ d \in ipFailed
        \/ \E s \in Streams : dom[s] = d /\ est[s] \in
              {"configured", "registered", "running", "leaving", "removed"}

ControlsHaveTunnels ==
    \A c \in Controls : cpc[c] \in {"found", "attached", "open"} =>
        /\ asked[c] \in Domains
        /\ cfor[c] \in Streams
        /\ dom[cfor[c]] = asked[c]

AttachedHaveDomains ==
    \A s \in Streams : ctl[s] # Absent =>
        asked[ctl[s]] \in Domains /\ cpc[ctl[s]] # "idle"

RegistryCore ==
    /\ RegistryTypeOK
    /\ HandlersHaveDomains
    /\ RegisteredIsHeld
    /\ AddressOwned
    /\ ControlsHaveTunnels
    /\ AttachedHaveDomains
    /\ ControlSameDomain

\* The stream of a handler that has registered it is not found under its domain only
\* if another stream of that domain was registered: streams of other domains, and
\* handlers that failed before their registration, displace nobody.
OnlyOwnDomainDisplaces ==
    \A s \in Streams : Holding(s) /\ registry[dom[s]] # s =>
        \E t \in Streams \ {s} :
            dom[t] = dom[s] /\ (Holding(t) \/ est[t] \in {"removed", "gone"})

RegistryInv == RegistryCore /\ OnlyOwnDomainDisplaces

\* A broken stream is taken out of tunnelStreams, and the router stops calling
\* it active.
BrokenStreamsLeave ==
    \A s \in Streams :
        (s \in broken) ~> \A d \in Domains : registry[d] # s

\* "This prevents stale state from interfering with reconnections": a client
\* whose stream is up and healthy is reachable under its domain.
ReconnectedIsRegistered ==
    \A s \in Streams :
        est[s] = "running" /\ s \notin broken => registry[dom[s]] # Absent

\* "Detach control stream on exit": no tunnel keeps a control stream whose
\* handler has returned.
ControlDetached ==
    \A s \in Streams : ctl[s] # Absent => cpc[ctl[s]] # "gone"

\* "Fallback to data channel if control channel unavailable": a cancel takes the
\* data channel only if no control stream of the tunnel is open.
OpenControlIsUsed ==
    \A c \in Controls : cpc[c] = "open" => ctl[cfor[c]] # Absent
===============================================================================
