--------------------------- MODULE RequestRouting ---------------------------
(***************************************************************************)
(* What becomes of a browser's connection: the hijacking handler, the      *)
(* router's choice between the three paths, the checks that each path      *)
(* makes (connected, enabled, quota, rate), the answers, and the charge.    *)
(* It composes the server process (ServerBoot), the cache of enabled       *)
(* domains (TunnelStatusCache), the quota service and its cache, and the    *)
(* tables of EntStore.                                                     *)
(*                                                                         *)
(* What the paths do after their checks is PendingRequests, ChunkedResponse *)
(* and ConnectionManager; here they answer or fail.  The usage service's   *)
(* flush (UsageService) is one step.                                       *)
(***************************************************************************)
EXTENDS ServerBoot, FiniteSetsExt

CONSTANTS
    Requests,       \* connections that may be open at once
    Domains,
    UserIds,
    TunnelIds,
    DefaultLimit,   \* QUOTA_DEFAULT_MONTHLY_BYTES; 0 switches quotas off
    MaxBytes        \* bound: more usage than this is not told apart

\* Id 0 stands for no user.
ASSUME RoutingAssumption ==
    /\ Domains # {}
    /\ 0 \notin UserIds
    /\ MaxBytes \in Nat

VARIABLES
    users, tunnels,     \* tables
    usages,             \* the rows of the current month; earlier ones are not read
    cache, loop, result,    \* the status cache and its refresh goroutine
    quota,      \* the quota service's cache; "none" also for an entry that is too old
    memory,     \* usage that is not flushed yet
    stream,     \* the domain's gRPC stream: the user it belongs to, 0 for none
    pool,       \* the domain's idle WebSocket connection, by its user
    req         \* the connections

tables == <<users, tunnels, usages>>
status == <<cache, loop, result>>
links == <<stream, pool>>
vars == <<bootVars, tables, status, quota, memory, links, req>>

Pairs == UserIds \X Domains

\* A request, by what the router looks at: upgrade headers, kind of path, method.
Kinds == [upgrade : BOOLEAN, path : {"page", "socket", "large", "asset"}, write : BOOLEAN]

\* said counts the status lines that the browser has been sent.
NoRequest == [pc |-> "idle", domain |-> CHOOSE d \in Domains : TRUE, route |-> "none", owner |-> 0, user |-> 0,
              limit |-> 0, decision |-> "allow", open |-> FALSE, said |-> 0, err |-> "none", retry |-> FALSE]

EnabledDomains(t) == {row.domain : row \in TunnelAll(t, [enabled |-> TRUE])}

Status == INSTANCE TunnelStatusCache WITH active <- EnabledDomains(tunnels)

Init ==
    /\ BootInit
    /\ users = [u \in UserIds |-> UserSpec([uid |-> u, email |-> u, plan |-> DefaultPlans[1]])]
    /\ tunnels = <<>> /\ usages = <<>>
    /\ cache = {} /\ loop = "stopped" /\ result = {}
    /\ quota = [u \in UserIds |-> "none"]
    /\ memory = [k \in Pairs |-> 0]
    /\ stream = [d \in Domains |-> 0]
    /\ pool = [d \in Domains |-> 0]
    /\ req = [r \in Requests |-> NoRequest]

\* The hijacking server is not part of the shutdown.
Listening == server \in {"up", "tunnels", "usage", "late"}

-----------------------------------------------------------------------------
(* A connection's steps.                                                   *)

At(r, pc) == req[r].pc = pc
Goto(r, pc) == req' = [req EXCEPT ![r].pc = pc]

\* A status line is written, if the connection is still open.
Said(r) == req[r].said + IF req[r].open THEN 1 ELSE 0

\* ProxyConnection answers, returns, and the connection is closed.
Reply(r) == req' = [req EXCEPT ![r] = [NoRequest EXCEPT !.said = Said(r)]]

OnlyReq == UNCHANGED <<bootVars, tables, status, quota, memory, links>>

\* analyzeRequest and isWebSocketUpgrade.
analyzeRequest(k) ==
    CASE k.path \in {"socket", "large"} -> TRUE
      [] k.path = "asset" -> FALSE
      [] OTHER -> k.upgrade

ProxyConnection(k) ==
    CASE analyzeRequest(k) /\ k.upgrade -> "tcp"
      [] analyzeRequest(k) /\ ~k.upgrade -> "chunked"
      [] ~analyzeRequest(k) /\ k.write -> "upload"
      [] OTHER -> "plain"

IsTunnelActive(d) == stream[d] # 0
IsTunnelDomain(d) == IsTunnelActive(d) \/ pool[d] # 0

\* A domain without a tunnel gets 404 and is left out.
Arrive(r) ==
    /\ At(r, "idle") /\ Listening
    /\ \E d \in Domains, k \in Kinds :
          /\ IsTunnelDomain(d)
          /\ req' = [req EXCEPT ![r] = [NoRequest EXCEPT !.pc = "routed", !.domain = d,
                                            !.route = ProxyConnection(k), !.open = TRUE]]
    /\ OnlyReq

Active(r) == IsTunnelActive(req[r].domain)

\* By size, extension and path, which the router's own choice does not settle.
isLargeFileRequest == BOOLEAN

\* An upload is streamed; other requests of the chunked route are when they look large.
ProxyHTTPRequestWithChunking(route) ==
    IF route = "upload" THEN {"stream"} ELSE {IF large THEN "stream" ELSE "plain" : large \in isLargeFileRequest}

\* The page that says that the tunnel is not connected.
WriteNotConnectedPage(r) == ~Active(r) /\ Reply(r)

\* The page, 400 for a request that cannot be read, or the proxy call.
routeToGRPCTunnel(r) ==
    /\ At(r, "routed") /\ req[r].route \in {"plain", "upload"}
    /\ \/ WriteNotConnectedPage(r)
       \/ Active(r) /\ Reply(r)
       \/ /\ Active(r)
          /\ \E l \in IF req[r].route = "plain" THEN {"plain"} ELSE ProxyHTTPRequestWithChunking("upload") :
                Goto(r, l)
    /\ OnlyReq

routeToGRPCChunkedStreaming(r) ==
    /\ At(r, "routed") /\ req[r].route = "chunked"
    /\ \/ WriteNotConnectedPage(r)
       \/ Active(r) /\ Reply(r)
       \/ Active(r) /\ \E l \in ProxyHTTPRequestWithChunking("chunked") : Goto(r, l)
    /\ OnlyReq

-----------------------------------------------------------------------------
(* ProxyHTTPRequest.                                                       *)

LookupStream(r) ==
    /\ At(r, "plain")
    /\ IF Active(r)
       THEN req' = [req EXCEPT ![r].pc = "enabled", ![r].owner = stream[req[r].domain]]
       ELSE Reply(r)
    /\ OnlyReq

IsEnabled(d) == d \in cache

CheckEnabled(r) ==
    /\ At(r, "enabled")
    /\ IF IsEnabled(req[r].domain) THEN Goto(r, "quota") ELSE Reply(r)
    /\ OnlyReq

-----------------------------------------------------------------------------
(* CheckUser, called by both kinds of requests.                            *)

\* A cached result is taken as it is; u = 0 is a domain without a known owner.
CheckUser(r, u) ==
    IF u = 0 \/ DefaultLimit = 0
    THEN req' = [req EXCEPT ![r].pc = "decided", ![r].decision = "allow"]
    ELSE IF quota[u] # "none"
         THEN req' = [req EXCEPT ![r].pc = "decided", ![r].decision = quota[u]]
         ELSE req' = [req EXCEPT ![r].pc = "limit", ![r].user = u]

\* The limit of the user's plan, and the default when the plan is not found.
LimitOf(u) ==
    LET plan == PlanOnly(plans, [name |-> UserRow(users, u).plan, active |-> TRUE])
    IN IF outage \/ UserOnly(users, [uid |-> u]) = 0 \/ plan = 0
       THEN DefaultLimit ELSE PlanRow(plans, plan).limit

ReadLimit(r) ==
    /\ At(r, "limit")
    /\ req' = [req EXCEPT ![r].pc = "sum", ![r].limit = LimitOf(req[r].user)]
    /\ OnlyReq

Used(u) == MapThenSumSet(LAMBDA i : UsageRow(usages, i).bytes, UsageAll(usages, [user |-> u]))

\* A warning only adds a header.
Decision(used, limit) == IF used >= limit THEN "block" ELSE "allow"

\* A query that fails lets the request pass, and is not cached.
SumUsage(r) ==
    /\ At(r, "sum")
    /\ IF outage
       THEN req' = [req EXCEPT ![r].pc = "decided", ![r].decision = "allow", ![r].limit = 0, ![r].user = 0]
       ELSE req' = [req EXCEPT ![r].pc = "store", ![r].decision = Decision(Used(req[r].user), req[r].limit), ![r].limit = 0]
    /\ OnlyReq

StoreResult(r) ==
    /\ At(r, "store")
    /\ quota' = [quota EXCEPT ![req[r].user] = req[r].decision]
    /\ req' = [req EXCEPT ![r].pc = "decided", ![r].user = 0]
    /\ UNCHANGED <<bootVars, tables, status, memory, links>>

\* The bug: an entry is good for ever.
AgeNever(u) == quota[u] # "none" /\ UNCHANGED vars

\* Thirty seconds have passed.
Age(u) ==
    /\ quota[u] # "none"
    /\ quota' = [quota EXCEPT ![u] = "none"]
    /\ UNCHANGED <<bootVars, tables, status, memory, links, req>>

-----------------------------------------------------------------------------
(* ProxyHTTPRequest from there.                                            *)

\* The stream is looked up again for its user.
CheckQuota(r) ==
    /\ At(r, "quota")
    /\ CheckUser(r, stream[req[r].domain])
    /\ OnlyReq

\* 402 for a user over the quota, 502 for a domain over its rate.
AdmitRequest(r) ==
    /\ At(r, "decided") /\ req[r].route # "tcp"
    /\ \/ Reply(r)
       \/ req[r].decision # "block" /\ Goto(r, "sent")
    /\ OnlyReq

\* Usage in memory; more than MaxBytes is not told apart.
Charge(u, d) ==
    memory' = [memory EXCEPT ![<<u, d>>] = IF @ < MaxBytes THEN @ + 1 ELSE @]

\* The client answers, and the stream's user is charged; or it fails.  A
\* streamed request may be charged for what it sent before it failed.
Respond(r) ==
    /\ At(r, "sent")
    /\ Reply(r)
    /\ Charge(req[r].owner, req[r].domain) \/ UNCHANGED memory
    /\ UNCHANGED <<bootVars, tables, status, quota, links>>

\* The streamed paths look the stream up and check nothing else.
SendStreamed(r) ==
    /\ At(r, "stream")
    /\ IF Active(r)
       THEN req' = [req EXCEPT ![r].pc = "sent", ![r].owner = stream[req[r].domain]]
       ELSE Reply(r)
    /\ OnlyReq

-----------------------------------------------------------------------------
(* routeToTCPTunnel and proxyWebSocketConnectionInternal.                  *)

HasWebSocketConnection(d) == pool[d] # 0
GetDomainOwner(d) == pool[d]

\* 400, the page of a tunnel that is offline, the wait for a connection, or on.
routeToTCPTunnel(r) ==
    /\ At(r, "routed") /\ req[r].route = "tcp"
    /\ \/ Reply(r)
       \/ HasWebSocketConnection(req[r].domain) /\ Goto(r, "upgrade")
       \/ ~HasWebSocketConnection(req[r].domain) /\ Active(r) /\ Goto(r, "wait")
    /\ OnlyReq

\* waitForTCPTunnelEstablishment (TunnelEstablishment): the connection came.
Established(r) ==
    /\ At(r, "wait") /\ HasWebSocketConnection(req[r].domain)
    /\ Goto(r, "upgrade")
    /\ OnlyReq

\* The bug: the wait has no timer.
WaitOverNever(r) ==
    /\ At(r, "wait") /\ ~HasWebSocketConnection(req[r].domain) /\ ~Active(r)
    /\ Reply(r)
    /\ OnlyReq

\* The wait's timer, or the request for a tunnel could not be sent: 502.
WaitOver(r) ==
    /\ At(r, "wait")
    /\ Reply(r)
    /\ OnlyReq

CheckUpgrade(r) ==
    /\ At(r, "upgrade")
    /\ CheckUser(r, GetDomainOwner(req[r].domain))
    /\ OnlyReq

\* The bug: the connection is left open for the router's own answer.
Unclosed(c) == c

\* proxyWebSocketConnectionInternal closes the browser's connection on return.
Closed(c) == [c EXCEPT !.open = FALSE]

\* It returns with an error, or without; the second attempt's is not looked at.
Return(r, said, err) ==
    LET c == Closed(req[r]) IN
    req' = [req EXCEPT ![r] =
              IF err = "none" \/ c.retry THEN [NoRequest EXCEPT !.said = said]
              ELSE [c EXCEPT !.pc = "failed", !.said = said, !.err = err]]

\* 402 over the quota; 503 when the pool is full, 502 or 504 when no connection
\* can be had in five seconds; or a connection leaves the pool for this session.
TakeConnection(r) ==
    /\ At(r, "decided") /\ req[r].route = "tcp"
    /\ LET d == req[r].domain IN
       IF req[r].decision = "block"
       THEN Return(r, Said(r), "other") /\ UNCHANGED pool
       ELSE \/ Return(r, Said(r), "other") /\ UNCHANGED pool
            \/ /\ HasWebSocketConnection(d)
               /\ Goto(r, "handshake")
               /\ pool' = [pool EXCEPT ![d] = 0] \/ UNCHANGED pool
    /\ UNCHANGED <<bootVars, tables, status, quota, memory, stream>>

\* The upgrade is sent to the client and its answer to the browser.  A broken
\* pipe on either side is an error that mentions the connection.
Handshake(r) ==
    /\ At(r, "handshake")
    /\ \/ Return(r, req[r].said, "connection")
       \/ \E e \in {"connection", "other"} : Return(r, Said(r), e)
       \/ req' = [req EXCEPT ![r].pc = "session", ![r].said = Said(r)]
    /\ OnlyReq

\* One side closes.  The owner is looked up now: without an idle connection in
\* the pool there is none, and nothing is charged.
EndSession(r) ==
    /\ At(r, "session")
    /\ Return(r, req[r].said, "none")
    /\ LET d == req[r].domain IN
       IF GetDomainOwner(d) = 0 THEN UNCHANGED memory
       ELSE Charge(GetDomainOwner(d), d) \/ UNCHANGED memory
    /\ UNCHANGED <<bootVars, tables, status, quota, links>>

\* The router after an error: 500, or RemoveDeadConnection and then 503 or a
\* second attempt.
AfterError(r) ==
    /\ At(r, "failed")
    /\ IF req[r].err = "other" THEN Reply(r) /\ UNCHANGED pool
       ELSE /\ pool' = [pool EXCEPT ![req[r].domain] = 0] \/ UNCHANGED pool
            /\ IF Active(r)
               THEN req' = [req EXCEPT ![r].pc = "wait", ![r].retry = TRUE, ![r].err = "none"]
               ELSE Reply(r)
    /\ UNCHANGED <<bootVars, tables, status, quota, memory, stream>>

\* One step of a connection; a session lasts as long as its two ends like.
Step(r) ==
    \/ routeToGRPCTunnel(r) \/ routeToGRPCChunkedStreaming(r) \/ LookupStream(r) \/ CheckEnabled(r) \/ CheckQuota(r)
    \/ ReadLimit(r) \/ SumUsage(r) \/ StoreResult(r) \/ AdmitRequest(r)
    \/ SendStreamed(r) \/ Respond(r)
    \/ routeToTCPTunnel(r) \/ Established(r) \/ WaitOver(r) \/ CheckUpgrade(r)
    \/ TakeConnection(r) \/ Handshake(r) \/ AfterError(r)

\* Where a connection is in a call that no timer ends: the locks of the connection
\* manager, which can deadlock (ConnectionManager), when a domain is looked up or an
\* upgrade takes or removes a connection; Stream.Send and its lock, the body of an
\* upload, and the writes to the tunnel's connection and to the browser.
NoDeadline(r) ==
    \/ req[r].pc \in {"routed", "sent", "handshake", "failed"}
    \/ req[r].route = "tcp" /\ req[r].pc \in {"upgrade", "decided"}

\* Such a call never returns; the connection stays until the process ends.
Hangs(r) ==
    /\ NoDeadline(r)
    /\ Goto(r, "hung")
    /\ OnlyReq

-----------------------------------------------------------------------------
(* The clients, the API and the background tasks.                          *)

Running == server = "up"

\* The handshakes of both kinds of tunnels ask the database.
ClientConnects(d) ==
    /\ server \in {"up", "tunnels"} /\ ~outage /\ stream[d] = 0
    /\ \E i \in TunnelWhere(tunnels, [domain |-> d, enabled |-> TRUE]) :
          stream' = [stream EXCEPT ![d] = TunnelRow(tunnels, i).owner]
    /\ UNCHANGED <<bootVars, tables, status, quota, memory, pool, req>>

ClientLeaves(d) ==
    /\ stream[d] # 0
    /\ stream' = [stream EXCEPT ![d] = 0]
    /\ UNCHANGED <<bootVars, tables, status, quota, memory, pool, req>>

PoolGrows(d) ==
    /\ server \in {"up", "tunnels"} /\ ~outage /\ pool[d] = 0
    /\ \E i \in TunnelWhere(tunnels, [domain |-> d, enabled |-> TRUE]) :
          pool' = [pool EXCEPT ![d] = TunnelRow(tunnels, i).owner]
    /\ UNCHANGED <<bootVars, tables, status, quota, memory, stream, req>>

PoolEmpties(d) ==
    /\ pool[d] # 0
    /\ pool' = [pool EXCEPT ![d] = 0]
    /\ UNCHANGED <<bootVars, tables, status, quota, memory, stream, req>>

\* The tunnel handlers (TunnelLifecycle).
CreateTunnel ==
    /\ Running /\ ~outage
    /\ \E i \in TunnelIds \ DOMAIN tunnels, d \in Domains, u \in UserIds :
          LET saved == TunnelCreate(tunnels, i, TunnelNew(d, u, TRUE), users)
          IN saved.err = "none" /\ tunnels' = saved.table
    /\ UNCHANGED <<bootVars, users, usages, status, quota, memory, links, req>>

UpdateTunnel ==
    /\ Running /\ ~outage
    /\ \E i \in DOMAIN tunnels :
          tunnels' = TunnelUpdateOne(tunnels, i, [enabled |-> ~TunnelRow(tunnels, i).enabled]).table
    /\ UNCHANGED <<bootVars, users, usages, status, quota, memory, links, req>>

DeleteTunnel ==
    /\ Running /\ ~outage
    /\ \E i \in DOMAIN tunnels : tunnels' = TunnelDelete(tunnels, i).table
    /\ UNCHANGED <<bootVars, users, usages, status, quota, memory, links, req>>

\* The DNS monitor enables what waits for its domain to resolve here.  The
\* lookups and writes of one round are one step, and no write can clash with
\* another; routes are TunnelLifecycle's.
VerifyTunnels ==
    /\ Running /\ ~outage
    /\ \E resolved \in SUBSET TunnelWhere(tunnels, [pending |-> TRUE, enabled |-> FALSE]) :
          LET m == [enabled |-> TRUE, pending |-> FALSE]
          IN tunnels' = RewrittenAll(tunnels, resolved, m, TunnelFields(m)).table
    /\ UNCHANGED <<bootVars, users, usages, status, quota, memory, links, req>>

\* refreshAll; a query that fails leaves the cache as it is.
Refresh ==
    /\ UNCHANGED <<bootVars, tables, quota, memory, links, req>>
    /\ (Status!Query /\ ~outage) \/ Status!SwapCache

\* One key's usage is added to its row.  A statement that fails loses it.
Flushed(t, k) ==
    LET row == UsageOnly(t, [user |-> k[1], domain |-> k[2]])
        sum == memory[k] + IF row = 0 THEN 0 ELSE UsageRow(t, row).bytes
        bytes == IF sum > MaxBytes THEN MaxBytes ELSE sum
    IN IF row # 0 THEN UsageUpdateOne(t, row, [bytes |-> bytes]).table
       ELSE UsageCreate(t, Cardinality(DOMAIN t) + 1, UsageNew(1, k[1], k[2], bytes)).table

Flush ==
    /\ server \in {"up", "tunnels"}
    /\ \E k \in Pairs :
          /\ memory[k] > 0
          /\ memory' = [memory EXCEPT ![k] = 0]
          /\ usages' = IF outage THEN usages ELSE Flushed(usages, k)
    /\ UNCHANGED <<bootVars, users, tunnels, status, quota, links, req>>

\* The flush of Stop: lost when the deadline of the shutdown has passed.
FinalFlush ==
    IF outage \/ server = "late" THEN usages
    ELSE FoldSet(LAMBDA k, t : IF memory[k] = 0 THEN t ELSE Flushed(t, k), usages, Pairs)

NewMonth ==
    /\ usages # <<>>
    /\ usages' = <<>>
    /\ UNCHANGED <<bootVars, users, tunnels, status, quota, memory, links, req>>

-----------------------------------------------------------------------------
(* The process as a whole.                                                 *)

\* What the process kept in memory is gone, or not there yet.
Forget ==
    /\ cache' = {} /\ loop' = "stopped" /\ result' = {}
    /\ quota' = [u \in UserIds |-> "none"]
    /\ memory' = [k \in Pairs |-> 0]
    /\ stream' = [d \in Domains |-> 0]
    /\ pool' = [d \in Domains |-> 0]
    /\ req' = [r \in Requests |-> NoRequest]

Ends ==
    /\ Forget
    /\ UNCHANGED <<users, tunnels>>
    /\ \/ Crash /\ UNCHANGED usages
       \/ Stopped /\ usages' = FinalFlush

Starts ==
    /\ Start
    /\ loop' = "waiting"
    /\ UNCHANGED <<tables, cache, result, quota, memory, links, req>>

\* The listeners are closed, and the streams, when their clients have not left
\* after thirty seconds; the status cache stops.  The connections of the TCP
\* tunnels are left as they are.
StopsRouter ==
    /\ \E slow \in {FALSE, \E d \in Domains : IsTunnelActive(d)} : StopRouter(slow)
    /\ UNCHANGED <<tables, quota, memory, pool, req>>
    /\ Status!Stop
    /\ stream' = [d \in Domains |-> 0]

Boots ==
    /\ Boot \/ Seeding \/ LoadConfig \/ Publish \/ ShutdownHTTP \/ DatabaseLost \/ DatabaseBack
    /\ UNCHANGED <<tables, status, quota, memory, links, req>>

Next ==
    \/ \E r \in Requests : Arrive(r) \/ Step(r) \/ EndSession(r) \/ Hangs(r)
    \/ \E u \in UserIds : Age(u)
    \/ \E d \in Domains : ClientConnects(d) \/ ClientLeaves(d) \/ PoolGrows(d) \/ PoolEmpties(d)
    \/ CreateTunnel \/ UpdateTunnel \/ DeleteTunnel \/ VerifyTunnels
    \/ Refresh \/ Flush \/ NewMonth
    \/ Boots \/ Starts \/ StopsRouter \/ Ends

Spec == Init /\ [][Next]_vars

\* A goroutine goes on, or hangs where nothing limits its call; the wait for a tunnel
\* and the one for an answer have timers, and statements of the database return, with
\* an error in an outage.  Tickers fire; thirty seconds pass.  Nothing makes clients,
\* users or the database act.
Fairness ==
    /\ \A r \in Requests : WF_vars(Step(r) \/ Hangs(r))
    /\ \A u \in UserIds : WF_vars(Age(u))
    /\ WF_vars(Refresh)
    /\ WF_vars(Flush)

FairSpec == Spec /\ Fairness

-----------------------------------------------------------------------------
PCs == {"idle", "routed", "plain", "enabled", "quota", "limit", "sum", "store", "decided", "stream",
        "sent", "wait", "upgrade", "handshake", "session", "failed", "hung"}

TypeOK ==
    /\ server \in Stages /\ outage \in BOOLEAN /\ clean \in BOOLEAN
    /\ \A r \in Requests : req[r].pc \in PCs /\ req[r].decision \in {"allow", "block"}
    /\ quota \in [UserIds -> {"none", "allow", "block"}]
    /\ memory \in [Pairs -> 0..MaxBytes]
    /\ stream \in [Domains -> UserIds \cup {0}] /\ pool \in [Domains -> UserIds \cup {0}]
    /\ Status!TypeOK

\* Whatever fails after an upgrade has been answered, the browser is not sent a
\* second status line: the router's own answer finds the connection closed.
AnsweredOnce == \A r \in Requests : req[r].said <= 1

RoutingInv == TypeOK /\ AnsweredOnce

Calm == server = "up" /\ ~outage
SentFor(r, d) == At(r, "sent") /\ req[r].domain = d /\ req[r].route = "plain"

\* A change of a tunnel takes effect while its client stays connected, also
\* after restarts and outages of the database: once it stays disabled or
\* deleted, in the end no plain request is sent to the client, and once it
\* stays enabled, none is turned away as disabled.
StatusTakesEffect ==
    \A d \in Domains :
        /\ <>[](Calm /\ d \notin EnabledDomains(tunnels)) => <>[](\A r \in Requests : ~SentFor(r, d))
        /\ <>[](Calm /\ d \in EnabledDomains(tunnels)) =>
              <>[](\A r \in Requests : At(r, "enabled") /\ req[r].domain = d => IsEnabled(d))

\* However old the cached results are: a user whose stored usage of the month
\* stays over the limit is blocked in the end, one who stays under it is not.
QuotaSettles ==
    \A u \in UserIds, b \in {"allow", "block"} :
        <>[](Calm /\ Decision(Used(u), LimitOf(u)) = b) =>
            <>[](quota[u] \in {"none", b} /\ \A r \in Requests : At(r, "store") /\ req[r].user = u => req[r].decision = b)

\* Each connection is answered or closed, or becomes a session, which lasts as long
\* as its two ends like, or hangs in one of the calls that no timer ends.  Neither
\* the wait for a tunnel that never comes, nor the retry after a broken one, nor a
\* stream that leaves, nor an outage during the quota check keeps it.
ConnectionsEnd ==
    \A r \in Requests :
        ~At(r, "idle") ~> At(r, "idle") \/ At(r, "session") \/ At(r, "hung")
=============================================================================
