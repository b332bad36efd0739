---------------------------- MODULE TunnelLifecycle ----------------------------
(***************************************************************************)
(* The tunnels of the database and their routes in Caddy (tunnelService,   *)
(* tunnelRepository, caddyService).  API requests create, update and       *)
(* delete tunnels; connecting and disconnecting clients set and clear the  *)
(* client's address.  Each operation reads the database, writes it, and    *)
(* then calls Caddy, with no lock or transaction around the three.         *)
(*                                                                         *)
(* A request that fails a check returns before it changes anything, and is *)
(* left out.  DNS lookups answer anything.  Caddy appends a posted route   *)
(* to its list, whatever is in it.                                         *)
(***************************************************************************)
EXTENDS Naturals

CONSTANTS
    Users,
    AutoDomains,           \* subdomains of the base domain
    CustomDomains,         \* other domains
    AutoOf,         \* GenerateSubdomainForUser
    Ports,
    Ids,            \* bound: tunnels ever created
    Ops,            \* concurrent requests
    ServerIPSet,    \* SERVER_IP is configured: DNS is verified
    MaxRoutes       \* bound: routes of one domain

ASSUME UsersAssumption == AutoOf \in [Users -> AutoDomains] /\ Users # {}
ASSUME DomainsAssumption == AutoDomains \cap CustomDomains = {}
ASSUME PortsAssumption == Ports # {} /\ "keep" \notin Ports
ASSUME IdsAssumption == Ids # {}
ASSUME ConfigAssumption == ServerIPSet \in BOOLEAN /\ MaxRoutes \in Nat

Domains == AutoDomains \cup CustomDomains

\* The columns of a tunnel; an id is never used again.
Tunnel == [state : {"free", "live", "deleted"}, user : Users, domain : Domains,
           port : Ports, enabled : BOOLEAN, pending : BOOLEAN, online : BOOLEAN]

\* What a request has read and been asked for.  For a tunnel that is yet to be
\* inserted, the row is the new one.
Job == [id : Ids, row : Tunnel, enable : {"keep", "on", "off"},
        port : Ports \cup {"keep"}, online : BOOLEAN]

Steps == {"idle", "insert", "update", "updateRoute", "clientIP", "clientIPRoute",
          "deleteRoute", "delete"}

VARIABLES
    tunnels,    \* the table
    routes,     \* Caddy's routes, by domain
    pc, job,    \* the requests
    verified,   \* history: tunnels that passed the check of their DNS
    failed      \* history: a call of Caddy or of the database failed

lifecycleVars == <<tunnels, routes, pc, job, verified, failed>>

Unused == [state |-> "free", user |-> CHOOSE u \in Users : TRUE,
           domain |-> AutoOf[CHOOSE u \in Users : TRUE],
           port |-> CHOOSE p \in Ports : TRUE,
           enabled |-> FALSE, pending |-> FALSE, online |-> FALSE]

Task(i, row, e, p, online) ==
    [id |-> i, row |-> row, enable |-> e, port |-> p, online |-> online]

NoJob == Task(CHOOSE i \in Ids : TRUE, Unused, "keep", "keep", FALSE)

LifecycleTypeOK ==
    /\ tunnels \in [Ids -> Tunnel]
    /\ routes \in [Domains -> 0..MaxRoutes]
    /\ pc \in [Ops -> Steps]
    /\ job \in [Ops -> Job]
    /\ verified \in SUBSET Ids
    /\ failed \in BOOLEAN

LifecycleInit ==
    /\ tunnels = [i \in Ids |-> Unused]
    /\ routes = [d \in Domains |-> 0]
    /\ pc = [o \in Ops |-> "idle"]
    /\ job = [o \in Ops |-> NoJob]
    /\ verified = {}
    /\ failed = FALSE

Live == {i \in Ids : tunnels[i].state = "live"}

\* GetByUserID.
Owned(u) == {i \in Live : tunnels[i].user = u}

\* Custom domains must point to the server, if its address is known.
MustVerify(d) == d \in CustomDomains /\ ServerIPSet

OpGoto(o, l) == pc' = [pc EXCEPT ![o] = l]

\* What the request keeps for its next step.
Keep(o, j) == job' = [job EXCEPT ![o] = j]

\* The request returns.
Return(o) == OpGoto(o, "idle") /\ Keep(o, NoJob)

-----------------------------------------------------------------------------
(* Caddy.                                                                  *)

\* ConfigureRoute appends a route, or fails.
ConfigureRoute(d) ==
    \/ /\ routes[d] < MaxRoutes
       /\ routes' = [routes EXCEPT ![d] = @ + 1]
       /\ UNCHANGED failed
    \/ UNCHANGED routes /\ failed' = TRUE

\* RemoveRoute deletes the first route of the domain, if it has one, or fails.
RemoveRoute(d) ==
    \/ /\ routes' = [routes EXCEPT ![d] = IF @ = 0 THEN 0 ELSE @ - 1]
       /\ UNCHANGED failed
    \/ UNCHANGED routes /\ failed' = TRUE

LeaveRoutes == UNCHANGED <<routes, failed>>

-----------------------------------------------------------------------------
(* CreateTunnel.                                                           *)

\* Mutant: any subdomain is accepted.
AutoAllowedAny(u, d) == \A i \in Owned(u) : tunnels[i].domain \notin AutoDomains

\* The checks of an automatic domain: it is the user's first and the right one.
AutoAllowed(u, d) ==
    /\ \A i \in Owned(u) : tunnels[i].domain \notin AutoDomains
    /\ d = AutoOf[u]

\* The checks of the user's other tunnels and of the domain, which is looked up.
\* A custom domain that does not point to the server is created disabled.
CreateTunnel(o, u, d, p) ==
    /\ pc[o] = "idle"
    /\ \A i \in Owned(u) : tunnels[i].port # p
    /\ d \in AutoDomains => AutoAllowed(u, d)
    /\ \E points \in BOOLEAN :
          /\ ~MustVerify(d) => points
          /\ Keep(o, Task(NoJob.id,
                          [state |-> "live", user |-> u, domain |-> d, port |-> p,
                           enabled |-> points, pending |-> ~points,
                           online |-> FALSE],
                          "keep", "keep", FALSE))
    /\ OpGoto(o, "insert")
    /\ UNCHANGED <<tunnels, routes, verified, failed>>

\* The row is inserted, unless the domain is taken.  The DNS status is not among
\* the columns that are set: it gets its default, verified.
Insert(o, i) ==
    /\ pc[o] = "insert"
    /\ tunnels[i].state = "free"
    /\ \A j \in Live : tunnels[j].domain # job[o].row.domain
    /\ tunnels' = [tunnels EXCEPT ![i] = [job[o].row EXCEPT !.pending = FALSE]]
    /\ verified' = IF job[o].row.enabled THEN verified \cup {i} ELSE verified
    /\ Return(o)
    /\ UNCHANGED <<routes, failed>>

\* The domain is taken, the tunnel has been deleted, or the database fails.
DatabaseFails(o) ==
    /\ pc[o] \in {"insert", "update", "clientIP", "delete"}
    /\ Return(o)
    /\ failed' = TRUE
    /\ UNCHANGED <<tunnels, routes, verified>>

-----------------------------------------------------------------------------
(* UpdateTunnel.                                                           *)

\* Mutant: DNS is verified only for a connected tunnel.
EnablesOnline(row, e) == e = "on" /\ ~row.enabled /\ row.online

\* The update enables a tunnel that was not: it must point to the server.
Enables(row, e) == e = "on" /\ ~row.enabled

\* The tunnel is read.  A new port must not be another tunnel's (the user's who
\* owns it), and a tunnel to be enabled must point to the server.
UpdateTunnel(o, i, e, p) ==
    /\ pc[o] = "idle"
    /\ i \in Live
    /\ p \notin {"keep", tunnels[i].port} =>
          \A j \in Owned(tunnels[i].user) \ {i} : tunnels[j].port # p
    /\ verified' = IF Enables(tunnels[i], e) THEN verified \cup {i} ELSE verified
    /\ Keep(o, Task(i, tunnels[i], e, p, FALSE))
    /\ OpGoto(o, "update")
    /\ UNCHANGED <<tunnels, routes, failed>>

\* The row is updated; the updated row is returned.  The row that was read is
\* kept for whether the tunnel was enabled.
Update(o) ==
    LET i == job[o].id
        new == [tunnels[i] EXCEPT
                  !.enabled = IF job[o].enable = "keep" THEN @
                                ELSE job[o].enable = "on",
                  !.port = IF job[o].port = "keep" THEN @ ELSE job[o].port,
                  !.pending = @ /\ ~Enables(job[o].row, job[o].enable)] IN
    /\ pc[o] = "update"
    /\ tunnels[i].state = "live"
    /\ tunnels' = [tunnels EXCEPT ![i] = new]
    /\ IF new.online
         THEN /\ OpGoto(o, "updateRoute")
              /\ Keep(o, Task(i, job[o].row, IF new.enabled THEN "on" ELSE "off",
                              job[o].port, FALSE))
         ELSE Return(o)
    /\ UNCHANGED <<routes, verified, failed>>

\* The route of a connected tunnel follows the updated row.
UpdateRoute(o) ==
    /\ pc[o] = "updateRoute"
    /\ LET d == job[o].row.domain IN
       CASE job[o].enable = "on" -> ConfigureRoute(d)
         [] job[o].enable = "off" /\ job[o].row.enabled -> RemoveRoute(d)
         [] OTHER -> LeaveRoutes
    /\ Return(o)
    /\ UNCHANGED <<tunnels, verified>>

-----------------------------------------------------------------------------
(* UpdateClientIP and DeleteTunnel.                                        *)

\* A client connects to the tunnel (online) or has gone.
UpdateClientIP(o, i, online) ==
    /\ pc[o] = "idle"
    /\ i \in Live
    /\ Keep(o, Task(i, tunnels[i], "keep", "keep", online))
    /\ OpGoto(o, "clientIP")
    /\ UNCHANGED <<tunnels, routes, verified, failed>>

WriteClientIP(o) ==
    /\ pc[o] = "clientIP"
    /\ tunnels[job[o].id].state = "live"
    /\ tunnels' = [tunnels EXCEPT ![job[o].id].online = job[o].online]
    /\ OpGoto(o, "clientIPRoute")
    /\ UNCHANGED <<routes, job, verified, failed>>

\* The route follows the row that was read before.
ClientIPRoute(o) ==
    /\ pc[o] = "clientIPRoute"
    /\ IF job[o].row.enabled
         THEN ConfigureRoute(job[o].row.domain)
         ELSE RemoveRoute(job[o].row.domain)
    /\ Return(o)
    /\ UNCHANGED <<tunnels, verified>>

DeleteTunnel(o, i) ==
    /\ pc[o] = "idle"
    /\ i \in Live
    /\ Keep(o, Task(i, tunnels[i], "keep", "keep", FALSE))
    /\ OpGoto(o, IF tunnels[i].enabled /\ tunnels[i].online THEN "deleteRoute"
                                                          ELSE "delete")
    /\ UNCHANGED <<tunnels, routes, verified, failed>>

DeleteRoute(o) ==
    /\ pc[o] = "deleteRoute"
    /\ RemoveRoute(job[o].row.domain)
    /\ OpGoto(o, "delete")
    /\ UNCHANGED <<tunnels, job, verified>>

Delete(o) ==
    /\ pc[o] = "delete"
    /\ tunnels[job[o].id].state = "live"
    /\ tunnels' = [tunnels EXCEPT ![job[o].id].state = "deleted"]
    /\ Return(o)
    /\ UNCHANGED <<routes, verified, failed>>

-----------------------------------------------------------------------------
LifecycleNext ==
    \E o \in Ops :
      \/ \E u \in Users, d \in Domains, p \in Ports : CreateTunnel(o, u, d, p)
      \/ \E i \in Ids : Insert(o, i)
      \/ \E i \in Ids, e \in {"keep", "on", "off"},
             p \in Ports \cup {"keep"} : UpdateTunnel(o, i, e, p)
      \/ Update(o) \/ UpdateRoute(o)
      \/ \E i \in Ids, online \in BOOLEAN : UpdateClientIP(o, i, online)
      \/ WriteClientIP(o) \/ ClientIPRoute(o)
      \/ \E i \in Ids : DeleteTunnel(o, i)
      \/ DeleteRoute(o) \/ Delete(o)
      \/ DatabaseFails(o)

LifecycleSpec == LifecycleInit /\ [][LifecycleNext]_lifecycleVars

-----------------------------------------------------------------------------
(* Properties.                                                             *)

\* A custom domain is served only after its DNS was seen to point to the
\* server: however requests overlap, a tunnel that is enabled was verified when
\* it was created or by the update that enabled it first.
EnabledWasVerified ==
    \A i \in Live :
        tunnels[i].enabled /\ MustVerify(tunnels[i].domain) => i \in verified

\* A user has at most one tunnel with an automatic domain, even if two requests
\* create it at once: the check of the user's tunnels is repeated by the
\* uniqueness of domains, since the user has one automatic domain only.
OneAutoPerUser ==
    \A i, j \in Live :
        /\ tunnels[i].user = tunnels[j].user
        /\ tunnels[i].domain \in AutoDomains
        /\ tunnels[j].domain \in AutoDomains
        => i = j

InsertAllowed(row) ==
    row.state = "live" /\ (row.domain \in AutoDomains => row.domain = AutoOf[row.user])

\* What requests under way may rely on, besides the types: the row they will
\* insert is allowed, the tunnel they have read has the same domain still, and
\* the tunnel they will enable was verified.
RequestsChecked ==
    \A o \in Ops :
        /\ pc[o] = "insert" => InsertAllowed(job[o].row)
        /\ pc[o] \notin {"idle", "insert"} =>
              /\ tunnels[job[o].id].state # "free"
              /\ job[o].row.domain = tunnels[job[o].id].domain
        /\ pc[o] = "update" /\ job[o].enable = "on" => job[o].id \in verified

\* A tunnel that is enabled, or was when it was deleted, was verified.
VerifiedOnce ==
    \A i \in Ids :
        tunnels[i].state # "free" /\ tunnels[i].enabled => i \in verified

\* An automatic domain is its owner's.
AutoIsOwn ==
    \A i \in Live : tunnels[i].domain \in AutoDomains =>
                       tunnels[i].domain = AutoOf[tunnels[i].user]

\* The unique index of the domain.
DomainsDistinct ==
    \A i, j \in Live : tunnels[i].domain = tunnels[j].domain => i = j

\* The inductive invariant: the types, what requests rely on, and why the two
\* properties above hold.
LifecycleInv ==
    LifecycleTypeOK /\ RequestsChecked /\ VerifiedOnce /\ AutoIsOwn /\ DomainsDistinct

\* No request is under way and none has failed halfway.
Quiet == ~failed /\ \A o \in Ops : pc[o] = "idle"

\* "Validate target port is not already in use by this user": no two tunnels of
\* a user have the same port.  It fails for concurrent requests.
PortsUnique ==
    \A i, j \in Live :
        tunnels[i].user = tunnels[j].user /\ tunnels[i].port = tunnels[j].port
          => i = j

\* "ALWAYS configure route if tunnel is enabled": a connected and enabled tunnel
\* has a route.
EnabledHasRoute ==
    Quiet => \A i \in Live : tunnels[i].enabled /\ tunnels[i].online
                               => routes[tunnels[i].domain] > 0

\* "Remove route if tunnel was disabled": a disabled tunnel has none.
DisabledHasNoRoute ==
    Quiet => \A i \in Live : ~tunnels[i].enabled => routes[tunnels[i].domain] = 0

\* "ConfigureRoute adds or updates a reverse proxy route in Caddy": a domain has
\* one route at most.
OneRoute == \A d \in Domains : routes[d] <= 1

\* A tunnel that was created disabled because its domain did not point to the
\* server is pending, so that the DNS monitor finds it.
UnverifiedIsPending ==
    \A i \in Live : i \notin verified => tunnels[i].pending
================================================================================
