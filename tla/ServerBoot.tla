----------------------------- MODULE ServerBoot -----------------------------
(***************************************************************************)
(* The server process: what Init writes to the database before it starts   *)
(* the other parts, the start, the shutdown in its order, and crashes.     *)
(* Docker starts the process again.  The database may be out of reach for   *)
(* a while; a statement sent then fails.                                   *)
(***************************************************************************)
EXTENDS EntStore, ClientVersions

CONSTANTS
    DefaultPlans,   \* names of the plans that are seeded, in order
    PlanLimit       \* a plan's monthly limit

\* The list is fixed in the code, and its names are distinct.
ASSUME BootAssumption ==
    /\ Len(DefaultPlans) \in Nat \ {0}
    /\ \A i, j \in 1..Len(DefaultPlans) : DefaultPlans[i] = DefaultPlans[j] => i = j

VARIABLES
    server,     \* the process: down, a stage of Init, up, or a stage of shutdown
    seed,       \* the seeding loop: the entry and the statement it is at
    plans,      \* the tables that are seeded
    versions,
    outage,     \* the database is unreachable
    clean       \* history: no statement of this start has failed

bootVars == <<server, seed, plans, versions, outage, clean>>

FirstSeed == [at |-> 1, create |-> FALSE]
Stages == {"down", "versions", "plans", "caddy", "router", "up", "tunnels", "usage", "late"}

BootInit ==
    /\ server = "down"
    /\ seed = FirstSeed
    /\ plans = <<>>
    /\ versions = <<>>
    /\ outage = FALSE
    /\ clean = TRUE

\* The next entry of the loop, or the next stage after the last one.
Advance(n, next) ==
    /\ server' = IF seed.at < n THEN server ELSE next
    /\ seed' = IF seed.at < n THEN [at |-> seed.at + 1, create |-> FALSE] ELSE FirstSeed

Leave(next) == server' = next /\ seed' = FirstSeed

\* main: without the database it exits.
Boot ==
    /\ server = "down" /\ ~outage
    /\ Leave("versions")
    /\ clean' = TRUE
    /\ UNCHANGED <<plans, versions, outage>>

-----------------------------------------------------------------------------
(* InitializeDefaultConfigs: an error ends it, and is only logged.         *)

\* The bug: the configuration is written whether it exists or not.
CheckVersionNever ==
    /\ server = "versions" /\ ~seed.create
    /\ IF outage THEN Leave("plans") /\ clean' = FALSE
       ELSE seed' = [seed EXCEPT !.create = TRUE] /\ UNCHANGED <<server, clean>>
    /\ UNCHANGED <<plans, versions, outage>>

CheckVersion ==
    /\ server = "versions" /\ ~seed.create
    /\ IF outage THEN Leave("plans") /\ clean' = FALSE
       ELSE /\ IF Exists(versions, DefaultKeys[seed.at])
               THEN Advance(Len(DefaultKeys), "plans")
               ELSE seed' = [seed EXCEPT !.create = TRUE] /\ UNCHANGED server
            /\ UNCHANGED clean
    /\ UNCHANGED <<plans, versions, outage>>

CreateVersion ==
    /\ server = "versions" /\ seed.create
    /\ IF outage
       THEN Leave("plans") /\ clean' = FALSE /\ UNCHANGED versions
       ELSE /\ versions' = UpdateClientVersionConfig(versions, DefaultKeys[seed.at], DefaultConfig(Semver(1)))
            /\ Advance(Len(DefaultKeys), "plans")
            /\ UNCHANGED clean
    /\ UNCHANGED <<plans, outage>>

(* SeedDefaultPlans: a failed check skips the plan, a failed insert ends it. *)

\* The bug: a plan is inserted without looking whether it is there.
CheckPlanNever ==
    /\ server = "plans" /\ ~seed.create
    /\ seed' = [seed EXCEPT !.create = TRUE]
    /\ UNCHANGED <<server, plans, versions, outage, clean>>

CheckPlan ==
    /\ server = "plans" /\ ~seed.create
    /\ IF outage \/ PlanExist(plans, [name |-> DefaultPlans[seed.at]])
       THEN Advance(Len(DefaultPlans), "caddy") /\ clean' = (clean /\ ~outage)
       ELSE seed' = [seed EXCEPT !.create = TRUE] /\ UNCHANGED <<server, clean>>
    /\ UNCHANGED <<plans, versions, outage>>

NewPlan == PlanCreate(plans, seed.at, PlanNew(DefaultPlans[seed.at], PlanLimit))

CreatePlan ==
    /\ server = "plans" /\ seed.create
    /\ IF outage \/ NewPlan.err # "none"
       THEN Leave("caddy") /\ clean' = (clean /\ ~outage) /\ UNCHANGED plans
       ELSE /\ plans' = NewPlan.table
            /\ Advance(Len(DefaultPlans), "caddy")
            /\ UNCHANGED clean
    /\ UNCHANGED <<versions, outage>>

-----------------------------------------------------------------------------
\* Caddy's configuration is loaded, or the process exits.
LoadConfig ==
    /\ server = "caddy"
    /\ Leave("router")
    /\ UNCHANGED <<plans, versions, outage, clean>>

\* The background tasks and the two tunnel servers start, and the listeners.
Start ==
    /\ server = "router"
    /\ Leave("up")
    /\ clean' = TRUE
    /\ UNCHANGED <<plans, versions, outage>>

\* An administrator publishes a version.
Publish ==
    /\ server = "up" /\ ~outage
    /\ versions' = UpdateClientVersionConfig(versions, DefaultKeys[1], [DefaultConfig(Semver(2)) EXCEPT !.force = TRUE])
    /\ UNCHANGED <<server, seed, plans, outage, clean>>

\* shutdown: first the API, then the tunnel servers, then the usage service.
ShutdownHTTP ==
    /\ server = "up"
    /\ Leave("tunnels")
    /\ UNCHANGED <<plans, versions, outage, clean>>

\* The whole shutdown has a deadline of ten seconds, which slow tunnels exceed.
StopRouter(slow) ==
    /\ server = "tunnels"
    /\ Leave(IF slow THEN "late" ELSE "usage")
    /\ UNCHANGED <<plans, versions, outage, clean>>

\* The usage service and the DNS monitor have stopped.
Stopped ==
    /\ server \in {"usage", "late"}
    /\ Leave("down")
    /\ UNCHANGED <<plans, versions, outage, clean>>

\* The process dies, or Init fails.
Crash ==
    /\ server # "down"
    /\ Leave("down")
    /\ UNCHANGED <<plans, versions, outage, clean>>

DatabaseLost ==
    /\ ~outage
    /\ outage' = TRUE
    /\ UNCHANGED <<server, seed, plans, versions, clean>>

DatabaseBack ==
    /\ outage
    /\ outage' = FALSE
    /\ UNCHANGED <<server, seed, plans, versions, clean>>

Seeding == CheckVersion \/ CreateVersion \/ CheckPlan \/ CreatePlan

-----------------------------------------------------------------------------
HasPlans == \A n \in 1..Len(DefaultPlans) : PlanExist(plans, [name |-> DefaultPlans[n]])
HasVersions == \A n \in 1..Len(DefaultKeys) : Exists(versions, DefaultKeys[n])

\* Starting again after a crash anywhere in the seeding completes it: a server
\* that is about to accept connections, and met no failed statement on its way,
\* has every default plan and version.
SeedsComplete == server = "router" /\ clean => HasPlans /\ HasVersions

\* No start overwrites what an administrator has published, however often the
\* server is restarted.
SeedsOverwriteNothing ==
    [][server # "up" =>
         /\ \A p \in DOMAIN plans : p \in DOMAIN plans' /\ plans'[p] = plans[p]
         /\ \A k \in DOMAIN versions : k \in DOMAIN versions' /\ versions'[k] = versions[k]]_bootVars
=============================================================================
