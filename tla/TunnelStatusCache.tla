--------------------------- MODULE TunnelStatusCache ---------------------------
(***************************************************************************)
(* The cache of enabled domains that proxied requests consult instead of   *)
(* the database (TunnelStatusCache).  One goroutine refreshes it: it       *)
(* queries the enabled tunnels and then swaps in the map made of them.     *)
(* Invalidate and InvalidateAll have no callers and are left out.          *)
(***************************************************************************)
EXTENDS Naturals

CONSTANTS Domains

VARIABLES
    active,     \* domains of enabled tunnels in the database
    cache,      \* domains the cache has as enabled
    loop,       \* the refresh goroutine: waiting, building or stopped
    result      \* what its query has returned

TypeOK ==
    /\ active \in SUBSET Domains
    /\ cache \in SUBSET Domains
    /\ loop \in {"waiting", "building", "stopped"}
    /\ result \in SUBSET Domains

\* Mutant: only tunnels that the cache does not have yet are asked for.
QueryMissing ==
    /\ loop = "waiting"
    /\ loop' = "building"
    /\ result' = active \ cache
    /\ UNCHANGED <<active, cache>>

\* refreshAll: GetActive answers.
Query ==
    /\ loop = "waiting"
    /\ loop' = "building"
    /\ result' = active
    /\ UNCHANGED <<active, cache>>

\* Mutant: the new entries are put into the old map.
MergeCache ==
    /\ loop = "building"
    /\ cache' = cache \cup result
    /\ loop' = "waiting"
    /\ result' = {}
    /\ UNCHANGED active

\* refreshAll: the new map replaces the old one.
SwapCache ==
    /\ loop = "building"
    /\ cache' = result
    /\ loop' = "waiting"
    /\ result' = {}
    /\ UNCHANGED active

\* Stop, which waits for a refresh under way.
Stop ==
    /\ loop = "waiting"
    /\ loop' = "stopped"
    /\ UNCHANGED <<active, cache, result>>
================================================================================
