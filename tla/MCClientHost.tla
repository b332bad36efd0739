---------------------------- MODULE MCClientHost ----------------------------
EXTENDS ClientHost, TLC

HomeDef == [u \in Threads |-> IF u = "cli" THEN "shell" ELSE "svc"]

\* What two installations at once leave behind is not explored further.  And a
\* second update is only begun beside `update' or none: the executable has nothing
\* to do with the configuration and the pid file.
Bound ==
    /\ ~past.overlap
    /\ spent.updates < 2 \/ (spent.logins = 1 /\ proc["shell"].cmd \in {"none", "update"})

-----------------------------------------------------------------------------
(* The decisions of ClientVersions against their reference definitions.    *)

Stable == {Version("semver", p, "") : p \in [1..2 -> 0..2] \cup [1..1 -> 0..2]}
Legacy == {Version("legacy", <<n>>, c) : n \in 0..1, c \in {"a", "b"}}
Builds == {Version("test", <<0>>, c) : c \in {"a", "b"}} \cup {Version("dev", <<>>, c) : c \in {"", "a"}}
Weight(v) == 10 * parseVersionPart(v.parts, 1) + parseVersionPart(v.parts, 2)
Sign(n) == IF n < 0 THEN -1 ELSE IF n > 0 THEN 1 ELSE 0

\* Releases are ordered by their numbers.
ASSUME ReleasesAreOrdered ==
    \A v, w \in Stable : CompareVersions(v, w) = Sign(Weight(v) - Weight(w))

\* What is newer one way is older the other way, except between two builds
\* of the test channel or two development builds, where each sees the other
\* as an update.
ASSUME OrderIsOneWay ==
    \A v, w \in Stable \cup Legacy \cup Builds :
       CompareVersions(v, w) = -CompareVersions(w, v)
         \/ (v.kind = w.kind /\ v.kind \in {"test", "dev"})

\* A release is never replaced by a build of the test channel.
ASSUME TestBuildsAreOlder ==
    \A v \in Stable, w \in Builds : ~IsUpdateAvailable(v, w)

\* The hours counted off from the start of the window; none when start = end.
ASSUME WindowIsAnInterval ==
    \A hour, start, end \in 0..23 :
       isInUpdateWindow(hour, start, end) <=> (hour - start) % 24 < (end - start) % 24

\* No row that answers is less specific than another that could.
ASSUME MostSpecificRow ==
    \A keys \in SUBSET {<<"stable", p, a>> : p \in {"linux", "all"}, a \in {"amd64", "all"}} :
       LET k == getClientVersionConfig([x \in keys |-> 0], "stable", "linux", "amd64")
           more(x) == Cardinality({i \in {2, 3} : x[i] # "all"})
       IN IF keys = {} THEN k = <<>> ELSE k \in keys /\ \A x \in keys : more(k) >= more(x)
=============================================================================
