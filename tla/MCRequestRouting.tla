-------------------------- MODULE MCRequestRouting --------------------------
(* An instance of RequestRouting for TLC.                                  *)
EXTENDS RequestRouting

CONSTANTS r1, d1

TheRequests == {r1}
OneDomain == {d1}
OneUser == {1}
TwoPlans == <<"Free", "Pro">>

\* Bound: tunnels exist only beside complete seeds that nobody has changed,
\* which the requests do not read otherwise.
Bound ==
    tunnels = <<>> \/
        /\ HasPlans /\ HasVersions
        /\ \A k \in DOMAIN versions : versions[k] = DefaultConfig(Semver(1))
=============================================================================
