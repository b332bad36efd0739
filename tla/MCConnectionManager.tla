------------------------- MODULE MCConnectionManager -------------------------
(* Instances of ConnectionManager for TLC.                                 *)
EXTENDS ConnectionManager, TLC

CONSTANTS u1, u2, c1, c2, c3, d1, d2

TwoUpgrades == {u1, u2}
TwoConns == {c1, c2}
ThreeConns == {c1, c2, c3}
OneDomain == {d1}
TwoDomains == {d1, d2}

\* Goroutines and connections are only ever compared.
Interchangeable == Permutations(TwoUpgrades) \cup Permutations(ThreeConns)
                     \cup Permutations(TwoDomains)
=============================================================================
