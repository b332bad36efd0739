--------------------------- MODULE MCUsageService ---------------------------
(* Instances of UsageService for TLC.                                      *)
EXTENDS UsageService

CONSTANTS b1, k1, k2, k3

OneBackground == {b1}
OneKey == {k1}
ThreeKeys == {k1, k2, k3}
=============================================================================
