--------------------------- MODULE MCStreamRegistry ---------------------------
(* Instances of StreamRegistry for TLC.                                    *)
EXTENDS StreamRegistry, TLC

CONSTANTS s1, s2, c1, c2, d1, d2

TwoStreams == {s1, s2}
OneControl == {c1}
TwoControls == {c1, c2}
OneDomain == {d1}
TwoDomains == {d1, d2}

===============================================================================
