------------------------ MODULE MCTunnelEstablishment ------------------------
(* Instances of TunnelEstablishment for TLC.                               *)
EXTENDS TunnelEstablishment, TLC

CONSTANTS w1, w2, w3, t1, t2

TwoWaiters == {w1, w2}
ThreeWaiters == {w1, w2, w3}
TwoTunnels == {t1, t2}

=============================================================================
