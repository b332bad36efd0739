-------------------------- MODULE MCTunnelLifecycle --------------------------
(* Instances of TunnelLifecycle for TLC.                                   *)
EXTENDS TunnelLifecycle, TLC

CONSTANTS u1, a1, a2, c1, p1, i1, i2, o1, o2

OneUser == {u1}
TwoAuto == {a1, a2}
OneCustom == {c1}
FirstAuto == [u \in OneUser |-> a1]
OnePort == {p1}
TwoIds == {i1, i2}
TwoOps == {o1, o2}

\* Ids, ports and requests are only ever compared; the value that stands for an
\* unused field is chosen, so ids and ports are left alone.
Interchangeable == Permutations(TwoOps)
=============================================================================
