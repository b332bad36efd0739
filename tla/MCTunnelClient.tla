--------------------------- MODULE MCTunnelClient ---------------------------
EXTENDS TunnelClient, TLC

\* WebSocket connections are interchangeable.
ConnSymmetry == Permutations(Conns)
=============================================================================
