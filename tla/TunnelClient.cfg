SPECIFICATION TunnelSpec
CONSTANTS
    Clients = {c1, c2}
    Callers = {r1, up}
    Updater = up
    Uploads = {}
    NoOne = NoOne
    MaxFailures = 1
    MaxFaults = 1
    Conns = {w1, w2}
    MaxTunnels = 1
    MaxRestores = 1
SYMMETRY ConnSymmetry
INVARIANTS
    TunnelInv
    StrayOnlyAfterOverlap
    TunnelsWithinLimit
\* A server that answers nothing can keep connect() waiting for ever.
CHECK_DEADLOCK FALSE
