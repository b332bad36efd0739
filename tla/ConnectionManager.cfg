SPECIFICATION Spec
CONSTANTS
    u1 = u1
    u2 = u2
    c1 = c1
    c2 = c2
    c3 = c3
    d1 = d1
    d2 = d2
    Upgrades <- TwoUpgrades
    Conns <- ThreeConns
    Domains <- TwoDomains
    MaxWS = 2
SYMMETRY Interchangeable
INVARIANT OwnedNotAvailable
INVARIANT PoolsKept
CHECK_DEADLOCK FALSE
