SPECIFICATION FairSpec
CONSTANTS
    w1 = w1
    w2 = w2
    w3 = w3
    t1 = t1
    t2 = t2
    Waiters <- TwoWaiters
    Tunnels <- TwoTunnels
    MaxWS = 1
    MaxAsked = 1
INVARIANT EstablishmentInv
CHECK_DEADLOCK FALSE
PROPERTY WaitersAreWoken
