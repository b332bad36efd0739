SPECIFICATION LifecycleSpec
CONSTANTS
    u1 = u1
    a1 = a1
    a2 = a2
    c1 = c1
    p1 = p1
    i1 = i1
    i2 = i2
    o1 = o1
    o2 = o2
    Users <- OneUser
    AutoDomains <- TwoAuto
    CustomDomains <- OneCustom
    AutoOf <- FirstAuto
    Ports <- OnePort
    Ids <- TwoIds
    Ops <- TwoOps
    ServerIPSet = TRUE
    MaxRoutes = 1
SYMMETRY Interchangeable
INVARIANT EnabledWasVerified
INVARIANT OneAutoPerUser
