SPECIFICATION FairSpec
CONSTANTS
    r1 = r1
    d1 = d1
    Requests <- TheRequests
    Domains <- OneDomain
    UserIds <- OneUser
    TunnelIds = {1}
    DefaultPlans <- TwoPlans
    PlanLimit = 1
    DefaultLimit = 2
    MaxBytes = 1
CONSTRAINT Bound
CHECK_DEADLOCK FALSE
INVARIANTS RoutingInv SeedsComplete
PROPERTIES SeedsOverwriteNothing StatusTakesEffect QuotaSettles ConnectionsEnd
