SPECIFICATION UsageFairSpec
CONSTANTS
    b1 = b1
    k1 = k1
    k2 = k2
    k3 = k3
    Background <- OneBackground
    Keys <- ThreeKeys
    BatchSize = 2
    MaxUsage = 2
CHECK_DEADLOCK FALSE
INVARIANTS
    UsageInv
    SerialFlushesKeepAll
PROPERTY StopEnds
