SPECIFICATION FairRegistrySpec
CONSTANTS
    s1 = s1
    s2 = s2
    c1 = c1
    c2 = c2
    d1 = d1
    d2 = d2
    Streams <- TwoStreams
    Controls <- OneControl
    Domains <- TwoDomains
INVARIANT AddressCleared
INVARIANT RegistryInv
CHECK_DEADLOCK FALSE
PROPERTY BrokenStreamsLeave
