SPECIFICATION Spec
CONSTANTS
    N = 4
    Cap = 2
INVARIANTS
    FinalMeansAll
PROPERTIES
    InOrderOnce
    
\* An unmarked body leaves the collector waiting for its timer.
CHECK_DEADLOCK FALSE
