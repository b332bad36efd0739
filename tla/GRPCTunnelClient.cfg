SPECIFICATION Spec
CONSTANTS
    Clients = {c1}
    Callers = {p1, p2}
    Uploads = {u1}
    NoOne = NoOne
    MaxFailures = 2
    MaxFaults = 2
INVARIANTS
    ClientSafe
PROPERTIES
    StoppedStaysStopped
    Reconnects
    CallsReturn
\* A server that answers nothing can keep connect() waiting for ever.
CHECK_DEADLOCK FALSE
