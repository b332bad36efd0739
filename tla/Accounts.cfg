SPECIFICATION Spec
CONSTANTS
    Requests = {r1, r2}
    Uids = {u1, u2}
    NoUid = none
    MaxUsers = 2
    MaxSessions = 2
    MaxTokens = 1
    MaxArrivals = 3
SYMMETRY Symmetry
INVARIANTS AccountsInv OnlyLiveSessions LoggedOutIsDead
PROPERTIES RevokedStaysRevoked
CHECK_DEADLOCK FALSE
