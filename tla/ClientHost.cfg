SPECIFICATION Spec
CONSTANTS
    Threads = {"hook", "cli"}
    Home <- HomeDef
    Commands = {"connect", "update", "login", "test-mode", "auto-update", "service"}
    Bad = bad
    Part = part
    None = nofile
    MaxVersion = 3
    MaxStarts = 2
    MaxCommands = 1
    MaxUpdates = 2
    MaxReleases = 2
INVARIANTS UpdateIsSafe OneTunnel LoginSticks
CONSTRAINT Bound
CHECK_DEADLOCK FALSE
