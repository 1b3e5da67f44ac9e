\* Concurrent clients with fresh run ids, sessions that fail and reconnect.
SPECIFICATION ManagerSpec
CONSTANTS
    Client = {c1, c2}
    Start = start
    RunId = {r1, r2}
    Boot = boot
    Sizes = {2}
    Default = 1
    Keep = 2
    Early = TRUE
    Reuse = FALSE
    MaxGen = 3
    MaxFail = 1
INVARIANT LatestRunsKept
PROPERTY Settles
CHECK_DEADLOCK FALSE
