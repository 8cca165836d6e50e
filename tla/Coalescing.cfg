SPECIFICATION MCSpec
CONSTANTS
    Caller = {c1, c2, c3}
    Project = {p, q}
    Loop = {l1}
    MaxConcurrent = 1
    Nothing = Nothing
    MaxPushes = 2
    MaxRequests = 2
    MaxFailures = 1
    MaxCrashes = 1
    Client = {g1}
    Run = {r1}
    Pid = {p1, p2}
    NoPid = 0
    Requests = {"start", "stop", "restart", "disable", "delete", "update"}
    Settings <- AutoOff
    MaxRestarts = 1
CHECK_DEADLOCK FALSE
INVARIANTS TypeOK NoLostWaiter FreshUnlessLate
PROPERTIES OneReloadPerRequest ImplementsSharedReload ImplementsBuildPromise CatchesUp CancelledRunEnds
