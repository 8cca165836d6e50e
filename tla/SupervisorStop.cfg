SPECIFICATION Spec
CONSTANTS
    Client = {g1}
    Run = {r1, r2}
    Pid = {p1, p2, p3}
    NoPid = 0
    Requests = {"start", "stop"}
    Settings <- EachOff
    MaxRestarts = 1
    MaxFailures = 0
INVARIANTS StoppedStaysStopped
