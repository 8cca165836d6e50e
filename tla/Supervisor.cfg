SPECIFICATION MCSpec
CONSTANTS
    Client = {g1, g2}
    Run = {r1, r2}
    Pid = {p1, p2}
    NoPid = 0
    Requests = {"start", "restart", "disable"}
    Settings <- EachOff
    MaxRestarts = 1
    MaxFailures = 1
SYMMETRY Symmetry
CONSTRAINT NoMishap
INVARIANTS TypeOK OneProcess Findable StoppedIsDead
PROPERTIES NoRestartAfterStop
