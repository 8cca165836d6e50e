SPECIFICATION MCSpec
CONSTANTS
    None = None
    Deaf = Deaf
    MaxBuilds = 3
    MaxRequests = 2
    MaxFaults = 1
    Client = {g1, g2}
    MaxJobs = 3
    MaxDeletes = 1
    MaxHosts = 2
    Request = {p1, p2}
    Helper = {h1, h2}
    MaxVersion = 3
    MaxCrashes = 1
SYMMETRY Symmetry
CHECK_DEADLOCK FALSE
INVARIANTS TrafficFollowsPort ZeroDowntime OneSuccessPerNumber DeletedLeavesNothing OneRunPerPreview RunningIsServed NoneIsStranded NoOrphans InstalledIsWhole
