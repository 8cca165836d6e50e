SPECIFICATION Spec
CONSTANTS
    None = None
    Deaf = Deaf
    MaxBuilds = 3
    MaxRequests = 3
    MaxFaults = 1
CHECK_DEADLOCK FALSE
PROPERTIES StopEndsProcess
