SPECIFICATION Spec
CONSTANTS
    Client = {g1, g2, g3}
    MaxJobs = 3
    MaxDeletes = 1
    MaxHosts = 1
    MaxFaults = 0
CHECK_DEADLOCK FALSE
INVARIANTS EvictionConverges
