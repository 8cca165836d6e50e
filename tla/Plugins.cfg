SPECIFICATION MCSpec
CONSTANTS
    docker = docker
    database = database
    monitoring = monitoring
    Plugin <- MCPlugin
    DepGraphs <- MCDepGraphs
    Priority <- MCPriority
    DefaultOn = {monitoring}
    MaxFailures = 3
    Rule = {r1}
    Duration = 2
    Cooldown = 1
    HealWindow = 2
    MaxStarts = 2
    MaxHeals = 2
    MaxTime = 2
INVARIANTS TypeOK DepsClosed GuardCovers Consistent BootOrder NoLoopIsAbandoned
PROPERTIES HealsKeepApart
