SPECIFICATION Spec
CONSTANTS
    Client = {g1, g2}
    Exec = {e1, e2}
    Entry = {n1, n2}
    NoEntry = NoEntry
    MaxAttempts = 2
    MaxLives = 2
SYMMETRY Symmetry
CHECK_DEADLOCK FALSE
INVARIANTS OneExecution ScheduleFollowsRow NamesItsEntry GuardIsHeld
