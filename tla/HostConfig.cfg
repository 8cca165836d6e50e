SPECIFICATION Spec
CONSTANTS
    Handler = {g1, g2}
    Editor = {g2}
    Boot = boot
    Host = {h1, bad, inv}
    Invalid = {inv}
    Unloadable = {bad}
    AutoReloads = {TRUE, FALSE}
    MaxFailures = 1
INVARIANTS TypeOK OnlyValidConfig UndisturbedApplySyncs UndisturbedFailureRestores
