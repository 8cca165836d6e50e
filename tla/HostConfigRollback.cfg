SPECIFICATION Spec
CONSTANTS
    Handler = {g1, g2}
    Editor = {}
    Boot = boot
    Invalid = {}
    AutoReloads = {TRUE}
    MaxFailures = 0
    Host = {h1, bad}
    Unloadable = {bad}
INVARIANT RollbackTargetKnownGood
