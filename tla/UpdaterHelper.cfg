SPECIFICATION Spec
CONSTANTS
    Request = {p1, p2}
    Helper = {h1, h2}
    MaxVersion = 3
    MaxCrashes = 0
CHECK_DEADLOCK FALSE
INVARIANTS HelperSwaps
