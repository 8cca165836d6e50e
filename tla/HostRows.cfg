SPECIFICATION Spec
CONSTANTS
    Client = {g1, g2}
    Host = {h1, h2, h3}
    Domain = {a, b}
    Original = Original
    Nobody = Nobody
    Unborn = Unborn
    Gone = Gone
    MaxRequests = 3
SYMMETRY Symmetry
CHECK_DEADLOCK FALSE
INVARIANTS CheckedDomainsAreUnique EveryDomainCanBeClaimed UndisturbedHostIsWhole
