SPECIFICATION Spec
CONSTANTS
    n1 = n1
    n2 = n2
    r1 = r1
    r2 = r2
    Requests = {r1, r2}
    Nodes = {n1, n2}
    Self = Self
    NoNode = NoNode
    Topologies <- Mixed
    RelayOnly = FALSE
    MaxRetries = 3
    MaxDeaths = 0
    MaxGone = 0
INVARIANT FullRound
