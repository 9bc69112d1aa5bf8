SPECIFICATION Spec
CONSTANTS
    n1 = n1
    n2 = n2
    r1 = r1
    r2 = r2
    Requests = {r1, r2}
    Nodes = {n1, n2}
    Self = Self
    NoNode = NoNode
    Topologies <- All
    RelayOnly = FALSE
    MaxRetries = 1
    MaxDeaths = 1
    MaxGone = 1
INVARIANTS SlotHeldByOne AlwaysRechecked AnsweredOnce FullRoundIfAlone ServedWhileReady
