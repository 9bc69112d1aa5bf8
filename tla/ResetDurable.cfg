SPECIFICATION Spec
CONSTANTS
    p1 = p1
    p2 = p2
    Peers = {p1}
    NoPeer = NoPeer
    Reports <- OneReport
    Work <- MCWork
    SeedSnapshots <- NoSeeds
    CounterCap = 1
    MaxEvents = 2
    MaxResets = 1
    MaxConns = 1
INVARIANT ResetDurable
