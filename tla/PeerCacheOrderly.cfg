SPECIFICATION FairSpec
CONSTANTS
    p1 = p1
    p2 = p2
    Peers = {p1}
    NoPeer = NoPeer
    Reports <- OneReport
    Work = {}
    SeedSnapshots <- NoSeeds
    CounterCap = 1
    MaxEvents = 2
    MaxResets = 1
    MaxConns = 2
INVARIANTS RowsCovered EventsExactlyOnce
PROPERTIES CommitIsSnapshot StoreSpec EventsReachDisk DeletesReachDisk ResetsReachDisk
