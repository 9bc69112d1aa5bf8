SPECIFICATION Spec
CONSTANTS
    r1 = r1
    r2 = r2
    Peers = {1, 2, 3}
    Hub = 1
    Relays = {2}
    Requests = {r1, r2}
    Clusters <- MCClusters
    GossipScores = {0}
    Slots = 1
    MaxRetries = 2
    MaxReloads = 1
    MaxGone = 1
INVARIANT CreditIsForService
