SPECIFICATION FairSpec
CONSTANTS
    r1 = r1
    r2 = r2
    Peers = {1, 2}
    Hub = 1
    Relays = {2}
    Requests = {r1, r2}
    Clusters <- Pairs
    GossipScores = {0}
    Slots = 1
    MaxRetries = 2
    MaxReloads = 2
    MaxGone = 1
INVARIANTS TypeOK SlotsBalanced PaidAsAnswered RolesSound
PROPERTIES UnusableLeave EveryoneAnswered
