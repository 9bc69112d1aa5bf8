SPECIFICATION Spec
CONSTANTS
    p = p
    q = q
    me = me
    v = v
    w1 = w1
    w2 = w2
    ticker = ticker
    NoPeer = NoPeer
    Savers <- MCSavers
    MaxServed = 1
    MaxTokens = 1
    MaxNodeResets = 1
    MaxHubResets = 1
    MaxRestarts = 1
    MaxWire = 2
    Pinged = {p}
    Slots = 2
    MaxFail = 3
    MaxPenalty = 1
    MaxLeaves = 1
    MaxReboots = 2
    Others = {p, q}
    Direct = {p}
    Vips = {v}
    Vip <- SameVip
    Configs <- MCConfigs
    MaxUpsets = 3
    Me = me
    SeedLists <- MCSeedLists
    MaxTurns = 3
    Writers = {w1, w2}
    PortSettings <- MCPortSettings
    MaxSaves = 2
    MaxCredits = 1
    MaxSeeds = 1
    MaxSeconds = 1
    MaxBoots = 2
    Clients = {w1, w2}
    Words <- MCWords
    Chats <- MCChats
    MaxOps = 3
    Ranked = {p, q}
    Texts = {"sized", "named", "garbage", "relay"}
    MaxReports = 2
    MaxStarts = 2
INVARIANTS TypeOK TallyBalanced ResetInOrderHolds HealthExact FailsOnlyWithoutHub StopLeavesNothing NothingLost ReadsBack TopSound
PROPERTIES ResetSurvivesAlone GossipCatchesUp RedialsFollowLife TunnelsRecover EngineComesBack
CHECK_DEADLOCK FALSE
