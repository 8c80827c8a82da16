SPECIFICATION FairSpec
CONSTANTS
    feishu = feishu  web = web
    MaxRounds = 2
    MaxGen = 2
    MaxFaults = 1
    MaxCrashes = 1
    Managed <- CardsOf
    Platform <- Both
    FirstPlatform = feishu
INVARIANTS TypeOK LastFrameShown OrphanIsRegistered ConclusionIsKept
PROPERTIES ClosedStaysClosed FinalizeReturns
CHECK_DEADLOCK FALSE
