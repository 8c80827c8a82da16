SPECIFICATION FairSpec
CONSTANTS
    w1 = w1  w2 = w2  f1 = f1  wecom = wecom  feishu = feishu
    Nobody = Nobody
    Msg <- Messages
    Kind <- Kinds
    KindOf <- KindOfMessage
    Chunks <- ChunksOf
    Direct <- Calls
    Bare <- Comments
    Config <- Configs
    MaxAttempts = 2
    Batch = 2
    Hour = 1
    MaxBackoff = 1
    MaxClock = 1
    MaxFaults = 1
INVARIANTS TypeOK OkMeansKept FreshInOrder RepeatIsExcused
PROPERTIES EveryRowEnds
CHECK_DEADLOCK FALSE
