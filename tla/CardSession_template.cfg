SPECIFICATION Spec
CONSTANTS
    feishu = feishu  web = web
    MaxRounds = 1
    MaxGen = 2
    MaxFaults = 1
    MaxCrashes = 0
    Managed <- Entities
    Platform <- JustOne
    FirstPlatform = feishu
INVARIANTS ConclusionIsDelivered
CHECK_DEADLOCK FALSE
