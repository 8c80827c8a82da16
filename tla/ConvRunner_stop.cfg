SPECIFICATION FairSpec
CONSTANTS
    m1 = m1  m2 = m2  s1 = s1
    Free = Free  Command = Command
    Msg <- TwoMessages
    Steerable <- OneSteerable
    MediaOnly <- None
    Stop <- OneStop
    HardStop <- OneStop
    Removable <- None
    AutoCompact = TRUE
    Commands = TRUE
    QueueCap = 2
    MarkTTL = 0
    MaxClock = 2
    MaxCrashes = 0
    MaxFaults = 0
INVARIANTS NoOrphanQueue MarkedInLoopDoesNotRun
PROPERTIES EveryMessageSettles SettledIsFinal
CHECK_DEADLOCK FALSE
