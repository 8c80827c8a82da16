SPECIFICATION Spec
CONSTANTS
    m1 = m1  m2 = m2  s1 = s1
    Free = Free  Command = Command
    Msg <- TwoMessages
    Steerable <- None
    MediaOnly <- TheOther
    Stop <- None
    HardStop <- None
    Removable <- OneSteerable
    AutoCompact = FALSE
    Commands = FALSE
    QueueCap = 1
    MarkTTL = 1
    MaxClock = 2
    MaxCrashes = 2
    MaxFaults = 1
INVARIANTS TypeOK NoSilentLoss NoStaleHint SavedIsOnDisk RowsArePending AtMostOnce RunningRoundIsMarked
PROPERTIES RecoveryKeepsPrompt ImplementsMailbox
CHECK_DEADLOCK FALSE
