SPECIFICATION Spec
CONSTANTS
    m1 = m1  m2 = m2  s1 = s1
    Free = Free  Command = Command
    Msg <- TwoMessages
    Steerable <- None
    MediaOnly <- None
    Stop <- OneStop
    HardStop <- None
    Removable <- None
    AutoCompact = FALSE
    Commands = FALSE
    QueueCap = 2
    MarkTTL = 1
    MaxClock = 1
    MaxCrashes = 0
    MaxFaults = 0
SYMMETRY MessageSymmetry
INVARIANTS MarkedBatchDoesNotRun
CHECK_DEADLOCK FALSE
