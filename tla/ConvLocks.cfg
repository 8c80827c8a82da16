SPECIFICATION FairSpec
CONSTANTS
    r1 = r1  r2 = r2  r3 = r3  c1 = c1  x = x  y = y  l1 = 1  l2 = 2  l3 = 3  l4 = 4
    NoLock = NoLock  Nobody = Nobody
    Task <- Tasks
    Conv <- Convs
    ConvOf <- Convs2
    Runner <- Runners
    Lock <- Locks
    Limit <- Limits
    FirstLimit = 1
    MaxReloads = 1
INVARIANTS NoDeadlock RunnersLeakNothing GateIsRespected
PROPERTIES ImplementsMutex PermitComes
CHECK_DEADLOCK FALSE
