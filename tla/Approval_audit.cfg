SPECIFICATION Spec
CONSTANTS
    w1 = w1  w2 = w2  w3 = w3  alice = alice  bob = bob  root = root  bash = bash
    Nobody = Nobody
    Waiter <- LastTwo
    Asks <- Third
    Hooked <- Nothing
    User <- TwoUsers
    Word <- AllWords
    Admin <- Nothing
    InitiatorOf <- ByAlice
    IdOf <- ReusedIds
    Tool <- OneTool
    ToolOf <- AllOneTool
    Cap = 2
    MaxReplies = 1
    MaxCancels = 1
    MaxSwitches = 1
INVARIANTS AuditTellsDecision
CHECK_DEADLOCK FALSE
