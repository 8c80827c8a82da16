SPECIFICATION Spec
CONSTANTS
    w1 = w1  w2 = w2  w3 = w3  alice = alice  bob = bob  root = root  bash = bash
    Nobody = Nobody
    Waiter <- ThreeAsked
    Asks <- Third
    Hooked <- FirstTwo
    User <- OneUser
    Word <- OneWord
    Admin <- Nothing
    InitiatorOf <- ByAlice
    IdOf <- ReusedIds
    Tool <- OneTool
    ToolOf <- AllOneTool
    Cap = 1
    MaxReplies = 1
    MaxCancels = 0
    MaxSwitches = 0
INVARIANTS NoLostQuestion NoGhostQuestion
PROPERTIES ImplementsQuestions
SYMMETRY Symmetry
CHECK_DEADLOCK FALSE
