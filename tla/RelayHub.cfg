SPECIFICATION Spec
CONSTANTS
    g1 = g1  g2 = g2  b1 = b1  b2 = b2
    home = home  work = work  phone = phone
    Nobody = Nobody
    Gateway <- Gateways
    Browser <- Browsers
    Machine <- Machines
    Session <- Sessions
    SessionOf <- SessionOfBrowser
    MaxGateways = 1
    MaxBrowsers = 1
    BufMax = 1
    Capacity = 3
    MaxFrames = 1
    MaxSays = 1
INVARIANTS TypeOK RevokedIsClosed ListIsTrue
SYMMETRY Symmetry
CHECK_DEADLOCK FALSE
