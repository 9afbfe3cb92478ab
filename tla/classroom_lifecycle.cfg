SPECIFICATION FairSpec
CONSTANTS
    s1 = s1
    s2 = s2
    b1 = b1
    b2 = b2
    b3 = b3
    i1 = i1
    r1 = r1
    r2 = r2
    a1 = a1
    a2 = a2
    Null = Null
    Orphan = Orphan
    Sessions = {s1, s2}
    Blocks = {b1, b2, b3}
    ReviewBlocks = {b1, b2}
    Items = {i1}
    ItemOf <- OneItem
    BacktrackBlocks = {b3}
    Requests = {r1, r2}
    Auths = {a1}
    Kinds = {"START", "SUBMIT", "PAUSE", "RESUME", "ABANDON", "HEARTBEAT"}
    HasAgent = FALSE
    PauseAfter = 1
    LeaseTime = 2
    AbandonAfter = 3
    MaxArrivals = 3
    MaxInterventions = 1
INVARIANTS
    TypeOK
    OneOpenSession
    BlockTracksSession
    LeaseOnlyWhileOpen
PROPERTIES
    
    ImplementsContract
    SilentSessionsClose
CHECK_DEADLOCK FALSE
