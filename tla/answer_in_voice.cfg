SPECIFICATION Spec
CONSTANTS
    s1 = s1
    s2 = s2
    b1 = b1
    b2 = b2
    b3 = b3
    i1 = i1
    r1 = r1
    r2 = r2
    a1 = a1
    a2 = a2
    Null = Null
    Orphan = Orphan
    Sessions = {s1}
    Blocks = {b1}
    ReviewBlocks = {b1}
    Items = {i1}
    ItemOf <- OneItem
    BacktrackBlocks = {}
    Requests = {r1, r2}
    Auths = {a1}
    Kinds = {"START", "SUBMIT"}
    HasAgent = TRUE
    PauseAfter = 1
    LeaseTime = 2
    AbandonAfter = 3
    MaxArrivals = 3
    MaxInterventions = 0
PROPERTY AnswerNeverInVoice
CHECK_DEADLOCK FALSE
