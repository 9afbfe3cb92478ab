SPECIFICATION ClientsSpec
CONSTANTS
    Second = 2
    StaleAfter = 3
    GoneAfter = 6
    LeaseSpan = 5
    MaxTime = 13
    s1 = s1
    s2 = s2
    Slots = {s1, s2}
    MaxRevisions = 2
    MaxClicks = 3
    MaxLosses = 1
    Nothing = Nothing
    c1 = c1
    c2 = c2
    Children = {c1, c2}
    Buffer = 1
    MaxSessions = 1
    MaxCommits = 2
    MaxChoices = 3
    MaxFaults = 1
    Nobody = Nobody
INVARIANTS
    StudyClockTypeOK
    CreditAttended
    StoreTypeOK
    ShowsRealStatus
    QuietIsCurrent
    ParentTypeOK
    ShowsSelectedChild
PROPERTIES
    CatchesUp
    Reconnects
CHECK_DEADLOCK FALSE
