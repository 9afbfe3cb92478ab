SPECIFICATION OperationsSpec
CONSTANTS
    Null = Null
    Pauses <- SomePauses
    Latencies <- SomeLatencies
    LeaseTime = 300
    RetryTimeout = 60
    TurnTimeout = 85
    HTTPTimeout = 90
    RecordTimeout = 5
    MaxAttempts = 3
    BaseDelay = 2
    MaxWait = 20
    MaxOps = 2
    MaxFaults = 2
    MaxRounds = 3
    k1 = k1
    k2 = k2
    KnowledgePoints = {k1, k2}
    Prerequisites <- OneDependency
    MaxLessons = 4
    MaxAnswers = 4
    NoPoint = NoPoint
INVARIANTS
    TypeOK
    ApprovedOnly
    AuditTrail
    LeaseOutlivesTurn
    PaidFor
    LessonsTypeOK
    MasteryEarned
    GrowthIsLedger
PROPERTIES
    IndependentUnaided
CHECK_DEADLOCK FALSE
