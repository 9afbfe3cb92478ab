SPECIFICATION Spec
CONSTANTS
    k1 = k1  k2 = k2
    c1 = c1  c2 = c2
    Kps = {k1, k2}
    Dependencies <- OneDependency
    Subject <- OwnSubject
    Choices <- AllOrNone
    DueAtFirst = {k2}
    InGrade = {k1}
    Calls = {c1, c2}
    TicksPerDay = 2
    Intervals = {1}
    MaxTime = 2
    MaxChanges = 1
    MaxCalls = 4
    MaxSessions = 1
    Null = Null
SYMMETRY Alike
INVARIANT AppliesFromKept
CHECK_DEADLOCK FALSE
