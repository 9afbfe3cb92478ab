SPECIFICATION LessonsSpec
CONSTANTS
    k1 = k1
    k2 = k2
    KnowledgePoints = {k1, k2}
    Prerequisites <- OneDependency
    MaxRounds = 3
    MaxLessons = 1
    MaxAnswers = 3
    NoPoint = NoPoint
INVARIANT
    RoundsInRange
CHECK_DEADLOCK FALSE
