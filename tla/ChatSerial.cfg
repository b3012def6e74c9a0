SPECIFICATION Spec
CONSTANTS
    t1 = t1
    t2 = t2
    t3 = t3
    q1 = q1
    q2 = q2
    q3 = q3
    a = a
    b = b
    None = None
    Turns <- ThreeTurns
    Questions <- ThreeQuestions
    SummaryCards <- OneCard
    Tabs <- OneTab
    tab <- AllFromOne
PROPERTIES FollowsLifecycle
CHECK_DEADLOCK FALSE
