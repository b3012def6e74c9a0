SPECIFICATION FairSpec
CONSTANTS
    t1 = t1
    t2 = t2
    t3 = t3
    q1 = q1
    q2 = q2
    q3 = q3
    a = a
    b = b
    None = None
    Turns <- ThreeTurns
    Questions <- TwoQuestions
    SummaryCards <- OneCard
    Tabs <- TwoTabs
    tab <- OneAgainstTwo
INVARIANTS TypeOK NoSelfDeadlock ShownSurvives AnswerKeepsItsMessage
PROPERTIES ExpiryNeverErasesAnswer TurnsEnd
CHECK_DEADLOCK FALSE
