SPECIFICATION Spec
CONSTANTS
    Assessments = {x1, x2}
    Referentials = {ref1, ref2}
    EsgCriteria = {c1}
    Required = {c1}
    EsgRequests = {r1, r2}
    Evaluations = {v1}
    Environment = {g1}
    Social = {g2}
    Governance = {}
    ScoreRefs = {mefali}
    Mefali = mefali
    ScoreRequests = {r1, r2}
    Years = {y1, y2}
    CarbonReports = {x1, x2}
    CarbonRequests = {r1, r2}
    MaxEntries = 2
    CreditRows = {x1, x2, x3}
    CreditRequests = {r1, r2}
    LastTick = 4
    Plans = {x1, x2}
    PlanActions = {c1}
    Contacts = {c1}
    Elsewhere = {b1, b2}
    PlanRequests = {r1, r2}
    RowKinds = {"alike factors", "unplaced row", "twin applications", "twin e-mails", "anonymised audit", "new widget", "carbon report"}
    MaxRows = 1
    MaxCommands = 3
SYMMETRY Interchangeable
INVARIANTS
    AssessmentsTypeOK
    FinalisedIsFrozen
    ScoresAreOfTheirGrades
    ReportsShowTheEntries
    ScoresInOrder
    OneCountedPlan
    JourneyIsFull
    VersionIsBacked
    NothingLeftBehind
CHECK_DEADLOCK FALSE
