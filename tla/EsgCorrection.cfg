SPECIFICATION SpecProjectEsg
CONSTANTS
    Assessments = {x1, x2}
    Referentials = {ref1}
    EsgCriteria = {c1}
    Required = {c1}
    EsgRequests = {r1}
PROPERTIES CorrectionIsFinalised
