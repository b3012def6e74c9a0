SPECIFICATION Spec
CONSTANTS
    DossierIds = {x1, x2}
    DossierRequests = {r1, r2}
    SectionKeys = {x1, x2}
    SectionRequests = {r1, r2}
    Folders = {f1}
    Items = {i1, i2}
    Documents = {x1, x2}
    FileRequests = {r1, r2}
    Nothing = Nothing
    RecursionLimit = 25
    Admins = {a1, a2}
    SkillVersions = {1, 2}
    CatalogueRequests = {r1, r2}
    Offers = {x1, x2}
    MatchBatches = {r1, r2}
    RecomputeCap = 1
    Calls = {r1, r2}
SYMMETRY Interchangeable
INVARIANTS
    ServicesTypeOK
    SubmittedIsSnapshotted
    ItemsHaveDocuments
    RequestIsServed
    CitableIsChecked
    AlertedOnce
    
    WritesOnce
PROPERTIES
    FollowsDossierLifecycle
    OnlyItsSectionChanges
    OnlyItsItemChanges
CHECK_DEADLOCK FALSE
