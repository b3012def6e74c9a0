SPECIFICATION FairAccounts
CONSTANTS
    AccountIds = {a1}
    Emails = {e1, e2, e3}
    Invites = {i1, i2}
    Requests = {r1, r2}
    None = None
PROPERTIES EveryDueDeletionHappens
CHECK_DEADLOCK FALSE
