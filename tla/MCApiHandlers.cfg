\* An admin who creates a second user, two requests, two accounts, and a log
\* with room for the user, the accounts and a transfer between them.
SPECIFICATION Spec
SYMMETRY MCSymmetry
CONSTANTS
    AccountIds = {1, 2}
    Amounts = {1}
    Rates = {1}
    BasisPointsInWhole = 2
    MaxCents = 2
    MaxTransactionId = 5
    CustomerIds = {1, 2}
    UserIds = {1, 2}
    Given <- MCGiven
    System = 0
    MaxAuditEntries = 4
    Requests = {r1, r2}
INVARIANTS
    TypeOK
    MovesOnRecord
    ActorsMayAct
PROPERTIES
    EndedSessionsFadeOut
