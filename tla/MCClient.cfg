\* One file of each kind.
SPECIFICATION Spec
CONSTANTS
    AccountIds = {1, 2}
    Amounts = {1}
    Rates = {2}
    BasisPointsInWhole = 2
    MaxCents = 2
    MaxTransactionId = 5
    CustomerIds = {1}
    UserIds = {1, 2}
    System = 0
    MaxAuditEntries = 6
    MaxCommands = 6
    JsonFiles = {"bank.json"}
    SqliteFiles = {"bank.db"}
    GivenFiles <- MCFiles
    NoFile = NoFile
    Partial = Partial
    NoSession = NoSession
INVARIANTS
    SessionIsCurrent
    ActorsOnRecord
    MovesOnRecord
    StateReloads
