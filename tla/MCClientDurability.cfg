\* The README calls the storage durable: does a crash leave a saved state alone?
SPECIFICATION Spec
CONSTANTS
    AccountIds = {1}
    Amounts = {1}
    Rates = {2}
    BasisPointsInWhole = 2
    MaxCents = 2
    MaxTransactionId = 3
    CustomerIds = {1}
    UserIds = {1, 2}
    System = 0
    MaxAuditEntries = 4
    MaxCommands = 4
    JsonFiles = {"bank.json"}
    SqliteFiles = {"bank.db"}
    GivenFiles <- MCFiles
    NoFile = NoFile
    Partial = Partial
    NoSession = NoSession
PROPERTY SavesLast
