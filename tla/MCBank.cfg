\* Two accounts, five transaction ids, balances of at most three cents: the
\* ids run out, balances and loans overflow, and interest is rounded down.
SPECIFICATION Spec
CONSTANTS
    AccountIds = {1, 2}
    Amounts <- MCAmounts
    Rates = {0, 1, 2}
    BasisPointsInWhole = 2
    MaxCents = 3
    MaxTransactionId = 6
INVARIANTS
    TypeOK
    SnapshotReloads
    HistoryOrdered
    ClosedAccountsHoldNothing
    LoanMatchesLedger
    BalanceCoversLedger
    InboundTransfersTraceable
PROPERTIES
    ClosedIsFinal
    TransfersAreNeutral
    OnlyFailedLoansDrift
