\* Two accounts, a maximum a loan and a withdrawal reach.
SPECIFICATION Spec
CONSTANTS
    AccountIds = {1, 2}
    Amounts <- MCAmounts
    Rates = {0, 1, 2}
    BasisPointsInWhole = 2
    MaxCents = 3
    MaxTransactionId = 6
PROPERTIES
    MoneyMovesOnRecord
