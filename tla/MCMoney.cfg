\* The largest numbers end like i64::MAX and unlike it, so that texts fall on
\* both sides of each.
SPECIFICATION MoneySpec
CONSTANTS
    MaxCents = 1007
    MaxBasisPoints = 1078
    Wholes = {0, 1, 9, 10, 11}
    Digits = {0, 7, 8}
INVARIANT ReadsAsWritten
