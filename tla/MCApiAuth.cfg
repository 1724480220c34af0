\* Two requests at a time, which is what a race takes, and two users, one in
\* two spellings; the audit log is full after three entries.
SPECIFICATION Spec
SYMMETRY MCSymmetry
CONSTANTS
    Requests = {r1, r2}
    alice = alice
    bob = bob
    Alice = Alice
    Users = {alice, bob}
    Spellings <- MCSpellings
    ThrottleKey <- MCThrottleKey
    Normalized <- MCNormalized
    System = System
    NoTarget = NoTarget
    FAILED_LOGIN_LIMIT = 1
    FAILED_LOGIN_WINDOW = 1
    FAILED_LOGIN_LOCKOUT = 1
    MaxAuditEntries = 3
INVARIANTS
    TypeOK
    SessionsAccountedFor
    UsersOnRecord
    BootstrapComesFirst
    FailuresOnRecord
