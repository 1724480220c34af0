\* Two usernames; the limit is reached with and without logins still to be
\* counted, and the window ends before, with and after a lock.
SPECIFICATION Spec
CONSTANTS
    Usernames = {alice, bob}
    FAILED_LOGIN_LIMIT = 3
    FAILED_LOGIN_WINDOW = 4
    FAILED_LOGIN_LOCKOUT = 4
    MaxPending = 3
INVARIANTS
    TypeOK
    FailuresBounded
PROPERTIES
    RefusalEndsInTime
    RefusalsEnd
