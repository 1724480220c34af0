\* Two requests and one user with two throttle keys: enough for two requests to
\* wait for each other, and for one to be counted while the other is let
\* through, under one key or two.  No symmetry, which liveness does not allow.
SPECIFICATION Spec
CONSTANTS
    Requests = {r1, r2}
    kim = kim
    Kim = Kim
    kelvin = kelvin
    Users = {kim}
    Spellings <- MCSpellings
    ThrottleKey <- MCThrottleKey
    Normalized <- MCNormalized
    System = System
    NoTarget = NoTarget
    FAILED_LOGIN_LIMIT = 2
    FAILED_LOGIN_WINDOW = 1
    FAILED_LOGIN_LOCKOUT = 1
    MaxAuditEntries = 2
PROPERTIES
    ThrottleImplemented
    RequestsAnswered
