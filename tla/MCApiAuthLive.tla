---------------------------- MODULE MCApiAuthLive ----------------------------
\* The instance of ApiAuth that TLC checks for liveness and refinement.
EXTENDS ApiAuth

CONSTANTS kim, Kim, kelvin

\* One user in three spellings; kelvin is the one whose first letter is U+212A,
\* which normalize_username lower-cases and throttle_key does not.
MCSpellings == {kim, Kim, kelvin}

MCThrottleKey == [n \in MCSpellings |-> IF n = Kim THEN kim ELSE n]

MCNormalized == [n \in MCSpellings |-> kim]

=============================================================================
