------------------------------ MODULE MCApiAuth ------------------------------
\* The instance of ApiAuth that TLC checks for safety.
EXTENDS ApiAuth, TLC

CONSTANTS alice, bob, Alice

\* Two names, one of them also with a capital, which both conversions undo.
MCSpellings == {alice, bob, Alice}

MCThrottleKey == [n \in MCSpellings |-> IF n = Alice THEN alice ELSE n]

MCNormalized == MCThrottleKey

\* Requests are interchangeable, and so are users and the keys of their names:
\* no definition prefers one.
MCSymmetry == Permutations(Requests) \cup Permutations({alice, bob})

=============================================================================
