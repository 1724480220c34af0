---------------------------- MODULE LoginThrottle ----------------------------
(***************************************************************************)
(* `AuthThrottle` of src/src/api.rs and the two calls that `login` makes   *)
(* to it.  The throttle's mutex is released between them, so any number of *)
(* logins may have been let through and not yet been counted.              *)
(*                                                                         *)
(* The code stores the times `first_failed_at` and `locked_until` and      *)
(* compares them with the clock; the model stores how long ago the first   *)
(* failure was and how much of the lock is left, which decides the same    *)
(* comparisons for as long as the clock does not go back.                  *)
(*                                                                         *)
(* A username is here what `throttle_key` makes of the name of a login:    *)
(* every method converts the name first and works on the record of that    *)
(* key.  All that is said below holds for each key, and for a user as far  *)
(* as its name has one key; ApiAuth has the conversions.                   *)
(***************************************************************************)
EXTENDS Integers

CONSTANTS
    Usernames,             \* the values of throttle_key
    FAILED_LOGIN_LIMIT,
    FAILED_LOGIN_WINDOW,
    FAILED_LOGIN_LOCKOUT,
    MaxPending             \* bound: logins let through and not yet counted

ASSUME ThrottleAssumption ==
    /\ FAILED_LOGIN_LIMIT \in Nat \ {0}
    /\ FAILED_LOGIN_WINDOW \in Nat \ {0}
    /\ FAILED_LOGIN_LOCKOUT \in Nat \ {0}
    /\ MaxPending \in Nat \ {0}

VARIABLES
    failures_by_username,  \* a function on the usernames that have a record
    pending                \* per username, the logins let through by
                           \* ensure_allowed whose outcome is still to come

vars == <<failures_by_username, pending>>

NotLocked == -1

FailedLoginRecord ==
    [age : 0..FAILED_LOGIN_WINDOW,          \* since the first failure
     failed_attempts : Nat,
     lock_left : {NotLocked} \cup 0..FAILED_LOGIN_LOCKOUT]

HasRecord(u) == u \in DOMAIN failures_by_username
RecordOf(u)  == failures_by_username[u]

-----------------------------------------------------------------------------
(* The parts of the throttle's methods.                                    *)

\* `expire_if_needed` removes a record whose lock has run out or whose first
\* failure is a window ago.
Expired(record) ==
    \/ record.lock_left = 0
    \/ record.age = FAILED_LOGIN_WINDOW

Without(u) == [v \in DOMAIN failures_by_username \ {u} |-> failures_by_username[v]]
With(u, record) ==
    [v \in DOMAIN failures_by_username \cup {u} |->
       IF v = u THEN record ELSE failures_by_username[v]]

\* Slip: the lock is looked for, but not compared with the clock.
RefusesWhileRecorded(u) ==
    /\ HasRecord(u)
    /\ RecordOf(u).lock_left # NotLocked

\* The record of a username after `expire_if_needed` is refusing logins.
Refuses(u) ==
    /\ HasRecord(u)
    /\ ~Expired(RecordOf(u))
    /\ RecordOf(u).lock_left # NotLocked

\* The record on which `record_failure` counts: the present one, or a new one
\* when there is none or it has expired.
Current(u) ==
    IF HasRecord(u) /\ ~Expired(RecordOf(u))
    THEN RecordOf(u)
    ELSE [age |-> 0, failed_attempts |-> 0, lock_left |-> NotLocked]

\* Slip: the record is made anew for every failure past the limit.
CountedAfresh(record) ==
    IF record.failed_attempts >= FAILED_LOGIN_LIMIT
    THEN [age |-> 0, failed_attempts |-> 1, lock_left |-> NotLocked]
    ELSE [record EXCEPT
            !.failed_attempts = @ + 1,
            !.lock_left = IF record.failed_attempts + 1 >= FAILED_LOGIN_LIMIT
                          THEN FAILED_LOGIN_LOCKOUT ELSE @]

\* Slip: the limit must be passed, not only reached, for the lock to be set.
CountedLate(record) ==
    [record EXCEPT
       !.failed_attempts = @ + 1,
       !.lock_left = IF record.failed_attempts >= FAILED_LOGIN_LIMIT
                     THEN FAILED_LOGIN_LOCKOUT ELSE @]

\* One more failure; from the limit on every failure sets the lock anew.
Counted(record) ==
    [record EXCEPT
       !.failed_attempts = @ + 1,
       !.lock_left = IF record.failed_attempts + 1 >= FAILED_LOGIN_LIMIT
                     THEN FAILED_LOGIN_LOCKOUT ELSE @]

-----------------------------------------------------------------------------

\* `ensure_allowed`: a refused login ends there, an allowed one goes on to the
\* password.  An expired record is removed on the way.
EnsureAllowed(u) ==
    /\ ~Refuses(u)
    /\ pending[u] < MaxPending
    /\ pending' = [pending EXCEPT ![u] = @ + 1]
    /\ failures_by_username' =
         IF HasRecord(u) /\ Expired(RecordOf(u)) THEN Without(u) ELSE failures_by_username

\* Slip: a success clears the record instead of removing it.
RecordSuccessClearing(u) ==
    /\ pending[u] > 0
    /\ pending' = [pending EXCEPT ![u] = @ - 1]
    /\ failures_by_username' =
         With(u, [age |-> 0, failed_attempts |-> 0, lock_left |-> NotLocked])

\* `record_success`: the record is removed, locked or not.
RecordSuccess(u) ==
    /\ pending[u] > 0
    /\ pending' = [pending EXCEPT ![u] = @ - 1]
    /\ failures_by_username' = Without(u)

\* `record_failure`.
RecordFailure(u) ==
    /\ pending[u] > 0
    /\ pending' = [pending EXCEPT ![u] = @ - 1]
    /\ failures_by_username' = With(u, Counted(Current(u)))

\* The client goes away and the login is dropped before it is counted.
Abandon(u) ==
    /\ pending[u] > 0
    /\ pending' = [pending EXCEPT ![u] = @ - 1]
    /\ UNCHANGED failures_by_username

Older(record) ==
    [record EXCEPT
       !.age = IF @ < FAILED_LOGIN_WINDOW THEN @ + 1 ELSE @,
       !.lock_left = IF @ > 0 THEN @ - 1 ELSE @]

\* The clock advances.
Tick ==
    /\ failures_by_username' =
         [u \in DOMAIN failures_by_username |-> Older(RecordOf(u))]
    /\ UNCHANGED pending

Init ==
    /\ failures_by_username = [u \in {} |-> {}]
    /\ pending = [u \in Usernames |-> 0]

Next ==
    \/ \E u \in Usernames :
         \/ EnsureAllowed(u)
         \/ RecordSuccess(u)
         \/ RecordFailure(u)
         \/ Abandon(u)
    \/ Tick

\* Time passes; nobody is obliged to log in.
Spec == Init /\ [][Next]_vars /\ WF_vars(Tick)

-----------------------------------------------------------------------------
(* Properties.                                                             *)

TypeOK ==
    /\ DOMAIN failures_by_username \subseteq Usernames
    /\ \A u \in DOMAIN failures_by_username :
         /\ RecordOf(u) \in FailedLoginRecord
         /\ RecordOf(u).failed_attempts > 0
    /\ pending \in [Usernames -> 0..MaxPending]

\* The check and the count of a login are two critical sections, so a burst of
\* concurrent logins may be tried beyond the limit; it never gets further than
\* the logins that were already let through when the limit was reached.
FailuresBounded ==
    \A u \in DOMAIN failures_by_username :
      RecordOf(u).failed_attempts <= FAILED_LOGIN_LIMIT - 1 + MaxPending

\* A username stops being refused only because the clock has reached the end
\* of its lock or of its window, or because a login let through earlier has
\* succeeded: a late failure never shortens a lockout.
RefusalEndsInTime ==
    [][\A u \in Usernames :
         Refuses(u) /\ ~Refuses(u)' =>
           \/ ~HasRecord(u)' /\ pending'[u] < pending[u]
           \/ HasRecord(u)' /\ Expired(RecordOf(u))' /\ pending' = pending]_vars

\* A lockout ends: refused logins do not prolong it, and those that were let
\* through before it can do so only finitely often.
RefusalsEnd ==
    \A u \in Usernames : Refuses(u) ~> ~Refuses(u)

=============================================================================
