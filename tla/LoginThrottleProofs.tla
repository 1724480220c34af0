------------------------- MODULE LoginThrottleProofs -------------------------
(***************************************************************************)
(* The bound on failed logins of LoginThrottle, for every limit, window,   *)
(* lockout and number of logins in flight.                                 *)
(***************************************************************************)
EXTENDS LoginThrottle, TLAPS

\* A login in flight is a failure to come: the two together stay below the
\* limit until the lock is set, and the lock lets nobody in.
Budget(u) ==
    /\ RecordOf(u).failed_attempts + pending[u] <= FAILED_LOGIN_LIMIT - 1 + MaxPending
    /\ RecordOf(u).failed_attempts >= FAILED_LOGIN_LIMIT =>
         RecordOf(u).lock_left # NotLocked

Budgeted == \A u \in DOMAIN failures_by_username : Budget(u)

IInv == TypeOK /\ Budgeted

\* One more failure gives a record again, with a lock from the limit on.
LEMMA CountedRecord ==
    ASSUME NEW record \in FailedLoginRecord
    PROVE  /\ Counted(record) \in FailedLoginRecord
           /\ Counted(record).failed_attempts = record.failed_attempts + 1
           /\ Counted(record).failed_attempts >= FAILED_LOGIN_LIMIT =>
                Counted(record).lock_left # NotLocked
  <1> DEFINE attempts == record.failed_attempts + 1
             lock     == IF attempts >= FAILED_LOGIN_LIMIT
                         THEN FAILED_LOGIN_LOCKOUT ELSE record.lock_left
  <1>1. Counted(record) = [record EXCEPT !.failed_attempts = attempts, !.lock_left = lock]
    BY DEF Counted
  <1>2. /\ record.age \in 0..FAILED_LOGIN_WINDOW
        /\ record.failed_attempts \in Nat
        /\ record.lock_left \in {NotLocked} \cup 0..FAILED_LOGIN_LOCKOUT
    BY DEF FailedLoginRecord
  <1>3. /\ attempts \in Nat
        /\ lock \in {NotLocked} \cup 0..FAILED_LOGIN_LOCKOUT
        /\ attempts >= FAILED_LOGIN_LIMIT => lock # NotLocked
    BY <1>2, ThrottleAssumption DEF NotLocked
  <1> HIDE DEF attempts, lock
  <1>4. Counted(record) \in FailedLoginRecord
    BY <1>1, <1>2, <1>3 DEF FailedLoginRecord
  <1>5. Counted(record).failed_attempts = attempts /\ Counted(record).lock_left = lock
    BY <1>1 DEF FailedLoginRecord
  <1> QED  BY <1>3, <1>4, <1>5 DEF attempts

\* The clock changes nothing that is counted.
LEMMA OlderRecord ==
    ASSUME NEW record \in FailedLoginRecord
    PROVE  /\ Older(record) \in FailedLoginRecord
           /\ Older(record).failed_attempts = record.failed_attempts
           /\ record.lock_left # NotLocked => Older(record).lock_left # NotLocked
  <1> DEFINE age  == IF record.age < FAILED_LOGIN_WINDOW THEN record.age + 1 ELSE record.age
             lock == IF record.lock_left > 0 THEN record.lock_left - 1 ELSE record.lock_left
  <1>1. Older(record) = [record EXCEPT !.age = age, !.lock_left = lock]
    BY DEF Older
  <1>2. /\ record.age \in 0..FAILED_LOGIN_WINDOW
        /\ record.failed_attempts \in Nat
        /\ record.lock_left \in {NotLocked} \cup 0..FAILED_LOGIN_LOCKOUT
    BY DEF FailedLoginRecord
  <1>3. /\ age \in 0..FAILED_LOGIN_WINDOW
        /\ lock \in {NotLocked} \cup 0..FAILED_LOGIN_LOCKOUT
        /\ record.lock_left # NotLocked => lock # NotLocked
    BY <1>2, ThrottleAssumption DEF NotLocked
  <1> HIDE DEF age, lock
  <1>4. Older(record) \in FailedLoginRecord
    BY <1>1, <1>2, <1>3 DEF FailedLoginRecord
  <1> QED  BY <1>1, <1>3, <1>4 DEF FailedLoginRecord

\* The record that the next failure is counted on.
LEMMA CurrentRecord ==
    ASSUME IInv, NEW u \in Usernames
    PROVE  /\ Current(u) \in FailedLoginRecord
           /\ Current(u).failed_attempts + pending[u] <= FAILED_LOGIN_LIMIT - 1 + MaxPending
  <1>1. CASE HasRecord(u) /\ ~Expired(RecordOf(u))
    BY <1>1 DEF IInv, TypeOK, Budgeted, Budget, Current, HasRecord
  <1>2. CASE ~(HasRecord(u) /\ ~Expired(RecordOf(u)))
    <2>1. Current(u) = [age |-> 0, failed_attempts |-> 0, lock_left |-> NotLocked]
      BY <1>2 DEF Current
    <2>2. pending[u] \in 0..MaxPending
      BY DEF IInv, TypeOK
    <2> QED  BY <2>1, <2>2, ThrottleAssumption DEF FailedLoginRecord, NotLocked
  <1> QED  BY <1>1, <1>2

LEMMA InitIInv == Init => IInv
  BY ThrottleAssumption DEF Init, IInv, TypeOK, Budgeted

\* A login that is let through finds no record, or one without a lock and
\* therefore below the limit.
LEMMA EnsureAllowedIInv ==
    ASSUME IInv, NEW u \in Usernames, EnsureAllowed(u)
    PROVE  IInv'
  <1> DEFINE failures == failures_by_username'
  <1>1. pending' \in [Usernames -> 0..MaxPending]
    BY ThrottleAssumption DEF EnsureAllowed, IInv, TypeOK
  <1>2. \A v \in DOMAIN failures :
           v \in DOMAIN failures_by_username /\ failures[v] = failures_by_username[v]
    BY DEF EnsureAllowed, Without
  <1>3. TypeOK'
    BY <1>1, <1>2 DEF IInv, TypeOK, RecordOf
  <1>4. ASSUME NEW v \in DOMAIN failures
        PROVE  Budget(v)'
    <2>1. CASE v # u
      BY <1>2, <1>4, <2>1 DEF EnsureAllowed, IInv, TypeOK, Budgeted, Budget, RecordOf
    <2>2. CASE v = u
      <3>1. HasRecord(u) /\ ~Expired(RecordOf(u))
        BY <1>2, <1>4, <2>2 DEF EnsureAllowed, Without, HasRecord
      <3>2. RecordOf(u).lock_left = NotLocked
        BY <3>1 DEF EnsureAllowed, Refuses
      <3>3. RecordOf(u).failed_attempts < FAILED_LOGIN_LIMIT
        BY <3>1, <3>2, ThrottleAssumption
           DEF IInv, TypeOK, FailedLoginRecord, Budgeted, Budget, HasRecord
      <3>4. failures[u] = RecordOf(u) /\ RecordOf(u).failed_attempts \in Nat
        BY <1>2, <1>4, <2>2, <3>1 DEF IInv, TypeOK, FailedLoginRecord, HasRecord, RecordOf
      <3> QED  BY <1>1, <2>2, <3>2, <3>3, <3>4, ThrottleAssumption DEF Budget, RecordOf
    <2> QED  BY <2>1, <2>2
  <1> QED  BY <1>3, <1>4 DEF IInv, Budgeted

\* A success removes the record.
LEMMA RecordSuccessIInv ==
    ASSUME IInv, NEW u \in Usernames, RecordSuccess(u)
    PROVE  IInv'
  <1>1. pending' \in [Usernames -> 0..MaxPending]
    BY ThrottleAssumption DEF RecordSuccess, IInv, TypeOK
  <1>2. \A v \in DOMAIN failures_by_username' :
           /\ v \in DOMAIN failures_by_username /\ v # u
           /\ failures_by_username'[v] = failures_by_username[v]
           /\ pending'[v] = pending[v]
    BY DEF RecordSuccess, Without, IInv, TypeOK
  <1> QED  BY <1>1, <1>2 DEF IInv, TypeOK, Budgeted, Budget, RecordOf

\* A failure moves one login from those in flight to those counted.
LEMMA RecordFailureIInv ==
    ASSUME IInv, NEW u \in Usernames, RecordFailure(u)
    PROVE  IInv'
  <1> DEFINE failures == failures_by_username'
             counted  == Counted(Current(u))
  <1>1. /\ pending' \in [Usernames -> 0..MaxPending]
        /\ pending'[u] = pending[u] - 1
        /\ \A v \in Usernames \ {u} : pending'[v] = pending[v]
    BY ThrottleAssumption DEF RecordFailure, IInv, TypeOK
  <1>2. /\ DOMAIN failures = DOMAIN failures_by_username \cup {u}
        /\ failures[u] = counted
        /\ \A v \in DOMAIN failures \ {u} : failures[v] = failures_by_username[v]
    BY DEF RecordFailure, With
  <1>3. /\ Current(u) \in FailedLoginRecord
        /\ Current(u).failed_attempts + pending[u] <= FAILED_LOGIN_LIMIT - 1 + MaxPending
    BY CurrentRecord
  <1>4. /\ counted \in FailedLoginRecord
        /\ counted.failed_attempts = Current(u).failed_attempts + 1
        /\ counted.failed_attempts >= FAILED_LOGIN_LIMIT => counted.lock_left # NotLocked
    BY <1>3, CountedRecord
  <1>5. Current(u).failed_attempts \in Nat /\ pending[u] \in Nat
    BY <1>3 DEF FailedLoginRecord, IInv, TypeOK
  <1> HIDE DEF counted
  <1>6. ASSUME NEW v \in DOMAIN failures
        PROVE  failures[v] \in FailedLoginRecord /\ failures[v].failed_attempts > 0
    BY <1>2, <1>4, <1>5, <1>6 DEF IInv, TypeOK, RecordOf
  <1>7. ASSUME NEW v \in DOMAIN failures
        PROVE  Budget(v)'
    <2>1. CASE v = u
      BY <1>1, <1>2, <1>3, <1>4, <1>5, <2>1, ThrottleAssumption DEF Budget, RecordOf
    <2>2. CASE v # u
      BY <1>1, <1>2, <1>7, <2>2 DEF IInv, TypeOK, Budgeted, Budget, RecordOf
    <2> QED  BY <2>1, <2>2
  <1>8. TypeOK'
    BY <1>1, <1>2, <1>6 DEF IInv, TypeOK, RecordOf
  <1> QED  BY <1>7, <1>8 DEF IInv, Budgeted

\* A login that is dropped is never counted.
LEMMA AbandonIInv ==
    ASSUME IInv, NEW u \in Usernames, Abandon(u)
    PROVE  IInv'
  <1>1. /\ pending' \in [Usernames -> 0..MaxPending]
        /\ \A v \in Usernames : pending'[v] <= pending[v]
    BY ThrottleAssumption DEF Abandon, IInv, TypeOK
  <1>2. TypeOK'
    BY <1>1 DEF Abandon, IInv, TypeOK, RecordOf
  <1>3. ASSUME NEW v \in DOMAIN failures_by_username
        PROVE  Budget(v)'
    <2>1. /\ RecordOf(v).failed_attempts \in Nat /\ RecordOf(v)' = RecordOf(v)
          /\ pending[v] \in Int /\ pending'[v] \in Int /\ pending'[v] <= pending[v]
      BY <1>1 DEF Abandon, IInv, TypeOK, FailedLoginRecord, RecordOf
    <2>2. Budget(v)
      BY DEF IInv, Budgeted
    <2> QED  BY <2>1, <2>2, ThrottleAssumption DEF Budget
  <1> QED  BY <1>2, <1>3 DEF Abandon, IInv, Budgeted

LEMMA TickIInv ==
    ASSUME IInv, Tick
    PROVE  IInv'
  <1>1. /\ DOMAIN failures_by_username' = DOMAIN failures_by_username
        /\ pending' = pending
        /\ \A u \in DOMAIN failures_by_username :
             failures_by_username'[u] = Older(failures_by_username[u])
    BY DEF Tick, RecordOf
  <1>2. ASSUME NEW u \in DOMAIN failures_by_username
        PROVE  /\ failures_by_username[u] \in FailedLoginRecord
               /\ failures_by_username[u].failed_attempts > 0
    BY DEF IInv, TypeOK, RecordOf
  <1>3. TypeOK'
    BY <1>1, <1>2, OlderRecord DEF IInv, TypeOK, RecordOf
  <1>4. Budgeted'
    BY <1>1, <1>2, OlderRecord DEF IInv, Budgeted, Budget, RecordOf
  <1> QED  BY <1>3, <1>4 DEF IInv

LEMMA NextIInv == IInv /\ [Next]_vars => IInv'
  <1> SUFFICES ASSUME IInv, [Next]_vars PROVE IInv'
    OBVIOUS
  <1>1. CASE UNCHANGED vars
    BY <1>1 DEF vars, IInv, TypeOK, Budgeted, Budget, RecordOf
  <1>2. ASSUME NEW u \in Usernames, EnsureAllowed(u) PROVE IInv'
    BY <1>2, EnsureAllowedIInv
  <1>3. ASSUME NEW u \in Usernames, RecordSuccess(u) PROVE IInv'
    BY <1>3, RecordSuccessIInv
  <1>4. ASSUME NEW u \in Usernames, RecordFailure(u) PROVE IInv'
    BY <1>4, RecordFailureIInv
  <1>5. ASSUME NEW u \in Usernames, Abandon(u) PROVE IInv'
    BY <1>5, AbandonIInv
  <1>6. CASE Tick
    BY <1>6, TickIInv
  <1> QED  BY <1>1, <1>2, <1>3, <1>4, <1>5, <1>6 DEF Next

\* The bound holds because of what IInv adds to it.
LEMMA IInvBounds == IInv => FailuresBounded
  BY ThrottleAssumption
     DEF IInv, TypeOK, FailedLoginRecord, Budgeted, Budget, FailuresBounded

\* The records of `AuthThrottle` keep their type.
THEOREM TypeInvariant == Spec => []TypeOK
  <1>1. IInv => TypeOK
    BY DEF IInv
  <1> QED  BY <1>1, InitIInv, NextIInv, PTL DEF Spec

\* However many logins run at once, those that are tried after the limit was
\* reached are no more than were already let through by `ensure_allowed`.
THEOREM FailuresAreBounded == Spec => []FailuresBounded
  BY InitIInv, NextIInv, IInvBounds, PTL DEF Spec

-----------------------------------------------------------------------------
(* Why a username stops being refused.                                     *)

EndsInTime(u) ==
    Refuses(u) /\ ~Refuses(u)' =>
      \/ ~HasRecord(u)' /\ pending'[u] < pending[u]
      \/ HasRecord(u)' /\ Expired(RecordOf(u))' /\ pending' = pending

\* A refusal rests on the record alone.
LEMMA SameRecord ==
    ASSUME NEW u \in Usernames, Refuses(u), HasRecord(u)', RecordOf(u)' = RecordOf(u)
    PROVE  EndsInTime(u)
  BY DEF EndsInTime, Refuses, Expired

LEMMA RecordFailureEndsInTime ==
    ASSUME IInv, NEW u \in Usernames, NEW v \in Usernames, Refuses(v), RecordFailure(u)
    PROVE  EndsInTime(v)
  <1>1. CASE u # v
    BY <1>1, SameRecord DEF RecordFailure, With, Refuses, HasRecord, RecordOf
  <1>2. CASE u = v
    <2>1. /\ RecordOf(u) \in FailedLoginRecord
          /\ RecordOf(u).lock_left # NotLocked /\ RecordOf(u).lock_left # 0
          /\ RecordOf(u).age # FAILED_LOGIN_WINDOW
          /\ Current(u) = RecordOf(u)
      BY <1>2 DEF Refuses, Expired, HasRecord, Current, IInv, TypeOK
    <2>2. HasRecord(u)' /\ RecordOf(u)' = Counted(RecordOf(u))
      BY <2>1 DEF RecordFailure, With, HasRecord, RecordOf
    <2> DEFINE lock == IF RecordOf(u).failed_attempts + 1 >= FAILED_LOGIN_LIMIT
                       THEN FAILED_LOGIN_LOCKOUT ELSE RecordOf(u).lock_left
               attempts == RecordOf(u).failed_attempts + 1
    <2>3. Counted(RecordOf(u)) =
            [RecordOf(u) EXCEPT !.failed_attempts = attempts, !.lock_left = lock]
      BY DEF Counted
    <2>4. lock # NotLocked /\ lock # 0
      BY <2>1, ThrottleAssumption DEF NotLocked
    <2> HIDE DEF lock, attempts
    <2>5. /\ Counted(RecordOf(u)).age = RecordOf(u).age
          /\ Counted(RecordOf(u)).lock_left = lock
      BY <2>1, <2>3 DEF FailedLoginRecord
    <2>6. Refuses(u)'
      BY <2>1, <2>2, <2>4, <2>5 DEF Refuses, Expired
    <2> QED  BY <1>2, <2>6 DEF EndsInTime
  <1> QED  BY <1>1, <1>2

LEMMA TickEndsInTime ==
    ASSUME IInv, NEW u \in Usernames, Refuses(u), Tick
    PROVE  EndsInTime(u)
  <1>1. /\ RecordOf(u) \in FailedLoginRecord
        /\ RecordOf(u).lock_left # NotLocked
        /\ HasRecord(u)' /\ RecordOf(u)' = Older(RecordOf(u)) /\ pending' = pending
    BY DEF Refuses, HasRecord, IInv, TypeOK, Tick, RecordOf
  <1>2. RecordOf(u)'.lock_left # NotLocked
    BY <1>1, OlderRecord
  <1> QED  BY <1>1, <1>2 DEF EndsInTime, Refuses

LEMMA NextEndsInTime ==
    ASSUME IInv, [Next]_vars, NEW v \in Usernames, Refuses(v)
    PROVE  EndsInTime(v)
  <1>1. CASE UNCHANGED vars
    BY <1>1, SameRecord DEF vars, Refuses, HasRecord, RecordOf
  <1>2. ASSUME NEW u \in Usernames, EnsureAllowed(u) PROVE EndsInTime(v)
    <2>1. u # v
      BY <1>2 DEF EnsureAllowed
    <2> QED  BY <1>2, <2>1, SameRecord DEF EnsureAllowed, Without, Refuses, HasRecord, RecordOf
  <1>3. ASSUME NEW u \in Usernames, RecordSuccess(u) PROVE EndsInTime(v)
    <2>1. CASE u = v
      <3>1. pending'[v] = pending[v] - 1 /\ pending[v] \in Int /\ ~HasRecord(v)'
        BY <1>3, <2>1 DEF RecordSuccess, Without, HasRecord, IInv, TypeOK
      <3> QED  BY <3>1 DEF EndsInTime
    <2>2. CASE u # v
      BY <1>3, <2>2, SameRecord DEF RecordSuccess, Without, Refuses, HasRecord, RecordOf
    <2> QED  BY <2>1, <2>2
  <1>4. ASSUME NEW u \in Usernames, RecordFailure(u) PROVE EndsInTime(v)
    BY <1>4, RecordFailureEndsInTime
  <1>5. ASSUME NEW u \in Usernames, Abandon(u) PROVE EndsInTime(v)
    BY <1>5, SameRecord DEF Abandon, Refuses, HasRecord, RecordOf
  <1>6. CASE Tick
    BY <1>6, TickEndsInTime
  <1> QED  BY <1>1, <1>2, <1>3, <1>4, <1>5, <1>6 DEF Next

\* A lockout ends by the clock or by a login let through before it, whatever
\* the other logins do.
THEOREM RefusalsEndInTime == Spec => RefusalEndsInTime
  <1>1. IInv /\ [Next]_vars =>
          [\A u \in Usernames :
             Refuses(u) /\ ~Refuses(u)' =>
               \/ ~HasRecord(u)' /\ pending'[u] < pending[u]
               \/ HasRecord(u)' /\ Expired(RecordOf(u))' /\ pending' = pending]_vars
    BY NextEndsInTime DEF EndsInTime
  <1> QED  BY <1>1, InitIInv, NextIInv, PTL DEF Spec, RefusalEndsInTime

=============================================================================
