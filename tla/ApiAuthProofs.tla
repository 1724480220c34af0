---------------------------- MODULE ApiAuthProofs ----------------------------
(***************************************************************************)
(* The safety invariants of ApiAuth for any number of concurrent requests, *)
(* any set of users and any size of the audit log.                         *)
(***************************************************************************)
EXTENDS ApiAuth, FiniteSetTheorems, TLAPS

\* The requests that have a sign-in on record and are about to store its
\* session, of one user and of all, and those that have taken a session out of
\* the map and are about to record it.
Issuing(u) ==
    {r \in Requests : /\ request[r].at \in {"bootstrap_issue", "login_issue"}
                      /\ request[r].session.user = u}
AllIssuing == {r \in Requests : request[r].at \in {"bootstrap_issue", "login_issue"}}
LoggingOut(u) ==
    {r \in Requests : request[r].at = "logout_audit" /\ request[r].session.user = u}

FailedLogins(u) ==
    {i \in DOMAIN audit_log :
       /\ audit_log[i].action = "Login" /\ audit_log[i].target = u
       /\ audit_log[i].outcome = "Failure"}

WellFormed == request = [r \in Requests |-> request[r]]

\* A token is backed by an entry from before it is issued.
TokensBacked == issued + Cardinality(AllIssuing) <= Len(audit_log)

\* Whoever is or was signed in is a user: users are never removed.
SignedInAreUsers ==
    /\ \A t \in DOMAIN sessions : sessions[t].user \in DOMAIN users
    /\ \A r \in Requests :
         request[r].at \in {"bootstrap_issue", "login_issue", "logout_audit",
                            "create_user_app", "login_succeeded"} =>
           request[r].session.user \in DOMAIN users

\* SessionsAccountedFor, with what is in flight between the map of the sessions
\* and the audit log.
SessionsBacked ==
    \A u \in Users :
      Cardinality(SessionsOf(u)) + Cardinality(Issuing(u))
        + Cardinality(LoggingOut(u)) + Cardinality(SignOuts(u))
          <= Cardinality(SignIns(u))

\* Without users nothing has succeeded.
NothingBeforeUsers ==
    users = << >> => \A i \in DOMAIN audit_log : audit_log[i].outcome = "Failure"

TypeInv == TypeOK /\ WellFormed /\ TokensBacked /\ SignedInAreUsers

IInv ==
    /\ TypeInv
    /\ SessionsBacked
    /\ UsersOnRecord
    /\ NothingBeforeUsers
    /\ BootstrapComesFirst
    /\ FailuresOnRecord

-----------------------------------------------------------------------------
(* Finite sets that gain or lose an element.                               *)

LEMMA CountGains ==
    ASSUME NEW S, IsFiniteSet(S), NEW x, x \notin S, NEW T, T = S \cup {x}
    PROVE  IsFiniteSet(T) /\ Cardinality(T) = Cardinality(S) + 1 /\ Cardinality(S) \in Nat
  BY FS_AddElement, FS_CardinalityType

LEMMA CountLoses ==
    ASSUME NEW S, IsFiniteSet(S), NEW x \in S, NEW T, T = S \ {x}
    PROVE  IsFiniteSet(T) /\ Cardinality(T) = Cardinality(S) - 1 /\ Cardinality(S) \in Nat
  BY FS_RemoveElement, FS_CardinalityType

LEMMA CountShrinks ==
    ASSUME NEW S, IsFiniteSet(S), NEW T, T \subseteq S
    PROVE  /\ IsFiniteSet(T) /\ Cardinality(T) <= Cardinality(S)
           /\ Cardinality(T) \in Nat /\ Cardinality(S) \in Nat
  BY FS_Subset, FS_CardinalityType

-----------------------------------------------------------------------------
(* What a request at an await carries.                                     *)

\* A request holds a token, a user, a throttle key or a session, by the await it is at.
LEMMA Carries ==
    ASSUME TypeOK, NEW r \in Requests
    PROVE  /\ request[r].at \in {"logout", "create_user"} => request[r].token \in 1..issued
           /\ request[r].at = "bootstrap" => request[r].user \in Users
           /\ request[r].at \in {"login", "login_app", "login_failed", "login_succeeded"} =>
                request[r].username \in ThrottleKeys
           /\ request[r].at \in {"bootstrap_issue", "login_issue", "logout_audit",
                                 "create_user_app", "login_succeeded"} =>
                request[r].session \in Session
           /\ request[r].at = "idle" => request[r] = Idle
  BY DEF TypeOK, Idle, TokenRequest, BootstrapRequest, LoginRequest, LoginWithSession,
         SessionRequest

\* A step of a request leaves the others where they are.
LEMMA OthersStay ==
    ASSUME WellFormed, NEW r \in Requests, NEW next, Goes(r, next)
    PROVE  /\ WellFormed'
           /\ request'[r] = next
           /\ \A s \in Requests \ {r} : request'[s] = request[s]
  BY DEF WellFormed, Goes

\* The typing of the requests after such a step, when no token is lost.
LEMMA RequestsTyped ==
    ASSUME TypeInv, NEW r \in Requests, NEW next, Goes(r, next),
           issued \in Nat, issued' \in Nat, issued' >= issued,
           \/ next = Idle
           \/ next \in TokenRequest'
           \/ next \in BootstrapRequest
           \/ next \in LoginRequest
           \/ next \in LoginWithSession
           \/ next \in SessionRequest
    PROVE  \A s \in Requests :
             \/ request'[s] = Idle
             \/ request'[s] \in TokenRequest'
             \/ request'[s] \in BootstrapRequest
             \/ request'[s] \in LoginRequest
             \/ request'[s] \in LoginWithSession
             \/ request'[s] \in SessionRequest
  <1>1. TokenRequest \subseteq TokenRequest'
    BY DEF TokenRequest
  <1>2. /\ request'[r] = next
        /\ \A s \in Requests \ {r} : request'[s] = request[s]
    BY OthersStay DEF TypeInv
  <1> QED  BY <1>1, <1>2 DEF TypeInv, TypeOK

\* The logins in flight are never more than the requests.
LEMMA PendingTyped == (pending \in [ThrottleKeys -> 0..Cardinality(Requests)])'
  <1> SUFFICES ASSUME NEW u \in ThrottleKeys
               PROVE  (Cardinality({r \in Requests :
                          /\ request[r].at \in {"login_app", "login_succeeded", "login_failed"}
                          /\ request[r].username = u}) \in 0..Cardinality(Requests))'
    BY DEF pending
  <1> DEFINE S == {r \in Requests :
                     /\ request'[r].at \in {"login_app", "login_succeeded", "login_failed"}
                     /\ request'[r].username = u}
  <1>1. S \subseteq Requests
    OBVIOUS
  <1> HIDE DEF S
  <1>2. Cardinality(S) \in Nat /\ Cardinality(S) <= Cardinality(Requests)
        /\ Cardinality(Requests) \in Nat
    BY <1>1, AuthAssumption, CountShrinks
  <1>3. Cardinality(S) \in 0..Cardinality(Requests)
    BY <1>2
  <1> QED  BY <1>3 DEF S

-----------------------------------------------------------------------------
(* What an audited step does to the log.                                   *)

\* The number of the entry that `Audit` adds when there is room.
NextEntry == Len(audit_log) + 1

LEMMA Audited ==
    ASSUME TypeOK, NEW entry \in AuditEntry, Audit(entry)
    PROVE  /\ audit_log' \in Seq(AuditEntry)
           /\ Len(audit_log) \in Nat
           /\ Len(audit_log') <= MaxAuditEntries
           /\ DOMAIN audit_log = 1..Len(audit_log)
           /\ DOMAIN audit_log' = 1..Len(audit_log')
           /\ \A i \in DOMAIN audit_log :
                i \in DOMAIN audit_log' /\ audit_log'[i] = audit_log[i]
           /\ AuditHasRoom => /\ Len(audit_log') = NextEntry
                              /\ audit_log'[NextEntry] = entry
                              /\ DOMAIN audit_log' = DOMAIN audit_log \cup {NextEntry}
                              /\ NextEntry \notin DOMAIN audit_log
           /\ ~AuditHasRoom => audit_log' = audit_log /\ ~AuditHasRoom'
  BY AuthAssumption DEF TypeOK, Audit, AuditHasRoom, NextEntry

\* The sets of entries that the invariants count are finite.
LEMMA LogSetsFinite ==
    ASSUME TypeOK, NEW u
    PROVE  IsFiniteSet(SignIns(u)) /\ IsFiniteSet(SignOuts(u)) /\ IsFiniteSet(FailedLogins(u))
  <1>1. IsFiniteSet(DOMAIN audit_log)
    <2>1. DOMAIN audit_log = 1..Len(audit_log) /\ Len(audit_log) \in Int
      BY DEF TypeOK
    <2> QED  BY <2>1, FS_Interval
  <1>2. /\ SignIns(u) \subseteq DOMAIN audit_log
        /\ SignOuts(u) \subseteq DOMAIN audit_log
        /\ FailedLogins(u) \subseteq DOMAIN audit_log
    BY DEF SignIns, SignOuts, FailedLogins
  <1> QED  BY <1>1, <1>2, FS_Subset

LEMMA SignInsAudited ==
    ASSUME TypeOK, NEW entry \in AuditEntry, Audit(entry), NEW u
    PROVE  /\ Cardinality(SignIns(u)) \in Nat
           /\ Cardinality(SignIns(u)') =
                IF /\ AuditHasRoom /\ entry.actor = u /\ entry.outcome = "Success"
                   /\ entry.action \in {"BootstrapAdmin", "Login"}
                THEN Cardinality(SignIns(u)) + 1 ELSE Cardinality(SignIns(u))
  <1> DEFINE counts == /\ AuditHasRoom /\ entry.actor = u /\ entry.outcome = "Success"
                       /\ entry.action \in {"BootstrapAdmin", "Login"}
             S == SignIns(u)
             T == SignIns(u)'
  <1>1. IsFiniteSet(S)
    BY LogSetsFinite
  <1>2. CASE counts
    <2>1. NextEntry \notin S /\ T = S \cup {NextEntry}
      BY <1>2, Audited DEF SignIns
    <2> HIDE DEF S, T
    <2> QED  BY <1>1, <1>2, <2>1, CountGains DEF S, T
  <1>3. CASE ~counts
    <2>1. T = S
      BY <1>3, Audited DEF SignIns
    <2> HIDE DEF S, T
    <2> QED  BY <1>1, <1>3, <2>1, FS_CardinalityType DEF S, T
  <1> QED  BY <1>2, <1>3

LEMMA SignOutsAudited ==
    ASSUME TypeOK, NEW entry \in AuditEntry, Audit(entry), NEW u
    PROVE  /\ Cardinality(SignOuts(u)) \in Nat
           /\ Cardinality(SignOuts(u)') =
                IF AuditHasRoom /\ entry.actor = u /\ entry.action = "Logout"
                THEN Cardinality(SignOuts(u)) + 1 ELSE Cardinality(SignOuts(u))
  <1> DEFINE counts == AuditHasRoom /\ entry.actor = u /\ entry.action = "Logout"
             S == SignOuts(u)
             T == SignOuts(u)'
  <1>1. IsFiniteSet(S)
    BY LogSetsFinite
  <1>2. CASE counts
    <2>1. NextEntry \notin S /\ T = S \cup {NextEntry}
      BY <1>2, Audited DEF SignOuts
    <2> HIDE DEF S, T
    <2> QED  BY <1>1, <1>2, <2>1, CountGains DEF S, T
  <1>3. CASE ~counts
    <2>1. T = S
      BY <1>3, Audited DEF SignOuts
    <2> HIDE DEF S, T
    <2> QED  BY <1>1, <1>3, <2>1, FS_CardinalityType DEF S, T
  <1> QED  BY <1>2, <1>3

\* Failed logins are only ever added, one with its own entry.
LEMMA FailedLoginsAudited ==
    ASSUME TypeOK, NEW entry \in AuditEntry, Audit(entry), NEW u
    PROVE  /\ Cardinality(FailedLogins(u)) \in Nat
           /\ Cardinality(FailedLogins(u)') >= Cardinality(FailedLogins(u))
           /\ /\ AuditHasRoom /\ entry.target = u /\ entry.outcome = "Failure"
              /\ entry.action = "Login"
              => Cardinality(FailedLogins(u)') = Cardinality(FailedLogins(u)) + 1
  <1> DEFINE counts == /\ AuditHasRoom /\ entry.target = u /\ entry.outcome = "Failure"
                       /\ entry.action = "Login"
             S == FailedLogins(u)
             T == FailedLogins(u)'
  <1>1. IsFiniteSet(S)
    BY LogSetsFinite
  <1>2. CASE counts
    <2>1. NextEntry \notin S /\ T = S \cup {NextEntry}
      BY <1>2, Audited DEF FailedLogins
    <2> HIDE DEF S, T
    <2>2. Cardinality(T) = Cardinality(S) + 1 /\ Cardinality(S) \in Nat
      BY <1>1, <2>1, CountGains
    <2> QED  BY <2>2 DEF S, T
  <1>3. CASE ~counts
    <2>1. T = S
      BY <1>3, Audited DEF FailedLogins
    <2> HIDE DEF S, T
    <2> QED  BY <1>1, <1>3, <2>1, FS_CardinalityType DEF S, T
  <1> QED  BY <1>2, <1>3


-----------------------------------------------------------------------------
(* What the throttle's methods do to its map.                              *)

FailuresTyped ==
    /\ DOMAIN failures_by_username \subseteq ThrottleKeys
    /\ \A u \in DOMAIN failures_by_username :
         /\ failures_by_username[u] \in Throttle!FailedLoginRecord
         /\ failures_by_username[u].failed_attempts > 0

LEMMA FailuresTypedTypeOK == TypeOK => FailuresTyped
  BY DEF TypeOK, Throttle!TypeOK, Throttle!RecordOf, FailuresTyped

LEMMA CountedTyped ==
    ASSUME NEW record \in Throttle!FailedLoginRecord
    PROVE  /\ Throttle!Counted(record) \in Throttle!FailedLoginRecord
           /\ Throttle!Counted(record).failed_attempts = record.failed_attempts + 1
           /\ record.failed_attempts \in Nat
  <1> DEFINE attempts == record.failed_attempts + 1
             lock     == IF attempts >= FAILED_LOGIN_LIMIT
                         THEN FAILED_LOGIN_LOCKOUT ELSE record.lock_left
  <1>1. Throttle!Counted(record) =
          [record EXCEPT !.failed_attempts = attempts, !.lock_left = lock]
    BY DEF Throttle!Counted
  <1>2. /\ record.age \in 0..FAILED_LOGIN_WINDOW
        /\ record.failed_attempts \in Nat
        /\ record.lock_left \in {Throttle!NotLocked} \cup 0..FAILED_LOGIN_LOCKOUT
    BY DEF Throttle!FailedLoginRecord
  <1>3. /\ attempts \in Nat
        /\ lock \in {Throttle!NotLocked} \cup 0..FAILED_LOGIN_LOCKOUT
    BY <1>2, AuthAssumption
  <1> HIDE DEF attempts, lock
  <1>4. Throttle!Counted(record) \in Throttle!FailedLoginRecord
    BY <1>1, <1>2, <1>3 DEF Throttle!FailedLoginRecord
  <1>5. Throttle!Counted(record).failed_attempts = attempts
    BY <1>1 DEF Throttle!FailedLoginRecord
  <1> QED  BY <1>2, <1>4, <1>5 DEF attempts

LEMMA OlderTyped ==
    ASSUME NEW record \in Throttle!FailedLoginRecord
    PROVE  /\ Throttle!Older(record) \in Throttle!FailedLoginRecord
           /\ Throttle!Older(record).failed_attempts = record.failed_attempts
  <1> DEFINE age  == IF record.age < FAILED_LOGIN_WINDOW THEN record.age + 1 ELSE record.age
             lock == IF record.lock_left > 0 THEN record.lock_left - 1 ELSE record.lock_left
  <1>1. Throttle!Older(record) = [record EXCEPT !.age = age, !.lock_left = lock]
    BY DEF Throttle!Older
  <1>2. /\ record.age \in 0..FAILED_LOGIN_WINDOW
        /\ record.failed_attempts \in Nat
        /\ record.lock_left \in {Throttle!NotLocked} \cup 0..FAILED_LOGIN_LOCKOUT
    BY DEF Throttle!FailedLoginRecord
  <1>3. /\ age \in 0..FAILED_LOGIN_WINDOW
        /\ lock \in {Throttle!NotLocked} \cup 0..FAILED_LOGIN_LOCKOUT
    BY <1>2, AuthAssumption DEF Throttle!NotLocked
  <1> HIDE DEF age, lock
  <1>4. Throttle!Older(record) \in Throttle!FailedLoginRecord
    BY <1>1, <1>2, <1>3 DEF Throttle!FailedLoginRecord
  <1> QED  BY <1>1, <1>4 DEF Throttle!FailedLoginRecord

\* The record that the next failure is counted on: the present one or a new one.
LEMMA CurrentTyped ==
    ASSUME FailuresTyped, NEW u \in ThrottleKeys
    PROVE  /\ Throttle!Current(u) \in Throttle!FailedLoginRecord
           /\ \/ /\ u \in DOMAIN failures_by_username
                 /\ Throttle!Current(u) = failures_by_username[u]
              \/ Throttle!Current(u).failed_attempts = 0
  <1>1. CASE Throttle!HasRecord(u) /\ ~Throttle!Expired(Throttle!RecordOf(u))
    BY <1>1 DEF FailuresTyped, Throttle!Current, Throttle!HasRecord, Throttle!RecordOf
  <1>2. CASE ~(Throttle!HasRecord(u) /\ ~Throttle!Expired(Throttle!RecordOf(u)))
    <2>1. Throttle!Current(u) =
            [age |-> 0, failed_attempts |-> 0, lock_left |-> Throttle!NotLocked]
      BY <1>2 DEF Throttle!Current
    <2> QED  BY <2>1, AuthAssumption DEF Throttle!FailedLoginRecord
  <1> QED  BY <1>1, <1>2

\* A record that is removed, added to or aged: the map stays typed, and only a
\* counted failure raises a number of attempts, by one.
LEMMA FailuresUpdated ==
    ASSUME FailuresTyped, NEW u \in ThrottleKeys,
           \/ UNCHANGED failures_by_username
           \/ failures_by_username' = Throttle!Without(u)
           \/ failures_by_username' = Throttle!With(u, Throttle!Counted(Throttle!Current(u)))
           \/ Tick
    PROVE  /\ FailuresTyped'
           /\ \A v \in DOMAIN failures_by_username' :
                /\ failures_by_username'[v].failed_attempts \in Nat
                /\ \/ /\ v \in DOMAIN failures_by_username
                      /\ failures_by_username[v].failed_attempts \in Nat
                      /\ failures_by_username'[v].failed_attempts =
                           failures_by_username[v].failed_attempts
                   \/ /\ v = u
                      /\ failures_by_username' =
                           Throttle!With(u, Throttle!Counted(Throttle!Current(u)))
                      /\ \/ failures_by_username'[v].failed_attempts = 1
                         \/ /\ v \in DOMAIN failures_by_username
                            /\ failures_by_username[v].failed_attempts \in Nat
                            /\ failures_by_username'[v].failed_attempts =
                                 failures_by_username[v].failed_attempts + 1
  <1>0. \A v \in DOMAIN failures_by_username : failures_by_username[v].failed_attempts \in Nat
    BY DEF FailuresTyped, Throttle!FailedLoginRecord
  <1>1. CASE UNCHANGED failures_by_username
    BY <1>0, <1>1 DEF FailuresTyped
  <1>2. CASE failures_by_username' = Throttle!Without(u)
    BY <1>0, <1>2 DEF FailuresTyped, Throttle!Without
  <1>3. CASE failures_by_username' = Throttle!With(u, Throttle!Counted(Throttle!Current(u)))
    <2> DEFINE current == Throttle!Current(u)
               counted == Throttle!Counted(current)
    <2>1. /\ current \in Throttle!FailedLoginRecord
          /\ \/ u \in DOMAIN failures_by_username /\ current = failures_by_username[u]
             \/ current.failed_attempts = 0
      BY CurrentTyped
    <2> HIDE DEF current
    <2>2. /\ counted \in Throttle!FailedLoginRecord
          /\ counted.failed_attempts = current.failed_attempts + 1
          /\ current.failed_attempts \in Nat
      BY <2>1, CountedTyped
    <2>3. failures_by_username' = Throttle!With(u, counted)
      BY <1>3 DEF current
    <2> HIDE DEF counted
    <2>4. /\ DOMAIN failures_by_username' = DOMAIN failures_by_username \cup {u}
          /\ failures_by_username'[u] = counted
          /\ \A v \in DOMAIN failures_by_username \ {u} :
               failures_by_username'[v] = failures_by_username[v]
      BY <2>3 DEF Throttle!With
    <2>5. FailuresTyped'
      BY <2>2, <2>4 DEF FailuresTyped
    <2> QED  BY <1>0, <1>3, <2>1, <2>2, <2>4, <2>5
  <1>4. CASE Tick
    <2>1. /\ DOMAIN failures_by_username' = DOMAIN failures_by_username
          /\ \A v \in DOMAIN failures_by_username :
               failures_by_username'[v] = Throttle!Older(failures_by_username[v])
      BY <1>4 DEF Tick
    <2>2. \A v \in DOMAIN failures_by_username :
             /\ failures_by_username'[v] \in Throttle!FailedLoginRecord
             /\ failures_by_username'[v].failed_attempts =
                  failures_by_username[v].failed_attempts
      BY <2>1, OlderTyped DEF FailuresTyped
    <2> QED  BY <1>0, <2>1, <2>2 DEF FailuresTyped
  <1> QED  BY <1>1, <1>2, <1>3, <1>4


-----------------------------------------------------------------------------
(* How the requests in flight are counted.                                 *)

IssueAwaits == {"bootstrap_issue", "login_issue"}

LEMMA InFlightFinite ==
    ASSUME NEW u
    PROVE  /\ IsFiniteSet(AllIssuing) /\ Cardinality(AllIssuing) \in Nat
           /\ IsFiniteSet(Issuing(u)) /\ Cardinality(Issuing(u)) \in Nat
           /\ IsFiniteSet(LoggingOut(u)) /\ Cardinality(LoggingOut(u)) \in Nat
  <1>1. AllIssuing \subseteq Requests /\ Issuing(u) \subseteq Requests
        /\ LoggingOut(u) \subseteq Requests
    BY DEF AllIssuing, Issuing, LoggingOut
  <1> QED  BY <1>1, AuthAssumption, CountShrinks

\* A request that goes on to anything but an issue takes nothing more in
\* flight; when it comes from an issue it is one less.
LEMMA AllIssuingStep ==
    ASSUME WellFormed, NEW r \in Requests, NEW next, Goes(r, next)
    PROVE  /\ Cardinality(AllIssuing') \in Nat
           /\ Cardinality(AllIssuing') <= Cardinality(AllIssuing) + 1
           /\ next.at \notin IssueAwaits => Cardinality(AllIssuing') <= Cardinality(AllIssuing)
           /\ next.at \notin IssueAwaits /\ request[r].at \in IssueAwaits =>
                Cardinality(AllIssuing') = Cardinality(AllIssuing) - 1
  <1> DEFINE S == AllIssuing
             T == AllIssuing'
  <1>1. IsFiniteSet(S)
    BY InFlightFinite
  <1>2. /\ request'[r] = next
        /\ \A s \in Requests \ {r} : request'[s] = request[s]
    BY OthersStay
  <1>3. /\ next.at \in IssueAwaits => T = S \cup {r}
        /\ next.at \notin IssueAwaits => T = S \ {r}
        /\ r \in S <=> request[r].at \in IssueAwaits
    BY <1>2 DEF AllIssuing, IssueAwaits
  <1> HIDE DEF S, T
  <1>4. /\ Cardinality(T) \in Nat
        /\ Cardinality(T) <= Cardinality(S) + 1
        /\ next.at \notin IssueAwaits => Cardinality(T) <= Cardinality(S)
        /\ next.at \notin IssueAwaits /\ request[r].at \in IssueAwaits =>
             Cardinality(T) = Cardinality(S) - 1
    BY <1>1, <1>3, FS_AddElement, FS_RemoveElement, FS_CardinalityType
  <1> QED  BY <1>4 DEF S, T

LEMMA IssuingStep ==
    ASSUME WellFormed, NEW r \in Requests, NEW next, Goes(r, next), NEW u
    PROVE  /\ Cardinality(Issuing(u)') \in Nat
           /\ Cardinality(Issuing(u)') <= Cardinality(Issuing(u)) + 1
           /\ ~(next.at \in IssueAwaits /\ next.session.user = u) =>
                /\ Cardinality(Issuing(u)') <= Cardinality(Issuing(u))
                /\ request[r].at \in IssueAwaits /\ request[r].session.user = u =>
                     Cardinality(Issuing(u)') = Cardinality(Issuing(u)) - 1
  <1> DEFINE S == Issuing(u)
             T == Issuing(u)'
             joins == next.at \in IssueAwaits /\ next.session.user = u
             was   == request[r].at \in IssueAwaits /\ request[r].session.user = u
  <1>1. IsFiniteSet(S)
    BY InFlightFinite
  <1>2. /\ request'[r] = next
        /\ \A s \in Requests \ {r} : request'[s] = request[s]
    BY OthersStay
  <1>3. /\ joins => T = S \cup {r}
        /\ ~joins => T = S \ {r}
        /\ r \in S <=> was
    BY <1>2 DEF Issuing, IssueAwaits
  <1> HIDE DEF S, T, joins, was
  <1>4. /\ Cardinality(T) \in Nat
        /\ Cardinality(T) <= Cardinality(S) + 1
        /\ ~joins => Cardinality(T) <= Cardinality(S)
        /\ ~joins /\ was => Cardinality(T) = Cardinality(S) - 1
    BY <1>1, <1>3, FS_AddElement, FS_RemoveElement, FS_CardinalityType
  <1> QED  BY <1>4 DEF S, T, joins, was

LEMMA LoggingOutStep ==
    ASSUME WellFormed, NEW r \in Requests, NEW next, Goes(r, next), NEW u
    PROVE  /\ Cardinality(LoggingOut(u)') \in Nat
           /\ Cardinality(LoggingOut(u)') <= Cardinality(LoggingOut(u)) + 1
           /\ ~(next.at = "logout_audit" /\ next.session.user = u) =>
                /\ Cardinality(LoggingOut(u)') <= Cardinality(LoggingOut(u))
                /\ request[r].at = "logout_audit" /\ request[r].session.user = u =>
                     Cardinality(LoggingOut(u)') = Cardinality(LoggingOut(u)) - 1
  <1> DEFINE S == LoggingOut(u)
             T == LoggingOut(u)'
             joins == next.at = "logout_audit" /\ next.session.user = u
             was   == request[r].at = "logout_audit" /\ request[r].session.user = u
  <1>1. IsFiniteSet(S)
    BY InFlightFinite
  <1>2. /\ request'[r] = next
        /\ \A s \in Requests \ {r} : request'[s] = request[s]
    BY OthersStay
  <1>3. /\ joins => T = S \cup {r}
        /\ ~joins => T = S \ {r}
        /\ r \in S <=> was
    BY <1>2 DEF LoggingOut
  <1> HIDE DEF S, T, joins, was
  <1>4. /\ Cardinality(T) \in Nat
        /\ Cardinality(T) <= Cardinality(S) + 1
        /\ ~joins => Cardinality(T) <= Cardinality(S)
        /\ ~joins /\ was => Cardinality(T) = Cardinality(S) - 1
    BY <1>1, <1>3, FS_AddElement, FS_RemoveElement, FS_CardinalityType
  <1> QED  BY <1>4 DEF S, T, joins, was

\* The sessions of a user are finitely many.
LEMMA SessionsFinite ==
    ASSUME TypeOK, NEW u
    PROVE  IsFiniteSet(SessionsOf(u)) /\ Cardinality(SessionsOf(u)) \in Nat
  <1>1. IsFiniteSet(1..issued)
    <2>1. issued \in Int
      BY AuthAssumption DEF TypeOK
    <2> QED  BY <2>1, FS_Interval
  <1>2. SessionsOf(u) \subseteq 1..issued
    BY DEF TypeOK, SessionsOf
  <1> QED  BY <1>1, <1>2, CountShrinks


-----------------------------------------------------------------------------
(* The typing invariant.                                                   *)

UsersTyped == DOMAIN users \subseteq Users /\ \A u \in DOMAIN users : users[u] \in Roles

SessionsTyped ==
    /\ issued \in Nat
    /\ DOMAIN sessions \subseteq 1..issued
    /\ \A t \in DOMAIN sessions :
         sessions[t] \in Session /\ sessions[t].user \in DOMAIN users

\* What a request may go on to: it is typed, and it carries the session of a
\* user.
Fits(next) ==
    /\ \/ next = Idle
       \/ next \in TokenRequest
       \/ next \in BootstrapRequest
       \/ next \in LoginRequest
       \/ next \in LoginWithSession
       \/ next \in SessionRequest
    /\ next.at \in {"bootstrap_issue", "login_issue", "logout_audit",
                    "create_user_app", "login_succeeded"} =>
         next.session.user \in DOMAIN users

\* A step of a request that keeps every part of the state typed, that removes
\* no user and that has an entry for every token, keeps the typing invariant.
LEMMA StepTyped ==
    ASSUME TypeInv, NEW r \in Requests, NEW next, Goes(r, next), Fits(next)',
           UsersTyped', DOMAIN users \subseteq DOMAIN users', SessionsTyped', FailuresTyped',
           issued' >= issued,
           audit_log' \in Seq(AuditEntry), Len(audit_log') <= MaxAuditEntries,
           issued' + Cardinality(AllIssuing') <= Len(audit_log')
    PROVE  TypeInv'
  <1>1. /\ WellFormed'
        /\ request'[r] = next
        /\ \A s \in Requests \ {r} : request'[s] = request[s]
    BY OthersStay DEF TypeInv
  <1>2. issued \in Nat /\ issued' \in Nat /\ issued' \in 0..MaxAuditEntries
    BY AuthAssumption, InFlightFinite, AllIssuingStep DEF TypeInv, TypeOK, SessionsTyped
  <1>3. Throttle!TypeOK'
    BY PendingTyped DEF FailuresTyped, Throttle!TypeOK, Throttle!RecordOf
  <1>4. \A s \in Requests :
             \/ request'[s] = Idle
             \/ request'[s] \in TokenRequest'
             \/ request'[s] \in BootstrapRequest
             \/ request'[s] \in LoginRequest
             \/ request'[s] \in LoginWithSession
             \/ request'[s] \in SessionRequest
    BY <1>2, RequestsTyped
       DEF Fits, BootstrapRequest, LoginRequest, LoginWithSession, SessionRequest, Session
  <1>5. TypeOK'
    BY <1>2, <1>3, <1>4
       DEF TypeOK, UsersTyped, SessionsTyped, BootstrapRequest, LoginRequest,
           LoginWithSession, SessionRequest, Session
  <1>6. SignedInAreUsers'
    BY <1>1 DEF TypeInv, SignedInAreUsers, SessionsTyped, Fits
  <1> QED  BY <1>1, <1>5, <1>6 DEF TypeInv, TokensBacked

\* What TypeInv says, in the parts that a step keeps or replaces.
LEMMA TypeParts ==
    ASSUME TypeInv
    PROVE  /\ UsersTyped /\ SessionsTyped /\ FailuresTyped /\ WellFormed
           /\ audit_log \in Seq(AuditEntry) /\ Len(audit_log) \in Nat
           /\ Len(audit_log) <= MaxAuditEntries /\ MaxAuditEntries \in Nat
           /\ issued + Cardinality(AllIssuing) <= Len(audit_log)
           /\ Cardinality(AllIssuing) \in Nat
  BY FailuresTypedTypeOK, InFlightFinite, AuthAssumption
     DEF TypeInv, TypeOK, UsersTyped, SessionsTyped, SignedInAreUsers, TokensBacked

\* A step that only goes on, to where it takes nothing in flight.
LEMMA GoesOnTyped ==
    ASSUME TypeInv, NEW r \in Requests, NEW next, Goes(r, next), Fits(next),
           next.at \notin IssueAwaits, FailuresTyped',
           UNCHANGED <<users, audit_log, sessions, issued>>
    PROVE  TypeInv'
  <1>1. Cardinality(AllIssuing') \in Nat /\ Cardinality(AllIssuing') <= Cardinality(AllIssuing)
    BY AllIssuingStep, TypeParts
  <1>2. Fits(next)'
    BY DEF Fits, TokenRequest, BootstrapRequest, LoginRequest, LoginWithSession,
           SessionRequest, Session
  <1> QED  BY <1>1, <1>2, TypeParts, StepTyped DEF UsersTyped, SessionsTyped

LEMMA IdleFits == Fits(Idle) /\ Fits(Idle)' /\ Idle.at \notin IssueAwaits /\ Idle.at = "idle"
  BY DEF Fits, Idle, IssueAwaits

\* A step that audits its entry and then answers.
LEMMA AuditedTyped ==
    ASSUME TypeInv, NEW r \in Requests, Answered(r), NEW entry \in AuditEntry, Audit(entry),
           UsersTyped', DOMAIN users \subseteq DOMAIN users', FailuresTyped',
           UNCHANGED <<sessions, issued>>
    PROVE  TypeInv'
  <1>1. Goes(r, Idle)
    BY DEF Answered
  <1>2. Cardinality(AllIssuing') \in Nat /\ Cardinality(AllIssuing') <= Cardinality(AllIssuing)
    BY <1>1, IdleFits, AllIssuingStep, TypeParts
  <1>3. /\ audit_log' \in Seq(AuditEntry) /\ Len(audit_log') <= MaxAuditEntries
        /\ Len(audit_log') \in Nat /\ Len(audit_log') >= Len(audit_log)
    <2>1. CASE AuditHasRoom
      BY <2>1, Audited DEF TypeInv, NextEntry
    <2>2. CASE ~AuditHasRoom
      BY <2>2, Audited DEF TypeInv
    <2> QED  BY <2>1, <2>2
  <1>4. SessionsTyped'
    BY TypeParts DEF SessionsTyped
  <1>5. issued' >= issued /\ issued' + Cardinality(AllIssuing') <= Len(audit_log')
    BY <1>2, <1>3, TypeParts DEF SessionsTyped
  <1> QED  BY <1>1, <1>3, <1>4, <1>5, IdleFits, StepTyped


\* The start of a request that needs no session.
LEMMA StartsWithoutToken ==
    ASSUME NEW r, \/ \E u \in Users : StartBootstrap(r, u)
                  \/ \E n \in Spellings : StartLogin(r, n)
    PROVE  /\ request[r] = Idle
           /\ \E next : /\ Goes(r, next) /\ next \in BootstrapRequest \cup LoginRequest
                        /\ next.at \in {"bootstrap", "login"}
           /\ UNCHANGED <<users, audit_log, sessions, issued, failures_by_username>>
  <1>1. CASE \E u \in Users : StartBootstrap(r, u)
    BY <1>1 DEF StartBootstrap, BootstrapRequest
  <1>2. CASE \E n \in Spellings : StartLogin(r, n)
    <2>1. PICK n \in Spellings : StartLogin(r, n)
      BY <1>2
    <2>2. LoginUnderKey(n) \in LoginRequest /\ LoginUnderKey(n).at = "login"
      BY DEF LoginUnderKey, ThrottleKeys, LoginRequest
    <2> QED  BY <2>1, <2>2 DEF StartLogin
  <1> QED  BY <1>1, <1>2

\* The start of a request, of any handler.
LEMMA StartTyped ==
    ASSUME TypeInv, NEW r \in Requests, Start(r)
    PROVE  TypeInv'
  <1>1. ASSUME \/ \E u \in Users : StartBootstrap(r, u)
               \/ \E n \in Spellings : StartLogin(r, n)
        PROVE  TypeInv'
    <2>1. PICK next : /\ Goes(r, next) /\ next \in BootstrapRequest \cup LoginRequest
                      /\ next.at \in {"bootstrap", "login"}
      BY <1>1, StartsWithoutToken
    <2>2. Fits(next) /\ next.at \notin IssueAwaits
      BY <2>1 DEF Fits, IssueAwaits
    <2>3. UNCHANGED <<users, audit_log, sessions, issued, failures_by_username>>
      BY <1>1, StartsWithoutToken
    <2> QED  BY <2>1, <2>2, <2>3, GoesOnTyped, TypeParts DEF FailuresTyped
  <1>2. ASSUME NEW token \in 1..issued, NEW handler \in {"logout", "create_user"},
               StartWithToken(r, handler, token)
        PROVE  TypeInv'
    <2> DEFINE next == [at |-> handler, token |-> token]
    <2>1. Goes(r, next) /\ next \in TokenRequest /\ next.at = handler
      BY <1>2 DEF StartWithToken, TokenRequest
    <2> HIDE DEF next
    <2>2. Fits(next) /\ next.at \notin IssueAwaits
      BY <2>1 DEF Fits, IssueAwaits
    <2> QED  BY <1>2, <2>1, <2>2, GoesOnTyped, TypeParts DEF StartWithToken, FailuresTyped
  <1> QED  BY <1>1, <1>2 DEF Start

\* The steps that end a request without a trace: a refusal and a drop.
EndsQuietly(r) ==
    \/ RefuseLogin(r) \/ RefuseToken(r) \/ RefuseCreateUser(r) \/ Drop(r)

LEMMA EndsQuietlyTyped ==
    ASSUME TypeInv, NEW r \in Requests, EndsQuietly(r)
    PROVE  TypeInv'
  <1>1. /\ Goes(r, Idle)
        /\ UNCHANGED <<users, audit_log, sessions, issued, failures_by_username>>
    BY DEF EndsQuietly, RefuseLogin, RefuseToken, RefuseCreateUser, Drop, Answered
  <1> QED  BY <1>1, IdleFits, GoesOnTyped, TypeParts DEF FailuresTyped

LEMMA RefuseBootstrapTyped ==
    ASSUME TypeInv, NEW r \in Requests, RefuseBootstrap(r)
    PROVE  TypeInv'
  <1>1. request[r].user \in Users
    BY Carries DEF TypeInv, RefuseBootstrap
  <1>2. PICK entry \in AuditEntry : Audit(entry)
    BY <1>1 DEF RefuseBootstrap, Entry, AuditEntry
  <1> QED  BY <1>2, AuditedTyped, TypeParts DEF RefuseBootstrap, UsersTyped, FailuresTyped

\* Both ways of signing in: an entry for the user, and the session on its way
\* when there was room for the entry.
SignsIn(r, u, action, session) ==
    /\ Audit(Entry(u, action, "Success", u))
    /\ Goes(r, IF AuditHasRoom
               THEN [at |-> IF action = "Login" THEN "login_issue" ELSE "bootstrap_issue",
                     session |-> session]
               ELSE Idle)
    /\ UNCHANGED <<sessions, issued>>

LEMMA SignsInTyped ==
    ASSUME TypeInv, NEW r \in Requests, NEW u \in Users, NEW session \in Session,
           NEW action \in {"BootstrapAdmin", "Login"},
           session.user = u, SignsIn(r, u, action, session),
           UsersTyped', DOMAIN users \subseteq DOMAIN users', u \in DOMAIN users',
           FailuresTyped'
    PROVE  TypeInv'
  <1> DEFINE entry == Entry(u, action, "Success", u)
  <1>1. entry \in AuditEntry /\ Audit(entry)
    BY DEF SignsIn, Entry, AuditEntry
  <1> HIDE DEF entry
  <1>2. CASE AuditHasRoom
    <2>1. PICK next : /\ Goes(r, next) /\ next \in SessionRequest
                      /\ next.session = session
                      /\ next.at \in IssueAwaits
      BY <1>2 DEF SignsIn, SessionRequest, IssueAwaits
    <2>2. Fits(next)'
      BY <2>1 DEF Fits, IssueAwaits, SessionRequest, Session
    <2>3. Cardinality(AllIssuing') \in Nat
          /\ Cardinality(AllIssuing') <= Cardinality(AllIssuing) + 1
      BY <2>1, AllIssuingStep, TypeParts
    <2>4. /\ audit_log' \in Seq(AuditEntry) /\ Len(audit_log') <= MaxAuditEntries
          /\ Len(audit_log') = Len(audit_log) + 1
      BY <1>1, <1>2, Audited DEF TypeInv, NextEntry
    <2>5. SessionsTyped' /\ issued' = issued
      BY TypeParts DEF SignsIn, SessionsTyped
    <2>6. issued' >= issued /\ issued' + Cardinality(AllIssuing') <= Len(audit_log')
      BY <2>3, <2>4, <2>5, TypeParts DEF SessionsTyped
    <2> QED  BY <2>1, <2>2, <2>4, <2>5, <2>6, StepTyped
  <1>3. CASE ~AuditHasRoom
    <2>1. Answered(r)
      BY <1>3 DEF SignsIn, Answered
    <2> QED  BY <1>1, <2>1, AuditedTyped DEF SignsIn
  <1> QED  BY <1>2, <1>3

LEMMA BootstrapAdminTyped ==
    ASSUME TypeInv, NEW r \in Requests, BootstrapAdmin(r)
    PROVE  TypeInv'
  <1> DEFINE u == request[r].user
             session == [user |-> u, role |-> "Admin"]
  <1>1. u \in Users
    BY Carries DEF TypeInv, BootstrapAdmin
  <1>2. session \in Session /\ session.user = u
    BY <1>1 DEF Session, Roles
  <1>3. SignsIn(r, u, "BootstrapAdmin", session)
    BY DEF BootstrapAdmin, SignsIn
  <1> HIDE DEF session
  <1>4. UsersTyped' /\ DOMAIN users \subseteq DOMAIN users' /\ u \in DOMAIN users'
    BY <1>1 DEF BootstrapAdmin, UsersTyped, Roles
  <1> HIDE DEF u
  <1> QED  BY <1>1, <1>2, <1>3, <1>4, SignsInTyped, TypeParts DEF BootstrapAdmin, FailuresTyped

LEMMA LoginSucceededTyped ==
    ASSUME TypeInv, NEW r \in Requests, LoginSucceeded(r)
    PROVE  TypeInv'
  <1> DEFINE name == request[r].username
             session == request[r].session
             u == session.user
  <1>1. /\ name \in ThrottleKeys /\ session \in Session
        /\ u \in Users /\ u \in DOMAIN users
    BY Carries DEF TypeInv, SignedInAreUsers, LoginSucceeded, Session
  <1>2. SignsIn(r, u, "Login", session)
    BY DEF LoginSucceeded, SignsIn
  <1>3. failures_by_username' = Throttle!Without(name)
    BY DEF LoginSucceeded
  <1> HIDE DEF name
  <1>4. FailuresTyped'
    BY <1>1, <1>3, FailuresUpdated, TypeParts
  <1> QED  BY <1>1, <1>2, <1>4, SignsInTyped, TypeParts DEF LoginSucceeded, UsersTyped

\* The token that is issued is new, and the request is no longer in flight.
LEMMA IssueTyped ==
    ASSUME TypeInv, NEW r \in Requests, BootstrapIssue(r) \/ LoginIssue(r)
    PROVE  TypeInv'
  <1>1. request[r].at \in IssueAwaits
    BY DEF BootstrapIssue, LoginIssue, IssueAwaits
  <1>2. request[r].session \in Session /\ request[r].session.user \in DOMAIN users
    BY <1>1, Carries DEF TypeInv, SignedInAreUsers, IssueAwaits
  <1>3. /\ Goes(r, Idle) /\ Issue(request[r].session)
        /\ UNCHANGED <<users, audit_log, failures_by_username>>
    BY DEF BootstrapIssue, LoginIssue, Answered
  <1>4. SessionsTyped' /\ issued' = issued + 1
    BY <1>2, <1>3, TypeParts DEF SessionsTyped, Issue
  <1>5. Cardinality(AllIssuing') = Cardinality(AllIssuing) - 1
    BY <1>1, <1>3, IdleFits, AllIssuingStep, TypeParts
  <1>6. issued' >= issued /\ issued' + Cardinality(AllIssuing') <= Len(audit_log')
    BY <1>3, <1>4, <1>5, TypeParts DEF SessionsTyped
  <1> QED  BY <1>3, <1>4, <1>6, IdleFits, StepTyped, TypeParts DEF UsersTyped, FailuresTyped

LEMMA AllowLoginTyped ==
    ASSUME TypeInv, NEW r \in Requests, AllowLogin(r)
    PROVE  TypeInv'
  <1> DEFINE u == request[r].username
             next == [at |-> "login_app", username |-> u]
  <1>1. u \in ThrottleKeys
    BY Carries DEF TypeInv, AllowLogin
  <1>2. Goes(r, next) /\ next \in LoginRequest /\ next.at = "login_app"
    BY <1>1 DEF AllowLogin, LoginRequest
  <1>3. \/ UNCHANGED failures_by_username
        \/ failures_by_username' = Throttle!Without(u)
    BY DEF AllowLogin
  <1> HIDE DEF u, next
  <1>4. FailuresTyped'
    BY <1>1, <1>3, FailuresUpdated, TypeParts
  <1>5. Fits(next) /\ next.at \notin IssueAwaits
    BY <1>2 DEF Fits, IssueAwaits
  <1> QED  BY <1>2, <1>4, <1>5, GoesOnTyped DEF AllowLogin

\* Where `authenticate` leads to, whatever it finds.
LEMMA AuthenticateGoes ==
    ASSUME NEW r, Authenticate(r)
    PROVE  /\ \E next : /\ Goes(r, next) /\ next.at \in {"login_succeeded", "login_failed"}
                        /\ next.username = request[r].username
           /\ UNCHANGED <<users, audit_log, sessions, issued, failures_by_username>>
  <1> DEFINE name == request[r].username
             succeeded(u) == [at |-> "login_succeeded", username |-> name,
                              session |-> [user |-> u, role |-> users[u]]]
             failed == [at |-> "login_failed", username |-> name]
  <1>1. /\ \A u : succeeded(u).at = "login_succeeded" /\ succeeded(u).username = name
        /\ failed.at = "login_failed" /\ failed.username = name
    OBVIOUS
  <1>2. (\E u : Goes(r, succeeded(u))) \/ Goes(r, failed)
    BY DEF Authenticate
  <1> HIDE DEF succeeded, failed
  <1> QED  BY <1>1, <1>2 DEF Authenticate

LEMMA AuthenticateTyped ==
    ASSUME TypeInv, NEW r \in Requests, Authenticate(r)
    PROVE  TypeInv'
  <1> DEFINE name == request[r].username
             session(u) == [user |-> u, role |-> users[u]]
             succeeded(u) ==
               [at |-> "login_succeeded", username |-> name, session |-> session(u)]
             failed == [at |-> "login_failed", username |-> name]
  <1>1. name \in ThrottleKeys
    BY Carries DEF TypeInv, Authenticate
  <1>2. ASSUME NEW u \in UsersNamed(name), Goes(r, succeeded(u))
        PROVE  TypeInv'
    <2>1. u \in DOMAIN users /\ session(u) \in Session /\ session(u).user = u
      BY TypeParts DEF UsersNamed, UsersTyped, Session
    <2> HIDE DEF session
    <2>2. /\ succeeded(u) \in LoginWithSession
          /\ succeeded(u).at = "login_succeeded" /\ succeeded(u).session = session(u)
      BY <1>1, <2>1 DEF LoginWithSession
    <2> HIDE DEF succeeded
    <2>3. Fits(succeeded(u)) /\ succeeded(u).at \notin IssueAwaits
      BY <2>1, <2>2 DEF Fits, IssueAwaits
    <2> QED  BY <1>2, <2>3, GoesOnTyped, TypeParts DEF Authenticate, FailuresTyped
  <1>3. ASSUME Goes(r, failed)
        PROVE  TypeInv'
    <2>1. failed \in LoginRequest /\ failed.at = "login_failed"
      BY <1>1 DEF LoginRequest
    <2> HIDE DEF failed
    <2>2. Fits(failed) /\ failed.at \notin IssueAwaits
      BY <2>1 DEF Fits, IssueAwaits
    <2> QED  BY <1>3, <2>2, GoesOnTyped, TypeParts DEF Authenticate, FailuresTyped
  <1> QED  BY <1>2, <1>3 DEF Authenticate

LEMMA LoginFailedTyped ==
    ASSUME TypeInv, NEW r \in Requests, LoginFailed(r)
    PROVE  TypeInv'
  <1> DEFINE u == request[r].username
  <1>1. u \in ThrottleKeys
    BY Carries DEF TypeInv, LoginFailed
  <1>2. PICK entry \in AuditEntry : Audit(entry)
    BY <1>1 DEF LoginFailed, Entry, AuditEntry
  <1>3. failures_by_username' = Throttle!With(u, Throttle!Counted(Throttle!Current(u)))
    BY DEF LoginFailed
  <1> HIDE DEF u
  <1>4. FailuresTyped'
    BY <1>1, <1>3, FailuresUpdated, TypeParts
  <1> QED  BY <1>2, <1>4, AuditedTyped, TypeParts DEF LoginFailed, UsersTyped

\* The session that is taken out of the map goes on with the request.
LEMMA LogoutRevokeTyped ==
    ASSUME TypeInv, NEW r \in Requests, LogoutRevoke(r)
    PROVE  TypeInv'
  <1> DEFINE token == request[r].token
             session == sessions[token]
  <1>1. token \in DOMAIN sessions /\ session \in Session /\ session.user \in DOMAIN users
    BY TypeParts DEF LogoutRevoke, SessionsTyped
  <1>2. /\ Goes(r, [at |-> "logout_audit", session |-> session])
        /\ sessions' = Restrict(sessions, DOMAIN sessions \ {token})
        /\ UNCHANGED <<users, audit_log, issued, failures_by_username>>
    BY DEF LogoutRevoke
  <1>3. SessionsTyped'
    BY <1>2, TypeParts DEF SessionsTyped, Restrict
  <1> HIDE DEF token, session
  <1>4. PICK next : /\ Goes(r, next) /\ next \in SessionRequest
                    /\ next.at = "logout_audit" /\ next.session.user \in DOMAIN users
    BY <1>1, <1>2 DEF SessionRequest
  <1>5. Fits(next)' /\ next.at \notin IssueAwaits
    BY <1>2, <1>4 DEF Fits, IssueAwaits, SessionRequest, Session
  <1>6. Cardinality(AllIssuing') \in Nat /\ Cardinality(AllIssuing') <= Cardinality(AllIssuing)
    BY <1>4, <1>5, AllIssuingStep, TypeParts
  <1>7. issued' >= issued /\ issued' + Cardinality(AllIssuing') <= Len(audit_log')
    BY <1>2, <1>6, TypeParts DEF SessionsTyped
  <1>8. UsersTyped' /\ FailuresTyped' /\ DOMAIN users \subseteq DOMAIN users'
    BY <1>2, TypeParts DEF UsersTyped, FailuresTyped
  <1>9. audit_log' \in Seq(AuditEntry) /\ Len(audit_log') <= MaxAuditEntries
    BY <1>2, TypeParts
  <1> QED  BY <1>3, <1>4, <1>5, <1>7, <1>8, <1>9, StepTyped

LEMMA LogoutAuditTyped ==
    ASSUME TypeInv, NEW r \in Requests, LogoutAudit(r)
    PROVE  TypeInv'
  <1>1. request[r].session.user \in Users
    BY Carries DEF TypeInv, LogoutAudit, Session
  <1>2. PICK entry \in AuditEntry : Audit(entry)
    BY <1>1 DEF LogoutAudit, Entry, AuditEntry
  <1> QED  BY <1>2, AuditedTyped, TypeParts DEF LogoutAudit, UsersTyped, FailuresTyped

LEMMA AuthorizeCreateUserTyped ==
    ASSUME TypeInv, NEW r \in Requests, AuthorizeCreateUser(r)
    PROVE  TypeInv'
  <1> DEFINE session == sessions[request[r].token]
             next == [at |-> "create_user_app", session |-> session]
  <1>1. session \in Session /\ session.user \in DOMAIN users
    BY TypeParts DEF AuthorizeCreateUser, SessionsTyped
  <1>2. Goes(r, next) \/ Goes(r, Idle)
    BY DEF AuthorizeCreateUser
  <1> HIDE DEF session
  <1>3. next \in SessionRequest /\ next.at = "create_user_app" /\ next.session = session
    BY <1>1 DEF SessionRequest
  <1> HIDE DEF next
  <1>4. Fits(next) /\ next.at \notin IssueAwaits
    BY <1>1, <1>3 DEF Fits, IssueAwaits
  <1> QED  BY <1>2, <1>4, IdleFits, GoesOnTyped, TypeParts DEF AuthorizeCreateUser, FailuresTyped

LEMMA CreateUserTyped ==
    ASSUME TypeInv, NEW r \in Requests, NEW u \in Users, NEW role \in Roles, CreateUser(r, u, role)
    PROVE  TypeInv'
  <1>1. request[r].session.user \in Users
    BY Carries DEF TypeInv, CreateUser, Session
  <1>2. PICK entry \in AuditEntry : Audit(entry)
    BY <1>1 DEF CreateUser, Entry, AuditEntry
  <1>3. UsersTyped' /\ DOMAIN users \subseteq DOMAIN users'
    BY TypeParts DEF CreateUser, UsersTyped
  <1> QED  BY <1>2, <1>3, AuditedTyped, TypeParts DEF CreateUser, FailuresTyped

LEMMA ClockTyped ==
    ASSUME TypeInv, Expire \/ Tick
    PROVE  TypeInv'
  <1>1. UNCHANGED <<users, audit_log, issued, request>>
    BY DEF Expire, Tick
  <1>2. SessionsTyped'
    BY TypeParts DEF Expire, Tick, SessionsTyped, Restrict
  <1>3. FailuresTyped'
    <2>1. CASE Expire
      BY <2>1, TypeParts DEF Expire, FailuresTyped
    <2>2. CASE Tick
      <3>1. CASE ThrottleKeys = {}
        BY <2>2, <3>1, TypeParts DEF Tick, FailuresTyped
      <3>2. CASE ThrottleKeys # {}
        BY <2>2, <3>2, FailuresUpdated, TypeParts
      <3> QED  BY <3>1, <3>2
    <2> QED  BY <2>1, <2>2
  <1>4. Throttle!TypeOK'
    BY <1>3, PendingTyped DEF FailuresTyped, Throttle!TypeOK, Throttle!RecordOf
  <1>5. TypeOK'
    BY <1>1, <1>2, <1>4
       DEF TypeInv, TypeOK, SessionsTyped, TokenRequest, BootstrapRequest, LoginRequest,
           LoginWithSession, SessionRequest, Session
  <1>6. WellFormed' /\ TokensBacked' /\ SignedInAreUsers'
    BY <1>1, <1>2
       DEF TypeInv, WellFormed, TokensBacked, AllIssuing, SignedInAreUsers, SessionsTyped
  <1> QED  BY <1>5, <1>6 DEF TypeInv

LEMMA NextTyped ==
    ASSUME TypeInv, [Next]_vars
    PROVE  TypeInv'
  <1>1. ASSUME NEW r \in Requests, Start(r) \/ Proceed(r) \/ Drop(r)
        PROVE  TypeInv'
    <2>1. CASE Start(r)
      BY <2>1, StartTyped
    <2>2. CASE EndsQuietly(r)
      BY <2>2, EndsQuietlyTyped
    <2>3. CASE RefuseBootstrap(r)
      BY <2>3, RefuseBootstrapTyped
    <2>4. CASE BootstrapAdmin(r)
      BY <2>4, BootstrapAdminTyped
    <2>5. CASE BootstrapIssue(r) \/ LoginIssue(r)
      BY <2>5, IssueTyped
    <2>6. CASE AllowLogin(r)
      BY <2>6, AllowLoginTyped
    <2>7. CASE Authenticate(r)
      BY <2>7, AuthenticateTyped
    <2>8. CASE LoginSucceeded(r)
      BY <2>8, LoginSucceededTyped
    <2>9. CASE LoginFailed(r)
      BY <2>9, LoginFailedTyped
    <2>10. CASE LogoutRevoke(r)
      BY <2>10, LogoutRevokeTyped
    <2>11. CASE LogoutAudit(r)
      BY <2>11, LogoutAuditTyped
    <2>12. CASE AuthorizeCreateUser(r)
      BY <2>12, AuthorizeCreateUserTyped
    <2>13. CASE \E u \in Users, role \in Roles : CreateUser(r, u, role)
      BY <2>13, CreateUserTyped
    <2> QED  BY <1>1, <2>1, <2>2, <2>3, <2>4, <2>5, <2>6, <2>7, <2>8, <2>9, <2>10, <2>11,
                <2>12, <2>13 DEF Proceed, EndsQuietly
  <1>2. CASE Expire \/ Tick
    BY <1>2, ClockTyped
  <1>3. CASE UNCHANGED vars
    <2>1. UNCHANGED <<users, audit_log, sessions, issued, failures_by_username, request>>
      BY <1>3 DEF vars
    <2>2. Throttle!TypeOK'
      BY <2>1, PendingTyped DEF TypeInv, TypeOK, Throttle!TypeOK, Throttle!RecordOf
    <2>3. TypeOK'
      BY <2>1, <2>2
         DEF TypeInv, TypeOK, TokenRequest, BootstrapRequest, LoginRequest,
             LoginWithSession, SessionRequest, Session
    <2>4. WellFormed' /\ TokensBacked' /\ SignedInAreUsers'
      BY <2>1 DEF TypeInv, WellFormed, TokensBacked, AllIssuing, SignedInAreUsers
    <2> QED  BY <2>3, <2>4 DEF TypeInv
  <1> QED  BY <1>1, <1>2, <1>3 DEF Next


-----------------------------------------------------------------------------
(* What is on record of the users and of the successes.                    *)

LogInv == UsersOnRecord /\ NothingBeforeUsers /\ BootstrapComesFirst

\* An entry keeps the log in order when every new user is its target, and when
\* its success rests on users that are there, or is the bootstrap of the first.
LEMMA AuditedLogInv ==
    ASSUME TypeInv, LogInv, NEW entry \in AuditEntry, Audit(entry),
           \A v \in DOMAIN users' :
             \/ v \in DOMAIN users
             \/ /\ entry.target = v /\ entry.outcome = "Success"
                /\ entry.action \in {"BootstrapAdmin", "CreateUser"},
           entry.outcome = "Failure" => users' = users,
           entry.outcome = "Success" =>
             /\ DOMAIN users' # {}
             /\ \/ entry.action = "BootstrapAdmin" /\ users = << >>
                \/ entry.action # "BootstrapAdmin" /\ DOMAIN users # {}
    PROVE  LogInv'
  <1>1. TypeOK
    BY DEF TypeInv
  <1>2. UsersOnRecord'
    <2> SUFFICES ASSUME AuditHasRoom', NEW u \in DOMAIN users'
                 PROVE  \E i \in DOMAIN audit_log' :
                          /\ audit_log'[i].target = u /\ audit_log'[i].outcome = "Success"
                          /\ audit_log'[i].action \in {"BootstrapAdmin", "CreateUser"}
      BY DEF UsersOnRecord
    <2>1. AuditHasRoom
      BY <1>1, Audited
    <2>2. CASE u \in DOMAIN users
      BY <1>1, <2>1, <2>2, Audited DEF LogInv, UsersOnRecord
    <2>3. CASE u \notin DOMAIN users
      BY <1>1, <2>1, <2>3, Audited
    <2> QED  BY <2>2, <2>3
  <1>3. entry.outcome = "Success" \/ entry.outcome = "Failure"
    BY DEF AuditEntry
  <1>4. CASE ~AuditHasRoom
    <2>1. audit_log' = audit_log
      BY <1>1, <1>4, Audited
    <2>2. NothingBeforeUsers'
      BY <1>3, <2>1 DEF LogInv, NothingBeforeUsers
    <2> QED  BY <1>2, <2>1, <2>2 DEF LogInv, BootstrapComesFirst
  <1>5. CASE AuditHasRoom
    <2>1. /\ DOMAIN audit_log' = DOMAIN audit_log \cup {NextEntry}
          /\ DOMAIN audit_log = 1..(NextEntry - 1) /\ NextEntry \in Nat
          /\ audit_log'[NextEntry] = entry
          /\ \A i \in DOMAIN audit_log : audit_log'[i] = audit_log[i]
      <3>1. NextEntry - 1 = Len(audit_log) /\ NextEntry \in Nat
        BY <1>1, Audited DEF NextEntry
      <3> QED  BY <1>1, <1>5, <3>1, Audited
    <2>2. NothingBeforeUsers'
      BY <1>3, <2>1 DEF LogInv, NothingBeforeUsers
    <2>3. entry.outcome = "Success" =>
            (entry.action = "BootstrapAdmin" <=>
               \A j \in 1..(NextEntry - 1) : audit_log[j].outcome = "Failure")
      <3>1. CASE entry.action = "BootstrapAdmin" /\ users = << >>
        BY <2>1, <3>1 DEF LogInv, NothingBeforeUsers
      <3>2. CASE entry.action # "BootstrapAdmin" /\ DOMAIN users # {}
        BY <1>5, <2>1, <3>2 DEF LogInv, UsersOnRecord
      <3> QED  BY <3>1, <3>2
    <2>4. BootstrapComesFirst'
      BY <2>1, <2>3 DEF LogInv, BootstrapComesFirst
    <2> QED  BY <1>2, <2>2, <2>4 DEF LogInv
  <1> QED  BY <1>4, <1>5

LEMMA NextLogInv ==
    ASSUME TypeInv, LogInv, [Next]_vars
    PROVE  LogInv'
  <1>0. ASSUME UNCHANGED <<users, audit_log>>
        PROVE  LogInv'
    BY <1>0 DEF LogInv, UsersOnRecord, AuditHasRoom, NothingBeforeUsers, BootstrapComesFirst
  <1>1. ASSUME NEW r \in Requests, Proceed(r)
        PROVE  LogInv'
    <2> DEFINE admin == request[r].user
               name == request[r].username
               user == request[r].session.user
    <2>1. CASE RefuseBootstrap(r)
      <3>1. admin \in Users
        BY <2>1, Carries DEF TypeInv, RefuseBootstrap
      <3>2. PICK entry \in AuditEntry : Audit(entry) /\ entry.outcome = "Failure"
        BY <2>1, <3>1 DEF RefuseBootstrap, Entry, AuditEntry
      <3> QED  BY <2>1, <3>2, AuditedLogInv DEF RefuseBootstrap
    <2>2. CASE BootstrapAdmin(r)
      <3>1. admin \in Users
        BY <2>2, Carries DEF TypeInv, BootstrapAdmin
      <3>2. PICK entry \in AuditEntry :
              /\ Audit(entry) /\ entry.outcome = "Success"
              /\ entry.action = "BootstrapAdmin" /\ entry.target = admin
        BY <2>2, <3>1 DEF BootstrapAdmin, Entry, AuditEntry
      <3>3. users = << >> /\ DOMAIN users' = {admin}
        BY <2>2 DEF BootstrapAdmin
      <3> QED  BY <3>2, <3>3, AuditedLogInv
    <2>3. CASE LoginSucceeded(r)
      <3>1. user \in Users /\ user \in DOMAIN users
        BY <2>3, Carries DEF TypeInv, SignedInAreUsers, LoginSucceeded, Session
      <3>2. PICK entry \in AuditEntry :
              Audit(entry) /\ entry.outcome = "Success" /\ entry.action = "Login"
        BY <2>3, <3>1 DEF LoginSucceeded, Entry, AuditEntry
      <3> QED  BY <2>3, <3>1, <3>2, AuditedLogInv DEF LoginSucceeded
    <2>4. CASE LoginFailed(r)
      <3>1. name \in ThrottleKeys
        BY <2>4, Carries DEF TypeInv, LoginFailed
      <3>2. PICK entry \in AuditEntry : Audit(entry) /\ entry.outcome = "Failure"
        BY <2>4, <3>1 DEF LoginFailed, Entry, AuditEntry
      <3> QED  BY <2>4, <3>2, AuditedLogInv DEF LoginFailed
    <2>5. CASE LogoutAudit(r)
      <3>1. user \in Users /\ user \in DOMAIN users
        BY <2>5, Carries DEF TypeInv, SignedInAreUsers, LogoutAudit, Session
      <3>2. PICK entry \in AuditEntry :
              Audit(entry) /\ entry.outcome = "Success" /\ entry.action = "Logout"
        BY <2>5, <3>1 DEF LogoutAudit, Entry, AuditEntry
      <3> QED  BY <2>5, <3>1, <3>2, AuditedLogInv DEF LogoutAudit
    <2>6. ASSUME NEW u \in Users, NEW role \in Roles, CreateUser(r, u, role)
          PROVE  LogInv'
      <3>1. user \in Users /\ user \in DOMAIN users
        BY <2>6, Carries DEF TypeInv, SignedInAreUsers, CreateUser, Session
      <3>2. PICK entry \in AuditEntry :
              /\ Audit(entry) /\ entry.outcome = "Success"
              /\ entry.action = "CreateUser" /\ entry.target = u
        BY <2>6, <3>1 DEF CreateUser, Entry, AuditEntry
      <3>3. DOMAIN users' = DOMAIN users \cup {u}
        BY <2>6 DEF CreateUser
      <3> QED  BY <3>1, <3>2, <3>3, AuditedLogInv
    <2>7. CASE \/ BootstrapIssue(r) \/ LoginIssue(r) \/ RefuseLogin(r) \/ AllowLogin(r)
               \/ Authenticate(r) \/ RefuseToken(r) \/ LogoutRevoke(r)
               \/ AuthorizeCreateUser(r) \/ RefuseCreateUser(r)
      BY <1>0, <2>7 DEF BootstrapIssue, LoginIssue, RefuseLogin, AllowLogin, Authenticate,
         RefuseToken, LogoutRevoke, AuthorizeCreateUser, RefuseCreateUser
    <2> QED  BY <1>1, <2>1, <2>2, <2>3, <2>4, <2>5, <2>6, <2>7 DEF Proceed
  <1>2. ASSUME NEW r \in Requests, Start(r) \/ Drop(r)
        PROVE  LogInv'
    BY <1>0, <1>2 DEF Start, StartBootstrap, StartLogin, StartWithToken, Drop
  <1>3. CASE Expire \/ Tick \/ UNCHANGED vars
    BY <1>0, <1>3 DEF Expire, Tick, vars
  <1> QED  BY <1>1, <1>2, <1>3 DEF Next


-----------------------------------------------------------------------------
(* What the throttle counts.                                               *)

\* FailuresOnRecord, by the name of the set it counts.
CountedOnRecord ==
    AuditHasRoom =>
      \A u \in DOMAIN failures_by_username :
        failures_by_username[u].failed_attempts <= Cardinality(FailedLogins(u))

LEMMA CountedOnRecordIs == CountedOnRecord <=> FailuresOnRecord
  BY DEF CountedOnRecord, FailuresOnRecord, FailedLogins

\* A step that audits, and that counts a failure only with its entry.
LEMMA AuditedCounts ==
    ASSUME TypeInv, CountedOnRecord, NEW entry \in AuditEntry, Audit(entry), NEW u \in ThrottleKeys,
           \/ UNCHANGED failures_by_username
           \/ failures_by_username' = Throttle!Without(u)
           \/ /\ failures_by_username' =
                   Throttle!With(u, Throttle!Counted(Throttle!Current(u)))
              /\ entry.action = "Login" /\ entry.target = u /\ entry.outcome = "Failure"
    PROVE  CountedOnRecord'
  <1> SUFFICES ASSUME AuditHasRoom', NEW v \in DOMAIN failures_by_username'
               PROVE  failures_by_username'[v].failed_attempts <= Cardinality(FailedLogins(v)')
    BY DEF CountedOnRecord
  <1>1. AuditHasRoom
    BY Audited DEF TypeInv
  <1>2. v \in DOMAIN failures_by_username =>
          failures_by_username[v].failed_attempts <= Cardinality(FailedLogins(v))
    BY <1>1 DEF CountedOnRecord
  <1> DEFINE attempts == failures_by_username[v].failed_attempts
             attempts2 == failures_by_username'[v].failed_attempts
  <1>3. /\ attempts2 \in Nat
        /\ \/ v \in DOMAIN failures_by_username /\ attempts \in Nat /\ attempts2 = attempts
           \/ /\ v = u
              /\ failures_by_username' = Throttle!With(u, Throttle!Counted(Throttle!Current(u)))
              /\ \/ attempts2 = 1
                 \/ /\ v \in DOMAIN failures_by_username
                    /\ attempts \in Nat /\ attempts2 = attempts + 1
    BY FailuresUpdated, TypeParts
  <1> DEFINE before == Cardinality(FailedLogins(v))
             after  == Cardinality(FailedLogins(v)')
  <1>4. /\ before \in Nat /\ after \in Nat /\ after >= before
        /\ /\ entry.target = v /\ entry.outcome = "Failure" /\ entry.action = "Login"
           => after = before + 1
    <2>1. /\ before \in Nat /\ after >= before
          /\ /\ entry.target = v /\ entry.outcome = "Failure" /\ entry.action = "Login"
             => after = before + 1
      BY <1>1, FailedLoginsAudited DEF TypeInv
    <2>2. after \in Nat
      <3> DEFINE T == FailedLogins(v)'
      <3>1. T \subseteq DOMAIN audit_log' /\ IsFiniteSet(DOMAIN audit_log')
        <4>1. DOMAIN audit_log' = 1..Len(audit_log') /\ Len(audit_log') \in Int
          BY Audited DEF TypeInv
        <4>2. IsFiniteSet(1..Len(audit_log'))
          BY <4>1, FS_Interval
        <4> QED  BY <4>1, <4>2 DEF FailedLogins
      <3> HIDE DEF T
      <3>2. Cardinality(T) \in Nat
        BY <3>1, CountShrinks
      <3> QED  BY <3>2 DEF T
    <2> QED  BY <2>1, <2>2
  <1> HIDE DEF attempts, attempts2, before, after
  <1>5. v \in DOMAIN failures_by_username => attempts <= before
    BY <1>2 DEF attempts, before
  <1>6. CASE v \in DOMAIN failures_by_username /\ attempts \in Nat /\ attempts2 = attempts
    <2>1. attempts2 <= after
      BY <1>4, <1>5, <1>6
    <2> QED  BY <2>1 DEF attempts2, after
  <1>7. CASE /\ v = u
             /\ failures_by_username' = Throttle!With(u, Throttle!Counted(Throttle!Current(u)))
             /\ \/ attempts2 = 1
                \/ /\ v \in DOMAIN failures_by_username
                   /\ attempts \in Nat /\ attempts2 = attempts + 1
    <2>1. CASE entry.target = u /\ entry.outcome = "Failure" /\ entry.action = "Login"
      <3>1. attempts2 <= after
        BY <1>4, <1>5, <1>7, <2>1
      <3> QED  BY <3>1 DEF attempts2, after
    <2>2. CASE ~(entry.target = u /\ entry.outcome = "Failure" /\ entry.action = "Login")
      <3>1. u \in DOMAIN failures_by_username' /\ attempts2 = attempts /\ attempts \in Nat
            /\ u \in DOMAIN failures_by_username
        BY <1>7, <2>2, TypeParts
           DEF attempts, attempts2, Throttle!Without, FailuresTyped, Throttle!FailedLoginRecord
      <3>2. attempts2 <= after
        BY <1>4, <1>5, <1>7, <3>1
      <3> QED  BY <3>2 DEF attempts2, after
    <2> QED  BY <2>1, <2>2
  <1> QED  BY <1>3, <1>6, <1>7 DEF attempts, attempts2

\* A step that audits and has nothing to do with the throttle.
LEMMA AuditedOtherwise ==
    ASSUME TypeInv, CountedOnRecord, NEW entry \in AuditEntry, Audit(entry),
           UNCHANGED failures_by_username
    PROVE  CountedOnRecord'
  <1>1. CASE ThrottleKeys = {}
    <2>1. DOMAIN failures_by_username' = {}
      BY <1>1, TypeParts DEF FailuresTyped
    <2> QED  BY <2>1 DEF CountedOnRecord
  <1>2. CASE ThrottleKeys # {}
    BY <1>2, AuditedCounts
  <1> QED  BY <1>1, <1>2

\* A step that leaves the log, and counts nothing.
LEMMA QuietCounts ==
    ASSUME TypeInv, CountedOnRecord, UNCHANGED audit_log,
           \/ UNCHANGED failures_by_username
           \/ \E u \in ThrottleKeys : failures_by_username' = Throttle!Without(u)
           \/ Tick
    PROVE  CountedOnRecord'
  <1>1. \A v \in DOMAIN failures_by_username' :
          /\ v \in DOMAIN failures_by_username
          /\ failures_by_username'[v].failed_attempts =
               failures_by_username[v].failed_attempts
    <2>1. CASE UNCHANGED failures_by_username
      BY <2>1
    <2>2. CASE \E u \in ThrottleKeys : failures_by_username' = Throttle!Without(u)
      BY <2>2 DEF Throttle!Without
    <2>3. CASE Tick
      BY <2>3, OlderTyped, TypeParts DEF Tick, FailuresTyped
    <2> QED  BY <2>1, <2>2, <2>3
  <1> QED  BY <1>1 DEF CountedOnRecord, FailedLogins, AuditHasRoom

LEMMA NextCountedOnRecord ==
    ASSUME TypeInv, CountedOnRecord, [Next]_vars
    PROVE  CountedOnRecord'
  <1>1. ASSUME NEW r \in Requests, Proceed(r)
        PROVE  CountedOnRecord'
    <2> DEFINE admin == request[r].user
               name == request[r].username
               user == request[r].session.user
    <2>1. CASE RefuseBootstrap(r) \/ BootstrapAdmin(r)
      <3>1. admin \in Users
        BY <2>1, Carries DEF TypeInv, RefuseBootstrap, BootstrapAdmin
      <3>2. PICK entry \in AuditEntry : Audit(entry)
        BY <2>1, <3>1 DEF RefuseBootstrap, BootstrapAdmin, Entry, AuditEntry
      <3> QED  BY <2>1, <3>2, AuditedOtherwise DEF RefuseBootstrap, BootstrapAdmin
    <2>2. CASE LoginSucceeded(r)
      <3>1. name \in ThrottleKeys /\ user \in Users
        BY <2>2, Carries DEF TypeInv, LoginSucceeded, Session
      <3>2. PICK entry \in AuditEntry : Audit(entry)
        BY <2>2, <3>1 DEF LoginSucceeded, Entry, AuditEntry
      <3> QED  BY <2>2, <3>1, <3>2, AuditedCounts DEF LoginSucceeded
    <2>3. CASE LoginFailed(r)
      <3>1. name \in ThrottleKeys
        BY <2>3, Carries DEF TypeInv, LoginFailed
      <3>2. PICK entry \in AuditEntry :
              /\ Audit(entry) /\ entry.outcome = "Failure"
              /\ entry.action = "Login" /\ entry.target = name
        BY <2>3, <3>1 DEF LoginFailed, Entry, AuditEntry
      <3> QED  BY <2>3, <3>1, <3>2, AuditedCounts DEF LoginFailed
    <2>4. CASE LogoutAudit(r) \/ \E u \in Users, role \in Roles : CreateUser(r, u, role)
      <3>1. user \in Users
        BY <2>4, Carries DEF TypeInv, LogoutAudit, CreateUser, Session
      <3>2. PICK entry \in AuditEntry : Audit(entry)
        BY <2>4, <3>1 DEF LogoutAudit, CreateUser, Entry, AuditEntry
      <3> QED  BY <2>4, <3>2, AuditedOtherwise DEF LogoutAudit, CreateUser
    <2>5. CASE AllowLogin(r)
      <3>1. name \in ThrottleKeys
        BY <2>5, Carries DEF TypeInv, AllowLogin
      <3> QED  BY <2>5, <3>1, QuietCounts DEF AllowLogin
    <2>6. CASE \/ BootstrapIssue(r) \/ LoginIssue(r) \/ RefuseLogin(r)
               \/ Authenticate(r) \/ RefuseToken(r) \/ LogoutRevoke(r)
               \/ AuthorizeCreateUser(r) \/ RefuseCreateUser(r)
      BY <2>6, QuietCounts DEF BootstrapIssue, LoginIssue, RefuseLogin, Authenticate,
         RefuseToken, LogoutRevoke, AuthorizeCreateUser, RefuseCreateUser
    <2> QED  BY <1>1, <2>1, <2>2, <2>3, <2>4, <2>5, <2>6 DEF Proceed
  <1>2. ASSUME NEW r \in Requests, Start(r) \/ Drop(r)
        PROVE  CountedOnRecord'
    BY <1>2, QuietCounts DEF Start, StartBootstrap, StartLogin, StartWithToken, Drop
  <1>3. CASE Expire \/ Tick \/ UNCHANGED vars
    BY <1>3, QuietCounts DEF Expire, Tick, vars
  <1> QED  BY <1>1, <1>2, <1>3 DEF Next


-----------------------------------------------------------------------------
(* The sessions.                                                           *)

\* SessionsBacked for one user.
Backed(u) ==
    Cardinality(SessionsOf(u)) + Cardinality(Issuing(u))
      + Cardinality(LoggingOut(u)) + Cardinality(SignOuts(u))
        <= Cardinality(SignIns(u))

\* All that is added up is a number.
LEMMA Numbers ==
    ASSUME TypeInv, NEW u
    PROVE  /\ Cardinality(SessionsOf(u)) \in Nat /\ Cardinality(Issuing(u)) \in Nat
           /\ Cardinality(LoggingOut(u)) \in Nat
           /\ Cardinality(SignOuts(u)) \in Nat /\ Cardinality(SignIns(u)) \in Nat
  BY SessionsFinite, InFlightFinite, LogSetsFinite, FS_CardinalityType DEF TypeInv

\* A request that goes on to where it takes nothing in flight.
LEMMA QuietBacked ==
    ASSUME TypeInv, NEW u, Backed(u), NEW r \in Requests, NEW next, Goes(r, next),
           next.at \notin IssueAwaits, next.at # "logout_audit",
           UNCHANGED <<sessions, audit_log>>
    PROVE  Backed(u)'
  <1>1. /\ Cardinality(Issuing(u)') \in Nat
        /\ Cardinality(Issuing(u)') <= Cardinality(Issuing(u))
    BY IssuingStep, TypeParts
  <1>2. /\ Cardinality(LoggingOut(u)') \in Nat
        /\ Cardinality(LoggingOut(u)') <= Cardinality(LoggingOut(u))
    BY LoggingOutStep, TypeParts
  <1>3. SessionsOf(u)' = SessionsOf(u) /\ SignOuts(u)' = SignOuts(u) /\ SignIns(u)' = SignIns(u)
    BY DEF SessionsOf, SignOuts, SignIns
  <1> QED  BY <1>1, <1>2, <1>3, Numbers DEF Backed

\* A request that is answered after an entry that signs nobody out.
LEMMA AuditedBacked ==
    ASSUME TypeInv, NEW u, Backed(u), NEW r \in Requests, Answered(r),
           NEW entry \in AuditEntry, Audit(entry), entry.action # "Logout",
           UNCHANGED sessions
    PROVE  Backed(u)'
  <1>1. /\ Cardinality(Issuing(u)') \in Nat
        /\ Cardinality(Issuing(u)') <= Cardinality(Issuing(u))
    BY IssuingStep, IdleFits, TypeParts DEF Answered
  <1>2. /\ Cardinality(LoggingOut(u)') \in Nat
        /\ Cardinality(LoggingOut(u)') <= Cardinality(LoggingOut(u))
    BY LoggingOutStep, IdleFits, TypeParts DEF Answered
  <1>3. Cardinality(SignOuts(u)') = Cardinality(SignOuts(u))
    BY SignOutsAudited DEF TypeInv
  <1>4. Cardinality(SignIns(u)') \in Nat /\ Cardinality(SignIns(u)') >= Cardinality(SignIns(u))
    BY SignInsAudited, Numbers DEF TypeInv
  <1>5. SessionsOf(u)' = SessionsOf(u)
    BY DEF SessionsOf
  <1> QED  BY <1>1, <1>2, <1>3, <1>4, <1>5, Numbers DEF Backed

\* A sign-in is on record before its session is in flight.
LEMMA SignsInBacked ==
    ASSUME TypeInv, NEW u, Backed(u), NEW r \in Requests, NEW name \in Users,
           NEW session \in Session, NEW action \in {"BootstrapAdmin", "Login"},
           session.user = name, SignsIn(r, name, action, session)
    PROVE  Backed(u)'
  <1>1. PICK entry \in AuditEntry :
          /\ Audit(entry) /\ entry.actor = name /\ entry.action = action
          /\ entry.outcome = "Success"
    BY DEF SignsIn, Entry, AuditEntry
  <1>2. CASE ~AuditHasRoom
    <2>1. Answered(r) /\ entry.action # "Logout"
      BY <1>1, <1>2 DEF SignsIn, Answered
    <2> QED  BY <1>1, <2>1, AuditedBacked DEF SignsIn
  <1>3. CASE AuditHasRoom
    <2>1. PICK next : /\ Goes(r, next) /\ next.session = session
                      /\ next.at \in IssueAwaits /\ next.at # "logout_audit"
      BY <1>3 DEF SignsIn, IssueAwaits
    <2>2. /\ Cardinality(Issuing(u)') \in Nat
          /\ Cardinality(Issuing(u)') <= Cardinality(Issuing(u)) + 1
          /\ name # u => Cardinality(Issuing(u)') <= Cardinality(Issuing(u))
      BY <2>1, IssuingStep, TypeParts
    <2>3. /\ Cardinality(LoggingOut(u)') \in Nat
          /\ Cardinality(LoggingOut(u)') <= Cardinality(LoggingOut(u))
      BY <2>1, LoggingOutStep, TypeParts
    <2>4. Cardinality(SignOuts(u)') = Cardinality(SignOuts(u))
      BY <1>1, SignOutsAudited DEF TypeInv
    <2>5. Cardinality(SignIns(u)') =
            IF name = u THEN Cardinality(SignIns(u)) + 1 ELSE Cardinality(SignIns(u))
      BY <1>1, <1>3, SignInsAudited DEF TypeInv
    <2>6. SessionsOf(u)' = SessionsOf(u)
      BY DEF SignsIn, SessionsOf
    <2> QED  BY <2>2, <2>3, <2>4, <2>5, <2>6, Numbers DEF Backed
  <1> QED  BY <1>2, <1>3

\* The session that was in flight is stored.
LEMMA IssueBacked ==
    ASSUME TypeInv, NEW u, Backed(u), NEW r \in Requests, BootstrapIssue(r) \/ LoginIssue(r)
    PROVE  Backed(u)'
  <1> DEFINE session == request[r].session
             S == SessionsOf(u)
             T == SessionsOf(u)'
  <1>1. request[r].at \in IssueAwaits /\ Goes(r, Idle) /\ UNCHANGED audit_log
    BY DEF BootstrapIssue, LoginIssue, IssueAwaits, Answered
  <1>2. /\ Cardinality(Issuing(u)') \in Nat
        /\ Cardinality(Issuing(u)') <= Cardinality(Issuing(u))
        /\ session.user = u => Cardinality(Issuing(u)') = Cardinality(Issuing(u)) - 1
    BY <1>1, IssuingStep, IdleFits, TypeParts
  <1>3. /\ Cardinality(LoggingOut(u)') \in Nat
        /\ Cardinality(LoggingOut(u)') <= Cardinality(LoggingOut(u))
    BY <1>1, LoggingOutStep, IdleFits, TypeParts
  <1>4. Cardinality(T) =
          IF session.user = u THEN Cardinality(S) + 1 ELSE Cardinality(S)
    <2>1. /\ issued + 1 \notin DOMAIN sessions
          /\ DOMAIN sessions' = DOMAIN sessions \cup {issued + 1}
          /\ sessions'[issued + 1] = session
          /\ \A t \in DOMAIN sessions : sessions'[t] = sessions[t]
      BY TypeParts DEF BootstrapIssue, LoginIssue, Issue, SessionsTyped
    <2>2. issued + 1 \notin S /\ T = IF session.user = u THEN S \cup {issued + 1} ELSE S
      BY <2>1 DEF SessionsOf
    <2>3. IsFiniteSet(S) /\ Cardinality(S) \in Nat
      BY SessionsFinite DEF TypeInv
    <2> HIDE DEF S, T, session
    <2> QED  BY <2>2, <2>3, CountGains
  <1>5. SignOuts(u)' = SignOuts(u) /\ SignIns(u)' = SignIns(u)
    BY <1>1 DEF SignOuts, SignIns
  <1> QED  BY <1>2, <1>3, <1>4, <1>5, Numbers DEF Backed

\* A session that is taken out of the map, and no other.
LEMMA SessionsLose ==
    ASSUME TypeInv, NEW u, NEW token \in DOMAIN sessions,
           sessions' = Restrict(sessions, DOMAIN sessions \ {token})
    PROVE  /\ Cardinality(SessionsOf(u)') \in Nat
           /\ Cardinality(SessionsOf(u)') <= Cardinality(SessionsOf(u))
           /\ sessions[token].user = u =>
                Cardinality(SessionsOf(u)') = Cardinality(SessionsOf(u)) - 1
  <1> DEFINE S == SessionsOf(u)
             T == SessionsOf(u)'
  <1>1. T = S \ {token} /\ (sessions[token].user = u => token \in S)
    BY DEF SessionsOf, Restrict
  <1>2. IsFiniteSet(S)
    BY SessionsFinite DEF TypeInv
  <1> HIDE DEF S, T
  <1>3. /\ Cardinality(T) \in Nat /\ Cardinality(T) <= Cardinality(S)
        /\ sessions[token].user = u => Cardinality(T) = Cardinality(S) - 1
    BY <1>1, <1>2, CountShrinks, CountLoses
  <1> QED  BY <1>3 DEF S, T

\* A session that is signed out is in flight until it is on record.
LEMMA LogoutRevokeBacked ==
    ASSUME TypeInv, NEW u, Backed(u), NEW r \in Requests, LogoutRevoke(r)
    PROVE  Backed(u)'
  <1> DEFINE token == request[r].token
  <1>1. PICK next : /\ Goes(r, next) /\ next.session = sessions[token]
                    /\ next.at = "logout_audit" /\ next.at \notin IssueAwaits
    BY DEF LogoutRevoke, IssueAwaits
  <1>2. /\ token \in DOMAIN sessions /\ UNCHANGED audit_log
        /\ sessions' = Restrict(sessions, DOMAIN sessions \ {token})
    BY DEF LogoutRevoke
  <1> DEFINE session == sessions[token]
  <1>3. /\ Cardinality(SessionsOf(u)') \in Nat
        /\ Cardinality(SessionsOf(u)') <= Cardinality(SessionsOf(u))
        /\ session.user = u =>
             Cardinality(SessionsOf(u)') = Cardinality(SessionsOf(u)) - 1
    BY <1>2, SessionsLose
  <1>4. /\ Cardinality(Issuing(u)') \in Nat
        /\ Cardinality(Issuing(u)') <= Cardinality(Issuing(u))
    BY <1>1, IssuingStep, TypeParts
  <1>5. /\ Cardinality(LoggingOut(u)') \in Nat
        /\ Cardinality(LoggingOut(u)') <= Cardinality(LoggingOut(u)) + 1
        /\ session.user # u => Cardinality(LoggingOut(u)') <= Cardinality(LoggingOut(u))
    BY <1>1, LoggingOutStep, TypeParts
  <1>6. SignOuts(u)' = SignOuts(u) /\ SignIns(u)' = SignIns(u)
    BY <1>2 DEF SignOuts, SignIns
  <1> HIDE DEF token, session
  <1> QED  BY <1>3, <1>4, <1>5, <1>6, Numbers DEF Backed

LEMMA LogoutAuditBacked ==
    ASSUME TypeInv, NEW u, Backed(u), NEW r \in Requests, LogoutAudit(r)
    PROVE  Backed(u)'
  <1> DEFINE user == request[r].session.user
  <1>1. user \in Users
    BY Carries DEF TypeInv, LogoutAudit, Session
  <1>2. PICK entry \in AuditEntry :
          Audit(entry) /\ entry.actor = user /\ entry.action = "Logout"
    BY <1>1 DEF LogoutAudit, Entry, AuditEntry
  <1>3. /\ Cardinality(Issuing(u)') \in Nat
        /\ Cardinality(Issuing(u)') <= Cardinality(Issuing(u))
    BY IssuingStep, IdleFits, TypeParts DEF LogoutAudit, Answered
  <1>4. /\ Cardinality(LoggingOut(u)') \in Nat
        /\ Cardinality(LoggingOut(u)') <= Cardinality(LoggingOut(u))
        /\ user = u => Cardinality(LoggingOut(u)') = Cardinality(LoggingOut(u)) - 1
    BY LoggingOutStep, IdleFits, TypeParts DEF LogoutAudit, Answered
  <1>5. /\ Cardinality(SignOuts(u)') \in Nat
        /\ Cardinality(SignOuts(u)') <= Cardinality(SignOuts(u)) + 1
        /\ user # u => Cardinality(SignOuts(u)') = Cardinality(SignOuts(u))
    BY <1>2, SignOutsAudited DEF TypeInv
  <1>6. Cardinality(SignIns(u)') = Cardinality(SignIns(u))
    BY <1>2, SignInsAudited DEF TypeInv
  <1>7. SessionsOf(u)' = SessionsOf(u)
    BY DEF LogoutAudit, SessionsOf
  <1> HIDE DEF user
  <1> QED  BY <1>3, <1>4, <1>5, <1>6, <1>7, Numbers DEF Backed

LEMMA ClockBacked ==
    ASSUME TypeInv, NEW u, Backed(u), Expire \/ Tick \/ UNCHANGED vars
    PROVE  Backed(u)'
  <1>1. UNCHANGED <<audit_log, request>>
    BY DEF Expire, Tick, vars
  <1>2. /\ Issuing(u)' = Issuing(u) /\ LoggingOut(u)' = LoggingOut(u)
        /\ SignOuts(u)' = SignOuts(u) /\ SignIns(u)' = SignIns(u)
    BY <1>1 DEF Issuing, LoggingOut, SignOuts, SignIns
  <1>3. /\ Cardinality(SessionsOf(u)') \in Nat
        /\ Cardinality(SessionsOf(u)') <= Cardinality(SessionsOf(u))
    <2>1. CASE Expire
      BY <2>1, SessionsLose DEF Expire
    <2>2. CASE UNCHANGED sessions
      <3>1. SessionsOf(u)' = SessionsOf(u)
        BY <2>2 DEF SessionsOf
      <3> QED  BY <3>1, Numbers
    <2> QED  BY <2>1, <2>2 DEF Tick, vars
  <1> QED  BY <1>2, <1>3, Numbers DEF Backed

LEMMA NextBacked ==
    ASSUME TypeInv, NEW u, Backed(u), [Next]_vars
    PROVE  Backed(u)'
  <1>1. ASSUME NEW r \in Requests, Start(r)
        PROVE  Backed(u)'
    <2>1. PICK next : /\ Goes(r, next) /\ UNCHANGED <<sessions, audit_log>>
                      /\ next.at \notin IssueAwaits /\ next.at # "logout_audit"
      <3>1. CASE \/ \E v \in Users : StartBootstrap(r, v)
                 \/ \E n \in Spellings : StartLogin(r, n)
        BY <3>1, StartsWithoutToken DEF IssueAwaits
      <3>2. ASSUME NEW token \in 1..issued, NEW handler \in {"logout", "create_user"},
                   StartWithToken(r, handler, token)
            PROVE  \E next : /\ Goes(r, next) /\ UNCHANGED <<sessions, audit_log>>
                             /\ next.at \notin IssueAwaits /\ next.at # "logout_audit"
        <4> DEFINE next == [at |-> handler, token |-> token]
        <4>1. next.at \notin IssueAwaits /\ next.at # "logout_audit"
          BY DEF IssueAwaits
        <4>2. Goes(r, next) /\ UNCHANGED <<sessions, audit_log>>
          BY <3>2 DEF StartWithToken
        <4> HIDE DEF next
        <4> QED  BY <4>1, <4>2
      <3> QED  BY <1>1, <3>1, <3>2 DEF Start
    <2> QED  BY <2>1, QuietBacked
  <1>2. ASSUME NEW r \in Requests, Proceed(r) \/ Drop(r)
        PROVE  Backed(u)'
    <2> DEFINE admin == request[r].user
               name == request[r].username
               user == request[r].session.user
    <2>1. CASE EndsQuietly(r)
      <3>1. Goes(r, Idle) /\ UNCHANGED <<sessions, audit_log>>
        BY <2>1 DEF EndsQuietly, RefuseLogin, RefuseToken, RefuseCreateUser, Drop, Answered
      <3> QED  BY <3>1, IdleFits, QuietBacked
    <2>2. CASE RefuseBootstrap(r)
      <3>1. admin \in Users
        BY <2>2, Carries DEF TypeInv, RefuseBootstrap
      <3>2. PICK entry \in AuditEntry : Audit(entry) /\ entry.action # "Logout"
        BY <2>2, <3>1 DEF RefuseBootstrap, Entry, AuditEntry
      <3> QED  BY <2>2, <3>2, AuditedBacked DEF RefuseBootstrap
    <2>3. CASE BootstrapAdmin(r)
      <3> DEFINE session == [user |-> admin, role |-> "Admin"]
      <3>1. admin \in Users
        BY <2>3, Carries DEF TypeInv, BootstrapAdmin
      <3>2. session \in Session /\ session.user = admin
        BY <3>1 DEF Session, Roles
      <3>3. SignsIn(r, admin, "BootstrapAdmin", session)
        BY <2>3 DEF BootstrapAdmin, SignsIn
      <3> HIDE DEF session
      <3> QED  BY <3>1, <3>2, <3>3, SignsInBacked
    <2>4. CASE LoginSucceeded(r)
      <3>1. user \in Users /\ request[r].session \in Session
        BY <2>4, Carries DEF TypeInv, LoginSucceeded, Session
      <3>2. SignsIn(r, user, "Login", request[r].session)
        BY <2>4 DEF LoginSucceeded, SignsIn
      <3> QED  BY <3>1, <3>2, SignsInBacked
    <2>5. CASE BootstrapIssue(r) \/ LoginIssue(r)
      BY <2>5, IssueBacked
    <2>6. CASE AllowLogin(r) \/ Authenticate(r) \/ AuthorizeCreateUser(r)
      <3>1. PICK next : /\ Goes(r, next) /\ UNCHANGED <<sessions, audit_log>>
                        /\ next.at \notin IssueAwaits /\ next.at # "logout_audit"
        <4>1. CASE AllowLogin(r)
          BY <4>1 DEF AllowLogin, IssueAwaits
        <4>2. CASE Authenticate(r)
          BY <4>2, AuthenticateGoes DEF IssueAwaits
        <4>3. CASE AuthorizeCreateUser(r)
          BY <4>3 DEF AuthorizeCreateUser, IssueAwaits, Idle
        <4> QED  BY <2>6, <4>1, <4>2, <4>3
      <3> QED  BY <3>1, QuietBacked
    <2>7. CASE LoginFailed(r)
      <3>1. name \in ThrottleKeys
        BY <2>7, Carries DEF TypeInv, LoginFailed
      <3>2. PICK entry \in AuditEntry : Audit(entry) /\ entry.action # "Logout"
        BY <2>7, <3>1 DEF LoginFailed, Entry, AuditEntry
      <3> QED  BY <2>7, <3>2, AuditedBacked DEF LoginFailed
    <2>8. CASE LogoutRevoke(r)
      BY <2>8, LogoutRevokeBacked
    <2>9. CASE LogoutAudit(r)
      BY <2>9, LogoutAuditBacked
    <2>10. CASE \E v \in Users, role \in Roles : CreateUser(r, v, role)
      <3>1. user \in Users
        BY <2>10, Carries DEF TypeInv, CreateUser, Session
      <3>2. PICK entry \in AuditEntry : Audit(entry) /\ entry.action # "Logout"
        BY <2>10, <3>1 DEF CreateUser, Entry, AuditEntry
      <3> QED  BY <2>10, <3>2, AuditedBacked DEF CreateUser
    <2> QED  BY <1>2, <2>1, <2>2, <2>3, <2>4, <2>5, <2>6, <2>7, <2>8, <2>9, <2>10
             DEF Proceed, EndsQuietly
  <1>3. CASE Expire \/ Tick \/ UNCHANGED vars
    BY <1>3, ClockBacked
  <1> QED  BY <1>1, <1>2, <1>3 DEF Next

-----------------------------------------------------------------------------
(* The theorems.                                                           *)

\* Before the first request the invariant holds.
LEMMA InitIInv == Init => IInv
  <1> SUFFICES ASSUME Init PROVE IInv
    OBVIOUS
  <1>1. /\ AllIssuing = {} /\ WellFormed
        /\ \A u : Issuing(u) = {} /\ LoggingOut(u) = {} /\ SessionsOf(u) = {} /\ SignOuts(u) = {}
    BY DEF Init, Idle, AllIssuing, Issuing, LoggingOut, SessionsOf, SignOuts, WellFormed
  <1>2. Cardinality({}) = 0
    BY FS_EmptySet
  <1>3. pending \in [ThrottleKeys -> 0..Cardinality(Requests)]
    <2>1. \A u \in ThrottleKeys :
            {r \in Requests :
               /\ request[r].at \in {"login_app", "login_succeeded", "login_failed"}
               /\ request[r].username = u} = {}
      BY DEF Init, Idle
    <2>2. 0 \in 0..Cardinality(Requests)
      BY AuthAssumption, FS_CardinalityType
    <2> QED  BY <1>2, <2>1, <2>2 DEF pending
  <1>4. TypeOK
    BY <1>3, AuthAssumption DEF Init, TypeOK, Throttle!TypeOK
  <1>5. TypeInv
    BY <1>1, <1>2, <1>4 DEF Init, Idle, TypeInv, TokensBacked, SignedInAreUsers
  <1>6. SessionsBacked
    <2>1. \A u : Cardinality(SignIns(u)) \in Nat
      BY <1>5, Numbers
    <2> QED  BY <1>1, <1>2, <2>1 DEF SessionsBacked
  <1>7. UsersOnRecord /\ NothingBeforeUsers /\ BootstrapComesFirst /\ FailuresOnRecord
    BY DEF Init, UsersOnRecord, NothingBeforeUsers, BootstrapComesFirst, FailuresOnRecord
  <1> QED  BY <1>5, <1>6, <1>7 DEF IInv

LEMMA NextIInv == IInv /\ [Next]_vars => IInv'
  <1> SUFFICES ASSUME IInv, [Next]_vars PROVE IInv'
    OBVIOUS
  <1>1. TypeInv'
    BY NextTyped DEF IInv
  <1>2. LogInv'
    BY NextLogInv DEF IInv, LogInv
  <1>3. FailuresOnRecord'
    BY NextCountedOnRecord, CountedOnRecordIs, PTL DEF IInv
  <1>4. ASSUME NEW u \in Users
        PROVE  Backed(u)'
    BY NextBacked DEF IInv, SessionsBacked, Backed
  <1>5. SessionsBacked'
    BY <1>4 DEF SessionsBacked, Backed
  <1> QED  BY <1>1, <1>2, <1>3, <1>5 DEF IInv, LogInv

\* Every part of the server's state stays what it is taken for, whatever the
\* requests interleave.
THEOREM TypeCorrect == Spec => []TypeOK
  <1>1. IInv => TypeOK
    BY DEF IInv, TypeInv
  <1> QED  BY <1>1, InitIInv, NextIInv, PTL DEF Spec

\* The invariant that the theorems rest on.
THEOREM AuthInvariant == Spec => []IInv
  BY InitIInv, NextIInv, PTL DEF Spec

\* `issue`, `logout` and the drop of a request at any await: the sessions that
\* are stored or were signed out never exceed the sign-ins on record.
THEOREM SessionsAreBacked == Spec => []SessionsAccountedFor
  <1>1. IInv => SessionsAccountedFor
    <2> SUFFICES ASSUME IInv, NEW u \in Users
                 PROVE  Cardinality(SessionsOf(u)) + Cardinality(SignOuts(u))
                          <= Cardinality(SignIns(u))
      BY DEF SessionsAccountedFor
    <2> QED  BY Numbers DEF IInv, SessionsBacked
  <1> QED  BY <1>1, InitIInv, NextIInv, PTL DEF Spec

\* `bootstrap_admin` and `create_user` under the guard of app: whoever is a
\* user has an audited creation.
THEOREM UsersAreOnRecord == Spec => []UsersOnRecord
  <1>1. IInv => UsersOnRecord
    BY DEF IInv
  <1> QED  BY <1>1, InitIInv, NextIInv, PTL DEF Spec

\* `bootstrap_admin`: however many race for an empty server, one succeeds, and
\* nothing else succeeds before it.
THEOREM BootstrapIsFirst == Spec => []BootstrapComesFirst
  <1>1. IInv => BootstrapComesFirst
    BY DEF IInv
  <1> QED  BY <1>1, InitIInv, NextIInv, PTL DEF Spec

\* `login`: a failure is counted only together with its audit entry.
THEOREM FailuresAreOnRecord == Spec => []FailuresOnRecord
  <1>1. IInv => FailuresOnRecord
    BY DEF IInv
  <1> QED  BY <1>1, InitIInv, NextIInv, PTL DEF Spec

-----------------------------------------------------------------------------
(* The server uses its throttle as LoginThrottle says.                     *)

PendingAwaits == {"login_app", "login_succeeded", "login_failed"}

Pending(u) ==
    {r \in Requests : request[r].at \in PendingAwaits /\ request[r].username = u}

LEMMA PendingCounts ==
    /\ pending = [u \in ThrottleKeys |-> Cardinality(Pending(u))]
    /\ pending' = [u \in ThrottleKeys |-> Cardinality(Pending(u)')]
    /\ \A u : IsFiniteSet(Pending(u)) /\ Cardinality(Pending(u)) \in Nat
  <1>1. \A u : Pending(u) \subseteq Requests
    BY DEF Pending
  <1>2. \A u : IsFiniteSet(Pending(u)) /\ Cardinality(Pending(u)) \in Nat
    BY <1>1, AuthAssumption, CountShrinks
  <1> QED  BY <1>2 DEF pending, Pending, PendingAwaits

\* A login stays let through: no request joins or leaves those of a username.
LEMMA PendingStays ==
    ASSUME WellFormed, NEW r \in Requests, NEW next, Goes(r, next),
           \A u \in ThrottleKeys :
             next.at \in PendingAwaits /\ next.username = u <=>
               request[r].at \in PendingAwaits /\ request[r].username = u
    PROVE  pending' = pending
  <1>1. \A u \in ThrottleKeys : Pending(u)' = Pending(u)
    BY OthersStay DEF Pending
  <1> QED  BY <1>1, PendingCounts

\* A login that is let through joins, and there is a request for every login.
LEMMA PendingGains ==
    ASSUME WellFormed, NEW r \in Requests, NEW next, Goes(r, next), NEW name \in ThrottleKeys,
           next.at \in PendingAwaits, next.username = name,
           request[r].at \notin PendingAwaits
    PROVE  /\ pending' = [pending EXCEPT ![name] = @ + 1]
           /\ pending[name] < Cardinality(Requests)
  <1>1. /\ request'[r] = next
        /\ \A s \in Requests \ {r} : request'[s] = request[s]
    BY OthersStay
  <1>2. \A u \in ThrottleKeys \ {name} : Pending(u)' = Pending(u)
    BY <1>1 DEF Pending
  <1> DEFINE S == Pending(name)
             T == Pending(name)'
  <1>3. r \notin S /\ T = S \cup {r} /\ T \subseteq Requests
    BY <1>1 DEF Pending
  <1>4. IsFiniteSet(S)
    BY PendingCounts
  <1> HIDE DEF S, T
  <1>5. /\ Cardinality(T) = Cardinality(S) + 1
        /\ Cardinality(T) <= Cardinality(Requests)
        /\ Cardinality(S) \in Nat /\ Cardinality(Requests) \in Nat
    BY <1>3, <1>4, AuthAssumption, CountGains, CountShrinks
  <1>6. /\ pending[name] = Cardinality(S)
        /\ pending' = [pending EXCEPT ![name] = Cardinality(T)]
    BY <1>2, PendingCounts DEF S, T
  <1> QED  BY <1>5, <1>6

\* A login that is counted or dropped leaves.
LEMMA PendingLoses ==
    ASSUME WellFormed, NEW r \in Requests, NEW next, Goes(r, next), NEW name \in ThrottleKeys,
           next.at \notin PendingAwaits,
           request[r].at \in PendingAwaits, request[r].username = name
    PROVE  /\ pending' = [pending EXCEPT ![name] = @ - 1]
           /\ pending[name] > 0
  <1>1. /\ request'[r] = next
        /\ \A s \in Requests \ {r} : request'[s] = request[s]
    BY OthersStay
  <1>2. \A u \in ThrottleKeys \ {name} : Pending(u)' = Pending(u)
    BY <1>1 DEF Pending
  <1> DEFINE S == Pending(name)
             T == Pending(name)'
  <1>3. r \in S /\ T = S \ {r}
    BY <1>1 DEF Pending
  <1>4. IsFiniteSet(S)
    BY PendingCounts
  <1> HIDE DEF S, T
  <1>5. /\ Cardinality(T) = Cardinality(S) - 1
        /\ Cardinality(T) \in Nat /\ Cardinality(S) \in Nat
    BY <1>3, <1>4, CountLoses, FS_CardinalityType
  <1>6. /\ pending[name] = Cardinality(S)
        /\ pending' = [pending EXCEPT ![name] = Cardinality(T)]
    BY <1>2, PendingCounts DEF S, T
  <1> QED  BY <1>5, <1>6

LEMMA ThrottleInit == Init => Throttle!Init
  <1> SUFFICES ASSUME Init PROVE Throttle!Init
    OBVIOUS
  <1>1. \A u \in ThrottleKeys : Pending(u) = {}
    BY DEF Init, Idle, Pending, PendingAwaits
  <1>2. Cardinality({}) = 0
    BY FS_EmptySet
  <1>3. pending = [u \in ThrottleKeys |-> 0]
    BY <1>1, <1>2, PendingCounts
  <1>4. failures_by_username = [u \in {} |-> {}]
    BY DEF Init
  <1> QED  BY <1>3, <1>4 DEF Throttle!Init

\* Every step of the server is a step of the throttle or leaves it alone.
LEMMA ThrottleNext ==
    ASSUME TypeInv, [Next]_vars
    PROVE  [Throttle!Next]_Throttle!vars
  <1> DEFINE Stutters == pending' = pending /\ failures_by_username' = failures_by_username
  <1>0. ASSUME Stutters PROVE [Throttle!Next]_Throttle!vars
    BY <1>0 DEF Throttle!vars
  <1>1. ASSUME NEW r \in Requests, Start(r)
        PROVE  Stutters
    <2>0. request[r].at = "idle" /\ UNCHANGED failures_by_username
      <3>1. request[r] = Idle /\ UNCHANGED failures_by_username
        <4>1. CASE \/ \E u \in Users : StartBootstrap(r, u)
                   \/ \E n \in Spellings : StartLogin(r, n)
          BY <4>1 DEF StartBootstrap, StartLogin
        <4>2. CASE \E token \in 1..issued, handler \in {"logout", "create_user"} :
                     StartWithToken(r, handler, token)
          BY <4>2 DEF StartWithToken
        <4> QED  BY <1>1, <4>1, <4>2 DEF Start
      <3> QED  BY <3>1 DEF Idle
    <2>1. ASSUME \/ \E u \in Users : StartBootstrap(r, u)
                 \/ \E n \in Spellings : StartLogin(r, n)
          PROVE  pending' = pending
      <3>1. PICK next : Goes(r, next) /\ next.at \in {"bootstrap", "login"}
        BY <2>1, StartsWithoutToken
      <3> QED  BY <2>0, <3>1, PendingStays, TypeParts DEF PendingAwaits
    <2>2. ASSUME NEW token \in 1..issued, NEW handler \in {"logout", "create_user"},
                 StartWithToken(r, handler, token)
          PROVE  pending' = pending
      <3> DEFINE next == [at |-> handler, token |-> token]
      <3>1. Goes(r, next) /\ next.at = handler
        BY <2>2 DEF StartWithToken
      <3> HIDE DEF next
      <3> QED  BY <2>0, <3>1, PendingStays, TypeParts DEF PendingAwaits
    <2> QED  BY <1>1, <2>0, <2>1, <2>2 DEF Start
  <1>2. ASSUME NEW r \in Requests, Proceed(r) \/ Drop(r)
        PROVE  [Throttle!Next]_Throttle!vars
    <2> DEFINE name == request[r].username
    <2>1. CASE \/ RefuseBootstrap(r) \/ BootstrapAdmin(r) \/ BootstrapIssue(r) \/ RefuseLogin(r)
               \/ LoginIssue(r) \/ RefuseToken(r) \/ LogoutRevoke(r) \/ LogoutAudit(r)
               \/ AuthorizeCreateUser(r) \/ RefuseCreateUser(r)
               \/ \E u \in Users, role \in Roles : CreateUser(r, u, role)
      <3>1. UNCHANGED failures_by_username /\ request[r].at \notin PendingAwaits
        BY <2>1 DEF RefuseBootstrap, BootstrapAdmin, BootstrapIssue, RefuseLogin, LoginIssue,
           RefuseToken, LogoutRevoke, LogoutAudit, AuthorizeCreateUser, RefuseCreateUser,
           CreateUser, PendingAwaits
      <3>2. PICK next : Goes(r, next) /\ next.at \notin PendingAwaits
        <4>1. CASE \/ RefuseBootstrap(r) \/ BootstrapIssue(r) \/ RefuseLogin(r)
                   \/ LoginIssue(r) \/ RefuseToken(r) \/ LogoutAudit(r)
                   \/ RefuseCreateUser(r)
                   \/ \E u \in Users, role \in Roles : CreateUser(r, u, role)
          <5>1. Goes(r, Idle)
            BY <4>1 DEF RefuseBootstrap, BootstrapIssue, RefuseLogin, LoginIssue,
               RefuseToken, LogoutAudit, RefuseCreateUser, CreateUser, Answered
          <5> QED  BY <5>1 DEF Idle, PendingAwaits
        <4>2. CASE BootstrapAdmin(r)
          BY <4>2 DEF BootstrapAdmin, Idle, PendingAwaits
        <4>3. CASE LogoutRevoke(r)
          BY <4>3 DEF LogoutRevoke, PendingAwaits
        <4>4. CASE AuthorizeCreateUser(r)
          BY <4>4 DEF AuthorizeCreateUser, Idle, PendingAwaits
        <4> QED  BY <2>1, <4>1, <4>2, <4>3, <4>4
      <3>3. Stutters
        BY <3>1, <3>2, PendingStays, TypeParts
      <3> QED  BY <1>0, <3>3
    <2>2. CASE AllowLogin(r)
      <3>1. PICK next : Goes(r, next) /\ next.at = "login_app" /\ next.username = name
        BY <2>2 DEF AllowLogin
      <3>2. name \in ThrottleKeys
        BY <2>2, Carries DEF TypeInv, AllowLogin
      <3>3. /\ pending' = [pending EXCEPT ![name] = @ + 1]
            /\ pending[name] < Cardinality(Requests)
        BY <2>2, <3>1, <3>2, PendingGains, TypeParts DEF AllowLogin, PendingAwaits
      <3>4. Throttle!EnsureAllowed(name)
        BY <2>2, <3>3 DEF AllowLogin, Throttle!EnsureAllowed
      <3> QED  BY <3>2, <3>4 DEF Throttle!Next
    <2>3. CASE Authenticate(r)
      <3>1. PICK next : Goes(r, next) /\ next.at \in {"login_succeeded", "login_failed"}
                        /\ next.username = name
        BY <2>3, AuthenticateGoes
      <3>2. Stutters
        BY <2>3, <3>1, PendingStays, TypeParts DEF Authenticate, PendingAwaits
      <3> QED  BY <1>0, <3>2
    <2>4. CASE LoginSucceeded(r)
      <3>1. PICK next : Goes(r, next) /\ next.at \notin PendingAwaits
        BY <2>4 DEF LoginSucceeded, Idle, PendingAwaits
      <3>2. name \in ThrottleKeys
        BY <2>4, Carries DEF TypeInv, LoginSucceeded
      <3>3. pending' = [pending EXCEPT ![name] = @ - 1] /\ pending[name] > 0
        BY <2>4, <3>1, <3>2, PendingLoses, TypeParts DEF LoginSucceeded, PendingAwaits
      <3>4. Throttle!RecordSuccess(name)
        BY <2>4, <3>3 DEF LoginSucceeded, Throttle!RecordSuccess
      <3> QED  BY <3>2, <3>4 DEF Throttle!Next
    <2>5. CASE LoginFailed(r)
      <3>1. Goes(r, Idle) /\ Idle.at \notin PendingAwaits
        BY <2>5 DEF LoginFailed, Answered, Idle, PendingAwaits
      <3>2. name \in ThrottleKeys
        BY <2>5, Carries DEF TypeInv, LoginFailed
      <3>3. pending' = [pending EXCEPT ![name] = @ - 1] /\ pending[name] > 0
        BY <2>5, <3>1, <3>2, PendingLoses, TypeParts DEF LoginFailed, PendingAwaits
      <3>4. Throttle!RecordFailure(name)
        BY <2>5, <3>3 DEF LoginFailed, Throttle!RecordFailure
      <3> QED  BY <3>2, <3>4 DEF Throttle!Next
    <2>6. CASE Drop(r)
      <3>1. /\ Goes(r, Idle) /\ Idle.at \notin PendingAwaits /\ UNCHANGED failures_by_username
        BY <2>6 DEF Drop, Answered, Idle, PendingAwaits
      <3>2. CASE request[r].at \in PendingAwaits
        <4>1. name \in ThrottleKeys
          BY <3>2, Carries DEF TypeInv, PendingAwaits
        <4>2. pending' = [pending EXCEPT ![name] = @ - 1] /\ pending[name] > 0
          BY <3>1, <3>2, <4>1, PendingLoses, TypeParts
        <4>3. Throttle!Abandon(name)
          BY <3>1, <4>2 DEF Throttle!Abandon
        <4> QED  BY <4>1, <4>3 DEF Throttle!Next
      <3>3. CASE request[r].at \notin PendingAwaits
        <4>1. Stutters
          BY <3>1, <3>3, PendingStays, TypeParts
        <4> QED  BY <1>0, <4>1
      <3> QED  BY <3>2, <3>3
    <2> QED  BY <1>2, <2>1, <2>2, <2>3, <2>4, <2>5, <2>6 DEF Proceed
  <1>3. ASSUME UNCHANGED request
        PROVE  pending' = pending
    <2>1. \A u \in ThrottleKeys : Pending(u)' = Pending(u)
      BY <1>3 DEF Pending
    <2> QED  BY <2>1, PendingCounts
  <1>4. CASE Expire \/ UNCHANGED vars
    <2>1. Stutters
      BY <1>3, <1>4 DEF Expire, vars
    <2> QED  BY <1>0, <2>1
  <1>5. CASE Tick
    <2>1. Throttle!Tick
      BY <1>3, <1>5 DEF Tick, Throttle!Tick, Throttle!RecordOf
    <2> QED  BY <2>1 DEF Throttle!Next
  <1> QED  BY <1>0, <1>1, <1>2, <1>4, <1>5 DEF Next

\* `login` and the throttle: every login is checked before it is counted, and
\* counted at most once, however the requests interleave and where they are
\* dropped.  This is the safety part of ThrottleImplemented.
THEOREM ThrottleIsUsedAsSpecified == Spec => Throttle!Init /\ [][Throttle!Next]_Throttle!vars
  <1>1. IInv /\ [Next]_vars => [Throttle!Next]_Throttle!vars
    BY ThrottleNext DEF IInv
  <1> QED  BY <1>1, ThrottleInit, InitIInv, NextIInv, PTL DEF Spec


=============================================================================
