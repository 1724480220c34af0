------------------------------- MODULE ApiAuth -------------------------------
(***************************************************************************)
(* The handlers of src/src/api.rs that decide who is signed in:            *)
(* bootstrap_admin, login, logout and, for the handlers that need a        *)
(* session, create_user.  Requests run concurrently over three locks, the  *)
(* RwLock `app` and the Mutexes `sessions` and `auth_throttle`; a step of  *)
(* a request is what it does from one `.await` to the next, and the client *)
(* may go away at any `.await`, which drops the request and its guards.    *)
(*                                                                         *)
(* Users stand for user ids and for their usernames; passwords are right   *)
(* or wrong; tokens are numbered in the order of issue, for 32 random      *)
(* bytes do not repeat.                                                    *)
(*                                                                         *)
(* The throttle and `authenticate` each convert the name that a login      *)
(* gives: `throttle_key` trims it and lower-cases ASCII, and               *)
(* `normalize_username` trims it, lower-cases Unicode and then accepts     *)
(* ASCII only.  They differ in one letter, the Kelvin sign U+212A, whose   *)
(* lower case is the ASCII k: names with different throttle keys may be    *)
(* names of the same user.                                                 *)
(***************************************************************************)
EXTENDS Integers, Sequences, FiniteSets, Functions

CONSTANTS
    Requests,              \* the requests that may be in progress at once
    Users,
    Spellings,             \* the names that logins give
    ThrottleKey,           \* throttle_key: of every spelling
    Normalized,            \* normalize_username: a spelling it accepts to a user
    System, NoTarget,      \* AuditActor::System and an entry without a target
    FAILED_LOGIN_LIMIT,
    FAILED_LOGIN_WINDOW,
    FAILED_LOGIN_LOCKOUT,
    MaxAuditEntries        \* bound: where the audit ids overflow

ASSUME AuthAssumption ==
    /\ IsFiniteSet(Requests) /\ Requests # {}
    /\ {System, NoTarget} \cap Users = {}
    /\ FAILED_LOGIN_LIMIT \in Nat \ {0}
    /\ FAILED_LOGIN_WINDOW \in Nat \ {0}
    /\ FAILED_LOGIN_LOCKOUT \in Nat \ {0}
    /\ MaxAuditEntries \in Nat

\* A name and its throttle key have the same lower case, hence the same user.
ASSUME NamesAssumption ==
    /\ ThrottleKey \in [Spellings -> Spellings]
    /\ DOMAIN Normalized \subseteq Spellings
    /\ \A n \in DOMAIN Normalized : Normalized[n] \in Users
    /\ \A n \in Spellings :
         /\ n \in DOMAIN Normalized <=> ThrottleKey[n] \in DOMAIN Normalized
         /\ n \in DOMAIN Normalized => Normalized[n] = Normalized[ThrottleKey[n]]

VARIABLES
    users,                 \* app.identities: the role of every user
    audit_log,             \* app.audit_log
    sessions,              \* sessions_by_token
    issued,                \* the number of tokens issued so far
    failures_by_username,  \* auth_throttle
    request                \* per request, the await it is at and what it holds

vars == <<users, audit_log, sessions, issued, failures_by_username, request>>

\* The usernames of the throttle.
ThrottleKeys == {ThrottleKey[n] : n \in Spellings}

\* The logins that ensure_allowed has let through and that are not counted.
pending ==
    [u \in ThrottleKeys |->
       Cardinality({r \in Requests :
         /\ request[r].at \in {"login_app", "login_succeeded", "login_failed"}
         /\ request[r].username = u})]

Throttle == INSTANCE LoginThrottle
              WITH Usernames <- ThrottleKeys, MaxPending <- Cardinality(Requests)

Roles == {"Admin", "Teller"}

\* The session that authenticate returns is a copy of the user.
Session == [user : Users, role : Roles]

Entry(actor, action, outcome, target) ==
    [actor |-> actor, action |-> action, outcome |-> outcome, target |-> target]

-----------------------------------------------------------------------------
(* The locks.                                                              *)

\* Slip: logout keeps the guard of the sessions while it waits for app.
HeldAtLogoutToo ==
    [app |-> {"bootstrap_issue", "login_succeeded", "login_failed", "login_issue"},
     sessions |-> {"logout_audit"},
     auth_throttle |-> {}]

\* The awaits across which a guard stays alive.  The guards of the mutexes
\* are temporaries or are dropped at the end of a block without an await.
HeldAt ==
    [app |-> {"bootstrap_issue", "login_succeeded", "login_failed", "login_issue"},
     sessions |-> {},
     auth_throttle |-> {}]

Free(lock) == \A r \in Requests : request[r].at \notin HeldAt[lock]

Idle == [at |-> "idle"]
Goes(r, next)  == request' = [request EXCEPT ![r] = next]
Answered(r)    == Goes(r, Idle)

-----------------------------------------------------------------------------
(* What the handlers call.                                                 *)

AuditHasRoom == Len(audit_log) < MaxAuditEntries

\* Slip: the next audit id is not checked.
AuditUnchecked(entry) == audit_log' = Append(audit_log, entry)

\* `AuditLog::record`: an entry, or an error when the ids have run out.
Audit(entry) ==
    audit_log' = IF AuditHasRoom THEN Append(audit_log, entry) ELSE audit_log

\* A session that has expired is removed by `remove_expired` before `issue` or
\* `authenticate` looks at the map; here it is removed when it expires.
Issue(session) ==
    /\ issued' = issued + 1
    /\ sessions' = [t \in DOMAIN sessions \cup {issued + 1} |->
                      IF t = issued + 1 THEN session ELSE sessions[t]]

-----------------------------------------------------------------------------
(* bootstrap_admin.                                                        *)

StartBootstrap(r, u) ==
    /\ request[r] = Idle
    /\ Goes(r, [at |-> "bootstrap", user |-> u])
    /\ UNCHANGED <<users, audit_log, sessions, issued, failures_by_username>>

\* There are users already, or `create_user` does not accept the payload.
RefuseBootstrap(r) ==
    /\ request[r].at = "bootstrap"
    /\ Free("app")
    /\ LET target == IF users = << >> THEN request[r].user ELSE NoTarget
       IN  Audit(Entry(System, "BootstrapAdmin", "Failure", target))
    /\ Answered(r)
    /\ UNCHANGED <<users, sessions, issued, failures_by_username>>

\* Slip: any user that is not there yet may be bootstrapped.
BootstrapAdminAgain(r) ==
    /\ request[r].at = "bootstrap"
    /\ Free("app")
    /\ LET u == request[r].user IN
         /\ u \notin DOMAIN users
         /\ users' = [v \in DOMAIN users \cup {u} |-> IF v = u THEN "Admin" ELSE users[v]]
         /\ Audit(Entry(u, "BootstrapAdmin", "Success", u))
         /\ Goes(r, IF AuditHasRoom
                    THEN [at |-> "bootstrap_issue", session |-> [user |-> u, role |-> "Admin"]]
                    ELSE Idle)
    /\ UNCHANGED <<sessions, issued, failures_by_username>>

\* Slip: the audit entry is left for after the session has been issued.
BootstrapAdminAuditLast(r) ==
    /\ request[r].at = "bootstrap"
    /\ Free("app")
    /\ users = << >>
    /\ LET u == request[r].user IN
         /\ users' = [v \in {u} |-> "Admin"]
         /\ Goes(r, [at |-> "bootstrap_issue", session |-> [user |-> u, role |-> "Admin"]])
    /\ UNCHANGED <<audit_log, sessions, issued, failures_by_username>>

\* The first user becomes an admin.  Without room in the audit log the call
\* fails with the user created.
BootstrapAdmin(r) ==
    /\ request[r].at = "bootstrap"
    /\ Free("app")
    /\ users = << >>
    /\ LET u == request[r].user IN
         /\ users' = [v \in {u} |-> "Admin"]
         /\ Audit(Entry(u, "BootstrapAdmin", "Success", u))
         /\ Goes(r, IF AuditHasRoom
                    THEN [at |-> "bootstrap_issue", session |-> [user |-> u, role |-> "Admin"]]
                    ELSE Idle)
    /\ UNCHANGED <<sessions, issued, failures_by_username>>

BootstrapIssue(r) ==
    /\ request[r].at = "bootstrap_issue"
    /\ Free("sessions")
    /\ Issue(request[r].session)
    /\ Answered(r)
    /\ UNCHANGED <<users, audit_log, failures_by_username>>

-----------------------------------------------------------------------------
(* login.                                                                  *)

\* A login of a name carries its `throttle_key` along: that is all that the
\* throttle sees of the name, and `authenticate` finds the same user by it.
LoginUnderKey(n) == [at |-> "login", username |-> ThrottleKey[n]]

StartLogin(r, n) ==
    /\ request[r] = Idle
    /\ Goes(r, LoginUnderKey(n))
    /\ UNCHANGED <<users, audit_log, sessions, issued, failures_by_username>>

RefuseLogin(r) ==
    /\ request[r].at = "login"
    /\ Free("auth_throttle")
    /\ Throttle!Refuses(request[r].username)
    /\ Answered(r)
    /\ UNCHANGED <<users, audit_log, sessions, issued, failures_by_username>>

\* Slip: an expired record is removed, but nothing is refused.
AllowLoginAlways(r) ==
    /\ request[r].at = "login"
    /\ Free("auth_throttle")
    /\ LET u == request[r].username IN
         /\ failures_by_username' =
              IF Throttle!HasRecord(u) /\ Throttle!Expired(Throttle!RecordOf(u))
              THEN Throttle!Without(u) ELSE failures_by_username
         /\ Goes(r, [at |-> "login_app", username |-> u])
    /\ UNCHANGED <<users, audit_log, sessions, issued>>

AllowLogin(r) ==
    /\ request[r].at = "login"
    /\ Free("auth_throttle")
    /\ LET u == request[r].username IN
         /\ ~Throttle!Refuses(u)
         /\ failures_by_username' =
              IF Throttle!HasRecord(u) /\ Throttle!Expired(Throttle!RecordOf(u))
              THEN Throttle!Without(u) ELSE failures_by_username
         /\ Goes(r, [at |-> "login_app", username |-> u])
    /\ UNCHANGED <<users, audit_log, sessions, issued>>

\* The user that the index has under the normalized name, if any.
UsersNamed(n) == {Normalized[m] : m \in {n} \cap DOMAIN Normalized} \cap DOMAIN users

\* The password is verified under the guard of app, which is kept from here to
\* the end of the handler.
Authenticate(r) ==
    /\ request[r].at = "login_app"
    /\ Free("app")
    /\ LET name == request[r].username IN
         \/ \E u \in UsersNamed(name) :
              Goes(r, [at |-> "login_succeeded", username |-> name,
                       session |-> [user |-> u, role |-> users[u]]])
         \/ Goes(r, [at |-> "login_failed", username |-> name])
    /\ UNCHANGED <<users, audit_log, sessions, issued, failures_by_username>>

LoginSucceeded(r) ==
    /\ request[r].at = "login_succeeded"
    /\ Free("auth_throttle")
    /\ LET u == request[r].session.user IN
         /\ failures_by_username' = Throttle!Without(request[r].username)
         /\ Audit(Entry(u, "Login", "Success", u))
         /\ Goes(r, IF AuditHasRoom
                    THEN [at |-> "login_issue", session |-> request[r].session]
                    ELSE Idle)
    /\ UNCHANGED <<users, sessions, issued>>

\* Slip: a failure that sets the lock is answered before it is audited.
LoginFailedUnaudited(r) ==
    /\ request[r].at = "login_failed"
    /\ Free("auth_throttle")
    /\ LET u       == request[r].username
           counted == Throttle!Counted(Throttle!Current(u))
       IN  /\ failures_by_username' = Throttle!With(u, counted)
           /\ IF counted.lock_left # Throttle!NotLocked
              THEN UNCHANGED audit_log
              ELSE Audit(Entry(System, "Login", "Failure", u))
    /\ Answered(r)
    /\ UNCHANGED <<users, sessions, issued>>

LoginFailed(r) ==
    /\ request[r].at = "login_failed"
    /\ Free("auth_throttle")
    /\ LET u == request[r].username IN
         /\ failures_by_username' = Throttle!With(u, Throttle!Counted(Throttle!Current(u)))
         /\ Audit(Entry(System, "Login", "Failure", u))
    /\ Answered(r)
    /\ UNCHANGED <<users, sessions, issued>>

LoginIssue(r) ==
    /\ request[r].at = "login_issue"
    /\ Free("sessions")
    /\ Issue(request[r].session)
    /\ Answered(r)
    /\ UNCHANGED <<users, audit_log, failures_by_username>>

-----------------------------------------------------------------------------
(* logout, and a handler that needs a session.                             *)

StartWithToken(r, handler, token) ==
    /\ request[r] = Idle
    /\ Goes(r, [at |-> handler, token |-> token])
    /\ UNCHANGED <<users, audit_log, sessions, issued, failures_by_username>>

\* `authenticate` finds no session that is alive.
RefuseToken(r) ==
    /\ request[r].at \in {"logout", "create_user"}
    /\ Free("sessions")
    /\ request[r].token \notin DOMAIN sessions
    /\ Answered(r)
    /\ UNCHANGED <<users, audit_log, sessions, issued, failures_by_username>>

\* Slip: the session is only looked up.
LogoutLookup(r) ==
    /\ request[r].at = "logout"
    /\ Free("sessions")
    /\ LET token == request[r].token IN
         /\ token \in DOMAIN sessions
         /\ Goes(r, [at |-> "logout_audit", session |-> sessions[token]])
    /\ UNCHANGED <<users, audit_log, sessions, issued, failures_by_username>>

\* The session is looked up and revoked under one guard.
LogoutRevoke(r) ==
    /\ request[r].at = "logout"
    /\ Free("sessions")
    /\ LET token == request[r].token IN
         /\ token \in DOMAIN sessions
         /\ sessions' = Restrict(sessions, DOMAIN sessions \ {token})
         /\ Goes(r, [at |-> "logout_audit", session |-> sessions[token]])
    /\ UNCHANGED <<users, audit_log, issued, failures_by_username>>

LogoutAudit(r) ==
    /\ request[r].at = "logout_audit"
    /\ Free("app")
    /\ LET u == request[r].session.user
       IN  Audit(Entry(u, "Logout", "Success", u))
    /\ Answered(r)
    /\ UNCHANGED <<users, sessions, issued, failures_by_username>>

\* authenticate_request and authorize: only an admin has ManageIdentity.
AuthorizeCreateUser(r) ==
    /\ request[r].at = "create_user"
    /\ Free("sessions")
    /\ LET token == request[r].token IN
         /\ token \in DOMAIN sessions
         /\ Goes(r, IF sessions[token].role = "Admin"
                    THEN [at |-> "create_user_app", session |-> sessions[token]]
                    ELSE Idle)
    /\ UNCHANGED <<users, audit_log, sessions, issued, failures_by_username>>

CreateUser(r, u, role) ==
    /\ request[r].at = "create_user_app"
    /\ Free("app")
    /\ u \notin DOMAIN users
    /\ users' = [v \in DOMAIN users \cup {u} |-> IF v = u THEN role ELSE users[v]]
    /\ Audit(Entry(request[r].session.user, "CreateUser", "Success", u))
    /\ Answered(r)
    /\ UNCHANGED <<sessions, issued, failures_by_username>>

\* `create_user` does not accept the payload; nothing is audited.
RefuseCreateUser(r) ==
    /\ request[r].at = "create_user_app"
    /\ Free("app")
    /\ Answered(r)
    /\ UNCHANGED <<users, audit_log, sessions, issued, failures_by_username>>

-----------------------------------------------------------------------------

\* The client goes away: the request ends at its await, its guards with it.
Drop(r) ==
    /\ request[r] # Idle
    /\ Answered(r)
    /\ UNCHANGED <<users, audit_log, sessions, issued, failures_by_username>>

\* SESSION_TTL_SECONDS have passed for the oldest session.
Expire ==
    /\ \E t \in DOMAIN sessions :
         /\ \A other \in DOMAIN sessions : t <= other
         /\ sessions' = Restrict(sessions, DOMAIN sessions \ {t})
    /\ UNCHANGED <<users, audit_log, issued, failures_by_username, request>>

\* The clock of the throttle advances.
Tick ==
    /\ failures_by_username' =
         [u \in DOMAIN failures_by_username |-> Throttle!Older(failures_by_username[u])]
    /\ UNCHANGED <<users, audit_log, sessions, issued, request>>

Start(r) ==
    \/ \E u \in Users : StartBootstrap(r, u)
    \/ \E n \in Spellings : StartLogin(r, n)
    \/ \E token \in 1..issued, handler \in {"logout", "create_user"} :
         StartWithToken(r, handler, token)

Proceed(r) ==
    \/ RefuseBootstrap(r) \/ BootstrapAdmin(r) \/ BootstrapIssue(r)
    \/ RefuseLogin(r) \/ AllowLogin(r) \/ Authenticate(r)
    \/ LoginSucceeded(r) \/ LoginFailed(r) \/ LoginIssue(r)
    \/ RefuseToken(r)
    \/ LogoutRevoke(r) \/ LogoutAudit(r)
    \/ AuthorizeCreateUser(r) \/ RefuseCreateUser(r)
    \/ \E u \in Users, role \in Roles : CreateUser(r, u, role)

Init ==
    /\ users = << >>
    /\ audit_log = << >>
    /\ sessions = << >>
    /\ issued = 0
    /\ failures_by_username = << >>
    /\ request = [r \in Requests |-> Idle]

Next ==
    \/ \E r \in Requests : Start(r) \/ Proceed(r) \/ Drop(r)
    \/ Expire
    \/ Tick

\* The locks of tokio are fair, so a request that waits for one gets its turn.
Spec ==
    /\ Init /\ [][Next]_vars
    /\ \A r \in Requests : SF_vars(Proceed(r))
    /\ WF_vars(Tick)

-----------------------------------------------------------------------------
(* Properties.                                                             *)

AuditEntry ==
    [actor : Users \cup {System},
     action : {"BootstrapAdmin", "Login", "Logout", "CreateUser"},
     outcome : {"Success", "Failure"},
     target : Users \cup ThrottleKeys \cup {NoTarget}]

TokenRequest == [at : {"logout", "create_user"}, token : 1..issued]

BootstrapRequest == [at : {"bootstrap"}, user : Users]

LoginRequest == [at : {"login", "login_app", "login_failed"}, username : ThrottleKeys]

LoginWithSession == [at : {"login_succeeded"}, username : ThrottleKeys, session : Session]

SessionRequest ==
    [at : {"bootstrap_issue", "login_issue", "logout_audit", "create_user_app"},
     session : Session]

TypeOK ==
    /\ DOMAIN users \subseteq Users /\ \A u \in DOMAIN users : users[u] \in Roles
    /\ audit_log \in Seq(AuditEntry)
    /\ Len(audit_log) <= MaxAuditEntries
    /\ issued \in 0..MaxAuditEntries
    /\ DOMAIN sessions \subseteq 1..issued
    /\ \A t \in DOMAIN sessions : sessions[t] \in Session
    /\ Throttle!TypeOK
    /\ \A r \in Requests :
         \/ request[r] = Idle
         \/ request[r] \in TokenRequest
         \/ request[r] \in BootstrapRequest
         \/ request[r] \in LoginRequest
         \/ request[r] \in LoginWithSession
         \/ request[r] \in SessionRequest

\* The entries of the log that sign a user in, and those that sign it out.
SignIns(u) ==
    {i \in DOMAIN audit_log :
       /\ audit_log[i].actor = u /\ audit_log[i].outcome = "Success"
       /\ audit_log[i].action \in {"BootstrapAdmin", "Login"}}
SignOuts(u) ==
    {i \in DOMAIN audit_log :
       audit_log[i].actor = u /\ audit_log[i].action = "Logout"}

SessionsOf(u) == {t \in DOMAIN sessions : sessions[t].user = u}

\* Of the sign-ins on record, every one is at most one session, and a session
\* is signed out at most once, also when two logouts present the same token:
\* what is stored and what was signed out never exceed what was signed in.
SessionsAccountedFor ==
    \A u \in Users :
      Cardinality(SessionsOf(u)) + Cardinality(SignOuts(u)) <= Cardinality(SignIns(u))

\* However requests interleave and wherever they are dropped, a user exists
\* only with an audited creation, until the audit ids have run out.
UsersOnRecord ==
    AuditHasRoom =>
      \A u \in DOMAIN users :
        \E i \in DOMAIN audit_log :
          /\ audit_log[i].target = u /\ audit_log[i].outcome = "Success"
          /\ audit_log[i].action \in {"BootstrapAdmin", "CreateUser"}

\* Everything that succeeds rests on a bootstrap that is unique: two requests
\* that race for an empty server do not both become admin.
BootstrapComesFirst ==
    \A i \in DOMAIN audit_log :
      audit_log[i].outcome = "Success" =>
        (audit_log[i].action = "BootstrapAdmin" <=>
           \A j \in 1..(i - 1) : audit_log[j].outcome = "Failure")

\* What the throttle counts under a key is on record.  A user whose name has
\* two keys has a count under each.
FailuresOnRecord ==
    AuditHasRoom =>
      \A u \in DOMAIN failures_by_username :
        failures_by_username[u].failed_attempts <=
          Cardinality({i \in DOMAIN audit_log :
                         /\ audit_log[i].action = "Login" /\ audit_log[i].target = u
                         /\ audit_log[i].outcome = "Failure"})

\* The server uses its throttle as LoginThrottle says: every login is checked
\* before it is counted, and counted at most once, and its clock advances.
ThrottleImplemented == Throttle!Spec

\* No request waits for ever: whoever holds a guard gets all it still needs.
RequestsAnswered ==
    \A r \in Requests : request[r] # Idle ~> request[r] = Idle

=============================================================================
