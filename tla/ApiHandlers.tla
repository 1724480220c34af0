---------------------------- MODULE ApiHandlers ----------------------------
(***************************************************************************)
(* The handlers of src/src/api.rs that need a session: customers, users,   *)
(* accounts and money.  Each takes a copy of its session from the store,   *)
(* waits for the lock of app and does the rest under it; sessions come and *)
(* go meanwhile, as ApiAuth says, and the client may go away.              *)
(*                                                                         *)
(* A user has one session here, and the entries of logins and logouts are  *)
(* left out of the log.  A payload that is not accepted, and any call that *)
(* is refused before it changes something, is the action Refuse.           *)
(***************************************************************************)
EXTENDS App

CONSTANTS
    Requests,            \* the requests that may be in progress at once
    Given                \* the state that the server is started with

VARIABLES
    sessions,            \* the sessions that are alive, by user
    request              \* per request, the copy of the session it waits with

vars == <<app, sessions, request>>

\* All entries of these handlers are about successes.
Entry(actor, action, target) == [actor |-> actor, action |-> action, target |-> target]

Idle == [at |-> "idle"]
Answered(r) == request' = [request EXCEPT ![r] = Idle]
Waits(r) == request[r] # Idle

\* The handler has changed the identities.
AnswersWithIdentity(r, action, target) ==
    /\ Audit(Entry(request[r].user, action, target))
    /\ Answered(r)
    /\ UNCHANGED <<bank, sessions>>

\* The handler has called the bank; a call that fails is not recorded.
AnswersWithBank(r, action, target) ==
    /\ IF Completed THEN Audit(Entry(request[r].user, action, target))
       ELSE UNCHANGED audit_log
    /\ Answered(r)
    /\ UNCHANGED <<identities, sessions>>

-----------------------------------------------------------------------------
(* Sessions and requests.                                                  *)

SessionBegins(u) ==
    /\ u \in DOMAIN users \ DOMAIN sessions
    /\ sessions' = [v \in DOMAIN sessions \cup {u} |->
                      IF v = u THEN Identities!SessionOf(u) ELSE sessions[v]]
    /\ UNCHANGED <<app, request>>

\* Logged out or expired.
SessionEnds(u) ==
    /\ u \in DOMAIN sessions
    /\ sessions' = [v \in DOMAIN sessions \ {u} |-> sessions[v]]
    /\ UNCHANGED <<app, request>>

\* Slip: the user is looked up where the session should be.
AuthenticateByUser(r, u) ==
    /\ request[r] = Idle
    /\ u \in DOMAIN users
    /\ request' = [request EXCEPT ![r] = Identities!SessionOf(u)]
    /\ UNCHANGED <<app, sessions>>

\* `authenticate_request`.
Authenticate(r, u) ==
    /\ request[r] = Idle
    /\ u \in DOMAIN sessions
    /\ request' = [request EXCEPT ![r] = sessions[u]]
    /\ UNCHANGED <<app, sessions>>

\* An error before anything has changed, or the client has gone away.
Refuse(r) == Waits(r) /\ Answered(r) /\ UNCHANGED <<app, sessions>>

May(r, permission) == Waits(r) /\ Identities!Can(request[r].role, permission)

-----------------------------------------------------------------------------
(* Identities and accounts.                                                *)

CreateCustomer(r, c) ==
    /\ May(r, "ManageIdentity")
    /\ Identities!CreateCustomer(c)
    /\ AnswersWithIdentity(r, "CreateCustomer", <<c>>)

CreateUser(r, u, role, c) ==
    /\ May(r, "ManageIdentity")
    /\ Identities!CreateUser(u, u, role, c)
    /\ AnswersWithIdentity(r, "CreateUser", <<u>>)

OpenAccount(r, id, owner, opening) ==
    /\ May(r, "ManageAccounts")
    /\ CreateAccount(id, owner, opening)
    /\ AnswersWithBank(r, "CreateAccount", <<id>>)

-----------------------------------------------------------------------------
(* Money.                                                                  *)

Deposit(r, id, amount) ==
    /\ Waits(r) /\ MayMove(request[r], id)
    /\ Ledger!Deposit(id, amount)
    /\ UNCHANGED owner_id
    /\ AnswersWithBank(r, "Deposit", <<id>>)

Withdraw(r, id, amount) ==
    /\ Waits(r) /\ MayMove(request[r], id)
    /\ Ledger!Withdraw(id, amount)
    /\ UNCHANGED owner_id
    /\ AnswersWithBank(r, "Withdraw", <<id>>)

\* Slip: the error of the bank is answered only after the entry.
ApplyFeeRecordedFirst(r, id, amount) ==
    /\ May(r, "MoveMoney")
    /\ Ledger!Exists(id)
    /\ IF Ledger!HasFunds(id, amount) THEN Ledger!ApplyFee(id, amount)
       ELSE UNCHANGED <<accounts, next_transaction_id>>
    /\ UNCHANGED owner_id
    /\ Audit(Entry(request[r].user, "Fee", <<id>>))
    /\ Answered(r)
    /\ UNCHANGED <<identities, sessions>>

ApplyFee(r, id, amount) ==
    /\ May(r, "MoveMoney")
    /\ Ledger!ApplyFee(id, amount)
    /\ UNCHANGED owner_id
    /\ AnswersWithBank(r, "Fee", <<id>>)

RequestLoan(r, id, amount) ==
    /\ May(r, "MoveMoney")
    /\ Ledger!RequestLoan(id, amount)
    /\ UNCHANGED owner_id
    /\ AnswersWithBank(r, "LoanRequest", <<id>>)

PayLoan(r, id, amount) ==
    /\ Waits(r) /\ MayMove(request[r], id)
    /\ Ledger!PayLoan(id, amount)
    /\ UNCHANGED owner_id
    /\ AnswersWithBank(r, "LoanPayment", <<id>>)

\* Slip: either end of the transfer may be the customer's.
TransferFromOrTo(r, from, to, amount) ==
    /\ Waits(r) /\ (MayMove(request[r], from) \/ MayMove(request[r], to))
    /\ Ledger!Transfer(from, to, amount)
    /\ UNCHANGED owner_id
    /\ AnswersWithBank(r, "Transfer", <<from, to>>)

\* The account that receives may be anybody's.
Transfer(r, from, to, amount) ==
    /\ Waits(r) /\ MayMove(request[r], from)
    /\ Ledger!Transfer(from, to, amount)
    /\ UNCHANGED owner_id
    /\ AnswersWithBank(r, "Transfer", <<from, to>>)

-----------------------------------------------------------------------------

\* `serve` takes any state.
Init ==
    /\ IsBuiltFrom(Given)
    /\ sessions = << >>
    /\ request = [r \in Requests |-> Idle]

Handle(r) ==
    \/ Refuse(r)
    \/ \E c \in CustomerIds : CreateCustomer(r, c)
    \/ \E u \in UserIds, role \in Identities!Roles, c \in Identities!OptionalCustomers :
         CreateUser(r, u, role, c)
    \/ \E id \in AccountIds, amount \in Amounts :
         \/ \E owner \in Identities!OptionalCustomers : OpenAccount(r, id, owner, amount)
         \/ Deposit(r, id, amount)
         \/ Withdraw(r, id, amount)
         \/ ApplyFee(r, id, amount)
         \/ RequestLoan(r, id, amount)
         \/ PayLoan(r, id, amount)
         \/ \E to \in AccountIds : Transfer(r, id, to, amount)

Next ==
    \/ \E u \in UserIds : SessionBegins(u) \/ SessionEnds(u)
    \/ \E r \in Requests : Handle(r) \/ \E u \in UserIds : Authenticate(r, u)

Spec == Init /\ [][Next]_vars

-----------------------------------------------------------------------------
(* Properties.                                                             *)

\* What a state consists of: a bank with owners, identities and a log.
IsState(s) ==
    /\ \A a \in DOMAIN s.accounts :
         /\ s.accounts[a] \in Ledger!Account
         /\ s.accounts[a].balance \in 0..MaxCents
         /\ s.accounts[a].loan_balance \in 0..MaxCents
    /\ s.owner_id \in [DOMAIN s.accounts -> Identities!OptionalCustomers]
    /\ s.customers \subseteq CustomerIds
    /\ DOMAIN s.users \subseteq UserIds /\ s.users \in [DOMAIN s.users -> Identities!User]
    /\ IsABag(s.audit_log) /\ IsFiniteSet(BagToSet(s.audit_log))
    /\ BagCardinality(s.audit_log) <= MaxAuditEntries

\* A state, and copies of its users: in the store and in the hands of the
\* requests.
TypeOK ==
    /\ IsState(Snapshot)
    /\ next_transaction_id \in 1..MaxTransactionId
    /\ Identities!TypeOK
    /\ \A u \in DOMAIN sessions : u \in DOMAIN users /\ sessions[u] = Identities!SessionOf(u)
    /\ \A r \in Requests : Waits(r) =>
         /\ request[r].user \in DOMAIN users
         /\ request[r] = Identities!SessionOf(request[r].user)

\* The action that the log has for what an account records.
ActionOf ==
    [AccountCreated |-> "CreateAccount", Deposit |-> "Deposit", Withdrawal |-> "Withdraw",
     TransferOut |-> "Transfer", Fee |-> "Fee", LoanRequested |-> "LoanRequest",
     LoanPayment |-> "LoanPayment"]

\* What an account has recorded of a kind, and what the log has about it.
Recorded(s, id, kind) ==
    {i \in UNION {DOMAIN s.accounts[a].transactions : a \in {id} \cap DOMAIN s.accounts} :
       s.accounts[id].transactions[i].kind = kind}
Audited(s, id, kind) ==
    CountOf(s.audit_log, LAMBDA entry :
              entry.action = ActionOf[kind] /\ entry.target[1] = id)

TellsOfMoves(s) ==
    \A id \in AccountIds, kind \in DOMAIN ActionOf :
      /\ Audited(s, id, kind) <= Cardinality(Recorded(s, id, kind))
      /\ HasRoom(s.audit_log) => Audited(s, id, kind) = Cardinality(Recorded(s, id, kind))

\* The ledger and the audit log tell the same story: every success in the log is
\* a transaction of the account, and until the log is full every transaction is
\* in the log, whichever requests run together, fail or are dropped.
MovesOnRecord == TellsOfMoves(Snapshot)

NamesTheEntitled(s) ==
    \A entry \in BagToSet(s.audit_log) :
      /\ entry.actor \in DOMAIN s.users
      /\ LET user == s.users[entry.actor] IN
           /\ user.role = "Customer" =>
                /\ entry.action \in {"Deposit", "Withdraw", "Transfer", "LoanPayment"}
                /\ entry.target[1] \in DOMAIN s.owner_id
                /\ s.owner_id[entry.target[1]] = user.customer_id
           /\ entry.action \in {"CreateCustomer", "CreateUser"} => user.role = "Admin"

\* Nobody is in the log with something that the role does not allow, and a
\* customer only with accounts that the customer owns, although the check is
\* made with a copy of the session.
ActorsMayAct == NamesTheEntitled(Snapshot)

\* The server is started with a state whose ids `from_accounts` accepts and whose
\* log is about what is in it; the empty state of `main` is such a state.
ASSUME GivenAssumption ==
    /\ IsState(Given) /\ TellsOfMoves(Given) /\ NamesTheEntitled(Given)
    /\ \A a \in DOMAIN Given.accounts : \A i \in DOMAIN Given.accounts[a].transactions :
         Given.accounts[a].transactions[i].id \in 1..(MaxTransactionId - 1)
ASSUME RequestsAssumption == IsFiniteSet(Requests)

Pending(u) == Cardinality({r \in Requests : Waits(r) /\ request[r].user = u})
Performed(u) == CountOf(audit_log, LAMBDA entry : entry.actor = u)

\* A session that has ended still acts through the requests that had taken a
\* copy of it, and through nothing else.
EndedSessionsFadeOut ==
    [][\A u \in UserIds \ DOMAIN sessions :
         Pending(u)' + Performed(u)' <= Pending(u) + Performed(u)]_vars

=============================================================================
