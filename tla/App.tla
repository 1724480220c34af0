--------------------------------- MODULE App ---------------------------------
(***************************************************************************)
(* The application state of src/src/app.rs: the bank, the identities and   *)
(* the audit log, with the owner of every account that joins the first two *)
(* together.  The actions change the state as the HTTP handlers and the    *)
(* interactive client make it change; whether a call is recorded, and for  *)
(* whom, is theirs to decide.                                              *)
(*                                                                         *)
(* Identity is about the spellings of usernames; here a user has one, the  *)
(* id.  An optional customer is a set of at most one customer.             *)
(***************************************************************************)
EXTENDS Integers, Sequences, FiniteSets, Bags

CONSTANTS
    AccountIds, Amounts, Rates, BasisPointsInWhole, MaxCents, MaxTransactionId,
    CustomerIds, UserIds,
    System,              \* AuditActor::System
    MaxAuditEntries      \* bound: where the audit ids overflow

ASSUME AppAssumption == System \notin UserIds /\ MaxAuditEntries \in Nat

\* The assumptions of Bank on its constants.
ASSUME LedgerAssumption ==
    /\ AccountIds \subseteq Nat /\ IsFiniteSet(AccountIds)
    /\ \A amount \in Amounts : amount \in Int /\ amount <= MaxCents
    /\ Rates \subseteq Nat /\ BasisPointsInWhole \in Nat \ {0}
    /\ MaxCents \in Nat /\ MaxTransactionId \in Nat \ {0}

VARIABLES
    accounts, next_transaction_id,      \* the bank
    owner_id,                           \* the owner of every account
    customers, users, username_index,   \* the identities
    audit_log                           \* how often the log has each entry

bank       == <<accounts, next_transaction_id, owner_id>>
identities == <<customers, users, username_index>>
app        == <<bank, identities, audit_log>>

Ledger == INSTANCE Bank

Identities == INSTANCE Identity WITH Spellings <- UserIds,
                                     Normalized <- [u \in UserIds |-> u]

-----------------------------------------------------------------------------
(* The audit log.                                                          *)

HasRoom(log) == BagCardinality(log) < MaxAuditEntries

\* Slip: the next audit id is not checked.
WithUnchecked(log, entry) == log (+) SetToBag({entry})

\* `AuditLog::record`: nothing is recorded when the ids have run out.  Whatever
\* the order of the entries is for is in AuditLog.
With(log, entry) == IF HasRoom(log) THEN log (+) SetToBag({entry}) ELSE log

Audit(entry) == audit_log' = With(audit_log, entry)

\* How many entries of a log are of some sort.
CountOf(log, Is(_)) ==
    BagCardinality([e \in {entry \in BagToSet(log) : Is(entry)} |-> log[e]])

\* The bank has recorded a transaction: the call in this step has succeeded.
Completed ==
    \E a \in DOMAIN accounts' :
      \/ a \notin DOMAIN accounts
      \/ accounts'[a].transactions # accounts[a].transactions

-----------------------------------------------------------------------------
(* The state as a snapshot.                                                *)

Snapshot ==
    [accounts |-> accounts, owner_id |-> owner_id, customers |-> customers,
     users |-> users, audit_log |-> audit_log]

\* The bank of a snapshot.
LedgerOf(s) == INSTANCE Bank WITH accounts <- s.accounts, next_transaction_id <- 0

\* `from_accounts`: the next id follows the largest one.
NextIdOf(s) ==
    LET ids == LedgerOf(s)!RecordedIds \cup {0}
    IN  1 + CHOOSE largest \in ids : \A n \in ids : n <= largest

\* `validate_account_owners`.
OwnersKnown(s) == \A a \in DOMAIN s.accounts : s.owner_id[a] \subseteq s.customers

\* `app_from_json` and its like accept a snapshot: its identities, its accounts
\* and the owners that join them.  The check of `AuditLog::from_entries` is not
\* here, for the log is a bag without ids: AuditLog has it as FromEntries.
Accepts(s) ==
    /\ Identities!Accepts(s.customers, s.users)
    /\ LedgerOf(s)!Importable
    /\ OwnersKnown(s)

\* The state is the one that a snapshot describes.
IsBuiltFrom(s) ==
    /\ accounts = s.accounts
    /\ next_transaction_id = NextIdOf(s)
    /\ owner_id = s.owner_id
    /\ customers = s.customers
    /\ users = s.users
    /\ username_index = Identities!IndexOf(s.users)
    /\ audit_log = s.audit_log

\* The state is replaced by the one that a snapshot describes.
BuildFrom(s) ==
    /\ accounts' = s.accounts
    /\ next_transaction_id' = NextIdOf(s)
    /\ owner_id' = s.owner_id
    /\ customers' = s.customers
    /\ users' = s.users
    /\ username_index' = Identities!IndexOf(s.users)
    /\ audit_log' = s.audit_log

\* `AppState::new`.
NewState ==
    [accounts |-> << >>, owner_id |-> << >>, customers |-> {}, users |-> << >>,
     audit_log |-> EmptyBag]

-----------------------------------------------------------------------------
(* Accounts with their owners.                                             *)

\* `customer_exists` or its like, then `create_account`.
CreateAccount(id, owner, opening) ==
    /\ owner \subseteq customers
    /\ Ledger!CreateAccount(id, opening)
    /\ owner_id' = [a \in DOMAIN owner_id \cup {id} |-> IF a = id THEN owner ELSE owner_id[a]]

DeleteAccount(id) ==
    /\ Ledger!DeleteAccount(id)
    /\ owner_id' = [a \in DOMAIN owner_id \ {id} |-> owner_id[a]]

\* `authorize_account_access` of the client and `ensure_account_access` of the
\* API: staff may use any account id, others the accounts of their customer.
MayUse(session, id, any_permission, own_permission) ==
    \/ Identities!Can(session.role, any_permission)
    \/ /\ Identities!Can(session.role, own_permission)
       /\ id \in DOMAIN accounts
       /\ owner_id[id] # {}
       /\ owner_id[id] = session.customer_id

MayMove(session, id) == MayUse(session, id, "MoveMoney", "MoveOwnMoney")

=============================================================================
