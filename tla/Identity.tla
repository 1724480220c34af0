------------------------------ MODULE Identity ------------------------------
(***************************************************************************)
(* The customers and users of src/src/identity.rs.  Every operation of     *)
(* `IdentityStore` that changes it is one action; a call that is refused   *)
(* changes nothing.  Names, e-mails and password hashes are left out:      *)
(* whether they are accepted depends on the payload alone, so a call with  *)
(* a bad one is the same stuttering step.                                  *)
(*                                                                         *)
(* An optional customer is a set of at most one customer.                  *)
(***************************************************************************)
EXTENDS Naturals, FiniteSets

CONSTANTS
    CustomerIds,
    UserIds,
    Spellings,       \* the names that callers type and records carry
    Normalized       \* normalize_username: a spelling it accepts to a username

\* Trimming and lower case change nothing that they have changed before.
ASSUME NormalizedAssumption ==
    /\ DOMAIN Normalized \subseteq Spellings
    /\ \A n \in DOMAIN Normalized :
         /\ Normalized[n] \in DOMAIN Normalized
         /\ Normalized[Normalized[n]] = Normalized[n]

VARIABLES
    customers,       \* the ids of the customers
    users,           \* the users by id
    username_index   \* the ids of the users by username

vars == <<customers, users, username_index>>

Roles == {"Customer", "Teller", "Admin"}

OptionalCustomers == {{}} \cup {{c} : c \in CustomerIds}

User == [username : Spellings, role : Roles, customer_id : OptionalCustomers]

Usernames == {Normalized[n] : n \in DOMAIN Normalized}

\* `Role::can`.
Can(role, permission) ==
    CASE role = "Admin"    -> TRUE
      [] role = "Teller"   -> permission \in {"ManageAccounts", "MoveMoney", "ViewAnyAccount",
                                              "ExportStatements", "PersistState"}
      [] role = "Customer" -> permission \in {"MoveOwnMoney", "ViewOwnAccount"}

\* `validate_role_customer_link`: staff have no customer, the others one that
\* is there.
ValidLink(role, customer_id, known) ==
    IF role = "Customer" THEN \E c \in known : customer_id = {c} ELSE customer_id = {}

\* `authenticate` with the right password: the user that a spelling stands for.
SignsIn(n) ==
    {username_index[u] : u \in {Normalized[m] : m \in {n} \cap DOMAIN Normalized}
                                 \cap DOMAIN username_index}

\* The session is a copy of the user.
SessionOf(id) == [user |-> id, role |-> users[id].role, customer_id |-> users[id].customer_id]

-----------------------------------------------------------------------------

CreateCustomer(id) ==
    /\ id \notin customers
    /\ customers' = customers \cup {id}
    /\ UNCHANGED <<users, username_index>>

\* Slip: the spelling is looked up in the index, the username is written.
CreateUserRawLookup(id, n, role, customer_id) ==
    /\ id \notin DOMAIN users
    /\ ValidLink(role, customer_id, customers)
    /\ n \in DOMAIN Normalized
    /\ n \notin DOMAIN username_index
    /\ users' = [i \in DOMAIN users \cup {id} |->
                   IF i = id THEN [username |-> Normalized[n], role |-> role,
                                   customer_id |-> customer_id]
                   ELSE users[i]]
    /\ username_index' = [u \in DOMAIN username_index \cup {Normalized[n]} |->
                            IF u = Normalized[n] THEN id ELSE username_index[u]]
    /\ UNCHANGED customers

\* The user keeps the normalized name.
CreateUser(id, n, role, customer_id) ==
    /\ id \notin DOMAIN users
    /\ ValidLink(role, customer_id, customers)
    /\ n \in DOMAIN Normalized
    /\ Normalized[n] \notin DOMAIN username_index
    /\ users' = [i \in DOMAIN users \cup {id} |->
                   IF i = id THEN [username |-> Normalized[n], role |-> role,
                                   customer_id |-> customer_id]
                   ELSE users[i]]
    /\ username_index' = [u \in DOMAIN username_index \cup {Normalized[n]} |->
                            IF u = Normalized[n] THEN id ELSE username_index[u]]
    /\ UNCHANGED customers

-----------------------------------------------------------------------------
(* Records, as a snapshot holds them: at most one of an id, or they are    *)
(* refused.                                                                *)

\* `from_records` accepts them: every name is one, no two are the same when
\* normalized, and every link holds.
Accepts(cs, us) ==
    /\ \A i \in DOMAIN us :
         /\ us[i].username \in DOMAIN Normalized
         /\ ValidLink(us[i].role, us[i].customer_id, cs)
    /\ \A i, j \in DOMAIN us :
         Normalized[us[i].username] = Normalized[us[j].username] => i = j

\* The index that `from_records` builds for users it accepts.
IndexOf(us) ==
    [u \in {Normalized[us[i].username] : i \in DOMAIN us} |->
       CHOOSE i \in DOMAIN us : Normalized[us[i].username] = u]

\* Slip: the index takes the names as they are in the records.
FromRecordsRaw(cs, us) ==
    /\ Accepts(cs, us)
    /\ customers' = cs
    /\ users' = us
    /\ username_index' = [n \in {us[i].username : i \in DOMAIN us} |->
                            CHOOSE i \in DOMAIN us : us[i].username = n]

\* Slip: the links are not checked.
FromRecordsUnlinked(cs, us) ==
    /\ Accepts(CustomerIds, us)
    /\ customers' = cs
    /\ users' = us
    /\ username_index' = IndexOf(us)

\* The store is replaced by one that is built from records; the users keep the
\* spelling of their record.
FromRecords(cs, us) ==
    /\ Accepts(cs, us)
    /\ customers' = cs
    /\ users' = us
    /\ username_index' = IndexOf(us)

-----------------------------------------------------------------------------

Init ==
    /\ customers = {}
    /\ users = [i \in {} |-> {}]
    /\ username_index = [u \in {} |-> 0]

Create ==
    \/ \E id \in CustomerIds : CreateCustomer(id)
    \/ \E id \in UserIds, n \in Spellings, role \in Roles, c \in OptionalCustomers :
         CreateUser(id, n, role, c)

Next ==
    \/ Create
    \/ \E cs \in SUBSET CustomerIds, ids \in SUBSET UserIds : \E us \in [ids -> User] :
         FromRecords(cs, us)

Spec == Init /\ [][Next]_vars

-----------------------------------------------------------------------------
(* Properties.                                                             *)

\* The store consists of records, and the index of usernames.
TypeOK ==
    /\ customers \subseteq CustomerIds
    /\ DOMAIN users \subseteq UserIds
    /\ users \in [DOMAIN users -> User]
    /\ DOMAIN username_index \subseteq Usernames
    /\ username_index \in [DOMAIN username_index -> UserIds]

\* However a user came into the store, every spelling of the name leads to him
\* and to nobody else: the two maps that the store keeps side by side agree.
NamesIndexed ==
    /\ \A u \in DOMAIN username_index :
         /\ username_index[u] \in DOMAIN users
         /\ users[username_index[u]].username \in DOMAIN Normalized
         /\ Normalized[users[username_index[u]].username] = u
    /\ \A i \in DOMAIN users :
         /\ users[i].username \in DOMAIN Normalized
         /\ Normalized[users[i].username] \in DOMAIN username_index
         /\ username_index[Normalized[users[i].username]] = i

\* What the store would write to a snapshot is accepted when it is read.
RecordsReload == Accepts(customers, users)

\* Only a snapshot takes a login away or gives it to somebody else: creating
\* users leaves everybody who can sign in with the session he had.
LoginsStable ==
    [][Create =>
         \A n \in Spellings : \A id \in SignsIn(n) :
           SignsIn(n)' = {id} /\ SessionOf(id)' = SessionOf(id)]_vars

=============================================================================
