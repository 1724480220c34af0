--------------------------- MODULE IdentityProofs ---------------------------
(***************************************************************************)
(* Proofs about Identity, for any customers, users and spellings.          *)
(*                                                                         *)
(* NamesIndexed is inductive over stores that have their type.  That what  *)
(* is stored is accepted again rests on it: two users with one normalized  *)
(* name would be two users behind one entry of the index.                  *)
(***************************************************************************)
EXTENDS Identity, TLAPS

LEMMA NormalizedNames ==
    ASSUME NEW n \in DOMAIN Normalized
    PROVE  /\ Normalized[n] \in DOMAIN Normalized
           /\ Normalized[Normalized[n]] = Normalized[n]
           /\ Normalized[n] \in Usernames
           /\ Normalized[n] \in Spellings
BY NormalizedAssumption DEF Usernames

\* The index built from accepted users leads from every normalized name to the
\* user who has it.
LEMMA IndexOfAccepted ==
    ASSUME NEW cs, NEW us, Accepts(cs, us)
    PROVE  /\ \A u \in DOMAIN IndexOf(us) :
                /\ IndexOf(us)[u] \in DOMAIN us
                /\ Normalized[us[IndexOf(us)[u]].username] = u
           /\ \A i \in DOMAIN us :
                /\ Normalized[us[i].username] \in DOMAIN IndexOf(us)
                /\ IndexOf(us)[Normalized[us[i].username]] = i
<1> DEFINE Name(i) == Normalized[us[i].username]
           Names == {Name(i) : i \in DOMAIN us}
<1>1. IndexOf(us) = [u \in Names |-> CHOOSE i \in DOMAIN us : Name(i) = u]
  BY DEF IndexOf
<1>2. ASSUME NEW u \in Names
      PROVE  IndexOf(us)[u] \in DOMAIN us /\ Name(IndexOf(us)[u]) = u
  <2>1. \E i \in DOMAIN us : Name(i) = u
    BY <1>2
  <2> HIDE DEF Name
  <2>2. IndexOf(us)[u] = CHOOSE i \in DOMAIN us : Name(i) = u
    BY <1>1, <1>2
  <2> QED
    BY <2>1, <2>2
<1>3. ASSUME NEW i \in DOMAIN us
      PROVE  Name(i) \in Names /\ IndexOf(us)[Name(i)] = i
  <2>1. Name(i) \in Names
    OBVIOUS
  <2>2. /\ IndexOf(us)[Name(i)] \in DOMAIN us
        /\ Name(IndexOf(us)[Name(i)]) = Name(i)
    BY <1>2, <2>1
  <2>3. \A j, k \in DOMAIN us : Name(j) = Name(k) => j = k
    BY DEF Accepts
  <2> HIDE DEF Name, Names
  <2> QED
    BY <2>1, <2>2, <2>3, <1>3
<1>4. DOMAIN IndexOf(us) = Names
  BY <1>1
<1> HIDE DEF Names
<1> QED
  BY <1>2, <1>3, <1>4

-----------------------------------------------------------------------------
(* The type invariant.                                                     *)

\* The store keeps its type: customers, users with names, roles and at most one
\* customer, and an index of usernames.
THEOREM TypeInvariant == Spec => []TypeOK
<1>1. Init => TypeOK
  BY DEF Init, TypeOK
<1>2. ASSUME TypeOK, [Next]_vars
      PROVE  TypeOK'
  <2> USE <1>2
  <2>1. ASSUME NEW id \in CustomerIds, CreateCustomer(id)
        PROVE  TypeOK'
    BY <2>1 DEF CreateCustomer, TypeOK
  <2>2. ASSUME NEW id \in UserIds, NEW n \in Spellings, NEW role \in Roles,
               NEW c \in OptionalCustomers, CreateUser(id, n, role, c)
        PROVE  TypeOK'
    <3>1. n \in DOMAIN Normalized
      BY <2>2 DEF CreateUser
    <3>2. [username |-> Normalized[n], role |-> role, customer_id |-> c] \in User
      BY <3>1, NormalizedNames DEF User
    <3>3. users' \in [DOMAIN users \cup {id} -> User]
      BY <2>2, <3>2 DEF CreateUser, TypeOK
    <3>4. username_index' \in [DOMAIN username_index \cup {Normalized[n]} -> UserIds]
      BY <2>2 DEF CreateUser, TypeOK
    <3>5. Normalized[n] \in Usernames
      BY <3>1, NormalizedNames
    <3> QED
      BY <2>2, <3>3, <3>4, <3>5 DEF CreateUser, TypeOK
  <2>3. ASSUME NEW cs \in SUBSET CustomerIds, NEW ids \in SUBSET UserIds,
               NEW us \in [ids -> User], FromRecords(cs, us)
        PROVE  TypeOK'
    <3>1. \A u \in DOMAIN IndexOf(us) : IndexOf(us)[u] \in ids
      BY <2>3, IndexOfAccepted DEF FromRecords
    <3>2. IndexOf(us) \in [DOMAIN IndexOf(us) -> UserIds]
      BY <3>1 DEF IndexOf
    <3>3. DOMAIN IndexOf(us) \subseteq Usernames
      BY <2>3 DEF IndexOf, FromRecords, Accepts, Usernames
    <3> QED
      BY <2>3, <3>2, <3>3 DEF FromRecords, TypeOK
  <2>4. CASE UNCHANGED vars
    BY <2>4 DEF vars, TypeOK
  <2> QED
    BY <2>1, <2>2, <2>3, <2>4 DEF Next, Create
<1> QED
  BY <1>1, <1>2, PTL DEF Spec

-----------------------------------------------------------------------------
(* The index.                                                              *)

LEMMA CreateUserKeepsIndex ==
    ASSUME TypeOK, NamesIndexed, NEW id, NEW n, NEW role, NEW c, CreateUser(id, n, role, c)
    PROVE  NamesIndexed'
<1> DEFINE name == Normalized[n]
<1>1. n \in DOMAIN Normalized /\ id \notin DOMAIN users /\ name \notin DOMAIN username_index
  BY DEF CreateUser
<1>2. name \in DOMAIN Normalized /\ Normalized[name] = name
  BY <1>1, NormalizedNames
<1>3. /\ DOMAIN users' = DOMAIN users \cup {id}
      /\ users'[id].username = name
      /\ \A i \in DOMAIN users : users'[i] = users[i]
  BY <1>1 DEF CreateUser
<1>4. /\ DOMAIN username_index' = DOMAIN username_index \cup {name}
      /\ username_index'[name] = id
      /\ \A u \in DOMAIN username_index : username_index'[u] = username_index[u]
  BY <1>1 DEF CreateUser
<1> HIDE DEF name
<1> QED
  BY <1>1, <1>2, <1>3, <1>4 DEF NamesIndexed

\* However a user came into the store, every spelling of the name leads to him
\* and to nobody else.
THEOREM NamesAreIndexed == Spec => []NamesIndexed
<1>1. Init => NamesIndexed
  BY DEF Init, NamesIndexed
<1>2. ASSUME TypeOK, NamesIndexed, [Next]_vars
      PROVE  NamesIndexed'
  <2> USE <1>2
  <2>1. ASSUME NEW id \in CustomerIds, CreateCustomer(id)
        PROVE  NamesIndexed'
    BY <2>1 DEF CreateCustomer, NamesIndexed
  <2>2. ASSUME NEW id \in UserIds, NEW n \in Spellings, NEW role \in Roles,
               NEW c \in OptionalCustomers, CreateUser(id, n, role, c)
        PROVE  NamesIndexed'
    BY <2>2, CreateUserKeepsIndex
  <2>3. ASSUME NEW cs, NEW us, FromRecords(cs, us)
        PROVE  NamesIndexed'
    <3>1. Accepts(cs, us) /\ users' = us /\ username_index' = IndexOf(us)
      BY <2>3 DEF FromRecords
    <3>2. \A i \in DOMAIN us : us[i].username \in DOMAIN Normalized
      BY <3>1 DEF Accepts
    <3> QED
      BY <3>1, <3>2, IndexOfAccepted DEF NamesIndexed
  <2>4. CASE UNCHANGED vars
    BY <2>4 DEF vars, NamesIndexed
  <2> QED
    BY <2>1, <2>2, <2>3, <2>4 DEF Next, Create
<1> QED
  BY <1>1, <1>2, TypeInvariant, PTL DEF Spec

-----------------------------------------------------------------------------
(* What is stored is accepted.                                             *)

\* Nobody loses the customer that he is linked to.
LinksHold == \A i \in DOMAIN users : ValidLink(users[i].role, users[i].customer_id, customers)

\* From LinksHold and the index.
LEMMA LinksAndIndexSuffice ==
    ASSUME NamesIndexed, LinksHold
    PROVE  RecordsReload
BY DEF NamesIndexed, LinksHold, RecordsReload, Accepts

\* What the store would write to a snapshot is accepted when it is read.
THEOREM RecordsAreReloaded == Spec => []RecordsReload
<1>1. Init => LinksHold
  BY DEF Init, LinksHold
<1>2. ASSUME LinksHold, [Next]_vars
      PROVE  LinksHold'
  <2> USE <1>2
  <2>1. ASSUME NEW id \in CustomerIds, CreateCustomer(id)
        PROVE  LinksHold'
    BY <2>1 DEF CreateCustomer, LinksHold, ValidLink
  <2>2. ASSUME NEW id \in UserIds, NEW n \in Spellings, NEW role \in Roles,
               NEW c \in OptionalCustomers, CreateUser(id, n, role, c)
        PROVE  LinksHold'
    BY <2>2 DEF CreateUser, LinksHold, ValidLink
  <2>3. ASSUME NEW cs, NEW us, FromRecords(cs, us)
        PROVE  LinksHold'
    BY <2>3 DEF FromRecords, LinksHold, Accepts
  <2>4. CASE UNCHANGED vars
    BY <2>4 DEF vars, LinksHold
  <2> QED
    BY <2>1, <2>2, <2>3, <2>4 DEF Next, Create
<1> QED
  BY <1>1, <1>2, NamesAreIndexed, LinksAndIndexSuffice, PTL DEF Spec

-----------------------------------------------------------------------------
(* Logins.                                                                 *)

LEMMA SignInByIndex ==
    ASSUME NEW n
    PROVE  SignsIn(n) = IF n \in DOMAIN Normalized /\ Normalized[n] \in DOMAIN username_index
                        THEN {username_index[Normalized[n]]} ELSE {}
BY DEF SignsIn

\* Creating customers and users leaves everybody who can sign in with the
\* session he had.
THEOREM LoginsAreStable == Spec => LoginsStable
<1>1. ASSUME NamesIndexed, Create, NEW n \in Spellings, NEW id \in SignsIn(n)
      PROVE  SignsIn(n)' = {id} /\ SessionOf(id)' = SessionOf(id)
  <2>1. /\ n \in DOMAIN Normalized
        /\ Normalized[n] \in DOMAIN username_index
        /\ id = username_index[Normalized[n]]
    BY <1>1, SignInByIndex
  <2>2. id \in DOMAIN users
    BY <1>1, <2>1 DEF NamesIndexed
  <2>3. /\ Normalized[n] \in DOMAIN username_index'
        /\ username_index'[Normalized[n]] = username_index[Normalized[n]]
        /\ users'[id] = users[id]
    <3>1. ASSUME NEW new \in CustomerIds, CreateCustomer(new)
          PROVE  <2>3!:
      BY <3>1, <2>1 DEF CreateCustomer
    <3>2. ASSUME NEW new \in UserIds, NEW m, NEW role, NEW c, CreateUser(new, m, role, c)
          PROVE  <2>3!:
      BY <3>2, <2>1, <2>2 DEF CreateUser
    <3> QED
      BY <1>1, <3>1, <3>2 DEF Create
  <2>4. SignsIn(n)' = {username_index'[Normalized[n]]}
    BY <2>1, <2>3 DEF SignsIn
  <2> QED
    BY <2>1, <2>3, <2>4 DEF SessionOf
<1>2. NamesIndexed /\ [Next]_vars =>
        [Create => \A n \in Spellings : \A id \in SignsIn(n) :
                     SignsIn(n)' = {id} /\ SessionOf(id)' = SessionOf(id)]_vars
  BY <1>1
<1> QED
  BY <1>2, NamesAreIndexed, PTL DEF Spec, LoginsStable

=============================================================================
