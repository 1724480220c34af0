----------------------------- MODULE BankProofs -----------------------------
(***************************************************************************)
(* Theorems about Bank, for all sets of accounts, amounts and rates and    *)
(* all maxima.                                                             *)
(***************************************************************************)
EXTENDS BankProperties, FiniteSetTheorems, WellFoundedInduction, TLAPS

-----------------------------------------------------------------------------
(* The type of the state.                                                  *)

\* The quotient that `checked_percentage` returns is a natural number.
LEMMA PercentageNat ==
    ASSUME NEW cents \in Nat, NEW rate \in Nat, BasisPointsInWhole \in Nat \ {0}
    PROVE  Percentage(cents, rate) \in Nat
<1>1. cents * rate \in Nat
  OBVIOUS
<1>2. ASSUME NEW n \in Nat, NEW d \in Nat \ {0}
      PROVE  n \div d \in Nat
  OBVIOUS
<1> QED
  BY <1>1, <1>2 DEF Percentage

\* An account to which a transaction is added keeps its type and balances.
LEMMA RecordedType ==
    ASSUME NEW account \in Account, NEW id \in Nat, NEW kind \in Kinds, NEW amount \in Int
    PROVE  /\ Recorded(account, id, kind, amount) \in Account
           /\ Recorded(account, id, kind, amount).balance = account.balance
           /\ Recorded(account, id, kind, amount).loan_balance = account.loan_balance
           /\ Recorded(account, id, kind, amount).status = account.status
           /\ Recorded(account, id, kind, amount).transactions =
                Append(account.transactions, [id |-> id, kind |-> kind, amount |-> amount])
<1> DEFINE t == [id |-> id, kind |-> kind, amount |-> amount]
<1>1. t \in Transaction
  BY DEF Transaction
<1>2. Append(account.transactions, t) \in Seq(Transaction)
  BY <1>1 DEF Account
<1> QED
  BY <1>2 DEF Recorded, Account

\* The two ways the operations change a field of an account.
LEMMA WithBalanceType ==
    ASSUME TypeOK, NEW id \in DOMAIN accounts, NEW balance \in Int
    PROVE  /\ WithBalance(id, balance) \in Account
           /\ WithBalance(id, balance).balance = balance
           /\ WithBalance(id, balance).loan_balance = accounts[id].loan_balance
           /\ WithBalance(id, balance).transactions = TransactionsOf(id)
           /\ WithBalance(id, balance).status = accounts[id].status
  BY DEF TypeOK, WithBalance, TransactionsOf, Account

LEMMA WithStatusType ==
    ASSUME TypeOK, NEW id \in DOMAIN accounts, NEW status \in Statuses
    PROVE  /\ WithStatus(id, status) \in Account
           /\ WithStatus(id, status).balance = accounts[id].balance
           /\ WithStatus(id, status).loan_balance = accounts[id].loan_balance
           /\ WithStatus(id, status).transactions = TransactionsOf(id)
           /\ WithStatus(id, status).status = status
  BY DEF TypeOK, WithStatus, TransactionsOf, Account

\* A loan operation changes both balances.
LEMMA LoanFieldTypes ==
    ASSUME TypeOK, NEW id \in DOMAIN accounts, NEW balance \in Int, NEW loan \in Int
    PROVE  LET account == [WithBalance(id, balance) EXCEPT !.loan_balance = loan]
           IN  /\ account \in Account
               /\ account.balance = balance
               /\ account.loan_balance = loan
               /\ account.transactions = TransactionsOf(id)
               /\ account.status = accounts[id].status
  BY DEF TypeOK, WithBalance, TransactionsOf, Account

\* Every entry of a history is a transaction.
LEMMA HistoryType ==
    ASSUME TypeOK, NEW a \in DOMAIN accounts
    PROVE  /\ TransactionsOf(a) \in Seq(Transaction)
           /\ \A i \in DOMAIN TransactionsOf(a) :
                /\ TransactionsOf(a)[i].id \in Nat
                /\ TransactionsOf(a)[i].kind \in Kinds
                /\ TransactionsOf(a)[i].amount \in Int
<1>1. TransactionsOf(a) \in Seq(Transaction)
  BY DEF TypeOK, Account, TransactionsOf
<1>2. ASSUME NEW i \in DOMAIN TransactionsOf(a)
      PROVE  TransactionsOf(a)[i] \in Transaction
  BY <1>1
<1> QED
  BY <1>1, <1>2 DEF Transaction

LEMMA BalanceInRange ==
    ASSUME TypeOK, NEW id \in DOMAIN accounts, NEW balance \in 0..MaxCents
    PROVE  /\ WithBalance(id, balance) \in Account
           /\ WithBalance(id, balance).balance \in 0..MaxCents
           /\ WithBalance(id, balance).loan_balance \in 0..MaxCents
<1>1. balance \in Int
  BY MaximaAssumption
<1>2. accounts[id].loan_balance \in 0..MaxCents
  BY DEF TypeOK
<1> QED
  BY <1>1, <1>2, WithBalanceType

\* Writing an account within the bounds, with its transaction, keeps the type.
LEMMA PostType ==
    ASSUME TypeOK, NEW id \in DOMAIN accounts,
           NEW account \in Account, account.balance \in 0..MaxCents,
           account.loan_balance \in 0..MaxCents,
           NEW kind \in Kinds, NEW amount \in Int,
           Post(id, account, kind, amount)
    PROVE  TypeOK'
<1>1. next_transaction_id \in Nat
  BY DEF TypeOK
<1>2. DOMAIN accounts' = DOMAIN accounts
  BY DEF Post
<1>3. ASSUME NEW a \in DOMAIN accounts
      PROVE  /\ accounts'[a] \in Account
             /\ accounts'[a].balance \in 0..MaxCents
             /\ accounts'[a].loan_balance \in 0..MaxCents
  <2>1. CASE a = id
    <3>1. accounts'[a] = Recorded(account, next_transaction_id, kind, amount)
      BY <2>1 DEF Post
    <3> DEFINE written == Recorded(account, next_transaction_id, kind, amount)
    <3>2. /\ written \in Account
          /\ written.balance = account.balance
          /\ written.loan_balance = account.loan_balance
      BY <1>1, RecordedType
    <3> HIDE DEF written
    <3> QED
      BY <3>1, <3>2 DEF written
  <2>2. CASE a # id
    BY <2>2 DEF Post, TypeOK
  <2> QED
    BY <2>1, <2>2
<1>4. next_transaction_id' \in 1..MaxTransactionId
  BY MaximaAssumption DEF TypeOK, Post, IdsLeft
<1> QED
  BY <1>2, <1>3, <1>4 DEF TypeOK

LEMMA ForfeitType ==
    ASSUME TypeOK, Forfeit
    PROVE  TypeOK'
  BY MaximaAssumption DEF TypeOK, Forfeit, IdsLeft

-----------------------------------------------------------------------------
(* The ids that a monthly fee hands out.                                   *)

\* A nonempty set of natural numbers has a least element.
LEMMA LeastNatural ==
    ASSUME NEW T \in SUBSET Nat, T # {}
    PROVE  \E x \in T : \A y \in T : x <= y
<1> DEFINE Smaller == OpToRel(<, Nat)
<1>1. Smaller = {pair \in Nat \X Nat : pair[1] < pair[2]}
  BY DEF OpToRel
<1>2. IsWellFoundedOn(Smaller, Nat)
  BY NatLessThanWellFounded
<1> HIDE DEF Smaller
<1>3. PICK x \in T : \A y \in T : ~(<<y, x>> \in Smaller)
  BY <1>2, WFMin
<1>4. ASSUME NEW y \in T
      PROVE  x <= y
  <2>1. SUFFICES ASSUME y < x
                 PROVE  FALSE
    OBVIOUS
  <2>2. <<y, x>> \in Nat \X Nat /\ <<y, x>>[1] = y /\ <<y, x>>[2] = x
    OBVIOUS
  <2>3. <<y, x>> \in Smaller
    BY <1>1, <2>1, <2>2, Zenon
  <2> QED
    BY <1>3, <2>3
<1> QED
  BY <1>4

\* The members of a finite set of numbers that are below an element of it are
\* fewer than those below a larger element.
LEMMA RankIncreases ==
    ASSUME NEW P \in SUBSET Nat, IsFiniteSet(P), NEW c \in P, NEW d \in P, c < d
    PROVE  Cardinality({p \in P : p < c}) < Cardinality({p \in P : p < d})
<1> DEFINE Below(x) == {p \in P : p < x}
<1>1. IsFiniteSet(Below(d)) /\ Below(c) \in SUBSET Below(d)
  <2>1. Below(d) \in SUBSET P
    OBVIOUS
  <2>2. \A p \in P : p < c => p < d
    OBVIOUS
  <2>3. Below(c) \in SUBSET Below(d)
    BY <2>2
  <2> QED
    BY <2>1, <2>3, FS_Subset
<1>2. c \in Below(d) /\ c \notin Below(c)
  OBVIOUS
<1>3. /\ Cardinality(Below(c)) <= Cardinality(Below(d))
      /\ Cardinality(Below(c)) # Cardinality(Below(d))
  BY <1>1, <1>2, FS_Subset
<1>4. Cardinality(Below(c)) \in Nat /\ Cardinality(Below(d)) \in Nat
  BY <1>1, FS_Subset, FS_CardinalityType
<1> QED
  BY <1>3, <1>4

\* The charged accounts get distinct ids, from the next one on and without a
\* gap, and there are no more of them than ids.
LEMMA MonthlyFeeIds ==
    ASSUME TypeOK, NEW payers \in SUBSET DOMAIN accounts
    PROVE  LET charged == {id \in payers : PaymentId(id, payers) < MaxTransactionId}
           IN  /\ Cardinality(charged) \in Nat
               /\ next_transaction_id + Cardinality(charged) <= MaxTransactionId
               /\ \A c \in charged :
                    /\ PaymentId(c, payers) \in Nat
                    /\ next_transaction_id <= PaymentId(c, payers)
                    /\ PaymentId(c, payers) < next_transaction_id + Cardinality(charged)
               /\ \A c, d \in charged :
                    PaymentId(c, payers) = PaymentId(d, payers) => c = d
<1> DEFINE charged == {id \in payers : PaymentId(id, payers) < MaxTransactionId}
           Below(x) == {p \in payers : p < x}
<1>1. payers \in SUBSET Nat /\ IsFiniteSet(payers)
  BY AccountIdsAssumption, FS_Subset DEF TypeOK
<1>2. next_transaction_id \in Nat /\ next_transaction_id <= MaxTransactionId
  BY MaximaAssumption DEF TypeOK
<1>3. IsFiniteSet(charged) /\ Cardinality(charged) \in Nat
  BY <1>1, FS_Subset, FS_CardinalityType
<1>4. ASSUME NEW c \in payers
      PROVE  /\ IsFiniteSet(Below(c)) /\ Cardinality(Below(c)) \in Nat
             /\ PaymentId(c, payers) = next_transaction_id + Cardinality(Below(c))
  BY <1>1, FS_Subset, FS_CardinalityType DEF PaymentId
<1>5. ASSUME NEW c \in payers, NEW d \in payers, c < d
      PROVE  Cardinality(Below(c)) < Cardinality(Below(d))
  BY <1>1, <1>5, RankIncreases
<1> HIDE DEF Below
<1>6. ASSUME NEW c \in charged, NEW d \in charged,
             PaymentId(c, payers) = PaymentId(d, payers)
      PROVE  c = d
  <2>1. c \in Nat /\ d \in Nat
    BY <1>1
  <2>2. Cardinality(Below(c)) = Cardinality(Below(d))
    BY <1>2, <1>4, <1>6
  <2>3. ~(c < d) /\ ~(d < c)
    BY <1>4, <1>5, <2>2
  <2> QED
    BY <2>1, <2>3
<1>7. ASSUME NEW c \in charged
      PROVE  Cardinality(Below(c)) < Cardinality(charged)
  <2>1. ASSUME NEW p \in Below(c)
        PROVE  p \in charged
    <3>1. p \in payers /\ p < c
      BY DEF Below
    <3>2. Cardinality(Below(p)) < Cardinality(Below(c))
      BY <3>1, <1>5
    <3> QED
      BY <1>2, <1>4, <3>1, <3>2, MaximaAssumption
  <2>2. Below(c) \in SUBSET charged
    BY <2>1
  <2>3. c \notin Below(c)
    BY <1>1 DEF Below
  <2>4. /\ Cardinality(Below(c)) <= Cardinality(charged)
        /\ Cardinality(Below(c)) # Cardinality(charged)
    BY <1>3, <2>2, <2>3, FS_Subset
  <2> QED
    BY <1>3, <1>4, <2>4
<1>8. next_transaction_id + Cardinality(charged) <= MaxTransactionId
  <2>1. CASE charged = {}
    BY <2>1, <1>2, FS_EmptySet
  <2>2. CASE charged # {}
    <3> DEFINE Left == {MaxTransactionId - PaymentId(c, payers) : c \in charged}
    <3>1. Left \in SUBSET Nat /\ Left # {}
      BY <1>2, <1>4, <2>2, MaximaAssumption
    <3>2. PICK c \in charged : \A l \in Left : MaxTransactionId - PaymentId(c, payers) <= l
      BY <3>1, LeastNatural
    <3>3. ASSUME NEW d \in charged
          PROVE  d = c \/ d \in Below(c)
      <4>1. c \in Nat /\ d \in Nat
        BY <1>1
      <4>2. PaymentId(d, payers) <= PaymentId(c, payers)
        <5>1. MaxTransactionId - PaymentId(c, payers) <= MaxTransactionId - PaymentId(d, payers)
          BY <3>2
        <5>2. PaymentId(c, payers) \in Nat /\ PaymentId(d, payers) \in Nat
          BY <1>2, <1>4
        <5> QED
          BY <5>1, <5>2, MaximaAssumption
      <4>3. ~(c < d)
        BY <1>2, <1>4, <1>5, <4>2
      <4> QED
        BY <4>1, <4>3 DEF Below
    <3>4. /\ IsFiniteSet(Below(c) \cup {c})
          /\ Cardinality(Below(c) \cup {c}) <= Cardinality(Below(c)) + 1
      <4>1. /\ IsFiniteSet(Below(c))
            /\ Cardinality(Below(c)) \in Nat
        BY <1>4
      <4>2. /\ IsFiniteSet(Below(c) \cup {c})
            /\ Cardinality(Below(c) \cup {c}) =
                 IF c \in Below(c) THEN Cardinality(Below(c)) ELSE Cardinality(Below(c)) + 1
        BY <4>1, FS_AddElement
      <4> QED
        BY <4>1, <4>2
    <3>5. charged \in SUBSET (Below(c) \cup {c})
      BY <3>3
    <3>6. Cardinality(charged) <= Cardinality(Below(c) \cup {c})
      BY <3>4, <3>5, FS_Subset
    <3>7. Cardinality(Below(c) \cup {c}) \in Nat
      BY <3>4, FS_CardinalityType
    <3>8. Cardinality(charged) <= Cardinality(Below(c)) + 1
      BY <1>3, <1>4, <3>4, <3>6, <3>7
    <3> QED
      BY <1>2, <1>3, <1>4, <3>8, MaximaAssumption
  <2> QED
    BY <2>1, <2>2
<1> HIDE DEF charged
<1> QED
  <2>1. ASSUME NEW c \in charged
        PROVE  /\ PaymentId(c, payers) \in Nat
               /\ next_transaction_id <= PaymentId(c, payers)
               /\ PaymentId(c, payers) < next_transaction_id + Cardinality(charged)
    BY <1>2, <1>3, <1>4, <1>7 DEF charged
  <2> QED
    BY <1>3, <1>6, <1>8, <2>1 DEF charged

-----------------------------------------------------------------------------
(* The type invariant.                                                     *)

\* A new account is within the bounds when its opening balance is.
LEMMA CreateAccountType ==
    ASSUME TypeOK, NEW id \in AccountIds, NEW opening \in Amounts,
           CreateAccount(id, opening)
    PROVE  TypeOK'
<1> DEFINE opened == [status |-> "Active", balance |-> opening, loan_balance |-> 0,
                      transactions |-> <<[id |-> next_transaction_id,
                                          kind |-> "AccountCreated",
                                          amount |-> opening]>>]
<1>1. next_transaction_id \in Nat /\ opening \in Nat /\ opening <= MaxCents
  BY AmountsAssumption DEF TypeOK, CreateAccount
<1>2. opened \in Account
  <2>1. [id |-> next_transaction_id, kind |-> "AccountCreated", amount |-> opening]
          \in Transaction
    BY <1>1 DEF Transaction, Kinds, Credits
  <2> QED
    BY <1>1, <2>1 DEF Account, Statuses
<1>3. opened.balance \in 0..MaxCents /\ opened.loan_balance \in 0..MaxCents
  BY <1>1, MaximaAssumption
<1>4. accounts' = [a \in DOMAIN accounts \cup {id} |-> IF a = id THEN opened ELSE accounts[a]]
  BY DEF CreateAccount
<1>5. next_transaction_id' \in 1..MaxTransactionId
  BY <1>1, MaximaAssumption DEF CreateAccount, IdsLeft
<1> HIDE DEF opened
<1> QED
  BY <1>2, <1>3, <1>4, <1>5 DEF TypeOK

LEMMA TakeType ==
    ASSUME TypeOK, NEW id \in AccountIds, NEW amount \in Amounts, NEW kind \in Kinds,
           Take(id, amount, kind)
    PROVE  TypeOK'
<1> DEFINE account == WithBalance(id, accounts[id].balance - amount)
<1>1. id \in DOMAIN accounts /\ amount \in Int
  BY AmountsAssumption DEF Take, CanTransact, Exists
<1>2. accounts[id].balance - amount \in 0..MaxCents
  BY <1>1, MaximaAssumption DEF TypeOK, Take, HasFunds
<1>3. /\ account \in Account
      /\ account.balance \in 0..MaxCents
      /\ account.loan_balance \in 0..MaxCents
  BY <1>1, <1>2, BalanceInRange
<1>4. Post(id, account, kind, amount)
  BY DEF Take
<1> QED
  BY <1>1, <1>3, <1>4, PostType

LEMMA DepositType ==
    ASSUME TypeOK, NEW id \in AccountIds, NEW amount \in Amounts, Deposit(id, amount)
    PROVE  TypeOK'
<1> DEFINE balance == accounts[id].balance + amount
<1>1. id \in DOMAIN accounts /\ amount \in Int /\ amount > 0
  BY AmountsAssumption DEF Deposit, CanTransact, Exists
<1>2. CASE balance > MaxCents /\ Forfeit
  BY <1>2, ForfeitType
<1>3. CASE /\ balance <= MaxCents
           /\ Post(id, WithBalance(id, balance), "Deposit", amount)
  <2>1. balance \in 0..MaxCents
    BY <1>1, <1>3, MaximaAssumption DEF TypeOK
  <2>2. /\ WithBalance(id, balance) \in Account
        /\ WithBalance(id, balance).balance \in 0..MaxCents
        /\ WithBalance(id, balance).loan_balance \in 0..MaxCents
    BY <1>1, <2>1, BalanceInRange
  <2>3. "Deposit" \in Kinds
    BY DEF Kinds, Credits
  <2> QED
    BY <1>1, <1>3, <2>2, <2>3, PostType
<1> QED
  BY <1>2, <1>3 DEF Deposit

LEMMA ApplyInterestType ==
    ASSUME TypeOK, NEW id \in AccountIds, NEW rate \in Rates, ApplyInterest(id, rate)
    PROVE  TypeOK'
<1> DEFINE interest == Percentage(accounts[id].balance, rate)
           balance  == accounts[id].balance + interest
<1>1. id \in DOMAIN accounts /\ rate \in Nat /\ accounts[id].balance \in Nat
  BY RatesAssumption, MaximaAssumption DEF ApplyInterest, CanTransact, Exists, TypeOK
<1>2. interest \in Nat
  BY <1>1, RatesAssumption, PercentageNat
<1>3. CASE balance > MaxCents /\ Forfeit
  BY <1>3, ForfeitType
<1>4. CASE /\ balance <= MaxCents
           /\ Post(id, WithBalance(id, balance), "Interest", interest)
  <2> HIDE DEF interest
  <2>1. balance \in 0..MaxCents
    BY <1>1, <1>2, <1>4, MaximaAssumption
  <2>2. /\ WithBalance(id, balance) \in Account
        /\ WithBalance(id, balance).balance \in 0..MaxCents
        /\ WithBalance(id, balance).loan_balance \in 0..MaxCents
    BY <1>1, <2>1, BalanceInRange
  <2>3. "Interest" \in Kinds /\ interest \in Int
    BY <1>2 DEF Kinds, Credits
  <2> QED
    BY <1>1, <1>4, <2>2, <2>3, PostType
<1> QED
  BY <1>3, <1>4 DEF ApplyInterest

LEMMA RequestLoanType ==
    ASSUME TypeOK, NEW id \in AccountIds, NEW amount \in Amounts, RequestLoan(id, amount)
    PROVE  TypeOK'
<1> DEFINE balance == accounts[id].balance + amount
           loan    == accounts[id].loan_balance + amount
           account == [WithBalance(id, balance) EXCEPT !.loan_balance = loan]
<1>1. id \in DOMAIN accounts /\ amount \in Int /\ amount > 0
  BY AmountsAssumption DEF RequestLoan, CanTransact, Exists
<1>2. balance \in Nat /\ loan \in Nat
  BY <1>1, MaximaAssumption DEF TypeOK
<1>3. CASE balance > MaxCents /\ Forfeit
  BY <1>3, ForfeitType
<1>4. CASE /\ balance <= MaxCents /\ loan <= MaxCents
           /\ Post(id, account, "LoanRequested", amount)
  <2>1. /\ account \in Account
        /\ account.balance \in 0..MaxCents
        /\ account.loan_balance \in 0..MaxCents
    BY <1>1, <1>2, <1>4, MaximaAssumption, LoanFieldTypes
  <2>2. "LoanRequested" \in Kinds
    BY DEF Kinds, Credits
  <2> QED
    BY <1>1, <1>4, <2>1, <2>2, PostType
<1>5. CASE /\ balance <= MaxCents
           /\ IdsLeft(1)
           /\ accounts' = [accounts EXCEPT ![id] = WithBalance(id, balance)]
           /\ next_transaction_id' = next_transaction_id + 1
  <2>0. balance \in 0..MaxCents
    BY <1>2, <1>5, MaximaAssumption
  <2>1. /\ WithBalance(id, balance) \in Account
        /\ WithBalance(id, balance).balance \in 0..MaxCents
        /\ WithBalance(id, balance).loan_balance \in 0..MaxCents
    BY <1>1, <2>0, BalanceInRange
  <2>2. next_transaction_id' \in 1..MaxTransactionId
    BY <1>5, MaximaAssumption DEF TypeOK, IdsLeft
  <2> QED
    BY <1>5, <2>1, <2>2 DEF TypeOK
<1> QED
  BY <1>3, <1>4, <1>5 DEF RequestLoan

LEMMA PayLoanType ==
    ASSUME TypeOK, NEW id \in AccountIds, NEW amount \in Amounts, PayLoan(id, amount)
    PROVE  TypeOK'
<1> DEFINE loan    == accounts[id].loan_balance
           payment == IF amount < loan THEN amount ELSE loan
           balance == accounts[id].balance - payment
           account == [WithBalance(id, balance) EXCEPT !.loan_balance = loan - payment]
<1>1. id \in DOMAIN accounts /\ amount \in Int /\ amount > 0
  BY AmountsAssumption DEF PayLoan, CanTransact, Exists
<1>2. payment \in Nat /\ balance \in 0..MaxCents /\ loan - payment \in 0..MaxCents
  BY <1>1, MaximaAssumption DEF TypeOK, PayLoan, HasFunds
<1>3. /\ account \in Account
      /\ account.balance \in 0..MaxCents
      /\ account.loan_balance \in 0..MaxCents
  <2> HIDE DEF loan, payment, balance
  <2> QED
    BY <1>1, <1>2, MaximaAssumption, LoanFieldTypes
<1>4. Post(id, account, "LoanPayment", payment)
  BY DEF PayLoan
<1>5. "LoanPayment" \in Kinds
  BY DEF Kinds, Debits
<1> HIDE DEF account, payment
<1> QED
  BY <1>1, <1>2, <1>3, <1>4, <1>5, PostType

LEMMA WithStatusInRange ==
    ASSUME TypeOK, NEW id \in DOMAIN accounts, NEW status \in Statuses
    PROVE  /\ WithStatus(id, status) \in Account
           /\ WithStatus(id, status).balance \in 0..MaxCents
           /\ WithStatus(id, status).loan_balance \in 0..MaxCents
<1>1. accounts[id].balance \in 0..MaxCents /\ accounts[id].loan_balance \in 0..MaxCents
  BY DEF TypeOK
<1> QED
  BY <1>1, WithStatusType

\* A note on the account: its profile or its status changes, its money does not.
LEMMA NoteType ==
    ASSUME TypeOK, NEW id \in AccountIds,
           \/ UpdateProfile(id) \/ ActivateAccount(id)
           \/ DeactivateAccount(id) \/ CloseAccount(id)
    PROVE  TypeOK'
<1>1. id \in DOMAIN accounts
  BY DEF UpdateProfile, ActivateAccount, DeactivateAccount, CloseAccount,
         OwesAndHoldsNothing, Exists
<1>2. Notes \subseteq Kinds /\ 0 \in Int
  BY DEF Kinds
<1>3. CASE UpdateProfile(id)
  <2>1. /\ accounts[id] \in Account
        /\ accounts[id].balance \in 0..MaxCents
        /\ accounts[id].loan_balance \in 0..MaxCents
    BY <1>1 DEF TypeOK
  <2>2. Post(id, accounts[id], "ProfileUpdated", 0) /\ "ProfileUpdated" \in Kinds
    BY <1>2, <1>3 DEF UpdateProfile, Notes
  <2> QED
    BY <1>1, <1>2, <2>1, <2>2, PostType
<1>4. ASSUME NEW status \in Statuses, NEW kind \in Notes,
             Post(id, WithStatus(id, status), kind, 0)
      PROVE  TypeOK'
  <2>1. kind \in Kinds
    BY <1>2
  <2> QED
    BY <1>1, <1>2, <1>4, <2>1, WithStatusInRange, PostType
<1>5. CASE ActivateAccount(id)
  BY <1>4, <1>5 DEF ActivateAccount, Statuses, Notes
<1>6. CASE DeactivateAccount(id)
  BY <1>4, <1>6 DEF DeactivateAccount, Statuses, Notes
<1>7. CASE CloseAccount(id)
  BY <1>4, <1>7 DEF CloseAccount, Statuses, Notes
<1> QED
  BY <1>3, <1>5, <1>6, <1>7

LEMMA TransferType ==
    ASSUME TypeOK, NEW from \in AccountIds, NEW to \in AccountIds,
           NEW amount \in Amounts, Transfer(from, to, amount)
    PROVE  TypeOK'
<1> DEFINE paid     == WithBalance(from, accounts[from].balance - amount)
           received == WithBalance(to, accounts[to].balance + amount)
           out      == Recorded(paid, next_transaction_id, "TransferOut", amount)
           in       == Recorded(received, next_transaction_id + 1, "TransferIn", amount)
<1>1. /\ from \in DOMAIN accounts /\ to \in DOMAIN accounts /\ from # to
      /\ amount \in Int /\ amount > 0
  BY AmountsAssumption DEF Transfer, CanTransact, Exists
<1>2. /\ accounts[from].balance - amount \in 0..MaxCents
      /\ accounts[to].balance + amount \in 0..MaxCents
  BY <1>1, MaximaAssumption DEF TypeOK, Transfer, HasFunds
<1>3. /\ paid \in Account /\ paid.balance \in 0..MaxCents
      /\ paid.loan_balance \in 0..MaxCents
      /\ received \in Account /\ received.balance \in 0..MaxCents
      /\ received.loan_balance \in 0..MaxCents
  BY <1>1, <1>2, BalanceInRange
<1>4. next_transaction_id \in Nat /\ "TransferOut" \in Kinds /\ "TransferIn" \in Kinds
  BY DEF TypeOK, Kinds, Credits, Debits
<1> HIDE DEF paid, received
<1>5. /\ out \in Account /\ out.balance \in 0..MaxCents
      /\ out.loan_balance \in 0..MaxCents
  <2>1. /\ paid \in Account /\ next_transaction_id \in Nat /\ "TransferOut" \in Kinds
        /\ amount \in Int
    BY <1>1, <1>3, <1>4
  <2>2. out \in Account /\ out.balance = paid.balance /\ out.loan_balance = paid.loan_balance
    BY <2>1, RecordedType
  <2> QED
    BY <1>3, <2>2
<1>6. /\ in \in Account /\ in.balance \in 0..MaxCents
      /\ in.loan_balance \in 0..MaxCents
  <2>1. /\ received \in Account /\ next_transaction_id + 1 \in Nat
        /\ "TransferIn" \in Kinds /\ amount \in Int
    BY <1>1, <1>3, <1>4
  <2>2. /\ in \in Account /\ in.balance = received.balance
        /\ in.loan_balance = received.loan_balance
    BY <2>1, RecordedType
  <2> QED
    BY <1>3, <2>2
<1>7. CASE Forfeit
  BY <1>7, ForfeitType
<1>8. CASE /\ IdsLeft(2)
           /\ accounts' = [accounts EXCEPT ![from] = out, ![to] = in]
           /\ next_transaction_id' = next_transaction_id + 2
  <2> HIDE DEF out, in
  <2>1. next_transaction_id' \in 1..MaxTransactionId
    BY <1>8, MaximaAssumption DEF TypeOK, IdsLeft
  <2>2. DOMAIN accounts' = DOMAIN accounts
    BY <1>8
  <2>3. ASSUME NEW a \in DOMAIN accounts
        PROVE  /\ accounts'[a] \in Account
               /\ accounts'[a].balance \in 0..MaxCents
               /\ accounts'[a].loan_balance \in 0..MaxCents
    BY <1>1, <1>5, <1>6, <1>8 DEF TypeOK
  <2> QED
    BY <2>1, <2>2, <2>3 DEF TypeOK
<1> QED
  BY <1>7, <1>8 DEF Transfer, paid, received

LEMMA ApplyMonthlyFeeType ==
    ASSUME TypeOK, NEW amount \in Amounts, ApplyMonthlyFee(amount)
    PROVE  TypeOK'
<1> DEFINE payers  == MonthlyFeePayers(amount)
           charged == {id \in payers : PaymentId(id, payers) < MaxTransactionId}
           account(id) == WithBalance(id, accounts[id].balance - amount)
<1>1. amount \in Int /\ amount > 0 /\ next_transaction_id \in Nat
  BY AmountsAssumption DEF ApplyMonthlyFee, TypeOK
<1>2. payers \in SUBSET DOMAIN accounts
  BY DEF MonthlyFeePayers
<1>3. /\ Cardinality(charged) \in Nat
      /\ next_transaction_id + Cardinality(charged) <= MaxTransactionId
      /\ \A c \in charged : PaymentId(c, payers) \in Nat
  BY <1>2, MonthlyFeeIds
<1>4. /\ accounts' =
           [id \in DOMAIN accounts |->
              IF id \in charged
              THEN Recorded(account(id), PaymentId(id, payers), "Fee", amount)
              ELSE accounts[id]]
      /\ next_transaction_id' = next_transaction_id + Cardinality(charged)
  BY DEF ApplyMonthlyFee
<1>5. ASSUME NEW id \in charged
      PROVE  LET written == Recorded(account(id), PaymentId(id, payers), "Fee", amount)
             IN  /\ written \in Account
                 /\ written.balance \in 0..MaxCents
                 /\ written.loan_balance \in 0..MaxCents
  <2>1. accounts[id].balance - amount \in 0..MaxCents
    BY <1>1, <1>2, MaximaAssumption DEF TypeOK, MonthlyFeePayers, HasFunds
  <2>2. /\ account(id) \in Account
        /\ account(id).balance \in 0..MaxCents
        /\ account(id).loan_balance \in 0..MaxCents
    BY <1>2, <2>1, BalanceInRange
  <2>3. "Fee" \in Kinds
    BY DEF Kinds, Debits
  <2> DEFINE n == PaymentId(id, payers)
             before == account(id)
             written == Recorded(before, n, "Fee", amount)
  <2> HIDE DEF account
  <2>4. before \in Account /\ n \in Nat /\ amount \in Int
    BY <1>1, <1>3, <2>2
  <2> HIDE DEF before, n
  <2>5. /\ written \in Account /\ written.balance = before.balance
        /\ written.loan_balance = before.loan_balance
    BY <2>3, <2>4, RecordedType
  <2> HIDE DEF written
  <2>6. /\ written \in Account
        /\ written.balance \in 0..MaxCents
        /\ written.loan_balance \in 0..MaxCents
    BY <2>2, <2>5 DEF before
  <2> QED
    BY <2>6 DEF written, before, n
<1>6. next_transaction_id' \in 1..MaxTransactionId
  BY <1>1, <1>3, <1>4, MaximaAssumption DEF TypeOK
<1> HIDE DEF charged, account
<1>7. ASSUME NEW a \in DOMAIN accounts
      PROVE  /\ accounts'[a] \in Account
             /\ accounts'[a].balance \in 0..MaxCents
             /\ accounts'[a].loan_balance \in 0..MaxCents
  BY <1>4, <1>5 DEF TypeOK
<1> QED
  BY <1>4, <1>6, <1>7 DEF TypeOK

LEMMA ReloadType ==
    ASSUME TypeOK, Reload
    PROVE  TypeOK'
<1>1. PICK largest \in RecordedIds \cup {0} : next_transaction_id' = largest + 1
  BY DEF Reload
<1>2. ASSUME NEW n \in RecordedIds
      PROVE  n \in Nat /\ n < MaxTransactionId
  <2>1. PICK a \in DOMAIN accounts : \E i \in DOMAIN TransactionsOf(a) :
          n = TransactionsOf(a)[i].id
    BY DEF RecordedIds
  <2>2. n \in Nat
    BY <2>1, HistoryType
  <2> QED
    BY <2>2 DEF Reload, Importable
<1>3. next_transaction_id' \in 1..MaxTransactionId
  BY <1>1, <1>2, MaximaAssumption
<1> QED
  BY <1>3 DEF TypeOK, Reload

\* The state always has its type: in every history of calls balances and
\* loans stay between zero and the largest amount, and ids below the largest.
THEOREM TypeInvariant == Spec => []TypeOK
<1>1. Init => TypeOK
  BY MaximaAssumption DEF Init, TypeOK
<1>2. TypeOK /\ [Next]_vars => TypeOK'
  <2> SUFFICES ASSUME TypeOK, [Next]_vars
               PROVE  TypeOK'
    OBVIOUS
  <2>1. ASSUME NEW id \in AccountIds, NEW amount \in Amounts, CreateAccount(id, amount)
        PROVE  TypeOK'
    BY <2>1, CreateAccountType
  <2>2. ASSUME NEW id \in AccountIds,
               \/ UpdateProfile(id) \/ ActivateAccount(id)
               \/ DeactivateAccount(id) \/ CloseAccount(id)
        PROVE  TypeOK'
    BY <2>2, NoteType
  <2>3. ASSUME NEW id \in AccountIds, DeleteAccount(id)
        PROVE  TypeOK'
    BY <2>3 DEF TypeOK, DeleteAccount
  <2>4. ASSUME NEW id \in AccountIds, NEW rate \in Rates, ApplyInterest(id, rate)
        PROVE  TypeOK'
    BY <2>4, ApplyInterestType
  <2>5. ASSUME NEW id \in AccountIds, NEW amount \in Amounts, Deposit(id, amount)
        PROVE  TypeOK'
    BY <2>5, DepositType
  <2>6. ASSUME NEW id \in AccountIds, NEW amount \in Amounts,
               Withdraw(id, amount) \/ ApplyFee(id, amount)
        PROVE  TypeOK'
    <3>1. "Withdrawal" \in Kinds /\ "Fee" \in Kinds
      BY DEF Kinds, Debits
    <3> QED
      BY <2>6, <3>1, TakeType DEF Withdraw, ApplyFee
  <2>7. ASSUME NEW id \in AccountIds, NEW amount \in Amounts, RequestLoan(id, amount)
        PROVE  TypeOK'
    BY <2>7, RequestLoanType
  <2>8. ASSUME NEW id \in AccountIds, NEW amount \in Amounts, PayLoan(id, amount)
        PROVE  TypeOK'
    BY <2>8, PayLoanType
  <2>9. ASSUME NEW from \in AccountIds, NEW to \in AccountIds, NEW amount \in Amounts,
               Transfer(from, to, amount)
        PROVE  TypeOK'
    BY <2>9, TransferType
  <2>10. ASSUME NEW amount \in Amounts, ApplyMonthlyFee(amount)
         PROVE  TypeOK'
    BY <2>10, ApplyMonthlyFeeType
  <2>11. CASE Reload
    BY <2>11, ReloadType
  <2>12. CASE UNCHANGED vars
    BY <2>12 DEF TypeOK, vars
  <2> QED
    BY <2>1, <2>2, <2>3, <2>4, <2>5, <2>6, <2>7, <2>8, <2>9, <2>10, <2>11, <2>12
       DEF Next
<1> QED
  BY <1>1, <1>2, PTL DEF Spec

-----------------------------------------------------------------------------
(* The histories.                                                          *)

\* The inductive invariant of the histories: uniqueness and order of the ids
\* hold up because every id still to be handed out is larger than all of them.
HistoryInv ==
    /\ HistoryOrdered
    /\ TransactionIdsUnique
    /\ \A n \in RecordedIds : n > 0
    /\ InboundTransfersTraceable

\* The history of an account after the step.
After(a) == accounts'[a].transactions

\* What every operation does to the histories: each account in the domain of
\* `entry` records that transaction, the others record nothing, and the ids
\* are taken from the next one on.
Grows(entry) ==
    /\ next_transaction_id <= next_transaction_id'
    /\ \A a \in DOMAIN entry :
         /\ entry[a] \in Transaction
         /\ next_transaction_id <= entry[a].id
         /\ entry[a].id < next_transaction_id'
         /\ entry[a].kind = "TransferIn" =>
              \E b \in DOMAIN entry \ {a} :
                /\ entry[b].id = entry[a].id - 1
                /\ entry[b].kind = "TransferOut"
                /\ entry[b].amount = entry[a].amount
    /\ \A a, b \in DOMAIN entry : entry[a].id = entry[b].id => a = b
    /\ \A a \in DOMAIN accounts' :
         \/ /\ a \in DOMAIN accounts /\ a \notin DOMAIN entry
            /\ After(a) = TransactionsOf(a)
         \/ /\ a \in DOMAIN accounts /\ a \in DOMAIN entry
            /\ After(a) = Append(TransactionsOf(a), entry[a])
         \/ /\ a \notin DOMAIN accounts /\ a \in DOMAIN entry
            /\ After(a) = <<entry[a]>>

\* In a step that grows the histories, a position holds an old transaction or
\* is the last one and holds the new one.
LEMMA GrownPositions ==
    ASSUME TypeOK, NEW entry, Grows(entry),
           NEW a \in DOMAIN accounts', NEW i \in DOMAIN After(a)
    PROVE  \/ /\ a \in DOMAIN accounts /\ i \in DOMAIN TransactionsOf(a)
              /\ After(a)[i] = TransactionsOf(a)[i]
           \/ /\ a \in DOMAIN entry /\ After(a)[i] = entry[a]
              /\ \A j \in DOMAIN After(a) :
                   \/ j = i
                   \/ j < i /\ a \in DOMAIN accounts /\ j \in DOMAIN TransactionsOf(a)
<1>1. CASE /\ a \in DOMAIN accounts /\ a \notin DOMAIN entry
           /\ After(a) = TransactionsOf(a)
  BY <1>1
<1>2. CASE /\ a \in DOMAIN accounts /\ a \in DOMAIN entry
           /\ After(a) = Append(TransactionsOf(a), entry[a])
  <2> DEFINE h == TransactionsOf(a)
             g == After(a)
  <2>1. h \in Seq(Transaction) /\ entry[a] \in Transaction
    BY <1>2, HistoryType DEF Grows
  <2> HIDE DEF h
  <2>2. /\ Len(h) \in Nat
        /\ DOMAIN h = 1..Len(h)
        /\ DOMAIN Append(h, entry[a]) = 1..Len(h) + 1
        /\ \A j \in 1..Len(h) : Append(h, entry[a])[j] = h[j]
        /\ Append(h, entry[a])[Len(h) + 1] = entry[a]
    BY <2>1
  <2>3. g = Append(h, entry[a])
    BY <1>2 DEF h
  <2>4. CASE i \in 1..Len(h)
    BY <1>2, <2>2, <2>3, <2>4 DEF h
  <2>5. CASE i = Len(h) + 1
    BY <1>2, <2>2, <2>3, <2>5 DEF h
  <2> QED
    BY <2>2, <2>3, <2>4, <2>5
<1>3. CASE /\ a \notin DOMAIN accounts /\ a \in DOMAIN entry
           /\ After(a) = <<entry[a]>>
  BY <1>3
<1> QED
  BY <1>1, <1>2, <1>3 DEF Grows

LEMMA GrowthKeepsHistories ==
    ASSUME TypeOK, HistoryInv, NEW entry, Grows(entry), next_transaction_id' \in Nat
    PROVE  HistoryInv'
<1> DEFINE old(a, i) == /\ a \in DOMAIN accounts /\ i \in DOMAIN TransactionsOf(a)
                        /\ After(a)[i] = TransactionsOf(a)[i]
           new(a, i) == /\ a \in DOMAIN entry /\ After(a)[i] = entry[a]
                        /\ \A j \in DOMAIN After(a) :
                             \/ j = i
                             \/ /\ j < i /\ a \in DOMAIN accounts
                                /\ j \in DOMAIN TransactionsOf(a)
<1>1. ASSUME NEW a \in DOMAIN accounts', NEW i \in DOMAIN After(a)
      PROVE  old(a, i) \/ new(a, i)
  BY GrownPositions
<1>2. next_transaction_id \in Nat
  BY DEF TypeOK
<1>3. ASSUME NEW a \in DOMAIN accounts', NEW i \in DOMAIN After(a), old(a, i)
      PROVE  /\ After(a)[i].id \in Nat
             /\ After(a)[i].id > 0
             /\ After(a)[i].id < next_transaction_id
  <2>1. After(a)[i].id \in RecordedIds
    BY <1>3 DEF RecordedIds
  <2>2. After(a)[i].id \in Nat
    BY <1>3, HistoryType
  <2> QED
    BY <2>1, <2>2 DEF HistoryInv, HistoryOrdered
<1>4. ASSUME NEW a \in DOMAIN accounts', NEW i \in DOMAIN After(a), new(a, i)
      PROVE  /\ After(a)[i].id \in Nat
             /\ next_transaction_id <= After(a)[i].id
             /\ After(a)[i].id < next_transaction_id'
  BY <1>4 DEF Grows, Transaction
<1>5. next_transaction_id > 0 /\ next_transaction_id <= next_transaction_id'
  BY MaximaAssumption DEF TypeOK, Grows
<1> HIDE DEF old, new
<1>6. ASSUME NEW n \in RecordedIds'
      PROVE  n > 0 /\ n < next_transaction_id'
  <2>1. PICK a \in DOMAIN accounts' : \E i \in DOMAIN After(a) : n = After(a)[i].id
    BY DEF RecordedIds, TransactionsOf, After
  <2> QED
    BY <1>1, <1>2, <1>3, <1>4, <1>5, <2>1
<1>7. ASSUME NEW a \in DOMAIN accounts',
             NEW i \in DOMAIN After(a), NEW j \in DOMAIN After(a), i < j
      PROVE  After(a)[i].id < After(a)[j].id
  <2>1. CASE old(a, i) /\ old(a, j)
    BY <1>7, <2>1 DEF HistoryInv, HistoryOrdered, old
  <2>2. CASE old(a, i) /\ new(a, j)
    BY <1>2, <1>3, <1>4, <2>2
  <2>3. CASE new(a, i)
    <3>1. j = i \/ j < i
      BY <2>3 DEF new
    <3>2. i \in Nat /\ j \in Nat
      <4>1. After(a) \in Seq(Transaction)
        <5>1. a \in DOMAIN accounts => TransactionsOf(a) \in Seq(Transaction)
          BY HistoryType
        <5>2. a \in DOMAIN entry /\ entry[a] \in Transaction
          BY <2>3 DEF new, Grows
        <5>3. \/ /\ a \in DOMAIN accounts
                 /\ After(a) = Append(TransactionsOf(a), entry[a])
              \/ After(a) = <<entry[a]>>
          BY <5>2 DEF Grows
        <5>4. <<entry[a]>> \in Seq(Transaction)
          BY <5>2
        <5>5. ASSUME NEW h \in Seq(Transaction)
              PROVE  Append(h, entry[a]) \in Seq(Transaction)
          BY <5>2
        <5> QED
          BY <5>1, <5>3, <5>4, <5>5
      <4> QED
        BY <4>1
    <3> QED
      BY <1>7, <3>1, <3>2
  <2> QED
    BY <1>1, <2>1, <2>2, <2>3
<1>8. ASSUME NEW a \in DOMAIN accounts', NEW b \in DOMAIN accounts',
             NEW i \in DOMAIN After(a), NEW j \in DOMAIN After(b),
             After(a)[i].id = After(b)[j].id
      PROVE  a = b /\ i = j
  <2>1. CASE old(a, i) /\ old(b, j)
    BY <1>8, <2>1 DEF HistoryInv, TransactionIdsUnique, old
  <2>2. CASE old(a, i) /\ new(b, j)
    BY <1>2, <1>3, <1>4, <1>8, <2>2
  <2>3. CASE new(a, i) /\ old(b, j)
    BY <1>2, <1>3, <1>4, <1>8, <2>3
  <2>4. CASE new(a, i) /\ new(b, j)
    <3>1. a = b
      BY <1>8, <2>4 DEF new, Grows
    <3>2. ~(i < j) /\ (j = i \/ j < i)
      BY <1>7, <1>8, <1>4, <2>4, <3>1 DEF new
    <3>3. (i = j \/ i < j)
      BY <2>4, <3>1 DEF new
    <3> QED
      BY <3>1, <3>2, <3>3
  <2> QED
    BY <1>1, <2>1, <2>2, <2>3, <2>4
<1>9. ASSUME NEW a \in DOMAIN accounts', NEW b \in DOMAIN accounts',
             NEW i \in DOMAIN After(a), NEW j \in DOMAIN After(b),
             After(a)[i].kind = "TransferIn",
             After(b)[j].id = After(a)[i].id - 1
      PROVE  /\ a # b
             /\ After(b)[j].kind = "TransferOut"
             /\ After(b)[j].amount = After(a)[i].amount
  <2>1. CASE old(a, i) /\ old(b, j)
    BY <1>9, <2>1 DEF HistoryInv, InboundTransfersTraceable, old
  <2>2. CASE old(a, i) /\ new(b, j)
    BY <1>2, <1>3, <1>4, <1>9, <2>2
  <2>3. CASE new(a, i)
    <3>1. /\ After(a)[i] = entry[a] /\ a \in DOMAIN entry
          /\ entry[a].kind = "TransferIn"
      BY <1>9, <2>3 DEF new
    <3>2. PICK c \in DOMAIN entry \ {a} : /\ entry[c].id = entry[a].id - 1
                                          /\ entry[c].kind = "TransferOut"
                                          /\ entry[c].amount = entry[a].amount
      BY <3>1 DEF Grows
    <3>3. After(b)[j].id = entry[c].id
      BY <1>9, <3>1, <3>2
    <3>4. next_transaction_id <= entry[c].id
      BY DEF Grows
    <3>5. ~old(b, j)
      BY <1>2, <1>3, <3>3, <3>4
    <3>6. new(b, j)
      BY <1>1, <3>5
    <3>7. b = c /\ After(b)[j] = entry[c]
      BY <3>3, <3>6 DEF new, Grows
    <3> QED
      BY <3>1, <3>2, <3>7
  <2> QED
    BY <1>1, <2>1, <2>2, <2>3
<1> QED
  BY <1>6, <1>7, <1>8, <1>9
     DEF HistoryInv, HistoryOrdered, TransactionIdsUnique, InboundTransfersTraceable,
         TransactionsOf, After

\* A step that records nothing, whatever else it does.
LEMMA SameHistories ==
    ASSUME TypeOK, HistoryInv,
           DOMAIN accounts' \subseteq DOMAIN accounts,
           \A a \in DOMAIN accounts' : After(a) = TransactionsOf(a),
           next_transaction_id' \in Nat, next_transaction_id <= next_transaction_id'
    PROVE  HistoryInv'
<1> DEFINE entry == [a \in {} |-> {}]
<1>1. DOMAIN entry = {}
  OBVIOUS
<1> HIDE DEF entry
<1>2. Grows(entry)
  BY <1>1 DEF Grows
<1> QED
  BY <1>2, GrowthKeepsHistories

\* An operation on one account records one transaction on it.
LEMMA PostKeepsHistories ==
    ASSUME TypeOK, HistoryInv, NEW id \in DOMAIN accounts, NEW account \in Account,
           account.transactions = TransactionsOf(id),
           NEW kind \in Kinds \ {"TransferIn"}, NEW amount \in Int,
           Post(id, account, kind, amount)
    PROVE  HistoryInv'
<1> DEFINE t     == [id |-> next_transaction_id, kind |-> kind, amount |-> amount]
           entry == [a \in {id} |-> t]
<1>1. next_transaction_id \in Nat /\ t \in Transaction
  BY DEF TypeOK, Transaction
<1>2. Recorded(account, next_transaction_id, kind, amount).transactions =
        Append(TransactionsOf(id), t)
  BY <1>1, RecordedType
<1>3. /\ DOMAIN accounts' = DOMAIN accounts
      /\ accounts'[id] = Recorded(account, next_transaction_id, kind, amount)
      /\ \A a \in DOMAIN accounts \ {id} : accounts'[a] = accounts[a]
      /\ next_transaction_id' = next_transaction_id + 1
  BY DEF Post
<1>4. /\ After(id) = Append(TransactionsOf(id), t)
      /\ \A a \in DOMAIN accounts \ {id} : After(a) = TransactionsOf(a)
  BY <1>2, <1>3 DEF After, TransactionsOf
<1>5. DOMAIN entry = {id} /\ entry[id] = t
  OBVIOUS
<1>6. t.id = next_transaction_id /\ t.kind # "TransferIn"
  OBVIOUS
<1> HIDE DEF t, entry
<1>7. Grows(entry)
  BY <1>1, <1>3, <1>4, <1>5, <1>6 DEF Grows
<1>8. next_transaction_id' \in Nat
  BY <1>1, <1>3
<1> QED
  BY <1>7, <1>8, GrowthKeepsHistories

LEMMA ForfeitKeepsHistories ==
    ASSUME TypeOK, HistoryInv, Forfeit
    PROVE  HistoryInv'
<1>1. /\ next_transaction_id \in Nat
      /\ next_transaction_id' = next_transaction_id + 1
      /\ accounts' = accounts
  BY DEF TypeOK, Forfeit
<1>2. \A a \in DOMAIN accounts' : After(a) = TransactionsOf(a)
  BY <1>1 DEF After, TransactionsOf
<1> QED
  BY <1>1, <1>2, SameHistories

LEMMA CreateAccountKeepsHistories ==
    ASSUME TypeOK, HistoryInv, NEW id \in AccountIds, NEW opening \in Amounts,
           CreateAccount(id, opening)
    PROVE  HistoryInv'
<1> DEFINE t     == [id |-> next_transaction_id, kind |-> "AccountCreated",
                     amount |-> opening]
           entry == [a \in {id} |-> t]
<1>1. next_transaction_id \in Nat /\ t \in Transaction
  BY AmountsAssumption DEF TypeOK, Transaction, Kinds, Credits
<1>2. /\ id \notin DOMAIN accounts
      /\ DOMAIN accounts' = DOMAIN accounts \cup {id}
      /\ next_transaction_id' = next_transaction_id + 1
  BY DEF CreateAccount, Exists
<1>3. After(id) = <<t>> /\ \A a \in DOMAIN accounts : After(a) = TransactionsOf(a)
  BY <1>2 DEF CreateAccount, After, TransactionsOf
<1>4. DOMAIN entry = {id} /\ entry[id] = t
  OBVIOUS
<1>5. t.id = next_transaction_id /\ t.kind # "TransferIn"
  OBVIOUS
<1> HIDE DEF t, entry
<1>6. Grows(entry)
  BY <1>1, <1>2, <1>3, <1>4, <1>5 DEF Grows
<1>7. next_transaction_id' \in Nat
  BY <1>1, <1>2
<1> QED
  BY <1>6, <1>7, GrowthKeepsHistories

LEMMA TakeKeepsHistories ==
    ASSUME TypeOK, HistoryInv, NEW id \in AccountIds, NEW amount \in Amounts,
           NEW kind \in Kinds \ {"TransferIn"}, Take(id, amount, kind)
    PROVE  HistoryInv'
<1> DEFINE balance == accounts[id].balance - amount
<1>1. id \in DOMAIN accounts /\ amount \in Int
  BY AmountsAssumption DEF Take, CanTransact, Exists
<1>2. balance \in Int
  BY <1>1, MaximaAssumption DEF TypeOK
<1>3. Post(id, WithBalance(id, balance), kind, amount)
  BY DEF Take
<1> HIDE DEF balance
<1>4. /\ WithBalance(id, balance) \in Account
      /\ WithBalance(id, balance).transactions = TransactionsOf(id)
  BY <1>1, <1>2, WithBalanceType
<1> QED
  BY <1>1, <1>3, <1>4, PostKeepsHistories

LEMMA DepositKeepsHistories ==
    ASSUME TypeOK, HistoryInv, NEW id \in AccountIds, NEW amount \in Amounts,
           Deposit(id, amount)
    PROVE  HistoryInv'
<1> DEFINE balance == accounts[id].balance + amount
<1>1. id \in DOMAIN accounts /\ amount \in Int
  BY AmountsAssumption DEF Deposit, CanTransact, Exists
<1>2. balance \in Int
  BY <1>1, MaximaAssumption DEF TypeOK
<1>3. \/ Post(id, WithBalance(id, balance), "Deposit", amount)
      \/ Forfeit
  BY DEF Deposit
<1> HIDE DEF balance
<1>4. /\ WithBalance(id, balance) \in Account
      /\ WithBalance(id, balance).transactions = TransactionsOf(id)
  BY <1>1, <1>2, WithBalanceType
<1>5. "Deposit" \in Kinds \ {"TransferIn"}
  BY DEF Kinds, Credits
<1> QED
  BY <1>1, <1>3, <1>4, <1>5, PostKeepsHistories, ForfeitKeepsHistories

LEMMA ApplyInterestKeepsHistories ==
    ASSUME TypeOK, HistoryInv, NEW id \in AccountIds, NEW rate \in Rates,
           ApplyInterest(id, rate)
    PROVE  HistoryInv'
<1> DEFINE interest == Percentage(accounts[id].balance, rate)
           balance  == accounts[id].balance + interest
<1>1. id \in DOMAIN accounts /\ rate \in Nat /\ accounts[id].balance \in Nat
  BY RatesAssumption, MaximaAssumption DEF ApplyInterest, CanTransact, Exists, TypeOK
<1>2. interest \in Nat
  BY <1>1, RatesAssumption, PercentageNat
<1>3. \/ Post(id, WithBalance(id, balance), "Interest", interest)
      \/ Forfeit
  BY DEF ApplyInterest
<1> HIDE DEF interest
<1>4. balance \in Int
  BY <1>1, <1>2
<1> HIDE DEF balance
<1>5. /\ WithBalance(id, balance) \in Account
      /\ WithBalance(id, balance).transactions = TransactionsOf(id)
  BY <1>1, <1>4, WithBalanceType
<1>6. "Interest" \in Kinds \ {"TransferIn"} /\ interest \in Int
  BY <1>2 DEF Kinds, Credits
<1> QED
  BY <1>1, <1>3, <1>5, <1>6, PostKeepsHistories, ForfeitKeepsHistories

LEMMA RequestLoanKeepsHistories ==
    ASSUME TypeOK, HistoryInv, NEW id \in AccountIds, NEW amount \in Amounts,
           RequestLoan(id, amount)
    PROVE  HistoryInv'
<1> DEFINE balance == accounts[id].balance + amount
           loan    == accounts[id].loan_balance + amount
           account == [WithBalance(id, balance) EXCEPT !.loan_balance = loan]
<1>1. id \in DOMAIN accounts /\ amount \in Int
  BY AmountsAssumption DEF RequestLoan, CanTransact, Exists
<1>2. balance \in Int /\ loan \in Int
  BY <1>1, MaximaAssumption DEF TypeOK
<1>3. \/ Post(id, account, "LoanRequested", amount)
      \/ /\ accounts' = [accounts EXCEPT ![id] = WithBalance(id, balance)]
         /\ next_transaction_id' = next_transaction_id + 1
      \/ Forfeit
  BY DEF RequestLoan
<1> HIDE DEF balance, loan
<1>4. account \in Account /\ account.transactions = TransactionsOf(id)
  BY <1>1, <1>2, LoanFieldTypes
<1>5. "LoanRequested" \in Kinds \ {"TransferIn"}
  BY DEF Kinds, Credits
<1> HIDE DEF account
<1>6. CASE Post(id, account, "LoanRequested", amount)
  BY <1>1, <1>4, <1>5, <1>6, PostKeepsHistories
<1>7. CASE /\ accounts' = [accounts EXCEPT ![id] = WithBalance(id, balance)]
           /\ next_transaction_id' = next_transaction_id + 1
  <2>1. WithBalance(id, balance).transactions = TransactionsOf(id)
    BY <1>1, <1>2, WithBalanceType
  <2>2. DOMAIN accounts' = DOMAIN accounts
    BY <1>7
  <2>3. \A a \in DOMAIN accounts' : After(a) = TransactionsOf(a)
    BY <1>1, <1>7, <2>1 DEF After, TransactionsOf
  <2>4. next_transaction_id \in Nat
    BY DEF TypeOK
  <2> QED
    BY <1>7, <2>2, <2>3, <2>4, SameHistories
<1> QED
  BY <1>3, <1>6, <1>7, ForfeitKeepsHistories

LEMMA PayLoanKeepsHistories ==
    ASSUME TypeOK, HistoryInv, NEW id \in AccountIds, NEW amount \in Amounts,
           PayLoan(id, amount)
    PROVE  HistoryInv'
<1> DEFINE loan    == accounts[id].loan_balance
           payment == IF amount < loan THEN amount ELSE loan
           balance == accounts[id].balance - payment
           owed    == loan - payment
           account == [WithBalance(id, balance) EXCEPT !.loan_balance = owed]
<1>1. id \in DOMAIN accounts /\ amount \in Int
  BY AmountsAssumption DEF PayLoan, CanTransact, Exists
<1>2. payment \in Int /\ balance \in Int /\ owed \in Int
  BY <1>1, MaximaAssumption DEF TypeOK
<1>3. Post(id, account, "LoanPayment", payment)
  BY DEF PayLoan
<1> HIDE DEF payment, balance, owed
<1>4. account \in Account /\ account.transactions = TransactionsOf(id)
  BY <1>1, <1>2, LoanFieldTypes
<1>5. "LoanPayment" \in Kinds \ {"TransferIn"}
  BY DEF Kinds, Debits
<1> HIDE DEF account
<1> QED
  BY <1>1, <1>2, <1>3, <1>4, <1>5, PostKeepsHistories

LEMMA NoteKeepsHistories ==
    ASSUME TypeOK, HistoryInv, NEW id \in AccountIds,
           \/ UpdateProfile(id) \/ ActivateAccount(id)
           \/ DeactivateAccount(id) \/ CloseAccount(id)
    PROVE  HistoryInv'
<1>1. id \in DOMAIN accounts
  BY DEF UpdateProfile, ActivateAccount, DeactivateAccount, CloseAccount,
         OwesAndHoldsNothing, Exists
<1>2. Notes \subseteq Kinds \ {"TransferIn"} /\ 0 \in Int
  BY DEF Kinds, Notes
<1>3. CASE UpdateProfile(id)
  <2>1. accounts[id] \in Account /\ accounts[id].transactions = TransactionsOf(id)
    BY <1>1 DEF TypeOK, TransactionsOf
  <2>2. Post(id, accounts[id], "ProfileUpdated", 0) /\ "ProfileUpdated" \in Notes
    BY <1>3 DEF UpdateProfile, Notes
  <2> QED
    BY <1>1, <1>2, <2>1, <2>2, PostKeepsHistories
<1>4. ASSUME NEW status \in Statuses, NEW kind \in Notes,
             Post(id, WithStatus(id, status), kind, 0)
      PROVE  HistoryInv'
  <2>1. /\ WithStatus(id, status) \in Account
        /\ WithStatus(id, status).transactions = TransactionsOf(id)
    BY <1>1, WithStatusType
  <2> QED
    BY <1>1, <1>2, <1>4, <2>1, PostKeepsHistories
<1>5. CASE ActivateAccount(id)
  BY <1>4, <1>5 DEF ActivateAccount, Statuses, Notes
<1>6. CASE DeactivateAccount(id)
  BY <1>4, <1>6 DEF DeactivateAccount, Statuses, Notes
<1>7. CASE CloseAccount(id)
  BY <1>4, <1>7 DEF CloseAccount, Statuses, Notes
<1> QED
  BY <1>3, <1>5, <1>6, <1>7

LEMMA TransferKeepsHistories ==
    ASSUME TypeOK, HistoryInv, NEW from \in AccountIds, NEW to \in AccountIds,
           NEW amount \in Amounts, Transfer(from, to, amount)
    PROVE  HistoryInv'
<1> DEFINE n        == next_transaction_id
           paid     == WithBalance(from, accounts[from].balance - amount)
           received == WithBalance(to, accounts[to].balance + amount)
           out      == [id |-> n, kind |-> "TransferOut", amount |-> amount]
           in       == [id |-> n + 1, kind |-> "TransferIn", amount |-> amount]
           entry    == [a \in {from, to} |-> IF a = from THEN out ELSE in]
<1>1. /\ from \in DOMAIN accounts /\ to \in DOMAIN accounts /\ from # to
      /\ amount \in Int /\ n \in Nat
  BY AmountsAssumption DEF Transfer, CanTransact, Exists, TypeOK
<1>2. "TransferOut" \in Kinds /\ "TransferIn" \in Kinds
  BY DEF Kinds, Credits, Debits
<1>3. out \in Transaction /\ in \in Transaction
  BY <1>1, <1>2 DEF Transaction
<1>4. /\ accounts[from].balance - amount \in Int
      /\ accounts[to].balance + amount \in Int
  BY <1>1, MaximaAssumption DEF TypeOK
<1>5. /\ paid \in Account /\ paid.transactions = TransactionsOf(from)
      /\ received \in Account /\ received.transactions = TransactionsOf(to)
  BY <1>1, <1>4, WithBalanceType
<1>6. \/ Forfeit
      \/ /\ accounts' = [accounts EXCEPT
                           ![from] = Recorded(paid, n, "TransferOut", amount),
                           ![to] = Recorded(received, n + 1, "TransferIn", amount)]
         /\ next_transaction_id' = n + 2
  BY DEF Transfer
<1> HIDE DEF paid, received
<1>7. /\ Recorded(paid, n, "TransferOut", amount).transactions =
           Append(TransactionsOf(from), out)
      /\ Recorded(received, n + 1, "TransferIn", amount).transactions =
           Append(TransactionsOf(to), in)
  <2>1. n + 1 \in Nat
    BY <1>1
  <2>2. Recorded(paid, n, "TransferOut", amount).transactions = Append(paid.transactions, out)
    BY <1>1, <1>2, <1>5, RecordedType
  <2>3. Recorded(received, n + 1, "TransferIn", amount).transactions =
          Append(received.transactions, in)
    BY <1>1, <1>2, <1>5, <2>1, RecordedType
  <2> QED
    BY <1>5, <2>2, <2>3
<1>8. CASE /\ accounts' = [accounts EXCEPT
                            ![from] = Recorded(paid, n, "TransferOut", amount),
                            ![to] = Recorded(received, n + 1, "TransferIn", amount)]
           /\ next_transaction_id' = n + 2
  <2>1. /\ DOMAIN accounts' = DOMAIN accounts
        /\ accounts'[from] = Recorded(paid, n, "TransferOut", amount)
        /\ accounts'[to] = Recorded(received, n + 1, "TransferIn", amount)
        /\ \A a \in DOMAIN accounts \ {from, to} : accounts'[a] = accounts[a]
    BY <1>1, <1>8
  <2>2. /\ After(from) = Append(TransactionsOf(from), out)
        /\ After(to) = Append(TransactionsOf(to), in)
        /\ \A a \in DOMAIN accounts \ {from, to} : After(a) = TransactionsOf(a)
    BY <1>7, <2>1 DEF After, TransactionsOf
  <2>3. DOMAIN entry = {from, to} /\ entry[from] = out /\ entry[to] = in
    BY <1>1
  <2>4. /\ out.id = n /\ out.kind = "TransferOut" /\ out.amount = amount
        /\ in.id = n + 1 /\ in.kind = "TransferIn" /\ in.amount = amount
    OBVIOUS
  <2> HIDE DEF out, in, entry
  <2>5. Grows(entry)
    <3>1. ASSUME NEW a \in DOMAIN entry, entry[a].kind = "TransferIn"
          PROVE  \E b \in DOMAIN entry \ {a} :
                   /\ entry[b].id = entry[a].id - 1
                   /\ entry[b].kind = "TransferOut"
                   /\ entry[b].amount = entry[a].amount
      <4>1. a = to
        BY <2>3, <2>4, <3>1
      <4>2. from \in DOMAIN entry \ {a} /\ n + 1 - 1 = n
        BY <1>1, <2>3, <4>1
      <4>3. /\ entry[from].id = entry[a].id - 1
            /\ entry[from].kind = "TransferOut"
            /\ entry[from].amount = entry[a].amount
        BY <1>1, <2>3, <2>4, <4>1, <4>2
      <4> QED
        BY <4>2, <4>3
    <3>2. \A a \in DOMAIN entry : /\ entry[a] \in Transaction
                                  /\ n <= entry[a].id
                                  /\ entry[a].id < next_transaction_id'
      BY <1>1, <1>3, <1>8, <2>3, <2>4
    <3>3. \A a, b \in DOMAIN entry : entry[a].id = entry[b].id => a = b
      BY <1>1, <2>3, <2>4
    <3>4. n <= next_transaction_id'
      BY <1>1, <1>8
    <3> QED
      BY <1>1, <2>1, <2>2, <2>3, <3>1, <3>2, <3>3, <3>4 DEF Grows
  <2>6. next_transaction_id' \in Nat
    BY <1>1, <1>8
  <2> QED
    BY <2>5, <2>6, GrowthKeepsHistories
<1> QED
  BY <1>6, <1>8, ForfeitKeepsHistories

LEMMA ApplyMonthlyFeeKeepsHistories ==
    ASSUME TypeOK, HistoryInv, NEW amount \in Amounts, ApplyMonthlyFee(amount)
    PROVE  HistoryInv'
<1> DEFINE payers  == MonthlyFeePayers(amount)
           charged == {id \in payers : PaymentId(id, payers) < MaxTransactionId}
           account(id) == WithBalance(id, accounts[id].balance - amount)
           t(id)   == [id |-> PaymentId(id, payers), kind |-> "Fee", amount |-> amount]
           entry   == [id \in charged |-> t(id)]
<1>1. amount \in Int /\ next_transaction_id \in Nat /\ "Fee" \in Kinds
  BY AmountsAssumption DEF TypeOK, Kinds, Debits
<1>2. payers \in SUBSET DOMAIN accounts /\ charged \in SUBSET DOMAIN accounts
  BY DEF MonthlyFeePayers
<1>3. /\ Cardinality(charged) \in Nat
      /\ \A c \in charged :
           /\ PaymentId(c, payers) \in Nat
           /\ next_transaction_id <= PaymentId(c, payers)
           /\ PaymentId(c, payers) < next_transaction_id + Cardinality(charged)
      /\ \A c, d \in charged : PaymentId(c, payers) = PaymentId(d, payers) => c = d
  BY <1>2, MonthlyFeeIds
<1>4. /\ DOMAIN accounts' = DOMAIN accounts
      /\ \A id \in charged :
           accounts'[id] = Recorded(account(id), PaymentId(id, payers), "Fee", amount)
      /\ \A id \in DOMAIN accounts \ charged : accounts'[id] = accounts[id]
      /\ next_transaction_id' = next_transaction_id + Cardinality(charged)
  BY <1>2 DEF ApplyMonthlyFee
<1> HIDE DEF charged, payers
<1>5. ASSUME NEW id \in charged
      PROVE  t(id) \in Transaction /\ After(id) = Append(TransactionsOf(id), t(id))
  <2>1. accounts[id].balance - amount \in Int
    BY <1>1, <1>2, MaximaAssumption DEF TypeOK
  <2>2. account(id) \in Account /\ account(id).transactions = TransactionsOf(id)
    BY <1>2, <2>1, WithBalanceType
  <2> HIDE DEF account
  <2>3. Recorded(account(id), PaymentId(id, payers), "Fee", amount).transactions =
          Append(TransactionsOf(id), t(id))
    BY <1>1, <1>3, <2>2, RecordedType
  <2>4. t(id) \in Transaction
    BY <1>1, <1>3 DEF Transaction
  <2> QED
    BY <1>4, <2>3, <2>4 DEF After
<1>6. \A id \in DOMAIN accounts \ charged : After(id) = TransactionsOf(id)
  BY <1>4 DEF After, TransactionsOf
<1>7. /\ DOMAIN entry = charged
      /\ \A id \in charged : /\ entry[id] = t(id)
                              /\ t(id).id = PaymentId(id, payers)
                              /\ t(id).kind # "TransferIn"
  OBVIOUS
<1> HIDE DEF t, entry
<1>8. next_transaction_id' \in Nat /\ next_transaction_id <= next_transaction_id'
  BY <1>1, <1>3, <1>4
<1>9. Grows(entry)
  BY <1>2, <1>3, <1>4, <1>5, <1>6, <1>7, <1>8 DEF Grows
<1> QED
  BY <1>8, <1>9, GrowthKeepsHistories

LEMMA DeleteAccountKeepsHistories ==
    ASSUME TypeOK, HistoryInv, NEW id \in AccountIds, DeleteAccount(id)
    PROVE  HistoryInv'
<1>1. /\ DOMAIN accounts' \subseteq DOMAIN accounts
      /\ \A a \in DOMAIN accounts' : accounts'[a] = accounts[a]
      /\ next_transaction_id' = next_transaction_id
      /\ next_transaction_id \in Nat
  BY DEF DeleteAccount, TypeOK
<1>2. \A a \in DOMAIN accounts' : After(a) = TransactionsOf(a)
  BY <1>1 DEF After, TransactionsOf
<1> QED
  BY <1>1, <1>2, SameHistories

\* A reload may lower the next id, never to an id that is still recorded.
LEMMA ReloadKeepsHistories ==
    ASSUME TypeOK, HistoryInv, Reload
    PROVE  HistoryInv'
<1>1. accounts' = accounts
  BY DEF Reload
<1>2. PICK largest \in RecordedIds \cup {0} :
        /\ \A n \in RecordedIds : n <= largest
        /\ next_transaction_id' = largest + 1
  BY DEF Reload
<1>3. ASSUME NEW n \in RecordedIds
      PROVE  n \in Nat
  <2>1. PICK a \in DOMAIN accounts : \E i \in DOMAIN TransactionsOf(a) :
          n = TransactionsOf(a)[i].id
    BY DEF RecordedIds
  <2> QED
    BY <2>1, HistoryType
<1>4. \A n \in RecordedIds : n < next_transaction_id'
  BY <1>2, <1>3
<1> QED
  BY <1>1, <1>4
     DEF HistoryInv, HistoryOrdered, TransactionIdsUnique, InboundTransfersTraceable,
         TransactionsOf, RecordedIds

\* Ids, order and links of the histories, as the operations keep them together.
THEOREM HistoryInvariant == Spec => []HistoryInv
<1>1. Init => HistoryInv
  BY DEF Init, HistoryInv, HistoryOrdered, TransactionIdsUnique,
         InboundTransfersTraceable, RecordedIds
<1>2. TypeOK /\ HistoryInv /\ [Next]_vars => HistoryInv'
  <2> SUFFICES ASSUME TypeOK, HistoryInv, [Next]_vars
               PROVE  HistoryInv'
    OBVIOUS
  <2>1. ASSUME NEW id \in AccountIds, NEW amount \in Amounts, CreateAccount(id, amount)
        PROVE  HistoryInv'
    BY <2>1, CreateAccountKeepsHistories
  <2>2. ASSUME NEW id \in AccountIds,
               \/ UpdateProfile(id) \/ ActivateAccount(id)
               \/ DeactivateAccount(id) \/ CloseAccount(id)
        PROVE  HistoryInv'
    BY <2>2, NoteKeepsHistories
  <2>3. ASSUME NEW id \in AccountIds, DeleteAccount(id)
        PROVE  HistoryInv'
    BY <2>3, DeleteAccountKeepsHistories
  <2>4. ASSUME NEW id \in AccountIds, NEW rate \in Rates, ApplyInterest(id, rate)
        PROVE  HistoryInv'
    BY <2>4, ApplyInterestKeepsHistories
  <2>5. ASSUME NEW id \in AccountIds, NEW amount \in Amounts, Deposit(id, amount)
        PROVE  HistoryInv'
    BY <2>5, DepositKeepsHistories
  <2>6. ASSUME NEW id \in AccountIds, NEW amount \in Amounts,
               Withdraw(id, amount) \/ ApplyFee(id, amount)
        PROVE  HistoryInv'
    <3>1. /\ "Withdrawal" \in Kinds \ {"TransferIn"}
          /\ "Fee" \in Kinds \ {"TransferIn"}
      BY DEF Kinds, Debits
    <3> QED
      BY <2>6, <3>1, TakeKeepsHistories DEF Withdraw, ApplyFee
  <2>7. ASSUME NEW id \in AccountIds, NEW amount \in Amounts, RequestLoan(id, amount)
        PROVE  HistoryInv'
    BY <2>7, RequestLoanKeepsHistories
  <2>8. ASSUME NEW id \in AccountIds, NEW amount \in Amounts, PayLoan(id, amount)
        PROVE  HistoryInv'
    BY <2>8, PayLoanKeepsHistories
  <2>9. ASSUME NEW from \in AccountIds, NEW to \in AccountIds, NEW amount \in Amounts,
               Transfer(from, to, amount)
        PROVE  HistoryInv'
    BY <2>9, TransferKeepsHistories
  <2>10. ASSUME NEW amount \in Amounts, ApplyMonthlyFee(amount)
         PROVE  HistoryInv'
    BY <2>10, ApplyMonthlyFeeKeepsHistories
  <2>11. CASE Reload
    BY <2>11, ReloadKeepsHistories
  <2>12. CASE UNCHANGED vars
    <3>1. accounts' = accounts /\ next_transaction_id' = next_transaction_id
      BY <2>12 DEF vars
    <3> QED
      BY <3>1 DEF HistoryInv, HistoryOrdered, TransactionIdsUnique,
                  InboundTransfersTraceable, TransactionsOf, RecordedIds
  <2> QED
    BY <2>1, <2>2, <2>3, <2>4, <2>5, <2>6, <2>7, <2>8, <2>9, <2>10, <2>11, <2>12
       DEF Next
<1> QED
  BY <1>1, <1>2, TypeInvariant, PTL DEF Spec

\* The ids of every history increase and stay below the next id.
THEOREM HistoriesAreOrdered == Spec => []HistoryOrdered
<1>1. HistoryInv => HistoryOrdered
  BY DEF HistoryInv
<1> QED
  BY <1>1, HistoryInvariant, PTL

\* A transfer can always be traced from its receiver.
THEOREM TransfersAreTraceable == Spec => []InboundTransfersTraceable
<1>1. HistoryInv => InboundTransfersTraceable
  BY DEF HistoryInv
<1> QED
  BY <1>1, HistoryInvariant, PTL

\* `from_accounts` accepts the accounts of every reachable bank: nothing the
\* operations do, no overflow and no earlier reload, makes a save unusable.
THEOREM SnapshotsReload == Spec => []SnapshotReloads
<1>1. TypeOK /\ HistoryInv => SnapshotReloads
  <2> SUFFICES ASSUME TypeOK, HistoryInv
               PROVE  Importable
    BY DEF SnapshotReloads
  <2>1. ASSUME NEW a \in DOMAIN accounts
        PROVE  accounts[a].balance >= 0 /\ accounts[a].loan_balance >= 0
    <3>1. accounts[a].balance \in 0..MaxCents /\ accounts[a].loan_balance \in 0..MaxCents
      BY DEF TypeOK
    <3> QED
      BY <3>1, MaximaAssumption
  <2>2. ASSUME NEW n \in RecordedIds
        PROVE  n # 0 /\ n < MaxTransactionId
    <3>1. PICK a \in DOMAIN accounts : \E i \in DOMAIN TransactionsOf(a) :
            n = TransactionsOf(a)[i].id
      BY DEF RecordedIds
    <3>2. n \in Nat
      BY <3>1, HistoryType
    <3>3. n > 0 /\ n < next_transaction_id
      BY DEF HistoryInv, HistoryOrdered
    <3> QED
      BY <3>2, <3>3, MaximaAssumption DEF TypeOK
  <2> QED
    BY <2>1, <2>2 DEF Importable, HistoryInv
<1> QED
  BY <1>1, TypeInvariant, HistoryInvariant, PTL

-----------------------------------------------------------------------------
(* The life of an account.                                                 *)

SameMoney(a) ==
    /\ accounts'[a].balance = accounts[a].balance
    /\ accounts'[a].loan_balance = accounts[a].loan_balance

\* What a step may do to an account that is there after it.
AccountStep(a) ==
    \/ a \notin DOMAIN accounts /\ accounts'[a].status = "Active"
    \/ /\ a \in DOMAIN accounts
       /\ accounts[a].status = "Active" /\ accounts'[a].status = "Active"
    \/ /\ a \in DOMAIN accounts
       /\ SameMoney(a)
       /\ \/ accounts'[a].status = accounts[a].status
          \/ accounts[a].status # "Closed" /\ accounts'[a].status # "Closed"
          \/ /\ accounts'[a].status = "Closed"
             /\ accounts[a].balance = 0 /\ accounts[a].loan_balance = 0

\* An operation writes one account and leaves the others alone.
LEMMA PostWrites ==
    ASSUME TypeOK, NEW id \in DOMAIN accounts, NEW account \in Account,
           NEW kind \in Kinds, NEW amount \in Int, Post(id, account, kind, amount)
    PROVE  /\ DOMAIN accounts' = DOMAIN accounts
           /\ accounts'[id].status = account.status
           /\ accounts'[id].balance = account.balance
           /\ accounts'[id].loan_balance = account.loan_balance
           /\ \A a \in DOMAIN accounts \ {id} : accounts'[a] = accounts[a]
<1>1. next_transaction_id \in Nat
  BY DEF TypeOK
<1>2. /\ DOMAIN accounts' = DOMAIN accounts
      /\ accounts'[id] = Recorded(account, next_transaction_id, kind, amount)
      /\ \A a \in DOMAIN accounts \ {id} : accounts'[a] = accounts[a]
  BY DEF Post
<1> DEFINE written == Recorded(account, next_transaction_id, kind, amount)
<1>3. /\ written.status = account.status
      /\ written.balance = account.balance
      /\ written.loan_balance = account.loan_balance
  BY <1>1, RecordedType
<1> QED
  BY <1>2, <1>3

\* An active account that an operation writes stays active.
LEMMA ActiveAccountStep ==
    ASSUME TypeOK, NEW id \in DOMAIN accounts, accounts[id].status = "Active",
           NEW account \in Account, account.status = "Active",
           NEW kind \in Kinds, NEW amount \in Int, Post(id, account, kind, amount)
    PROVE  \A a \in DOMAIN accounts' : AccountStep(a)
<1>1. /\ DOMAIN accounts' = DOMAIN accounts
      /\ accounts'[id].status = "Active"
      /\ \A a \in DOMAIN accounts \ {id} : accounts'[a] = accounts[a]
  BY PostWrites
<1> QED
  BY <1>1 DEF AccountStep, SameMoney

LEMMA ForfeitAccountStep ==
    ASSUME Forfeit
    PROVE  \A a \in DOMAIN accounts' : AccountStep(a)
  BY DEF Forfeit, AccountStep, SameMoney

LEMMA NoteAccountStep ==
    ASSUME TypeOK, NEW id \in AccountIds,
           \/ UpdateProfile(id) \/ ActivateAccount(id)
           \/ DeactivateAccount(id) \/ CloseAccount(id)
    PROVE  \A a \in DOMAIN accounts' : AccountStep(a)
<1>1. id \in DOMAIN accounts
  BY DEF UpdateProfile, ActivateAccount, DeactivateAccount, CloseAccount,
         OwesAndHoldsNothing, Exists
<1>2. Notes \subseteq Kinds /\ 0 \in Int
  BY DEF Kinds
<1>3. CASE UpdateProfile(id)
  <2>1. Post(id, accounts[id], "ProfileUpdated", 0) /\ "ProfileUpdated" \in Kinds
    BY <1>2, <1>3 DEF UpdateProfile, Notes
  <2>2. accounts[id] \in Account
    BY <1>1 DEF TypeOK
  <2>3. /\ DOMAIN accounts' = DOMAIN accounts
        /\ accounts'[id].status = accounts[id].status
        /\ SameMoney(id)
        /\ \A a \in DOMAIN accounts \ {id} : accounts'[a] = accounts[a]
    BY <1>1, <1>2, <2>1, <2>2, PostWrites DEF SameMoney
  <2> QED
    BY <1>1, <2>3 DEF AccountStep, SameMoney
<1>4. ASSUME NEW status \in Statuses, NEW kind \in Notes,
             Post(id, WithStatus(id, status), kind, 0),
             \/ status # "Closed" /\ accounts[id].status # "Closed"
             \/ /\ status = "Closed"
                /\ accounts[id].balance = 0 /\ accounts[id].loan_balance = 0
      PROVE  \A a \in DOMAIN accounts' : AccountStep(a)
  <2>1. /\ WithStatus(id, status) \in Account
        /\ WithStatus(id, status).balance = accounts[id].balance
        /\ WithStatus(id, status).loan_balance = accounts[id].loan_balance
        /\ WithStatus(id, status).status = status
    BY <1>1, WithStatusType
  <2>2. /\ DOMAIN accounts' = DOMAIN accounts
        /\ accounts'[id].status = status
        /\ SameMoney(id)
        /\ \A a \in DOMAIN accounts \ {id} : accounts'[a] = accounts[a]
    BY <1>1, <1>2, <1>4, <2>1, PostWrites DEF SameMoney
  <2> QED
    BY <1>1, <1>4, <2>2 DEF AccountStep, SameMoney
<1>5. CASE ActivateAccount(id)
  BY <1>4, <1>5 DEF ActivateAccount, Statuses, Notes
<1>6. CASE DeactivateAccount(id)
  BY <1>4, <1>6 DEF DeactivateAccount, Statuses, Notes
<1>7. CASE CloseAccount(id)
  BY <1>4, <1>7 DEF CloseAccount, OwesAndHoldsNothing, Statuses, Notes
<1> QED
  BY <1>3, <1>5, <1>6, <1>7

LEMMA TakeAccountStep ==
    ASSUME TypeOK, NEW id \in AccountIds, NEW amount \in Amounts, NEW kind \in Kinds,
           Take(id, amount, kind)
    PROVE  \A a \in DOMAIN accounts' : AccountStep(a)
<1> DEFINE balance == accounts[id].balance - amount
<1>1. /\ id \in DOMAIN accounts /\ accounts[id].status = "Active"
      /\ amount \in Int
  BY AmountsAssumption DEF Take, CanTransact, Exists
<1>2. balance \in Int
  BY <1>1, MaximaAssumption DEF TypeOK
<1>3. Post(id, WithBalance(id, balance), kind, amount)
  BY DEF Take
<1> HIDE DEF balance
<1>4. /\ WithBalance(id, balance) \in Account
      /\ WithBalance(id, balance).status = "Active"
  BY <1>1, <1>2, WithBalanceType
<1> QED
  BY <1>1, <1>3, <1>4, ActiveAccountStep

LEMMA DepositAccountStep ==
    ASSUME TypeOK, NEW id \in AccountIds, NEW amount \in Amounts, Deposit(id, amount)
    PROVE  \A a \in DOMAIN accounts' : AccountStep(a)
<1> DEFINE balance == accounts[id].balance + amount
<1>1. /\ id \in DOMAIN accounts /\ accounts[id].status = "Active"
      /\ amount \in Int /\ "Deposit" \in Kinds
  BY AmountsAssumption DEF Deposit, CanTransact, Exists, Kinds, Credits
<1>2. balance \in Int
  BY <1>1, MaximaAssumption DEF TypeOK
<1>3. Post(id, WithBalance(id, balance), "Deposit", amount) \/ Forfeit
  BY DEF Deposit
<1> HIDE DEF balance
<1>4. /\ WithBalance(id, balance) \in Account
      /\ WithBalance(id, balance).status = "Active"
  BY <1>1, <1>2, WithBalanceType
<1> QED
  BY <1>1, <1>3, <1>4, ActiveAccountStep, ForfeitAccountStep

LEMMA ApplyInterestAccountStep ==
    ASSUME TypeOK, NEW id \in AccountIds, NEW rate \in Rates, ApplyInterest(id, rate)
    PROVE  \A a \in DOMAIN accounts' : AccountStep(a)
<1> DEFINE interest == Percentage(accounts[id].balance, rate)
           balance  == accounts[id].balance + interest
<1>1. /\ id \in DOMAIN accounts /\ accounts[id].status = "Active"
      /\ rate \in Nat /\ accounts[id].balance \in Nat
      /\ "Interest" \in Kinds
  BY RatesAssumption, MaximaAssumption
     DEF ApplyInterest, CanTransact, Exists, TypeOK, Kinds, Credits
<1>2. interest \in Nat
  BY <1>1, RatesAssumption, PercentageNat
<1>3. Post(id, WithBalance(id, balance), "Interest", interest) \/ Forfeit
  BY DEF ApplyInterest
<1> HIDE DEF interest
<1>4. balance \in Int /\ interest \in Int
  BY <1>1, <1>2
<1> HIDE DEF balance
<1>5. /\ WithBalance(id, balance) \in Account
      /\ WithBalance(id, balance).status = "Active"
  BY <1>1, <1>4, WithBalanceType
<1> QED
  BY <1>1, <1>3, <1>4, <1>5, ActiveAccountStep, ForfeitAccountStep

LEMMA RequestLoanAccountStep ==
    ASSUME TypeOK, NEW id \in AccountIds, NEW amount \in Amounts, RequestLoan(id, amount)
    PROVE  \A a \in DOMAIN accounts' : AccountStep(a)
<1> DEFINE balance == accounts[id].balance + amount
           loan    == accounts[id].loan_balance + amount
           account == [WithBalance(id, balance) EXCEPT !.loan_balance = loan]
<1>1. /\ id \in DOMAIN accounts /\ accounts[id].status = "Active"
      /\ amount \in Int /\ "LoanRequested" \in Kinds
  BY AmountsAssumption DEF RequestLoan, CanTransact, Exists, Kinds, Credits
<1>2. balance \in Int /\ loan \in Int
  BY <1>1, MaximaAssumption DEF TypeOK
<1>3. \/ Post(id, account, "LoanRequested", amount)
      \/ accounts' = [accounts EXCEPT ![id] = WithBalance(id, balance)]
      \/ Forfeit
  BY DEF RequestLoan
<1> HIDE DEF balance, loan
<1>4. /\ account \in Account /\ account.status = "Active"
      /\ WithBalance(id, balance).status = "Active"
  BY <1>1, <1>2, LoanFieldTypes, WithBalanceType
<1> HIDE DEF account
<1>5. CASE Post(id, account, "LoanRequested", amount)
  BY <1>1, <1>4, <1>5, ActiveAccountStep
<1>6. CASE accounts' = [accounts EXCEPT ![id] = WithBalance(id, balance)]
  BY <1>1, <1>4, <1>6 DEF AccountStep, SameMoney
<1> QED
  BY <1>3, <1>5, <1>6, ForfeitAccountStep

LEMMA PayLoanAccountStep ==
    ASSUME TypeOK, NEW id \in AccountIds, NEW amount \in Amounts, PayLoan(id, amount)
    PROVE  \A a \in DOMAIN accounts' : AccountStep(a)
<1> DEFINE loan    == accounts[id].loan_balance
           payment == IF amount < loan THEN amount ELSE loan
           balance == accounts[id].balance - payment
           owed    == loan - payment
           account == [WithBalance(id, balance) EXCEPT !.loan_balance = owed]
<1>1. /\ id \in DOMAIN accounts /\ accounts[id].status = "Active"
      /\ amount \in Int /\ "LoanPayment" \in Kinds
  BY AmountsAssumption DEF PayLoan, CanTransact, Exists, Kinds, Debits
<1>2. payment \in Int /\ balance \in Int /\ owed \in Int
  BY <1>1, MaximaAssumption DEF TypeOK
<1>3. Post(id, account, "LoanPayment", payment)
  BY DEF PayLoan
<1> HIDE DEF payment, balance, owed
<1>4. account \in Account /\ account.status = "Active"
  BY <1>1, <1>2, LoanFieldTypes
<1> HIDE DEF account
<1> QED
  BY <1>1, <1>2, <1>3, <1>4, ActiveAccountStep

LEMMA TransferAccountStep ==
    ASSUME TypeOK, NEW from \in AccountIds, NEW to \in AccountIds,
           NEW amount \in Amounts, Transfer(from, to, amount)
    PROVE  \A a \in DOMAIN accounts' : AccountStep(a)
<1> DEFINE paid     == WithBalance(from, accounts[from].balance - amount)
           received == WithBalance(to, accounts[to].balance + amount)
           n        == next_transaction_id
<1>1. /\ from \in DOMAIN accounts /\ to \in DOMAIN accounts /\ from # to
      /\ accounts[from].status = "Active" /\ accounts[to].status = "Active"
      /\ amount \in Int /\ n \in Nat /\ n + 1 \in Nat
  BY AmountsAssumption DEF Transfer, CanTransact, Exists, TypeOK
<1>2. "TransferOut" \in Kinds /\ "TransferIn" \in Kinds
  BY DEF Kinds, Credits, Debits
<1>3. /\ accounts[from].balance - amount \in Int
      /\ accounts[to].balance + amount \in Int
  BY <1>1, MaximaAssumption DEF TypeOK
<1>4. /\ paid \in Account /\ paid.status = "Active"
      /\ received \in Account /\ received.status = "Active"
  BY <1>1, <1>3, WithBalanceType
<1>5. \/ Forfeit
      \/ accounts' = [accounts EXCEPT
                        ![from] = Recorded(paid, n, "TransferOut", amount),
                        ![to] = Recorded(received, n + 1, "TransferIn", amount)]
  BY DEF Transfer
<1> HIDE DEF paid, received, n
<1>6. Recorded(paid, n, "TransferOut", amount).status = "Active"
  <2>1. paid \in Account /\ n \in Nat /\ "TransferOut" \in Kinds /\ amount \in Int
    BY <1>1, <1>2, <1>4
  <2>2. Recorded(paid, n, "TransferOut", amount).status = paid.status
    BY <2>1, RecordedType
  <2> QED
    BY <1>4, <2>2
<1>7. Recorded(received, n + 1, "TransferIn", amount).status = "Active"
  <2> DEFINE k == n + 1
  <2>1. received \in Account /\ k \in Nat /\ "TransferIn" \in Kinds /\ amount \in Int
    BY <1>1, <1>2, <1>4
  <2> HIDE DEF k
  <2>2. Recorded(received, k, "TransferIn", amount).status = received.status
    BY <2>1, RecordedType
  <2> QED
    BY <1>4, <2>2 DEF k
<1>8. CASE accounts' = [accounts EXCEPT
                         ![from] = Recorded(paid, n, "TransferOut", amount),
                         ![to] = Recorded(received, n + 1, "TransferIn", amount)]
  BY <1>1, <1>6, <1>7, <1>8 DEF AccountStep, SameMoney
<1> QED
  BY <1>5, <1>8, ForfeitAccountStep

LEMMA ApplyMonthlyFeeAccountStep ==
    ASSUME TypeOK, NEW amount \in Amounts, ApplyMonthlyFee(amount)
    PROVE  \A a \in DOMAIN accounts' : AccountStep(a)
<1> DEFINE payers  == MonthlyFeePayers(amount)
           charged == {id \in payers : PaymentId(id, payers) < MaxTransactionId}
           account(id) == WithBalance(id, accounts[id].balance - amount)
<1>1. amount \in Int /\ "Fee" \in Kinds
  BY AmountsAssumption DEF Kinds, Debits
<1>2. /\ payers \in SUBSET DOMAIN accounts /\ charged \in SUBSET DOMAIN accounts
      /\ \A id \in charged : accounts[id].status = "Active"
  BY DEF MonthlyFeePayers, CanTransact
<1>3. \A c \in charged : PaymentId(c, payers) \in Nat
  BY <1>2, MonthlyFeeIds
<1>4. /\ DOMAIN accounts' = DOMAIN accounts
      /\ \A id \in charged :
           accounts'[id] = Recorded(account(id), PaymentId(id, payers), "Fee", amount)
      /\ \A id \in DOMAIN accounts \ charged : accounts'[id] = accounts[id]
  BY <1>2 DEF ApplyMonthlyFee
<1> HIDE DEF charged, payers
<1>5. ASSUME NEW id \in charged
      PROVE  accounts'[id].status = "Active"
  <2>1. accounts[id].balance - amount \in Int
    BY <1>1, <1>2, MaximaAssumption DEF TypeOK
  <2>2. account(id) \in Account /\ account(id).status = "Active"
    BY <1>2, <2>1, WithBalanceType
  <2> HIDE DEF account
  <2> DEFINE written == Recorded(account(id), PaymentId(id, payers), "Fee", amount)
  <2>3. written.status = "Active"
    BY <1>1, <1>3, <2>2, RecordedType
  <2>4. accounts'[id] = written
    BY <1>4
  <2> HIDE DEF written
  <2> QED
    BY <2>3, <2>4
<1> QED
  BY <1>2, <1>4, <1>5 DEF AccountStep, SameMoney

LEMMA EveryAccountStep ==
    ASSUME TypeOK, [Next]_vars
    PROVE  \A a \in DOMAIN accounts' : AccountStep(a)
<1> DEFINE Goal == \A a \in DOMAIN accounts' : AccountStep(a)
<1>1. ASSUME NEW id \in AccountIds, NEW amount \in Amounts, CreateAccount(id, amount)
      PROVE  Goal
  BY <1>1 DEF CreateAccount, Exists, AccountStep, SameMoney
<1>2. ASSUME NEW id \in AccountIds,
             \/ UpdateProfile(id) \/ ActivateAccount(id)
             \/ DeactivateAccount(id) \/ CloseAccount(id)
      PROVE  Goal
  BY <1>2, NoteAccountStep
<1>3. ASSUME NEW id \in AccountIds, DeleteAccount(id)
      PROVE  Goal
  BY <1>3 DEF DeleteAccount, AccountStep, SameMoney
<1>4. ASSUME NEW id \in AccountIds, NEW rate \in Rates, ApplyInterest(id, rate)
      PROVE  Goal
  BY <1>4, ApplyInterestAccountStep
<1>5. ASSUME NEW id \in AccountIds, NEW amount \in Amounts, Deposit(id, amount)
      PROVE  Goal
  BY <1>5, DepositAccountStep
<1>6. ASSUME NEW id \in AccountIds, NEW amount \in Amounts,
             Withdraw(id, amount) \/ ApplyFee(id, amount)
      PROVE  Goal
  <2>1. "Withdrawal" \in Kinds /\ "Fee" \in Kinds
    BY DEF Kinds, Debits
  <2> QED
    BY <1>6, <2>1, TakeAccountStep DEF Withdraw, ApplyFee
<1>7. ASSUME NEW id \in AccountIds, NEW amount \in Amounts, RequestLoan(id, amount)
      PROVE  Goal
  BY <1>7, RequestLoanAccountStep
<1>8. ASSUME NEW id \in AccountIds, NEW amount \in Amounts, PayLoan(id, amount)
      PROVE  Goal
  BY <1>8, PayLoanAccountStep
<1>9. ASSUME NEW from \in AccountIds, NEW to \in AccountIds, NEW amount \in Amounts,
             Transfer(from, to, amount)
      PROVE  Goal
  BY <1>9, TransferAccountStep
<1>10. ASSUME NEW amount \in Amounts, ApplyMonthlyFee(amount)
       PROVE  Goal
  BY <1>10, ApplyMonthlyFeeAccountStep
<1>11. CASE Reload \/ UNCHANGED vars
  BY <1>11 DEF Reload, vars, AccountStep, SameMoney
<1> QED
  BY <1>1, <1>2, <1>3, <1>4, <1>5, <1>6, <1>7, <1>8, <1>9, <1>10, <1>11 DEF Next

\* No operation, and no failure of one, puts money on a closed account.
THEOREM ClosedAccountsAreEmpty == Spec => []ClosedAccountsHoldNothing
<1>1. Init => ClosedAccountsHoldNothing
  BY DEF Init, ClosedAccountsHoldNothing
<1>2. TypeOK /\ ClosedAccountsHoldNothing /\ [Next]_vars => ClosedAccountsHoldNothing'
  <2> SUFFICES ASSUME TypeOK, ClosedAccountsHoldNothing, [Next]_vars,
                      NEW a \in DOMAIN accounts', accounts'[a].status = "Closed"
               PROVE  accounts'[a].balance = 0 /\ accounts'[a].loan_balance = 0
    BY DEF ClosedAccountsHoldNothing
  <2>1. AccountStep(a)
    BY EveryAccountStep
  <2> QED
    BY <2>1 DEF AccountStep, SameMoney, ClosedAccountsHoldNothing
<1> QED
  BY <1>1, <1>2, TypeInvariant, PTL DEF Spec

\* Closing is final: nothing reopens a closed account or moves its money.
THEOREM ClosedStaysClosed == Spec => ClosedIsFinal
<1>1. TypeOK /\ [Next]_vars =>
        [\A a \in DOMAIN accounts \cap DOMAIN accounts' :
           accounts[a].status = "Closed" =>
             /\ accounts'[a].status = "Closed"
             /\ accounts'[a].balance = accounts[a].balance]_vars
  <2> SUFFICES ASSUME TypeOK, [Next]_vars,
                      NEW a \in DOMAIN accounts \cap DOMAIN accounts',
                      accounts[a].status = "Closed"
               PROVE  /\ accounts'[a].status = "Closed"
                      /\ accounts'[a].balance = accounts[a].balance
    OBVIOUS
  <2>1. AccountStep(a)
    BY EveryAccountStep
  <2> QED
    BY <2>1 DEF AccountStep, SameMoney
<1> QED
  BY <1>1, TypeInvariant, PTL DEF Spec, ClosedIsFinal

-----------------------------------------------------------------------------
(***************************************************************************)
(* The money on record.  Net sums a history with a recursive function, so  *)
(* what it computes follows from its partial sums: they exist for a        *)
(* history of every length, and each is the one before and the effect of   *)
(* one transaction.                                                        *)
(***************************************************************************)

\* The partial sums of the first n transactions of a history, one per prefix.
SumsUpTo(n, history, credits, debits, sum) ==
    sum = [i \in 0..n |->
             IF i = 0 THEN 0 ELSE sum[i - 1] + Effect(history[i], credits, debits)]

\* There is such a family for every history: the least length without one
\* would extend the family of the length before.
LEMMA SumsExist ==
    ASSUME NEW history, NEW credits, NEW debits, NEW n \in Nat
    PROVE  \E sum : SumsUpTo(n, history, credits, debits, sum)
<1> DEFINE Has(m) == \E sum : SumsUpTo(m, history, credits, debits, sum)
           T == {m \in Nat : ~Has(m)}
<1>1. SUFFICES ASSUME T # {}
               PROVE  FALSE
  OBVIOUS
<1>2. PICK m \in T : \A k \in T : m <= k
  BY <1>1, LeastNatural
<1>3. Has(0)
  <2> DEFINE sum == [i \in 0..0 |-> 0]
  <2>1. sum = [i \in 0..0 |->
                 IF i = 0 THEN 0 ELSE sum[i - 1] + Effect(history[i], credits, debits)]
    OBVIOUS
  <2> QED
    BY <2>1 DEF SumsUpTo
<1>4. m # 0 /\ m - 1 \in Nat
  BY <1>2, <1>3
<1>5. Has(m - 1)
  BY <1>2, <1>4
<1>6. PICK g : SumsUpTo(m - 1, history, credits, debits, g)
  BY <1>5
<1> DEFINE last == g[m - 1] + Effect(history[m], credits, debits)
           sum  == [i \in 0..m |-> IF i = m THEN last ELSE g[i]]
<1>7. \A i \in 0..(m - 1) :
        g[i] = IF i = 0 THEN 0 ELSE g[i - 1] + Effect(history[i], credits, debits)
  BY <1>6 DEF SumsUpTo
<1>8. /\ DOMAIN sum = 0..m
      /\ sum = [i \in 0..m |-> sum[i]]
      /\ \A i \in 0..m :
           sum[i] = IF i = 0 THEN 0 ELSE sum[i - 1] + Effect(history[i], credits, debits)
  <2>1. \A i \in 0..(m - 1) : sum[i] = g[i]
    BY <1>4
  <2>2. sum[m] = last
    BY <1>4
  <2>3. ASSUME NEW i \in 0..m
        PROVE  sum[i] = IF i = 0 THEN 0
                        ELSE sum[i - 1] + Effect(history[i], credits, debits)
    <3>1. CASE i = m
      BY <1>4, <2>1, <2>2, <3>1
    <3>2. CASE i # m
      <4>1. i \in 0..(m - 1) /\ (i # 0 => i - 1 \in 0..(m - 1))
        BY <1>4, <3>2
      <4> QED
        BY <1>7, <2>1, <4>1
    <3> QED
      BY <3>1, <3>2
  <2> QED
    BY <2>3
<1> HIDE DEF sum
<1>9. SumsUpTo(m, history, credits, debits, sum)
  BY <1>8 DEF SumsUpTo
<1> QED
  BY <1>2, <1>9

\* A history and its continuation have the same sums for as long as they agree.
LEMMA SumsAgree ==
    ASSUME NEW h1, NEW h2, NEW credits, NEW debits, NEW n1 \in Nat, NEW n2 \in Nat, n1 <= n2,
           NEW s1, SumsUpTo(n1, h1, credits, debits, s1),
           NEW s2, SumsUpTo(n2, h2, credits, debits, s2),
           \A i \in 1..n1 : h1[i] = h2[i]
    PROVE  \A i \in 0..n1 : s1[i] = s2[i]
<1> DEFINE T == {i \in 0..n1 : s1[i] # s2[i]}
<1>1. SUFFICES ASSUME T # {}
               PROVE  FALSE
  OBVIOUS
<1>2. PICK m \in T : \A k \in T : m <= k
  <2>1. T \in SUBSET Nat
    OBVIOUS
  <2> HIDE DEF T
  <2> QED
    BY <1>1, <2>1, LeastNatural
<1>3. s1[0] = 0 /\ s2[0] = 0
  BY DEF SumsUpTo
<1>4. m \in 1..n1 /\ m - 1 \in 0..n1
  BY <1>2, <1>3
<1>5. s1[m] = s1[m - 1] + Effect(h1[m], credits, debits)
  BY <1>4 DEF SumsUpTo
<1>6. s2[m] = s2[m - 1] + Effect(h2[m], credits, debits)
  BY <1>4 DEF SumsUpTo
<1>7. s1[m - 1] = s2[m - 1]
  BY <1>2, <1>4
<1> QED
  BY <1>2, <1>4, <1>5, <1>6, <1>7

\* `Net` is the last of the partial sums.
LEMMA NetIsLastSum ==
    ASSUME NEW history, Len(history) \in Nat, NEW credits, NEW debits
    PROVE  \E sum : /\ SumsUpTo(Len(history), history, credits, debits, sum)
                    /\ Net(history, credits, debits) = sum[Len(history)]
<1> DEFINE sum == CHOOSE g : SumsUpTo(Len(history), history, credits, debits, g)
<1>1. SumsUpTo(Len(history), history, credits, debits, sum)
  BY SumsExist, Zenon
<1>2. Net(history, credits, debits) = sum[Len(history)]
  BY DEF Net, SumsUpTo
<1> QED
  BY <1>1, <1>2
\* What a transaction counts for is a number.
LEMMA EffectType ==
    ASSUME NEW t \in Transaction, NEW credits, NEW debits
    PROVE  Effect(t, credits, debits) \in Int
<1>1. t.amount \in Int /\ -t.amount \in Int
  BY DEF Transaction
<1> QED
  BY <1>1 DEF Effect

LEMMA NetType ==
    ASSUME NEW history \in Seq(Transaction), NEW credits, NEW debits
    PROVE  Net(history, credits, debits) \in Int
<1>1. Len(history) \in Nat /\ \A i \in 1..Len(history) : history[i] \in Transaction
  OBVIOUS
<1>2. PICK sum : /\ SumsUpTo(Len(history), history, credits, debits, sum)
                 /\ Net(history, credits, debits) = sum[Len(history)]
  BY <1>1, NetIsLastSum
<1> DEFINE T == {i \in 0..Len(history) : sum[i] \notin Int}
<1>3. ASSUME T # {}
      PROVE  FALSE
  <2>1. PICK m \in T : \A k \in T : m <= k
    <3>1. T \in SUBSET Nat
      BY <1>1
    <3> HIDE DEF T
    <3> QED
      BY <1>3, <3>1, LeastNatural
  <2>2. sum[0] = 0
    BY <1>1, <1>2 DEF SumsUpTo
  <2>3. m \in 1..Len(history) /\ m - 1 \in 0..Len(history)
    BY <1>1, <2>1, <2>2
  <2>4. sum[m] = sum[m - 1] + Effect(history[m], credits, debits)
    BY <1>2, <2>3 DEF SumsUpTo
  <2>5. sum[m - 1] \in Int
    BY <1>1, <2>1, <2>3
  <2>6. Effect(history[m], credits, debits) \in Int
    BY <1>1, <2>3, EffectType
  <2> QED
    BY <2>1, <2>4, <2>5, <2>6
<1> QED
  BY <1>1, <1>2, <1>3

\* One more transaction adds what it counts for.
LEMMA NetAppend ==
    ASSUME NEW history \in Seq(Transaction), NEW t \in Transaction, NEW credits, NEW debits
    PROVE  Net(Append(history, t), credits, debits) =
             Net(history, credits, debits) + Effect(t, credits, debits)
<1> DEFINE longer == Append(history, t)
           n == Len(history)
<1>1. /\ n \in Nat /\ Len(longer) = n + 1
      /\ \A i \in 1..n : history[i] = longer[i]
      /\ longer[n + 1] = t
  OBVIOUS
<1> HIDE DEF longer
<1>2. PICK s1 : /\ SumsUpTo(n, history, credits, debits, s1)
                /\ Net(history, credits, debits) = s1[n]
  BY <1>1, NetIsLastSum
<1>3. PICK s2 : /\ SumsUpTo(n + 1, longer, credits, debits, s2)
                /\ Net(longer, credits, debits) = s2[n + 1]
  <2>1. Len(longer) \in Nat
    BY <1>1
  <2> QED
    BY <1>1, <2>1, NetIsLastSum
<1> HIDE DEF n
<1>4. s1[n] = s2[n]
  <2> DEFINE m == n + 1
  <2>1. n \in Nat /\ m \in Nat /\ n <= m
    BY <1>1
  <2>2. SumsUpTo(m, longer, credits, debits, s2)
    BY <1>3
  <2> HIDE DEF m
  <2>3. \A i \in 0..n : s1[i] = s2[i]
    BY <1>1, <1>2, <2>1, <2>2, SumsAgree
  <2> QED
    BY <2>1, <2>3
<1>5. s2[n + 1] = s2[n] + Effect(longer[n + 1], credits, debits)
  BY <1>1, <1>3 DEF SumsUpTo
<1> QED
  BY <1>1, <1>2, <1>3, <1>4, <1>5 DEF longer

LEMMA NetFirst ==
    ASSUME NEW t \in Transaction, NEW credits, NEW debits
    PROVE  Net(<<t>>, credits, debits) = Effect(t, credits, debits)
<1> DEFINE first == <<t>>
<1>1. Len(first) = 1 /\ first[1] = t
  OBVIOUS
<1> HIDE DEF first
<1>2. PICK sum : /\ SumsUpTo(1, first, credits, debits, sum)
                 /\ Net(first, credits, debits) = sum[1]
  <2>1. Len(first) \in Nat
    BY <1>1
  <2>2. PICK sum : /\ SumsUpTo(Len(first), first, credits, debits, sum)
                   /\ Net(first, credits, debits) = sum[Len(first)]
    BY <2>1, NetIsLastSum
  <2> QED
    BY <1>1, <2>2
<1>3. sum[0] = 0 /\ sum[1] = sum[0] + Effect(first[1], credits, debits)
  BY <1>2 DEF SumsUpTo
<1>4. Effect(t, credits, debits) \in Int
  BY EffectType
<1> QED
  BY <1>1, <1>2, <1>3, <1>4 DEF first


-----------------------------------------------------------------------------
(* The balances and the histories.                                         *)

Loans    == {"LoanRequested"}
Payments == {"LoanPayment"}

\* What a transaction counts for, by its kind.
LEMMA EffectOfKind ==
    ASSUME NEW id \in Nat, NEW kind \in Kinds, NEW amount \in Int
    PROVE  LET t == [id |-> id, kind |-> kind, amount |-> amount]
           IN  /\ t \in Transaction
               /\ kind \in Credits => Effect(t, Credits, Debits) = amount
               /\ kind \in Debits => Effect(t, Credits, Debits) = -amount
               /\ kind \in Notes => Effect(t, Credits, Debits) = 0
               /\ kind \in Loans => Effect(t, Loans, Payments) = amount
               /\ kind \in Payments => Effect(t, Loans, Payments) = -amount
               /\ kind \notin Loans \cup Payments => Effect(t, Loans, Payments) = 0
<1> DEFINE t == [id |-> id, kind |-> kind, amount |-> amount]
<1>1. t \in Transaction /\ t.kind = kind /\ t.amount = amount
  BY DEF Transaction
<1> HIDE DEF t
<1>2. /\ kind \in Credits => kind \notin Debits
      /\ kind \in Notes => kind \notin Credits /\ kind \notin Debits
      /\ kind \in Loans => kind \notin Payments
  BY DEF Credits, Debits, Notes, Loans, Payments
<1>3. /\ kind \in Credits => Effect(t, Credits, Debits) = amount
      /\ kind \in Debits => Effect(t, Credits, Debits) = -amount
      /\ kind \in Notes => Effect(t, Credits, Debits) = 0
  BY <1>1, <1>2 DEF Effect
<1>4. /\ kind \in Loans => Effect(t, Loans, Payments) = amount
      /\ kind \in Payments => Effect(t, Loans, Payments) = -amount
      /\ kind \notin Loans \cup Payments => Effect(t, Loans, Payments) = 0
  BY <1>1, <1>2 DEF Effect
<1> QED
  BY <1>1, <1>3, <1>4 DEF t

\* The account records a transaction and moves its money accordingly.
Books(a, t) ==
    /\ a \in DOMAIN accounts
    /\ After(a) = Append(TransactionsOf(a), t)
    /\ accounts'[a].balance = accounts[a].balance + Effect(t, Credits, Debits)
    /\ accounts'[a].loan_balance = accounts[a].loan_balance + Effect(t, Loans, Payments)

\* The account is new and records its opening balance.
Opens(a, t) ==
    /\ a \notin DOMAIN accounts
    /\ After(a) = <<t>>
    /\ accounts'[a].balance = Effect(t, Credits, Debits)
    /\ accounts'[a].loan_balance = Effect(t, Loans, Payments)

\* The loan request that fails on the loan balance: money and no transaction.
Drifts(a) ==
    /\ a \in DOMAIN accounts
    /\ After(a) = TransactionsOf(a)
    /\ accounts'[a].loan_balance = accounts[a].loan_balance
    /\ accounts'[a].balance > accounts[a].balance
    /\ accounts[a].loan_balance + (accounts'[a].balance - accounts[a].balance) > MaxCents

Rests(a) == a \in DOMAIN accounts /\ SameMoney(a) /\ After(a) = TransactionsOf(a)

\* What a step may do to the money and the history of an account.
LedgerStep(a) ==
    Rests(a) \/ Drifts(a) \/ \E t \in Transaction : Books(a, t) \/ Opens(a, t)

\* An operation that takes an id, writes an account and records it.
LEMMA PostLedgerStep ==
    ASSUME TypeOK, NEW id \in DOMAIN accounts, NEW account \in Account,
           account.transactions = TransactionsOf(id),
           NEW kind \in Kinds, NEW amount \in Int, Post(id, account, kind, amount),
           NEW gained \in Int, NEW lent \in Int,
           account.balance = accounts[id].balance + gained,
           account.loan_balance = accounts[id].loan_balance + lent,
           \/ kind \in Credits /\ gained = amount
           \/ kind \in Debits /\ gained = -amount
           \/ kind \in Notes /\ gained = 0,
           \/ kind \in Loans /\ lent = amount
           \/ kind \in Payments /\ lent = -amount
           \/ kind \notin Loans \cup Payments /\ lent = 0
    PROVE  \A a \in DOMAIN accounts' : LedgerStep(a)
<1> DEFINE t == [id |-> next_transaction_id, kind |-> kind, amount |-> amount]
<1>1. next_transaction_id \in Nat
  BY DEF TypeOK
<1>2. /\ t \in Transaction
      /\ Effect(t, Credits, Debits) = gained
      /\ Effect(t, Loans, Payments) = lent
  BY <1>1, EffectOfKind
<1>3. /\ DOMAIN accounts' = DOMAIN accounts
      /\ accounts'[id].balance = account.balance
      /\ accounts'[id].loan_balance = account.loan_balance
      /\ \A a \in DOMAIN accounts \ {id} : accounts'[a] = accounts[a]
  BY PostWrites
<1>4. After(id) = Append(TransactionsOf(id), t)
  <2> DEFINE written == Recorded(account, next_transaction_id, kind, amount)
  <2>1. accounts'[id] = written
    BY DEF Post
  <2>2. written.transactions = Append(account.transactions, t)
    BY <1>1, RecordedType
  <2> HIDE DEF written
  <2> QED
    BY <2>1, <2>2 DEF After
<1> HIDE DEF t
<1>5. Books(id, t)
  BY <1>2, <1>3, <1>4 DEF Books
<1>6. ASSUME NEW a \in DOMAIN accounts \ {id}
      PROVE  Rests(a)
  BY <1>3, <1>6 DEF Rests, SameMoney, After, TransactionsOf
<1> QED
  BY <1>2, <1>3, <1>5, <1>6 DEF LedgerStep

LEMMA QuietLedgerStep ==
    ASSUME UNCHANGED accounts
    PROVE  \A a \in DOMAIN accounts' : LedgerStep(a)
  BY DEF LedgerStep, Rests, SameMoney, After, TransactionsOf

LEMMA CreateAccountLedgerStep ==
    ASSUME TypeOK, NEW id \in AccountIds, NEW opening \in Amounts, CreateAccount(id, opening)
    PROVE  \A a \in DOMAIN accounts' : LedgerStep(a)
<1> DEFINE t == [id |-> next_transaction_id, kind |-> "AccountCreated", amount |-> opening]
<1>1. next_transaction_id \in Nat /\ opening \in Int
  BY AmountsAssumption DEF TypeOK
<1>2. /\ t \in Transaction
      /\ Effect(t, Credits, Debits) = opening /\ Effect(t, Loans, Payments) = 0
  BY <1>1, EffectOfKind DEF Kinds, Credits, Loans, Payments
<1>3. /\ id \notin DOMAIN accounts /\ DOMAIN accounts' = DOMAIN accounts \cup {id}
      /\ accounts'[id].balance = opening /\ accounts'[id].loan_balance = 0
      /\ After(id) = <<t>>
      /\ \A a \in DOMAIN accounts : accounts'[a] = accounts[a]
  BY DEF CreateAccount, Exists, After
<1> HIDE DEF t
<1>4. Opens(id, t)
  BY <1>2, <1>3 DEF Opens
<1>5. ASSUME NEW a \in DOMAIN accounts
      PROVE  Rests(a)
  BY <1>3, <1>5 DEF Rests, SameMoney, After, TransactionsOf
<1> QED
  BY <1>2, <1>3, <1>4, <1>5 DEF LedgerStep

LEMMA NoteLedgerStep ==
    ASSUME TypeOK, NEW id \in AccountIds,
           \/ UpdateProfile(id) \/ ActivateAccount(id)
           \/ DeactivateAccount(id) \/ CloseAccount(id)
    PROVE  \A a \in DOMAIN accounts' : LedgerStep(a)
<1>1. id \in DOMAIN accounts
  BY DEF UpdateProfile, ActivateAccount, DeactivateAccount, CloseAccount,
         OwesAndHoldsNothing, Exists
<1>2. accounts[id].balance \in Int /\ accounts[id].loan_balance \in Int
  BY <1>1, MaximaAssumption DEF TypeOK
<1>3. ASSUME NEW account \in Account, NEW kind \in Notes, Post(id, account, kind, 0),
             account.balance = accounts[id].balance,
             account.loan_balance = accounts[id].loan_balance,
             account.transactions = TransactionsOf(id)
      PROVE  \A a \in DOMAIN accounts' : LedgerStep(a)
  <2>1. kind \in Kinds /\ kind \notin Loans \cup Payments /\ 0 \in Int
    BY DEF Kinds, Notes, Loans, Payments
  <2>2. /\ account.balance = accounts[id].balance + 0
        /\ account.loan_balance = accounts[id].loan_balance + 0
    BY <1>2, <1>3
  <2> QED
    BY <1>1, <1>3, <2>1, <2>2, PostLedgerStep
<1>4. CASE UpdateProfile(id)
  <2>1. Post(id, accounts[id], "ProfileUpdated", 0) /\ "ProfileUpdated" \in Notes
    BY <1>4 DEF UpdateProfile, Notes
  <2>2. accounts[id] \in Account
    BY <1>1 DEF TypeOK
  <2> QED
    BY <1>3, <2>1, <2>2 DEF TransactionsOf
<1>5. ASSUME NEW status \in Statuses, NEW kind \in Notes,
             Post(id, WithStatus(id, status), kind, 0)
      PROVE  \A a \in DOMAIN accounts' : LedgerStep(a)
  BY <1>1, <1>3, <1>5, WithStatusType
<1> QED
  BY <1>4, <1>5
     DEF ActivateAccount, DeactivateAccount, CloseAccount, Statuses, Notes

\* An operation that moves money on one account and records it.
LEMMA MoneyLedgerStep ==
    ASSUME TypeOK, NEW id \in DOMAIN accounts, NEW gained \in Int,
           NEW kind \in Kinds \ (Loans \cup Payments), NEW amount \in Int,
           Post(id, WithBalance(id, accounts[id].balance + gained), kind, amount),
           \/ kind \in Credits /\ gained = amount
           \/ kind \in Debits /\ gained = -amount
    PROVE  \A a \in DOMAIN accounts' : LedgerStep(a)
<1> DEFINE balance == accounts[id].balance + gained
           account == WithBalance(id, balance)
<1>1. accounts[id].balance \in Int /\ accounts[id].loan_balance \in Int
  BY MaximaAssumption DEF TypeOK
<1>2. balance \in Int
  BY <1>1
<1>3. Post(id, account, kind, amount)
  OBVIOUS
<1>4. balance = accounts[id].balance + gained
  OBVIOUS
<1> HIDE DEF balance
<1>5. /\ account \in Account /\ account.balance = balance
      /\ account.loan_balance = accounts[id].loan_balance + 0
      /\ account.transactions = TransactionsOf(id)
  BY <1>1, <1>2, WithBalanceType
<1>6. kind \in Kinds /\ kind \notin Loans \cup Payments /\ 0 \in Int
  OBVIOUS
<1> HIDE DEF account
<1> QED
  BY <1>3, <1>4, <1>5, <1>6, PostLedgerStep

LEMMA TakeLedgerStep ==
    ASSUME TypeOK, NEW id \in AccountIds, NEW amount \in Amounts,
           NEW kind \in {"Withdrawal", "Fee"}, Take(id, amount, kind)
    PROVE  \A a \in DOMAIN accounts' : LedgerStep(a)
<1>1. /\ id \in DOMAIN accounts /\ amount \in Int /\ -amount \in Int
      /\ accounts[id].balance \in Int
  BY AmountsAssumption, MaximaAssumption DEF Take, CanTransact, Exists, TypeOK
<1>2. accounts[id].balance - amount = accounts[id].balance + (-amount)
  BY <1>1
<1>3. Post(id, WithBalance(id, accounts[id].balance + (-amount)), kind, amount)
  BY <1>2 DEF Take
<1>4. kind \in Debits /\ kind \in Kinds \ (Loans \cup Payments)
  BY DEF Kinds, Debits, Loans, Payments
<1> QED
  BY <1>1, <1>3, <1>4, MoneyLedgerStep

LEMMA DepositLedgerStep ==
    ASSUME TypeOK, NEW id \in AccountIds, NEW amount \in Amounts, Deposit(id, amount)
    PROVE  \A a \in DOMAIN accounts' : LedgerStep(a)
<1>1. id \in DOMAIN accounts /\ amount \in Int
  BY AmountsAssumption DEF Deposit, CanTransact, Exists
<1>2. \/ Post(id, WithBalance(id, accounts[id].balance + amount), "Deposit", amount)
      \/ UNCHANGED accounts
  BY DEF Deposit, Forfeit
<1>3. "Deposit" \in Credits /\ "Deposit" \in Kinds \ (Loans \cup Payments)
  BY DEF Kinds, Credits, Loans, Payments
<1> QED
  BY <1>1, <1>2, <1>3, MoneyLedgerStep, QuietLedgerStep

LEMMA ApplyInterestLedgerStep ==
    ASSUME TypeOK, NEW id \in AccountIds, NEW rate \in Rates, ApplyInterest(id, rate)
    PROVE  \A a \in DOMAIN accounts' : LedgerStep(a)
<1> DEFINE interest == Percentage(accounts[id].balance, rate)
<1>1. id \in DOMAIN accounts /\ rate \in Nat /\ accounts[id].balance \in Nat
  BY RatesAssumption, MaximaAssumption DEF ApplyInterest, CanTransact, Exists, TypeOK
<1>2. interest \in Int
  <2>1. interest \in Nat
    BY <1>1, RatesAssumption, PercentageNat
  <2> HIDE DEF interest
  <2> QED
    BY <2>1
<1>3. \/ Post(id, WithBalance(id, accounts[id].balance + interest), "Interest", interest)
      \/ UNCHANGED accounts
  BY DEF ApplyInterest, Forfeit
<1>4. "Interest" \in Credits /\ "Interest" \in Kinds \ (Loans \cup Payments)
  BY DEF Kinds, Credits, Loans, Payments
<1> HIDE DEF interest
<1> QED
  BY <1>1, <1>2, <1>3, <1>4, MoneyLedgerStep, QuietLedgerStep


LEMMA RequestLoanLedgerStep ==
    ASSUME TypeOK, NEW id \in AccountIds, NEW amount \in Amounts, RequestLoan(id, amount)
    PROVE  \A a \in DOMAIN accounts' : LedgerStep(a)
<1> DEFINE balance == accounts[id].balance + amount
           loan    == accounts[id].loan_balance + amount
           account == [WithBalance(id, balance) EXCEPT !.loan_balance = loan]
<1>1. /\ id \in DOMAIN accounts /\ amount \in Int /\ amount > 0
      /\ accounts[id].balance \in Int /\ accounts[id].loan_balance \in Int
  BY AmountsAssumption, MaximaAssumption DEF RequestLoan, CanTransact, Exists, TypeOK
<1>2. /\ balance \in Int /\ loan \in Int
      /\ balance = accounts[id].balance + amount /\ loan = accounts[id].loan_balance + amount
  BY <1>1
<1>3. \/ Post(id, account, "LoanRequested", amount)
      \/ loan > MaxCents /\ accounts' = [accounts EXCEPT ![id] = WithBalance(id, balance)]
      \/ UNCHANGED accounts
  BY DEF RequestLoan, Forfeit
<1> HIDE DEF balance, loan
<1>4. /\ account \in Account /\ account.balance = balance /\ account.loan_balance = loan
      /\ account.transactions = TransactionsOf(id)
  BY <1>1, <1>2, LoanFieldTypes
<1> HIDE DEF account
<1>5. CASE Post(id, account, "LoanRequested", amount)
  <2>1. "LoanRequested" \in Credits /\ "LoanRequested" \in Loans /\ "LoanRequested" \in Kinds
    BY DEF Kinds, Credits, Loans
  <2> QED
    BY <1>1, <1>2, <1>4, <1>5, <2>1, PostLedgerStep
<1>6. CASE loan > MaxCents /\ accounts' = [accounts EXCEPT ![id] = WithBalance(id, balance)]
  <2> DEFINE written == WithBalance(id, balance)
  <2>1. /\ written.balance = balance /\ written.transactions = TransactionsOf(id)
        /\ written.loan_balance = accounts[id].loan_balance
    BY <1>1, <1>2, WithBalanceType
  <2>2. /\ DOMAIN accounts' = DOMAIN accounts /\ accounts'[id] = written
        /\ \A a \in DOMAIN accounts \ {id} : accounts'[a] = accounts[a]
    BY <1>1, <1>6
  <2> HIDE DEF written
  <2>3. Drifts(id)
    BY <1>1, <1>2, <1>6, <2>1, <2>2, MaximaAssumption DEF Drifts, After
  <2>4. \A a \in DOMAIN accounts \ {id} : Rests(a)
    BY <2>2 DEF Rests, SameMoney, After, TransactionsOf
  <2> QED
    BY <2>2, <2>3, <2>4 DEF LedgerStep
<1> QED
  BY <1>3, <1>5, <1>6, QuietLedgerStep

LEMMA PayLoanLedgerStep ==
    ASSUME TypeOK, NEW id \in AccountIds, NEW amount \in Amounts, PayLoan(id, amount)
    PROVE  \A a \in DOMAIN accounts' : LedgerStep(a)
<1> DEFINE loan    == accounts[id].loan_balance
           payment == IF amount < loan THEN amount ELSE loan
           balance == accounts[id].balance - payment
           owed    == loan - payment
           account == [WithBalance(id, balance) EXCEPT !.loan_balance = owed]
<1>1. /\ id \in DOMAIN accounts /\ amount \in Int
      /\ accounts[id].balance \in Int /\ loan \in Int
  BY AmountsAssumption, MaximaAssumption DEF PayLoan, CanTransact, Exists, TypeOK
<1>2. /\ payment \in Int /\ balance \in Int /\ owed \in Int
  BY <1>1
<1>3. Post(id, account, "LoanPayment", payment)
  BY DEF PayLoan
<1> HIDE DEF payment
<1>4. /\ -payment \in Int
      /\ balance = accounts[id].balance + (-payment)
      /\ owed = accounts[id].loan_balance + (-payment)
  BY <1>1, <1>2
<1> HIDE DEF balance, owed
<1>5. /\ account \in Account /\ account.balance = balance /\ account.loan_balance = owed
      /\ account.transactions = TransactionsOf(id)
  BY <1>1, <1>2, LoanFieldTypes
<1>6. "LoanPayment" \in Debits /\ "LoanPayment" \in Payments /\ "LoanPayment" \in Kinds
  BY DEF Kinds, Debits, Payments
<1> DEFINE gained == -payment
<1>7. gained \in Int /\ gained = -payment
  BY <1>4
<1> HIDE DEF account, gained
<1> QED
  BY <1>1, <1>2, <1>3, <1>4, <1>5, <1>6, <1>7, PostLedgerStep

LEMMA TransferLedgerStep ==
    ASSUME TypeOK, NEW from \in AccountIds, NEW to \in AccountIds,
           NEW amount \in Amounts, Transfer(from, to, amount)
    PROVE  \A a \in DOMAIN accounts' : LedgerStep(a)
<1> DEFINE paid     == WithBalance(from, accounts[from].balance - amount)
           received == WithBalance(to, accounts[to].balance + amount)
           n        == next_transaction_id
           sent     == [id |-> n, kind |-> "TransferOut", amount |-> amount]
           got      == [id |-> n + 1, kind |-> "TransferIn", amount |-> amount]
<1>1. /\ from \in DOMAIN accounts /\ to \in DOMAIN accounts /\ from # to
      /\ amount \in Int /\ n \in Nat /\ n + 1 \in Nat
      /\ accounts[from].balance \in Int /\ accounts[to].balance \in Int
      /\ accounts[from].loan_balance \in Int /\ accounts[to].loan_balance \in Int
  BY AmountsAssumption, MaximaAssumption DEF Transfer, CanTransact, Exists, TypeOK
<1>2. "TransferOut" \in Kinds /\ "TransferIn" \in Kinds
  BY DEF Kinds, Credits, Debits
<1>3. /\ sent \in Transaction /\ got \in Transaction
      /\ Effect(sent, Credits, Debits) = -amount /\ Effect(sent, Loans, Payments) = 0
      /\ Effect(got, Credits, Debits) = amount /\ Effect(got, Loans, Payments) = 0
  <2>1. /\ "TransferOut" \in Debits /\ "TransferOut" \notin Loans \cup Payments
        /\ "TransferIn" \in Credits /\ "TransferIn" \notin Loans \cup Payments
    BY DEF Credits, Debits, Loans, Payments
  <2>2. /\ sent \in Transaction
        /\ Effect(sent, Credits, Debits) = -amount /\ Effect(sent, Loans, Payments) = 0
    BY <1>1, <1>2, <2>1, EffectOfKind
  <2>3. ASSUME NEW m \in Nat
        PROVE  LET t == [id |-> m, kind |-> "TransferIn", amount |-> amount]
               IN  /\ t \in Transaction /\ Effect(t, Credits, Debits) = amount
                   /\ Effect(t, Loans, Payments) = 0
    BY <1>1, <1>2, <2>1, EffectOfKind
  <2> QED
    BY <1>1, <2>2, <2>3
<1>4. /\ accounts[from].balance - amount \in Int
      /\ accounts[to].balance + amount \in Int
  BY <1>1
<1>5. /\ paid \in Account /\ paid.balance = accounts[from].balance - amount
      /\ paid.loan_balance = accounts[from].loan_balance
      /\ paid.transactions = TransactionsOf(from)
  BY <1>1, <1>4, WithBalanceType
<1>6. /\ received \in Account /\ received.balance = accounts[to].balance + amount
      /\ received.loan_balance = accounts[to].loan_balance
      /\ received.transactions = TransactionsOf(to)
  BY <1>1, <1>4, WithBalanceType
<1> DEFINE debited  == Recorded(paid, n, "TransferOut", amount)
           credited == Recorded(received, n + 1, "TransferIn", amount)
<1>7. \/ UNCHANGED accounts
      \/ accounts' = [accounts EXCEPT ![from] = debited, ![to] = credited]
  BY DEF Transfer, Forfeit
<1> HIDE DEF paid, received
<1>8. /\ debited.balance = paid.balance /\ debited.loan_balance = paid.loan_balance
      /\ debited.transactions = Append(paid.transactions, sent)
  BY <1>1, <1>2, <1>5, RecordedType
<1>9. /\ credited.balance = received.balance
      /\ credited.loan_balance = received.loan_balance
      /\ credited.transactions = Append(received.transactions, got)
  BY <1>1, <1>2, <1>6, RecordedType
<1> HIDE DEF debited, credited, sent, got
<1>10. CASE accounts' = [accounts EXCEPT ![from] = debited, ![to] = credited]
  <2>1. /\ DOMAIN accounts' = DOMAIN accounts
        /\ accounts'[from] = debited /\ accounts'[to] = credited
        /\ \A a \in DOMAIN accounts \ {from, to} : accounts'[a] = accounts[a]
    BY <1>1, <1>10
  <2>2. Books(from, sent)
    BY <1>1, <1>3, <1>5, <1>8, <2>1 DEF Books, After
  <2>3. Books(to, got)
    BY <1>1, <1>3, <1>6, <1>9, <2>1 DEF Books, After
  <2>4. \A a \in DOMAIN accounts \ {from, to} : Rests(a)
    BY <2>1 DEF Rests, SameMoney, After, TransactionsOf
  <2> QED
    BY <1>3, <2>1, <2>2, <2>3, <2>4 DEF LedgerStep
<1> QED
  BY <1>7, <1>10, QuietLedgerStep

LEMMA ApplyMonthlyFeeLedgerStep ==
    ASSUME TypeOK, NEW amount \in Amounts, ApplyMonthlyFee(amount)
    PROVE  \A a \in DOMAIN accounts' : LedgerStep(a)
<1> DEFINE payers  == MonthlyFeePayers(amount)
           charged == {id \in payers : PaymentId(id, payers) < MaxTransactionId}
           account(id) == WithBalance(id, accounts[id].balance - amount)
<1>1. amount \in Int /\ "Fee" \in Kinds /\ "Fee" \in Debits /\ "Fee" \notin Loans \cup Payments
  BY AmountsAssumption DEF Kinds, Debits, Loans, Payments
<1>2. payers \in SUBSET DOMAIN accounts /\ charged \in SUBSET DOMAIN accounts
  BY DEF MonthlyFeePayers
<1>3. \A c \in charged : PaymentId(c, payers) \in Nat
  BY <1>2, MonthlyFeeIds
<1>4. /\ DOMAIN accounts' = DOMAIN accounts
      /\ \A id \in charged :
           accounts'[id] = Recorded(account(id), PaymentId(id, payers), "Fee", amount)
      /\ \A id \in DOMAIN accounts \ charged : accounts'[id] = accounts[id]
  BY <1>2 DEF ApplyMonthlyFee
<1> HIDE DEF charged, payers
<1>5. ASSUME NEW id \in charged
      PROVE  \E t \in Transaction : Books(id, t)
  <2> DEFINE n == PaymentId(id, payers)
             t == [id |-> n, kind |-> "Fee", amount |-> amount]
             paid == account(id)
             written == Recorded(paid, n, "Fee", amount)
  <2>1. /\ accounts[id].balance \in Int /\ accounts[id].loan_balance \in Int
        /\ accounts[id].balance - amount \in Int
    BY <1>1, <1>2, MaximaAssumption DEF TypeOK
  <2>2. /\ paid \in Account /\ paid.balance = accounts[id].balance - amount
        /\ paid.loan_balance = accounts[id].loan_balance
        /\ paid.transactions = TransactionsOf(id)
    BY <1>2, <2>1, WithBalanceType
  <2>3. accounts'[id] = written /\ n \in Nat
    BY <1>3, <1>4
  <2> HIDE DEF account, paid, n
  <2>4. /\ written.balance = paid.balance /\ written.loan_balance = paid.loan_balance
        /\ written.transactions = Append(paid.transactions, t)
    BY <1>1, <2>2, <2>3, RecordedType
  <2>5. /\ t \in Transaction
        /\ Effect(t, Credits, Debits) = -amount /\ Effect(t, Loans, Payments) = 0
    BY <1>1, <2>3, EffectOfKind
  <2> HIDE DEF written, t
  <2> QED
    BY <1>1, <1>2, <2>1, <2>2, <2>3, <2>4, <2>5 DEF Books, After
<1>6. ASSUME NEW id \in DOMAIN accounts \ charged
      PROVE  Rests(id)
  BY <1>4, <1>6 DEF Rests, SameMoney, After, TransactionsOf
<1> QED
  BY <1>2, <1>4, <1>5, <1>6 DEF LedgerStep

LEMMA EveryLedgerStep ==
    ASSUME TypeOK, [Next]_vars
    PROVE  \A a \in DOMAIN accounts' : LedgerStep(a)
<1> DEFINE Goal == \A a \in DOMAIN accounts' : LedgerStep(a)
<1>1. ASSUME NEW id \in AccountIds, NEW amount \in Amounts, CreateAccount(id, amount)
      PROVE  Goal
  BY <1>1, CreateAccountLedgerStep
<1>2. ASSUME NEW id \in AccountIds,
             \/ UpdateProfile(id) \/ ActivateAccount(id)
             \/ DeactivateAccount(id) \/ CloseAccount(id)
      PROVE  Goal
  BY <1>2, NoteLedgerStep
<1>3. ASSUME NEW id \in AccountIds, DeleteAccount(id)
      PROVE  Goal
  BY <1>3 DEF DeleteAccount, LedgerStep, Rests, SameMoney, After, TransactionsOf
<1>4. ASSUME NEW id \in AccountIds, NEW rate \in Rates, ApplyInterest(id, rate)
      PROVE  Goal
  BY <1>4, ApplyInterestLedgerStep
<1>5. ASSUME NEW id \in AccountIds, NEW amount \in Amounts, Deposit(id, amount)
      PROVE  Goal
  BY <1>5, DepositLedgerStep
<1>6. ASSUME NEW id \in AccountIds, NEW amount \in Amounts,
             Withdraw(id, amount) \/ ApplyFee(id, amount)
      PROVE  Goal
  BY <1>6, TakeLedgerStep DEF Withdraw, ApplyFee
<1>7. ASSUME NEW id \in AccountIds, NEW amount \in Amounts, RequestLoan(id, amount)
      PROVE  Goal
  BY <1>7, RequestLoanLedgerStep
<1>8. ASSUME NEW id \in AccountIds, NEW amount \in Amounts, PayLoan(id, amount)
      PROVE  Goal
  BY <1>8, PayLoanLedgerStep
<1>9. ASSUME NEW from \in AccountIds, NEW to \in AccountIds, NEW amount \in Amounts,
             Transfer(from, to, amount)
      PROVE  Goal
  BY <1>9, TransferLedgerStep
<1>10. ASSUME NEW amount \in Amounts, ApplyMonthlyFee(amount)
       PROVE  Goal
  BY <1>10, ApplyMonthlyFeeLedgerStep
<1>11. CASE Reload \/ UNCHANGED vars
  BY <1>11, QuietLedgerStep DEF Reload, vars
<1> QED
  BY <1>1, <1>2, <1>3, <1>4, <1>5, <1>6, <1>7, <1>8, <1>9, <1>10, <1>11 DEF Next


\* What the history accounts for moves with the balances, except in a drift.
LEMMA LedgerMoves ==
    ASSUME TypeOK, NEW a \in DOMAIN accounts', LedgerStep(a)
    PROVE  \/ /\ Rests(a)
              /\ LedgerBalance(a)' = LedgerBalance(a) /\ LedgerLoan(a)' = LedgerLoan(a)
           \/ /\ Drifts(a)
              /\ LedgerBalance(a)' = LedgerBalance(a) /\ LedgerLoan(a)' = LedgerLoan(a)
           \/ /\ a \in DOMAIN accounts
              /\ \E gained, lent \in Int :
                   /\ accounts'[a].balance = accounts[a].balance + gained
                   /\ LedgerBalance(a)' = LedgerBalance(a) + gained
                   /\ accounts'[a].loan_balance = accounts[a].loan_balance + lent
                   /\ LedgerLoan(a)' = LedgerLoan(a) + lent
           \/ /\ a \notin DOMAIN accounts
              /\ LedgerBalance(a)' = accounts'[a].balance
              /\ LedgerLoan(a)' = accounts'[a].loan_balance
<1>1. /\ LedgerBalance(a)' = Net(After(a), Credits, Debits)
      /\ LedgerLoan(a)' = Net(After(a), Loans, Payments)
      /\ LedgerBalance(a) = Net(TransactionsOf(a), Credits, Debits)
      /\ LedgerLoan(a) = Net(TransactionsOf(a), Loans, Payments)
  BY DEF LedgerBalance, LedgerLoan, After, TransactionsOf, Loans, Payments
<1>2. CASE Rests(a) \/ Drifts(a)
  <2>1. After(a) = TransactionsOf(a)
    BY <1>2 DEF Rests, Drifts
  <2> QED
    BY <1>1, <1>2, <2>1
<1>3. ASSUME NEW t \in Transaction, Books(a, t)
      PROVE  /\ a \in DOMAIN accounts
             /\ \E gained, lent \in Int :
                  /\ accounts'[a].balance = accounts[a].balance + gained
                  /\ LedgerBalance(a)' = LedgerBalance(a) + gained
                  /\ accounts'[a].loan_balance = accounts[a].loan_balance + lent
                  /\ LedgerLoan(a)' = LedgerLoan(a) + lent
  <2> DEFINE gained == Effect(t, Credits, Debits)
             lent   == Effect(t, Loans, Payments)
             h      == TransactionsOf(a)
  <2>1. gained \in Int /\ lent \in Int
    BY EffectType
  <2>2. a \in DOMAIN accounts /\ After(a) = Append(h, t)
    BY <1>3 DEF Books
  <2>3. h \in Seq(Transaction)
    BY <2>2, HistoryType
  <2> HIDE DEF h
  <2>4. /\ Net(Append(h, t), Credits, Debits) = Net(h, Credits, Debits) + gained
        /\ Net(Append(h, t), Loans, Payments) = Net(h, Loans, Payments) + lent
    BY <2>3, NetAppend
  <2>5. /\ LedgerBalance(a)' = LedgerBalance(a) + gained
        /\ LedgerLoan(a)' = LedgerLoan(a) + lent
    BY <1>1, <2>2, <2>4 DEF h
  <2>6. /\ accounts'[a].balance = accounts[a].balance + gained
        /\ accounts'[a].loan_balance = accounts[a].loan_balance + lent
    BY <1>3 DEF Books
  <2> HIDE DEF gained, lent
  <2> QED
    BY <2>1, <2>2, <2>5, <2>6
<1>4. ASSUME NEW t \in Transaction, Opens(a, t)
      PROVE  /\ a \notin DOMAIN accounts
             /\ LedgerBalance(a)' = accounts'[a].balance
             /\ LedgerLoan(a)' = accounts'[a].loan_balance
  BY <1>1, <1>4, NetFirst DEF Opens
<1> QED
  BY <1>2, <1>3, <1>4 DEF LedgerStep

\* What the ledger accounts for is a number, as the balances are.
LEMMA LedgerTypes ==
    ASSUME TypeOK, NEW a \in DOMAIN accounts
    PROVE  /\ accounts[a].balance \in Int /\ accounts[a].loan_balance \in Int
           /\ LedgerBalance(a) \in Int /\ LedgerLoan(a) \in Int
  BY HistoryType, NetType, MaximaAssumption DEF TypeOK, LedgerBalance, LedgerLoan

\* `request_loan` and `pay_loan`: what is owed is what the history says, for
\* every sequence of calls and for those that fail halfway.
THEOREM LoansMatchTheLedger == Spec => []LoanMatchesLedger
<1>1. Init => LoanMatchesLedger
  BY DEF Init, LoanMatchesLedger
<1>2. TypeOK /\ TypeOK' /\ LoanMatchesLedger /\ [Next]_vars => LoanMatchesLedger'
  <2> SUFFICES ASSUME TypeOK, TypeOK', LoanMatchesLedger, [Next]_vars,
                      NEW a \in DOMAIN accounts'
               PROVE  accounts'[a].loan_balance = LedgerLoan(a)'
    BY DEF LoanMatchesLedger
  <2>1. LedgerStep(a)
    BY EveryLedgerStep
  <2>2. a \in DOMAIN accounts => accounts[a].loan_balance = LedgerLoan(a)
    BY DEF LoanMatchesLedger
  <2> QED
    BY <2>1, <2>2, LedgerMoves, LedgerTypes DEF Rests, Drifts, SameMoney
<1> QED
  BY <1>1, <1>2, TypeInvariant, PTL DEF Spec

\* No operation of the bank, and no failure of one, loses money that the
\* history of an account says it holds.
THEOREM BalancesCoverTheLedger == Spec => []BalanceCoversLedger
<1>1. Init => BalanceCoversLedger
  BY DEF Init, BalanceCoversLedger
<1>2. TypeOK /\ TypeOK' /\ BalanceCoversLedger /\ [Next]_vars => BalanceCoversLedger'
  <2> SUFFICES ASSUME TypeOK, TypeOK', BalanceCoversLedger, [Next]_vars,
                      NEW a \in DOMAIN accounts'
               PROVE  accounts'[a].balance - LedgerBalance(a)' >= 0
    BY DEF BalanceCoversLedger, Unrecorded
  <2>1. LedgerStep(a)
    BY EveryLedgerStep
  <2>2. a \in DOMAIN accounts => accounts[a].balance - LedgerBalance(a) >= 0
    BY DEF BalanceCoversLedger, Unrecorded
  <2>3. accounts'[a].balance \in Int
    BY MaximaAssumption DEF TypeOK
  <2> QED
    BY <2>1, <2>2, <2>3, LedgerMoves, LedgerTypes DEF Rests, Drifts, SameMoney
<1> QED
  BY <1>1, <1>2, TypeInvariant, PTL DEF Spec

\* A balance and its history drift apart only in a loan request whose loan
\* balance would overflow.
THEOREM DriftsAreFailedLoans == Spec => OnlyFailedLoansDrift
<1>1. TypeOK /\ TypeOK' /\ [Next]_vars =>
        [\A a \in DOMAIN accounts \cap DOMAIN accounts' :
           LET credited == accounts'[a].balance - accounts[a].balance
           IN  Unrecorded(a)' # Unrecorded(a) =>
                 /\ TransactionsOf(a)' = TransactionsOf(a)
                 /\ credited > 0
                 /\ accounts[a].loan_balance + credited > MaxCents]_vars
  <2> SUFFICES ASSUME TypeOK, TypeOK', [Next]_vars,
                      NEW a \in DOMAIN accounts \cap DOMAIN accounts',
                      accounts'[a].balance - LedgerBalance(a)'
                        # accounts[a].balance - LedgerBalance(a)
               PROVE  /\ TransactionsOf(a)' = TransactionsOf(a)
                      /\ accounts'[a].balance - accounts[a].balance > 0
                      /\ accounts[a].loan_balance
                           + (accounts'[a].balance - accounts[a].balance) > MaxCents
    BY DEF Unrecorded
  <2>1. LedgerStep(a)
    BY EveryLedgerStep
  <2>2. /\ accounts[a].balance \in Int /\ LedgerBalance(a) \in Int
        /\ accounts'[a].balance \in Int
    BY LedgerTypes, MaximaAssumption DEF TypeOK
  <2>3. Drifts(a)
    <3>1. CASE Rests(a) /\ LedgerBalance(a)' = LedgerBalance(a)
      BY <3>1 DEF Rests, SameMoney
    <3>2. ASSUME NEW gained \in Int,
                 accounts'[a].balance = accounts[a].balance + gained,
                 LedgerBalance(a)' = LedgerBalance(a) + gained
          PROVE  FALSE
      BY <2>2, <3>2
    <3> QED
      BY <2>1, <3>1, <3>2, LedgerMoves
  <2> QED
    BY <2>2, <2>3 DEF Drifts, After, TransactionsOf
<1> QED
  BY <1>1, TypeInvariant, PTL DEF Spec, OnlyFailedLoansDrift

-----------------------------------------------------------------------------
(***************************************************************************)
(* Transfers.  The sum over all accounts is recursive on the sets of       *)
(* accounts, so it is handled as the sum over a history was.               *)
(***************************************************************************)

\* The element that `MapThenSumSet` takes next.
Picked(s) == CHOOSE x \in s : TRUE

Small(S, n) == {s \in SUBSET S : Cardinality(s) <= n}

\* The sums of f over the members of `sets`.
Totals(sets, f, total) ==
    total = [s \in sets |->
               IF s = {} THEN 0 ELSE f[Picked(s)] + total[s \ {Picked(s)}]]

LEMMA PickedLeaves ==
    ASSUME NEW S, IsFiniteSet(S), NEW s \in SUBSET S, s # {}
    PROVE  /\ Picked(s) \in s /\ s \ {Picked(s)} \in SUBSET S
           /\ IsFiniteSet(s) /\ Cardinality(s) \in Nat \ {0}
           /\ Cardinality(s \ {Picked(s)}) = Cardinality(s) - 1
<1>1. Picked(s) \in s
  BY DEF Picked
<1>2. IsFiniteSet(s)
  BY FS_Subset
<1>3. Cardinality(s) \in Nat /\ Cardinality(s) # 0
  BY <1>2, FS_CardinalityType, FS_EmptySet
<1>4. Cardinality(s \ {Picked(s)}) = Cardinality(s) - 1
  BY <1>1, <1>2, FS_RemoveElement
<1> QED
  BY <1>1, <1>2, <1>3, <1>4

LEMMA SmallTotalsExist ==
    ASSUME NEW S, IsFiniteSet(S), NEW f, NEW n \in Nat
    PROVE  \E total : Totals(Small(S, n), f, total)
<1> DEFINE Has(m) == \E total : Totals(Small(S, m), f, total)
           T == {m \in Nat : ~Has(m)}
<1>1. SUFFICES ASSUME T # {}
               PROVE  FALSE
  OBVIOUS
<1>2. PICK m \in T : \A k \in T : m <= k
  <2>1. T \in SUBSET Nat
    OBVIOUS
  <2> HIDE DEF T
  <2> QED
    BY <1>1, <2>1, LeastNatural
<1>3. Has(0)
  <2>1. \A s \in Small(S, 0) : s = {}
    <3> SUFFICES ASSUME NEW s \in Small(S, 0), s # {}
                 PROVE  FALSE
      OBVIOUS
    <3>1. s \in SUBSET S /\ Cardinality(s) <= 0
      BY DEF Small
    <3>2. Cardinality(s) \in Nat \ {0}
      BY <3>1, PickedLeaves
    <3> QED
      BY <3>1, <3>2
  <2> DEFINE total == [s \in Small(S, 0) |-> 0]
  <2>0. total = [s \in Small(S, 0) |-> 0]
    OBVIOUS
  <2> HIDE DEF total
  <2>2. total = [s \in Small(S, 0) |->
                   IF s = {} THEN 0 ELSE f[Picked(s)] + total[s \ {Picked(s)}]]
    BY <2>0, <2>1
  <2>3. Totals(Small(S, 0), f, total)
    BY <2>2 DEF Totals
  <2> QED
    BY <2>3
<1>4. m \in Nat /\ m # 0 /\ m - 1 \in Nat
  BY <1>2, <1>3
<1>5. Has(m - 1)
  BY <1>2, <1>4
<1>6. PICK g : Totals(Small(S, m - 1), f, g)
  BY <1>5
<1> DEFINE total == [s \in Small(S, m) |->
                       IF s = {} THEN 0 ELSE f[Picked(s)] + g[s \ {Picked(s)}]]
<1>7. ASSUME NEW s \in Small(S, m), s # {}
      PROVE  g[s \ {Picked(s)}] = total[s \ {Picked(s)}]
  <2> DEFINE r == s \ {Picked(s)}
  <2>1. /\ s \in SUBSET S /\ r \in SUBSET S
        /\ Cardinality(s) \in Nat /\ Cardinality(s) <= m /\ Cardinality(r) = Cardinality(s) - 1
    BY <1>7, PickedLeaves DEF Small
  <2> HIDE DEF r
  <2>2. r \in Small(S, m - 1) /\ r \in Small(S, m)
    BY <1>4, <2>1 DEF Small
  <2>3. g[r] = IF r = {} THEN 0 ELSE f[Picked(r)] + g[r \ {Picked(r)}]
    BY <1>6, <2>2 DEF Totals
  <2>4. total[r] = IF r = {} THEN 0 ELSE f[Picked(r)] + g[r \ {Picked(r)}]
    BY <2>2
  <2> QED
    BY <2>3, <2>4 DEF r
<1>8. total = [s \in Small(S, m) |->
                 IF s = {} THEN 0 ELSE f[Picked(s)] + total[s \ {Picked(s)}]]
  <2>1. \A s \in Small(S, m) :
          total[s] = IF s = {} THEN 0 ELSE f[Picked(s)] + total[s \ {Picked(s)}]
    BY <1>7
  <2>2. DOMAIN total = Small(S, m) /\ total = [s \in Small(S, m) |-> total[s]]
    OBVIOUS
  <2> HIDE DEF total
  <2> QED
    BY <2>1, <2>2
<1> HIDE DEF total
<1>9. Totals(Small(S, m), f, total)
  BY <1>8 DEF Totals
<1> QED
  BY <1>2, <1>9

LEMMA TotalsExist ==
    ASSUME NEW S, IsFiniteSet(S), NEW f
    PROVE  \E total : Totals(SUBSET S, f, total)
<1>1. Cardinality(S) \in Nat
  BY FS_CardinalityType
<1>2. \A s \in SUBSET S : Cardinality(s) <= Cardinality(S)
  BY FS_Subset
<1>3. Small(S, Cardinality(S)) = SUBSET S
  BY <1>2, Zenon DEF Small
<1> DEFINE n == Cardinality(S)
<1>4. n \in Nat /\ Small(S, n) = SUBSET S
  BY <1>1, <1>3
<1> HIDE DEF n
<1>5. \E total : Totals(Small(S, n), f, total)
  BY <1>4, SmallTotalsExist
<1> QED
  BY <1>4, <1>5

\* Two families of sums of the same function agree.
LEMMA TotalsUnique ==
    ASSUME NEW S, IsFiniteSet(S), NEW f,
           NEW t, Totals(SUBSET S, f, t), NEW u, Totals(SUBSET S, f, u)
    PROVE  t[S] = u[S]
<1> DEFINE T == {Cardinality(s) : s \in {r \in SUBSET S : t[r] # u[r]}}
<1>1. ASSUME T # {}
      PROVE  FALSE
  <2>1. T \in SUBSET Nat
    <3>1. \A r \in SUBSET S : Cardinality(r) \in Nat
      BY FS_Subset, FS_CardinalityType
    <3> QED
      BY <3>1
  <2>2. PICK m \in T : \A k \in T : m <= k
    <3> HIDE DEF T
    <3> QED
      BY <1>1, <2>1, LeastNatural
  <2>3. PICK s \in SUBSET S : t[s] # u[s] /\ m = Cardinality(s)
    BY <2>2
  <2>4. s # {}
    BY <2>3 DEF Totals
  <2> DEFINE r == s \ {Picked(s)}
  <2>5. /\ r \in SUBSET S /\ Cardinality(s) \in Nat
        /\ Cardinality(r) = Cardinality(s) - 1
    BY <2>4, PickedLeaves
  <2>6. t[s] = f[Picked(s)] + t[r] /\ u[s] = f[Picked(s)] + u[r]
    BY <2>4 DEF Totals
  <2>7. Cardinality(r) \in T
    BY <2>3, <2>5, <2>6
  <2> HIDE DEF T, r
  <2> QED
    BY <2>2, <2>3, <2>5, <2>7
<1> QED
  BY <1>1

\* What f gives up at one element and gains at another does not show in the sum.
LEMMA TotalsBalance ==
    ASSUME NEW S, IsFiniteSet(S), NEW f \in [S -> Int], NEW g \in [S -> Int],
           NEW a \in S, NEW b \in S, a # b,
           NEW m \in Int, g[a] = f[a] - m, g[b] = f[b] + m,
           \A c \in S \ {a, b} : g[c] = f[c],
           NEW t, Totals(SUBSET S, f, t), NEW u, Totals(SUBSET S, g, u)
    PROVE  u[S] = t[S]
<1> DEFINE Gap(s) == (IF a \in s THEN g[a] - f[a] ELSE 0)
                       + (IF b \in s THEN g[b] - f[b] ELSE 0)
           Good(s) == t[s] \in Int /\ u[s] \in Int /\ u[s] = t[s] + Gap(s)
           T == {Cardinality(s) : s \in {r \in SUBSET S : ~Good(r)}}
<1>1. ASSUME T # {}
      PROVE  FALSE
  <2>1. T \in SUBSET Nat
    <3>1. \A r \in SUBSET S : Cardinality(r) \in Nat
      BY FS_Subset, FS_CardinalityType
    <3> QED
      BY <3>1
  <2>2. PICK n \in T : \A k \in T : n <= k
    <3> HIDE DEF T
    <3> QED
      BY <1>1, <2>1, LeastNatural
  <2>3. PICK s \in SUBSET S : ~Good(s) /\ n = Cardinality(s)
    BY <2>2
  <2>4. Good({})
    <3>1. t[{}] = 0 /\ u[{}] = 0
      BY DEF Totals
    <3>2. Gap({}) = 0
      OBVIOUS
    <3> QED
      BY <3>1, <3>2
  <2>5. s # {}
    BY <2>3, <2>4
  <2> DEFINE x == Picked(s)
             r == s \ {x}
  <2>6. /\ x \in s /\ r \in SUBSET S /\ Cardinality(s) \in Nat
        /\ Cardinality(r) = Cardinality(s) - 1
    BY <2>5, PickedLeaves
  <2>7. Good(r)
    <3>1. ASSUME ~Good(r)
          PROVE  FALSE
      <4>1. Cardinality(r) \in T
        BY <2>6, <3>1
      <4> HIDE DEF T, Good, r
      <4> QED
        BY <2>2, <2>3, <2>6, <4>1
    <3> QED
      BY <3>1
  <2>8. t[s] = f[x] + t[r] /\ u[s] = g[x] + u[r]
    BY <2>5 DEF Totals
  <2>9. f[x] \in Int /\ g[x] \in Int /\ f[a] \in Int /\ g[a] \in Int /\ f[b] \in Int /\ g[b] \in Int
    BY <2>6
  <2>10. Gap(s) = Gap(r) + (g[x] - f[x])
    <3>1. x \in S /\ x \notin r /\ \A c : c \in s <=> c \in r \/ c = x
      BY <2>6
    <3> HIDE DEF x, r
    <3>2. CASE x = a
      BY <2>9, <3>1, <3>2
    <3>3. CASE x = b
      BY <2>9, <3>1, <3>3
    <3>4. CASE x # a /\ x # b
      <4>1. g[x] - f[x] = 0
        BY <2>9, <3>1, <3>4
      <4>2. Gap(s) = Gap(r) /\ Gap(r) \in Int
        BY <2>9, <3>1, <3>4
      <4> HIDE DEF Gap
      <4> QED
        BY <4>1, <4>2
    <3> QED
      BY <3>2, <3>3, <3>4
  <2>11. Gap(r) \in Int
    BY <2>9
  <2>12. t[r] \in Int /\ u[r] \in Int /\ u[r] = t[r] + Gap(r)
    BY <2>7
  <2> HIDE DEF x, r, Gap
  <2>13. t[s] \in Int /\ u[s] \in Int /\ u[s] = t[s] + Gap(s)
    BY <2>8, <2>9, <2>10, <2>11, <2>12
  <2> QED
    BY <2>3, <2>13
<1>2. \A s \in SUBSET S : Good(s)
  BY <1>1
<1>3. S \in SUBSET S
  OBVIOUS
<1>4. Good(S)
  BY <1>2, <1>3
<1>5. Gap(S) = 0
  BY DEF Gap
<1> HIDE DEF Gap
<1> QED
  BY <1>4, <1>5


\* What all accounts together have received less what they have sent.
TransferredOf == [a \in DOMAIN accounts |-> NetTransferred(a)]

TransferSum == MapThenSumSet(NetTransferred, DOMAIN accounts)
SumIsOver(total) ==
    /\ Totals(SUBSET DOMAIN accounts, TransferredOf, total)
    /\ TransferSum = total[DOMAIN accounts]

LEMMA SumIsTotal == TypeOK => \E total : SumIsOver(total)
<1> SUFFICES ASSUME TypeOK
             PROVE  \E total : SumIsOver(total)
  OBVIOUS
<1> DEFINE D == DOMAIN accounts
           Sums(total) == total = [s \in SUBSET D |->
                             IF s = {} THEN 0
                             ELSE NetTransferred(Picked(s)) + total[s \ {Picked(s)}]]
<1>1. IsFiniteSet(D)
  BY AccountIdsAssumption, FS_Subset DEF TypeOK
<1>2. ASSUME NEW total, Totals(SUBSET D, TransferredOf, total)
      PROVE  Sums(total)
  <2>1. \A s \in SUBSET D : s # {} => TransferredOf[Picked(s)] = NetTransferred(Picked(s))
    BY <1>1, PickedLeaves DEF TransferredOf
  <2> QED
    BY <1>2, <2>1 DEF Totals
<1>3. ASSUME NEW total, Sums(total)
      PROVE  Totals(SUBSET D, TransferredOf, total)
  <2>1. \A s \in SUBSET D : s # {} => TransferredOf[Picked(s)] = NetTransferred(Picked(s))
    BY <1>1, PickedLeaves DEF TransferredOf
  <2> QED
    BY <1>3, <2>1 DEF Totals
<1>4. \E total : Sums(total)
  BY <1>1, <1>2, TotalsExist
<1> DEFINE chosen == CHOOSE total : Sums(total)
<1>5. Sums(chosen)
  BY <1>4, Zenon
<1>6. MapThenSumSet(NetTransferred, D) = chosen[D]
  BY Zenon DEF MapThenSumSet, MapThenFoldSet, Picked
<1> HIDE DEF chosen, Sums
<1> QED
  BY <1>3, <1>5, <1>6 DEF SumIsOver, TransferSum


Transfers == {"TransferIn", "TransferOut"}

\* What a transaction counts for among the transfers.
LEMMA TransferEffect ==
    ASSUME NEW id \in Nat, NEW kind \in Kinds, NEW amount \in Int
    PROVE  LET t == [id |-> id, kind |-> kind, amount |-> amount]
           IN  /\ t \in Transaction /\ t.kind = kind
               /\ kind = "TransferIn" =>
                    Effect(t, {"TransferIn"}, {"TransferOut"}) = amount
               /\ kind = "TransferOut" =>
                    Effect(t, {"TransferIn"}, {"TransferOut"}) = -amount
               /\ kind \notin Transfers =>
                    Effect(t, {"TransferIn"}, {"TransferOut"}) = 0
<1> DEFINE t == [id |-> id, kind |-> kind, amount |-> amount]
<1>1. t \in Transaction /\ t.kind = kind /\ t.amount = amount
  BY DEF Transaction
<1> HIDE DEF t
<1>2. /\ kind = "TransferIn" => Effect(t, {"TransferIn"}, {"TransferOut"}) = amount
      /\ kind = "TransferOut" => Effect(t, {"TransferIn"}, {"TransferOut"}) = -amount
      /\ kind \notin Transfers => Effect(t, {"TransferIn"}, {"TransferOut"}) = 0
  BY <1>1 DEF Effect, Transfers
<1> QED
  BY <1>1, <1>2 DEF t

\* The account records nothing, or something other than a transfer.
SendsNothing(a) ==
    \/ After(a) = TransactionsOf(a)
    \/ \E t \in Transaction :
         /\ After(a) = Append(TransactionsOf(a), t)
         /\ Effect(t, {"TransferIn"}, {"TransferOut"}) = 0

LEMMA SendsNothingKeepsNet ==
    ASSUME TypeOK, NEW a \in DOMAIN accounts, SendsNothing(a)
    PROVE  NetTransferred(a)' = NetTransferred(a)
<1>1. /\ TransactionsOf(a) \in Seq(Transaction)
      /\ NetTransferred(a) \in Int
      /\ NetTransferred(a)' = Net(After(a), {"TransferIn"}, {"TransferOut"})
  BY HistoryType, NetType DEF NetTransferred, After, TransactionsOf
<1>2. CASE After(a) = TransactionsOf(a)
  BY <1>1, <1>2 DEF NetTransferred
<1>3. CASE \E t \in Transaction :
             /\ After(a) = Append(TransactionsOf(a), t)
             /\ Effect(t, {"TransferIn"}, {"TransferOut"}) = 0
  <2>1. PICK t \in Transaction :
          /\ After(a) = Append(TransactionsOf(a), t)
          /\ Effect(t, {"TransferIn"}, {"TransferOut"}) = 0
    BY <1>3
  <2>2. Net(Append(TransactionsOf(a), t), {"TransferIn"}, {"TransferOut"}) =
          Net(TransactionsOf(a), {"TransferIn"}, {"TransferOut"})
            + Effect(t, {"TransferIn"}, {"TransferOut"})
    BY <1>1, NetAppend
  <2> QED
    BY <1>1, <2>1, <2>2 DEF NetTransferred
<1> QED
  BY <1>2, <1>3 DEF SendsNothing

\* An operation that takes an id and records something other than a transfer.
LEMMA PostSendsNothing ==
    ASSUME TypeOK, NEW id \in DOMAIN accounts, NEW account \in Account,
           account.transactions = TransactionsOf(id),
           NEW kind \in Kinds \ Transfers, NEW amount \in Int,
           Post(id, account, kind, amount)
    PROVE  \A a \in DOMAIN accounts : SendsNothing(a)
<1> DEFINE t == [id |-> next_transaction_id, kind |-> kind, amount |-> amount]
           written == Recorded(account, next_transaction_id, kind, amount)
<1>1. next_transaction_id \in Nat
  BY DEF TypeOK
<1>2. t \in Transaction /\ Effect(t, {"TransferIn"}, {"TransferOut"}) = 0
  BY <1>1, TransferEffect
<1>3. /\ accounts'[id] = written
      /\ \A a \in DOMAIN accounts \ {id} : accounts'[a] = accounts[a]
  BY DEF Post
<1>4. written.transactions = Append(account.transactions, t)
  BY <1>1, RecordedType
<1> HIDE DEF t, written
<1>5. SendsNothing(id)
  BY <1>2, <1>3, <1>4 DEF SendsNothing, After
<1>6. \A a \in DOMAIN accounts \ {id} : SendsNothing(a)
  BY <1>3 DEF SendsNothing, After, TransactionsOf
<1> QED
  BY <1>5, <1>6

LEMMA NoteSendsNothing ==
    ASSUME TypeOK, NEW id \in AccountIds,
           \/ UpdateProfile(id) \/ ActivateAccount(id)
           \/ DeactivateAccount(id) \/ CloseAccount(id)
    PROVE  \A a \in DOMAIN accounts : SendsNothing(a)
<1>1. id \in DOMAIN accounts /\ 0 \in Int
  BY DEF UpdateProfile, ActivateAccount, DeactivateAccount, CloseAccount,
         OwesAndHoldsNothing, Exists
<1>2. \A kind \in Notes : kind \in Kinds \ Transfers
  BY DEF Notes, Kinds, Transfers
<1>3. CASE UpdateProfile(id)
  <2>1. Post(id, accounts[id], "ProfileUpdated", 0) /\ "ProfileUpdated" \in Notes
    BY <1>3 DEF UpdateProfile, Notes
  <2>2. accounts[id] \in Account /\ accounts[id].transactions = TransactionsOf(id)
    BY <1>1 DEF TypeOK, TransactionsOf
  <2> QED
    BY <1>1, <1>2, <2>1, <2>2, PostSendsNothing
<1>4. ASSUME NEW status \in Statuses, NEW kind \in Notes,
             Post(id, WithStatus(id, status), kind, 0)
      PROVE  \A a \in DOMAIN accounts : SendsNothing(a)
  BY <1>1, <1>2, <1>4, WithStatusType, PostSendsNothing
<1> QED
  BY <1>3, <1>4
     DEF ActivateAccount, DeactivateAccount, CloseAccount, Statuses, Notes

LEMMA MoneySendsNothing ==
    ASSUME TypeOK, NEW id \in AccountIds, NEW amount \in Amounts,
           \/ Deposit(id, amount) \/ Withdraw(id, amount) \/ ApplyFee(id, amount)
           \/ RequestLoan(id, amount) \/ PayLoan(id, amount)
    PROVE  \A a \in DOMAIN accounts : SendsNothing(a)
<1>1. /\ id \in DOMAIN accounts /\ amount \in Int
      /\ accounts[id].balance \in Int /\ accounts[id].loan_balance \in Int
  BY AmountsAssumption, MaximaAssumption
     DEF Deposit, Withdraw, ApplyFee, Take, RequestLoan, PayLoan, CanTransact, Exists, TypeOK
<1>2. \A kind \in {"Deposit", "Withdrawal", "Fee", "LoanRequested", "LoanPayment"} :
        kind \in Kinds \ Transfers
  BY DEF Kinds, Credits, Debits, Transfers
<1>3. ASSUME NEW balance \in Int,
             NEW kind \in {"Deposit", "Withdrawal", "Fee"},
             Post(id, WithBalance(id, balance), kind, amount)
      PROVE  \A a \in DOMAIN accounts : SendsNothing(a)
  BY <1>1, <1>2, <1>3, WithBalanceType, PostSendsNothing
<1>4. ASSUME NEW balance \in Int, NEW loan \in Int, NEW recorded \in Int,
             NEW kind \in {"LoanRequested", "LoanPayment"},
             Post(id, [WithBalance(id, balance) EXCEPT !.loan_balance = loan], kind, recorded)
      PROVE  \A a \in DOMAIN accounts : SendsNothing(a)
  <2> DEFINE account == [WithBalance(id, balance) EXCEPT !.loan_balance = loan]
  <2>1. account \in Account /\ account.transactions = TransactionsOf(id)
    BY <1>1, LoanFieldTypes
  <2>2. Post(id, account, kind, recorded) /\ kind \in Kinds \ Transfers
    BY <1>2, <1>4
  <2> HIDE DEF account
  <2> QED
    BY <1>1, <2>1, <2>2, PostSendsNothing
<1>5. ASSUME NEW balance \in Int,
             accounts' = [accounts EXCEPT ![id] = WithBalance(id, balance)]
      PROVE  \A a \in DOMAIN accounts : SendsNothing(a)
  <2>1. WithBalance(id, balance).transactions = TransactionsOf(id)
    BY <1>1, WithBalanceType
  <2> QED
    BY <1>1, <1>5, <2>1 DEF SendsNothing, After, TransactionsOf
<1>6. ASSUME UNCHANGED accounts
      PROVE  \A a \in DOMAIN accounts : SendsNothing(a)
  BY <1>6 DEF SendsNothing, After, TransactionsOf
<1>7. CASE Deposit(id, amount)
  BY <1>1, <1>3, <1>6, <1>7 DEF Deposit, Forfeit
<1>8. CASE Withdraw(id, amount) \/ ApplyFee(id, amount)
  BY <1>1, <1>3, <1>8 DEF Withdraw, ApplyFee, Take
<1>9. CASE RequestLoan(id, amount)
  BY <1>1, <1>4, <1>5, <1>6, <1>9 DEF RequestLoan, Forfeit
<1>10. CASE PayLoan(id, amount)
  <2> DEFINE loan    == accounts[id].loan_balance
             payment == IF amount < loan THEN amount ELSE loan
  <2>1. /\ payment \in Int /\ accounts[id].balance - payment \in Int
        /\ loan - payment \in Int
    BY <1>1
  <2>2. Post(id, [WithBalance(id, accounts[id].balance - payment)
                    EXCEPT !.loan_balance = loan - payment],
             "LoanPayment", payment)
    BY <1>10 DEF PayLoan
  <2> HIDE DEF payment, loan
  <2> QED
    BY <1>4, <2>1, <2>2
<1> QED
  BY <1>7, <1>8, <1>9, <1>10

LEMMA ApplyInterestSendsNothing ==
    ASSUME TypeOK, NEW id \in AccountIds, NEW rate \in Rates, ApplyInterest(id, rate)
    PROVE  \A a \in DOMAIN accounts : SendsNothing(a)
<1> DEFINE interest == Percentage(accounts[id].balance, rate)
           balance == accounts[id].balance + interest
<1>1. id \in DOMAIN accounts /\ rate \in Nat /\ accounts[id].balance \in Nat
  BY RatesAssumption, MaximaAssumption DEF ApplyInterest, CanTransact, Exists, TypeOK
<1>2. interest \in Nat
  BY <1>1, RatesAssumption, PercentageNat
<1>3. "Interest" \in Kinds \ Transfers
  BY DEF Kinds, Credits, Transfers
<1>4. \/ Post(id, WithBalance(id, balance), "Interest", interest)
      \/ UNCHANGED accounts
  BY DEF ApplyInterest, Forfeit
<1> HIDE DEF interest
<1>5. balance \in Int /\ interest \in Int
  BY <1>1, <1>2
<1> HIDE DEF balance
<1>6. CASE UNCHANGED accounts
  BY <1>6 DEF SendsNothing, After, TransactionsOf
<1> QED
  BY <1>1, <1>3, <1>4, <1>5, <1>6, WithBalanceType, PostSendsNothing

LEMMA ApplyMonthlyFeeSendsNothing ==
    ASSUME TypeOK, NEW amount \in Amounts, ApplyMonthlyFee(amount)
    PROVE  \A a \in DOMAIN accounts : SendsNothing(a)
<1> DEFINE payers  == MonthlyFeePayers(amount)
           charged == {id \in payers : PaymentId(id, payers) < MaxTransactionId}
           account(id) == WithBalance(id, accounts[id].balance - amount)
<1>1. amount \in Int /\ "Fee" \in Kinds \ Transfers
  BY AmountsAssumption DEF Kinds, Debits, Transfers
<1>2. payers \in SUBSET DOMAIN accounts /\ charged \in SUBSET DOMAIN accounts
  BY DEF MonthlyFeePayers
<1>3. \A c \in charged : PaymentId(c, payers) \in Nat
  BY <1>2, MonthlyFeeIds
<1>4. /\ \A id \in charged :
           accounts'[id] = Recorded(account(id), PaymentId(id, payers), "Fee", amount)
      /\ \A id \in DOMAIN accounts \ charged : accounts'[id] = accounts[id]
  BY <1>2 DEF ApplyMonthlyFee
<1> HIDE DEF charged, payers
<1>5. ASSUME NEW id \in charged
      PROVE  SendsNothing(id)
  <2> DEFINE n == PaymentId(id, payers)
             t == [id |-> n, kind |-> "Fee", amount |-> amount]
             paid == account(id)
             written == Recorded(paid, n, "Fee", amount)
  <2>1. accounts[id].balance \in Int /\ accounts[id].balance - amount \in Int
    BY <1>1, <1>2, MaximaAssumption DEF TypeOK
  <2>2. paid \in Account /\ paid.transactions = TransactionsOf(id)
    BY <1>2, <2>1, WithBalanceType
  <2>3. accounts'[id] = written /\ n \in Nat
    BY <1>3, <1>4
  <2> HIDE DEF account, paid, n
  <2>4. written.transactions = Append(paid.transactions, t)
    BY <1>1, <2>2, <2>3, RecordedType
  <2>5. t \in Transaction /\ Effect(t, {"TransferIn"}, {"TransferOut"}) = 0
    BY <1>1, <2>3, TransferEffect
  <2> HIDE DEF written, t
  <2> QED
    BY <2>2, <2>3, <2>4, <2>5 DEF SendsNothing, After
<1>6. \A id \in DOMAIN accounts \ charged : SendsNothing(id)
  BY <1>4 DEF SendsNothing, After, TransactionsOf
<1> QED
  BY <1>5, <1>6

\* A transfer: one account records as sent what the other records as received.
Exchanges ==
    \E from, to \in DOMAIN accounts, amount \in Int :
      /\ from # to
      /\ NetTransferred(from)' = NetTransferred(from) - amount
      /\ NetTransferred(to)' = NetTransferred(to) + amount
      /\ \A a \in DOMAIN accounts \ {from, to} : NetTransferred(a)' = NetTransferred(a)

LEMMA TransferExchanges ==
    ASSUME TypeOK, NEW from \in AccountIds, NEW to \in AccountIds,
           NEW amount \in Amounts, Transfer(from, to, amount)
    PROVE  Exchanges \/ \A a \in DOMAIN accounts : SendsNothing(a)
<1> DEFINE paid     == WithBalance(from, accounts[from].balance - amount)
           received == WithBalance(to, accounts[to].balance + amount)
           n        == next_transaction_id
           sent     == [id |-> n, kind |-> "TransferOut", amount |-> amount]
           got      == [id |-> n + 1, kind |-> "TransferIn", amount |-> amount]
           debited  == Recorded(paid, n, "TransferOut", amount)
           credited == Recorded(received, n + 1, "TransferIn", amount)
<1>1. /\ from \in DOMAIN accounts /\ to \in DOMAIN accounts /\ from # to
      /\ amount \in Int /\ n \in Nat /\ n + 1 \in Nat
      /\ accounts[from].balance - amount \in Int
      /\ accounts[to].balance + amount \in Int
  BY AmountsAssumption, MaximaAssumption DEF Transfer, CanTransact, Exists, TypeOK
<1>2. "TransferOut" \in Kinds /\ "TransferIn" \in Kinds
  BY DEF Kinds, Credits, Debits
<1>3. /\ sent \in Transaction /\ got \in Transaction
      /\ Effect(sent, {"TransferIn"}, {"TransferOut"}) = -amount
      /\ Effect(got, {"TransferIn"}, {"TransferOut"}) = amount
  <2>1. ASSUME NEW m \in Nat
        PROVE  LET t == [id |-> m, kind |-> "TransferIn", amount |-> amount]
               IN  /\ t \in Transaction
                   /\ Effect(t, {"TransferIn"}, {"TransferOut"}) = amount
    BY <1>1, <1>2, TransferEffect
  <2>2. /\ sent \in Transaction
        /\ Effect(sent, {"TransferIn"}, {"TransferOut"}) = -amount
    BY <1>1, <1>2, TransferEffect
  <2> QED
    BY <1>1, <2>1, <2>2
<1>4. paid \in Account /\ paid.transactions = TransactionsOf(from)
  BY <1>1, WithBalanceType
<1>5. received \in Account /\ received.transactions = TransactionsOf(to)
  BY <1>1, WithBalanceType
<1>6. \/ UNCHANGED accounts
      \/ accounts' = [accounts EXCEPT ![from] = debited, ![to] = credited]
  BY DEF Transfer, Forfeit
<1> HIDE DEF paid, received
<1>7. debited.transactions = Append(TransactionsOf(from), sent)
  BY <1>1, <1>2, <1>4, RecordedType
<1>8. credited.transactions = Append(TransactionsOf(to), got)
  BY <1>1, <1>2, <1>5, RecordedType
<1> HIDE DEF debited, credited, sent, got
<1>9. CASE accounts' = [accounts EXCEPT ![from] = debited, ![to] = credited]
  <2>1. /\ TransactionsOf(from)' = Append(TransactionsOf(from), sent)
        /\ TransactionsOf(to)' = Append(TransactionsOf(to), got)
        /\ \A a \in DOMAIN accounts \ {from, to} : SendsNothing(a)
    BY <1>1, <1>7, <1>8, <1>9 DEF TransactionsOf, SendsNothing, After
  <2>2. /\ TransactionsOf(from) \in Seq(Transaction)
        /\ TransactionsOf(to) \in Seq(Transaction)
        /\ NetTransferred(from) \in Int
    BY <1>1, HistoryType, NetType DEF NetTransferred
  <2>3. NetTransferred(from)' = NetTransferred(from) - amount
    <3>1. Net(Append(TransactionsOf(from), sent), {"TransferIn"}, {"TransferOut"}) =
            NetTransferred(from) + (-amount)
      BY <1>3, <2>2, NetAppend DEF NetTransferred
    <3>2. NetTransferred(from)' = NetTransferred(from) + (-amount)
      BY <2>1, <3>1 DEF NetTransferred
    <3> QED
      BY <1>1, <2>2, <3>2
  <2>4. NetTransferred(to)' = NetTransferred(to) + amount
    BY <1>3, <2>1, <2>2, NetAppend DEF NetTransferred
  <2>5. \A a \in DOMAIN accounts \ {from, to} : NetTransferred(a)' = NetTransferred(a)
    BY <2>1, SendsNothingKeepsNet
  <2> QED
    BY <1>1, <2>3, <2>4, <2>5 DEF Exchanges
<1>10. CASE UNCHANGED accounts
  BY <1>10 DEF SendsNothing, After, TransactionsOf
<1> QED
  BY <1>6, <1>9, <1>10

LEMMA EveryTransferStep ==
    ASSUME TypeOK, [Next]_vars, DOMAIN accounts' = DOMAIN accounts
    PROVE  \/ Exchanges
           \/ \A a \in DOMAIN accounts : SendsNothing(a)
<1> DEFINE Goal == Exchanges \/ \A a \in DOMAIN accounts : SendsNothing(a)
<1>1. ASSUME NEW id \in AccountIds, NEW amount \in Amounts, CreateAccount(id, amount)
      PROVE  Goal
  BY <1>1 DEF CreateAccount, Exists
<1>2. ASSUME NEW id \in AccountIds,
             \/ UpdateProfile(id) \/ ActivateAccount(id)
             \/ DeactivateAccount(id) \/ CloseAccount(id)
      PROVE  Goal
  BY <1>2, NoteSendsNothing
<1>3. ASSUME NEW id \in AccountIds, DeleteAccount(id)
      PROVE  Goal
  BY <1>3 DEF DeleteAccount, OwesAndHoldsNothing, Exists
<1>4. ASSUME NEW id \in AccountIds, NEW rate \in Rates, ApplyInterest(id, rate)
      PROVE  Goal
  BY <1>4, ApplyInterestSendsNothing
<1>5. ASSUME NEW id \in AccountIds, NEW amount \in Amounts,
             \/ Deposit(id, amount) \/ Withdraw(id, amount) \/ ApplyFee(id, amount)
             \/ RequestLoan(id, amount) \/ PayLoan(id, amount)
      PROVE  Goal
  BY <1>5, MoneySendsNothing
<1>6. ASSUME NEW from \in AccountIds, NEW to \in AccountIds, NEW amount \in Amounts,
             Transfer(from, to, amount)
      PROVE  Goal
  BY <1>6, TransferExchanges
<1>7. ASSUME NEW amount \in Amounts, ApplyMonthlyFee(amount)
      PROVE  Goal
  BY <1>7, ApplyMonthlyFeeSendsNothing
<1>8. ASSUME Reload \/ UNCHANGED vars
      PROVE  Goal
  BY <1>8 DEF Reload, vars, SendsNothing, After, TransactionsOf
<1> HIDE DEF Goal
<1>9. Goal
  BY <1>1, <1>2, <1>3, <1>4, <1>5, <1>6, <1>7, <1>8 DEF Next
<1> QED
  BY <1>9 DEF Goal

\* `transfer`: what one account records as sent another records as received,
\* whatever fails in between and however many accounts there are.
THEOREM TransfersBalance == Spec => TransfersAreNeutral
<1>1. TypeOK /\ TypeOK' /\ [Next]_vars =>
        [DOMAIN accounts' = DOMAIN accounts =>
           MapThenSumSet(NetTransferred, DOMAIN accounts)' =
           MapThenSumSet(NetTransferred, DOMAIN accounts)]_vars
  <2> SUFFICES ASSUME TypeOK, TypeOK', [Next]_vars, DOMAIN accounts' = DOMAIN accounts
               PROVE  TransferSum' = TransferSum
    BY DEF TransferSum
  <2> PICK D, f, g : D = DOMAIN accounts /\ f = TransferredOf /\ g = TransferredOf'
    OBVIOUS
  <2>1. PICK t : Totals(SUBSET D, f, t) /\ TransferSum = t[D]
    BY SumIsTotal DEF SumIsOver
  <2>2. PICK u : Totals(SUBSET D, g, u) /\ TransferSum' = u[D]
    <3>1. (\E total : SumIsOver(total))'
      BY SumIsTotal, PTL
    <3> QED
      BY <3>1 DEF SumIsOver, Totals
  <2>3. /\ f \in [D -> Int] /\ g \in [D -> Int] /\ IsFiniteSet(D)
        /\ \A a \in D : f[a] = NetTransferred(a) /\ g[a] = NetTransferred(a)'
    <3>1. \A a \in D : NetTransferred(a) \in Int
      BY HistoryType, NetType DEF NetTransferred
    <3>2. \A a \in D : NetTransferred(a)' \in Int
      <4> SUFFICES ASSUME NEW a \in D
                   PROVE  NetTransferred(a)' \in Int
        OBVIOUS
      <4>1. TransactionsOf(a)' \in Seq(Transaction)
        BY DEF TypeOK, TransactionsOf, Account
      <4> QED
        BY <4>1, NetType DEF NetTransferred
    <3>3. g = [a \in D |-> NetTransferred(a)']
      BY DEF TransferredOf
    <3>4. IsFiniteSet(D)
      BY AccountIdsAssumption, FS_Subset DEF TypeOK
    <3> QED
      BY <3>1, <3>2, <3>3, <3>4 DEF TransferredOf
  <2>4. CASE Exchanges
    <3>1. PICK a \in D, b \in D, amount \in Int :
            /\ a # b
            /\ g[a] = f[a] - amount /\ g[b] = f[b] + amount
            /\ \A c \in D \ {a, b} : g[c] = f[c]
      BY <2>3, <2>4 DEF Exchanges
    <3> QED
      BY <2>1, <2>2, <2>3, <3>1, TotalsBalance
  <2>5. CASE \A a \in DOMAIN accounts : SendsNothing(a)
    <3>1. \A a \in D : g[a] = f[a]
      BY <2>3, <2>5, SendsNothingKeepsNet
    <3>2. g = f
      BY <2>3, <3>1
    <3> QED
      BY <2>1, <2>2, <2>3, <3>2, TotalsUnique
  <2> QED
    BY <2>4, <2>5, EveryTransferStep
<1> QED
  BY <1>1, TypeInvariant, PTL DEF Spec, TransfersAreNeutral

=============================================================================
