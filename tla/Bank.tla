-------------------------------- MODULE Bank --------------------------------
(***************************************************************************)
(* The account ledger of src/src/bank.rs: every operation of `Bank` as one *)
(* action.  A call that is refused before it changes anything is a         *)
(* stuttering step; a call that fails after it has changed something (an   *)
(* id taken and lost, a balance written before an overflow) is a step.     *)
(*                                                                         *)
(* Names, e-mails, owners, timestamps and descriptions are left out: no    *)
(* operation of bank.rs decides anything by them once they are accepted.   *)
(***************************************************************************)
EXTENDS Integers, Sequences, FiniteSets

CONSTANTS
    AccountIds,          \* the ids callers may use (u32)
    Amounts,             \* the amounts callers may pass, in cents (i64)
    Rates,               \* the interest rates, in basis points (u32)
    BasisPointsInWhole,  \* 10_000 in domain.rs
    MaxCents,            \* i64::MAX
    MaxTransactionId     \* u64::MAX

ASSUME AccountIdsAssumption == AccountIds \subseteq Nat /\ IsFiniteSet(AccountIds)
ASSUME AmountsAssumption    == \A amount \in Amounts : amount \in Int /\ amount <= MaxCents
ASSUME RatesAssumption      == Rates \subseteq Nat /\ BasisPointsInWhole \in Nat \ {0}
ASSUME MaximaAssumption     == MaxCents \in Nat /\ MaxTransactionId \in Nat \ {0}

VARIABLES
    accounts,            \* the live accounts: a function on their ids
    next_transaction_id  \* the id the next transaction takes

vars == <<accounts, next_transaction_id>>

Statuses == {"Active", "Inactive", "Closed"}

\* What a transaction does to the balance of the account that records it.
Credits == {"AccountCreated", "Deposit", "TransferIn", "Interest", "LoanRequested"}
Debits  == {"Withdrawal", "TransferOut", "Fee", "LoanPayment"}
Notes   == {"ProfileUpdated", "Activated", "Deactivated", "Closed"}
Kinds   == Credits \cup Debits \cup Notes

Transaction == [id : Nat, kind : Kinds, amount : Int]
Account == [status : Statuses, balance : Int, loan_balance : Int,
            transactions : Seq(Transaction)]

-----------------------------------------------------------------------------
(* Helpers of the operations.                                              *)

Exists(id) == id \in DOMAIN accounts

\* Slip: only inactive accounts are refused.
CanTransactUnlessInactive(id) == Exists(id) /\ accounts[id].status # "Inactive"

\* `ensure_can_transact`.
CanTransact(id) == Exists(id) /\ accounts[id].status = "Active"

\* Slip: the check is off by one cent.
HasFundsOffByOne(id, amount) == accounts[id].balance + 1 >= amount

\* `ensure_sufficient_funds`.
HasFunds(id, amount) == accounts[id].balance >= amount

\* `next_transaction` refuses the id that has no successor.
IdsLeft(n) == next_transaction_id + n <= MaxTransactionId

\* `Account::record`: a transaction is appended to the account's history.
Recorded(account, id, kind, amount) ==
    [account EXCEPT !.transactions =
        Append(@, [id |-> id, kind |-> kind, amount |-> amount])]

\* Take an id, write the account and record the transaction on it.
Post(id, account, kind, amount) ==
    /\ IdsLeft(1)
    /\ accounts' = [accounts EXCEPT
                      ![id] = Recorded(account, next_transaction_id, kind, amount)]
    /\ next_transaction_id' = next_transaction_id + 1

\* The id is taken, then checked arithmetic fails and the call returns.
Forfeit ==
    /\ IdsLeft(1)
    /\ next_transaction_id' = next_transaction_id + 1
    /\ UNCHANGED accounts

WithBalance(id, balance) == [accounts[id] EXCEPT !.balance = balance]
WithStatus(id, status) == [accounts[id] EXCEPT !.status = status]

TransactionsOf(id) == accounts[id].transactions

RecordedIds ==
    UNION {{TransactionsOf(a)[i].id : i \in DOMAIN TransactionsOf(a)} :
           a \in DOMAIN accounts}

-----------------------------------------------------------------------------
(* The life of an account.                                                 *)

CreateAccount(id, opening) ==
    /\ ~Exists(id)
    /\ opening >= 0
    /\ IdsLeft(1)
    /\ accounts' =
         [a \in DOMAIN accounts \cup {id} |->
            IF a = id
            THEN [status |-> "Active", balance |-> opening, loan_balance |-> 0,
                  transactions |-> <<[id |-> next_transaction_id,
                                      kind |-> "AccountCreated",
                                      amount |-> opening]>>]
            ELSE accounts[a]]
    /\ next_transaction_id' = next_transaction_id + 1

\* `update_name` and `update_email`; a closed account accepts them too.
UpdateProfile(id) ==
    Exists(id) /\ Post(id, accounts[id], "ProfileUpdated", 0)

\* Slip: the guard against closed accounts is dropped.
ReopenAccount(id) ==
    Exists(id) /\ Post(id, WithStatus(id, "Active"), "Activated", 0)

ActivateAccount(id) ==
    /\ Exists(id)
    /\ accounts[id].status # "Closed"
    /\ Post(id, WithStatus(id, "Active"), "Activated", 0)

DeactivateAccount(id) ==
    /\ Exists(id)
    /\ accounts[id].status # "Closed"
    /\ Post(id, WithStatus(id, "Inactive"), "Deactivated", 0)

\* The guard that `close_account` and `delete_account` share.
OwesAndHoldsNothing(id) ==
    /\ Exists(id)
    /\ accounts[id].balance = 0
    /\ accounts[id].loan_balance = 0

\* An account that is already closed is closed, and recorded, once more.
CloseAccount(id) ==
    OwesAndHoldsNothing(id) /\ Post(id, WithStatus(id, "Closed"), "Closed", 0)

\* The account leaves with its history; no transaction records it.
DeleteAccount(id) ==
    /\ OwesAndHoldsNothing(id)
    /\ accounts' = [a \in DOMAIN accounts \ {id} |-> accounts[a]]
    /\ UNCHANGED next_transaction_id

-----------------------------------------------------------------------------
(* Money in, out and across.                                               *)

\* Slip: the sum saturates where the code reports the overflow.
DepositSaturating(id, amount) ==
    /\ amount > 0
    /\ CanTransact(id)
    /\ LET sum == accounts[id].balance + amount
       IN  Post(id, WithBalance(id, IF sum > MaxCents THEN MaxCents ELSE sum),
                "Deposit", amount)

Deposit(id, amount) ==
    /\ amount > 0
    /\ CanTransact(id)
    /\ LET balance == accounts[id].balance + amount IN
       \/ /\ balance <= MaxCents
          /\ Post(id, WithBalance(id, balance), "Deposit", amount)
       \/ balance > MaxCents /\ Forfeit

\* Slip: the balance is written before the id is taken.
TakeBeforeId(id, amount, kind) ==
    /\ amount > 0
    /\ CanTransact(id)
    /\ HasFunds(id, amount)
    /\ LET account == WithBalance(id, accounts[id].balance - amount)
       IN  \/ Post(id, account, kind, amount)
           \/ /\ ~IdsLeft(1)
              /\ accounts' = [accounts EXCEPT ![id] = account]
              /\ UNCHANGED next_transaction_id

\* The funds check rules out the underflow that `checked_sub` looks for.
Take(id, amount, kind) ==
    /\ amount > 0
    /\ CanTransact(id)
    /\ HasFunds(id, amount)
    /\ Post(id, WithBalance(id, accounts[id].balance - amount), kind, amount)

Withdraw(id, amount) == Take(id, amount, "Withdrawal")
ApplyFee(id, amount) == Take(id, amount, "Fee")

\* Slip: the receiving account takes the first of the two ids.
TransferCreditFirst(from, to, amount) ==
    /\ amount > 0
    /\ from # to
    /\ CanTransact(from) /\ CanTransact(to)
    /\ HasFunds(from, amount)
    /\ accounts[to].balance + amount <= MaxCents
    /\ IdsLeft(2)
    /\ accounts' =
         [accounts EXCEPT
            ![from] = Recorded(WithBalance(from, accounts[from].balance - amount),
                               next_transaction_id + 1, "TransferOut", amount),
            ![to] = Recorded(WithBalance(to, accounts[to].balance + amount),
                             next_transaction_id, "TransferIn", amount)]
    /\ next_transaction_id' = next_transaction_id + 2

\* Slip: each account is debited or credited as soon as its id is taken.
TransferLegByLeg(from, to, amount) ==
    /\ amount > 0
    /\ from # to
    /\ CanTransact(from) /\ CanTransact(to)
    /\ HasFunds(from, amount)
    /\ accounts[to].balance + amount <= MaxCents
    /\ ~IdsLeft(2)
    /\ Post(from, WithBalance(from, accounts[from].balance - amount),
            "TransferOut", amount)

\* Both balances are computed before the two ids are taken; when only one id
\* is left it is taken and lost.
Transfer(from, to, amount) ==
    /\ amount > 0
    /\ from # to
    /\ CanTransact(from) /\ CanTransact(to)
    /\ HasFunds(from, amount)
    /\ accounts[to].balance + amount <= MaxCents
    /\ \/ /\ IdsLeft(2)
          /\ accounts' =
               [accounts EXCEPT
                  ![from] = Recorded(WithBalance(from, accounts[from].balance - amount),
                                     next_transaction_id, "TransferOut", amount),
                  ![to] = Recorded(WithBalance(to, accounts[to].balance + amount),
                                   next_transaction_id + 1, "TransferIn", amount)]
          /\ next_transaction_id' = next_transaction_id + 2
       \/ ~IdsLeft(2) /\ Forfeit

\* `apply_fee` on every account in the order of the ids; an account that
\* cannot pay is skipped, and the accounts reached when the ids have run out
\* are not charged.
MonthlyFeePayers(amount) ==
    {id \in DOMAIN accounts : CanTransact(id) /\ HasFunds(id, amount)}

\* Slip: the id is read once for all accounts.
PaymentIdShared(id, payers) == next_transaction_id

PaymentId(id, payers) ==
    next_transaction_id + Cardinality({p \in payers : p < id})

ApplyMonthlyFee(amount) ==
    /\ amount > 0
    /\ LET payers  == MonthlyFeePayers(amount)
           charged == {id \in payers : PaymentId(id, payers) < MaxTransactionId}
       IN  /\ accounts' =
                [id \in DOMAIN accounts |->
                   IF id \in charged
                   THEN Recorded(WithBalance(id, accounts[id].balance - amount),
                                 PaymentId(id, payers), "Fee", amount)
                   ELSE accounts[id]]
           /\ next_transaction_id' = next_transaction_id + Cardinality(charged)

\* `checked_percentage` (the product must fit, the quotient is truncated).
Percentage(cents, rate) == (cents * rate) \div BasisPointsInWhole

ApplyInterest(id, rate) ==
    /\ rate # 0
    /\ CanTransact(id)
    /\ accounts[id].balance * rate <= MaxCents
    /\ LET interest == Percentage(accounts[id].balance, rate)
           balance  == accounts[id].balance + interest
       IN  \/ /\ balance <= MaxCents
              /\ Post(id, WithBalance(id, balance), "Interest", interest)
           \/ balance > MaxCents /\ Forfeit

-----------------------------------------------------------------------------
(* Loans.                                                                  *)

\* The balance is written before the loan balance is checked: when the loan
\* balance overflows the call fails with the money already credited, the id
\* lost and nothing recorded.
RequestLoan(id, amount) ==
    /\ amount > 0
    /\ CanTransact(id)
    /\ LET balance == accounts[id].balance + amount
           loan    == accounts[id].loan_balance + amount
       IN  \/ /\ balance <= MaxCents /\ loan <= MaxCents
              /\ Post(id, [WithBalance(id, balance) EXCEPT !.loan_balance = loan],
                      "LoanRequested", amount)
           \/ /\ balance <= MaxCents /\ loan > MaxCents
              /\ IdsLeft(1)
              /\ accounts' = [accounts EXCEPT ![id] = WithBalance(id, balance)]
              /\ next_transaction_id' = next_transaction_id + 1
           \/ balance > MaxCents /\ Forfeit

\* Slip: the amount offered is recorded in place of the payment.
PayLoanRecordingOffer(id, amount) ==
    /\ amount > 0
    /\ CanTransact(id)
    /\ accounts[id].loan_balance # 0
    /\ LET loan    == accounts[id].loan_balance
           payment == IF amount < loan THEN amount ELSE loan
       IN  /\ HasFunds(id, payment)
           /\ Post(id, [WithBalance(id, accounts[id].balance - payment)
                          EXCEPT !.loan_balance = loan - payment],
                   "LoanPayment", amount)

\* A payment is capped to the outstanding loan before the funds are checked.
PayLoan(id, amount) ==
    /\ amount > 0
    /\ CanTransact(id)
    /\ accounts[id].loan_balance # 0
    /\ LET loan    == accounts[id].loan_balance
           payment == IF amount < loan THEN amount ELSE loan
       IN  /\ HasFunds(id, payment)
           /\ Post(id, [WithBalance(id, accounts[id].balance - payment)
                          EXCEPT !.loan_balance = loan - payment],
                   "LoanPayment", payment)

-----------------------------------------------------------------------------
(* Saving and loading.                                                     *)

\* No two positions of the live histories carry the same transaction id.
TransactionIdsUnique ==
    \A a, b \in DOMAIN accounts :
      \A i \in DOMAIN TransactionsOf(a), j \in DOMAIN TransactionsOf(b) :
        TransactionsOf(a)[i].id = TransactionsOf(b)[j].id => a = b /\ i = j

\* The checks of `from_accounts` on the accounts of a snapshot.
Importable ==
    /\ \A a \in DOMAIN accounts :
         accounts[a].balance >= 0 /\ accounts[a].loan_balance >= 0
    /\ \A n \in RecordedIds : n # 0 /\ n < MaxTransactionId
    /\ TransactionIdsUnique

\* Slip: the next id follows the number of transactions, not the largest id.
ReloadCounting ==
    /\ Importable
    /\ next_transaction_id' = Cardinality(RecordedIds) + 1
    /\ UNCHANGED accounts

\* The bank is written out and built again by `from_accounts`: the accounts
\* are the same, and the next id follows the largest id still recorded.
Reload ==
    /\ Importable
    /\ \E largest \in RecordedIds \cup {0} :
         /\ \A n \in RecordedIds : n <= largest
         /\ next_transaction_id' = largest + 1
    /\ UNCHANGED accounts

-----------------------------------------------------------------------------

Init ==
    /\ accounts = [a \in {} |-> {}]
    /\ next_transaction_id = 1

Next ==
    \/ \E id \in AccountIds, amount \in Amounts : CreateAccount(id, amount)
    \/ \E id \in AccountIds :
         \/ UpdateProfile(id)
         \/ ActivateAccount(id)
         \/ DeactivateAccount(id)
         \/ CloseAccount(id)
         \/ DeleteAccount(id)
         \/ \E rate \in Rates : ApplyInterest(id, rate)
         \/ \E amount \in Amounts :
              \/ Deposit(id, amount)
              \/ Withdraw(id, amount)
              \/ ApplyFee(id, amount)
              \/ RequestLoan(id, amount)
              \/ PayLoan(id, amount)
    \/ \E from, to \in AccountIds, amount \in Amounts : Transfer(from, to, amount)
    \/ \E amount \in Amounts : ApplyMonthlyFee(amount)
    \/ Reload

Spec == Init /\ [][Next]_vars

=============================================================================
