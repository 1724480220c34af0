--------------------------- MODULE BankProperties ---------------------------
(***************************************************************************)
(* What the ledger of Bank is trusted for.  The balances are written next  *)
(* to a history of transactions; most of these properties relate the two.  *)
(***************************************************************************)
EXTENDS Bank, FiniteSetsExt

\* Amounts of the credits less amounts of the debits of a history.
Effect(transaction, credits, debits) ==
    CASE transaction.kind \in credits -> transaction.amount
      [] transaction.kind \in debits  -> -transaction.amount
      [] OTHER                        -> 0

Net(history, credits, debits) ==
    LET sum[i \in 0..Len(history)] ==
          IF i = 0 THEN 0 ELSE sum[i - 1] + Effect(history[i], credits, debits)
    IN sum[Len(history)]

LedgerBalance(id) == Net(TransactionsOf(id), Credits, Debits)
LedgerLoan(id)    == Net(TransactionsOf(id), {"LoanRequested"}, {"LoanPayment"})
NetTransferred(id) == Net(TransactionsOf(id), {"TransferIn"}, {"TransferOut"})

\* What an account holds beyond what its history accounts for.
Unrecorded(id) == accounts[id].balance - LedgerBalance(id)

-----------------------------------------------------------------------------
(* Invariants.                                                             *)

\* The type of the state: balances stay within 0..MaxCents although the
\* checks are spread over the operations, and ids below the largest one.
TypeOK ==
    /\ DOMAIN accounts \subseteq AccountIds
    /\ \A id \in DOMAIN accounts :
         /\ accounts[id] \in Account
         /\ accounts[id].balance \in 0..MaxCents
         /\ accounts[id].loan_balance \in 0..MaxCents
    /\ next_transaction_id \in 1..MaxTransactionId

\* Whatever the bank has become, the snapshot of it is accepted by
\* `from_accounts`: no sequence of operations writes a file that cannot be
\* loaded again (the transaction ids are also the primary key of the SQLite
\* table, so the same fact keeps the save itself from failing).
SnapshotReloads == Importable

\* The ids of one history increase, and the next id is larger than all of
\* them, also after a reload that has computed it anew.  The SQLite store
\* keeps no other order: it reads a history back sorted by the ids
\* (sqlite_store.rs:696), so this is what makes it the same history.
HistoryOrdered ==
    /\ \A n \in RecordedIds : n < next_transaction_id
    /\ \A a \in DOMAIN accounts :
         \A i, j \in DOMAIN TransactionsOf(a) :
           i < j => TransactionsOf(a)[i].id < TransactionsOf(a)[j].id

\* `close_account` demands that nothing is held or owed, and no operation
\* puts money or a loan on the account afterwards.
ClosedAccountsHoldNothing ==
    \A a \in DOMAIN accounts :
      accounts[a].status = "Closed" =>
        accounts[a].balance = 0 /\ accounts[a].loan_balance = 0

\* The loan balance is the loans received less the payments made, although a
\* payment may be smaller than the amount the caller offered.
LoanMatchesLedger ==
    \A a \in DOMAIN accounts : accounts[a].loan_balance = LedgerLoan(a)

\* An account never holds less than its history accounts for: no failure
\* between the write of a balance and its record loses the owner's money.
BalanceCoversLedger ==
    \A a \in DOMAIN accounts : Unrecorded(a) >= 0

\* The two ids of a transfer are consecutive and the outgoing one is first:
\* whatever still carries the id before a TransferIn is its TransferOut, on
\* another account.  Ids freed by a deletion and handed out again after a
\* reload never come between.
InboundTransfersTraceable ==
    \A a, b \in DOMAIN accounts :
      \A i \in DOMAIN TransactionsOf(a), j \in DOMAIN TransactionsOf(b) :
        LET received == TransactionsOf(a)[i]
            sent     == TransactionsOf(b)[j]
        IN  received.kind = "TransferIn" /\ sent.id = received.id - 1 =>
              a # b /\ sent.kind = "TransferOut" /\ sent.amount = received.amount

-----------------------------------------------------------------------------
(* Action properties.                                                      *)

\* An account that is closed stays closed for as long as it exists, and its
\* money does not move any more.
ClosedIsFinal ==
    [][\A a \in DOMAIN accounts \cap DOMAIN accounts' :
         accounts[a].status = "Closed" =>
           /\ accounts'[a].status = "Closed"
           /\ accounts'[a].balance = accounts[a].balance]_vars

\* Transfers create and destroy nothing: while no account appears or leaves,
\* the received and the sent amounts of all histories change together, also
\* when the call fails between its two transactions.
TransfersAreNeutral ==
    [][DOMAIN accounts' = DOMAIN accounts =>
         MapThenSumSet(NetTransferred, DOMAIN accounts)' =
         MapThenSumSet(NetTransferred, DOMAIN accounts)]_vars

\* The only step that lets a balance and its history drift apart is the loan
\* request whose loan balance overflows: it leaves the history alone and
\* credits an account whose loan would have passed the maximum.
OnlyFailedLoansDrift ==
    [][\A a \in DOMAIN accounts \cap DOMAIN accounts' :
         LET credited == accounts'[a].balance - accounts[a].balance
         IN  Unrecorded(a)' # Unrecorded(a) =>
               /\ TransactionsOf(a)' = TransactionsOf(a)
               /\ credited > 0
               /\ accounts[a].loan_balance + credited > MaxCents]_vars

\* Money moves only with a transaction: a call that records nothing on an
\* account, a failed one above all, leaves its balances alone.
MoneyMovesOnRecord ==
    [][\A a \in DOMAIN accounts \cap DOMAIN accounts' :
         TransactionsOf(a)' = TransactionsOf(a) =>
           /\ accounts'[a].balance = accounts[a].balance
           /\ accounts'[a].loan_balance = accounts[a].loan_balance]_vars

=============================================================================
