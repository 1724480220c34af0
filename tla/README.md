# A TLA+ specification of `bank`

This directory specifies the Rust program in `../src`: a small bank with a
ledger, users and sessions, an audit log, an HTTP API, an interactive client and
two kinds of storage.  It holds TLA+ modules, TLC configurations and TLAPS
proofs.  `PROJECT.json` maps every definition to the lines it models, lists the
runs, the seeded slips each property is shown to catch, the hazards of the code
and the theorems.

Run a check with `tlc -config MCBank.cfg MCBank`, a proof with
`tlapm BankProofs.tla`.

## The system

| Part | State | Operations | Talks to |
| --- | --- | --- | --- |
| `Bank` (`bank.rs`, `domain.rs`) | accounts (balance, loan, status, history), the next transaction id | create, update, activate, deactivate, close, delete; deposit, withdraw, transfer, fee, monthly fee, interest, loan, payment; `from_accounts` | called by API and client under the lock or in the loop |
| `IdentityStore` (`identity.rs`) | customers, users, the username index | create customer, create user, authenticate, authorize, `from_records` | API, client, storage |
| `AuditLog` (`audit.rs`) | entries, the next audit id | record, `from_entries`; queried by two routes | every handler, client, storage |
| `AppState` (`app.rs`) | the three above | `new`, built from the parts of a snapshot | one `RwLock` in the API, a local variable of the client |
| `ApiSessionStore` (`api.rs`) | token → session and expiry | issue, authenticate, revoke | a `Mutex` in the API |
| `AuthThrottle` (`api.rs`) | throttle key of a username → failures and lock | ensure allowed, record success, record failure | a `Mutex` in the API |
| handlers (`api.rs`) | what a request carries between awaits | one per route | the three locks |
| JSON files (`storage.rs`) | a file | save, load, export | client |
| SQLite (`sqlite_store.rs`) | tables, a snapshot row, a schema version | migrate, save, load | client, and other processes with the same file |
| client (`cli.rs`) | the application state, one session | the command loop | everything but the API |
| `Money`, `InterestRate` (`domain.rs`) | — | parse, print, percentages | client prompts, bank |

### What is hard here

* **Failure in the middle.** An operation of the bank checks, takes a
  transaction id, writes balances and records, in this order, and any of the
  checked sums may fail after something has been written.  `request_loan` is the
  operation where that shows.  In API and client the same holds of the audit
  entry that comes after the operation, and of the entry about a save, which
  comes after the file.
* **Ids.** Transaction ids run out.  The next one is not stored but computed from
  the histories, so a deletion followed by a reload hands ids out again; the
  SQLite store uses them as a primary key and as the order of a history.  Audit
  ids come from a log that may have been written by somebody else.
* **Concurrency.** The API runs its handlers concurrently.  A login uses the
  throttle, then the application, then the throttle, then the sessions, under
  three locks, and its client may go away at any await.  A banking handler works
  with a copy of a session that may have ended while it waited.  Several
  processes may use one SQLite file.
* **Time.** A lockout ends with its lock or with the window of the record,
  whichever is first; late failures set the lock anew.
* **Crashes.** JSON files are written in place, and migrations consist of
  several statements.
* **Two of everything.** Users and the username index, tables and the snapshot
  row, ledger and audit log, session and user: pairs that every operation has to
  keep together.

The list with lines is `hazards` in `PROJECT.json`.

### What makes each part correct

* Bank: the balance is what the history says, except after the one failure that
  breaks it; transfers are neutral; closed accounts are empty for good; every
  state can be saved and loaded; histories keep their order.
* Throttle: the failures tried under a throttle key are bounded in spite of
  concurrency, lockouts are not cut short by late failures, and they end.
* Authentication: one bootstrap; sessions, audit log, users and throttle agree
  wherever requests are interleaved or dropped; every request is answered.
* Banking over HTTP: ledger and log tell the same story; nobody acts beyond role
  and ownership; a session that has ended acts only through requests that had it.
* Identities: every spelling of a name leads to one user, records are accepted
  again, creating a user takes no login away.
* Audit log: ids are unique; a page is the newest or oldest that matches.
* SQLite: a save happens at one moment, tables and snapshot agree, migrations
  resume, a load returns the state of the last save.
* Client: the session is a user of the state that is loaded, entries have actors,
  what is saved can be loaded.
* Money: a prompt takes exactly the numbers it is there for.

## Modules

| Module | What it is |
| --- | --- |
| `Bank` | the ledger, one action per public operation of `bank.rs` |
| `BankProperties` | what the ledger is trusted for |
| `BankProofs` | theorems about `Bank` |
| `LoginThrottle` | `AuthThrottle` with concurrent logins, and its properties |
| `LoginThrottleProofs` | theorems about it |
| `ApiAuth` | the authentication handlers, await by await; composes `LoginThrottle` (`INSTANCE`) and implements it |
| `ApiAuthProofs` | theorems about it, and that it implements the safety part of `LoginThrottle` |
| `Identity` | `IdentityStore` with its index and the spellings of names |
| `IdentityProofs` | theorems about it |
| `AuditLog` | the log, its ids, and the two queries with filters |
| `App` | the composed state: `Bank` and `Identity` (`INSTANCE`), owners and log, built from snapshots |
| `ApiHandlers` | the banking and identity handlers over `App` |
| `ApiHandlersProofs` | theorems about them |
| `Client` | the command loop over `App`, with files |
| `ClientProofs` | theorems about it |
| `StateFile` | the abstract specification of a file that holds the state |
| `SqliteStore` | the SQLite store, statement by statement; implements `StateFile` |
| `SqliteStoreProofs` | theorems about it, and that it implements `StateFile` |
| `Money` | amounts and rates as text |
| `DataProofs` | theorems about `AuditLog` and `Money`, which compute answers from data |
| `MCBank`, `MCApiAuth`, `MCApiAuthLive`, `MCIdentity`, `MCApiHandlers`, `MCClient`, `MCSqliteStore` | values and symmetry for TLC |

Each module with actions also contains *slips*: mutated forms of definitions,
marked as such, that no specification uses.  A slip is a plausible mistake, and
for every checked property one of them is known to violate it.

### Bank

`accounts` is a function on the ids that exist, as the `BTreeMap` is;
`next_transaction_id` is the counter.  An account keeps its balance, loan,
status and history; a transaction its id, kind and amount.  Names, e-mails,
descriptions and times are dropped because nothing depends on them, and the
owner because `bank.rs` only stores it.  Amounts range over a set that includes
zero and a negative amount, so the guards `ensure_positive` and
`ensure_non_negative` are exercised.

`MaxCents` stands for `i64::MAX`, `MaxTransactionId` for `u64::MAX`: both are
small so that overflow happens.  An operation that fails without a change is
simply not a step.  One that fails after a change is:

* `Forfeit` — the id was taken and the sum overflowed;
* the first account paid a monthly fee, the next one could not;
* the loan request that has credited the account.

`Reload` is a save followed by a load: `from_accounts` recomputes the counter.
`Importable` is what it demands.  `Percentage` rounds as
`checked_percentage` does, down to the cent.

### LoginThrottle

The code stores two times per username; the model stores how old the first
failure is and how much of the lock is left.  Both decide the same comparisons
as long as the clock does not go back, and ages are bounded by the window.
`pending` counts the logins between `ensure_allowed` and `record_success` or
`record_failure`; the mutex is not held in between.  `Abandon` is a login whose
client went away there.

`Usernames` are the values of `throttle_key` (`api.rs:1064`), under which all
three methods look for a record.  The properties hold for each key: the bound on
the failures, the refusal and its end are those of a key, and those of a user only
as far as the names that lead to the user have one key (see `ApiAuth`).

### ApiAuth

`request` says for every request at which await it is and what it holds; an
action is what a handler does from one await to the next.  The locks are not
variables: `HeldAt` lists for each lock the awaits across which the code keeps
its guard alive, and `Free` says that nobody is at one.  The guard of `app` is
kept while `bootstrap_admin` waits for the sessions, and while `login` waits for
the throttle and the sessions.  The guards of the two mutexes are temporaries,
or end with a block that has no await in it, as in `logout`.

A login gives a name (`Spellings`), and two functions convert it.  `throttle_key`
trims it and lower-cases ASCII; `normalize_username` (`identity.rs:465`), with
which `authenticate` finds the user, trims it, lower-cases Unicode and then
accepts ASCII letters, digits, `_` and `-` only.  On names that are accepted they
differ in a single letter, the Kelvin sign U+212A, whose lower case is the ASCII
`k`: a name with it has a throttle key of its own and is a name of the user
written with `k`.  In the model `ThrottleKey` and `Normalized` are therefore two
functions, and several keys may lead to one user.  A request carries the key
only, and so does the entry of a failed login, in which the code has the name as
it was typed: a name and its key have the same lower case and the same key, which
is what `NamesAssumption` says and all that is looked at afterwards.  What is
checked and proved about the throttle, `FailuresOnRecord` and
`ThrottleImplemented`, is about keys.

A user stands for its id and its username.  A password is right or wrong by
choice.  Tokens are counted instead of drawn.  An expired session is removed
when it expires instead of by the next `remove_expired`, which comes before
every look at the map.  `create_user` stands for the handlers of the form
"authenticate, wait for app, change, audit"; only staff users are created here,
since customers have no part in these properties.

`MaxAuditEntries` is where the audit ids overflow.  A handler that finds no room
answers with an error after its change has been made, as the code does.  It is
also what makes the model finite: a token is issued only after an entry.

### Identity

`customers`, `users` and `username_index` are the three maps of the store.  A
spelling is what somebody types or what a record holds; `Normalized` is
`normalize_username` on the spellings it accepts, with the two laws that trimming
and lower case obey.  The code normalizes in different places: `create_user`
before it looks the name up, `from_records` while it builds the index, although
the users keep the spelling of their records.  `FromRecords` is the replacement
of the store by what a snapshot holds.  E-mails, names of customers and passwords
decide only whether a call is refused.

### AuditLog

`Record` takes the next id or refuses; `FromEntries` is `from_entries`, for logs
in any order and with gaps.  `Times` may go back between entries.  `ListAudit`
and `ListTransactions` are the routes with their validation, filters, window,
order and limit as operators over the log; a history has the same pipeline with
a kind in the place of an action.  `Filtered` is the filter of the iterator, as a
function on the first entries of the log.

### App, ApiHandlers, Client

`App` joins a `Bank` and an `Identity` with the owners of the accounts and the
log, which is a bag of entries here, and says what a snapshot holds and when
`app_from_json` and its like accept one.  A load also has the log checked by
`AuditLog::from_entries` (`storage.rs:145`), which refuses an id that occurs twice
or has no successor.  A bag has no ids, so `Accepts` leaves this check out;
`FromEntries` of `AuditLog` is where it is modelled, and `IdsStayUnique` what it
is for.  `ApiHandlers` and `Client` extend `App`.

In `ApiHandlers` a handler is two steps: it takes a copy of its session
(`Authenticate`) and, when it has the lock of `app`, does everything else in one
step, as the code does.  Between the two the session may end, and other requests
may change everything.  How sessions begin and how the locks work is in `ApiAuth`;
here they begin and end by choice.  The API does not delete, close or rename
accounts, so neither does the module.

In `Client` a command is an action, for the process has one thread.  `file` says
what each path holds; a JSON file may hold the beginning of a text (`Partial`).
SQLite files obey `StateFile`, which is what `SqliteStore` is shown to implement.
Most failures of a command are recorded, some commands are not recorded at all
(profiles, status, deletion, fees, interest, loans): the actions say which.
`Restart` is `exit` and a crash alike.

### StateFile and SqliteStore

`StateFile` has two maps: what is stored, and which call each client is in.  A
save takes effect in one step; a load that no save overtakes returns what is
stored.

In `SqliteStore` the program counter of a connection (`conn[c].at`) names the
statement it will execute next.  Statements outside a transaction change `db` at
once; those in one change a copy (`work`) that `COMMIT` puts in place.  SQLite
itself is external and modelled by its documented behaviour as the code relies
on it: one writer at a time, a transaction of a process that dies is rolled back,
a `CREATE TABLE` of a table that exists fails.  `End` is the return to the caller,
an error of SQLite or the death of the process, at any statement.  `seen` is a
history variable for the properties of loads.  Rows keep ids, links and order; a
value that has to fit into a column is an id.  `u64_to_i64` is applied to the times
of transactions and entries as well; a time that does not fit is refused at the
same statement with the same effect, so the id stands for both.  A table has no order of its own:
`OrderedById` is the `ORDER BY id` of the queries, the increasing enumeration of
the ids.

### Money

One state is one line typed at one prompt.  `ReadMoney`, `ReadRate` and `Display`
are the conversions of `domain.rs`, by what they do to sign, whole part and
digits; `Expected` and `Thousandths` say independently what a line means.  Its
machine has names of its own (`MoneySpec`), so that one module can speak of it and
of `AuditLog`.

## Runs

| Run | Question | Bounds |
| --- | --- | --- |
| `bank` | Do balances, histories, snapshots and statuses stay consistent under every sequence of operations? | 2 accounts, 5 ids, at most 3 cents, rates 0, ½ and 1 |
| `bank_drift` | Does money move only with a record? (No.) | the same |
| `login_throttle` | Are failures bounded, lockouts kept and ended? | 2 throttle keys, limit 3, window and lock 4 ticks, 3 logins in flight |
| `api_auth` | Do users, sessions, throttle and audit log agree? | 2 requests at a time, 2 users, 3 spellings of their names, limit 1, 3 audit entries |
| `api_auth_live` | Is every request answered, and is the throttle used as `LoginThrottle` says? | 2 requests, 1 user with 3 spellings and 2 throttle keys, limit 2, 2 audit entries |
| `identity` | Do index and records agree, and do logins last? | 2 users, 2 customers, 4 spellings of 3 names, one of them refused |
| `audit_log` | Are ids unique and pages exact? | logs of 3 entries, imports of 2, ids to 4, every query with a limit of at most 3 |
| `api_handlers` | Do ledger and log agree, and does nobody exceed role and ownership? | 2 requests, 2 users, 2 customers, 2 accounts, 4 entries |
| `client` | Do session, log, ledger and files stay together? | 6 commands, 2 accounts, 2 users, a JSON and an SQLite file |
| `client_durability` | Does a file keep a saved state? (A JSON file does not.) | 4 commands, the same files |
| `sqlite_store` | Is the store a file that saves replace at one moment? | 2 processes, 4 states, 2 of the 6 indexes |
| `money` | Does a prompt read the number that was typed? | 5 whole parts, 3 digits, up to 3 after the point |

Why the bounds are enough:

* Two accounts are what a transfer takes, and a monthly fee that fails in the
  middle.  Five ids let an account be created, borrow, transfer and be deleted
  and the ids be handed out again, and they run out.  A maximum of three is
  passed by every checked sum, and an odd balance makes interest round.  Rates
  are fractions of `BasisPointsInWhole = 2`.
* A race takes two requests.  Slots are reused, so the number of requests over
  time is not bounded by two.  With three entries the log holds a bootstrap, a
  login and a logout, or a user created, and then overflows.  `api_auth` has a
  name with a capital, which both conversions undo; `api_auth_live` has that and
  a name that only `normalize_username` undoes, so two logins of one user run
  under one key or under two.
* In the throttle the limit is reached with and without logins still in flight,
  and a window ends before, with and after a lock.  Window and lock are equal in
  the code, too.
* `identity`: two users are a collision, "Ana" and "ana" are one name in two
  spellings, "al" is refused.  Imports are all pairs of records.
* `audit_log`: a page of two leaves one of three entries out; imports come in
  both orders, with gaps, and with the id that has no successor.
* `api_handlers` starts from a bank with one account and an admin, so that the
  entries that the log has room for are a user, a second account and a transfer
  or three movements; the next one finds the log full.
* `client`: six commands are a load, a login, a movement, a save, a restart and a
  load again, or a bootstrap and what it may do; the files of the first start
  hold a bank with a customer's account, or the same edited by hand so that its
  owner is gone.
* `sqlite_store`: the second process does between any two statements of the
  first all that a third could do too, for a write excludes all others.  The
  states are an empty bank, two in a row of which the later has a transfer (ids
  interleave between histories), and one with an id too large for a column.  The
  file is new, of version 1 with a snapshot, or of a version yet to come.
* `money`: 10.07 is the largest amount and 10.78 the largest rate, so that texts
  of one and of two digits fall on both sides.

`bank_drift` and `client_durability` fail, and show the two disagreements found:

* `request_loan` writes the balance (`bank.rs:445`) before it checks the loan
  (`bank.rs:449`).  When that sum overflows, the caller is told that the operation
  failed, and the account is credited all the same, with neither a loan nor a
  transaction.  `OnlyFailedLoansDrift` (run `bank`) says that this is the only way.
* `save_app_to_json_file` (`storage.rs:177`) truncates the file and writes it in
  place; a save that is interrupted destroys the state that the file held.  The
  README calls the storage durable (`README.md:18`).

Other things that the models show and no document denies:

* The throttle counts by `throttle_key` (`api.rs:1064`) and users are found by
  `normalize_username` (`identity.rs:465`), which agree but for U+212A.  Its
  bounds are bounds per key: a user whose name contains a `k` has more than one.
* The lock of a username ends with the window of its record even if the lock had
  time left (`api.rs:1036`).  `RefusalEndsInTime` says so.
* A process that dies in migration 1 leaves tables without version 1
  (`sqlite_store.rs:193`).  Every later open runs `CREATE TABLE` again and fails.
  `MigrationsResume` therefore promises something only for recorded versions.
* A load reads table by table without a transaction (`sqlite_store.rs:488`), so
  one that a save of another process overtakes may return a mixture or be
  refused.  `LoadsWhatIsStored` and `StateFile` speak of the others.
* The text of the smallest amount, `Money::MIN`, does not parse; no command
  prints an amount for reading it again.  `ReadsAsWritten` stops one cent before.

### Fairness

* `LoginThrottle`: weak fairness of `Tick` — the clock advances.  Nobody has to
  log in.  `RefusalsEnd` follows because a refused login changes nothing and
  those in flight are finitely many.
* `ApiAuth`: strong fairness of `Proceed(r)` for every request.  The locks of
  tokio hand themselves to their waiters in order, so a request that waits is
  not overtaken for ever, although the model has no queue.  No fairness is
  assumed of clients: they need neither start, repeat nor give up a request.
* The other modules have no liveness: they are called, and a process may die.

`CHECK_DEADLOCK` is left on in every run: deletion, time, new requests and
restarts keep all the systems going.

## Proofs

TLAPS proves, for all values of the constants under the assumptions below:

| Theorem | Property |
| --- | --- |
| `BankProofs!TypeInvariant` | `TypeOK` |
| `BankProofs!HistoryInvariant` | the inductive invariant of the histories |
| `BankProofs!HistoriesAreOrdered` | `HistoryOrdered` |
| `BankProofs!TransfersAreTraceable` | `InboundTransfersTraceable` |
| `BankProofs!SnapshotsReload` | `SnapshotReloads` |
| `BankProofs!ClosedAccountsAreEmpty` | `ClosedAccountsHoldNothing` |
| `BankProofs!ClosedStaysClosed` | `ClosedIsFinal` |
| `BankProofs!LoansMatchTheLedger` | `LoanMatchesLedger` |
| `BankProofs!BalancesCoverTheLedger` | `BalanceCoversLedger` |
| `BankProofs!DriftsAreFailedLoans` | `OnlyFailedLoansDrift` |
| `BankProofs!TransfersBalance` | `TransfersAreNeutral` |
| `LoginThrottleProofs!TypeInvariant` | `TypeOK` |
| `LoginThrottleProofs!FailuresAreBounded` | `FailuresBounded` |
| `LoginThrottleProofs!RefusalsEndInTime` | `RefusalEndsInTime` |
| `ApiAuthProofs!TypeCorrect` | `TypeOK` |
| `ApiAuthProofs!AuthInvariant` | the inductive invariant of users, log, sessions and throttle |
| `ApiAuthProofs!SessionsAreBacked` | `SessionsAccountedFor` |
| `ApiAuthProofs!UsersAreOnRecord` | `UsersOnRecord` |
| `ApiAuthProofs!BootstrapIsFirst` | `BootstrapComesFirst` |
| `ApiAuthProofs!FailuresAreOnRecord` | `FailuresOnRecord` |
| `ApiAuthProofs!ThrottleIsUsedAsSpecified` | the safety part of `ThrottleImplemented` |
| `IdentityProofs!TypeInvariant` | `TypeOK` |
| `IdentityProofs!NamesAreIndexed` | `NamesIndexed` |
| `IdentityProofs!RecordsAreReloaded` | `RecordsReload` |
| `IdentityProofs!LoginsAreStable` | `LoginsStable` |
| `DataProofs!LogIsSound` | the inductive invariant of the log |
| `DataProofs!TypeInvariant` | `TypeOK` of `AuditLog` |
| `DataProofs!IdsAreUnique` | `IdsStayUnique` |
| `DataProofs!PagesHoldWhatWasAsked` | `PagesAreExact` |
| `DataProofs!MoneyIsReadAsWritten` | `ReadsAsWritten` |
| `ApiHandlersProofs!HandlersInvariant` | the inductive invariant of application, sessions and requests |
| `ApiHandlersProofs!TypeCorrect` | `TypeOK` |
| `ApiHandlersProofs!MovesAreOnRecord` | `MovesOnRecord` |
| `ApiHandlersProofs!ActorsWereEntitled` | `ActorsMayAct` |
| `ApiHandlersProofs!EndedSessionsOnlyFade` | `EndedSessionsFadeOut` |
| `ApiHandlersProofs!HandlersCallTheBank` | every step is one of `Bank` for the accounts, or none |
| `ApiHandlersProofs!HandlersOnlyCreateIdentities` | every step creates a customer or a user as `Identity` says, or leaves the identities |
| `ClientProofs!ClientInvariant` | the inductive invariant of application, files and session |
| `ClientProofs!SessionsAreCurrent` | `SessionIsCurrent` |
| `ClientProofs!ActorsAreOnRecord` | `ActorsOnRecord` |
| `ClientProofs!MovesAreOnRecord` | `MovesOnRecord` |
| `ClientProofs!StatesReload` | `StateReloads` |
| `ClientProofs!ClientCallsTheBank` | every step is one of `Bank` for the accounts, or replaces them (`BankIsReplaced`) |
| `ClientProofs!ClientIsAnIdentityStore` | `Client` implements `Identity` |
| `ClientProofs!SqliteSavesLast` | `SqliteFilesLast`, what `SavesLast` would be for the SQLite files, and more |
| `ClientProofs!HistoriesStayInOrder` | `HistoriesInOrder`, in memory and in the files |
| `SqliteStoreProofs!StoreIsSound` | the inductive invariant of the file |
| `SqliteStoreProofs!TablesAndSnapshotAgree` | `TablesMatchSnapshot` |
| `SqliteStoreProofs!MigrationsAreResumable` | `MigrationsResume` |
| `SqliteStoreProofs!CallsAreSound` | the inductive invariant of the calls |
| `SqliteStoreProofs!TypeCorrect` | `TypeOK` |
| `SqliteStoreProofs!LoadsAreSound` | the inductive invariant of the loads |
| `SqliteStoreProofs!LoadsReturnTheSave` | `LoadsWhatIsStored` |
| `SqliteStoreProofs!StoreIsAFile` | `SavesAreAtomic` |

The assumptions are named in the modules, and TLC evaluates each of them in a
run.  Most say that sets of numbers are numbers and that sets of requests and
accounts are finite.  Those that say more:

* `NormalizedAssumption` (`Identity`, and `App` for its copy of it): normalizing
  a normalized name changes nothing, as with trimming and lower case.
* `NamesAssumption` (`ApiAuth`): a name and its throttle key are names of the same
  user, or of none.
* `GivenAssumption` (`ApiHandlers`): the state with which the handlers begin is
  one that the program can be in.  `main.rs` begins with the empty state, for
  which it holds; the run begins later.
* `FilesAssumption` (`Client`): a text that is there at the first start may be one
  that no load accepts, but its ids, amounts and roles have their type and its
  log is about the users and the transactions that are in it.
* `GivenInOrder`, the hypothesis of `HistoriesStayInOrder` alone: the histories in
  the files of the first start have increasing ids, as all that the program
  writes.
* `StatesAssumption` (`SqliteStore`): what is saved is a state that the program
  has built or loaded.
* `StatesInOrder`, the hypothesis of `LoadsAreSound`, `LoadsReturnTheSave` and
  `StoreIsAFile`: histories and log are in the order of their ids.  They are,
  when the program writes them (`HistoriesStayInOrder` of the client for the
  histories, `IdsStayUnique` and `Record` of `AuditLog` for the log).  The checks of a load do not demand it, so somebody
  who edits a JSON file can have the log in another order; a save to SQLite puts
  it back in order, and the theorems do not speak of that state.

**Bank.** `TypeOK` is inductive.  The order of the ids is not, alone: it needs
that all ids are below the next one, that an id belongs to one entry, and, for
the transfers, that whatever still carries the id before a `TransferIn` is its
`TransferOut`.
`HistoryInv` is the conjunction.  All operations but a reload do the same to the
histories, which `Grows` says once: each account appends at most one entry, with
ids from the next one on.  `GrowthKeepsHistories` shows that this keeps
`HistoryInv`, and each operation has a lemma that it grows.  A reload restarts
the counter above the largest id recorded, which is all that `HistoryInv` asks
for.  The ids of a monthly fee, one per payer in the order of the account ids,
are distinct by `MonthlyFeeIds`; that they stay below the maximum is shown at the
last account charged, which `LeastNatural` (a nonempty set of naturals has a
least element, from well-foundedness) provides.  For the closed accounts,
`AccountStep` says what a step may do to a single account.

The sums over a history and over the accounts are recursive functions.  No
induction over sequences is needed for them: a function that obeys the equations
exists (`SumsExist`), and two that do are the same, because they would differ
first at some least index (`LeastNatural`) and the equation contradicts it there
(`SumsAgree`).  So one entry more adds the effect of that entry (`NetAppend`).
What an operation does to an account is then one of four things (`LedgerStep`):
it rests, it opens with its first transaction (`Opens`), it books a transaction
by whose effect balance and loan change (`Books`), or it drifts (`Drifts`), which
only the failing loan request does.  The ledger properties follow from that.
For the transfers the sum over all accounts is treated alike, with partial sums
over the subsets of the accounts (`Totals`): a step sends nothing, or one account
pays what another receives (`Exchanges`).

**LoginThrottle.** The bound is not inductive: it must know how many failures
are still to come.  `Budget` adds the logins in flight to those counted, and
says that a record at the limit has a lock, so that nobody is let through any
more.

**Identity.** Index and records agree by an invariant that is inductive with the
types: a created user has a name that is normalized already and was not in the
index, and an import builds the index from records of which no two normalize
alike.  The assumption on `Normalized` is used where a normalized name is looked
up again.  That records are accepted again follows, but for the links, which are
kept because customers never go.  `LoginsStable` is proved from the same
invariant: a creation extends the index at a name that nobody had.

**AuditLog.** That the ids are unique is inductive only with the bound by the
next one, and that bound survives an import because the next id is taken from
the largest of the log.

A page is a window on the filtered log.  `Filtered` goes through the log with a
recursive function, so there is no formula for the place where an entry ends up.
`FilterCollects` gives one: the filter of a log has as many entries as there are
places that pass, and each of these entries is where the number of places before
it that pass says.  As with the sums of `Bank`, the partial results exist for
every length, and a least length at which they would not be so
cannot be.  The window then has the entries with the smallest or largest such
numbers (`PageOfPlaces`), counted by `BeforeAndAfter` from either end, and that is
what `PagesAreExact` says of each of the two queries.

**Money.** A line is a sign, a whole part and at most three digits, and its value
in thousandths is determined by them (`LineValue`).  `FittingLines` says which
lines do not exceed the range, `MoneyReads` and `RateReads` that exactly these are
taken, with the right number; `PrintedIsRead` that what is printed is such a line
again.  The proof goes through signs and numbers of digits as the runs do, but
for any whole part and any maximum.

**ApiAuth.** Nothing in the argument needs a user to have one throttle key: what
is said of the throttle is said of keys, what is said of users of their ids, and
the two meet only in `Authenticate`.  A session comes out of three waits, and the request may be dropped
at any of them, so `SessionsAccountedFor` is about more than the sessions.
`SessionsBacked` counts for each user the sessions stored, the requests that have
recorded a login and not yet stored its session, the sign-outs recorded and the
requests that have revoked a session and not yet recorded it: together they do
not exceed the sign-ins on record.  A dropped request only lowers the left side.
An entry that finds no room leaves tokens and entries as they are, which
`TokensBacked` needs.  That one bootstrap succeeds follows from the users it
finds, that nothing precedes it from `NothingBeforeUsers`: without users nothing
has succeeded.  For the throttle every step of `ApiAuth` is mapped to a step of
`LoginThrottle`, or to none: the logins between the two uses of the throttle are
`pending` there.

**ApiHandlers.** Every step leaves the application alone, changes identities or
moves money (`LeavesApp`, `ChangesIdentities`, `MovesMoney`), and each of the
three keeps the invariant by a lemma of its own; each handler has a lemma that it
is one of the three.  The log is a bag, and the number of its entries with some
quality is the sum over its domain; partial sums in any order of the entries, and
again a least counterexample, give what an added entry does to such a number.  A
request whose session has ended is counted by `Pending`, and its entry by
`Performed`: the request leaves the one when it enters the other.

The server does to the bank only what `Bank` does, and to the identities only what
`Identity` does when it creates (`CalledStep`, one case per handler).  These are
theorems about the steps and not refinements, because the server starts with any
state it is given and not with an empty one; whatever `Bank` says of one step holds
of the server too, and no handler deletes an account or replaces the identities.

**Client.** Every command works on the state in memory, or rebuilds it from a
file (`EveryStep`).  Work keeps `AppOK` (`WorkIsSound`): the ledger is typed, its
histories are such as `Bank` imports, accounts have owners who are customers,
identities obey `Identity`, the log names users who are there and has what the
ledger has.  A snapshot of such a state is accepted (`SnapshotIsSound`), and a
file holds such a snapshot, or the beginning of a text, or what was there at the
first start; so a state that has been rebuilt is sound again (`RebuildIsSound`),
and a load or a restart ends the session, so that it is always one of a user of the
state in memory (`SessionIsCurrent`).

The client starts empty, and every load is a `FromRecords` of `Identity` (the
text has been accepted, and its users are typed), so it implements `Identity`, and
all that `IdentityProofs` shows holds of its users: every name leads to one user
through any saves, loads and crashes.  Its bank makes the steps of `Bank`, or is
replaced by that of a new process or of a file (`BankCalls`).  What is wrong with
JSON files is not wrong with SQLite files: `FilesStep` lets only the former hold
the beginning of a text, so the latter change from one state that a load accepts
to another (`SqliteFilesStay`), which is what `StateFile` promises.  And ids only
grow, from the next one on, so histories stay in the order that the store gives
them back in (`WritesKeepOrder`).

**SqliteStore.** `TablesMatchSnapshot` says nothing of what the processes hold,
and a commit replaces the file by what one of them holds.  `StoreInvariant`
therefore says of every connection what it relies on at the statement it is at:
in a transaction, that its copy is the committed file with exactly the changes of
the statements so far; in migration 2, that the snapshot it has read is still the
one in the file unless somebody else has created the tables.  It holds because at
most one transaction is open, because nothing writes while one is open, and
because nobody saves before the tables are there.  `SlotOKGrows` says once what
others may do to the file without disturbing a connection (`Grows`);
`StepKeepsInvariant` reduces each statement to its own connection.

`CallsInvariant` adds what a call has seen and that only rows that fit are on
their way to the file.  `LoadsInvariant` is about a load that has seen only one
state: its file has not changed, each statement reads one table of it, and after
each of them exactly that part of the state has been read.  Here the order comes
in: the rows are a set, and `OneOrder` shows that two increasing enumerations of
a set are the same, again at a least index where they differ.  With this every
statement maps to a step of `StateFile` or to none (`StepIsAFileStep`): the commit
of a save is its `CommitSave`, the last statement of a load its `EndLoad`, an
error or a death its `End`.

### Only model-checked

* Liveness, under the fairness above: `RefusalsEnd` of `LoginThrottle`,
  `RequestsAnswered` of `ApiAuth`, and the fairness in `ThrottleImplemented`.
* The two disagreements with the documents, `bank_drift` and `client_durability`:
  a counterexample is what they are for.

## Not modelled

* Names, e-mails, descriptions, messages, prompts, JSON shapes, HTTP statuses,
  request ids, tracing: no property is about them.
* Commands and routes that only print or list a whole map, and the text of the
  exported statement: they change nothing.
* The bank-only JSON snapshots (`bank_to_json`, `bank_from_json`): no command
  uses them.  Snapshots of format 2, which have no audit log, are not among the
  files that `Client` starts with.
* Password hashing and token generation: external, right or wrong, fresh.
* The conversion of kinds, statuses and roles to and from columns, one text per
  value.
* The process entry: it chooses between client and server.

## Plan

Every invariant and action property of the passing runs is proved; what could come next:

1. The order of the audit log inside `Client`, where the log is a bag: with it
   `StatesInOrder` would be a theorem about the client as a whole.
2. The server started from a state that the client or `main.rs` has built, in
   place of any that `GivenAssumption` allows, so that the theorems about its
   steps become refinements of `Bank` and `Identity`.
