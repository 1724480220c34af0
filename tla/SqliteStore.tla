----------------------------- MODULE SqliteStore -----------------------------
(***************************************************************************)
(* src/src/sqlite_store.rs, statement by statement: the migrations, the    *)
(* save in one transaction and the load from tables or snapshot.  Several  *)
(* processes may have the file open; any of them may die between any two   *)
(* statements, and a transaction that has not been committed is then       *)
(* rolled back.                                                            *)
(*                                                                         *)
(* Of a state the model keeps what loading checks: ids, links and order.   *)
(* An optional customer is a set of at most one customer.                  *)
(***************************************************************************)
EXTENDS Integers, Sequences, FiniteSets, SequencesExt

CONSTANTS
    Connections,   \* the connections that may be open at once
    States,        \* the application states that may be saved
    NoState,       \* there is no snapshot row
    MaxInteger,    \* i64::MAX, the largest value of a column
    IndexCount     \* the six indexes of migration 3

CURRENT_SQLITE_SCHEMA_VERSION == 3

ASSUME StoreAssumption ==
    /\ NoState \notin States
    /\ IndexCount \in Nat /\ MaxInteger \in Nat

VARIABLES
    db,            \* what is committed to the file
    conn           \* per connection, the statement it is at and what it holds

vars == <<db, conn>>

-----------------------------------------------------------------------------
(* The rows of a state, and whether a state is accepted.                   *)

HistoryOf(s, a) == s.accounts[a].transactions
TransactionIds(s) == UNION {ToSet(HistoryOf(s, a)) : a \in DOMAIN s.accounts}

EmptyRows ==
    [customers |-> {}, users |-> << >>, accounts |-> << >>,
     transactions |-> << >>, audit_entries |-> {}]

\* `write_normalized_state`: a transaction is a row with its account, and its
\* id is the primary key of the table; the order of a sequence is not stored.
RowsOf(s) ==
    IF s = NoState THEN EmptyRows ELSE
    [customers |-> s.customers,
     users |-> s.users,
     accounts |-> [a \in DOMAIN s.accounts |-> s.accounts[a].owner],
     transactions |-> [id \in TransactionIds(s) |->
                         CHOOSE a \in DOMAIN s.accounts : id \in ToSet(HistoryOf(s, a))],
     audit_entries |-> ToSet(s.audit)]

\* `u64_to_i64` on the ids.  The code converts the times of transactions and
\* entries likewise and refuses the save likewise; rows have no times here.
Fits(s) == \A id \in TransactionIds(s) \cup ToSet(s.audit) : id <= MaxInteger

\* The sequence has the ids in increasing order.
Increases(ids) == \A i, j \in DOMAIN ids : i < j => ids[i] < ids[j]

\* `ORDER BY id`.
OrderedById(ids) == CHOOSE s \in [1..Cardinality(ids) -> ids] : Increases(s)

\* `validate_account_owners`.
OwnersKnown(s) == \A a \in DOMAIN s.accounts : s.accounts[a].owner \subseteq s.customers

\* `from_records`, `from_accounts`, `from_entries` and the owners.
Accepted(s) ==
    /\ \A u \in DOMAIN s.users : s.users[u] \subseteq s.customers
    /\ OwnersKnown(s)
    /\ \A a \in DOMAIN s.accounts :
         /\ IsInjective(HistoryOf(s, a))
         /\ \A b \in DOMAIN s.accounts \ {a} :
              ToSet(HistoryOf(s, a)) \cap ToSet(HistoryOf(s, b)) = {}
    /\ IsInjective(s.audit)
    /\ 0 \notin TransactionIds(s) \cup ToSet(s.audit)

IsState(s) ==
    /\ s = [customers |-> s.customers, users |-> s.users, accounts |-> s.accounts,
            audit |-> s.audit]
    /\ s.accounts = [a \in DOMAIN s.accounts |->
                       [owner |-> s.accounts[a].owner, transactions |-> HistoryOf(s, a)]]
    /\ \A a \in DOMAIN s.accounts : HistoryOf(s, a) \in Seq(Nat)
    /\ s.audit \in Seq(Nat)

\* What is saved has been built or loaded by the program.
ASSUME StatesAssumption == \A s \in States : IsState(s) /\ Accepted(s)

\* Histories and log are in the order of their ids, as the program writes them.
InOrder(s) == (\A a \in DOMAIN s.accounts : Increases(HistoryOf(s, a))) /\ Increases(s.audit)

-----------------------------------------------------------------------------
(* Connections and locks.                                                  *)

Idle == [at |-> "idle"]

\* There is no statement left.
Ended == {"idle", "done", "loaded", "refused"}

\* Where a connection has written in a transaction that is still open.
TransactionSteps == {"migrate_rows", "commit_migration", "write_snapshot", "commit_save"}

InTransaction(c) == conn[c].at \in TransactionSteps

\* A write waits for the transaction of another connection to end.
CanWrite(c) == \A d \in Connections \ {c} : ~InTransaction(d)

Goes(c, at) == conn' = [conn EXCEPT ![c].at = at]

\* An error drops the transaction, which rolls it back, and the connection.
Fails(c) == conn' = [conn EXCEPT ![c] = Idle] /\ UNCHANGED db

\* A statement outside a transaction commits at once.
Runs(c, changed, next) == CanWrite(c) /\ db' = changed /\ Goes(c, next)

HasTable(t) == t \in db.tables

\* `CREATE TABLE` without `IF NOT EXISTS`.
CreateTable(c, t, next) ==
    IF HasTable(t) THEN Fails(c)
    ELSE Runs(c, [db EXCEPT !.tables = @ \cup {t}], next)

\* The version is the primary key of schema_migrations.
RecordVersion(c, v, next) ==
    IF v \in db.versions THEN Fails(c)
    ELSE Runs(c, [db EXCEPT !.versions = @ \cup {v}], next)

Migrated(op) ==
    CASE op = "initialize" -> "done"
      [] op = "save"       -> "write_rows"
      [] op = "load"       -> "count_rows"

-----------------------------------------------------------------------------
(* Opening and migrating.                                                  *)

Open(c, op, s) ==
    /\ conn[c] = Idle
    /\ conn' = [conn EXCEPT ![c] =
                  [at |-> "ensure_migration_table", op |-> op, state |-> s,
                   work |-> NoState, read |-> NoState, accounts_left |-> {},
                   seen |-> {db.snapshot}]]
    /\ UNCHANGED db

EnsureMigrationTable(c) ==
    /\ conn[c].at = "ensure_migration_table"
    /\ IF HasTable("schema_migrations")
       THEN Goes(c, "current_schema_version") /\ UNCHANGED db
       ELSE Runs(c, [db EXCEPT !.tables = @ \cup {"schema_migrations"}],
                 "current_schema_version")

\* The version is read once, before the first migration.
CurrentSchemaVersion(c) ==
    /\ conn[c].at = "current_schema_version"
    /\ LET version == CHOOSE v \in db.versions \cup {0} : \A w \in db.versions : w <= v
       IN  IF version > CURRENT_SQLITE_SCHEMA_VERSION THEN Fails(c)
           ELSE /\ Goes(c, CASE version = 0 -> "create_app_state"
                             [] version = 1 -> "read_snapshot_to_migrate"
                             [] version = 2 -> "create_index"
                             [] version = 3 -> Migrated(conn[c].op))
                /\ UNCHANGED db

\* Migration 1: three statements, none in a transaction.
CreateAppState(c) ==
    conn[c].at = "create_app_state" /\ CreateTable(c, "app_state", "create_app_metadata")

CreateAppMetadata(c) ==
    conn[c].at = "create_app_metadata" /\ CreateTable(c, "app_metadata", "record_version_1")

RecordVersion1(c) ==
    conn[c].at = "record_version_1" /\ RecordVersion(c, 1, "read_snapshot_to_migrate")

\* Migration 2: the snapshot is read before the transaction begins.
ReadSnapshotToMigrate(c) ==
    /\ conn[c].at = "read_snapshot_to_migrate"
    /\ conn' = [conn EXCEPT ![c].at = "create_tables", ![c].read = db.snapshot]
    /\ UNCHANGED db

\* Slip: the migration is made repeatable with `IF NOT EXISTS`.
CreateTablesIfMissing(c) ==
    /\ conn[c].at = "create_tables"
    /\ CanWrite(c)
    /\ conn' = [conn EXCEPT
                  ![c].at = "migrate_rows",
                  ![c].work = [db EXCEPT !.tables = @ \cup {"customers"},
                                         !.versions = @ \cup {2}]]
    /\ UNCHANGED db

\* The transaction works on a copy: the five tables and the version.
CreateTables(c) ==
    /\ conn[c].at = "create_tables"
    /\ CanWrite(c)
    /\ IF HasTable("customers") \/ 2 \in db.versions THEN Fails(c)
       ELSE /\ conn' = [conn EXCEPT
                          ![c].at = "migrate_rows",
                          ![c].work = [db EXCEPT !.tables = @ \cup {"customers"},
                                                 !.versions = @ \cup {2}]]
            /\ UNCHANGED db

MigrateRows(c) ==
    /\ conn[c].at = "migrate_rows"
    /\ LET s == conn[c].read IN
       IF s # NoState /\ ~Fits(s) THEN Fails(c)
       ELSE /\ conn' = [conn EXCEPT ![c].at = "commit_migration",
                                    ![c].work.rows = RowsOf(s)]
            /\ UNCHANGED db

\* Slip: the version is recorded, but the tables are rolled back.
CommitMigrationVersionOnly(c) ==
    /\ conn[c].at = "commit_migration"
    /\ db' = [db EXCEPT !.versions = conn[c].work.versions]
    /\ conn' = [conn EXCEPT ![c].at = "create_index", ![c].work = NoState, ![c].read = NoState]

CommitMigration(c) ==
    /\ conn[c].at = "commit_migration"
    /\ db' = conn[c].work
    /\ conn' = [conn EXCEPT ![c].at = "create_index", ![c].work = NoState, ![c].read = NoState]

\* Migration 3: `CREATE INDEX IF NOT EXISTS`, one after the other.
CreateIndex(c) ==
    /\ conn[c].at = "create_index"
    /\ IF db.indexes = IndexCount THEN Goes(c, "record_version_3") /\ UNCHANGED db
       ELSE Runs(c, [db EXCEPT !.indexes = @ + 1], "create_index")

RecordVersion3(c) ==
    conn[c].at = "record_version_3" /\ RecordVersion(c, 3, Migrated(conn[c].op))

-----------------------------------------------------------------------------
(* Saving.                                                                 *)

\* Slip: the conversion to i64 wraps around where the code reports it.
WriteRowsUnchecked(c) ==
    /\ conn[c].at = "write_rows"
    /\ CanWrite(c)
    /\ conn' = [conn EXCEPT ![c].at = "write_snapshot",
                            ![c].work = [db EXCEPT !.rows = RowsOf(conn[c].state)]]
    /\ UNCHANGED db

\* Every table is emptied and filled again, in the copy of the transaction.
WriteRows(c) ==
    /\ conn[c].at = "write_rows"
    /\ CanWrite(c)
    /\ IF ~Fits(conn[c].state) THEN Fails(c)
       ELSE /\ conn' = [conn EXCEPT
                          ![c].at = "write_snapshot",
                          ![c].work = [db EXCEPT !.rows = RowsOf(conn[c].state)]]
            /\ UNCHANGED db

\* Slip: the snapshot is written by a statement outside the transaction.
WriteSnapshotAtOnce(c) ==
    /\ conn[c].at = "write_snapshot"
    /\ db' = [db EXCEPT !.snapshot = conn[c].state]
    /\ conn' = [conn EXCEPT ![c].at = "commit_save",
                            ![c].work.snapshot = conn[c].state]

WriteSnapshot(c) ==
    /\ conn[c].at = "write_snapshot"
    /\ conn' = [conn EXCEPT ![c].at = "commit_save",
                            ![c].work.snapshot = conn[c].state]
    /\ UNCHANGED db

\* `seen` is a history variable: the snapshots from the opening of a
\* connection to its last statement.
CommitSave(c) ==
    /\ conn[c].at = "commit_save"
    /\ db' = conn[c].work
    /\ conn' = [d \in Connections |->
                  IF d = c THEN Idle
                  ELSE IF conn[d].at \in Ended THEN conn[d]
                  ELSE [conn[d] EXCEPT !.seen = @ \cup {db'.snapshot}]]

-----------------------------------------------------------------------------
(* Loading: every table is read by a statement of its own, and the         *)
(* transactions by one statement per account.                              *)

\* Slip: the tables are read although they are empty.
CountRowsAlways(c) ==
    /\ conn[c].at = "count_rows"
    /\ Goes(c, "read_customers")
    /\ UNCHANGED db

CountRows(c) ==
    /\ conn[c].at = "count_rows"
    /\ Goes(c, IF db.rows = EmptyRows THEN "read_snapshot" ELSE "read_customers")
    /\ UNCHANGED db

\* `MissingState` when there is no row.
ReadSnapshot(c) ==
    /\ conn[c].at = "read_snapshot"
    /\ IF db.snapshot = NoState THEN Fails(c)
       ELSE /\ conn' = [conn EXCEPT ![c].at = "loaded", ![c].read = db.snapshot]
            /\ UNCHANGED db

ReadCustomers(c) ==
    /\ conn[c].at = "read_customers"
    /\ conn' = [conn EXCEPT
                  ![c].at = "read_users",
                  ![c].read = [customers |-> db.rows.customers, users |-> << >>,
                               accounts |-> << >>, audit |-> << >>]]
    /\ UNCHANGED db

ReadUsers(c) ==
    /\ conn[c].at = "read_users"
    /\ conn' = [conn EXCEPT ![c].at = "read_accounts", ![c].read.users = db.rows.users]
    /\ UNCHANGED db

ReadAccounts(c) ==
    /\ conn[c].at = "read_accounts"
    /\ conn' = [conn EXCEPT
                  ![c].at = "read_transactions",
                  ![c].read.accounts = [a \in DOMAIN db.rows.accounts |->
                                          [owner |-> db.rows.accounts[a],
                                           transactions |-> << >>]],
                  ![c].accounts_left = DOMAIN db.rows.accounts]
    /\ UNCHANGED db

\* The accounts are visited in the order of their ids.
ReadTransactions(c) ==
    /\ conn[c].at = "read_transactions"
    /\ \E a \in conn[c].accounts_left :
         /\ \A b \in conn[c].accounts_left : a <= b
         /\ conn' = [conn EXCEPT
                       ![c].read.accounts[a].transactions =
                          OrderedById({id \in DOMAIN db.rows.transactions :
                                         db.rows.transactions[id] = a}),
                       ![c].accounts_left = @ \ {a}]
    /\ UNCHANGED db

\* The last statement of a load, and the checks on what has been read.
ReadAuditLog(c) ==
    /\ conn[c].at = "read_transactions"
    /\ conn[c].accounts_left = {}
    /\ LET read == [conn[c].read EXCEPT !.audit = OrderedById(db.rows.audit_entries)] IN
       conn' = [conn EXCEPT
                  ![c].at = IF Accepted(read) THEN "loaded" ELSE "refused",
                  ![c].read = read]
    /\ UNCHANGED db

-----------------------------------------------------------------------------

\* The caller has its result; or the process dies, or SQLite returns an error,
\* at any statement.
End(c) == conn[c] # Idle /\ Fails(c)

Statement(c) ==
    \/ EnsureMigrationTable(c) \/ CurrentSchemaVersion(c)
    \/ CreateAppState(c) \/ CreateAppMetadata(c) \/ RecordVersion1(c)
    \/ ReadSnapshotToMigrate(c) \/ CreateTables(c) \/ MigrateRows(c) \/ CommitMigration(c)
    \/ CreateIndex(c) \/ RecordVersion3(c)
    \/ WriteRows(c) \/ WriteSnapshot(c) \/ CommitSave(c)
    \/ CountRows(c) \/ ReadSnapshot(c)
    \/ ReadCustomers(c) \/ ReadUsers(c) \/ ReadAccounts(c) \/ ReadTransactions(c)
    \/ ReadAuditLog(c)

Database(tables, versions, snapshot) ==
    [tables |-> tables, versions |-> versions, indexes |-> 0,
     rows |-> EmptyRows, snapshot |-> snapshot]

\* A new file, one of schema version 1, or one of a version yet to come.
Init ==
    /\ db \in {Database({}, {}, NoState)}
          \cup {Database({"schema_migrations", "app_state", "app_metadata"}, {1}, s) :
                  s \in States}
          \cup {[Database({"schema_migrations", "app_state", "app_metadata", "customers"},
                          1..4, NoState) EXCEPT !.indexes = IndexCount]}
    /\ conn = [c \in Connections |-> Idle]

Next ==
    \E c \in Connections :
      \/ \E op \in {"initialize", "load"} : Open(c, op, NoState)
      \/ \E s \in States : Open(c, "save", s)
      \/ Statement(c) \/ End(c)

Spec == Init /\ [][Next]_vars

-----------------------------------------------------------------------------
(* Properties.                                                             *)

\* An id that does not fit into a column is never in a table.
TypeOK ==
    /\ db.tables \subseteq {"schema_migrations", "app_state", "app_metadata", "customers"}
    /\ db.versions \subseteq 1..4
    /\ db.indexes \in 0..IndexCount
    /\ db.snapshot \in States \cup {NoState}
    /\ \A id \in DOMAIN db.rows.transactions \cup db.rows.audit_entries : id <= MaxInteger
    /\ \A c \in Connections :
         conn[c] = Idle \/ (conn[c].op \in {"initialize", "save", "load"}
                            /\ conn[c].state \in States \cup {NoState}
                            /\ conn[c].seen \subseteq States \cup {NoState})

\* Between any two statements of any number of processes the tables and the
\* snapshot describe the same state, for a load prefers the one and falls back
\* to the other.
TablesMatchSnapshot == HasTable("customers") => db.rows = RowsOf(db.snapshot)

\* From version 1 on, whatever was interrupted, the next open finds what the
\* recorded versions promise and nothing that a later migration creates without
\* `IF NOT EXISTS`.
MigrationsResume ==
    /\ \E v \in 0..4 : db.versions = 1..v
    /\ 1 \in db.versions => {"app_state", "app_metadata"} \subseteq db.tables
    /\ 2 \in db.versions <=> HasTable("customers")
    /\ 3 \in db.versions => db.indexes = IndexCount

Overtaken(c) == Cardinality(conn[c].seen) > 1

\* A load that no save overtakes is accepted and returns the state of the last
\* save, the order of the histories included.
LoadsWhatIsStored ==
    \A c \in Connections :
      conn[c].at \in {"loaded", "refused"} /\ ~Overtaken(c) =>
        conn[c].at = "loaded" /\ conn[c].read \in conn[c].seen

Call(c) ==
    CASE conn[c] = Idle -> [op |-> "idle"]
      [] conn[c] # Idle /\ (conn[c].op = "initialize" \/ conn[c].at = "refused") ->
           [op |-> "idle"]
      [] conn[c] # Idle /\ conn[c].op = "save" -> [op |-> "save", state |-> conn[c].state]
      [] conn[c].at = "loaded" ->
           [op |-> "loaded", state |-> IF Overtaken(c) THEN NoState ELSE conn[c].read]
      [] OTHER -> [op |-> "load", seen |-> conn[c].seen]

File == INSTANCE StateFile
          WITH Clients <- Connections, stored <- db.snapshot,
               call <- [c \in Connections |-> Call(c)]

\* The store is a file that saves replace at one moment.
SavesAreAtomic == File!Spec

=============================================================================
