-------------------------- MODULE SqliteStoreProofs --------------------------
(***************************************************************************)
(* Proofs about SqliteStore, for any number of processes, any states and   *)
(* any number of indexes.                                                  *)
(*                                                                         *)
(* The argument: at most one transaction is open, nothing else is written  *)
(* while it is, and so the copy that it commits is the file with what the  *)
(* transaction has changed.  No process saves before the tables are there, *)
(* so that a snapshot that was read before the tables were created is the  *)
(* one that they have to hold.                                             *)
(*                                                                         *)
(* A load reads the tables in several transactions.  As long as the file   *)
(* holds only one state meanwhile, what has been read so far is that part  *)
(* of the state: a history that is in the order of its ids is the only     *)
(* increasing enumeration of them.  So the calls are those of StateFile.   *)
(***************************************************************************)
EXTENDS SqliteStore, FiniteSetTheorems, WellFoundedInduction, TLAPS

Ops == {"initialize", "save", "load"}

\* The steps of a connection before the tables are there.
Early == {"idle", "ensure_migration_table", "current_schema_version", "create_app_state",
          "create_app_metadata", "record_version_1", "read_snapshot_to_migrate",
          "create_tables", "migrate_rows", "commit_migration"}

\* A connection that is in use, with all of its fields.
Slot(r) ==
    /\ r = [at |-> r.at, op |-> r.op, state |-> r.state, work |-> r.work, read |-> r.read,
            accounts_left |-> r.accounts_left, seen |-> r.seen]
    /\ r.op \in Ops

\* The file as the committed statements leave it.
FileOK(f) ==
    /\ f = [tables |-> f.tables, versions |-> f.versions, indexes |-> f.indexes,
            rows |-> f.rows, snapshot |-> f.snapshot]
    /\ \E v \in 0..4 : f.versions = 1..v
    /\ 1 \in f.versions => "app_state" \in f.tables /\ "app_metadata" \in f.tables
    /\ 2 \in f.versions <=> "customers" \in f.tables
    /\ 3 \in f.versions => f.indexes = IndexCount
    /\ "customers" \in f.tables => f.rows = RowsOf(f.snapshot)

\* What a connection relies on at the step it is at.
SlotOK(r, f) ==
    /\ r = Idle \/ Slot(r)
    /\ r.at \in {"create_app_metadata", "record_version_1"} => "app_state" \in f.tables
    /\ r.at = "record_version_1" => "app_metadata" \in f.tables
    /\ r.at \in {"read_snapshot_to_migrate", "create_tables"} => 1 \in f.versions
    /\ r.at = "create_tables" => "customers" \in f.tables \/ r.read = f.snapshot
    /\ r.at \in {"migrate_rows", "commit_migration"} =>
         1 \in f.versions /\ "customers" \notin f.tables /\ r.read = f.snapshot
    /\ r.at = "migrate_rows" =>
         r.work = [tables |-> f.tables \cup {"customers"}, versions |-> f.versions \cup {2},
                   indexes |-> f.indexes, rows |-> f.rows, snapshot |-> f.snapshot]
    /\ r.at = "commit_migration" =>
         r.work = [tables |-> f.tables \cup {"customers"}, versions |-> f.versions \cup {2},
                   indexes |-> f.indexes, rows |-> RowsOf(f.snapshot),
                   snapshot |-> f.snapshot]
    /\ r.at \notin Early => "customers" \in f.tables
    /\ r.at = "record_version_3" => f.indexes = IndexCount
    /\ r.at = "write_snapshot" =>
         r.work = [tables |-> f.tables, versions |-> f.versions, indexes |-> f.indexes,
                   rows |-> RowsOf(r.state), snapshot |-> f.snapshot]
    /\ r.at = "commit_save" =>
         r.work = [tables |-> f.tables, versions |-> f.versions, indexes |-> f.indexes,
                   rows |-> RowsOf(r.state), snapshot |-> r.state]

\* The inductive invariant.
StoreInvariant ==
    /\ FileOK(db)
    /\ conn = [c \in Connections |-> conn[c]]
    /\ \A c \in Connections : SlotOK(conn[c], db)
    /\ \A c, d \in Connections : InTransaction(c) /\ InTransaction(d) => c = d

\* What other connections may see the file do.
Grows(f, g) ==
    /\ f.tables \subseteq g.tables
    /\ f.versions \subseteq g.versions
    /\ f.indexes = IndexCount => g.indexes = IndexCount
    /\ "customers" \in g.tables \/ g.snapshot = f.snapshot

LEMMA SlotOKGrows ==
    ASSUME NEW r, NEW f, NEW g, SlotOK(r, f), Grows(f, g), r.at \notin TransactionSteps
    PROVE  SlotOK(r, g)
BY DEF SlotOK, Grows, TransactionSteps, Early

\* What is kept track of for the property about loads is of no concern here.
LEMMA SlotOKSeen ==
    ASSUME NEW r, NEW f, NEW S, SlotOK(r, f), Slot(r)
    PROVE  SlotOK([r EXCEPT !.seen = S], f)
<1> DEFINE q == [at |-> r.at, op |-> r.op, state |-> r.state, work |-> r.work, read |-> r.read,
                 accounts_left |-> r.accounts_left, seen |-> S]
<1>1. [r EXCEPT !.seen = S] = q
  BY DEF Slot
<1>2. /\ q.at = r.at /\ q.op = r.op /\ q.state = r.state /\ q.work = r.work
      /\ q.read = r.read /\ Slot(q)
  BY DEF Slot
<1> HIDE DEF q
<1>3. SlotOK(q, f)
  BY <1>2 DEF SlotOK
<1> QED
  BY <1>1, <1>3

-----------------------------------------------------------------------------
(* A step of one connection.                                               *)

LEMMA StepKeepsInvariant ==
    ASSUME StoreInvariant, NEW c \in Connections, NEW r,
           FileOK(db'), Grows(db, db'), SlotOK(r, db'),
           conn' = [conn EXCEPT ![c] = r],
           db' = db \/ \A d \in Connections \ {c} : ~InTransaction(d),
           r.at \in TransactionSteps => InTransaction(c) \/ CanWrite(c)
    PROVE  StoreInvariant'
<1>1. /\ conn' = [d \in Connections |-> conn'[d]]
      /\ conn'[c] = r
      /\ \A d \in Connections \ {c} : conn'[d] = conn[d]
  BY DEF StoreInvariant
<1>2. \A d \in Connections : SlotOK(conn'[d], db')
  <2>1. ASSUME NEW d \in Connections \ {c}
        PROVE  SlotOK(conn[d], db')
    <3>1. SlotOK(conn[d], db)
      BY DEF StoreInvariant
    <3>2. CASE db' = db
      BY <3>1, <3>2
    <3>3. CASE conn[d].at \notin TransactionSteps
      BY <3>1, <3>3, SlotOKGrows
    <3> QED
      BY <3>2, <3>3 DEF InTransaction
  <2> QED
    BY <1>1, <2>1
<1>3. \A d, e \in Connections :
        conn'[d].at \in TransactionSteps /\ conn'[e].at \in TransactionSteps => d = e
  BY <1>1 DEF StoreInvariant, InTransaction, CanWrite
<1> QED
  BY <1>1, <1>2, <1>3 DEF StoreInvariant, InTransaction

\* A connection that fails is as good as new.
LEMMA FailsKeepsInvariant ==
    ASSUME StoreInvariant, NEW c \in Connections, Fails(c)
    PROVE  StoreInvariant'
<1>1. SlotOK(Idle, db)
  BY DEF SlotOK, Idle, Early
<1>2. FileOK(db) /\ db' = db /\ Grows(db, db)
  BY DEF StoreInvariant, Fails, Grows
<1>3. Idle.at \notin TransactionSteps
  BY DEF Idle, TransactionSteps
<1> QED
  BY <1>1, <1>2, <1>3, StepKeepsInvariant DEF Fails

\* The fields of a connection, changed one after the other.
LEMMA WithAt ==
    ASSUME NEW r, Slot(r), NEW at
    PROVE  LET q == [at |-> at, op |-> r.op, state |-> r.state, work |-> r.work,
                     read |-> r.read, accounts_left |-> r.accounts_left, seen |-> r.seen]
           IN  [r EXCEPT !.at = at] = q /\ Slot(q)
BY DEF Slot

LEMMA WithWork ==
    ASSUME NEW r, Slot(r), NEW work
    PROVE  LET q == [at |-> r.at, op |-> r.op, state |-> r.state, work |-> work,
                     read |-> r.read, accounts_left |-> r.accounts_left, seen |-> r.seen]
           IN  [r EXCEPT !.work = work] = q /\ Slot(q)
BY DEF Slot

LEMMA WithRead ==
    ASSUME NEW r, Slot(r), NEW read
    PROVE  LET q == [at |-> r.at, op |-> r.op, state |-> r.state, work |-> r.work,
                     read |-> read, accounts_left |-> r.accounts_left, seen |-> r.seen]
           IN  [r EXCEPT !.read = read] = q /\ Slot(q)
BY DEF Slot

LEMMA WithAtAndWork ==
    ASSUME NEW r, Slot(r), NEW at, NEW work
    PROVE  LET q == [at |-> at, op |-> r.op, state |-> r.state, work |-> work,
                     read |-> r.read, accounts_left |-> r.accounts_left, seen |-> r.seen]
           IN  [[r EXCEPT !.at = at] EXCEPT !.work = work] = q /\ Slot(q)
<1> DEFINE p == [at |-> at, op |-> r.op, state |-> r.state, work |-> r.work,
                 read |-> r.read, accounts_left |-> r.accounts_left, seen |-> r.seen]
<1>1. [r EXCEPT !.at = at] = p /\ Slot(p)
  BY WithAt
<1>2. /\ p.at = at /\ p.op = r.op /\ p.state = r.state /\ p.read = r.read
      /\ p.accounts_left = r.accounts_left /\ p.seen = r.seen
  OBVIOUS
<1> HIDE DEF p
<1>3. LET q == [at |-> p.at, op |-> p.op, state |-> p.state, work |-> work, read |-> p.read,
                accounts_left |-> p.accounts_left, seen |-> p.seen]
      IN  [p EXCEPT !.work = work] = q /\ Slot(q)
  BY <1>1, WithWork
<1> QED
  BY <1>1, <1>2, <1>3

LEMMA WithAtAndRead ==
    ASSUME NEW r, Slot(r), NEW at, NEW read
    PROVE  LET q == [at |-> at, op |-> r.op, state |-> r.state, work |-> r.work,
                     read |-> read, accounts_left |-> r.accounts_left, seen |-> r.seen]
           IN  [[r EXCEPT !.at = at] EXCEPT !.read = read] = q /\ Slot(q)
<1> DEFINE p == [at |-> at, op |-> r.op, state |-> r.state, work |-> r.work,
                 read |-> r.read, accounts_left |-> r.accounts_left, seen |-> r.seen]
<1>1. [r EXCEPT !.at = at] = p /\ Slot(p)
  BY WithAt
<1>2. /\ p.at = at /\ p.op = r.op /\ p.state = r.state /\ p.work = r.work
      /\ p.accounts_left = r.accounts_left /\ p.seen = r.seen
  OBVIOUS
<1> HIDE DEF p
<1>3. LET q == [at |-> p.at, op |-> p.op, state |-> p.state, work |-> p.work, read |-> read,
                accounts_left |-> p.accounts_left, seen |-> p.seen]
      IN  [p EXCEPT !.read = read] = q /\ Slot(q)
  BY <1>1, WithRead
<1> QED
  BY <1>1, <1>2, <1>3

\* What conn' is when a connection goes on.
LEMMA GoesTo ==
    ASSUME StoreInvariant, NEW c \in Connections, Slot(conn[c]), NEW at, Goes(c, at)
    PROVE  LET r == [at |-> at, op |-> conn[c].op, state |-> conn[c].state,
                     work |-> conn[c].work, read |-> conn[c].read,
                     accounts_left |-> conn[c].accounts_left, seen |-> conn[c].seen]
           IN  Slot(r) /\ conn' = [conn EXCEPT ![c] = r]
<1> DEFINE r == [at |-> at, op |-> conn[c].op, state |-> conn[c].state,
                 work |-> conn[c].work, read |-> conn[c].read,
                 accounts_left |-> conn[c].accounts_left, seen |-> conn[c].seen]
<1>1. conn' = [conn EXCEPT ![c] = [conn[c] EXCEPT !.at = at]]
  BY DEF Goes
<1>2. [conn[c] EXCEPT !.at = at] = r
  BY DEF Slot
<1>3. Slot(r)
  BY DEF Slot
<1> HIDE DEF r
<1>4. conn' = [conn EXCEPT ![c] = r]
  BY <1>1, <1>2
<1> QED
  BY <1>3, <1>4 DEF r

\* The connection is not idle.
LEMMA SlotOf ==
    ASSUME StoreInvariant, NEW c \in Connections, conn[c].at # "idle"
    PROVE  Slot(conn[c]) /\ SlotOK(conn[c], db) /\ FileOK(db)
<1>1. FileOK(db) /\ SlotOK(conn[c], db)
  BY DEF StoreInvariant
<1>2. Idle.at = "idle"
  BY DEF Idle
<1> QED
  BY <1>1, <1>2 DEF SlotOK

\* A connection goes on without a write: what it relies on at its next step is
\* all that matters.
LEMMA GoingKeepsInvariant ==
    ASSUME StoreInvariant, NEW c \in Connections, conn[c].at # "idle", NEW at, Goes(c, at),
           UNCHANGED db, at \notin TransactionSteps,
           at \in {"create_app_metadata", "record_version_1"} => FALSE,
           at = "create_tables" => FALSE,
           at = "read_snapshot_to_migrate" => 1 \in db.versions,
           at \notin Early => HasTable("customers"),
           at = "record_version_3" => db.indexes = IndexCount
    PROVE  StoreInvariant'
<1> DEFINE r == [at |-> at, op |-> conn[c].op, state |-> conn[c].state,
                 work |-> conn[c].work, read |-> conn[c].read,
                 accounts_left |-> conn[c].accounts_left, seen |-> conn[c].seen]
<1>1. Slot(r) /\ conn' = [conn EXCEPT ![c] = r]
  BY SlotOf, GoesTo
<1>2. r.at = at
  OBVIOUS
<1> HIDE DEF r
<1>3. SlotOK(r, db)
  BY <1>1, <1>2 DEF SlotOK, HasTable, TransactionSteps
<1>4. FileOK(db) /\ Grows(db, db)
  BY DEF StoreInvariant, Grows
<1> QED
  BY <1>1, <1>2, <1>3, <1>4, StepKeepsInvariant

\* A statement outside a transaction.
LEMMA RunsKeepsInvariant ==
    ASSUME StoreInvariant, NEW c \in Connections, conn[c].at # "idle", NEW changed, NEW at,
           Runs(c, changed, at), FileOK(changed), Grows(db, changed),
           at \notin TransactionSteps,
           at \in {"create_app_metadata", "record_version_1"} => "app_state" \in changed.tables,
           at = "record_version_1" => "app_metadata" \in changed.tables,
           at = "read_snapshot_to_migrate" => 1 \in changed.versions,
           at = "create_tables" => FALSE,
           at \notin Early => "customers" \in changed.tables,
           at = "record_version_3" => changed.indexes = IndexCount
    PROVE  StoreInvariant'
<1> DEFINE r == [at |-> at, op |-> conn[c].op, state |-> conn[c].state,
                 work |-> conn[c].work, read |-> conn[c].read,
                 accounts_left |-> conn[c].accounts_left, seen |-> conn[c].seen]
<1>1. Slot(r) /\ conn' = [conn EXCEPT ![c] = r]
  BY SlotOf, GoesTo DEF Runs
<1>2. r.at = at
  OBVIOUS
<1> HIDE DEF r
<1>3. SlotOK(r, changed)
  BY <1>1, <1>2 DEF SlotOK, TransactionSteps
<1>4. db' = changed /\ \A d \in Connections \ {c} : ~InTransaction(d)
  BY DEF Runs, CanWrite
<1> QED
  BY <1>1, <1>2, <1>3, <1>4, StepKeepsInvariant

-----------------------------------------------------------------------------
(* Changes to the file.                                                    *)

LEMMA AddTable ==
    ASSUME NEW f, FileOK(f), NEW t, t # "customers"
    PROVE  LET g == [f EXCEPT !.tables = @ \cup {t}]
           IN  /\ FileOK(g) /\ Grows(f, g)
               /\ g.tables = f.tables \cup {t}
               /\ g.versions = f.versions
<1> DEFINE g == [tables |-> f.tables \cup {t}, versions |-> f.versions,
                 indexes |-> f.indexes, rows |-> f.rows, snapshot |-> f.snapshot]
<1>1. [f EXCEPT !.tables = @ \cup {t}] = g
  BY DEF FileOK
<1>2. FileOK(g) /\ Grows(f, g)
  BY DEF FileOK, Grows
<1> QED
  BY <1>1, <1>2

LEMMA AddIndex ==
    ASSUME NEW f, FileOK(f), f.indexes # IndexCount
    PROVE  LET g == [f EXCEPT !.indexes = @ + 1]
           IN  FileOK(g) /\ Grows(f, g) /\ g.tables = f.tables /\ g.versions = f.versions
<1> DEFINE g == [tables |-> f.tables, versions |-> f.versions,
                 indexes |-> f.indexes + 1, rows |-> f.rows, snapshot |-> f.snapshot]
<1>1. [f EXCEPT !.indexes = @ + 1] = g
  BY DEF FileOK
<1>2. FileOK(g) /\ Grows(f, g)
  BY DEF FileOK, Grows
<1> QED
  BY <1>1, <1>2

\* The versions follow each other.
LEMMA NextVersion ==
    ASSUME NEW S, NEW v \in 1..4, \E w \in 0..4 : S = 1..w,
           v \notin S, v = 1 \/ v - 1 \in S
    PROVE  S \cup {v} = 1..v
OBVIOUS

LEMMA WithVersions ==
    ASSUME NEW f, FileOK(f), NEW V
    PROVE  [f EXCEPT !.versions = V] =
             [tables |-> f.tables, versions |-> V,
              indexes |-> f.indexes, rows |-> f.rows, snapshot |-> f.snapshot]
BY DEF FileOK

LEMMA AddVersion1 ==
    ASSUME NEW f, FileOK(f), 1 \notin f.versions,
           "app_state" \in f.tables, "app_metadata" \in f.tables
    PROVE  LET g == [f EXCEPT !.versions = @ \cup {1}]
           IN  FileOK(g) /\ Grows(f, g) /\ g.tables = f.tables /\ g.versions = 1..1
<1> DEFINE g == [tables |-> f.tables, versions |-> f.versions \cup {1},
                 indexes |-> f.indexes, rows |-> f.rows, snapshot |-> f.snapshot]
<1>1. [f EXCEPT !.versions = @ \cup {1}] = g
  BY WithVersions
<1>2. f.versions \cup {1} = 1..1
  BY NextVersion DEF FileOK
<1>3. FileOK(g) /\ Grows(f, g)
  BY <1>2 DEF FileOK, Grows
<1> QED
  BY <1>1, <1>2, <1>3

LEMMA AddVersion3 ==
    ASSUME NEW f, FileOK(f), 3 \notin f.versions,
           "customers" \in f.tables, f.indexes = IndexCount
    PROVE  LET g == [f EXCEPT !.versions = @ \cup {3}]
           IN  FileOK(g) /\ Grows(f, g) /\ g.tables = f.tables
<1> DEFINE g == [tables |-> f.tables, versions |-> f.versions \cup {3},
                 indexes |-> f.indexes, rows |-> f.rows, snapshot |-> f.snapshot]
<1>1. [f EXCEPT !.versions = @ \cup {3}] = g
  BY WithVersions
<1>2. f.versions \cup {3} = 1..3
  <2>1. 3 - 1 \in f.versions
    BY DEF FileOK
  <2> QED
    BY <2>1, NextVersion DEF FileOK
<1>3. 1 \in f.versions /\ 2 \in f.versions
  BY DEF FileOK
<1>4. FileOK(g) /\ Grows(f, g)
  BY <1>2, <1>3 DEF FileOK, Grows
<1> QED
  BY <1>1, <1>4

-----------------------------------------------------------------------------
(* Opening and migrating.                                                  *)

LEMMA OpenKeepsInvariant ==
    ASSUME StoreInvariant, NEW c \in Connections, NEW op \in Ops, NEW s, Open(c, op, s)
    PROVE  StoreInvariant'
<1> DEFINE r == [at |-> "ensure_migration_table", op |-> op, state |-> s,
                 work |-> NoState, read |-> NoState, accounts_left |-> {},
                 seen |-> {db.snapshot}]
<1>1. SlotOK(r, db) /\ r.at \notin TransactionSteps
  BY DEF SlotOK, Slot, Early, TransactionSteps
<1>2. conn' = [conn EXCEPT ![c] = r] /\ db' = db
  BY DEF Open
<1>3. FileOK(db) /\ Grows(db, db)
  BY DEF StoreInvariant, Grows
<1> HIDE DEF r
<1> QED
  BY <1>1, <1>2, <1>3, StepKeepsInvariant

LEMMA EnsureMigrationTableKeepsInvariant ==
    ASSUME StoreInvariant, NEW c \in Connections, EnsureMigrationTable(c)
    PROVE  StoreInvariant'
<1> DEFINE next == "current_schema_version"
<1>1. conn[c].at # "idle" /\ next \notin TransactionSteps /\ next \in Early
  BY DEF EnsureMigrationTable, TransactionSteps, Early
<1>2. CASE Goes(c, next) /\ UNCHANGED db
  BY <1>1, <1>2, GoingKeepsInvariant
<1>3. CASE Runs(c, [db EXCEPT !.tables = @ \cup {"schema_migrations"}], next)
  <2>1. FileOK(db)
    BY DEF StoreInvariant
  <2>2. LET g == [db EXCEPT !.tables = @ \cup {"schema_migrations"}]
        IN  FileOK(g) /\ Grows(db, g)
    BY <2>1, AddTable
  <2> QED
    BY <1>1, <1>3, <2>2, RunsKeepsInvariant
<1> QED
  BY <1>2, <1>3 DEF EnsureMigrationTable

\* The version that is read is the last of those that are recorded.
LEMMA VersionRead ==
    ASSUME FileOK(db)
    PROVE  LET version == CHOOSE v \in db.versions \cup {0} : \A w \in db.versions : w <= v
           IN  version \in 0..4 /\ db.versions = 1..version
<1>1. PICK k \in 0..4 : db.versions = 1..k
  BY DEF FileOK
<1>2. ASSUME NEW v \in db.versions \cup {0}
      PROVE  (\A w \in db.versions : w <= v) <=> v = k
  <2>1. v \in 0..k
    BY <1>1
  <2>2. k # 0 => k \in db.versions
    BY <1>1
  <2>3. ASSUME \A w \in db.versions : w <= v
        PROVE  v = k
    <3>1. k # 0 => k <= v
      BY <2>2, <2>3
    <3> QED
      BY <2>1, <3>1
  <2>4. ASSUME v = k, NEW w \in db.versions
        PROVE  w <= v
    BY <1>1, <2>4
  <2> QED
    BY <2>3, <2>4
<1>3. k \in db.versions \cup {0}
  BY <1>1
<1>4. (CHOOSE v \in db.versions \cup {0} : \A w \in db.versions : w <= v) = k
  BY <1>2, <1>3
<1> QED
  BY <1>1, <1>4

LEMMA CurrentSchemaVersionKeepsInvariant ==
    ASSUME StoreInvariant, NEW c \in Connections, CurrentSchemaVersion(c)
    PROVE  StoreInvariant'
<1> DEFINE version == CHOOSE v \in db.versions \cup {0} : \A w \in db.versions : w <= v
           next == CASE version = 0 -> "create_app_state"
                     [] version = 1 -> "read_snapshot_to_migrate"
                     [] version = 2 -> "create_index"
                     [] version = 3 -> Migrated(conn[c].op)
<1>1. FileOK(db) /\ conn[c].at # "idle" /\ Slot(conn[c])
  BY SlotOf DEF CurrentSchemaVersion
<1>2. version \in 0..4 /\ db.versions = 1..version
  BY <1>1, VersionRead
<1>3. Fails(c) \/ (version <= 3 /\ Goes(c, next) /\ UNCHANGED db)
  <2>1. IF version > 3 THEN Fails(c) ELSE Goes(c, next) /\ UNCHANGED db
    BY Zenon DEF CurrentSchemaVersion, CURRENT_SQLITE_SCHEMA_VERSION
  <2> HIDE DEF version, next
  <2> QED
    BY <1>2, <2>1
<1>4. CASE Fails(c)
  BY <1>4, FailsKeepsInvariant
<1>5. CASE version <= 3 /\ Goes(c, next) /\ UNCHANGED db
  <2>1. conn[c].op \in Ops
    BY <1>1 DEF Slot
  <2>2. Migrated(conn[c].op) \in {"done", "write_rows", "count_rows"}
    BY <2>1 DEF Migrated, Ops
  <2> HIDE DEF version
  <2>3. version = 0 \/ version = 1 \/ version = 2 \/ version = 3
    BY <1>2, <1>5
  <2>4. version \in {2, 3} => HasTable("customers")
    BY <1>1, <1>2 DEF FileOK, HasTable
  <2>5. version = 1 => 1 \in db.versions
    BY <1>2
  <2>6. /\ version = 0 => next = "create_app_state"
        /\ version = 1 => next = "read_snapshot_to_migrate"
        /\ version = 2 => next = "create_index"
        /\ version = 3 => next = Migrated(conn[c].op)
    OBVIOUS
  <2> HIDE DEF next
  <2>7. /\ next \in {"create_app_state", "read_snapshot_to_migrate", "create_index",
                     "done", "write_rows", "count_rows"}
        /\ next = "read_snapshot_to_migrate" => 1 \in db.versions
        /\ next \notin {"create_app_state", "read_snapshot_to_migrate"} =>
             HasTable("customers")
    BY <2>2, <2>3, <2>4, <2>5, <2>6
  <2>8. next \notin TransactionSteps /\ (next \notin Early => HasTable("customers"))
    BY <2>7 DEF TransactionSteps, Early
  <2> QED
    BY <1>1, <1>5, <2>7, <2>8, GoingKeepsInvariant
<1> QED
  BY <1>3, <1>4, <1>5

LEMMA CreateAppStateKeepsInvariant ==
    ASSUME StoreInvariant, NEW c \in Connections, CreateAppState(c)
    PROVE  StoreInvariant'
<1> DEFINE g == [db EXCEPT !.tables = @ \cup {"app_state"}]
           next == "create_app_metadata"
<1>1. CASE Fails(c)
  BY <1>1, FailsKeepsInvariant
<1>2. CASE Runs(c, g, next)
  <2>1. conn[c].at # "idle" /\ FileOK(db)
    BY DEF CreateAppState, StoreInvariant
  <2>2. FileOK(g) /\ Grows(db, g) /\ "app_state" \in g.tables
    BY <2>1, AddTable
  <2>3. next \notin TransactionSteps /\ next \in Early
    BY DEF TransactionSteps, Early
  <2> HIDE DEF g
  <2> QED
    BY <1>2, <2>1, <2>2, <2>3, RunsKeepsInvariant
<1> QED
  BY <1>1, <1>2 DEF CreateAppState, CreateTable

LEMMA CreateAppMetadataKeepsInvariant ==
    ASSUME StoreInvariant, NEW c \in Connections, CreateAppMetadata(c)
    PROVE  StoreInvariant'
<1> DEFINE g == [db EXCEPT !.tables = @ \cup {"app_metadata"}]
           next == "record_version_1"
<1>1. CASE Fails(c)
  BY <1>1, FailsKeepsInvariant
<1>2. CASE Runs(c, g, next)
  <2>1. conn[c].at = "create_app_metadata" /\ conn[c].at # "idle" /\ FileOK(db)
    BY DEF CreateAppMetadata, StoreInvariant
  <2>2. FileOK(g) /\ Grows(db, g) /\ g.tables = db.tables \cup {"app_metadata"}
    BY <2>1, AddTable
  <2>3. "app_state" \in db.tables
    BY <2>1, SlotOf DEF SlotOK
  <2>4. next \notin TransactionSteps /\ next \in Early
    BY DEF TransactionSteps, Early
  <2> HIDE DEF g
  <2> QED
    BY <1>2, <2>1, <2>2, <2>3, <2>4, RunsKeepsInvariant
<1> QED
  BY <1>1, <1>2 DEF CreateAppMetadata, CreateTable

LEMMA RecordVersion1KeepsInvariant ==
    ASSUME StoreInvariant, NEW c \in Connections, RecordVersion1(c)
    PROVE  StoreInvariant'
<1> DEFINE g == [db EXCEPT !.versions = @ \cup {1}]
           next == "read_snapshot_to_migrate"
<1>1. CASE Fails(c)
  BY <1>1, FailsKeepsInvariant
<1>2. CASE 1 \notin db.versions /\ Runs(c, g, next)
  <2>1. conn[c].at = "record_version_1" /\ conn[c].at # "idle" /\ FileOK(db)
    BY DEF RecordVersion1, StoreInvariant
  <2>2. "app_state" \in db.tables /\ "app_metadata" \in db.tables
    BY <2>1, SlotOf DEF SlotOK
  <2>3. FileOK(g) /\ Grows(db, g) /\ 1 \in g.versions
    BY <1>2, <2>1, <2>2, AddVersion1
  <2>4. next \notin TransactionSteps /\ next \in Early
    BY DEF TransactionSteps, Early
  <2> HIDE DEF g
  <2> QED
    BY <1>2, <2>1, <2>3, <2>4, RunsKeepsInvariant
<1> QED
  BY <1>1, <1>2 DEF RecordVersion1, RecordVersion

LEMMA CreateIndexKeepsInvariant ==
    ASSUME StoreInvariant, NEW c \in Connections, CreateIndex(c)
    PROVE  StoreInvariant'
<1>1. /\ conn[c].at # "idle" /\ FileOK(db)
      /\ "customers" \in db.tables
  <2>1. conn[c].at = "create_index" /\ conn[c].at # "idle" /\ conn[c].at \notin Early
    BY DEF CreateIndex, Early
  <2> QED
    BY <2>1, SlotOf DEF SlotOK
<1>2. CASE db.indexes = IndexCount /\ Goes(c, "record_version_3") /\ UNCHANGED db
  <2>1. "record_version_3" \notin TransactionSteps
    BY DEF TransactionSteps
  <2> QED
    BY <1>1, <1>2, <2>1, GoingKeepsInvariant DEF HasTable
<1>3. CASE db.indexes # IndexCount /\ Runs(c, [db EXCEPT !.indexes = @ + 1], "create_index")
  <2> DEFINE g == [db EXCEPT !.indexes = @ + 1]
  <2>1. FileOK(g) /\ Grows(db, g) /\ g.tables = db.tables
    BY <1>1, <1>3, AddIndex
  <2>2. "create_index" \notin TransactionSteps
    BY DEF TransactionSteps
  <2> HIDE DEF g
  <2>3. Runs(c, g, "create_index")
    BY <1>3 DEF g
  <2> QED
    BY <1>1, <2>1, <2>2, <2>3, RunsKeepsInvariant
<1> QED
  BY <1>2, <1>3 DEF CreateIndex

LEMMA RecordVersion3KeepsInvariant ==
    ASSUME StoreInvariant, NEW c \in Connections, RecordVersion3(c)
    PROVE  StoreInvariant'
<1> DEFINE g == [db EXCEPT !.versions = @ \cup {3}]
           next == Migrated(conn[c].op)
<1>1. CASE Fails(c)
  BY <1>1, FailsKeepsInvariant
<1>2. CASE 3 \notin db.versions /\ Runs(c, g, next)
  <2>1. conn[c].at = "record_version_3" /\ conn[c].at # "idle" /\ conn[c].at \notin Early
    BY DEF RecordVersion3, Early
  <2>2. FileOK(db) /\ db.indexes = IndexCount /\ "customers" \in db.tables
    BY <2>1, SlotOf DEF SlotOK
  <2>3. FileOK(g) /\ Grows(db, g) /\ g.tables = db.tables
    BY <1>2, <2>2, AddVersion3
  <2>4. conn[c].op \in Ops
    BY <2>1, SlotOf DEF Slot
  <2>5. next \in {"done", "write_rows", "count_rows"}
    BY <2>4 DEF Migrated, Ops
  <2> HIDE DEF next, g
  <2>6. next \notin TransactionSteps
    BY <2>5 DEF TransactionSteps
  <2> QED
    BY <1>2, <2>1, <2>2, <2>3, <2>5, <2>6, RunsKeepsInvariant
<1> QED
  BY <1>1, <1>2 DEF RecordVersion3, RecordVersion

LEMMA ReadSnapshotToMigrateKeepsInvariant ==
    ASSUME StoreInvariant, NEW c \in Connections, ReadSnapshotToMigrate(c)
    PROVE  StoreInvariant'
<1> DEFINE r == [at |-> "create_tables", op |-> conn[c].op, state |-> conn[c].state,
                 work |-> conn[c].work, read |-> db.snapshot,
                 accounts_left |-> conn[c].accounts_left, seen |-> conn[c].seen]
<1>1. conn[c].at = "read_snapshot_to_migrate" /\ conn[c].at # "idle"
  BY DEF ReadSnapshotToMigrate
<1>2. Slot(conn[c]) /\ 1 \in db.versions /\ FileOK(db)
  BY <1>1, SlotOf DEF SlotOK
<1>3. conn' = [conn EXCEPT ![c] = r]
  <2>1. conn' = [conn EXCEPT ![c] = [[conn[c] EXCEPT !.at = "create_tables"]
                                       EXCEPT !.read = db.snapshot]]
    BY DEF ReadSnapshotToMigrate, StoreInvariant
  <2>2. [[conn[c] EXCEPT !.at = "create_tables"] EXCEPT !.read = db.snapshot] = r
    BY <1>2, WithAtAndRead
  <2> QED
    BY <2>1, <2>2
<1>4. SlotOK(r, db) /\ r.at \notin TransactionSteps
  BY <1>2 DEF SlotOK, Slot, Early, TransactionSteps
<1>5. Grows(db, db) /\ db' = db
  BY DEF Grows, ReadSnapshotToMigrate
<1> HIDE DEF r
<1> QED
  BY <1>2, <1>3, <1>4, <1>5, StepKeepsInvariant

LEMMA CreateTablesKeepsInvariant ==
    ASSUME StoreInvariant, NEW c \in Connections, CreateTables(c)
    PROVE  StoreInvariant'
<1> DEFINE work == [tables |-> db.tables \cup {"customers"}, versions |-> db.versions \cup {2},
                    indexes |-> db.indexes, rows |-> db.rows, snapshot |-> db.snapshot]
           r == [at |-> "migrate_rows", op |-> conn[c].op, state |-> conn[c].state,
                 work |-> work, read |-> conn[c].read,
                 accounts_left |-> conn[c].accounts_left, seen |-> conn[c].seen]
           copy == [db EXCEPT !.tables = @ \cup {"customers"}, !.versions = @ \cup {2}]
<1>1. CASE Fails(c)
  BY <1>1, FailsKeepsInvariant
<1>2. CASE ~Fails(c)
  <2>1. conn[c].at = "create_tables" /\ conn[c].at # "idle" /\ CanWrite(c)
    BY DEF CreateTables
  <2>2. Slot(conn[c]) /\ SlotOK(conn[c], db) /\ FileOK(db)
    BY <2>1, SlotOf
  <2>3. "customers" \notin db.tables /\ UNCHANGED db
    BY <1>2 DEF CreateTables, HasTable
  <2>4. 1 \in db.versions /\ conn[c].read = db.snapshot
    BY <2>1, <2>2, <2>3 DEF SlotOK
  <2>5. conn' = [conn EXCEPT ![c] = r]
    <3>1. copy = work
      <4> DEFINE q == [tables |-> db.tables \cup {"customers"}, versions |-> db.versions,
                       indexes |-> db.indexes, rows |-> db.rows, snapshot |-> db.snapshot]
                 V == db.versions \cup {2}
                 T == db.tables \cup {"customers"}
      <4>1. [db EXCEPT !.tables = T] = q
        <5> HIDE DEF T
        <5>1. [db EXCEPT !.tables = T] =
                [tables |-> T, versions |-> db.versions,
                 indexes |-> db.indexes, rows |-> db.rows, snapshot |-> db.snapshot]
          BY <2>2 DEF FileOK
        <5> QED
          BY <5>1 DEF T
      <4>2. [q EXCEPT !.versions = V] = work
        <5> HIDE DEF V
        <5>1. [q EXCEPT !.versions = V] =
                [tables |-> T, versions |-> V,
                 indexes |-> db.indexes, rows |-> db.rows, snapshot |-> db.snapshot]
          OBVIOUS
        <5> QED
          BY <5>1 DEF V
      <4>3. copy = [[db EXCEPT !.tables = T] EXCEPT !.versions = V]
        BY Zenon
      <4> HIDE DEF q, V, T, work, copy
      <4> QED
        BY <4>1, <4>2, <4>3
    <3> HIDE DEF work, copy
    <3>2. conn' = [conn EXCEPT ![c].at = "migrate_rows", ![c].work = copy]
      BY <1>2 DEF CreateTables, copy
    <3>3. conn' = [conn EXCEPT ![c] = [[conn[c] EXCEPT !.at = "migrate_rows"]
                                         EXCEPT !.work = copy]]
      BY <3>2 DEF StoreInvariant
    <3>4. [[conn[c] EXCEPT !.at = "migrate_rows"] EXCEPT !.work = copy] = r
      BY <2>2, <3>1, WithAtAndWork
    <3> QED
      BY <3>3, <3>4
  <2>6. SlotOK(r, db)
    <3>1. Slot(r) /\ r.at = "migrate_rows" /\ r.work = work /\ r.read = db.snapshot
      BY <2>2, <2>4 DEF Slot
    <3> QED
      BY <2>3, <2>4, <3>1 DEF SlotOK, Early
  <2>7. Grows(db, db)
    BY DEF Grows
  <2> HIDE DEF r
  <2> QED
    BY <2>1, <2>2, <2>3, <2>5, <2>6, <2>7, StepKeepsInvariant
<1> QED
  BY <1>1, <1>2

LEMMA MigrateRowsKeepsInvariant ==
    ASSUME StoreInvariant, NEW c \in Connections, MigrateRows(c)
    PROVE  StoreInvariant'
<1> DEFINE work == [tables |-> db.tables \cup {"customers"}, versions |-> db.versions \cup {2},
                    indexes |-> db.indexes, rows |-> RowsOf(db.snapshot),
                    snapshot |-> db.snapshot]
           r == [at |-> "commit_migration", op |-> conn[c].op, state |-> conn[c].state,
                 work |-> work, read |-> conn[c].read,
                 accounts_left |-> conn[c].accounts_left, seen |-> conn[c].seen]
<1>1. CASE Fails(c)
  BY <1>1, FailsKeepsInvariant
<1>2. CASE ~Fails(c)
  <2>1. conn[c].at = "migrate_rows" /\ conn[c].at # "idle" /\ InTransaction(c) /\ UNCHANGED db
    BY <1>2 DEF MigrateRows, InTransaction, TransactionSteps
  <2>2. Slot(conn[c]) /\ SlotOK(conn[c], db) /\ FileOK(db)
    BY <2>1, SlotOf
  <2>3. /\ 1 \in db.versions /\ "customers" \notin db.tables /\ conn[c].read = db.snapshot
        /\ conn[c].work = [tables |-> db.tables \cup {"customers"},
                           versions |-> db.versions \cup {2}, indexes |-> db.indexes,
                           rows |-> db.rows, snapshot |-> db.snapshot]
    BY <2>1, <2>2 DEF SlotOK
  <2>4. conn' = [conn EXCEPT ![c] = r]
    <3>1. conn' = [conn EXCEPT ![c].at = "commit_migration",
                               ![c].work.rows = RowsOf(db.snapshot)]
      BY <1>2, <2>3 DEF MigrateRows
    <3>2. [conn[c].work EXCEPT !.rows = RowsOf(db.snapshot)] = work
      BY <2>3
    <3> HIDE DEF work
    <3>3. conn' = [conn EXCEPT ![c] = [[conn[c] EXCEPT !.at = "commit_migration"]
                                         EXCEPT !.work = work]]
      <4> DEFINE rows == RowsOf(db.snapshot)
      <4> HIDE DEF rows
      <4>1. conn' = [conn EXCEPT ![c] = [[conn[c] EXCEPT !.at = "commit_migration"]
                                           EXCEPT !.work.rows = rows]]
        BY <3>1 DEF StoreInvariant, rows
      <4>2. [[conn[c] EXCEPT !.at = "commit_migration"] EXCEPT !.work.rows = rows] =
            [[conn[c] EXCEPT !.at = "commit_migration"] EXCEPT !.work = work]
        BY <2>2, <3>2 DEF Slot, rows
      <4> QED
        BY <4>1, <4>2
    <3>4. [[conn[c] EXCEPT !.at = "commit_migration"] EXCEPT !.work = work] = r
      BY <2>2, WithAtAndWork
    <3> QED
      BY <3>3, <3>4
  <2>5. SlotOK(r, db)
    <3>1. Slot(r) /\ r.at = "commit_migration" /\ r.work = work /\ r.read = db.snapshot
      BY <2>2, <2>3 DEF Slot
    <3> QED
      BY <2>3, <3>1 DEF SlotOK, Early
  <2>6. Grows(db, db)
    BY DEF Grows
  <2> HIDE DEF r
  <2> QED
    BY <2>1, <2>2, <2>4, <2>5, <2>6, StepKeepsInvariant
<1> QED
  BY <1>1, <1>2

\* The tables appear together with the rows of the snapshot.
LEMMA CommitMigrationKeepsInvariant ==
    ASSUME StoreInvariant, NEW c \in Connections, CommitMigration(c)
    PROVE  StoreInvariant'
<1> DEFINE r == [at |-> "create_index", op |-> conn[c].op, state |-> conn[c].state,
                 work |-> NoState, read |-> NoState,
                 accounts_left |-> conn[c].accounts_left, seen |-> conn[c].seen]
<1>1. conn[c].at = "commit_migration" /\ conn[c].at # "idle" /\ InTransaction(c)
  BY DEF CommitMigration, InTransaction, TransactionSteps
<1>2. Slot(conn[c]) /\ SlotOK(conn[c], db) /\ FileOK(db)
  BY <1>1, SlotOf
<1>3. /\ 1 \in db.versions /\ "customers" \notin db.tables
      /\ db' = [tables |-> db.tables \cup {"customers"}, versions |-> db.versions \cup {2},
                indexes |-> db.indexes, rows |-> RowsOf(db.snapshot),
                snapshot |-> db.snapshot]
  BY <1>1, <1>2 DEF SlotOK, CommitMigration
<1>4. FileOK(db') /\ Grows(db, db') /\ "customers" \in db'.tables
  <2>1. 2 \notin db.versions
    BY <1>2, <1>3 DEF FileOK
  <2>2. db.versions \cup {2} = 1..2
    BY <1>2, <1>3, <2>1, NextVersion DEF FileOK
  <2>3. 3 \notin 1..2 /\ 2 \in 1..2
    OBVIOUS
  <2> QED
    BY <1>2, <1>3, <2>2, <2>3 DEF FileOK, Grows
<1>5. conn' = [conn EXCEPT ![c] = r]
  <2>1. conn' = [conn EXCEPT ![c] = [[[conn[c] EXCEPT !.at = "create_index"]
                                        EXCEPT !.work = NoState] EXCEPT !.read = NoState]]
    BY DEF CommitMigration, StoreInvariant
  <2>2. [[[conn[c] EXCEPT !.at = "create_index"] EXCEPT !.work = NoState]
           EXCEPT !.read = NoState] = r
    <3> DEFINE q == [at |-> "create_index", op |-> conn[c].op, state |-> conn[c].state,
                     work |-> NoState, read |-> conn[c].read,
                     accounts_left |-> conn[c].accounts_left, seen |-> conn[c].seen]
    <3>1. [[conn[c] EXCEPT !.at = "create_index"] EXCEPT !.work = NoState] = q /\ Slot(q)
      BY <1>2, WithAtAndWork
    <3>2. /\ q.at = "create_index" /\ q.op = conn[c].op /\ q.state = conn[c].state
          /\ q.work = NoState /\ q.accounts_left = conn[c].accounts_left
          /\ q.seen = conn[c].seen
      OBVIOUS
    <3> HIDE DEF q
    <3>3. [q EXCEPT !.read = NoState] =
            [at |-> q.at, op |-> q.op, state |-> q.state, work |-> q.work, read |-> NoState,
             accounts_left |-> q.accounts_left, seen |-> q.seen]
      BY <3>1, WithRead
    <3> QED
      BY <3>1, <3>2, <3>3
  <2> QED
    BY <2>1, <2>2
<1>6. SlotOK(r, db') /\ r.at \notin TransactionSteps
  <2>1. Slot(r) /\ r.at = "create_index"
    BY <1>2 DEF Slot
  <2> QED
    BY <1>4, <2>1 DEF SlotOK, TransactionSteps
<1>7. \A d \in Connections \ {c} : ~InTransaction(d)
  BY <1>1 DEF StoreInvariant
<1> HIDE DEF r
<1> QED
  BY <1>4, <1>5, <1>6, <1>7, StepKeepsInvariant

-----------------------------------------------------------------------------
(* Saving.                                                                 *)

LEMMA WriteRowsKeepsInvariant ==
    ASSUME StoreInvariant, NEW c \in Connections, WriteRows(c)
    PROVE  StoreInvariant'
<1> DEFINE work == [tables |-> db.tables, versions |-> db.versions, indexes |-> db.indexes,
                    rows |-> RowsOf(conn[c].state), snapshot |-> db.snapshot]
           r == [at |-> "write_snapshot", op |-> conn[c].op, state |-> conn[c].state,
                 work |-> work, read |-> conn[c].read,
                 accounts_left |-> conn[c].accounts_left, seen |-> conn[c].seen]
           copy == [db EXCEPT !.rows = RowsOf(conn[c].state)]
<1>1. CASE Fails(c)
  BY <1>1, FailsKeepsInvariant
<1>2. CASE ~Fails(c)
  <2>1. conn[c].at = "write_rows" /\ conn[c].at \notin Early /\ CanWrite(c) /\ UNCHANGED db
    BY <1>2 DEF WriteRows, Early
  <2>2. Slot(conn[c]) /\ SlotOK(conn[c], db) /\ FileOK(db)
    BY <2>1, SlotOf
  <2>3. "customers" \in db.tables
    BY <2>1, <2>2 DEF SlotOK
  <2>4. conn' = [conn EXCEPT ![c] = r]
    <3>1. copy = work
      BY <2>2 DEF FileOK
    <3> HIDE DEF work, copy
    <3>2. conn' = [conn EXCEPT ![c].at = "write_snapshot", ![c].work = copy]
      BY <1>2 DEF WriteRows, copy
    <3>3. conn' = [conn EXCEPT ![c] = [[conn[c] EXCEPT !.at = "write_snapshot"]
                                         EXCEPT !.work = copy]]
      BY <3>2 DEF StoreInvariant
    <3>4. [[conn[c] EXCEPT !.at = "write_snapshot"] EXCEPT !.work = copy] = r
      BY <2>2, <3>1, WithAtAndWork
    <3> QED
      BY <3>3, <3>4
  <2>5. SlotOK(r, db)
    <3>1. /\ Slot(r) /\ r.at = "write_snapshot" /\ r.work = work
          /\ r.state = conn[c].state
      BY <2>2 DEF Slot
    <3> QED
      BY <2>3, <3>1 DEF SlotOK, Early
  <2>6. Grows(db, db)
    BY DEF Grows
  <2> HIDE DEF r
  <2> QED
    BY <2>1, <2>2, <2>4, <2>5, <2>6, StepKeepsInvariant
<1> QED
  BY <1>1, <1>2

LEMMA WriteSnapshotKeepsInvariant ==
    ASSUME StoreInvariant, NEW c \in Connections, WriteSnapshot(c)
    PROVE  StoreInvariant'
<1> DEFINE work == [tables |-> db.tables, versions |-> db.versions, indexes |-> db.indexes,
                    rows |-> RowsOf(conn[c].state), snapshot |-> conn[c].state]
           r == [at |-> "commit_save", op |-> conn[c].op, state |-> conn[c].state,
                 work |-> work, read |-> conn[c].read,
                 accounts_left |-> conn[c].accounts_left, seen |-> conn[c].seen]
<1>1. /\ conn[c].at = "write_snapshot" /\ conn[c].at \notin Early
      /\ InTransaction(c) /\ UNCHANGED db
  BY DEF WriteSnapshot, Early, InTransaction, TransactionSteps
<1>2. Slot(conn[c]) /\ SlotOK(conn[c], db) /\ FileOK(db)
  BY <1>1, SlotOf DEF Early
<1>3. /\ "customers" \in db.tables
      /\ conn[c].work = [tables |-> db.tables, versions |-> db.versions,
                         indexes |-> db.indexes, rows |-> RowsOf(conn[c].state),
                         snapshot |-> db.snapshot]
  BY <1>1, <1>2 DEF SlotOK
<1>4. conn' = [conn EXCEPT ![c] = r]
  <2> DEFINE s == conn[c].state
  <2>1. [conn[c].work EXCEPT !.snapshot = conn[c].state] = work
    BY <1>3
  <2> HIDE DEF work
  <2>2. conn' = [conn EXCEPT ![c] = [[conn[c] EXCEPT !.at = "commit_save"]
                                       EXCEPT !.work = work]]
    <3> HIDE DEF s
    <3>1. conn' = [conn EXCEPT ![c] = [[conn[c] EXCEPT !.at = "commit_save"]
                                         EXCEPT !.work.snapshot = s]]
      BY DEF WriteSnapshot, StoreInvariant, s
    <3>2. [[conn[c] EXCEPT !.at = "commit_save"] EXCEPT !.work.snapshot = s] =
          [[conn[c] EXCEPT !.at = "commit_save"] EXCEPT !.work = work]
      BY <1>2, <2>1 DEF Slot, s
    <3> QED
      BY <3>1, <3>2
  <2>3. [[conn[c] EXCEPT !.at = "commit_save"] EXCEPT !.work = work] = r
    BY <1>2, WithAtAndWork
  <2> QED
    BY <2>2, <2>3
<1>5. SlotOK(r, db)
  <2>1. Slot(r) /\ r.at = "commit_save" /\ r.work = work /\ r.state = conn[c].state
    BY <1>2 DEF Slot
  <2> QED
    BY <1>3, <2>1 DEF SlotOK, Early
<1>6. Grows(db, db)
  BY DEF Grows
<1> HIDE DEF r
<1> QED
  BY <1>1, <1>2, <1>4, <1>5, <1>6, StepKeepsInvariant

\* Rows and snapshot are replaced at once; nobody else has a transaction open.
LEMMA CommitSaveKeepsInvariant ==
    ASSUME StoreInvariant, NEW c \in Connections, CommitSave(c)
    PROVE  StoreInvariant'
<1>1. conn[c].at = "commit_save" /\ conn[c].at \notin Early /\ InTransaction(c)
  BY DEF CommitSave, Early, InTransaction, TransactionSteps
<1>2. Slot(conn[c]) /\ SlotOK(conn[c], db) /\ FileOK(db)
  BY <1>1, SlotOf DEF Early
<1>3. /\ "customers" \in db.tables
      /\ db' = [tables |-> db.tables, versions |-> db.versions, indexes |-> db.indexes,
                rows |-> RowsOf(conn[c].state), snapshot |-> conn[c].state]
  BY <1>1, <1>2 DEF SlotOK, CommitSave
<1>4. FileOK(db') /\ Grows(db, db')
  BY <1>2, <1>3 DEF FileOK, Grows
<1>5. /\ conn' = [d \in Connections |-> conn'[d]]
      /\ conn'[c] = Idle
      /\ \A d \in Connections \ {c} :
           conn'[d] = IF conn[d].at \in Ended THEN conn[d]
                      ELSE [conn[d] EXCEPT !.seen = @ \cup {db'.snapshot}]
  BY DEF CommitSave
<1>6. ASSUME NEW d \in Connections \ {c}
      PROVE  conn[d].at \notin TransactionSteps /\ SlotOK(conn[d], db')
  <2>1. conn[d].at \notin TransactionSteps /\ SlotOK(conn[d], db)
    BY <1>1 DEF StoreInvariant, InTransaction
  <2> QED
    BY <1>4, <2>1, SlotOKGrows
<1>7. ASSUME NEW d \in Connections \ {c}
      PROVE  SlotOK(conn'[d], db') /\ conn'[d].at \notin TransactionSteps
  <2>1. CASE conn[d].at \in Ended
    BY <1>5, <1>6, <2>1
  <2>2. CASE conn[d].at \notin Ended
    <3> DEFINE S == conn[d].seen \cup {db'.snapshot}
    <3>1. Slot(conn[d])
      <4>1. conn[d].at # "idle"
        BY <2>2 DEF Ended
      <4> QED
        BY <4>1, SlotOf
    <3>2. conn'[d] = [conn[d] EXCEPT !.seen = S]
      BY <1>5, <2>2
    <3> HIDE DEF S
    <3>3. SlotOK([conn[d] EXCEPT !.seen = S], db')
      BY <1>6, <3>1, SlotOKSeen
    <3>4. [conn[d] EXCEPT !.seen = S].at = conn[d].at
      BY <3>1 DEF Slot
    <3> QED
      BY <1>6, <3>2, <3>3, <3>4
  <2> QED
    BY <2>1, <2>2
<1>8. SlotOK(Idle, db') /\ Idle.at \notin TransactionSteps
  BY DEF SlotOK, Idle, Early, TransactionSteps
<1>9. \A d, e \in Connections :
        conn'[d].at \in TransactionSteps /\ conn'[e].at \in TransactionSteps => d = e
  BY <1>5, <1>7, <1>8
<1>10. \A d \in Connections : SlotOK(conn'[d], db')
  BY <1>5, <1>7, <1>8
<1> QED
  BY <1>4, <1>5, <1>9, <1>10 DEF StoreInvariant, InTransaction

-----------------------------------------------------------------------------
(* Loading: what has been read does not matter.                            *)

ReadingSteps == {"count_rows", "read_snapshot", "read_customers", "read_users",
                 "read_accounts", "read_transactions", "loaded", "refused"}

LEMMA ReadingKeepsInvariant ==
    ASSUME StoreInvariant, NEW c \in Connections, conn[c].at \in ReadingSteps,
           NEW r, Slot(r), r.at \in ReadingSteps,
           conn' = [conn EXCEPT ![c] = r], UNCHANGED db
    PROVE  StoreInvariant'
<1>1. conn[c].at \notin Early /\ conn[c].at # "idle"
  BY DEF ReadingSteps, Early
<1>2. "customers" \in db.tables /\ FileOK(db)
  BY <1>1, SlotOf DEF SlotOK
<1>3. r.at \notin TransactionSteps
  BY DEF ReadingSteps, TransactionSteps
<1>4. SlotOK(r, db)
  BY <1>2 DEF SlotOK, ReadingSteps
<1>5. Grows(db, db)
  BY DEF Grows
<1> QED
  BY <1>2, <1>3, <1>4, <1>5, StepKeepsInvariant

LEMMA StillSlot ==
    ASSUME NEW r, Slot(r), NEW x
    PROVE  /\ Slot([r EXCEPT !.at = x]) /\ [r EXCEPT !.at = x].at = x
           /\ Slot([r EXCEPT !.read = x]) /\ [r EXCEPT !.read = x].at = r.at
           /\ Slot([r EXCEPT !.accounts_left = x]) /\ [r EXCEPT !.accounts_left = x].at = r.at
<1>1. Slot([r EXCEPT !.at = x]) /\ [r EXCEPT !.at = x].at = x
  BY DEF Slot
<1>2. Slot([r EXCEPT !.read = x]) /\ [r EXCEPT !.read = x].at = r.at
  BY DEF Slot
<1>3. Slot([r EXCEPT !.accounts_left = x]) /\ [r EXCEPT !.accounts_left = x].at = r.at
  BY DEF Slot
<1> QED
  BY <1>1, <1>2, <1>3

LEMMA CountRowsKeepsInvariant ==
    ASSUME StoreInvariant, NEW c \in Connections, CountRows(c)
    PROVE  StoreInvariant'
<1> DEFINE next == IF db.rows = EmptyRows THEN "read_snapshot" ELSE "read_customers"
           r == [conn[c] EXCEPT !.at = next]
<1>1. /\ conn[c].at \in ReadingSteps /\ conn[c].at # "idle" /\ next \in ReadingSteps
      /\ UNCHANGED db
  BY DEF CountRows, ReadingSteps
<1>2. conn' = [conn EXCEPT ![c] = r]
  BY DEF CountRows, Goes, StoreInvariant
<1>3. Slot(r) /\ r.at = next
  <2> HIDE DEF next
  <2> QED
    BY <1>1, SlotOf, StillSlot
<1> HIDE DEF next, r
<1> QED
  BY <1>1, <1>2, <1>3, ReadingKeepsInvariant

LEMMA ReadSnapshotKeepsInvariant ==
    ASSUME StoreInvariant, NEW c \in Connections, ReadSnapshot(c)
    PROVE  StoreInvariant'
<1> DEFINE p == [conn[c] EXCEPT !.at = "loaded"]
           r == [p EXCEPT !.read = db.snapshot]
<1>1. CASE Fails(c)
  BY <1>1, FailsKeepsInvariant
<1>2. CASE ~Fails(c)
  <2>1. conn[c].at \in ReadingSteps /\ conn[c].at # "idle" /\ UNCHANGED db
    BY <1>2 DEF ReadSnapshot, ReadingSteps
  <2>2. conn' = [conn EXCEPT ![c] = r]
    BY <1>2 DEF ReadSnapshot, StoreInvariant
  <2>3. Slot(r) /\ r.at = "loaded"
    <3>1. Slot(p) /\ p.at = "loaded"
      BY <2>1, SlotOf, StillSlot
    <3> HIDE DEF p
    <3> QED
      BY <3>1, StillSlot
  <2>4. "loaded" \in ReadingSteps
    BY DEF ReadingSteps
  <2> HIDE DEF r
  <2> QED
    BY <2>1, <2>2, <2>3, <2>4, ReadingKeepsInvariant
<1> QED
  BY <1>1, <1>2

LEMMA ReadCustomersKeepsInvariant ==
    ASSUME StoreInvariant, NEW c \in Connections, ReadCustomers(c)
    PROVE  StoreInvariant'
<1> DEFINE read == [customers |-> db.rows.customers, users |-> << >>,
                    accounts |-> << >>, audit |-> << >>]
           p == [conn[c] EXCEPT !.at = "read_users"]
           r == [p EXCEPT !.read = read]
<1>1. conn[c].at \in ReadingSteps /\ conn[c].at # "idle" /\ UNCHANGED db
  BY DEF ReadCustomers, ReadingSteps
<1>2. conn' = [conn EXCEPT ![c] = r]
  BY DEF ReadCustomers, StoreInvariant
<1>3. Slot(r) /\ r.at = "read_users"
  <2>1. Slot(p) /\ p.at = "read_users"
    BY <1>1, SlotOf, StillSlot
  <2> HIDE DEF read, p
  <2> QED
    BY <2>1, StillSlot
<1>4. "read_users" \in ReadingSteps
  BY DEF ReadingSteps
<1> HIDE DEF r
<1> QED
  BY <1>1, <1>2, <1>3, <1>4, ReadingKeepsInvariant

LEMMA ReadUsersKeepsInvariant ==
    ASSUME StoreInvariant, NEW c \in Connections, ReadUsers(c)
    PROVE  StoreInvariant'
<1> DEFINE p == [conn[c] EXCEPT !.at = "read_accounts"]
           read == [p.read EXCEPT !.users = db.rows.users]
           r == [p EXCEPT !.read = read]
<1>1. conn[c].at \in ReadingSteps /\ conn[c].at # "idle" /\ UNCHANGED db
  BY DEF ReadUsers, ReadingSteps
<1>2. conn' = [conn EXCEPT ![c] = r]
  BY DEF ReadUsers, StoreInvariant
<1>3. Slot(p) /\ p.at = "read_accounts"
  BY <1>1, SlotOf, StillSlot
<1> HIDE DEF p, read
<1>4. Slot(r) /\ r.at = "read_accounts"
  BY <1>3, StillSlot
<1>5. "read_accounts" \in ReadingSteps
  BY DEF ReadingSteps
<1> HIDE DEF r
<1> QED
  BY <1>1, <1>2, <1>4, <1>5, ReadingKeepsInvariant

LEMMA ReadAccountsKeepsInvariant ==
    ASSUME StoreInvariant, NEW c \in Connections, ReadAccounts(c)
    PROVE  StoreInvariant'
<1> DEFINE p == [conn[c] EXCEPT !.at = "read_transactions"]
           accounts == [a \in DOMAIN db.rows.accounts |->
                          [owner |-> db.rows.accounts[a], transactions |-> << >>]]
           read == [p.read EXCEPT !.accounts = accounts]
           q == [p EXCEPT !.read = read]
           left == DOMAIN db.rows.accounts
           r == [q EXCEPT !.accounts_left = left]
<1>1. conn[c].at \in ReadingSteps /\ conn[c].at # "idle" /\ UNCHANGED db
  BY DEF ReadAccounts, ReadingSteps
<1>2. conn' = [conn EXCEPT ![c] = r]
  <2> HIDE DEF accounts, left
  <2>1. conn' = [conn EXCEPT ![c].at = "read_transactions", ![c].read.accounts = accounts,
                             ![c].accounts_left = left]
    BY DEF ReadAccounts, accounts, left
  <2> QED
    BY <2>1 DEF StoreInvariant
<1>3. Slot(p) /\ p.at = "read_transactions"
  BY <1>1, SlotOf, StillSlot
<1> HIDE DEF p, read, left
<1>4. Slot(q) /\ q.at = "read_transactions"
  BY <1>3, StillSlot
<1> HIDE DEF q
<1>5. Slot(r) /\ r.at = "read_transactions"
  BY <1>4, StillSlot
<1>6. "read_transactions" \in ReadingSteps
  BY DEF ReadingSteps
<1> HIDE DEF r
<1> QED
  BY <1>1, <1>2, <1>5, <1>6, ReadingKeepsInvariant

LEMMA ReadTransactionsKeepsInvariant ==
    ASSUME StoreInvariant, NEW c \in Connections, ReadTransactions(c)
    PROVE  StoreInvariant'
<1>1. PICK a \in conn[c].accounts_left :
        conn' = [conn EXCEPT
                   ![c].read.accounts[a].transactions =
                      OrderedById({id \in DOMAIN db.rows.transactions :
                                     db.rows.transactions[id] = a}),
                   ![c].accounts_left = @ \ {a}]
  BY DEF ReadTransactions
<1> DEFINE history == OrderedById({id \in DOMAIN db.rows.transactions :
                                     db.rows.transactions[id] = a})
           read == [conn[c].read EXCEPT !.accounts[a].transactions = history]
           q == [conn[c] EXCEPT !.read = read]
           left == q.accounts_left \ {a}
           r == [q EXCEPT !.accounts_left = left]
<1>2. conn[c].at = "read_transactions" /\ conn[c].at # "idle" /\ UNCHANGED db
  BY DEF ReadTransactions
<1>3. conn' = [conn EXCEPT ![c] = r]
  <2> HIDE DEF history
  <2>1. conn' = [conn EXCEPT ![c].read.accounts[a].transactions = history,
                             ![c].accounts_left = @ \ {a}]
    BY <1>1 DEF history
  <2> QED
    BY <2>1 DEF StoreInvariant
<1> HIDE DEF read
<1>4. Slot(q) /\ q.at = "read_transactions"
  BY <1>2, SlotOf, StillSlot
<1> HIDE DEF q, left
<1>5. Slot(r) /\ r.at = "read_transactions"
  BY <1>4, StillSlot
<1>6. "read_transactions" \in ReadingSteps
  BY DEF ReadingSteps
<1> HIDE DEF r
<1> QED
  BY <1>2, <1>3, <1>5, <1>6, ReadingKeepsInvariant

LEMMA ReadAuditLogKeepsInvariant ==
    ASSUME StoreInvariant, NEW c \in Connections, ReadAuditLog(c)
    PROVE  StoreInvariant'
<1> DEFINE read == [conn[c].read EXCEPT !.audit = OrderedById(db.rows.audit_entries)]
           at == IF Accepted(read) THEN "loaded" ELSE "refused"
           p == [conn[c] EXCEPT !.at = at]
           r == [p EXCEPT !.read = read]
<1>1. conn[c].at = "read_transactions" /\ conn[c].at # "idle" /\ UNCHANGED db
  BY DEF ReadAuditLog
<1>2. at \in ReadingSteps
  BY DEF ReadingSteps
<1>3. conn' = [conn EXCEPT ![c] = r]
  <2>1. conn' = [conn EXCEPT ![c].at = at, ![c].read = read]
    BY DEF ReadAuditLog
  <2> HIDE DEF at, read
  <2> QED
    BY <2>1 DEF StoreInvariant
<1> HIDE DEF at, read
<1>4. Slot(p) /\ p.at = at
  <2>1. Slot(conn[c])
    BY <1>1, SlotOf
  <2> QED
    BY <2>1, StillSlot
<1> HIDE DEF p
<1>5. Slot(r) /\ r.at = at
  BY <1>4, StillSlot
<1>6. "read_transactions" \in ReadingSteps
  BY DEF ReadingSteps
<1> HIDE DEF r
<1> QED
  BY <1>1, <1>2, <1>3, <1>5, <1>6, ReadingKeepsInvariant

-----------------------------------------------------------------------------
(* The initial states, and every step.                                     *)

\* A new file, one of version 1 and one of a version to come are sound.
LEMMA InitIsSound == Init => StoreInvariant
<1> SUFFICES ASSUME Init PROVE StoreInvariant
  OBVIOUS
<1>1. RowsOf(NoState) = EmptyRows
  BY Zenon DEF RowsOf
<1>2. FileOK(db)
  <2>1. CASE db = Database({}, {}, NoState)
    <3>1. /\ db.tables = {} /\ db.versions = {}
          /\ db = [tables |-> db.tables, versions |-> db.versions, indexes |-> db.indexes,
                   rows |-> db.rows, snapshot |-> db.snapshot]
      BY <2>1 DEF Database
    <3>2. 0 \in 0..4 /\ {} = 1..0
      OBVIOUS
    <3> QED
      BY <3>1, <3>2 DEF FileOK
  <2>2. ASSUME NEW s \in States,
               db = Database({"schema_migrations", "app_state", "app_metadata"}, {1}, s)
        PROVE  FileOK(db)
    <3>1. /\ db.tables = {"schema_migrations", "app_state", "app_metadata"}
          /\ db.versions = {1}
          /\ db = [tables |-> db.tables, versions |-> db.versions, indexes |-> db.indexes,
                   rows |-> db.rows, snapshot |-> db.snapshot]
      BY <2>2 DEF Database
    <3>2. 1 \in 0..4 /\ {1} = 1..1
      OBVIOUS
    <3>3. /\ 2 \notin db.versions /\ 3 \notin db.versions
          /\ "app_state" \in db.tables /\ "app_metadata" \in db.tables
          /\ "customers" \notin db.tables
      BY <3>1
    <3> QED
      BY <3>1, <3>2, <3>3 DEF FileOK
  <2>3. CASE db = [Database({"schema_migrations", "app_state", "app_metadata", "customers"},
                            1..4, NoState) EXCEPT !.indexes = IndexCount]
    <3>1. /\ db.tables = {"schema_migrations", "app_state", "app_metadata", "customers"}
          /\ db.versions = 1..4 /\ db.indexes = IndexCount
          /\ db.rows = EmptyRows /\ db.snapshot = NoState
          /\ db = [tables |-> db.tables, versions |-> db.versions, indexes |-> db.indexes,
                   rows |-> db.rows, snapshot |-> db.snapshot]
      BY <2>3 DEF Database
    <3>2. 4 \in 0..4 /\ 2 \in 1..4
      OBVIOUS
    <3>3. /\ "app_state" \in db.tables /\ "app_metadata" \in db.tables
          /\ "customers" \in db.tables
      BY <3>1
    <3> QED
      BY <1>1, <3>1, <3>2, <3>3 DEF FileOK
  <2> QED
    BY <2>1, <2>2, <2>3 DEF Init
<1>3. SlotOK(Idle, db) /\ Idle.at \notin TransactionSteps
  BY DEF SlotOK, Idle, Early, TransactionSteps
<1>4. conn = [c \in Connections |-> conn[c]] /\ \A c \in Connections : conn[c] = Idle
  BY DEF Init
<1> QED
  BY <1>2, <1>3, <1>4 DEF StoreInvariant, InTransaction

LEMMA StepIsSound == StoreInvariant /\ [Next]_vars => StoreInvariant'
<1> SUFFICES ASSUME StoreInvariant, [Next]_vars PROVE StoreInvariant'
  OBVIOUS
<1>1. CASE UNCHANGED vars
  BY <1>1 DEF vars, StoreInvariant, InTransaction
<1>2. ASSUME NEW c \in Connections, NEW op \in {"initialize", "load"}, Open(c, op, NoState)
      PROVE  StoreInvariant'
  BY <1>2, OpenKeepsInvariant DEF Ops
<1>3. ASSUME NEW c \in Connections, NEW s \in States, Open(c, "save", s)
      PROVE  StoreInvariant'
  BY <1>3, OpenKeepsInvariant DEF Ops
<1>4. ASSUME NEW c \in Connections, Statement(c)
      PROVE  StoreInvariant'
  BY <1>4, EnsureMigrationTableKeepsInvariant, CurrentSchemaVersionKeepsInvariant,
     CreateAppStateKeepsInvariant, CreateAppMetadataKeepsInvariant,
     RecordVersion1KeepsInvariant, ReadSnapshotToMigrateKeepsInvariant,
     CreateTablesKeepsInvariant, MigrateRowsKeepsInvariant, CommitMigrationKeepsInvariant,
     CreateIndexKeepsInvariant, RecordVersion3KeepsInvariant,
     WriteRowsKeepsInvariant, WriteSnapshotKeepsInvariant, CommitSaveKeepsInvariant,
     CountRowsKeepsInvariant, ReadSnapshotKeepsInvariant, ReadCustomersKeepsInvariant,
     ReadUsersKeepsInvariant, ReadAccountsKeepsInvariant, ReadTransactionsKeepsInvariant,
     ReadAuditLogKeepsInvariant
     DEF Statement
<1>5. ASSUME NEW c \in Connections, End(c)
      PROVE  StoreInvariant'
  BY <1>5, FailsKeepsInvariant DEF End
<1> QED
  BY <1>1, <1>2, <1>3, <1>4, <1>5 DEF Next

-----------------------------------------------------------------------------
(* What saves and loads rely on.                                           *)

SavingSteps == {"write_rows", "write_snapshot", "commit_save"}

\* The tables as a load has filled them so far, with these accounts left.
AccountsRead(s, left) ==
    [a \in DOMAIN s.accounts |->
       [owner |-> s.accounts[a].owner,
        transactions |-> IF a \in left THEN << >> ELSE HistoryOf(s, a)]]

\* A load during which the file has held nothing but s.
HasRead(r, s) ==
    /\ r.at \in {"read_customers", "read_users", "read_accounts", "read_transactions"} =>
         s \in States
    /\ r.at = "read_users" =>
         r.read = [customers |-> s.customers, users |-> << >>, accounts |-> << >>,
                   audit |-> << >>]
    /\ r.at = "read_accounts" =>
         r.read = [customers |-> s.customers, users |-> s.users, accounts |-> << >>,
                   audit |-> << >>]
    /\ r.at = "read_transactions" =>
         /\ r.accounts_left \subseteq DOMAIN s.accounts
         /\ r.read = [customers |-> s.customers, users |-> s.users,
                      accounts |-> AccountsRead(s, r.accounts_left), audit |-> << >>]
    /\ r.at = "loaded" => r.read = s
    /\ r.at # "refused"

\* A file holds states of the application, and rows that fit into the columns.
FileHolds(f) ==
    /\ f.tables \subseteq {"schema_migrations", "app_state", "app_metadata", "customers"}
    /\ f.indexes \in 0..IndexCount
    /\ f.snapshot \in States \cup {NoState}
    /\ IF "customers" \in f.tables THEN f.snapshot = NoState \/ Fits(f.snapshot)
       ELSE f.rows = EmptyRows

\* A connection saves what fits, and has seen what the file holds.
CallOK(r, s) ==
    /\ r.at # "idle"
    /\ r.state \in States \cup {NoState}
    /\ r.op = "save" => r.state \in States
    /\ r.at \in SavingSteps => r.op = "save"
    /\ r.at \in ReadingSteps => r.op = "load"
    /\ r.at = "done" => r.op = "initialize"
    /\ r.at \in {"write_snapshot", "commit_save"} => Fits(r.state)
    /\ r.at = "commit_migration" => r.read = NoState \/ Fits(r.read)
    /\ r.seen # {} /\ IsFiniteSet(r.seen) /\ r.seen \subseteq States \cup {NoState}
    /\ r.at \notin Ended => s \in r.seen

\* The invariant of the calls, inductive together with StoreInvariant.
CallsInvariant ==
    /\ FileHolds(db)
    /\ \A c \in Connections : conn[c] = Idle \/ CallOK(conn[c], db.snapshot)

\* The invariant of the loads, for states in the order of their ids.
LoadsInvariant ==
    \A c \in Connections :
      conn[c] = Idle \/ \A s \in States \cup {NoState} : conn[c].seen = {s} => HasRead(conn[c], s)

-----------------------------------------------------------------------------
(* What a statement does to its connection.                                *)

\* The call goes on: its connection is at another statement and has read this,
\* with these accounts left.
Moves(c, at, read, left) ==
    /\ Slot(conn'[c])
    /\ conn'[c].at = at /\ conn'[c].read = read /\ conn'[c].accounts_left = left
    /\ conn'[c].op = conn[c].op /\ conn'[c].state = conn[c].state
    /\ conn'[c].seen = conn[c].seen
    /\ \A d \in Connections \ {c} : conn'[d] = conn[d]

MovesTo(c, at) == Moves(c, at, conn[c].read, conn[c].accounts_left)

\* q is the same call as r.
Like(q, r) == Slot(q) /\ q.op = r.op /\ q.state = r.state /\ q.seen = r.seen

LEMMA MovesByLike ==
    ASSUME StoreInvariant, NEW c \in Connections, NEW q, Like(q, conn[c]),
           conn' = [conn EXCEPT ![c] = q]
    PROVE  Moves(c, q.at, q.read, q.accounts_left)
<1>1. conn'[c] = q /\ \A d \in Connections \ {c} : conn'[d] = conn[d]
  BY DEF StoreInvariant
<1> QED
  BY <1>1 DEF Moves, Like

LEMMA GoesMoves ==
    ASSUME StoreInvariant, NEW c \in Connections, conn[c].at # "idle", NEW at, Goes(c, at)
    PROVE  MovesTo(c, at)
<1> DEFINE q == [conn[c] EXCEPT !.at = at]
<1>1. Slot(conn[c])
  BY SlotOf
<1>2. conn' = [conn EXCEPT ![c] = q]
  BY DEF Goes, StoreInvariant
<1>3. /\ Like(q, conn[c]) /\ q.at = at /\ q.read = conn[c].read
      /\ q.accounts_left = conn[c].accounts_left
  BY <1>1 DEF Slot, Like
<1> HIDE DEF q
<1> QED
  BY <1>2, <1>3, MovesByLike DEF MovesTo

\* The connection is at another statement and works on this copy.
LEMMA WorkMoves ==
    ASSUME StoreInvariant, NEW c \in Connections, conn[c].at # "idle", NEW at, NEW work,
           conn' = [conn EXCEPT ![c] = [[conn[c] EXCEPT !.at = at] EXCEPT !.work = work]]
    PROVE  MovesTo(c, at)
<1> DEFINE p == [conn[c] EXCEPT !.at = at]
           q == [p EXCEPT !.work = work]
<1>1. Slot(conn[c])
  BY SlotOf
<1>2. /\ Like(p, conn[c]) /\ p.at = at /\ p.read = conn[c].read
      /\ p.accounts_left = conn[c].accounts_left
  BY <1>1 DEF Slot, Like
<1> HIDE DEF p
<1>3. /\ Like(q, p) /\ q.at = at /\ q.read = conn[c].read
      /\ q.accounts_left = conn[c].accounts_left
  BY <1>2 DEF Slot, Like
<1>4. Like(q, conn[c])
  BY <1>2, <1>3 DEF Like
<1>5. conn' = [conn EXCEPT ![c] = q]
  BY DEF p
<1> HIDE DEF q
<1> QED
  BY <1>3, <1>4, <1>5, MovesByLike DEF MovesTo

\* The connection is at another statement and has read this.
LEMMA ReadMoves ==
    ASSUME StoreInvariant, NEW c \in Connections, conn[c].at # "idle", NEW at, NEW read,
           conn' = [conn EXCEPT ![c] = [[conn[c] EXCEPT !.at = at] EXCEPT !.read = read]]
    PROVE  Moves(c, at, read, conn[c].accounts_left)
<1> DEFINE p == [conn[c] EXCEPT !.at = at]
           q == [p EXCEPT !.read = read]
<1>1. Slot(conn[c])
  BY SlotOf
<1>2. /\ Like(p, conn[c]) /\ p.at = at
      /\ p.accounts_left = conn[c].accounts_left
  BY <1>1 DEF Slot, Like
<1> HIDE DEF p
<1>3. /\ Like(q, p) /\ q.at = at /\ q.read = read
      /\ q.accounts_left = conn[c].accounts_left
  BY <1>2 DEF Slot, Like
<1>4. Like(q, conn[c])
  BY <1>2, <1>3 DEF Like
<1>5. conn' = [conn EXCEPT ![c] = q]
  BY DEF p
<1> HIDE DEF q
<1> QED
  BY <1>3, <1>4, <1>5, MovesByLike

\* A connection that fails starts again.
LEMMA FailsMoves ==
    ASSUME StoreInvariant, NEW c \in Connections, Fails(c)
    PROVE  /\ conn'[c] = Idle /\ db' = db
           /\ \A d \in Connections \ {c} : conn'[d] = conn[d]
BY DEF StoreInvariant, Fails

-----------------------------------------------------------------------------
(* A step of one connection and the calls of all.                          *)

\* The steps at which nothing is asked of a call.
PlainSteps == {"current_schema_version", "create_app_state", "create_app_metadata",
               "record_version_1", "read_snapshot_to_migrate", "create_tables",
               "migrate_rows", "create_index", "record_version_3"}

\* A statement of c that is neither a commit of a save nor part of a load: c
\* goes on to a step that it may be at.
WorksOn(c) ==
    \E at, read, left :
      /\ Moves(c, at, read, left)
      /\ conn[c].at \notin Ended
      /\ \/ at \in PlainSteps
         \/ at = "done" /\ conn[c].op = "initialize"
         \/ at = "write_rows" /\ conn[c].op = "save"
         \/ /\ at \in {"write_snapshot", "commit_save"}
            /\ conn[c].op = "save" /\ Fits(conn[c].state)
         \/ at = "commit_migration" /\ (read = NoState \/ Fits(read))
         \/ at = "count_rows" /\ conn[c].op = "load"

\* A statement of a load that goes on.
ReadsOn(c) ==
    \E at, read, left :
      /\ Moves(c, at, read, left)
      /\ conn[c].at \notin Ended
      /\ conn[c].at \in ReadingSteps /\ at \in ReadingSteps
      /\ db' = db

LEMMA CallsKept ==
    ASSUME CallsInvariant, NEW c \in Connections, db'.snapshot = db.snapshot, FileHolds(db'),
           conn'[c] = Idle \/ CallOK(conn'[c], db.snapshot),
           \A d \in Connections \ {c} : conn'[d] = conn[d]
    PROVE  CallsInvariant'
<1>1. ASSUME NEW d \in Connections
      PROVE  conn'[d] = Idle \/ CallOK(conn'[d], db'.snapshot)
  BY DEF CallsInvariant
<1> QED
  BY <1>1 DEF CallsInvariant

LEMMA MovingKeepsCalls ==
    ASSUME CallsInvariant, NEW c \in Connections, NEW at, NEW read, NEW left,
           Moves(c, at, read, left), conn[c].at \notin Ended, at # "idle",
           at \in SavingSteps => conn[c].op = "save",
           at \in ReadingSteps => conn[c].op = "load",
           at = "done" => conn[c].op = "initialize",
           at \in {"write_snapshot", "commit_save"} => Fits(conn[c].state),
           at = "commit_migration" => read = NoState \/ Fits(read),
           db'.snapshot = db.snapshot, FileHolds(db')
    PROVE  CallsInvariant'
<1>1. conn[c] # Idle /\ CallOK(conn[c], db.snapshot)
  <2>1. conn[c] # Idle
    BY DEF Idle, Ended
  <2> QED
    BY <2>1 DEF CallsInvariant
<1> DEFINE q == conn'[c]
<1>2. /\ q.at = at /\ q.read = read
      /\ q.op = conn[c].op /\ q.state = conn[c].state /\ q.seen = conn[c].seen
      /\ \A d \in Connections \ {c} : conn'[d] = conn[d]
  BY DEF Moves
<1>3. CallOK(q, db.snapshot)
  <2> HIDE DEF q
  <2> QED
    BY <1>1, <1>2 DEF CallOK
<1> QED
  BY <1>2, <1>3, CallsKept

LEMMA WorkingKeepsCalls ==
    ASSUME CallsInvariant, NEW c \in Connections, WorksOn(c),
           db'.snapshot = db.snapshot, FileHolds(db')
    PROVE  CallsInvariant'
BY MovingKeepsCalls DEF WorksOn, PlainSteps, SavingSteps, ReadingSteps

LEMMA ReadingKeepsCalls ==
    ASSUME StoreInvariant, CallsInvariant, NEW c \in Connections, ReadsOn(c)
    PROVE  CallsInvariant'
<1>1. PICK at, read, left : /\ Moves(c, at, read, left) /\ conn[c].at \notin Ended
                            /\ conn[c].at \in ReadingSteps /\ at \in ReadingSteps
                            /\ db' = db
  BY DEF ReadsOn
<1>2. conn[c].op = "load"
  <2>1. conn[c] # Idle
    BY <1>1 DEF Idle, Ended
  <2> QED
    BY <1>1, <2>1 DEF CallsInvariant, CallOK
<1>3. FileHolds(db)
  BY DEF CallsInvariant
<1> QED
  BY <1>1, <1>2, <1>3, MovingKeepsCalls DEF SavingSteps, ReadingSteps

LEMMA FailingKeepsCalls ==
    ASSUME StoreInvariant, CallsInvariant, NEW c \in Connections, Fails(c)
    PROVE  CallsInvariant'
BY FailsMoves, CallsKept DEF CallsInvariant

-----------------------------------------------------------------------------
(* What each statement does to the calls.                                  *)

\* A statement that is neither a commit of a save nor part of a load.
Worked(c) ==
    Fails(c) \/ (WorksOn(c) /\ db'.snapshot = db.snapshot /\ FileHolds(db'))

LEMMA SameFile ==
    ASSUME CallsInvariant, db' = db
    PROVE  db'.snapshot = db.snapshot /\ FileHolds(db')
BY DEF CallsInvariant

LEMMA GoingWorks ==
    ASSUME StoreInvariant, NEW c \in Connections, NEW at, Goes(c, at),
           conn[c].at \notin Ended,
           \/ at \in PlainSteps
           \/ at = Migrated(conn[c].op)
    PROVE  WorksOn(c)
<1>1. conn[c].at # "idle"
  BY DEF Ended
<1>2. MovesTo(c, at) /\ conn[c].op \in Ops
  BY <1>1, GoesMoves, SlotOf DEF Slot
<1>3. at = Migrated(conn[c].op) =>
        \/ at = "done" /\ conn[c].op = "initialize"
        \/ at = "write_rows" /\ conn[c].op = "save"
        \/ at = "count_rows" /\ conn[c].op = "load"
  BY <1>2 DEF Migrated, Ops
<1> QED
  BY <1>2, <1>3 DEF WorksOn, MovesTo

\* A table that is not one of those of migration 2.
LEMMA TableHolds ==
    ASSUME StoreInvariant, CallsInvariant,
           NEW t \in {"schema_migrations", "app_state", "app_metadata"}
    PROVE  LET f == [db EXCEPT !.tables = @ \cup {t}]
           IN  f.snapshot = db.snapshot /\ FileHolds(f)
<1> DEFINE T == db.tables \cup {t}
           f == [tables |-> T, versions |-> db.versions,
                 indexes |-> db.indexes, rows |-> db.rows, snapshot |-> db.snapshot]
<1>1. [db EXCEPT !.tables = T] = f
  <2>1. FileOK(db)
    BY DEF StoreInvariant
  <2> HIDE DEF T
  <2> QED
    BY <2>1 DEF FileOK
<1>2. f.snapshot = db.snapshot /\ FileHolds(f)
  BY DEF CallsInvariant, FileHolds
<1> QED
  BY <1>1, <1>2

LEMMA VersionHolds ==
    ASSUME StoreInvariant, CallsInvariant, NEW V
    PROVE  LET f == [db EXCEPT !.versions = V]
           IN  f.snapshot = db.snapshot /\ FileHolds(f)
<1> DEFINE f == [tables |-> db.tables, versions |-> V,
                 indexes |-> db.indexes, rows |-> db.rows, snapshot |-> db.snapshot]
<1>1. [db EXCEPT !.versions = V] = f
  BY DEF StoreInvariant, FileOK
<1>2. f.snapshot = db.snapshot /\ FileHolds(f)
  BY DEF CallsInvariant, FileHolds
<1> QED
  BY <1>1, <1>2

LEMMA EnsureMigrationTableWorks ==
    ASSUME StoreInvariant, CallsInvariant, NEW c \in Connections, EnsureMigrationTable(c)
    PROVE  Worked(c)
<1> DEFINE f == [db EXCEPT !.tables = @ \cup {"schema_migrations"}]
<1>1. conn[c].at \notin Ended /\ Goes(c, "current_schema_version")
  BY DEF EnsureMigrationTable, Ended, Runs
<1>2. WorksOn(c)
  BY <1>1, GoingWorks DEF PlainSteps
<1>3. f.snapshot = db.snapshot /\ FileHolds(f)
  BY TableHolds
<1>4. db' = db \/ db' = f
  BY DEF EnsureMigrationTable, Runs
<1> HIDE DEF f
<1> QED
  BY <1>2, <1>3, <1>4, SameFile DEF Worked

LEMMA CurrentSchemaVersionWorks ==
    ASSUME StoreInvariant, CallsInvariant, NEW c \in Connections, CurrentSchemaVersion(c)
    PROVE  Worked(c)
<1> DEFINE version == CHOOSE v \in db.versions \cup {0} : \A w \in db.versions : w <= v
           next == CASE version = 0 -> "create_app_state"
                     [] version = 1 -> "read_snapshot_to_migrate"
                     [] version = 2 -> "create_index"
                     [] version = 3 -> Migrated(conn[c].op)
<1>1. version \in 0..4
  BY VersionRead DEF StoreInvariant
<1>2. Fails(c) \/ (version <= 3 /\ Goes(c, next) /\ db' = db)
  <2>1. IF version > 3 THEN Fails(c) ELSE Goes(c, next) /\ UNCHANGED db
    BY Zenon DEF CurrentSchemaVersion, CURRENT_SQLITE_SCHEMA_VERSION
  <2> HIDE DEF version, next
  <2> QED
    BY <1>1, <2>1
<1>3. CASE version <= 3 /\ Goes(c, next) /\ db' = db
  <2>1. conn[c].at \notin Ended
    BY DEF CurrentSchemaVersion, Ended
  <2> HIDE DEF version
  <2>2. version = 0 \/ version = 1 \/ version = 2 \/ version = 3
    BY <1>1, <1>3
  <2>3. next \in {"create_app_state", "read_snapshot_to_migrate", "create_index"}
        \/ next = Migrated(conn[c].op)
    <3> DEFINE last == Migrated(conn[c].op)
    <3> HIDE DEF last
    <3>1. /\ version = 0 => next = "create_app_state"
          /\ version = 1 => next = "read_snapshot_to_migrate"
          /\ version = 2 => next = "create_index"
          /\ version = 3 => next = last
      BY DEF last
    <3> HIDE DEF next
    <3> QED
      BY <2>2, <3>1 DEF last
  <2> HIDE DEF next
  <2>4. WorksOn(c)
    BY <1>3, <2>1, <2>3, GoingWorks DEF PlainSteps
  <2> QED
    BY <1>3, <2>4, SameFile DEF Worked
<1> QED
  BY <1>2, <1>3 DEF Worked

LEMMA CreateTableWorks ==
    ASSUME StoreInvariant, CallsInvariant, NEW c \in Connections, conn[c].at \notin Ended,
           NEW t \in {"app_state", "app_metadata"}, NEW at \in PlainSteps, CreateTable(c, t, at)
    PROVE  Worked(c)
<1> DEFINE f == [db EXCEPT !.tables = @ \cup {t}]
<1>1. Fails(c) \/ (db' = f /\ Goes(c, at))
  BY DEF CreateTable, Runs
<1>2. f.snapshot = db.snapshot /\ FileHolds(f)
  BY TableHolds
<1> HIDE DEF f
<1>3. Goes(c, at) => WorksOn(c)
  BY GoingWorks
<1> QED
  BY <1>1, <1>2, <1>3 DEF Worked

LEMMA RecordVersionWorks ==
    ASSUME StoreInvariant, CallsInvariant, NEW c \in Connections, conn[c].at \notin Ended,
           NEW v, NEW at, at \in PlainSteps \/ at = Migrated(conn[c].op),
           RecordVersion(c, v, at)
    PROVE  Worked(c)
<1> DEFINE V == db.versions \cup {v}
           f == [db EXCEPT !.versions = V]
<1>1. Fails(c) \/ (db' = f /\ Goes(c, at))
  BY DEF RecordVersion, Runs
<1>2. f.snapshot = db.snapshot /\ FileHolds(f)
  <2> HIDE DEF V
  <2> QED
    BY VersionHolds
<1> HIDE DEF f
<1>3. Goes(c, at) => WorksOn(c)
  BY GoingWorks
<1> QED
  BY <1>1, <1>2, <1>3 DEF Worked

LEMMA MigrationOneWorks ==
    ASSUME StoreInvariant, CallsInvariant, NEW c \in Connections,
           CreateAppState(c) \/ CreateAppMetadata(c) \/ RecordVersion1(c) \/ RecordVersion3(c)
    PROVE  Worked(c)
<1>1. CASE CreateAppState(c)
  BY <1>1, CreateTableWorks DEF CreateAppState, Ended, PlainSteps
<1>2. CASE CreateAppMetadata(c)
  BY <1>2, CreateTableWorks DEF CreateAppMetadata, Ended, PlainSteps
<1>3. CASE RecordVersion1(c)
  BY <1>3, RecordVersionWorks DEF RecordVersion1, Ended, PlainSteps
<1>4. CASE RecordVersion3(c)
  BY <1>4, RecordVersionWorks DEF RecordVersion3, Ended
<1> QED
  BY <1>1, <1>2, <1>3, <1>4

LEMMA ReadSnapshotToMigrateWorks ==
    ASSUME StoreInvariant, CallsInvariant, NEW c \in Connections, ReadSnapshotToMigrate(c)
    PROVE  Worked(c)
<1>1. conn[c].at \notin Ended /\ conn[c].at # "idle" /\ db' = db
  BY DEF ReadSnapshotToMigrate, Ended
<1>2. conn' = [conn EXCEPT ![c] = [[conn[c] EXCEPT !.at = "create_tables"]
                                     EXCEPT !.read = db.snapshot]]
  BY DEF ReadSnapshotToMigrate, StoreInvariant
<1>3. Moves(c, "create_tables", db.snapshot, conn[c].accounts_left)
  BY <1>1, <1>2, ReadMoves
<1>4. WorksOn(c)
  BY <1>1, <1>3 DEF WorksOn, PlainSteps
<1> QED
  BY <1>1, <1>4, SameFile DEF Worked

LEMMA CreateTablesWorks ==
    ASSUME StoreInvariant, CallsInvariant, NEW c \in Connections, CreateTables(c)
    PROVE  Worked(c)
<1> DEFINE copy == [db EXCEPT !.tables = @ \cup {"customers"}, !.versions = @ \cup {2}]
<1>1. CASE ~Fails(c)
  <2>1. conn[c].at \notin Ended /\ conn[c].at # "idle"
    BY DEF CreateTables, Ended
  <2>2. db' = db
    BY <1>1 DEF CreateTables
  <2>3. conn' = [conn EXCEPT ![c].at = "migrate_rows", ![c].work = copy]
    BY <1>1 DEF CreateTables
  <2> HIDE DEF copy
  <2>4. conn' = [conn EXCEPT ![c] = [[conn[c] EXCEPT !.at = "migrate_rows"]
                                       EXCEPT !.work = copy]]
    BY <2>3 DEF StoreInvariant
  <2>5. MovesTo(c, "migrate_rows")
    BY <2>1, <2>4, WorkMoves
  <2>6. WorksOn(c)
    BY <2>1, <2>5 DEF WorksOn, MovesTo, PlainSteps
  <2> QED
    BY <2>2, <2>6, SameFile DEF Worked
<1> QED
  BY <1>1 DEF Worked

LEMMA MigrateRowsWorks ==
    ASSUME StoreInvariant, CallsInvariant, NEW c \in Connections, MigrateRows(c)
    PROVE  Worked(c)
<1> DEFINE rows == RowsOf(conn[c].read)
<1>1. CASE ~Fails(c)
  <2>1. conn[c].at \notin Ended /\ conn[c].at # "idle"
    BY DEF MigrateRows, Ended
  <2>2. db' = db /\ (conn[c].read = NoState \/ Fits(conn[c].read))
    BY <1>1 DEF MigrateRows
  <2>3. conn' = [conn EXCEPT ![c].at = "commit_migration", ![c].work.rows = rows]
    BY <1>1 DEF MigrateRows
  <2> HIDE DEF rows
  <2>4. conn' = [conn EXCEPT ![c] = [[conn[c] EXCEPT !.at = "commit_migration"]
                                       EXCEPT !.work = [conn[c].work EXCEPT !.rows = rows]]]
    <3>1. Slot(conn[c])
      BY <2>1, SlotOf
    <3>2. conn' = [conn EXCEPT ![c] = [[conn[c] EXCEPT !.at = "commit_migration"]
                                         EXCEPT !.work.rows = rows]]
      BY <2>3 DEF StoreInvariant
    <3>3. [[conn[c] EXCEPT !.at = "commit_migration"] EXCEPT !.work.rows = rows] =
          [[conn[c] EXCEPT !.at = "commit_migration"]
             EXCEPT !.work = [conn[c].work EXCEPT !.rows = rows]]
      BY <3>1 DEF Slot
    <3> QED
      BY <3>2, <3>3
  <2>5. MovesTo(c, "commit_migration")
    BY <2>1, <2>4, WorkMoves
  <2>6. WorksOn(c)
    BY <2>1, <2>2, <2>5 DEF WorksOn, MovesTo
  <2> QED
    BY <2>2, <2>6, SameFile DEF Worked
<1> QED
  BY <1>1 DEF Worked

LEMMA CommitMigrationWorks ==
    ASSUME StoreInvariant, CallsInvariant, NEW c \in Connections, CommitMigration(c)
    PROVE  Worked(c)
<1>1. /\ conn[c].at = "commit_migration" /\ conn[c].at # "idle" /\ conn[c].at \notin Ended
      /\ conn[c] # Idle
  BY DEF CommitMigration, Ended, Idle
<1>2. SlotOK(conn[c], db) /\ FileOK(db) /\ CallOK(conn[c], db.snapshot) /\ FileHolds(db)
  BY <1>1, SlotOf DEF CallsInvariant
<1>3. /\ conn[c].read = db.snapshot
      /\ db' = [tables |-> db.tables \cup {"customers"}, versions |-> db.versions \cup {2},
                indexes |-> db.indexes, rows |-> RowsOf(db.snapshot),
                snapshot |-> db.snapshot]
  BY <1>1, <1>2 DEF SlotOK, CommitMigration
<1>4. db.snapshot = NoState \/ Fits(db.snapshot)
  BY <1>1, <1>2, <1>3 DEF CallOK
<1>5. db'.snapshot = db.snapshot /\ FileHolds(db')
  BY <1>2, <1>3, <1>4 DEF FileHolds
<1> DEFINE o == [conn[c] EXCEPT !.at = "create_index"]
           p == [o EXCEPT !.work = NoState]
           q == [p EXCEPT !.read = NoState]
<1>6. conn' = [conn EXCEPT ![c] = q]
  BY DEF CommitMigration, StoreInvariant
<1>7. Slot(conn[c])
  BY <1>1, SlotOf
<1>8. Like(p, conn[c]) /\ p.at = "create_index"
  <2>1. Like(o, conn[c]) /\ o.at = "create_index"
    BY <1>7 DEF Slot, Like
  <2> HIDE DEF o
  <2> QED
    BY <2>1 DEF Slot, Like
<1> HIDE DEF p
<1>9. Like(q, conn[c]) /\ q.at = "create_index"
  BY <1>8 DEF Slot, Like
<1> HIDE DEF q
<1>10. Moves(c, "create_index", q.read, q.accounts_left)
  BY <1>6, <1>9, MovesByLike
<1>11. WorksOn(c)
  BY <1>1, <1>10 DEF WorksOn, PlainSteps
<1> QED
  BY <1>5, <1>11 DEF Worked

LEMMA CreateIndexWorks ==
    ASSUME StoreInvariant, CallsInvariant, NEW c \in Connections, CreateIndex(c)
    PROVE  Worked(c)
<1> DEFINE f == [db EXCEPT !.indexes = @ + 1]
           g == [tables |-> db.tables, versions |-> db.versions,
                 indexes |-> db.indexes + 1, rows |-> db.rows, snapshot |-> db.snapshot]
<1>1. conn[c].at \notin Ended
  BY DEF CreateIndex, Ended
<1>2. \/ Goes(c, "record_version_3") /\ db' = db
      \/ Goes(c, "create_index") /\ db' = f /\ db.indexes # IndexCount
  BY DEF CreateIndex, Runs
<1>3. WorksOn(c)
  BY <1>1, <1>2, GoingWorks DEF PlainSteps
<1>4. f = g
  BY DEF StoreInvariant, FileOK
<1>5. db.indexes # IndexCount => g.snapshot = db.snapshot /\ FileHolds(g)
  BY StoreAssumption DEF CallsInvariant, FileHolds
<1> HIDE DEF f, g
<1> QED
  BY <1>2, <1>3, <1>4, <1>5, SameFile DEF Worked

LEMMA WriteRowsWorks ==
    ASSUME StoreInvariant, CallsInvariant, NEW c \in Connections, WriteRows(c)
    PROVE  Worked(c)
<1> DEFINE copy == [db EXCEPT !.rows = RowsOf(conn[c].state)]
<1>1. CASE ~Fails(c)
  <2>1. /\ conn[c].at = "write_rows" /\ conn[c].at \notin Ended /\ conn[c].at # "idle"
        /\ conn[c] # Idle
    BY DEF WriteRows, Ended, Idle
  <2>2. db' = db /\ Fits(conn[c].state)
    BY <1>1 DEF WriteRows
  <2>3. conn' = [conn EXCEPT ![c].at = "write_snapshot", ![c].work = copy]
    BY <1>1 DEF WriteRows
  <2> HIDE DEF copy
  <2>4. conn' = [conn EXCEPT ![c] = [[conn[c] EXCEPT !.at = "write_snapshot"]
                                       EXCEPT !.work = copy]]
    BY <2>3 DEF StoreInvariant
  <2>5. MovesTo(c, "write_snapshot")
    BY <2>1, <2>4, WorkMoves
  <2>6. conn[c].op = "save"
    BY <2>1 DEF CallsInvariant, CallOK, SavingSteps
  <2>7. WorksOn(c)
    BY <2>1, <2>2, <2>5, <2>6 DEF WorksOn, MovesTo
  <2> QED
    BY <2>2, <2>7, SameFile DEF Worked
<1> QED
  BY <1>1 DEF Worked

LEMMA WriteSnapshotWorks ==
    ASSUME StoreInvariant, CallsInvariant, NEW c \in Connections, WriteSnapshot(c)
    PROVE  Worked(c)
<1> DEFINE s == conn[c].state
<1>1. /\ conn[c].at = "write_snapshot" /\ conn[c].at \notin Ended /\ conn[c].at # "idle"
      /\ conn[c] # Idle /\ db' = db
  BY DEF WriteSnapshot, Ended, Idle
<1>2. conn' = [conn EXCEPT ![c].at = "commit_save", ![c].work.snapshot = s]
  BY DEF WriteSnapshot
<1> HIDE DEF s
<1>3. conn' = [conn EXCEPT ![c] = [[conn[c] EXCEPT !.at = "commit_save"]
                                     EXCEPT !.work = [conn[c].work EXCEPT !.snapshot = s]]]
  <2>1. Slot(conn[c])
    BY <1>1, SlotOf
  <2>2. conn' = [conn EXCEPT ![c] = [[conn[c] EXCEPT !.at = "commit_save"]
                                       EXCEPT !.work.snapshot = s]]
    BY <1>2 DEF StoreInvariant
  <2>3. [[conn[c] EXCEPT !.at = "commit_save"] EXCEPT !.work.snapshot = s] =
        [[conn[c] EXCEPT !.at = "commit_save"]
           EXCEPT !.work = [conn[c].work EXCEPT !.snapshot = s]]
    BY <2>1 DEF Slot
  <2> QED
    BY <2>2, <2>3
<1>4. MovesTo(c, "commit_save")
  BY <1>1, <1>3, WorkMoves
<1>5. conn[c].op = "save" /\ Fits(conn[c].state)
  BY <1>1 DEF CallsInvariant, CallOK, SavingSteps
<1>6. WorksOn(c)
  BY <1>1, <1>4, <1>5 DEF WorksOn, MovesTo
<1> QED
  BY <1>1, <1>6, SameFile DEF Worked

-----------------------------------------------------------------------------
(* Sorting by id.                                                          *)

LEMMA LeastNatural ==
    ASSUME NEW T \in SUBSET Nat, T # {}
    PROVE  \E x \in T : \A y \in T : x <= y
<1> DEFINE Smaller == OpToRel(<, Nat)
<1>1. Smaller = {pair \in Nat \X Nat : pair[1] < pair[2]}
  BY DEF OpToRel
<1>2. IsWellFoundedOn(Smaller, Nat)
  BY NatLessThanWellFounded
<1> HIDE DEF Smaller
<1>3. PICK x \in T : \A y \in T : ~(<<y, x>> \in Smaller)
  BY <1>2, WFMin
<1>4. ASSUME NEW y \in T
      PROVE  x <= y
  <2>1. SUFFICES ASSUME y < x
                 PROVE  FALSE
    OBVIOUS
  <2>2. <<y, x>> \in Nat \X Nat /\ <<y, x>>[1] = y /\ <<y, x>>[2] = x
    OBVIOUS
  <2>3. <<y, x>> \in Smaller
    BY <1>1, <2>1, <2>2, Zenon
  <2> QED
    BY <1>3, <2>3
<1> QED
  BY <1>4

\* Two enumerations of a set in increasing order are equal.
LEMMA OneOrder ==
    ASSUME NEW n \in Nat, NEW S \in SUBSET Nat,
           NEW g \in [1..n -> S], NEW h \in [1..n -> S], Increases(g), Increases(h),
           \A x \in S : \E i \in 1..n : g[i] = x,
           \A x \in S : \E i \in 1..n : h[i] = x
    PROVE  g = h
<1> DEFINE T == {i \in 1..n : g[i] # h[i]}
<1>1. SUFFICES ASSUME T # {} PROVE FALSE
  OBVIOUS
<1>2. T \in SUBSET Nat
  OBVIOUS
<1>3. PICK i \in T : \A j \in T : i <= j
  <2> HIDE DEF T
  <2> QED
    BY <1>1, <1>2, LeastNatural
<1>4. i \in 1..n /\ g[i] # h[i]
  OBVIOUS
<1>5. \A j \in 1..n : j < i => g[j] = h[j]
  BY <1>3, <1>4
<1>6. \A j \in 1..n : g[j] \in S /\ h[j] \in S /\ g[j] \in Nat /\ h[j] \in Nat
  OBVIOUS
<1>7. /\ \A j, k \in 1..n : j < k => g[j] < g[k]
      /\ \A j, k \in 1..n : j < k => h[j] < h[k]
  BY DEF Increases
<1> HIDE DEF T
<1>8. CASE g[i] < h[i]
  <2>1. PICK k \in 1..n : h[k] = g[i]
    BY <1>4, <1>6
  <2>2. k < i
    <3>1. k # i
      BY <1>4, <1>6, <1>8, <2>1
    <3>2. ~(i < k)
      <4>1. i < k => h[i] < h[k]
        BY <1>4, <1>7
      <4> QED
        BY <1>4, <1>6, <1>8, <2>1, <4>1
    <3> QED
      BY <1>4, <3>1, <3>2
  <2>3. g[k] = h[k] /\ g[k] < g[i]
    BY <1>4, <1>5, <1>7, <2>2
  <2> QED
    BY <1>4, <1>6, <2>1, <2>3
<1>9. CASE h[i] < g[i]
  <2>1. PICK k \in 1..n : g[k] = h[i]
    BY <1>4, <1>6
  <2>2. k < i
    <3>1. k # i
      BY <1>4, <1>6, <1>9, <2>1
    <3>2. ~(i < k)
      <4>1. i < k => g[i] < g[k]
        BY <1>4, <1>7
      <4> QED
        BY <1>4, <1>6, <1>9, <2>1, <4>1
    <3> QED
      BY <1>4, <3>1, <3>2
  <2>3. g[k] = h[k] /\ h[k] < h[i]
    BY <1>4, <1>5, <1>7, <2>2
  <2> QED
    BY <1>4, <1>6, <2>1, <2>3
<1> QED
  BY <1>4, <1>6, <1>8, <1>9

\* `ORDER BY id` gives back a sequence that was in order.
LEMMA OrderIsFound ==
    ASSUME NEW h \in Seq(Nat), Increases(h)
    PROVE  OrderedById(ToSet(h)) = h
<1> DEFINE n == Len(h)
           S == ToSet(h)
<1>1. n \in Nat /\ h \in [1..n -> S] /\ S \in SUBSET Nat
  BY DEF ToSet
<1>2. \A x \in S : \E i \in 1..n : h[i] = x
  BY DEF ToSet
<1>3. \A i, j \in 1..n : h[i] = h[j] => i = j
  <2>1. \A i, j \in 1..n : i < j => h[i] < h[j]
    BY <1>1 DEF Increases
  <2>2. \A i \in 1..n : h[i] \in Nat
    BY <1>1
  <2> HIDE DEF n, S
  <2> QED
    BY <1>1, <2>1, <2>2
<1> HIDE DEF n, S
<1>4. Cardinality(S) = n /\ IsFiniteSet(S)
  <2>1. h \in Bijection(1..n, S)
    BY <1>1, <1>2, <1>3 DEF Bijection, Injection, Surjection, IsInjective
  <2>2. ExistsBijection(1..n, S)
    BY <2>1 DEF ExistsBijection
  <2> QED
    BY <1>1, <2>2, FS_CountingElements, FS_NatBijection
<1>5. ASSUME NEW g \in [1..Cardinality(S) -> S], Increases(g)
      PROVE  g = h
  <2>1. g \in [1..n -> S]
    BY <1>4
  <2>2. \A i, j \in 1..n : g[i] = g[j] => i = j
    <3>1. \A i, j \in 1..n : i < j => g[i] < g[j]
      BY <1>5, <2>1 DEF Increases
    <3>2. \A i \in 1..n : g[i] \in Nat
      BY <1>1, <2>1
    <3> QED
      BY <1>1, <3>1, <3>2
  <2>3. g \in Injection(1..n, S)
    BY <2>1, <2>2 DEF Injection, IsInjective
  <2>4. Cardinality(1..n) = n
    BY <1>1, FS_Interval
  <2>5. g \in Surjection(1..n, S)
    BY <1>4, <2>3, <2>4, FS_Injection
  <2>6. \A x \in S : \E i \in 1..n : g[i] = x
    BY <2>5 DEF Surjection
  <2> QED
    BY <1>1, <1>2, <1>5, <2>1, <2>6, OneOrder
<1>6. h \in [1..Cardinality(S) -> S]
  BY <1>1, <1>4
<1>7. OrderedById(S) = h
  BY <1>5, <1>6, Zenon DEF OrderedById
<1> QED
  BY <1>7 DEF S

-----------------------------------------------------------------------------
(* What each statement of a load reads.                                    *)

\* A file with tables has the rows of its snapshot.
LEMMA ReadingFile ==
    ASSUME StoreInvariant, CallsInvariant, NEW c \in Connections, conn[c].at \in ReadingSteps
    PROVE  /\ Slot(conn[c]) /\ conn[c].at # "idle" /\ conn[c] # Idle
           /\ db.rows = RowsOf(db.snapshot)
           /\ conn[c].at \notin Ended =>
                \A s : conn[c].seen = {s} => s = db.snapshot
<1>1. conn[c].at # "idle" /\ conn[c].at \notin Early /\ conn[c] # Idle
  BY DEF ReadingSteps, Early, Idle
<1>2. Slot(conn[c]) /\ "customers" \in db.tables /\ FileOK(db)
  BY <1>1, SlotOf DEF SlotOK
<1>3. db.rows = RowsOf(db.snapshot)
  BY <1>2 DEF FileOK
<1>4. CallOK(conn[c], db.snapshot)
  BY <1>1 DEF CallsInvariant
<1> QED
  BY <1>1, <1>2, <1>3, <1>4 DEF CallOK

LEMMA CountRowsReads ==
    ASSUME StoreInvariant, NEW c \in Connections, CountRows(c)
    PROVE  LET next == IF db.rows = EmptyRows THEN "read_snapshot" ELSE "read_customers"
           IN  /\ conn[c].at = "count_rows" /\ db' = db
               /\ MovesTo(c, next)
<1> DEFINE next == IF db.rows = EmptyRows THEN "read_snapshot" ELSE "read_customers"
<1>1. conn[c].at = "count_rows" /\ conn[c].at # "idle" /\ db' = db /\ Goes(c, next)
  BY DEF CountRows
<1> HIDE DEF next
<1>2. MovesTo(c, next)
  BY <1>1, GoesMoves
<1> QED
  BY <1>1, <1>2 DEF next

LEMMA ReadSnapshotReads ==
    ASSUME StoreInvariant, NEW c \in Connections, ReadSnapshot(c), ~Fails(c)
    PROVE  /\ conn[c].at = "read_snapshot" /\ db' = db
           /\ Moves(c, "loaded", db.snapshot, conn[c].accounts_left)
<1>1. conn[c].at = "read_snapshot" /\ conn[c].at # "idle" /\ db' = db
  BY DEF ReadSnapshot
<1>2. conn' = [conn EXCEPT ![c] = [[conn[c] EXCEPT !.at = "loaded"]
                                     EXCEPT !.read = db.snapshot]]
  BY DEF ReadSnapshot, StoreInvariant
<1> QED
  BY <1>1, <1>2, ReadMoves

LEMMA ReadCustomersReads ==
    ASSUME StoreInvariant, NEW c \in Connections, ReadCustomers(c)
    PROVE  LET read == [customers |-> db.rows.customers, users |-> << >>,
                        accounts |-> << >>, audit |-> << >>]
           IN  /\ conn[c].at = "read_customers" /\ db' = db
               /\ Moves(c, "read_users", read, conn[c].accounts_left)
<1> DEFINE read == [customers |-> db.rows.customers, users |-> << >>,
                    accounts |-> << >>, audit |-> << >>]
<1>1. conn[c].at = "read_customers" /\ conn[c].at # "idle" /\ db' = db
  BY DEF ReadCustomers
<1>2. conn' = [conn EXCEPT ![c].at = "read_users", ![c].read = read]
  BY DEF ReadCustomers
<1> HIDE DEF read
<1>3. conn' = [conn EXCEPT ![c] = [[conn[c] EXCEPT !.at = "read_users"]
                                     EXCEPT !.read = read]]
  BY <1>2 DEF StoreInvariant
<1>4. Moves(c, "read_users", read, conn[c].accounts_left)
  BY <1>1, <1>3, ReadMoves
<1> QED
  BY <1>1, <1>4 DEF read

LEMMA ReadUsersReads ==
    ASSUME StoreInvariant, NEW c \in Connections, ReadUsers(c)
    PROVE  /\ conn[c].at = "read_users" /\ db' = db
           /\ Moves(c, "read_accounts", [conn[c].read EXCEPT !.users = db.rows.users],
                    conn[c].accounts_left)
<1> DEFINE users == db.rows.users
           read == [conn[c].read EXCEPT !.users = users]
           p == [conn[c] EXCEPT !.at = "read_accounts"]
<1>1. conn[c].at = "read_users" /\ conn[c].at # "idle" /\ db' = db
  BY DEF ReadUsers
<1>2. Slot(conn[c])
  BY <1>1, SlotOf
<1>3. conn' = [conn EXCEPT ![c] = [p EXCEPT !.read = [p.read EXCEPT !.users = users]]]
  <2> HIDE DEF users
  <2>1. conn' = [conn EXCEPT ![c].at = "read_accounts", ![c].read.users = users]
    BY DEF ReadUsers, users
  <2> QED
    BY <2>1 DEF StoreInvariant
<1>4. p.read = conn[c].read
  BY <1>2 DEF Slot
<1> HIDE DEF users
<1>5. conn' = [conn EXCEPT ![c] = [p EXCEPT !.read = read]]
  BY <1>3, <1>4
<1> HIDE DEF read
<1>6. Moves(c, "read_accounts", read, conn[c].accounts_left)
  BY <1>1, <1>5, ReadMoves
<1> QED
  BY <1>1, <1>6 DEF read, users

LEMMA ReadAccountsReads ==
    ASSUME StoreInvariant, NEW c \in Connections, ReadAccounts(c)
    PROVE  LET accounts == [a \in DOMAIN db.rows.accounts |->
                              [owner |-> db.rows.accounts[a], transactions |-> << >>]]
           IN  /\ conn[c].at = "read_accounts" /\ db' = db
               /\ Moves(c, "read_transactions", [conn[c].read EXCEPT !.accounts = accounts],
                        DOMAIN db.rows.accounts)
<1> DEFINE accounts == [a \in DOMAIN db.rows.accounts |->
                          [owner |-> db.rows.accounts[a], transactions |-> << >>]]
           left == DOMAIN db.rows.accounts
           p == [conn[c] EXCEPT !.at = "read_transactions"]
           read == [conn[c].read EXCEPT !.accounts = accounts]
           q == [p EXCEPT !.read = read]
           r == [q EXCEPT !.accounts_left = left]
<1>1. conn[c].at = "read_accounts" /\ conn[c].at # "idle" /\ db' = db
  BY DEF ReadAccounts
<1>2. Slot(conn[c])
  BY <1>1, SlotOf
<1>3. Like(p, conn[c]) /\ p.at = "read_transactions" /\ p.read = conn[c].read
  BY <1>2 DEF Slot, Like
<1>4. conn' = [conn EXCEPT ![c] =
                 [[p EXCEPT !.read = [p.read EXCEPT !.accounts = accounts]]
                    EXCEPT !.accounts_left = left]]
  <2> HIDE DEF accounts, left
  <2>1. conn' = [conn EXCEPT ![c].at = "read_transactions", ![c].read.accounts = accounts,
                             ![c].accounts_left = left]
    BY DEF ReadAccounts, accounts, left
  <2> QED
    BY <2>1 DEF StoreInvariant
<1> HIDE DEF accounts, left, p
<1>5. conn' = [conn EXCEPT ![c] = r]
  BY <1>3, <1>4
<1> HIDE DEF read
<1>6. Like(q, p) /\ q.at = "read_transactions" /\ q.read = read
  BY <1>3 DEF Slot, Like
<1> HIDE DEF q
<1>7. /\ Like(r, q) /\ r.at = "read_transactions" /\ r.read = read
      /\ r.accounts_left = left
  BY <1>6 DEF Slot, Like
<1>8. Like(r, conn[c])
  BY <1>3, <1>6, <1>7 DEF Like
<1> HIDE DEF r
<1>9. Moves(c, "read_transactions", read, left)
  BY <1>5, <1>7, <1>8, MovesByLike
<1> QED
  BY <1>1, <1>9 DEF read, accounts, left

LEMMA ReadTransactionsReads ==
    ASSUME StoreInvariant, NEW c \in Connections, ReadTransactions(c)
    PROVE  /\ conn[c].at = "read_transactions" /\ db' = db
           /\ \E a \in conn[c].accounts_left :
                Moves(c, "read_transactions",
                      [conn[c].read EXCEPT !.accounts[a].transactions =
                         OrderedById({id \in DOMAIN db.rows.transactions :
                                        db.rows.transactions[id] = a})],
                      conn[c].accounts_left \ {a})
<1>1. PICK a \in conn[c].accounts_left :
        conn' = [conn EXCEPT
                   ![c].read.accounts[a].transactions =
                      OrderedById({id \in DOMAIN db.rows.transactions :
                                     db.rows.transactions[id] = a}),
                   ![c].accounts_left = @ \ {a}]
  BY DEF ReadTransactions
<1> DEFINE history == OrderedById({id \in DOMAIN db.rows.transactions :
                                     db.rows.transactions[id] = a})
           read == [conn[c].read EXCEPT !.accounts[a].transactions = history]
           q == [conn[c] EXCEPT !.read = read]
           left == conn[c].accounts_left \ {a}
           r == [q EXCEPT !.accounts_left = left]
<1>2. conn[c].at = "read_transactions" /\ conn[c].at # "idle" /\ db' = db
  BY DEF ReadTransactions
<1>3. Slot(conn[c])
  BY <1>2, SlotOf
<1>4. conn' = [conn EXCEPT ![c] = [q EXCEPT !.accounts_left = q.accounts_left \ {a}]]
  <2> HIDE DEF history
  <2>1. conn' = [conn EXCEPT ![c].read.accounts[a].transactions = history,
                             ![c].accounts_left = @ \ {a}]
    BY <1>1 DEF history
  <2> QED
    BY <2>1 DEF StoreInvariant
<1> HIDE DEF history, read
<1>5. /\ Like(q, conn[c]) /\ q.at = "read_transactions" /\ q.read = read
      /\ q.accounts_left = conn[c].accounts_left
  BY <1>2, <1>3 DEF Slot, Like
<1>6. conn' = [conn EXCEPT ![c] = r]
  BY <1>4, <1>5
<1> HIDE DEF q, left
<1>7. /\ Like(r, q) /\ r.at = "read_transactions" /\ r.read = read
      /\ r.accounts_left = left
  BY <1>5 DEF Slot, Like
<1>8. Like(r, conn[c])
  BY <1>5, <1>7 DEF Like
<1> HIDE DEF r
<1>9. Moves(c, "read_transactions", read, left)
  BY <1>6, <1>7, <1>8, MovesByLike
<1> QED
  BY <1>2, <1>9 DEF read, left, history

LEMMA ReadAuditLogReads ==
    ASSUME StoreInvariant, NEW c \in Connections, ReadAuditLog(c)
    PROVE  LET read == [conn[c].read EXCEPT !.audit = OrderedById(db.rows.audit_entries)]
               at == IF Accepted(read) THEN "loaded" ELSE "refused"
           IN  /\ conn[c].at = "read_transactions" /\ conn[c].accounts_left = {} /\ db' = db
               /\ Moves(c, at, read, conn[c].accounts_left)
<1> DEFINE read == [conn[c].read EXCEPT !.audit = OrderedById(db.rows.audit_entries)]
           at == IF Accepted(read) THEN "loaded" ELSE "refused"
<1>1. /\ conn[c].at = "read_transactions" /\ conn[c].at # "idle" /\ db' = db
      /\ conn[c].accounts_left = {}
  BY DEF ReadAuditLog
<1>2. conn' = [conn EXCEPT ![c].at = at, ![c].read = read]
  BY DEF ReadAuditLog
<1> HIDE DEF at, read
<1>3. conn' = [conn EXCEPT ![c] = [[conn[c] EXCEPT !.at = at] EXCEPT !.read = read]]
  BY <1>2 DEF StoreInvariant
<1>4. Moves(c, at, read, conn[c].accounts_left)
  BY <1>1, <1>3, ReadMoves
<1> QED
  BY <1>1, <1>4 DEF at, read

\* A statement of a load.
LoadStatement(c) ==
    \/ CountRows(c) \/ ReadSnapshot(c)
    \/ ReadCustomers(c) \/ ReadUsers(c) \/ ReadAccounts(c) \/ ReadTransactions(c)
    \/ ReadAuditLog(c)

LEMMA LoadStatementReads ==
    ASSUME StoreInvariant, NEW c \in Connections, LoadStatement(c)
    PROVE  Fails(c) \/ ReadsOn(c)
<1>1. CASE CountRows(c)
  <2>1. PICK next \in {"read_snapshot", "read_customers"} :
          conn[c].at = "count_rows" /\ db' = db /\ MovesTo(c, next)
    BY <1>1, CountRowsReads
  <2> QED
    BY <2>1 DEF ReadsOn, MovesTo, ReadingSteps, Ended
<1>2. CASE ReadSnapshot(c)
  BY <1>2, ReadSnapshotReads DEF ReadsOn, ReadingSteps, Ended
<1>3. CASE ReadCustomers(c)
  BY <1>3, ReadCustomersReads DEF ReadsOn, ReadingSteps, Ended
<1>4. CASE ReadUsers(c)
  BY <1>4, ReadUsersReads DEF ReadsOn, ReadingSteps, Ended
<1>5. CASE ReadAccounts(c)
  BY <1>5, ReadAccountsReads DEF ReadsOn, ReadingSteps, Ended
<1>6. CASE ReadTransactions(c)
  BY <1>6, ReadTransactionsReads DEF ReadsOn, ReadingSteps, Ended
<1>7. CASE ReadAuditLog(c)
  <2> DEFINE read == [conn[c].read EXCEPT !.audit = OrderedById(db.rows.audit_entries)]
             at == IF Accepted(read) THEN "loaded" ELSE "refused"
  <2>1. /\ conn[c].at = "read_transactions" /\ db' = db
        /\ Moves(c, at, read, conn[c].accounts_left)
    BY <1>7, ReadAuditLogReads
  <2>2. at \in {"loaded", "refused"}
    OBVIOUS
  <2> HIDE DEF read, at
  <2> QED
    BY <2>1, <2>2 DEF ReadsOn, ReadingSteps, Ended
<1> QED
  BY <1>1, <1>2, <1>3, <1>4, <1>5, <1>6, <1>7 DEF LoadStatement

\* A statement that is neither a commit of a save nor part of a load.
WorkStatement(c) ==
    \/ EnsureMigrationTable(c) \/ CurrentSchemaVersion(c)
    \/ CreateAppState(c) \/ CreateAppMetadata(c) \/ RecordVersion1(c)
    \/ ReadSnapshotToMigrate(c) \/ CreateTables(c) \/ MigrateRows(c) \/ CommitMigration(c)
    \/ CreateIndex(c) \/ RecordVersion3(c)
    \/ WriteRows(c) \/ WriteSnapshot(c)

LEMMA WorkStatementWorks ==
    ASSUME StoreInvariant, CallsInvariant, NEW c \in Connections, WorkStatement(c)
    PROVE  Worked(c)
BY EnsureMigrationTableWorks, CurrentSchemaVersionWorks, MigrationOneWorks,
   ReadSnapshotToMigrateWorks, CreateTablesWorks, MigrateRowsWorks, CommitMigrationWorks,
   CreateIndexWorks, WriteRowsWorks, WriteSnapshotWorks
   DEF WorkStatement

LEMMA StatementCases ==
    ASSUME NEW c, Statement(c)
    PROVE  WorkStatement(c) \/ LoadStatement(c) \/ CommitSave(c)
BY DEF Statement, WorkStatement, LoadStatement

-----------------------------------------------------------------------------
(* Beginning and committing a call.                                        *)

\* A connection that has just been opened.
Opened(op, s) ==
    [at |-> "ensure_migration_table", op |-> op, state |-> s,
     work |-> NoState, read |-> NoState, accounts_left |-> {}, seen |-> {db.snapshot}]

LEMMA OpenBegins ==
    ASSUME StoreInvariant, NEW c \in Connections, NEW op, NEW s, Open(c, op, s)
    PROVE  /\ conn[c] = Idle /\ conn'[c] = Opened(op, s) /\ db' = db
           /\ \A d \in Connections \ {c} : conn'[d] = conn[d]
BY DEF Open, Opened, StoreInvariant

LEMMA OpenKeepsCalls ==
    ASSUME StoreInvariant, CallsInvariant, NEW c \in Connections, NEW op, NEW s,
           Open(c, op, s),
           \/ op \in {"initialize", "load"} /\ s = NoState
           \/ op = "save" /\ s \in States
    PROVE  CallsInvariant'
<1> DEFINE r == Opened(op, s)
<1>1. /\ r.at = "ensure_migration_table" /\ r.op = op /\ r.state = s
      /\ r.seen = {db.snapshot}
  BY DEF Opened
<1>2. conn'[c] = r /\ db' = db /\ \A d \in Connections \ {c} : conn'[d] = conn[d]
  BY OpenBegins
<1>3. IsFiniteSet(r.seen) /\ r.seen # {}
  <2>1. \A x : IsFiniteSet({x})
    BY FS_Singleton
  <2> QED
    BY <1>1, <2>1
<1>4. db.snapshot \in States \cup {NoState} /\ FileHolds(db)
  BY DEF CallsInvariant, FileHolds
<1> HIDE DEF r
<1>5. /\ r.at \notin SavingSteps \cup ReadingSteps \cup {"idle", "done", "commit_migration"}
      /\ r.at \notin {"write_snapshot", "commit_save"}
  BY <1>1 DEF SavingSteps, ReadingSteps
<1>6. /\ r.state \in States \cup {NoState} /\ (r.op = "save" => r.state \in States)
      /\ r.seen \subseteq States \cup {NoState} /\ db.snapshot \in r.seen
  BY <1>1, <1>4
<1>7. CallOK(r, db.snapshot)
  BY <1>3, <1>5, <1>6 DEF CallOK
<1> QED
  BY <1>2, <1>4, <1>7, CallsKept

\* The file has the state that was saved, and who is in a call has seen it.
LEMMA CommitSaveCommits ==
    ASSUME StoreInvariant, CallsInvariant, NEW c \in Connections, CommitSave(c)
    PROVE  LET s == conn[c].state
           IN  /\ conn[c].at = "commit_save" /\ conn[c].op = "save" /\ s \in States /\ Fits(s)
               /\ "customers" \in db.tables
               /\ db' = [tables |-> db.tables, versions |-> db.versions,
                         indexes |-> db.indexes, rows |-> RowsOf(s), snapshot |-> s]
               /\ conn'[c] = Idle
               /\ \A d \in Connections \ {c} :
                    IF conn[d].at \in Ended THEN conn'[d] = conn[d]
                    ELSE /\ Slot(conn[d]) /\ Slot(conn'[d])
                         /\ conn'[d].at = conn[d].at /\ conn'[d].op = conn[d].op
                         /\ conn'[d].state = conn[d].state /\ conn'[d].read = conn[d].read
                         /\ conn'[d].accounts_left = conn[d].accounts_left
                         /\ conn'[d].seen = conn[d].seen \cup {s}
<1>1. /\ conn[c].at = "commit_save" /\ conn[c].at \notin Early /\ conn[c].at # "idle"
      /\ conn[c] # Idle
  BY DEF CommitSave, Early, Idle
<1>2. Slot(conn[c]) /\ SlotOK(conn[c], db) /\ FileOK(db) /\ CallOK(conn[c], db.snapshot)
  BY <1>1, SlotOf DEF CallsInvariant
<1>3. /\ "customers" \in db.tables
      /\ db' = [tables |-> db.tables, versions |-> db.versions, indexes |-> db.indexes,
                rows |-> RowsOf(conn[c].state), snapshot |-> conn[c].state]
  BY <1>1, <1>2 DEF SlotOK, CommitSave
<1>4. conn[c].op = "save" /\ conn[c].state \in States /\ Fits(conn[c].state)
  BY <1>1, <1>2 DEF CallOK, SavingSteps
<1>5. db'.snapshot = conn[c].state
  BY <1>3
<1>6. /\ conn'[c] = Idle
      /\ \A d \in Connections \ {c} :
           conn'[d] = IF conn[d].at \in Ended THEN conn[d]
                      ELSE [conn[d] EXCEPT !.seen = @ \cup {db'.snapshot}]
  BY DEF CommitSave
<1>7. ASSUME NEW d \in Connections \ {c}, conn[d].at \notin Ended
      PROVE  /\ Slot(conn[d]) /\ Slot(conn'[d])
             /\ conn'[d].at = conn[d].at /\ conn'[d].op = conn[d].op
             /\ conn'[d].state = conn[d].state /\ conn'[d].read = conn[d].read
             /\ conn'[d].accounts_left = conn[d].accounts_left
             /\ conn'[d].seen = conn[d].seen \cup {conn[c].state}
  <2> DEFINE S == conn[d].seen \cup {conn[c].state}
             q == [conn[d] EXCEPT !.seen = S]
  <2>1. Slot(conn[d])
    BY <1>7, SlotOf DEF Ended
  <2>2. conn'[d] = q
    BY <1>5, <1>6, <1>7
  <2>3. /\ Slot(q) /\ q.at = conn[d].at /\ q.op = conn[d].op /\ q.state = conn[d].state
        /\ q.read = conn[d].read /\ q.accounts_left = conn[d].accounts_left /\ q.seen = S
    <3> HIDE DEF S
    <3> QED
      BY <2>1 DEF Slot
  <2> HIDE DEF q
  <2> QED
    BY <2>1, <2>2, <2>3
<1> QED
  BY <1>1, <1>3, <1>4, <1>6, <1>7

LEMMA CommitSaveKeepsCalls ==
    ASSUME StoreInvariant, CallsInvariant, NEW c \in Connections, CommitSave(c)
    PROVE  CallsInvariant'
<1> DEFINE s == conn[c].state
<1>1. /\ s \in States /\ Fits(s) /\ "customers" \in db.tables
      /\ db' = [tables |-> db.tables, versions |-> db.versions,
                indexes |-> db.indexes, rows |-> RowsOf(s), snapshot |-> s]
      /\ conn'[c] = Idle
      /\ \A d \in Connections \ {c} :
           IF conn[d].at \in Ended THEN conn'[d] = conn[d]
           ELSE /\ conn'[d].at = conn[d].at /\ conn'[d].op = conn[d].op
                /\ conn'[d].state = conn[d].state /\ conn'[d].read = conn[d].read
                /\ conn'[d].seen = conn[d].seen \cup {s}
  BY CommitSaveCommits
<1> HIDE DEF s
<1>2. FileHolds(db') /\ db'.snapshot = s
  BY <1>1 DEF CallsInvariant, FileHolds
<1>3. ASSUME NEW d \in Connections \ {c}
      PROVE  conn'[d] = Idle \/ CallOK(conn'[d], s)
  <2>1. CASE conn[d] = Idle
    BY <1>1, <2>1 DEF Idle, Ended
  <2>2. CASE conn[d] # Idle /\ conn[d].at \in Ended
    <3>1. CallOK(conn[d], db.snapshot)
      BY <2>2 DEF CallsInvariant
    <3>2. CallOK(conn[d], s)
      BY <2>2, <3>1 DEF CallOK
    <3> QED
      BY <1>1, <2>2, <3>2
  <2>3. CASE conn[d] # Idle /\ conn[d].at \notin Ended
    <3> DEFINE q == conn'[d]
    <3>1. CallOK(conn[d], db.snapshot)
      BY <2>3 DEF CallsInvariant
    <3>2. /\ q.at = conn[d].at /\ q.op = conn[d].op
          /\ q.state = conn[d].state /\ q.read = conn[d].read
          /\ q.seen = conn[d].seen \cup {s}
      BY <1>1, <2>3
    <3>3. IsFiniteSet(conn[d].seen \cup {s})
      BY <3>1, FS_AddElement DEF CallOK
    <3> HIDE DEF q
    <3>4. CallOK(q, s)
      BY <1>1, <3>1, <3>2, <3>3 DEF CallOK
    <3> QED
      BY <3>4 DEF q
  <2> QED
    BY <2>1, <2>2, <2>3
<1>4. ASSUME NEW d \in Connections
      PROVE  conn'[d] = Idle \/ CallOK(conn'[d], db'.snapshot)
  BY <1>1, <1>2, <1>3
<1> QED
  BY <1>2, <1>4 DEF CallsInvariant

LEMMA InitCalls == Init => CallsInvariant
<1> SUFFICES ASSUME Init PROVE CallsInvariant
  OBVIOUS
<1>1. \A c \in Connections : conn[c] = Idle
  BY DEF Init
<1>2. FileHolds(db)
  <2>1. CASE db = Database({}, {}, NoState)
    <3>1. /\ db.tables = {} /\ db.indexes = 0 /\ db.rows = EmptyRows
          /\ db.snapshot = NoState
      BY <2>1 DEF Database
    <3> QED
      BY <3>1, StoreAssumption DEF FileHolds
  <2>2. ASSUME NEW s \in States,
               db = Database({"schema_migrations", "app_state", "app_metadata"}, {1}, s)
        PROVE  FileHolds(db)
    <3>1. /\ db.tables = {"schema_migrations", "app_state", "app_metadata"}
          /\ db.indexes = 0 /\ db.rows = EmptyRows /\ db.snapshot = s
      BY <2>2 DEF Database
    <3>2. "customers" \notin db.tables
      BY <3>1
    <3> QED
      BY <3>1, <3>2, StoreAssumption DEF FileHolds
  <2>3. CASE db = [Database({"schema_migrations", "app_state", "app_metadata", "customers"},
                            1..4, NoState) EXCEPT !.indexes = IndexCount]
    <3>1. /\ db.tables = {"schema_migrations", "app_state", "app_metadata", "customers"}
          /\ db.indexes = IndexCount /\ db.snapshot = NoState
      BY <2>3 DEF Database
    <3> QED
      BY <3>1, StoreAssumption DEF FileHolds
  <2> QED
    BY <2>1, <2>2, <2>3 DEF Init
<1> QED
  BY <1>1, <1>2 DEF CallsInvariant

LEMMA NextKeepsCalls == StoreInvariant /\ CallsInvariant /\ [Next]_vars => CallsInvariant'
<1> SUFFICES ASSUME StoreInvariant, CallsInvariant, [Next]_vars
             PROVE  CallsInvariant'
  OBVIOUS
<1>1. CASE UNCHANGED vars
  BY <1>1 DEF vars, CallsInvariant
<1>2. ASSUME NEW c \in Connections, NEW op \in {"initialize", "load"}, Open(c, op, NoState)
      PROVE  CallsInvariant'
  BY <1>2, OpenKeepsCalls
<1>3. ASSUME NEW c \in Connections, NEW s \in States, Open(c, "save", s)
      PROVE  CallsInvariant'
  BY <1>3, OpenKeepsCalls
<1>4. ASSUME NEW c \in Connections, WorkStatement(c)
      PROVE  CallsInvariant'
  BY <1>4, WorkStatementWorks, FailingKeepsCalls, WorkingKeepsCalls DEF Worked
<1>5. ASSUME NEW c \in Connections, LoadStatement(c)
      PROVE  CallsInvariant'
  BY <1>5, LoadStatementReads, FailingKeepsCalls, ReadingKeepsCalls
<1>6. ASSUME NEW c \in Connections, CommitSave(c)
      PROVE  CallsInvariant'
  BY <1>6, CommitSaveKeepsCalls
<1>7. ASSUME NEW c \in Connections, End(c)
      PROVE  CallsInvariant'
  BY <1>7, FailingKeepsCalls DEF End
<1> QED
  BY <1>1, <1>2, <1>3, <1>4, <1>5, <1>6, <1>7, StatementCases DEF Next

\* What is in the tables fits into the columns.
LEMMA CallsAreTyped == StoreInvariant /\ CallsInvariant => TypeOK
<1> SUFFICES ASSUME StoreInvariant, CallsInvariant PROVE TypeOK
  OBVIOUS
<1>1. FileOK(db) /\ FileHolds(db)
  BY DEF StoreInvariant, CallsInvariant
<1>2. db.versions \subseteq 1..4
  <2>1. PICK v \in 0..4 : db.versions = 1..v
    BY <1>1 DEF FileOK
  <2> QED
    BY <2>1
<1>3. \A id \in DOMAIN db.rows.transactions \cup db.rows.audit_entries : id <= MaxInteger
  <2>1. EmptyRows.transactions = << >> /\ EmptyRows.audit_entries = {} /\ DOMAIN << >> = {}
    BY DEF EmptyRows
  <2>2. CASE db.rows = EmptyRows
    BY <2>1, <2>2
  <2>3. CASE db.rows # EmptyRows
    <3>1. db.rows = RowsOf(db.snapshot)
      BY <1>1, <2>3 DEF FileOK, FileHolds
    <3>2. db.snapshot # NoState
      BY <2>3, <3>1 DEF RowsOf
    <3>3. Fits(db.snapshot)
      BY <1>1, <2>3, <3>2 DEF FileHolds
    <3>4. /\ DOMAIN db.rows.transactions = TransactionIds(db.snapshot)
          /\ db.rows.audit_entries = ToSet(db.snapshot.audit)
      BY <3>1, <3>2 DEF RowsOf
    <3> QED
      BY <3>3, <3>4 DEF Fits
  <2> QED
    BY <2>2, <2>3
<1>4. ASSUME NEW c \in Connections
      PROVE  conn[c] = Idle \/ (conn[c].op \in {"initialize", "save", "load"}
                                /\ conn[c].state \in States \cup {NoState}
                                /\ conn[c].seen \subseteq States \cup {NoState})
  <2>1. CASE conn[c] = Idle
    BY <2>1
  <2>2. CASE conn[c] # Idle
    BY <2>2 DEF CallsInvariant, CallOK, StoreInvariant, SlotOK, Slot, Ops
  <2> QED
    BY <2>1, <2>2
<1> QED
  BY <1>1, <1>2, <1>3, <1>4 DEF TypeOK, FileHolds

-----------------------------------------------------------------------------
(* What has been read.                                                     *)

\* The ids of a table that belong to an account are those of its history.
LEMMA HistoryIsFound ==
    ASSUME NEW s \in States, InOrder(s), NEW a \in DOMAIN s.accounts
    PROVE  OrderedById({id \in DOMAIN RowsOf(s).transactions : RowsOf(s).transactions[id] = a})
             = HistoryOf(s, a)
<1> DEFINE ids == {id \in DOMAIN RowsOf(s).transactions : RowsOf(s).transactions[id] = a}
           OwnerOf(id) == CHOOSE b \in DOMAIN s.accounts : id \in ToSet(HistoryOf(s, b))
<1>1. s # NoState /\ IsState(s) /\ Accepted(s)
  BY StoreAssumption, StatesAssumption
<1>2. RowsOf(s).transactions = [id \in TransactionIds(s) |-> OwnerOf(id)]
  BY <1>1 DEF RowsOf
<1>3. \A b \in DOMAIN s.accounts \ {a} : ToSet(HistoryOf(s, a)) \cap ToSet(HistoryOf(s, b)) = {}
  BY <1>1 DEF Accepted
<1>4. ASSUME NEW id \in TransactionIds(s)
      PROVE  OwnerOf(id) \in DOMAIN s.accounts /\ id \in ToSet(HistoryOf(s, OwnerOf(id)))
  <2>1. \E b \in DOMAIN s.accounts : id \in ToSet(HistoryOf(s, b))
    BY DEF TransactionIds
  <2> QED
    BY <2>1
<1>5. \A id \in ToSet(HistoryOf(s, a)) : id \in TransactionIds(s)
  BY DEF TransactionIds
<1> HIDE DEF OwnerOf
<1>6. ids = {id \in TransactionIds(s) : OwnerOf(id) = a}
  BY <1>2
<1> HIDE DEF ids
<1>7. ASSUME NEW id \in ids
      PROVE  id \in ToSet(HistoryOf(s, a))
  BY <1>4, <1>6
<1>8. ASSUME NEW id \in ToSet(HistoryOf(s, a))
      PROVE  id \in ids
  BY <1>3, <1>4, <1>5, <1>6
<1>9. ids = ToSet(HistoryOf(s, a))
  BY <1>7, <1>8
<1>10. HistoryOf(s, a) \in Seq(Nat) /\ Increases(HistoryOf(s, a))
  BY <1>1 DEF IsState, InOrder
<1>11. OrderedById(ids) = HistoryOf(s, a)
  BY <1>9, <1>10, OrderIsFound
<1> QED
  BY <1>11 DEF ids

LEMMA LogIsFound ==
    ASSUME NEW s \in States, InOrder(s)
    PROVE  OrderedById(RowsOf(s).audit_entries) = s.audit
<1>1. s # NoState /\ s.audit \in Seq(Nat) /\ Increases(s.audit)
  BY StoreAssumption, StatesAssumption DEF IsState, InOrder
<1>2. RowsOf(s).audit_entries = ToSet(s.audit)
  BY <1>1 DEF RowsOf
<1> QED
  BY <1>1, <1>2, OrderIsFound

\* The other tables.
LEMMA RowsAreFound ==
    ASSUME NEW s \in States
    PROVE  /\ RowsOf(s).customers = s.customers
           /\ RowsOf(s).users = s.users
           /\ DOMAIN RowsOf(s).accounts = DOMAIN s.accounts
           /\ \A a \in DOMAIN s.accounts : RowsOf(s).accounts[a] = s.accounts[a].owner
<1>1. s # NoState
  BY StoreAssumption
<1> QED
  BY <1>1 DEF RowsOf

\* One more history has been read.
LEMMA OneMoreRead ==
    ASSUME NEW s, NEW left, NEW a \in DOMAIN s.accounts
    PROVE  [AccountsRead(s, left) EXCEPT ![a].transactions = HistoryOf(s, a)] =
             AccountsRead(s, left \ {a})
<1> DEFINE before == AccountsRead(s, left)
           account == [before[a] EXCEPT !.transactions = HistoryOf(s, a)]
<1>1. before = [b \in DOMAIN s.accounts |->
                  [owner |-> s.accounts[b].owner,
                   transactions |-> IF b \in left THEN << >> ELSE HistoryOf(s, b)]]
  BY DEF AccountsRead
<1>2. account = [owner |-> s.accounts[a].owner, transactions |-> HistoryOf(s, a)]
  BY <1>1
<1>3. [before EXCEPT ![a].transactions = HistoryOf(s, a)] = [before EXCEPT ![a] = account]
  OBVIOUS
<1> HIDE DEF account, before
<1>4. AccountsRead(s, left \ {a}) =
        [b \in DOMAIN s.accounts |->
           [owner |-> s.accounts[b].owner,
            transactions |-> IF b \in left \ {a} THEN << >> ELSE HistoryOf(s, b)]]
  BY DEF AccountsRead
<1>5. [before EXCEPT ![a] = account] = AccountsRead(s, left \ {a})
  BY <1>1, <1>2, <1>4
<1> QED
  BY <1>3, <1>5 DEF before

\* All of them have been read.
LEMMA AllRead ==
    ASSUME NEW s \in States
    PROVE  AccountsRead(s, {}) = s.accounts
BY StatesAssumption DEF AccountsRead, IsState, HistoryOf

-----------------------------------------------------------------------------
(* A step of one connection and the loads of all.                          *)

StatesInOrder == \A s \in States : InOrder(s)

LEMMA LoadsKept ==
    ASSUME LoadsInvariant, NEW c \in Connections,
           conn'[c] = Idle \/ \A s \in States \cup {NoState} :
                                conn'[c].seen = {s} => HasRead(conn'[c], s),
           \A d \in Connections \ {c} : conn'[d] = conn[d]
    PROVE  LoadsInvariant'
<1>1. ASSUME NEW d \in Connections
      PROVE  conn'[d] = Idle \/ \A s \in States \cup {NoState} :
                                  conn'[d].seen = {s} => HasRead(conn'[d], s)
  BY DEF LoadsInvariant
<1> QED
  BY <1>1 DEF LoadsInvariant

\* Where nothing has been read yet.
LEMMA NothingRead ==
    ASSUME NEW r, NEW s,
           r.at \notin ReadingSteps \/ r.at \in {"count_rows", "read_snapshot"}
    PROVE  HasRead(r, s)
BY DEF HasRead, ReadingSteps

LEMMA FailingKeepsLoads ==
    ASSUME StoreInvariant, LoadsInvariant, NEW c \in Connections, Fails(c)
    PROVE  LoadsInvariant'
BY FailsMoves, LoadsKept

LEMMA WorkingKeepsLoads ==
    ASSUME LoadsInvariant, NEW c \in Connections, WorksOn(c)
    PROVE  LoadsInvariant'
<1>1. PICK at, read, left :
        /\ Moves(c, at, read, left)
        /\ at \notin ReadingSteps \/ at = "count_rows"
  BY DEF WorksOn, PlainSteps, ReadingSteps
<1>2. conn'[c].at = at /\ \A d \in Connections \ {c} : conn'[d] = conn[d]
  BY <1>1 DEF Moves
<1>3. \A s : HasRead(conn'[c], s)
  BY <1>1, <1>2, NothingRead
<1> QED
  BY <1>2, <1>3, LoadsKept

LEMMA OpenKeepsLoads ==
    ASSUME StoreInvariant, LoadsInvariant, NEW c \in Connections, NEW op, NEW s, Open(c, op, s)
    PROVE  LoadsInvariant'
<1>1. conn'[c] = Opened(op, s) /\ \A d \in Connections \ {c} : conn'[d] = conn[d]
  BY OpenBegins
<1>2. conn'[c].at = "ensure_migration_table"
  BY <1>1 DEF Opened
<1>3. \A t : HasRead(conn'[c], t)
  BY <1>2, NothingRead DEF ReadingSteps
<1> QED
  BY <1>1, <1>3, LoadsKept

LEMMA CommitSaveKeepsLoads ==
    ASSUME StoreInvariant, CallsInvariant, LoadsInvariant, NEW c \in Connections, CommitSave(c)
    PROVE  LoadsInvariant'
<1> DEFINE s == conn[c].state
<1>1. /\ conn'[c] = Idle
      /\ \A d \in Connections \ {c} :
           IF conn[d].at \in Ended THEN conn'[d] = conn[d]
           ELSE /\ conn'[d].at = conn[d].at /\ conn'[d].read = conn[d].read
                /\ conn'[d].accounts_left = conn[d].accounts_left
                /\ conn'[d].seen = conn[d].seen \cup {s}
  BY CommitSaveCommits
<1> HIDE DEF s
<1>2. ASSUME NEW d \in Connections \ {c}, NEW t \in States \cup {NoState},
             conn'[d] # Idle, conn'[d].seen = {t}
      PROVE  HasRead(conn'[d], t)
  <2>1. CASE conn[d].at \in Ended
    BY <1>1, <1>2, <2>1 DEF LoadsInvariant
  <2>2. CASE conn[d].at \notin Ended
    <3>1. conn[d] # Idle
      BY <2>2 DEF Idle, Ended
    <3>2. conn[d].seen # {}
      BY <3>1 DEF CallsInvariant, CallOK
    <3>3. conn[d].seen = {t}
      BY <1>1, <1>2, <2>2, <3>2
    <3>4. HasRead(conn[d], t)
      BY <3>1, <3>3 DEF LoadsInvariant
    <3> DEFINE q == conn'[d]
    <3>5. /\ q.at = conn[d].at /\ q.read = conn[d].read
          /\ q.accounts_left = conn[d].accounts_left
      BY <1>1, <2>2
    <3> HIDE DEF q
    <3>6. HasRead(q, t)
      BY <3>4, <3>5 DEF HasRead
    <3> QED
      BY <3>6 DEF q
  <2> QED
    BY <2>1, <2>2
<1>3. ASSUME NEW d \in Connections
      PROVE  conn'[d] = Idle \/ \A t \in States \cup {NoState} :
                                  conn'[d].seen = {t} => HasRead(conn'[d], t)
  BY <1>1, <1>2
<1> QED
  BY <1>3 DEF LoadsInvariant

\* It is enough to look at a load that has seen nothing but what the file holds.
LEMMA ReadingKeepsLoads ==
    ASSUME StoreInvariant, CallsInvariant, LoadsInvariant, NEW c \in Connections,
           NEW at, NEW read, NEW left, Moves(c, at, read, left),
           conn[c].at \in ReadingSteps, conn[c].at \notin Ended,
           LET s == db.snapshot
               q == [at |-> at, read |-> read, accounts_left |-> left]
           IN  HasRead(conn[c], s) /\ db.rows = RowsOf(s) /\ s \in States \cup {NoState}
                 => HasRead(q, s)
    PROVE  LoadsInvariant'
<1> DEFINE s == db.snapshot
           q == [at |-> at, read |-> read, accounts_left |-> left]
<1>1. /\ conn'[c].at = at /\ conn'[c].read = read /\ conn'[c].accounts_left = left
      /\ conn'[c].seen = conn[c].seen
      /\ \A d \in Connections \ {c} : conn'[d] = conn[d]
  BY DEF Moves
<1>2. /\ conn[c] # Idle /\ db.rows = RowsOf(s) /\ s \in States \cup {NoState}
      /\ \A t : conn[c].seen = {t} => t = s
  BY ReadingFile DEF CallsInvariant, FileHolds
<1>3. q.at = at /\ q.read = read /\ q.accounts_left = left
  OBVIOUS
<1>4. HasRead(conn[c], s) => HasRead(q, s)
  BY <1>2
<1> HIDE DEF q, s
<1>5. ASSUME NEW t \in States \cup {NoState}, conn'[c].seen = {t}
      PROVE  HasRead(conn'[c], t)
  <2>1. t = s
    BY <1>1, <1>2, <1>5
  <2>2. HasRead(conn[c], s)
    BY <1>1, <1>2, <1>5, <2>1 DEF LoadsInvariant
  <2>3. HasRead(q, s)
    BY <1>4, <2>2
  <2> DEFINE r == conn'[c]
  <2>4. r.at = q.at /\ r.read = q.read /\ r.accounts_left = q.accounts_left
    BY <1>1, <1>3
  <2> HIDE DEF r
  <2>5. HasRead(r, s)
    BY <2>3, <2>4 DEF HasRead
  <2> QED
    BY <2>1, <2>5 DEF r
<1> QED
  BY <1>1, <1>5, LoadsKept

LEMMA CountRowsKeepsLoads ==
    ASSUME StoreInvariant, CallsInvariant, LoadsInvariant, NEW c \in Connections, CountRows(c)
    PROVE  LoadsInvariant'
<1> DEFINE at == IF db.rows = EmptyRows THEN "read_snapshot" ELSE "read_customers"
           read == conn[c].read
           left == conn[c].accounts_left
           q == [at |-> at, read |-> read, accounts_left |-> left]
<1>1. conn[c].at = "count_rows" /\ Moves(c, at, read, left)
  BY CountRowsReads DEF MovesTo
<1>2. ASSUME NEW s, db.rows = RowsOf(s), s \in States \cup {NoState}
      PROVE  HasRead(q, s)
  <2>1. at = "read_snapshot" \/ (at = "read_customers" /\ s \in States)
    BY <1>2 DEF RowsOf
  <2>2. q.at = at
    OBVIOUS
  <2> HIDE DEF at, q
  <2> QED
    BY <2>1, <2>2 DEF HasRead
<1>3. conn[c].at \in ReadingSteps /\ conn[c].at \notin Ended
  BY <1>1 DEF ReadingSteps, Ended
<1> HIDE DEF at, read, left
<1> QED
  BY <1>1, <1>2, <1>3, ReadingKeepsLoads

LEMMA ReadSnapshotKeepsLoads ==
    ASSUME StoreInvariant, CallsInvariant, LoadsInvariant, NEW c \in Connections,
           ReadSnapshot(c), ~Fails(c)
    PROVE  LoadsInvariant'
<1> DEFINE read == db.snapshot
           left == conn[c].accounts_left
           q == [at |-> "loaded", read |-> read, accounts_left |-> left]
<1>1. conn[c].at = "read_snapshot" /\ Moves(c, "loaded", read, left)
  BY ReadSnapshotReads
<1>2. HasRead(q, db.snapshot)
  BY DEF HasRead
<1>3. conn[c].at \in ReadingSteps /\ conn[c].at \notin Ended
  BY <1>1 DEF ReadingSteps, Ended
<1> HIDE DEF read, left
<1> QED
  BY <1>1, <1>2, <1>3, ReadingKeepsLoads

LEMMA ReadCustomersKeepsLoads ==
    ASSUME StoreInvariant, CallsInvariant, LoadsInvariant, NEW c \in Connections,
           ReadCustomers(c)
    PROVE  LoadsInvariant'
<1> DEFINE read == [customers |-> db.rows.customers, users |-> << >>,
                    accounts |-> << >>, audit |-> << >>]
           left == conn[c].accounts_left
           q == [at |-> "read_users", read |-> read, accounts_left |-> left]
<1>1. conn[c].at = "read_customers" /\ Moves(c, "read_users", read, left)
  BY ReadCustomersReads
<1>2. ASSUME NEW s, HasRead(conn[c], s), db.rows = RowsOf(s)
      PROVE  HasRead(q, s)
  <2>1. s \in States
    BY <1>1, <1>2 DEF HasRead
  <2>2. read.customers = s.customers
    BY <1>2, <2>1, RowsAreFound
  <2>3. read = [customers |-> s.customers, users |-> << >>, accounts |-> << >>, audit |-> << >>]
    BY <2>2
  <2> HIDE DEF read
  <2> QED
    BY <2>1, <2>3 DEF HasRead
<1>3. conn[c].at \in ReadingSteps /\ conn[c].at \notin Ended
  BY <1>1 DEF ReadingSteps, Ended
<1> HIDE DEF read, left
<1> QED
  BY <1>1, <1>2, <1>3, ReadingKeepsLoads

LEMMA ReadUsersKeepsLoads ==
    ASSUME StoreInvariant, CallsInvariant, LoadsInvariant, NEW c \in Connections, ReadUsers(c)
    PROVE  LoadsInvariant'
<1> DEFINE read == [conn[c].read EXCEPT !.users = db.rows.users]
           left == conn[c].accounts_left
           q == [at |-> "read_accounts", read |-> read, accounts_left |-> left]
<1>1. conn[c].at = "read_users" /\ Moves(c, "read_accounts", read, left)
  BY ReadUsersReads
<1>2. ASSUME NEW s, HasRead(conn[c], s), db.rows = RowsOf(s)
      PROVE  HasRead(q, s)
  <2>1. /\ s \in States
        /\ conn[c].read = [customers |-> s.customers, users |-> << >>, accounts |-> << >>,
                           audit |-> << >>]
    BY <1>1, <1>2 DEF HasRead
  <2>2. db.rows.users = s.users
    BY <1>2, <2>1, RowsAreFound
  <2>3. read = [customers |-> s.customers, users |-> s.users, accounts |-> << >>,
                audit |-> << >>]
    BY <2>1, <2>2
  <2> HIDE DEF read
  <2> QED
    BY <2>1, <2>3 DEF HasRead
<1>3. conn[c].at \in ReadingSteps /\ conn[c].at \notin Ended
  BY <1>1 DEF ReadingSteps, Ended
<1> HIDE DEF read, left
<1> QED
  BY <1>1, <1>2, <1>3, ReadingKeepsLoads

LEMMA ReadAccountsKeepsLoads ==
    ASSUME StoreInvariant, CallsInvariant, LoadsInvariant, NEW c \in Connections,
           ReadAccounts(c)
    PROVE  LoadsInvariant'
<1> DEFINE accounts == [a \in DOMAIN db.rows.accounts |->
                          [owner |-> db.rows.accounts[a], transactions |-> << >>]]
           read == [conn[c].read EXCEPT !.accounts = accounts]
           left == DOMAIN db.rows.accounts
           q == [at |-> "read_transactions", read |-> read, accounts_left |-> left]
<1>1. conn[c].at = "read_accounts" /\ Moves(c, "read_transactions", read, left)
  BY ReadAccountsReads
<1>2. ASSUME NEW s, HasRead(conn[c], s), db.rows = RowsOf(s)
      PROVE  HasRead(q, s)
  <2>1. /\ s \in States
        /\ conn[c].read = [customers |-> s.customers, users |-> s.users, accounts |-> << >>,
                           audit |-> << >>]
    BY <1>1, <1>2 DEF HasRead
  <2>2. /\ left = DOMAIN s.accounts
        /\ \A a \in DOMAIN s.accounts : db.rows.accounts[a] = s.accounts[a].owner
    BY <1>2, <2>1, RowsAreFound
  <2>3. accounts = AccountsRead(s, left)
    BY <2>2 DEF AccountsRead
  <2> HIDE DEF accounts
  <2>4. read = [customers |-> s.customers, users |-> s.users,
                accounts |-> AccountsRead(s, left), audit |-> << >>]
    <3>1. read = [conn[c].read EXCEPT !.accounts = accounts]
      OBVIOUS
    <3> HIDE DEF read
    <3> QED
      BY <2>1, <2>3, <3>1
  <2> HIDE DEF read, left
  <2>5. q.at = "read_transactions" /\ q.read = read /\ q.accounts_left = left
    OBVIOUS
  <2> HIDE DEF q
  <2> QED
    BY <2>1, <2>2, <2>4, <2>5 DEF HasRead
<1>3. conn[c].at \in ReadingSteps /\ conn[c].at \notin Ended
  BY <1>1 DEF ReadingSteps, Ended
<1> HIDE DEF read, left
<1> QED
  BY <1>1, <1>2, <1>3, ReadingKeepsLoads

LEMMA ReadTransactionsKeepsLoads ==
    ASSUME StatesInOrder, StoreInvariant, CallsInvariant, LoadsInvariant,
           NEW c \in Connections, ReadTransactions(c)
    PROVE  LoadsInvariant'
<1> DEFINE History(a) == OrderedById({id \in DOMAIN db.rows.transactions :
                                        db.rows.transactions[id] = a})
<1>1. PICK a \in conn[c].accounts_left :
        /\ conn[c].at = "read_transactions"
        /\ Moves(c, "read_transactions",
                 [conn[c].read EXCEPT !.accounts[a].transactions = History(a)],
                 conn[c].accounts_left \ {a})
  BY ReadTransactionsReads
<1> DEFINE read == [conn[c].read EXCEPT !.accounts[a].transactions = History(a)]
           left == conn[c].accounts_left \ {a}
           q == [at |-> "read_transactions", read |-> read, accounts_left |-> left]
<1>2. ASSUME NEW s, HasRead(conn[c], s), db.rows = RowsOf(s)
      PROVE  HasRead(q, s)
  <2>1. /\ s \in States /\ conn[c].accounts_left \subseteq DOMAIN s.accounts
        /\ conn[c].read = [customers |-> s.customers, users |-> s.users,
                           accounts |-> AccountsRead(s, conn[c].accounts_left),
                           audit |-> << >>]
    BY <1>1, <1>2 DEF HasRead
  <2>2. History(a) = HistoryOf(s, a)
    BY <1>2, <2>1, HistoryIsFound DEF StatesInOrder
  <2>3. [AccountsRead(s, conn[c].accounts_left) EXCEPT ![a].transactions = HistoryOf(s, a)] =
          AccountsRead(s, left)
    <3> DEFINE remaining == conn[c].accounts_left
    <3>1. a \in DOMAIN s.accounts
      BY <2>1
    <3> HIDE DEF History, read, q, remaining
    <3>2. [AccountsRead(s, remaining) EXCEPT ![a].transactions = HistoryOf(s, a)] =
            AccountsRead(s, remaining \ {a})
      BY <3>1, OneMoreRead
    <3> QED
      BY <3>2 DEF remaining
  <2> HIDE DEF History, left
  <2>4. read = [customers |-> s.customers, users |-> s.users,
                accounts |-> AccountsRead(s, left), audit |-> << >>]
    <3> DEFINE before == AccountsRead(s, conn[c].accounts_left)
               after == AccountsRead(s, left)
               history == HistoryOf(s, a)
    <3>1. read = [conn[c].read EXCEPT !.accounts[a].transactions = history]
      BY <2>2
    <3> HIDE DEF read, before, after, history
    <3>2. /\ conn[c].read = [customers |-> s.customers, users |-> s.users,
                             accounts |-> before, audit |-> << >>]
          /\ [before EXCEPT ![a].transactions = history] = after
      BY <2>1, <2>3 DEF before, after, history
    <3>3. read = [customers |-> s.customers, users |-> s.users,
                  accounts |-> [before EXCEPT ![a].transactions = history], audit |-> << >>]
      BY <3>1, <3>2
    <3> QED
      BY <3>2, <3>3 DEF after
  <2>5. left \subseteq DOMAIN s.accounts
    BY <2>1 DEF left
  <2> HIDE DEF read
  <2>6. q.at = "read_transactions" /\ q.read = read /\ q.accounts_left = left
    OBVIOUS
  <2> HIDE DEF q
  <2> QED
    BY <2>1, <2>4, <2>5, <2>6 DEF HasRead
<1>3. conn[c].at \in ReadingSteps /\ conn[c].at \notin Ended
  BY <1>1 DEF ReadingSteps, Ended
<1>4. Moves(c, "read_transactions", read, left)
  BY <1>1
<1> HIDE DEF read, left
<1> QED
  BY <1>2, <1>3, <1>4, ReadingKeepsLoads

LEMMA ReadAuditLogKeepsLoads ==
    ASSUME StatesInOrder, StoreInvariant, CallsInvariant, LoadsInvariant,
           NEW c \in Connections, ReadAuditLog(c)
    PROVE  LoadsInvariant'
<1> DEFINE log == OrderedById(db.rows.audit_entries)
           read == [conn[c].read EXCEPT !.audit = log]
           at == IF Accepted(read) THEN "loaded" ELSE "refused"
           left == conn[c].accounts_left
           q == [at |-> at, read |-> read, accounts_left |-> left]
<1>1. conn[c].at = "read_transactions" /\ left = {} /\ Moves(c, at, read, left)
  BY ReadAuditLogReads
<1>2. ASSUME NEW s, HasRead(conn[c], s), db.rows = RowsOf(s)
      PROVE  HasRead(q, s)
  <2>1. /\ s \in States
        /\ conn[c].read = [customers |-> s.customers, users |-> s.users,
                           accounts |-> AccountsRead(s, {}), audit |-> << >>]
    BY <1>1, <1>2 DEF HasRead
  <2>2. AccountsRead(s, {}) = s.accounts
    BY <2>1, AllRead
  <2>3. log = s.audit
    BY <1>2, <2>1, LogIsFound DEF StatesInOrder
  <2> HIDE DEF log
  <2>4. read = [customers |-> s.customers, users |-> s.users, accounts |-> s.accounts,
                audit |-> s.audit]
    BY <2>1, <2>2, <2>3
  <2>5. read = s
    <3>1. s = [customers |-> s.customers, users |-> s.users, accounts |-> s.accounts,
               audit |-> s.audit]
      BY <2>1, StatesAssumption DEF IsState
    <3> HIDE DEF read
    <3> QED
      BY <2>4, <3>1
  <2> HIDE DEF read
  <2>6. at = "loaded"
    BY <2>1, <2>5, StatesAssumption
  <2> HIDE DEF at
  <2>7. q.at = "loaded" /\ q.read = s
    BY <2>5, <2>6
  <2> HIDE DEF q
  <2> QED
    BY <2>7 DEF HasRead
<1>3. conn[c].at \in ReadingSteps /\ conn[c].at \notin Ended
  BY <1>1 DEF ReadingSteps, Ended
<1> HIDE DEF read, left, at
<1> QED
  BY <1>1, <1>2, <1>3, ReadingKeepsLoads

LEMMA InitLoads == Init => LoadsInvariant
BY DEF Init, LoadsInvariant

LEMMA NextKeepsLoads ==
    ASSUME StatesInOrder
    PROVE  StoreInvariant /\ CallsInvariant /\ LoadsInvariant /\ [Next]_vars => LoadsInvariant'
<1> SUFFICES ASSUME StoreInvariant, CallsInvariant, LoadsInvariant, [Next]_vars
             PROVE  LoadsInvariant'
  OBVIOUS
<1>1. CASE UNCHANGED vars
  BY <1>1 DEF vars, LoadsInvariant
<1>2. ASSUME NEW c \in Connections, NEW op, NEW s, Open(c, op, s)
      PROVE  LoadsInvariant'
  BY <1>2, OpenKeepsLoads
<1>3. ASSUME NEW c \in Connections, WorkStatement(c)
      PROVE  LoadsInvariant'
  BY <1>3, WorkStatementWorks, FailingKeepsLoads, WorkingKeepsLoads DEF Worked
<1>4. ASSUME NEW c \in Connections, LoadStatement(c)
      PROVE  LoadsInvariant'
  BY <1>4, FailingKeepsLoads, CountRowsKeepsLoads, ReadSnapshotKeepsLoads,
     ReadCustomersKeepsLoads, ReadUsersKeepsLoads, ReadAccountsKeepsLoads,
     ReadTransactionsKeepsLoads, ReadAuditLogKeepsLoads
     DEF LoadStatement
<1>5. ASSUME NEW c \in Connections, CommitSave(c)
      PROVE  LoadsInvariant'
  BY <1>5, CommitSaveKeepsLoads
<1>6. ASSUME NEW c \in Connections, End(c)
      PROVE  LoadsInvariant'
  BY <1>6, FailingKeepsLoads DEF End
<1> QED
  BY <1>1, <1>2, <1>3, <1>4, <1>5, <1>6, StatementCases DEF Next

\* A load that has seen one state has read it.
LEMMA NotOvertaken ==
    ASSUME CallsInvariant, NEW c \in Connections, conn[c] # Idle
    PROVE  /\ \A s : conn[c].seen = {s} => ~Overtaken(c)
           /\ ~Overtaken(c) => \E s \in States \cup {NoState} : conn[c].seen = {s}
<1>1. CallOK(conn[c], db.snapshot)
  BY DEF CallsInvariant
<1> DEFINE S == conn[c].seen
<1>2. IsFiniteSet(S) /\ S # {} /\ S \subseteq States \cup {NoState}
  BY <1>1 DEF CallOK
<1>3. Overtaken(c) <=> Cardinality(S) > 1
  BY DEF Overtaken
<1> HIDE DEF S
<1>4. Cardinality(S) \in Nat /\ Cardinality(S) # 0
  BY <1>2, FS_CardinalityType, FS_EmptySet
<1>5. Cardinality(S) = 1 <=> \E s : S = {s}
  BY <1>2, FS_Singleton
<1>6. Overtaken(c) <=> Cardinality(S) # 1
  BY <1>3, <1>4
<1>7. \A s : S = {s} => ~Overtaken(c)
  BY <1>5, <1>6
<1>8. ~Overtaken(c) => \E s \in States \cup {NoState} : S = {s}
  BY <1>2, <1>5, <1>6
<1> QED
  BY <1>7, <1>8 DEF S

LEMMA LoadsAreExact == CallsInvariant /\ LoadsInvariant => LoadsWhatIsStored
<1> SUFFICES ASSUME CallsInvariant, LoadsInvariant, NEW c \in Connections,
                    conn[c].at \in {"loaded", "refused"}, ~Overtaken(c)
             PROVE  conn[c].at = "loaded" /\ conn[c].read \in conn[c].seen
  BY DEF LoadsWhatIsStored
<1>1. conn[c] # Idle
  BY DEF Idle
<1>2. PICK s \in States \cup {NoState} : conn[c].seen = {s}
  BY <1>1, NotOvertaken
<1>3. HasRead(conn[c], s)
  BY <1>1, <1>2 DEF LoadsInvariant
<1> QED
  BY <1>2, <1>3 DEF HasRead

-----------------------------------------------------------------------------
(* Calls and the file that the store implements.                           *)

\* The call of a connection, from what the connection holds.
CallOf(r) ==
    IF r = Idle \/ r.op = "initialize" \/ r.at = "refused" THEN [op |-> "idle"]
    ELSE IF r.op = "save" THEN [op |-> "save", state |-> r.state]
    ELSE IF r.at = "loaded"
    THEN [op |-> "loaded", state |-> IF Cardinality(r.seen) > 1 THEN NoState ELSE r.read]
    ELSE [op |-> "load", seen |-> r.seen]

LEMMA CallIs ==
    ASSUME CallsInvariant, StoreInvariant, NEW c \in Connections
    PROVE  Call(c) = CallOf(conn[c])
<1>1. conn[c] = Idle \/
        /\ conn[c].op \in {"initialize", "save", "load"}
        /\ conn[c].at \in {"loaded", "refused"} => conn[c].op = "load"
  BY DEF CallsInvariant, CallOK, ReadingSteps, StoreInvariant, SlotOK, Slot, Ops
<1>2. CASE conn[c] = Idle
  BY <1>2, SMT DEF Call, CallOf, Idle
<1>3. CASE conn[c] # Idle /\ (conn[c].op = "initialize" \/ conn[c].at = "refused")
  BY <1>1, <1>3, SMT DEF Call, CallOf
<1>4. CASE conn[c] # Idle /\ conn[c].op = "save" /\ conn[c].at # "refused"
  BY <1>1, <1>4, SMT DEF Call, CallOf
<1>5. CASE conn[c] # Idle /\ conn[c].op = "load" /\ conn[c].at = "loaded"
  BY <1>5, SMT DEF Call, CallOf, Overtaken
<1>6. CASE conn[c] # Idle /\ conn[c].op = "load" /\ conn[c].at \notin {"loaded", "refused"}
  BY <1>6, SMT DEF Call, CallOf
<1> QED
  BY <1>1, <1>2, <1>3, <1>4, <1>5, <1>6

LEMMA CallWillBe ==
    ASSUME CallsInvariant', StoreInvariant', NEW c \in Connections
    PROVE  Call(c)' = CallOf(conn'[c])
<1>1. conn'[c] = Idle \/
        /\ conn'[c].op \in {"initialize", "save", "load"}
        /\ conn'[c].at \in {"loaded", "refused"} => conn'[c].op = "load"
  BY DEF CallsInvariant, CallOK, ReadingSteps, StoreInvariant, SlotOK, Slot, Ops
<1>2. CASE conn'[c] = Idle
  BY <1>2, SMT DEF Call, CallOf, Idle
<1>3. CASE conn'[c] # Idle /\ (conn'[c].op = "initialize" \/ conn'[c].at = "refused")
  BY <1>1, <1>3, SMT DEF Call, CallOf
<1>4. CASE conn'[c] # Idle /\ conn'[c].op = "save" /\ conn'[c].at # "refused"
  BY <1>1, <1>4, SMT DEF Call, CallOf
<1>5. CASE conn'[c] # Idle /\ conn'[c].op = "load" /\ conn'[c].at = "loaded"
  BY <1>5, SMT DEF Call, CallOf, Overtaken
<1>6. CASE conn'[c] # Idle /\ conn'[c].op = "load" /\ conn'[c].at \notin {"loaded", "refused"}
  BY <1>6, SMT DEF Call, CallOf
<1> QED
  BY <1>1, <1>2, <1>3, <1>4, <1>5, <1>6

\* The variable `call` of the file.
Calls == [c \in Connections |-> Call(c)]

\* What a step of one connection is to the file.
LEMMA CallGoes ==
    ASSUME StoreInvariant, CallsInvariant, StoreInvariant', CallsInvariant',
           NEW c \in Connections, \A d \in Connections \ {c} : conn'[d] = conn[d]
    PROVE  /\ Calls[c] = CallOf(conn[c])
           /\ File!Goes(c, CallOf(conn'[c]))
           /\ CallOf(conn'[c]) = CallOf(conn[c]) => Calls' = Calls
<1>1. \A d \in Connections : Call(d) = CallOf(conn[d])
  BY CallIs
<1>2. \A d \in Connections : Call(d)' = CallOf(conn'[d])
  BY CallWillBe
<1>3. Calls = [d \in Connections |-> CallOf(conn[d])]
  BY <1>1 DEF Calls
<1>4. Calls' = [d \in Connections |-> CallOf(conn'[d])]
  BY <1>2 DEF Calls
<1>5. \A d \in Connections \ {c} : CallOf(conn'[d]) = CallOf(conn[d])
  OBVIOUS
<1> DEFINE new == CallOf(conn'[c])
           before == Calls
           after == Calls'
<1>6. after = [before EXCEPT ![c] = new]
  BY <1>3, <1>4, <1>5
<1>7. File!Goes(c, new)
  BY <1>6 DEF File!Goes, Calls
<1>8. Calls[c] = CallOf(conn[c])
  BY <1>3
<1>9. CallOf(conn'[c]) = CallOf(conn[c]) => Calls' = Calls
  BY <1>3, <1>4, <1>5
<1> QED
  BY <1>7, <1>8, <1>9

FileStep == File!Next \/ UNCHANGED <<db.snapshot, Calls>>

LEMMA EndingIsAFileStep ==
    ASSUME StoreInvariant, CallsInvariant, StoreInvariant', CallsInvariant',
           NEW c \in Connections, \A d \in Connections \ {c} : conn'[d] = conn[d],
           CallOf(conn'[c]) = [op |-> "idle"], db'.snapshot = db.snapshot
    PROVE  FileStep
<1>1. CASE CallOf(conn[c]) = [op |-> "idle"]
  BY <1>1, CallGoes DEF FileStep
<1>2. CASE CallOf(conn[c]) # [op |-> "idle"]
  <2>1. Calls[c] # File!Idle /\ File!Goes(c, File!Idle)
    BY <1>2, CallGoes DEF File!Idle
  <2>2. File!End(c)
    BY <2>1 DEF File!End, Calls
  <2> QED
    BY <2>2 DEF FileStep, File!Next
<1> QED
  BY <1>1, <1>2

LEMMA FailingIsAFileStep ==
    ASSUME StoreInvariant, CallsInvariant, StoreInvariant', CallsInvariant',
           NEW c \in Connections, Fails(c)
    PROVE  FileStep
<1>1. /\ conn'[c] = Idle /\ db' = db /\ \A d \in Connections \ {c} : conn'[d] = conn[d]
  BY FailsMoves
<1>2. CallOf(Idle) = [op |-> "idle"]
  BY DEF CallOf
<1> QED
  BY <1>1, <1>2, EndingIsAFileStep

LEMMA OpeningIsAFileStep ==
    ASSUME StoreInvariant, CallsInvariant, StoreInvariant', CallsInvariant',
           NEW c \in Connections, NEW op, NEW s, Open(c, op, s),
           \/ op \in {"initialize", "load"} /\ s = NoState
           \/ op = "save" /\ s \in States
    PROVE  FileStep
<1> DEFINE r == Opened(op, s)
<1>1. /\ conn[c] = Idle /\ conn'[c] = r /\ db' = db
      /\ \A d \in Connections \ {c} : conn'[d] = conn[d]
  BY OpenBegins
<1>2. /\ r.at = "ensure_migration_table" /\ r.op = op /\ r.state = s
      /\ r.seen = {db.snapshot} /\ r # Idle
  BY DEF Opened, Idle
<1> HIDE DEF r
<1>3. CallOf(conn[c]) = File!Idle
  BY <1>1 DEF CallOf, File!Idle
<1>4. Calls[c] = File!Idle /\ File!Goes(c, CallOf(r))
  BY <1>1, <1>3, CallGoes
<1>5. CASE op = "initialize"
  <2>1. CallOf(r) = [op |-> "idle"]
    BY <1>2, <1>5 DEF CallOf
  <2> QED
    BY <1>1, <2>1, EndingIsAFileStep
<1>6. CASE op = "load"
  <2>1. CallOf(r) = [op |-> "load", seen |-> {db.snapshot}]
    BY <1>2, <1>6 DEF CallOf
  <2>2. File!BeginLoad(c)
    BY <1>1, <1>4, <2>1 DEF File!BeginLoad, Calls
  <2> QED
    BY <2>2 DEF FileStep, File!Next
<1>7. CASE op = "save"
  <2>1. CallOf(r) = [op |-> "save", state |-> s]
    BY <1>2, <1>7 DEF CallOf
  <2>2. File!BeginSave(c, s) /\ s \in States
    BY <1>1, <1>4, <1>7, <2>1 DEF File!BeginSave, Calls
  <2> QED
    BY <2>2 DEF FileStep, File!Next
<1> QED
  BY <1>5, <1>6, <1>7

\* Statements before the reading of a load do not show.
LEMMA WorkingIsAFileStep ==
    ASSUME StoreInvariant, CallsInvariant, StoreInvariant', CallsInvariant',
           NEW c \in Connections, WorksOn(c), db'.snapshot = db.snapshot
    PROVE  FileStep
<1>1. PICK at, read, left :
        /\ Moves(c, at, read, left) /\ conn[c].at \notin Ended /\ at \notin {"loaded", "refused"}
  BY DEF WorksOn, PlainSteps
<1> DEFINE p == conn[c]
           q == conn'[c]
<1>2. /\ q.at = at /\ q.op = p.op /\ q.state = p.state /\ q.seen = p.seen
      /\ \A d \in Connections \ {c} : conn'[d] = conn[d]
  BY <1>1 DEF Moves
<1>3. p # Idle /\ q # Idle
  <2>1. p # Idle
    BY <1>1 DEF Idle, Ended
  <2>2. Slot(q) /\ q.op \in Ops
    BY <1>1 DEF Moves, Slot
  <2>3. q # Idle
    BY <1>1, <1>2, <2>2 DEF Slot, Idle, WorksOn, PlainSteps
  <2> QED
    BY <2>1, <2>3
<1>4. p.at \notin {"loaded", "refused"}
  BY <1>1 DEF Ended
<1> HIDE DEF p, q
<1>5. CallOf(q) = CallOf(p)
  BY <1>1, <1>2, <1>3, <1>4 DEF CallOf
<1> QED
  BY <1>2, <1>5, CallGoes DEF FileStep, p, q

LEMMA ReadingIsAFileStep ==
    ASSUME StoreInvariant, CallsInvariant, StoreInvariant', CallsInvariant', LoadsInvariant',
           NEW c \in Connections, ReadsOn(c)
    PROVE  FileStep
<1>1. PICK at, read, left :
        /\ Moves(c, at, read, left) /\ conn[c].at \notin Ended
        /\ conn[c].at \in ReadingSteps /\ at \in ReadingSteps /\ db' = db
  BY DEF ReadsOn
<1> DEFINE p == conn[c]
           q == conn'[c]
           stored == db.snapshot
<1>2. /\ q.at = at /\ q.op = p.op /\ q.seen = p.seen
      /\ \A d \in Connections \ {c} : conn'[d] = conn[d]
  BY <1>1 DEF Moves
<1>3. p # Idle /\ CallOK(p, stored)
  <2>1. p # Idle
    BY <1>1 DEF Idle, Ended
  <2> QED
    BY <2>1 DEF CallsInvariant
<1>4. p.op = "load" /\ p.at \notin {"loaded", "refused"} /\ stored \in p.seen
  BY <1>1, <1>3 DEF CallOK, Ended
<1>5. q # Idle
  BY <1>1, <1>2 DEF Idle, ReadingSteps
<1>6. CallOf(p) = [op |-> "load", seen |-> p.seen]
  BY <1>3, <1>4 DEF CallOf
<1>7. Calls[c] = CallOf(p) /\ File!Goes(c, CallOf(q))
  BY <1>2, CallGoes
<1>8. CASE at = "loaded"
  <2>1. q.seen = {stored} => q.read = stored
    <3>1. LoadsInvariant' /\ stored \in States \cup {NoState}
      BY DEF CallsInvariant, FileHolds
    <3>2. q.seen = {stored} => HasRead(q, stored)
      BY <1>5, <3>1 DEF LoadsInvariant
    <3> QED
      BY <1>2, <1>8, <3>2 DEF HasRead
  <2>2. Cardinality(q.seen) > 1 <=> q.seen # {stored}
    BY <1>2, <1>3, <1>4, NotOvertaken DEF Overtaken
  <2> DEFINE result == IF p.seen = {stored} THEN stored ELSE NoState
  <2>3. CallOf(q) = [op |-> "loaded", state |-> result]
    <3> HIDE DEF p, q, stored
    <3> QED
      BY <1>2, <1>4, <1>5, <1>8, <2>1, <2>2 DEF CallOf
  <2>4. File!EndLoad(c)
    <3>1. Calls[c].op = "load" /\ Calls[c].seen = p.seen
      BY <1>6, <1>7
    <3> QED
      BY <1>1, <1>7, <2>3, <3>1 DEF File!EndLoad, Calls
  <2> QED
    BY <2>4 DEF FileStep, File!Next
<1>9. CASE at = "refused"
  <2>1. CallOf(q) = [op |-> "idle"]
    BY <1>2, <1>9 DEF CallOf
  <2> QED
    BY <1>1, <1>2, <2>1, EndingIsAFileStep
<1>10. CASE at \notin {"loaded", "refused"}
  <2>1. CallOf(q) = CallOf(p)
    <3> HIDE DEF p, q
    <3> QED
      BY <1>2, <1>4, <1>5, <1>6, <1>10 DEF CallOf
  <2> QED
    BY <1>1, <1>2, <2>1, CallGoes DEF FileStep
<1> QED
  BY <1>8, <1>9, <1>10

LEMMA CommittingIsAFileStep ==
    ASSUME StoreInvariant, CallsInvariant, StoreInvariant', CallsInvariant',
           NEW c \in Connections, CommitSave(c)
    PROVE  FileStep
<1> DEFINE s == conn[c].state
<1>1. /\ conn[c].at = "commit_save" /\ conn[c].op = "save" /\ db'.snapshot = s
      /\ conn'[c] = Idle
      /\ \A d \in Connections \ {c} :
           IF conn[d].at \in Ended THEN conn'[d] = conn[d]
           ELSE /\ Slot(conn[d]) /\ Slot(conn'[d])
                /\ conn'[d].at = conn[d].at /\ conn'[d].op = conn[d].op
                /\ conn'[d].state = conn[d].state /\ conn'[d].read = conn[d].read
                /\ conn'[d].seen = conn[d].seen \cup {s}
  BY CommitSaveCommits
<1> HIDE DEF s
<1>2. \A d \in Connections : Calls[d] = CallOf(conn[d])
  BY CallIs DEF Calls
<1>3. Calls' = [d \in Connections |-> CallOf(conn'[d])]
  BY CallWillBe DEF Calls
<1>4. Calls[c].op = "save" /\ Calls[c].state = s
  <2>1. conn[c] # Idle
    BY <1>1 DEF Idle
  <2>2. CallOf(conn[c]) = [op |-> "save", state |-> s]
    BY <1>1, <2>1 DEF CallOf, s
  <2> QED
    BY <1>2, <2>2
<1>5. CallOf(conn'[c]) = [op |-> "idle"]
  BY <1>1 DEF CallOf
<1>6. ASSUME NEW d \in Connections \ {c}
      PROVE  CallOf(conn'[d]) = IF Calls[d].op = "load"
                                THEN [Calls[d] EXCEPT !.seen = @ \cup {s}] ELSE Calls[d]
  <2> DEFINE p == conn[d]
             q == conn'[d]
  <2>1. p = Idle \/ (CallOK(p, db.snapshot) /\ p.op \in Ops)
    BY DEF CallsInvariant, StoreInvariant, SlotOK, Slot
  <2>2. Calls[d] = CallOf(p)
    BY <1>2
  <2>3. CASE p.at \in Ended
    <3>1. q = p
      BY <1>1, <2>3
    <3>2. CallOf(p).op # "load"
      <4> HIDE DEF p
      <4> QED
        BY <2>1, <2>3 DEF CallOf, CallOK, Ended, Ops, ReadingSteps
    <3> QED
      BY <2>2, <3>1, <3>2
  <2>4. CASE p.at \notin Ended
    <3>1. /\ q.at = p.at /\ q.op = p.op /\ q.state = p.state /\ q.seen = p.seen \cup {s}
      BY <1>1, <2>4
    <3>2. p # Idle /\ q # Idle /\ p.at \notin {"loaded", "refused"}
      BY <2>4, <3>1 DEF Idle, Ended
    <3> HIDE DEF p, q
    <3>3. CASE p.op = "load"
      <4>1. CallOf(p) = [op |-> "load", seen |-> p.seen]
        BY <3>2, <3>3 DEF CallOf
      <4>2. CallOf(q) = [op |-> "load", seen |-> p.seen \cup {s}]
        BY <3>1, <3>2, <3>3 DEF CallOf
      <4>3. Calls[d] = [op |-> "load", seen |-> p.seen]
        BY <2>2, <4>1
      <4>4. /\ Calls[d].op = "load"
            /\ [Calls[d] EXCEPT !.seen = @ \cup {s}] =
                 [op |-> "load", seen |-> p.seen \cup {s}]
        BY <4>3
      <4> QED
        BY <4>2, <4>4 DEF q
    <3>4. CASE p.op # "load"
      <4>1. CallOf(q) = CallOf(p) /\ CallOf(p).op # "load"
        BY <2>1, <3>1, <3>2, <3>4 DEF CallOf, Ops
      <4> QED
        BY <2>2, <4>1 DEF q
    <3> QED
      BY <3>3, <3>4
  <2> QED
    BY <2>3, <2>4
<1>7. Calls' = [d \in Connections |->
                  IF d = c THEN File!Idle
                  ELSE IF Calls[d].op = "load" THEN [Calls[d] EXCEPT !.seen = @ \cup {s}]
                  ELSE Calls[d]]
  BY <1>3, <1>5, <1>6 DEF File!Idle
<1>8. File!CommitSave(c)
  BY <1>1, <1>4, <1>7 DEF File!CommitSave, Calls
<1> QED
  BY <1>8 DEF FileStep, File!Next

LEMMA StepIsAFileStep ==
    ASSUME StoreInvariant, CallsInvariant, StoreInvariant', CallsInvariant', LoadsInvariant',
           [Next]_vars
    PROVE  [File!Next]_<<db.snapshot, Calls>>
<1>1. CASE UNCHANGED vars
  BY <1>1 DEF vars, Calls, Call, Overtaken
<1>2. ASSUME NEW c \in Connections, NEW op \in {"initialize", "load"}, Open(c, op, NoState)
      PROVE  FileStep
  BY <1>2, OpeningIsAFileStep
<1>3. ASSUME NEW c \in Connections, NEW s \in States, Open(c, "save", s)
      PROVE  FileStep
  BY <1>3, OpeningIsAFileStep
<1>4. ASSUME NEW c \in Connections, WorkStatement(c)
      PROVE  FileStep
  BY <1>4, WorkStatementWorks, FailingIsAFileStep, WorkingIsAFileStep DEF Worked
<1>5. ASSUME NEW c \in Connections, LoadStatement(c)
      PROVE  FileStep
  BY <1>5, LoadStatementReads, FailingIsAFileStep, ReadingIsAFileStep
<1>6. ASSUME NEW c \in Connections, CommitSave(c)
      PROVE  FileStep
  BY <1>6, CommittingIsAFileStep
<1>7. ASSUME NEW c \in Connections, End(c)
      PROVE  FileStep
  BY <1>7, FailingIsAFileStep DEF End
<1>8. CASE Next
  <2>1. FileStep
    BY <1>2, <1>3, <1>4, <1>5, <1>6, <1>7, <1>8, StatementCases DEF Next
  <2> QED
    BY <2>1 DEF FileStep
<1> QED
  BY <1>1, <1>8

LEMMA FileBegins == Init => File!Init
<1> SUFFICES ASSUME Init PROVE File!Init
  OBVIOUS
<1>1. \A c \in Connections : Call(c) = [op |-> "idle"]
  BY CallIs, InitCalls, InitIsSound DEF Init, CallOf
<1>2. db.snapshot \in States \cup {NoState}
  BY InitCalls DEF CallsInvariant, FileHolds
<1> QED
  BY <1>1, <1>2 DEF File!Init, File!Idle

-----------------------------------------------------------------------------
(* Theorems.                                                               *)

\* The inductive invariant: whatever processes do to the file, and wherever
\* they die, the file is sound and every open connection knows what it needs.
THEOREM StoreIsSound == Spec => []StoreInvariant
<1>1. StoreInvariant /\ [Next]_vars => StoreInvariant'
  BY StepIsSound
<1> QED
  BY <1>1, InitIsSound, PTL DEF Spec

\* Tables and snapshot never disagree once there are tables
\* (`run_normalized_state_migration`, `save_app_to_sqlite_file`).
THEOREM TablesAndSnapshotAgree == Spec => []TablesMatchSnapshot
<1>1. StoreInvariant => TablesMatchSnapshot
  BY DEF StoreInvariant, FileOK, TablesMatchSnapshot, HasTable
<1> QED
  BY <1>1, StoreIsSound, PTL

\* The recorded versions are consecutive, and what each of them promises is in
\* the file, at every point at which a process may die (`run_migrations`).
THEOREM MigrationsAreResumable == Spec => []MigrationsResume
<1>1. StoreInvariant => MigrationsResume
  BY DEF StoreInvariant, FileOK, MigrationsResume, HasTable
<1> QED
  BY <1>1, StoreIsSound, PTL

\* What a call relies on, wherever the other processes are: only what fits into
\* the columns is written, and the snapshots it has seen include the one that
\* is in the file (`save_app_to_sqlite_file`, `load_app_from_sqlite_file`).
THEOREM CallsAreSound == Spec => []CallsInvariant
<1>1. StoreInvariant /\ CallsInvariant /\ [Next]_vars => CallsInvariant'
  BY NextKeepsCalls
<1> QED
  BY <1>1, InitCalls, StoreIsSound, PTL DEF Spec

\* No id in a table exceeds the largest value of a column (`u64_to_i64`), and
\* calls and file keep their shapes.
THEOREM TypeCorrect == Spec => []TypeOK
BY CallsAreTyped, StoreIsSound, CallsAreSound, PTL

\* A load that no save overtakes has read what the snapshots that it has seen
\* allow, table by table, if what is saved is in the order of its ids.
THEOREM LoadsAreSound ==
    ASSUME StatesInOrder
    PROVE  Spec => []LoadsInvariant
<1>1. StoreInvariant /\ CallsInvariant /\ LoadsInvariant /\ [Next]_vars => LoadsInvariant'
  BY NextKeepsLoads
<1> QED
  BY <1>1, InitLoads, StoreIsSound, CallsAreSound, PTL DEF Spec

\* A load that no save overtakes is accepted and returns the state of the last
\* save, the order of histories and log included (`load_normalized_app`).
THEOREM LoadsReturnTheSave ==
    ASSUME StatesInOrder
    PROVE  Spec => []LoadsWhatIsStored
BY LoadsAreExact, CallsAreSound, LoadsAreSound, PTL

\* The store implements a file that saves replace at one moment: every
\* statement of a connection is a step of that file, or none.
THEOREM StoreIsAFile ==
    ASSUME StatesInOrder
    PROVE  Spec => SavesAreAtomic
<1>1. StoreInvariant /\ CallsInvariant /\ StoreInvariant' /\ CallsInvariant'
        /\ LoadsInvariant' /\ [Next]_vars
        => [File!Next]_<<db.snapshot, [c \in Connections |-> Call(c)]>>
  <2> SUFFICES ASSUME StoreInvariant, CallsInvariant, StoreInvariant', CallsInvariant',
                      LoadsInvariant', [Next]_vars
               PROVE  [File!Next]_<<db.snapshot, [c \in Connections |-> Call(c)]>>
    OBVIOUS
  <2> QED
    BY StepIsAFileStep DEF Calls
<1> QED
  BY <1>1, FileBegins, StoreIsSound, CallsAreSound, LoadsAreSound, PTL
     DEF Spec, SavesAreAtomic, File!Spec

=============================================================================
