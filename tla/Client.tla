------------------------------- MODULE Client -------------------------------
(***************************************************************************)
(* The interactive client of src/src/cli.rs with the files it saves to and *)
(* loads from (src/src/storage.rs; of src/src/sqlite_store.rs the contract *)
(* that SqliteStore implements).  One command is one action, for nothing   *)
(* else runs in the process; the process may exit or die at any command,   *)
(* and the next one starts with an empty state.                            *)
(*                                                                         *)
(* Commands that only print are left out.  Of an entry of the audit log    *)
(* the model keeps the actor and what money has moved; any other success,  *)
(* and every failure, is "Other".                                          *)
(***************************************************************************)
EXTENDS App

CONSTANTS
    JsonFiles, SqliteFiles,   \* paths
    GivenFiles,               \* what the files may hold before the first start
    NoFile,                   \* nothing is there
    Partial,                  \* the beginning of a JSON text
    NoSession,
    MaxCommands               \* bound: the commands typed in all

VARIABLES
    session,
    file,                     \* what every file holds
    typed                     \* how many commands have been typed

vars == <<app, session, file, typed>>

Files == JsonFiles \cup SqliteFiles

\* `record_cli_audit`: on behalf of whoever is signed in after the command.
Actor(s) == IF s = NoSession THEN System ELSE s.user

Entry(actor, action) == [actor |-> actor, action |-> action]

Records(action) == Audit(Entry(Actor(session'), action))

\* `authorize`.
May(permission) == session # NoSession /\ Identities!Can(session.role, permission)

MayMoveOn(id) == session # NoSession /\ MayMove(session, id)

KeepsFiles == UNCHANGED file
KeepsBank  == UNCHANGED bank
KeepsIdentities == UNCHANGED identities

\* A command that has changed nothing is in the log: most of those that fail,
\* and the export of the statement.
OnlyRecorded == UNCHANGED <<bank, identities, session, file>> /\ Records("Other")

-----------------------------------------------------------------------------
(* Signing in.                                                             *)

BootstrapAdmin(u) ==
    /\ users = << >>
    /\ Identities!CreateUser(u, u, "Admin", {})
    /\ session' = [user |-> u, role |-> "Admin", customer_id |-> {}]
    /\ Records("Other")
    /\ KeepsBank /\ KeepsFiles

BootstrapFails == users = << >> /\ OnlyRecorded

Login(u) ==
    /\ u \in DOMAIN users
    /\ session' = Identities!SessionOf(u)
    /\ Records("Other")
    /\ KeepsBank /\ KeepsIdentities /\ KeepsFiles

\* The session there is stays.
LoginFails == OnlyRecorded

Logout ==
    /\ session # NoSession
    /\ session' = NoSession
    /\ UNCHANGED <<app, file>>

-----------------------------------------------------------------------------
(* Identities and accounts.                                                *)

CreateCustomer(c) ==
    /\ May("ManageIdentity")
    /\ Identities!CreateCustomer(c)
    /\ UNCHANGED <<bank, session, file>>
    /\ Records("Other")

CreateUser(u, role, c) ==
    /\ May("ManageIdentity")
    /\ Identities!CreateUser(u, u, role, c)
    /\ UNCHANGED <<bank, session, file>>
    /\ Records("Other")

Create(id, owner, opening) ==
    /\ May("ManageAccounts")
    /\ CreateAccount(id, owner, opening)
    /\ UNCHANGED <<identities, session, file>>
    /\ Records("CreateAccount")

\* The fields are not accepted, the id is there already, or ids have run out.
CreationFails ==
    (May("ManageIdentity") \/ May("ManageAccounts")) /\ OnlyRecorded

\* Nothing is recorded about what these do to an account.
ChangeAccount(id) ==
    /\ May("ManageAccounts")
    /\ \/ DeleteAccount(id)
       \/ /\ \/ Ledger!UpdateProfile(id) \/ Ledger!CloseAccount(id)
             \/ Ledger!ActivateAccount(id) \/ Ledger!DeactivateAccount(id)
          /\ UNCHANGED owner_id
    /\ UNCHANGED <<identities, audit_log, session, file>>

-----------------------------------------------------------------------------
(* Money.                                                                  *)

\* `print_bank_result_with_audit`.
RecordsResult(action) ==
    /\ UNCHANGED <<owner_id, identities, session, file>>
    /\ Records(IF Completed THEN action ELSE "Other")

\* The bank refuses the call and stays as it is.
Unmoved == UNCHANGED <<accounts, next_transaction_id>>

Deposit(id, amount) ==
    /\ MayMoveOn(id)
    /\ amount > 0
    /\ Ledger!Deposit(id, amount) \/ (~ENABLED Ledger!Deposit(id, amount) /\ Unmoved)
    /\ RecordsResult("Deposit")

Withdraw(id, amount) ==
    /\ MayMoveOn(id)
    /\ amount > 0
    /\ Ledger!Withdraw(id, amount) \/ (~ENABLED Ledger!Withdraw(id, amount) /\ Unmoved)
    /\ RecordsResult("Withdraw")

Transfer(from, to, amount) ==
    /\ MayMoveOn(from)
    /\ amount > 0
    /\ \/ Ledger!Transfer(from, to, amount)
       \/ ~ENABLED Ledger!Transfer(from, to, amount) /\ Unmoved
    /\ RecordsResult("Transfer")

\* Fees, interest and loans are not recorded either.
MoveUnrecorded(id, amount) ==
    /\ \/ May("MoveMoney") /\ (\/ Ledger!ApplyFee(id, amount)
                               \/ Ledger!ApplyMonthlyFee(amount)
                               \/ Ledger!RequestLoan(id, amount)
                               \/ \E rate \in Rates : Ledger!ApplyInterest(id, rate))
       \/ MayMoveOn(id) /\ Ledger!PayLoan(id, amount)
    /\ UNCHANGED <<owner_id, identities, audit_log, session, file>>

-----------------------------------------------------------------------------
(* Files.                                                                  *)

\* The entry about a save is made after it and so is not in the file.
Save(f) ==
    /\ May("PersistState")
    /\ file' = [file EXCEPT ![f] = Snapshot]
    /\ UNCHANGED <<bank, identities, session>>
    /\ Records("Other")

\* A JSON file is truncated and written in place: what ends the write in
\* between leaves a part of it.  SQLite keeps what there was.
BreaksOff(f) == f \in JsonFiles /\ file' = [file EXCEPT ![f] = Partial]

SaveFails(f) ==
    /\ May("PersistState")
    /\ KeepsFiles \/ BreaksOff(f)
    /\ UNCHANGED <<bank, identities, session>>
    /\ Records("Other")

\* The statement goes to a file of its own.
Export == May("ExportStatements") /\ OnlyRecorded

\* `app_from_json` has the whole of a JSON text.
IsText(s) == s \notin {NoFile, Partial}

MayBeLoaded(s) == IsText(s) /\ Accepts(s)

MayLoad == session = NoSession \/ May("PersistState")

\* The entry about a load is the first of a log that came with the file.
LoadWith(s, kept_session, log) ==
    /\ MayLoad
    /\ IsText(s)
    /\ BuildFrom([s EXCEPT !.audit_log = With(log, Entry(Actor(kept_session), "Other"))])
    /\ session' = kept_session
    /\ KeepsFiles

\* Slip: the session is not ended.
LoadKeepingSession(f) == MayBeLoaded(file[f]) /\ LoadWith(file[f], session, file[f].audit_log)

\* Slip: the log in memory is kept.
LoadKeepingLog(f) == MayBeLoaded(file[f]) /\ LoadWith(file[f], NoSession, audit_log)

\* Slip: the log starts anew, as it does with `from_parts`.
LoadWithoutLog(f) == MayBeLoaded(file[f]) /\ LoadWith(file[f], NoSession, EmptyBag)

\* Slip: what the file says is not validated.
LoadUnvalidated(f) == LoadWith(file[f], NoSession, file[f].audit_log)

\* State, log and session are replaced together, and only by a file that was
\* accepted as a whole.
Load(f) == MayBeLoaded(file[f]) /\ LoadWith(file[f], NoSession, file[f].audit_log)

LoadFails(f) == MayLoad /\ ~MayBeLoaded(file[f]) /\ OnlyRecorded

-----------------------------------------------------------------------------

\* `exit`, or a crash: nothing has been saved but what is in the files.
Restart ==
    /\ BuildFrom(NewState)
    /\ session' = NoSession
    /\ UNCHANGED <<file, typed>>

\* A crash in the middle of a save, with the file truncated.
DieSaving(f) ==
    /\ May("PersistState")
    /\ BreaksOff(f)
    /\ BuildFrom(NewState)
    /\ session' = NoSession

Init ==
    /\ IsBuiltFrom(NewState)
    /\ session = NoSession
    /\ file \in GivenFiles
    /\ typed = 0

Command ==
    \/ BootstrapFails \/ LoginFails \/ Logout \/ CreationFails \/ Export
    \/ \E u \in UserIds :
         \/ BootstrapAdmin(u) \/ Login(u)
         \/ \E role \in Identities!Roles, c \in Identities!OptionalCustomers :
              CreateUser(u, role, c)
    \/ \E c \in CustomerIds : CreateCustomer(c)
    \/ \E id \in AccountIds :
         \/ ChangeAccount(id)
         \/ \E amount \in Amounts :
              \/ \E owner \in Identities!OptionalCustomers : Create(id, owner, amount)
              \/ Deposit(id, amount) \/ Withdraw(id, amount) \/ MoveUnrecorded(id, amount)
              \/ \E to \in AccountIds : Transfer(id, to, amount)
    \/ \E f \in Files : Save(f) \/ SaveFails(f) \/ Load(f) \/ LoadFails(f) \/ DieSaving(f)

Next ==
    \/ typed < MaxCommands /\ typed' = typed + 1 /\ Command
    \/ Restart

Spec == Init /\ [][Next]_vars

-----------------------------------------------------------------------------
(* Properties.                                                             *)

\* Whoever is signed in is a user of the state that is loaded, with the role
\* and the customer that the state has for him.
SessionIsCurrent ==
    session # NoSession =>
      session.user \in DOMAIN users /\ session = Identities!SessionOf(session.user)

NamesUsers(s) ==
    \A entry \in BagToSet(s.audit_log) : entry.actor \in DOMAIN s.users \cup {System}

\* The log and the users belong together, in memory and in every file: an entry
\* is by the system or by a user who is there.
ActorsOnRecord ==
    NamesUsers(Snapshot) /\ \A f \in Files : IsText(file[f]) => NamesUsers(file[f])

\* The action that the log has for what an account records.
ActionOf ==
    [AccountCreated |-> "CreateAccount", Deposit |-> "Deposit", Withdrawal |-> "Withdraw",
     TransferOut |-> "Transfer"]

\* The transactions of a kind that the accounts have, and what the log has.
Made(s, kind) ==
    UNION {{<<a, i>> : i \in {j \in DOMAIN s.accounts[a].transactions :
                                s.accounts[a].transactions[j].kind = kind}} :
           a \in DOMAIN s.accounts}
Audited(s, kind) == CountOf(s.audit_log, LAMBDA entry : entry.action = ActionOf[kind])

TellsOfMoves(s) ==
    HasRoom(s.audit_log) =>
      \A kind \in DOMAIN ActionOf : Cardinality(Made(s, kind)) <= Audited(s, kind)

\* What the client records, it does not forget: until the log is full there is
\* an entry for every transaction of an account that a recorded command has
\* made, in this process or in one that has saved the file.
MovesOnRecord == TellsOfMoves(Snapshot)

\* Whatever has been typed and whatever has been loaded, the state that a save
\* would write is one that a load accepts.
StateReloads == Accepts(Snapshot)

\* What a text says, valid or not: its amounts fit, its users have one of the
\* roles, and its log is about what is in it.
IsSnapshot(s) ==
    /\ s = [accounts |-> s.accounts, owner_id |-> s.owner_id, customers |-> s.customers,
            users |-> s.users, audit_log |-> s.audit_log]
    /\ DOMAIN s.accounts \subseteq AccountIds
    /\ \A a \in DOMAIN s.accounts :
         /\ s.accounts[a] \in Ledger!Account
         /\ s.accounts[a].balance <= MaxCents /\ s.accounts[a].loan_balance <= MaxCents
    /\ s.owner_id \in [DOMAIN s.accounts -> Identities!OptionalCustomers]
    /\ s.customers \subseteq CustomerIds
    /\ DOMAIN s.users \subseteq UserIds /\ s.users \in [DOMAIN s.users -> Identities!User]
    /\ IsABag(s.audit_log) /\ IsFiniteSet(BagToSet(s.audit_log))
    /\ BagCardinality(s.audit_log) <= MaxAuditEntries
    /\ NamesUsers(s) /\ TellsOfMoves(s)

\* The files that are there when the client is started first.
ASSUME FilesAssumption ==
    \A given \in GivenFiles :
      /\ DOMAIN given = Files
      /\ \A f \in Files : IsText(given[f]) => IsSnapshot(given[f])

\* Once a state has been saved to a file, the file holds a state.
SavesLast == [][\A f \in Files : IsText(file[f]) => file[f]' # Partial]_vars

=============================================================================
