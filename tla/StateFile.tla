------------------------------ MODULE StateFile ------------------------------
(***************************************************************************)
(* What a file that holds the application state promises to those who save *)
(* to it and load from it: a save replaces the state at one moment or not  *)
(* at all, and a load that no save overtakes returns the state.  This is   *)
(* the contract of save_app_to_sqlite_file and load_app_from_sqlite_file   *)
(* in src/src/sqlite_store.rs.                                             *)
(***************************************************************************)
CONSTANTS
    Clients,
    States,
    NoState      \* nothing has been saved yet

VARIABLES
    stored,      \* the state in the file
    call         \* per client, the call in progress

Idle == [op |-> "idle"]

Goes(c, next) == call' = [call EXCEPT ![c] = next]

BeginSave(c, s) ==
    /\ call[c] = Idle
    /\ Goes(c, [op |-> "save", state |-> s])
    /\ UNCHANGED stored

\* The moment of a save.  The loads in progress may now see either state.
CommitSave(c) ==
    /\ call[c].op = "save"
    /\ stored' = call[c].state
    /\ call' = [d \in Clients |->
                  IF d = c THEN Idle
                  ELSE IF call[d].op = "load"
                  THEN [call[d] EXCEPT !.seen = @ \cup {stored'}]
                  ELSE call[d]]

BeginLoad(c) ==
    /\ call[c] = Idle
    /\ Goes(c, [op |-> "load", seen |-> {stored}])
    /\ UNCHANGED stored

\* What a load returns that a save has overtaken is left open.
EndLoad(c) ==
    /\ call[c].op = "load"
    /\ Goes(c, [op |-> "loaded",
                state |-> IF call[c].seen = {stored} THEN stored ELSE NoState])
    /\ UNCHANGED stored

\* An error, a crash, or the caller has the result: nothing else happens.
End(c) ==
    /\ call[c] # Idle
    /\ Goes(c, Idle)
    /\ UNCHANGED stored

Init ==
    /\ stored \in States \cup {NoState}
    /\ call = [c \in Clients |-> Idle]

Next ==
    \E c \in Clients :
      \/ \E s \in States : BeginSave(c, s)
      \/ CommitSave(c) \/ BeginLoad(c) \/ EndLoad(c) \/ End(c)

Spec == Init /\ [][Next]_<<stored, call>>

=============================================================================
