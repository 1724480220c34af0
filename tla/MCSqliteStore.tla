---------------------------- MODULE MCSqliteStore ----------------------------
(* The states that the TLC runs of SqliteStore save.                       *)
EXTENDS SqliteStore

\* A bank without anything; one with an owned account; the same bank later,
\* with a transfer to a second account and an account holder who signs in.
MCEmpty == [customers |-> {}, users |-> << >>, accounts |-> << >>, audit |-> << >>]

MCEarlier ==
    [customers |-> {1},
     users |-> [u \in {1} |-> {}],
     accounts |-> [a \in {1} |-> [owner |-> {1}, transactions |-> <<1>>]],
     audit |-> <<1>>]

MCLater ==
    [customers |-> {1, 2},
     users |-> [u \in {1, 2} |-> IF u = 1 THEN {} ELSE {2}],
     accounts |-> [a \in {1, 2} |->
                     [owner |-> {a},
                      transactions |-> IF a = 1 THEN <<1, 3>> ELSE <<2, 4>>]],
     audit |-> <<1, 2>>]

\* The log continues one that was loaded with an id too large for a column.
MCTooLarge == [MCEarlier EXCEPT !.audit = <<5, 6>>]

MCStates == {MCEmpty, MCEarlier, MCLater, MCTooLarge}

\* What `LoadsReturnTheSave` and `StoreIsAFile` assume of the states.
ASSUME MCStatesInOrder == \A s \in MCStates : InOrder(s)

MCSymmetry == Permutations(Connections)

=============================================================================
