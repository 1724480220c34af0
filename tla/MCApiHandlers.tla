---------------------------- MODULE MCApiHandlers ----------------------------
(* The state with which the server of the TLC run starts, and its symmetry. *)
EXTENDS ApiHandlers, TLC

\* An admin has opened an account for the only customer.
MCGiven ==
    [accounts |->
       [a \in {1} |->
          [status |-> "Active", balance |-> 1, loan_balance |-> 0,
           transactions |-> <<[id |-> 1, kind |-> "AccountCreated", amount |-> 1]>>]],
     owner_id |-> [a \in {1} |-> {1}],
     customers |-> {1},
     users |-> [u \in {1} |-> [username |-> u, role |-> "Admin", customer_id |-> {}]],
     audit_log |-> SetToBag({Entry(1, "CreateAccount", <<1>>)})]

MCSymmetry == Permutations(Requests)

=============================================================================
