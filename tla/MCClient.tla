------------------------------ MODULE MCClient ------------------------------
(* What the files hold when the client of the TLC runs is started first.   *)
EXTENDS Client

\* An admin, and a customer with a login and an account.
MCSaved ==
    [accounts |->
       [a \in {1} |->
          [status |-> "Active", balance |-> 1, loan_balance |-> 0,
           transactions |-> <<[id |-> 1, kind |-> "AccountCreated", amount |-> 1]>>]],
     owner_id |-> [a \in {1} |-> {1}],
     customers |-> {1},
     users |-> [u \in {1, 2} |->
                  IF u = 1 THEN [username |-> u, role |-> "Admin", customer_id |-> {}]
                  ELSE [username |-> u, role |-> "Customer", customer_id |-> {1}]],
     audit_log |-> SetToBag({Entry(1, "CreateAccount")})]

\* The same, edited by hand: the owner of the account is gone.
MCOrphan == [MCSaved EXCEPT !.customers = {}, !.users = [u \in {1} |-> @[u]]]

MCFiles ==
    {[f \in Files |-> IF f = "bank.json" THEN MCSaved ELSE NoFile],
     [f \in Files |-> IF f = "bank.json" THEN MCOrphan ELSE NoFile]}

=============================================================================
