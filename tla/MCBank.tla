------------------------------- MODULE MCBank -------------------------------
(* The constants of the TLC runs of Bank. *)
EXTENDS BankProperties

\* The amount zero and a negative one are refused by every operation but the
\* creation of an account, which accepts zero.
MCAmounts == -1..2

=============================================================================
