----------------------------- MODULE MCIdentity -----------------------------
(* The spellings that the TLC run of Identity types.                       *)
EXTENDS Identity

\* Two names, one of them in two spellings, and one that is too short.
MCSpellings == {"Ana", "ana", "bob", "al"}

MCNormalized == [n \in {"Ana", "ana", "bob"} |-> IF n = "Ana" THEN "ana" ELSE n]

=============================================================================
