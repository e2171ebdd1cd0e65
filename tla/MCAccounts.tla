----------------------------- MODULE MCAccounts -----------------------------
(* Instances of Accounts for TLC: people are interchangeable. *)
EXTENDS Accounts, TLC

Symmetry == Permutations(Requests)
=============================================================================
