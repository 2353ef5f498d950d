----------------------------- MODULE MCAccounts -----------------------------
(* Accounts with three requests over two names and two passwords. *)
EXTENDS Accounts, TLC

Symmetry == Permutations(Request) \cup Permutations(Name) \cup Permutations(Password)
=============================================================================
