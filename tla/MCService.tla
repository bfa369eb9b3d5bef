------------------------------- MODULE MCService -------------------------------
(***************************************************************************)
(* The service with a few users, stories and secrets.                      *)
(***************************************************************************)
EXTENDS Service, TLC
Symmetric == Permutations(Users) \cup Permutations(Ledgers)
=============================================================================
