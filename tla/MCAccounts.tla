----------------------------- MODULE MCAccounts -----------------------------
(* Small instances of Accounts.                                            *)
EXTENDS Accounts, TLC

Symmetry == Permutations(Users) \cup Permutations(Links)
                \cup Permutations(Invites) \cup Permutations(Requests)
=============================================================================
