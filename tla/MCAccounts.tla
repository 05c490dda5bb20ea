------------------------------ MODULE MCAccounts ------------------------------
(* Instances of Accounts for TLC. *)
EXTENDS Accounts, TLC

\* The processes of a kind are interchangeable.
ProcessSymmetry ==
    Permutations(Requests) \cup Permutations(Verifies) \cup Permutations(Leavers)
=============================================================================
