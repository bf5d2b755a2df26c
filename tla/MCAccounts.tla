----------------------------- MODULE MCAccounts ------------------------------
(***************************************************************************)
(* Instances of Accounts for TLC.                                          *)
(***************************************************************************)
EXTENDS Accounts, TLC

\* Administrators, slots and states are interchangeable.
Symmetry == Permutations(FirstAdmins) \cup Permutations(Slots) \cup Permutations(Keys)
=============================================================================
