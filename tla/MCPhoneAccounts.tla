--------------------------- MODULE MCPhoneAccounts ---------------------------
(***************************************************************************)
(* Small instances of PhoneAccounts for TLC.                               *)
(***************************************************************************)
EXTENDS PhoneAccounts, TLC

Symmetry == Permutations(Users) \cup Permutations(Requests) \cup Permutations(Phones)
=============================================================================
