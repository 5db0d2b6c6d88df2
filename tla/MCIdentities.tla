---------------------------- MODULE MCIdentities ----------------------------
(***************************************************************************)
(* Small instances of Identities for TLC.  Two WeChat identities, so that  *)
(* an account may have both; the other providers do less of the same.      *)
(***************************************************************************)
EXTENDS Identities, TLC

CONSTANTS w1, w2

MCIdentitySet == {w1, w2}
Symmetry == Permutations(Users) \cup Permutations(Requests) \cup Permutations(MCIdentitySet)
=============================================================================
