----------------------------- MODULE MCReferral -----------------------------
(***************************************************************************)
(* Small instances of Referral for TLC.                                    *)
(***************************************************************************)
EXTENDS Referral, TLC

Symmetry == Permutations(Requests) \cup Permutations(Claims)
=============================================================================
