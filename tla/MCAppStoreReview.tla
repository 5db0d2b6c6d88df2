-------------------------- MODULE MCAppStoreReview --------------------------
(***************************************************************************)
(* Small instances of AppStoreReview for TLC: alice's membership runs out  *)
(* the day after today.                                                    *)
(***************************************************************************)
EXTENDS AppStoreReview

MCPlans == {"monthly"}
MCPlanLength == [monthly |-> 2]
MCRewardLength == [monthly |-> 1]
MCFirstRow == [u \in Users |-> [expires |-> 5, lifetime |-> FALSE]]
=============================================================================
