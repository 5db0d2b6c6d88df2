---------------------------- MODULE MCRedemption ----------------------------
(***************************************************************************)
(* Small instances of Redemption for TLC.  alice is new, bob's membership  *)
(* still runs; c1 is a month and c2 a lifetime; the payment is alice's.    *)
(***************************************************************************)
EXTENDS Redemption

MCUsers == {"alice", "bob"}
MCPlans == {"monthly", "lifetime_vip"}
MCLifetimePlans == {"lifetime_vip"}
MCPlanLength == [monthly |-> 2]
MCRewardLength == [p \in MCPlans |-> 1]
MCFirstRow == [u \in Users |-> IF u = "alice" THEN NoRow
                               ELSE [expires |-> 6, lifetime |-> FALSE]]
MCCodes == {"c1", "c2"}
MCCodePlan == [c1 |-> "monthly", c2 |-> "lifetime_vip"]
OnePayment == {"p1"}
MCPayerOf == [p \in Payments |-> "alice"]
MCPaidFor == [p \in Payments |-> "monthly"]
=============================================================================
