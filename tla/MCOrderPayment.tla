--------------------------- MODULE MCOrderPayment ---------------------------
(***************************************************************************)
(* Small instances of OrderPayment for TLC.                                *)
(*                                                                         *)
(* bob invited alice.  The twin orders are the same plan ordered twice by  *)
(* her, so that a receipt fits either; the three orders are a month each   *)
(* for alice and bob, and a lifetime for alice.  The Alipay payment names  *)
(* the second order.                                                       *)
(***************************************************************************)
EXTENDS OrderPayment, TLC

CONSTANTS alice, bob, o1, o2, o3, apple1, huawei1, alipay1

MCPlans == {"monthly", "lifetime"}
MCLifetimePlans == {"lifetime"}
MCPlanLength == [monthly |-> 2]
MCRewardLength == [monthly |-> 1, lifetime |-> 3]

MCUsers == {alice, bob}
MCInviterOf == (alice :> bob) @@ (bob :> NoUser)

TwinOrders == {o1, o2}
TwinOwnerOf == (o1 :> alice) @@ (o2 :> alice)
TwinPlanOf == (o1 :> "monthly") @@ (o2 :> "monthly")

ThreeOrders == {o1, o2, o3}
ThreeOwnerOf == (o1 :> alice) @@ (o2 :> bob) @@ (o3 :> alice)
ThreePlanOf == (o1 :> "monthly") @@ (o2 :> "monthly") @@ (o3 :> "lifetime")

\* apple1 and alipay1 buy a month, huawei1 a lifetime.
Bought == (apple1 :> "monthly") @@ (alipay1 :> "monthly") @@ (huawei1 :> "lifetime")
Gateway == (apple1 :> "apple") @@ (huawei1 :> "huawei") @@ (alipay1 :> "alipay")
AllTxns == {apple1, huawei1, alipay1}
AppleAndAlipay == {apple1, alipay1}

MCChannelOf == [t \in Txns |-> Gateway[t]]
MCPaidPlan == [t \in Txns |-> Bought[t]]
MCPaidOrder == [t \in AlipayTxns |-> o2]
=============================================================================
