-------------------------- MODULE MembershipLedger --------------------------
(***************************************************************************)
(* What the payment code promises, with the requests, the calls and the    *)
(* failures left out: a transaction pays one order and an order is paid    *)
(* once; a paid order extends, at most once and in one step, the           *)
(* membership its owner has at that moment; and a credited order extends,  *)
(* at most once and in one step, the membership its owner's inviter has.   *)
(*                                                                         *)
(* The day an extension counts from, when the membership has run out, is   *)
(* one between the payment and now: a handler that works past midnight     *)
(* counts from the day it looked at the clock.                             *)
(***************************************************************************)
EXTENDS Subscription

CONSTANTS Users, Orders, Txns, OwnerOf, PlanOf, InviterOf, NoUser, NoTxn

VARIABLES
  today,
  paidBy, paidAt,   \* the transaction that paid an order, and the day
  subs,
  credited, rewarded

vars == <<today, paidBy, paidAt, subs, credited, rewarded>>

Init ==
  /\ today = 1
  /\ paidBy = [o \in Orders |-> NoTxn]
  /\ paidAt = [o \in Orders |-> 0]
  /\ subs = [u \in Users |-> NoRow]
  /\ credited = {} /\ rewarded = {}

Pay(o, t) ==
  /\ paidBy[o] = NoTxn
  /\ \A p \in Orders : paidBy[p] # t
  /\ paidBy' = [paidBy EXCEPT ![o] = t]
  /\ paidAt' = [paidAt EXCEPT ![o] = today]
  /\ UNCHANGED <<today, subs, credited, rewarded>>

Credit(o) ==
  /\ paidBy[o] # NoTxn /\ o \notin credited
  /\ credited' = credited \cup {o}
  /\ \E day \in paidAt[o] .. today :
       subs' = [subs EXCEPT ![OwnerOf[o]] = ExtendAfterPayment(@, PlanOf[o], day)]
  /\ UNCHANGED <<today, paidBy, paidAt, rewarded>>

Reward(o) ==
  LET inviter == InviterOf[OwnerOf[o]]
      days == RewardLength[PlanOf[o]]
  IN  /\ o \in credited \ rewarded
      /\ inviter # NoUser /\ days > 0
      /\ rewarded' = rewarded \cup {o}
      /\ \E day \in paidAt[o] .. today :
           subs' = [subs EXCEPT ![inviter] = ExtendByDays(@, days, day)]
      /\ UNCHANGED <<today, paidBy, paidAt, credited>>

NextDay ==
  /\ today' = today + 1
  /\ UNCHANGED <<paidBy, paidAt, subs, credited, rewarded>>

Next ==
  \/ \E o \in Orders, t \in Txns : Pay(o, t)
  \/ \E o \in Orders : Credit(o) \/ Reward(o)
  \/ NextDay

Spec == Init /\ [][Next]_vars
=============================================================================
