---------------------------- MODULE Subscription ----------------------------
(***************************************************************************)
(* The pure membership arithmetic of internal/subscription/extend.go: how  *)
(* a subscriptions row grows when a plan is bought or when days are given  *)
(* away, and the state the API reports for a row.                          *)
(*                                                                         *)
(* A day is a natural number, day 0 being "no expiry date" (no row, or an  *)
(* expires_at that is NULL); every real date is at least 1.  The length of *)
(* a plan is a fixed number of days here.  Go's time.AddDate adds calendar *)
(* months and normalises a day the month does not have (one month after    *)
(* August 31 is October 1), so that real lengths vary by a few days with   *)
(* the date and with the order of two plans: nothing said with this module *)
(* may rest on two extensions commuting.  What callers rely on, that a     *)
(* plan is added to the later of today and the expiry, and is positive,    *)
(* the lengths keep.                                                       *)
(***************************************************************************)
EXTENDS Naturals

CONSTANTS
  Plans,            \* the plan ids that can be bought
  LifetimePlans,    \* those of them that never expire
  PlanLength,       \* the length of each other plan
  RewardLength,     \* what the inviter of a buyer of each plan is given
  LifetimeFrom,     \* the day 2099-01-01: dates from here on read as lifetime
  LifetimeExpiry    \* the day 2099-12-31 written for lifetime rows

ASSUME PlanAssumption ==
  /\ LifetimePlans \subseteq Plans
  /\ PlanLength \in [Plans \ LifetimePlans -> Nat \ {0}]
  /\ RewardLength \in [Plans -> Nat]
  /\ LifetimeFrom \in Nat \ {0}
  /\ LifetimeExpiry \in Nat
  /\ LifetimeFrom <= LifetimeExpiry

-----------------------------------------------------------------------------
Row == [expires : Nat, lifetime : BOOLEAN]

\* No row, or a row without an expiry date.
NoRow == [expires |-> 0, lifetime |-> FALSE]

LifetimeRow == [expires |-> LifetimeExpiry, lifetime |-> TRUE]

\* A row that has not run out keeps its rest; otherwise counting starts today.
Anchor(row, today) == IF row.expires >= today THEN row.expires ELSE today

\* Variant: a lifetime member who buys a month becomes a monthly member.
ExtendForgetful(row, plan, today) ==
  IF plan \in LifetimePlans
  THEN LifetimeRow
  ELSE [expires |-> Anchor(row, today) + PlanLength[plan], lifetime |-> FALSE]

ExtendAfterPayment(row, plan, today) ==
  IF plan \in LifetimePlans \/ row.lifetime
  THEN LifetimeRow
  ELSE [expires |-> Anchor(row, today) + PlanLength[plan], lifetime |-> FALSE]

ExtendByDays(row, days, today) ==
  IF row.lifetime
  THEN LifetimeRow
  ELSE [expires |-> Anchor(row, today) + days, lifetime |-> FALSE]

RowToAPIState(row, today) ==
  IF row.lifetime \/ row.expires >= LifetimeFrom THEN "lifetime"
  ELSE IF row.expires = 0    THEN "none"
  ELSE IF row.expires < today THEN "expired"
  ELSE "active"

IsMember(row, today) == RowToAPIState(row, today) \in {"active", "lifetime"}
=============================================================================
