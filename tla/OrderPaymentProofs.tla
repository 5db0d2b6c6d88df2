------------------------- MODULE OrderPaymentProofs -------------------------
(***************************************************************************)
(* Proofs, for any number of users, orders, transactions and concurrent    *)
(* requests, of the safety of OrderPayment.                                *)
(***************************************************************************)
EXTENDS OrderPayment, TLAPS

-----------------------------------------------------------------------------
(***************************************************************************)
(* Membership arithmetic: what Subscription guarantees for every row, plan *)
(* and day.                                                                *)
(***************************************************************************)
\* Buying a plan turns a subscriptions row into a subscriptions row.
LEMMA ExtendAfterPaymentType ==
  ASSUME NEW row \in Row, NEW plan \in Plans, NEW day \in Nat
  PROVE  ExtendAfterPayment(row, plan, day) \in Row
  BY PlanAssumption DEF ExtendAfterPayment, LifetimeRow, Row, Anchor

\* So does a gift of days.
LEMMA ExtendByDaysType ==
  ASSUME NEW row \in Row, NEW days \in Nat, NEW day \in Nat
  PROVE  ExtendByDays(row, days, day) \in Row
  BY PlanAssumption DEF ExtendByDays, LifetimeRow, Row, Anchor

\* Whoever buys a plan is a member at once, whatever the row was
\* (extend.go:18-45, 52-74).
THEOREM BuyerIsMember ==
  ASSUME NEW row \in Row, NEW plan \in Plans, NEW day \in Nat \ {0}
  PROVE  IsMember(ExtendAfterPayment(row, plan, day), day)
<1> DEFINE new == ExtendAfterPayment(row, plan, day)
<1>1. CASE plan \in LifetimePlans \/ row.lifetime
  BY <1>1 DEF ExtendAfterPayment, LifetimeRow, IsMember, RowToAPIState
<1>2. CASE ~(plan \in LifetimePlans \/ row.lifetime)
  <2>1. PlanLength[plan] \in Nat \ {0}
    BY <1>2, PlanAssumption
  <2>2. /\ new.expires = Anchor(row, day) + PlanLength[plan]
        /\ ~new.lifetime
    BY <1>2 DEF ExtendAfterPayment
  <2>3. Anchor(row, day) \in Nat /\ Anchor(row, day) >= day
    BY DEF Anchor, Row
  <2>4. new.expires \in Nat /\ new.expires > day /\ new.expires # 0
    BY <2>1, <2>2, <2>3
  <2>5. new.expires >= LifetimeFrom \/ ~(new.expires < day)
    BY <2>4
  <2> HIDE DEF new
  <2>6. RowToAPIState(new, day) \in {"active", "lifetime"}
    BY <2>4, <2>5 DEF RowToAPIState
  <2>7. QED BY <2>6 DEF IsMember, new
<1>3. QED BY <1>1, <1>2

USE DEF Channels

-----------------------------------------------------------------------------
(***************************************************************************)
(* Type correctness.                                                       *)
(***************************************************************************)
\* The tables are empty and nothing runs: every variable has its type.
LEMMA InitTypeOK == Init => TypeOK
  BY DEF Init, TypeOK, OrderRow, NoRow, Row, Labels, Job

\* What a request may do to its own bookkeeping keeps the types.
LEMMA ReturnType ==
  ASSUME TypeOK, NEW r \in Requests, Return(r)
  PROVE  /\ pc' \in [Requests -> Labels]
         /\ job' \in [Requests -> Job \cup {NoJob}]
         /\ \A s \in Requests : pc'[s] # "idle" => job'[s] \in Job
         /\ newSub' \in [Requests -> Row]
         /\ cancelled' \subseteq Requests
  BY DEF TypeOK, Return, Labels, NoRow, Row

\* A positive answer is about an order and a transaction that exist.
LEMMA AcceptType ==
  ASSUME TypeOK, NEW r \in Requests, pc[r] # "idle", Accept(r)
  PROVE  told' \subseteq Orders /\ acked' \subseteq Txns
  BY DEF TypeOK, Accept, answers, TheOrder, TheTxn, Job

\* A request that goes on keeps the job it has.
LEMMA GotoType ==
  ASSUME TypeOK, NEW r \in Requests, NEW label \in Labels, pc[r] # "idle",
         Goto(r, label)
  PROVE  /\ pc' \in [Requests -> Labels]
         /\ \A s \in Requests : pc'[s] # "idle" => job'[s] \in Job
  BY DEF TypeOK, Goto, Labels

\* Types are inductive together with the one fact they need of a rewarding
\* request, that it has found an inviter: it will write that user's row.
LEMMA NextTypeOK == TypeOK /\ InviterIsKnown /\ [Next]_vars => (TypeOK /\ InviterIsKnown)'
<1> SUFFICES ASSUME TypeOK, InviterIsKnown, [Next]_vars
             PROVE  TypeOK' /\ InviterIsKnown'
  OBVIOUS
<1> USE DEF tables, history, answers, faults
<1> DEFINE Served ==
      /\ pc' \in [Requests -> Labels]
      /\ job' \in [Requests -> Job \cup {NoJob}]
      /\ \A s \in Requests : pc'[s] # "idle" => job'[s] \in Job
      /\ newSub' \in [Requests -> Row]
      /\ cancelled' \subseteq Requests
      /\ told' \subseteq Orders
      /\ acked' \subseteq Txns
      /\ InviterIsKnown'
<1>goto. ASSUME NEW r \in Requests, NEW label \in Labels, pc[r] # "idle",
                Goto(r, label), newSub' \in [Requests -> Row],
                label \in {"readInviter", "upsertInviter", "grantAudit", "insertReward"}
                  => Inviter(r) # NoUser
         PROVE  Served
  <2>1. InviterIsKnown'
    BY <1>goto DEF Goto, InviterIsKnown, TypeOK, Inviter, Owner, TheOrder
  <2>2. QED BY <1>goto, <2>1, GotoType DEF TypeOK, Goto
<1>return. ASSUME NEW r \in Requests, Return(r)
           PROVE  InviterIsKnown'
  BY <1>return DEF Return, InviterIsKnown, TypeOK, Inviter, Owner, TheOrder
<1>refuse. ASSUME NEW r \in Requests, Refuse(r)
           PROVE  Served
  BY <1>refuse, <1>return, ReturnType DEF TypeOK, Refuse
<1>accept. ASSUME NEW r \in Requests, pc[r] # "idle", Accept(r)
           PROVE  Served
  BY <1>accept, <1>return, ReturnType, AcceptType DEF Accept
<1>order. ASSUME NEW r \in Requests, pc[r] # "idle"
          PROVE  /\ TheOrder(r) \in Orders /\ TheTxn(r) \in Txns
                 /\ Owner(r) \in Users /\ Plan(r) \in Plans
                 /\ PaidRow(r) \in OrderRow
                 /\ RewardLength[Plan(r)] \in Nat
                 /\ Inviter(r) # NoUser => Inviter(r) \in Users
  BY <1>order, OrderAssumption, PlanAssumption
     DEF TypeOK, Job, TheOrder, TheTxn, Owner, Plan, Inviter, PaidRow, PaidRows,
         OrderRow
<1>quiet. ASSUME Served, UNCHANGED <<today, tables, purchased, history>>,
                 dbErrors' \in Nat, crashes' \in Nat
          PROVE  TypeOK' /\ InviterIsKnown'
  BY <1>quiet DEF TypeOK
<1>labels. /\ "getByTxn" \in Labels /\ "markPaid" \in Labels
           /\ "reread" \in Labels /\ "readSub" \in Labels
           /\ "upsert" \in Labels /\ "audit" \in Labels
           /\ "findInviter" \in Labels /\ "readInviter" \in Labels
           /\ "upsertInviter" \in Labels /\ "grantAudit" \in Labels
           /\ "insertReward" \in Labels /\ "getOrder" \in Labels
  BY DEF Labels
<1>faults. dbErrors \in Nat /\ crashes \in Nat /\ newSub \in [Requests -> Row]
  BY DEF TypeOK
<1> HIDE DEF Served
<1>1. ASSUME NEW o \in Orders, CreateOrder(o)
      PROVE  TypeOK' /\ InviterIsKnown'
  BY <1>1 DEF CreateOrder, TypeOK, OrderRow, InviterIsKnown, Inviter, Owner, TheOrder
<1>2. ASSUME NEW t \in Txns, Purchase(t)
      PROVE  TypeOK' /\ InviterIsKnown'
  BY <1>2 DEF Purchase, TypeOK, InviterIsKnown, Inviter, Owner, TheOrder
<1>3. ASSUME NEW r \in Requests, NEW u \in Users, NEW o \in Orders,
             NEW t \in Txns, Serve(r, u, o, t)
      PROVE  TypeOK' /\ InviterIsKnown'
  BY <1>3 DEF Serve, TypeOK, Job, Labels, InviterIsKnown, Inviter, Owner, TheOrder
<1>4. ASSUME NextDay
      PROVE  TypeOK' /\ InviterIsKnown'
  BY <1>4 DEF NextDay, TypeOK, InviterIsKnown, Inviter, Owner, TheOrder
<1>5. ASSUME Crash
      PROVE  TypeOK' /\ InviterIsKnown'
  BY <1>5 DEF Crash, TypeOK, Labels, NoRow, Row, InviterIsKnown
<1>6. ASSUME NEW r \in Requests, Handle(r)
      PROVE  TypeOK' /\ InviterIsKnown'
  <2>1. ASSUME VerifyGetOrder(r) PROVE TypeOK' /\ InviterIsKnown'
    <3>1. Served
      BY <2>1, <1>goto, <1>refuse, <1>accept, <1>labels, <1>faults
         DEF VerifyGetOrder, At
    <3>2. QED BY <2>1, <3>1, <1>quiet, <1>faults DEF VerifyGetOrder
  <2>2. ASSUME NotifyGetOrder(r) PROVE TypeOK' /\ InviterIsKnown'
    <3>1. Served
      BY <2>2, <1>goto, <1>refuse, <1>accept, <1>labels, <1>faults
         DEF NotifyGetOrder, At
    <3>2. QED BY <2>2, <3>1, <1>quiet, <1>faults DEF NotifyGetOrder
  <2>3. ASSUME VerifyGetByTxn(r) PROVE TypeOK' /\ InviterIsKnown'
    <3>1. Served
      BY <2>3, <1>goto, <1>refuse, <1>accept, <1>labels, <1>faults
         DEF VerifyGetByTxn, At
    <3>2. QED BY <2>3, <3>1, <1>quiet, <1>faults DEF VerifyGetByTxn
  <2>4. ASSUME NotifyGetByTxn(r) PROVE TypeOK' /\ InviterIsKnown'
    <3>1. Served
      BY <2>4, <1>goto, <1>refuse, <1>accept, <1>labels, <1>faults
         DEF NotifyGetByTxn, At
    <3>2. QED BY <2>4, <3>1, <1>quiet, <1>faults DEF NotifyGetByTxn
  <2>5. ASSUME MarkOrderPaid(r) PROVE TypeOK' /\ InviterIsKnown'
    <3>1. Served
      BY <2>5, <1>goto, <1>labels, <1>faults DEF MarkOrderPaid, At
    <3>2. orders' \in [Orders -> OrderRow]
      BY <2>5, <1>order DEF MarkOrderPaid, At, TypeOK
    <3>3. QED BY <2>5, <3>1, <3>2 DEF MarkOrderPaid, TypeOK, Served
  <2>6. ASSUME RereadOrder(r) PROVE TypeOK' /\ InviterIsKnown'
    <3>1. Served
      BY <2>6, <1>refuse, <1>accept DEF RereadOrder, At
    <3>2. QED BY <2>6, <3>1, <1>quiet, <1>faults DEF RereadOrder
  <2>7. ASSUME ReadSubscription(r) PROVE TypeOK' /\ InviterIsKnown'
    <3>1. ExtendAfterPayment(subs[Owner(r)], Plan(r), today) \in Row
      BY <2>7, <1>order, ExtendAfterPaymentType DEF ReadSubscription, At, TypeOK
    <3>2. Served
      BY <2>7, <3>1, <1>goto, <1>labels, <1>faults DEF ReadSubscription, At
    <3>3. QED BY <2>7, <3>2, <1>quiet, <1>faults DEF ReadSubscription
  <2>8. ASSUME UpsertSubscription(r) PROVE TypeOK' /\ InviterIsKnown'
    <3>1. Served
      BY <2>8, <1>goto, <1>labels, <1>faults DEF UpsertSubscription, At
    <3>2. subs' \in [Users -> Row] /\ credits' \in [Orders -> Nat]
      BY <2>8, <1>order DEF UpsertSubscription, At, TypeOK
    <3>3. QED BY <2>8, <3>1, <3>2 DEF UpsertSubscription, TypeOK, Served
  <2>9. ASSUME InsertRechargeRecord(r) PROVE TypeOK' /\ InviterIsKnown'
    <3>1. Served
      BY <2>9, <1>goto, <1>labels, <1>faults DEF InsertRechargeRecord, At
    <3>2. recharges' \in [Orders -> Nat]
      BY <2>9, <1>order DEF InsertRechargeRecord, At, TypeOK
    <3>3. QED BY <2>9, <3>1, <3>2 DEF InsertRechargeRecord, TypeOK, Served
  <2>10. ASSUME FindInviter(r) PROVE TypeOK' /\ InviterIsKnown'
    <3>1. Served
      BY <2>10, <1>goto, <1>accept, <1>labels, <1>faults DEF FindInviter, At
    <3>2. QED BY <2>10, <3>1, <1>quiet, <1>faults DEF FindInviter
  <2>11. ASSUME ReadInviterSubscription(r) PROVE TypeOK' /\ InviterIsKnown'
    <3>1. Inviter(r) \in Users /\ Inviter(r) # NoUser
      BY <2>11, <1>order DEF ReadInviterSubscription, At, InviterIsKnown
    <3>2. ExtendByDays(subs[Inviter(r)], RewardLength[Plan(r)], today) \in Row
      BY <2>11, <3>1, <1>order, ExtendByDaysType
         DEF ReadInviterSubscription, At, TypeOK
    <3>3. Served
      BY <2>11, <3>1, <3>2, <1>goto, <1>labels, <1>faults
         DEF ReadInviterSubscription, At
    <3>4. QED BY <2>11, <3>3, <1>quiet, <1>faults DEF ReadInviterSubscription
  <2>12. ASSUME UpsertInviterSubscription(r) PROVE TypeOK' /\ InviterIsKnown'
    <3>1. Served
      BY <2>12, <1>goto, <1>labels, <1>faults
         DEF UpsertInviterSubscription, At, InviterIsKnown
    <3>2. subs' \in [Users -> Row] /\ inviterCredits' \in [Orders -> Nat]
      BY <2>12, <1>order DEF UpsertInviterSubscription, At, TypeOK, InviterIsKnown
    <3>3. QED BY <2>12, <3>1, <3>2 DEF UpsertInviterSubscription, TypeOK, Served
  <2>13. ASSUME InsertGrantRecord(r) PROVE TypeOK' /\ InviterIsKnown'
    <3>1. Served
      BY <2>13, <1>goto, <1>labels, <1>faults
         DEF InsertGrantRecord, At, InviterIsKnown
    <3>2. grants' \in [Orders -> Nat]
      BY <2>13, <1>order DEF InsertGrantRecord, At, TypeOK
    <3>3. QED BY <2>13, <3>1, <3>2 DEF InsertGrantRecord, TypeOK, Served
  <2>14. ASSUME InsertRechargeReward(r) PROVE TypeOK' /\ InviterIsKnown'
    <3>1. Served
      BY <2>14, <1>accept DEF InsertRechargeReward, At
    <3>2. rewards' \subseteq Orders
      BY <2>14, <1>order DEF InsertRechargeReward, At, TypeOK
    <3>3. QED BY <2>14, <3>1, <3>2 DEF InsertRechargeReward, TypeOK, Served
  <2>15. QED
    BY <1>6, <2>1, <2>2, <2>3, <2>4, <2>5, <2>6, <2>7, <2>8, <2>9, <2>10, <2>11,
       <2>12, <2>13, <2>14
       DEF Handle, AppleVerifyOrder, HuaweiVerifyOrder, AlipayNotify,
           ExtendQingyuSubscriptionAfterPayment, OnInviteeRechargePaid
<1>7. ASSUME NEW r \in Requests, Fail(r)
      PROVE  TypeOK' /\ InviterIsKnown'
  <2>1. ASSUME CallFails(r) PROVE dbErrors' \in Nat
    BY <2>1, <1>faults DEF CallFails
  <2>2. ASSUME ReadFails(r) PROVE TypeOK' /\ InviterIsKnown'
    <3>1. Served
      BY <2>2, <1>refuse, <1>accept DEF ReadFails
    <3>2. QED BY <2>1, <2>2, <3>1, <1>quiet, <1>faults DEF ReadFails
  <2>3. ASSUME WriteFails(r) PROVE TypeOK' /\ InviterIsKnown'
    <3>1. Served
      BY <2>3, <1>goto, <1>accept, <1>labels, <1>faults
         DEF WriteFails, InviterIsKnown
    <3>2. QED BY <2>1, <2>3, <3>1, <1>quiet, <1>faults DEF WriteFails
  <2>4. ASSUME WriteReplyLost(r) PROVE TypeOK' /\ InviterIsKnown'
    <3>1. Served
      BY <2>4, <1>goto, <1>accept, <1>labels, <1>faults DEF WriteReplyLost
    <3>2. /\ orders' \in [Orders -> OrderRow]
          /\ subs' \in [Users -> Row] /\ inviterCredits' \in [Orders -> Nat]
      BY <2>4, <1>order DEF WriteReplyLost, TypeOK
    <3>3. dbErrors' \in Nat
      BY <2>1, <2>4 DEF WriteReplyLost
    <3>4. QED BY <2>4, <3>1, <3>2, <3>3 DEF WriteReplyLost, TypeOK, Served
  <2>5. ASSUME Disconnect(r) PROVE TypeOK' /\ InviterIsKnown'
    BY <2>5 DEF Disconnect, TypeOK, InviterIsKnown, Inviter, Owner, TheOrder
  <2>6. QED BY <1>7, <2>2, <2>3, <2>4, <2>5 DEF Fail
<1>8. ASSUME UNCHANGED vars
      PROVE  TypeOK' /\ InviterIsKnown'
  BY <1>8 DEF vars, TypeOK, InviterIsKnown, Inviter, Owner, TheOrder
<1>9. ASSUME NEW r \in Requests, NEW t \in Txns, Notify(r, t)
      PROVE  TypeOK' /\ InviterIsKnown'
  BY <1>9, <1>3, OrderAssumption DEF Notify, AlipayTxns
<1>10. QED
  BY <1>1, <1>2, <1>3, <1>4, <1>5, <1>6, <1>7, <1>8, <1>9 DEF Next, PostVerify

\* Every reachable state is well typed: in particular an order row is always
\* one of the three shapes the handlers write, and a live request always has
\* a caller, an order and a transaction.
THEOREM TypeCorrect == Spec => []TypeOK
<1>1. Init => TypeOK /\ InviterIsKnown
  BY InitTypeOK DEF Init, InviterIsKnown
<1>2. QED BY <1>1, NextTypeOK, PTL DEF Spec

-----------------------------------------------------------------------------
(***************************************************************************)
(* The inductive invariant.  Most steps only move one request; the first   *)
(* lemmas say when that keeps the part of the invariant that is not about  *)
(* answers.                                                                *)
(***************************************************************************)
Core ==
  /\ ReceiptsAreChecked /\ PaidIsBacked /\ PurchaseHasOrder
  /\ SoleCreditor /\ CreditorState /\ UntouchedUnlessPaid
  /\ CreditAtMostOnce /\ RewardTrailIsBacked

Answers == AckedIsAlipay /\ AnswersAreTrue

Books == <<orders, grants, rewards, purchased, credits, inviterCredits>>

\* A request that returns takes its token with it.
LEMMA ReturnKeepsCore ==
  ASSUME IInv, NEW r \in Requests, Return(r), UNCHANGED Books
  PROVE  Core'
<1> USE DEF IInv, TypeOK, Return, Books, TheOrder, TheTxn, Channel
<1>1. ReceiptsAreChecked' BY DEF ReceiptsAreChecked, Verified, Plan
<1>2. PaidIsBacked' BY DEF PaidIsBacked
<1>3. PurchaseHasOrder' BY DEF PurchaseHasOrder
<1>4. SoleCreditor' BY DEF SoleCreditor, Crediting
<1>5. CreditorState' BY DEF CreditorState, Crediting
<1>6. UntouchedUnlessPaid' BY DEF UntouchedUnlessPaid
<1>7. CreditAtMostOnce' BY DEF CreditAtMostOnce
<1>8. RewardTrailIsBacked' BY DEF RewardTrailIsBacked
<1>9. QED BY <1>1, <1>2, <1>3, <1>4, <1>5, <1>6, <1>7, <1>8 DEF Core

\* A request that goes on to a label that asks no more of it than the one it
\* leaves.
LEMMA GotoKeepsCore ==
  ASSUME IInv, NEW r \in Requests, NEW label \in Labels, Goto(r, label),
         UNCHANGED Books, pc[r] # "idle",
         label # "getOrder" => Verified(r),
         label \in Crediting => pc[r] \in Crediting,
         label \in BeforeUpsert => pc[r] \in BeforeUpsert,
         label \in BeforeReward => pc[r] \in BeforeReward,
         label \in {"grantAudit", "insertReward"} => pc[r] \in {"grantAudit", "insertReward"},
         label # "grantAudit"
  PROVE  Core'
<1> USE DEF IInv, TypeOK, Goto, Books, TheOrder, TheTxn, Channel
<1>1. ReceiptsAreChecked' BY DEF ReceiptsAreChecked, Verified, Plan
<1>2. PaidIsBacked' BY DEF PaidIsBacked
<1>3. PurchaseHasOrder' BY DEF PurchaseHasOrder
<1>4. SoleCreditor' BY DEF SoleCreditor
<1>5. CreditorState' BY DEF CreditorState
<1>6. UntouchedUnlessPaid' BY DEF UntouchedUnlessPaid
<1>7. CreditAtMostOnce' BY DEF CreditAtMostOnce
<1>8. RewardTrailIsBacked' BY DEF RewardTrailIsBacked
<1>9. QED BY <1>1, <1>2, <1>3, <1>4, <1>5, <1>6, <1>7, <1>8 DEF Core

\* Nothing of the answers changes while the answers and the orders do not.
LEMMA SilenceKeepsAnswers ==
  ASSUME IInv, UNCHANGED answers,
         \A o \in Orders : orders[o].status = "paid" => orders'[o].status = "paid"
  PROVE  Answers'
<1>1. AckedIsAlipay' BY DEF IInv, AckedIsAlipay, answers
<1>2. AnswersAreTrue'
  BY OrderAssumption
     DEF IInv, TypeOK, AnswersAreTrue, AckedIsAlipay, answers
<1>3. QED BY <1>1, <1>2 DEF Answers

\* "paid" is a true answer when it is, and so is "success" to a notification
\* of a payment that was not made.
LEMMA AcceptKeepsAnswers ==
  ASSUME IInv, NEW r \in Requests, pc[r] # "idle", Accept(r), UNCHANGED orders,
         \/ orders[TheOrder(r)].status = "paid"
         \/ Channel(r) = "alipay" /\ TheTxn(r) \notin purchased
  PROVE  Answers'
<1>1. TheOrder(r) \in Orders /\ TheTxn(r) \in Txns
  BY DEF IInv, TypeOK, Job, TheOrder, TheTxn
<1>2. Channel(r) = "alipay" =>
        TheTxn(r) \in AlipayTxns /\ PaidOrder[TheTxn(r)] = TheOrder(r)
  BY <1>1 DEF IInv, ReceiptsAreChecked, Channel, AlipayTxns
<1>3. CASE r \in cancelled
  BY <1>3, SilenceKeepsAnswers DEF Accept
<1>4. CASE r \notin cancelled /\ Channel(r) = "alipay"
  <2>1. /\ told' = told
        /\ acked' = acked \cup ({TheTxn(r)} \cap purchased)
    BY <1>4 DEF Accept
  <2>2. QED
    BY <2>1, <1>2, <1>4 DEF IInv, Answers, AckedIsAlipay, AnswersAreTrue
<1>5. CASE r \notin cancelled /\ Channel(r) # "alipay"
  <2>1. told' = told \cup {TheOrder(r)} /\ acked' = acked
    BY <1>5 DEF Accept
  <2>2. QED
    BY <2>1, <1>1, <1>5 DEF IInv, Answers, AckedIsAlipay, AnswersAreTrue
<1>6. QED BY <1>3, <1>4, <1>5

\* The update that makes an order paid hands its token to the request.
LEMMA MarkPaidKeepsCore ==
  ASSUME IInv, NEW r \in Requests, NEW label \in {"readSub", "reread"},
         pc[r] = "markPaid", Goto(r, label),
         orders[TheOrder(r)].status = "pending",
         orders' = [orders EXCEPT ![TheOrder(r)] = PaidRow(r)],
         UNCHANGED <<grants, rewards, purchased, credits, inviterCredits>>
  PROVE  Core'
<1>0. /\ TheOrder(r) \in Orders /\ TheTxn(r) \in Txns /\ Verified(r)
      /\ Channel(r) = "alipay" => PaidOrder[TheTxn(r)] = TheOrder(r)
  BY DEF IInv, TypeOK, Job, TheOrder, TheTxn, ReceiptsAreChecked
<1>1. \A o \in Orders : orders'[o] = IF o = TheOrder(r) THEN PaidRow(r) ELSE orders[o]
  BY <1>0 DEF IInv, TypeOK
<1>2. /\ credits[TheOrder(r)] = 0 /\ inviterCredits[TheOrder(r)] = 0
      /\ grants[TheOrder(r)] = 0 /\ TheOrder(r) \notin rewards
      /\ \A s \in Requests : pc[s] \in Crediting => TheOrder(s) # TheOrder(r)
  BY <1>0 DEF IInv, UntouchedUnlessPaid, CreditorState
<1>3. /\ job' = job
      /\ \A s \in Requests : pc'[s] = IF s = r THEN label ELSE pc[s]
  BY DEF IInv, TypeOK, Goto
<1> USE DEF IInv, TypeOK, TheOrder, TheTxn, Channel
<1>4. ReceiptsAreChecked' BY <1>3 DEF ReceiptsAreChecked, Verified, Plan
<1>5. PaidIsBacked' BY <1>0, <1>1 DEF PaidIsBacked, PaidRow, Verified, Plan
<1>6. PurchaseHasOrder' BY <1>1, OrderAssumption DEF PurchaseHasOrder, PaidRow, AlipayTxns
<1>7. SoleCreditor' BY <1>2, <1>3 DEF SoleCreditor, Crediting, Labels
<1>8. CreditorState'
  BY <1>0, <1>1, <1>2, <1>3
     DEF CreditorState, PaidRow, Crediting, Labels, BeforeReward, BeforeUpsert
<1>9. UntouchedUnlessPaid' BY <1>1 DEF UntouchedUnlessPaid, PaidRow
<1>10. CreditAtMostOnce' BY DEF CreditAtMostOnce
<1>11. RewardTrailIsBacked' BY DEF RewardTrailIsBacked
<1>12. QED
  BY <1>4, <1>5, <1>6, <1>7, <1>8, <1>9, <1>10, <1>11 DEF Core

\* A request that holds the token of its order is alone in what it writes
\* for the order: whatever it leaves there, on its way to pc'[r], that fits
\* where it goes keeps the invariant.
LEMMA CreditorKeepsCore ==
  ASSUME IInv, NEW r \in Requests, pc[r] \in Crediting,
         \/ job' = job /\ pc'[r] \in Crediting
         \/ Return(r),
         pc' = [pc EXCEPT ![r] = pc'[r]],
         UNCHANGED <<orders, purchased>>,
         \A p \in Orders \ {TheOrder(r)} :
           /\ credits'[p] = credits[p] /\ inviterCredits'[p] = inviterCredits[p]
           /\ grants'[p] = grants[p] /\ (p \in rewards' <=> p \in rewards),
         credits'[TheOrder(r)] \in {0, 1}, inviterCredits'[TheOrder(r)] \in {0, 1},
         grants'[TheOrder(r)] <= inviterCredits'[TheOrder(r)],
         TheOrder(r) \in rewards' => inviterCredits'[TheOrder(r)] = 1,
         pc'[r] \in BeforeUpsert => credits'[TheOrder(r)] = 0,
         pc'[r] \in BeforeReward =>
           /\ inviterCredits'[TheOrder(r)] = 0 /\ grants'[TheOrder(r)] = 0
           /\ TheOrder(r) \notin rewards',
         pc'[r] \in {"grantAudit", "insertReward"} => inviterCredits'[TheOrder(r)] = 1,
         pc'[r] = "grantAudit" => grants'[TheOrder(r)] = 0
  PROVE  Core'
<1> DEFINE o == TheOrder(r)
           label == pc'[r]
<1>0. /\ o \in Orders
      /\ job' # job => label = "idle" /\ job' = [job EXCEPT ![r] = NoJob]
  BY DEF IInv, TypeOK, Job, TheOrder, Crediting, Return
<1>1. \A s \in Requests : s # r =>
        pc'[s] = pc[s] /\ job'[s] = job[s]
        /\ (pc[s] \in Crediting => TheOrder(s) # o)
  BY DEF IInv, TypeOK, Return, SoleCreditor
<1>2. label # "idle" => job'[r] = job[r]
  BY <1>0 DEF IInv, TypeOK
<1>3. orders[o].status = "paid" /\ pc[r] # "idle" /\ pc[r] # "getOrder"
  BY DEF IInv, CreditorState, Crediting
<1> USE DEF IInv, TypeOK, TheOrder, TheTxn, Channel
<1>4. ReceiptsAreChecked'
  BY <1>1, <1>2, <1>3 DEF ReceiptsAreChecked, Verified, Plan
<1>5. PaidIsBacked' BY DEF PaidIsBacked
<1>6. PurchaseHasOrder' BY DEF PurchaseHasOrder
<1>7. SoleCreditor' BY <1>1, <1>2 DEF SoleCreditor, Crediting
<1>8. CreditorState'
  <2>1. ASSUME NEW s \in Requests, s # r, pc'[s] \in Crediting
        PROVE  LET p == TheOrder(s)
               IN  /\ TheOrder(s)' = p /\ pc'[s] = pc[s] /\ pc[s] \in Crediting
                   /\ credits'[p] = credits[p] /\ grants'[p] = grants[p]
                   /\ inviterCredits'[p] = inviterCredits[p]
                   /\ (p \in rewards' <=> p \in rewards)
    BY <2>1, <1>1 DEF Job, Crediting
  <2>2. ASSUME pc'[r] \in Crediting
        PROVE  TheOrder(r)' = o /\ label \in Crediting
    BY <2>2, <1>2 DEF Crediting
  <2>3. QED
    BY <2>1, <2>2, <1>2, <1>3 DEF CreditorState
<1>9. UntouchedUnlessPaid' BY <1>0, <1>3 DEF UntouchedUnlessPaid
<1>10. CreditAtMostOnce' BY <1>0 DEF CreditAtMostOnce
<1>11. RewardTrailIsBacked' BY <1>0 DEF RewardTrailIsBacked
<1>12. QED
  BY <1>4, <1>5, <1>6, <1>7, <1>8, <1>9, <1>10, <1>11 DEF Core

\* Every step keeps the rest of the inductive invariant: one step of the
\* proof per action of Next.
LEMMA NextCore == IInv /\ [Next]_vars => Core' /\ Answers'
<1> SUFFICES ASSUME IInv, [Next]_vars
             PROVE  Core' /\ Answers'
  OBVIOUS
<1> USE DEF tables, history, Books
<1>job. ASSUME NEW r \in Requests, pc[r] # "idle"
        PROVE  TheOrder(r) \in Orders /\ TheTxn(r) \in Txns
  BY <1>job DEF IInv, TypeOK, Job, TheOrder, TheTxn
<1>paid. ASSUME NEW r \in Requests, pc[r] \in Crediting
         PROVE  orders[TheOrder(r)].status = "paid"
  BY <1>paid DEF IInv, CreditorState
<1>txn. ASSUME NEW o \in Orders
        PROVE  /\ orders[o] \in OrderRow
               /\ orders[o].status \in {"none", "pending", "paid"}
               /\ orders[o].txn \in Txns => orders[o].status = "paid"
  BY OrderAssumption
     DEF IInv, TypeOK, OrderRow, NoOrderRow, PendingRow, PaidRows
\* A request that answers an error.
<1>refuse. ASSUME NEW r \in Requests, Refuse(r), UNCHANGED Books
           PROVE  Core' /\ Answers'
  BY <1>refuse, ReturnKeepsCore, SilenceKeepsAnswers DEF Refuse
\* A request that answers "paid".
<1>accept. ASSUME NEW r \in Requests, pc[r] # "idle", Accept(r), UNCHANGED Books,
                  \/ orders[TheOrder(r)].status = "paid"
                  \/ Channel(r) = "alipay" /\ TheTxn(r) \notin purchased
           PROVE  Core' /\ Answers'
  BY <1>accept, ReturnKeepsCore, AcceptKeepsAnswers DEF Accept
\* A request that goes on.
<1>goto. ASSUME NEW r \in Requests, NEW label \in Labels, Goto(r, label),
                UNCHANGED Books, pc[r] # "idle",
                label # "getOrder" => Verified(r),
                label \in Crediting => pc[r] \in Crediting,
                label \in BeforeUpsert => pc[r] \in BeforeUpsert,
                label \in BeforeReward => pc[r] \in BeforeReward,
                label \in {"grantAudit", "insertReward"}
                  => pc[r] \in {"grantAudit", "insertReward"},
                label # "grantAudit"
         PROVE  Core' /\ Answers'
  BY <1>goto, GotoKeepsCore, SilenceKeepsAnswers DEF Goto
<1>verified. ASSUME NEW r \in Requests, pc[r] # "idle", pc[r] # "getOrder"
             PROVE  Verified(r)
  BY <1>verified DEF IInv, ReceiptsAreChecked
<1>1. ASSUME NEW o \in Orders, CreateOrder(o)
      PROVE  Core' /\ Answers'
  <2>1. /\ \A p \in Orders : orders'[p] = IF p = o THEN PendingRow ELSE orders[p]
        /\ orders[o].status = "none"
        /\ UNCHANGED <<grants, rewards, purchased, pc, job, answers, history>>
    BY <1>1 DEF CreateOrder, IInv, TypeOK
  <2>2. \A r \in Requests : pc[r] \in Crediting => TheOrder(r) # o
    BY <2>1, <1>paid
  <2>3. ReceiptsAreChecked'
    BY <2>1 DEF IInv, ReceiptsAreChecked, Verified, Channel, Plan, TheOrder, TheTxn
  <2>4. PaidIsBacked'
    BY <2>1 DEF IInv, PaidIsBacked, PendingRow
  <2>5. PurchaseHasOrder'
    BY <2>1, OrderAssumption DEF IInv, TypeOK, PurchaseHasOrder, PendingRow, AlipayTxns
  <2>6. SoleCreditor'
    BY <2>1 DEF IInv, SoleCreditor, TheOrder
  <2>7. CreditorState'
    BY <2>1, <2>2, <1>job DEF IInv, CreditorState, TheOrder, Crediting
  <2>8. UntouchedUnlessPaid'
    BY <2>1 DEF IInv, UntouchedUnlessPaid, PendingRow
  <2>9. CreditAtMostOnce' /\ RewardTrailIsBacked'
    BY <2>1 DEF IInv, CreditAtMostOnce, RewardTrailIsBacked
  <2>10. Answers'
    BY <2>1, SilenceKeepsAnswers
  <2>11. QED
    BY <2>3, <2>4, <2>5, <2>6, <2>7, <2>8, <2>9, <2>10 DEF Core
<1>2. ASSUME NEW t \in Txns, Purchase(t)
      PROVE  Core' /\ Answers'
  <2>1. /\ UNCHANGED <<orders, grants, rewards, pc, job, answers, history>>
        /\ purchased' = purchased \cup {t}
        /\ ChannelOf[t] = "alipay" => orders[PaidOrder[t]].status # "none"
    BY <1>2 DEF Purchase
  <2>2. ReceiptsAreChecked'
    BY <2>1 DEF IInv, ReceiptsAreChecked, Verified, Channel, Plan, TheOrder, TheTxn
  <2>3. PaidIsBacked' /\ PurchaseHasOrder'
    BY <2>1 DEF IInv, PaidIsBacked, PurchaseHasOrder
  <2>4. SoleCreditor' /\ CreditorState'
    BY <2>1 DEF IInv, SoleCreditor, CreditorState, TheOrder
  <2>5. UntouchedUnlessPaid' /\ CreditAtMostOnce' /\ RewardTrailIsBacked'
    BY <2>1 DEF IInv, UntouchedUnlessPaid, CreditAtMostOnce, RewardTrailIsBacked
  <2>6. QED
    BY <2>1, <2>2, <2>3, <2>4, <2>5, SilenceKeepsAnswers DEF Core
<1>3. ASSUME NEW r \in Requests, NEW u \in Users, NEW o \in Orders,
             NEW t \in Txns, Serve(r, u, o, t),
             ChannelOf[t] = "alipay" => PaidOrder[t] = o
      PROVE  Core' /\ Answers'
  <2>1. /\ UNCHANGED <<orders, grants, rewards, purchased, answers, history>>
        /\ pc[r] = "idle" /\ pc'[r] = "getOrder"
        /\ job'[r] = [user |-> u, order |-> o, txn |-> t]
        /\ \A s \in Requests \ {r} : pc'[s] = pc[s] /\ job'[s] = job[s]
    BY <1>3 DEF Serve, IInv, TypeOK
  <2>2. ReceiptsAreChecked'
    BY <2>1, <1>3 DEF IInv, ReceiptsAreChecked, Verified, Channel, Plan, TheOrder, TheTxn
  <2>3. PaidIsBacked' /\ PurchaseHasOrder'
    BY <2>1 DEF IInv, PaidIsBacked, PurchaseHasOrder
  <2>4. SoleCreditor' /\ CreditorState'
    BY <2>1 DEF IInv, SoleCreditor, CreditorState, TheOrder, Crediting
  <2>5. UntouchedUnlessPaid' /\ CreditAtMostOnce' /\ RewardTrailIsBacked'
    BY <2>1 DEF IInv, UntouchedUnlessPaid, CreditAtMostOnce, RewardTrailIsBacked
  <2>6. QED
    BY <2>1, <2>2, <2>3, <2>4, <2>5, SilenceKeepsAnswers DEF Core
\* Steps that touch no request, or only end requests.
<1>4. ASSUME UNCHANGED <<Books, job, answers>>,
             \A r \in Requests : pc'[r] = pc[r]
      PROVE  Core' /\ Answers'
  <2>1. ReceiptsAreChecked'
    BY <1>4 DEF IInv, ReceiptsAreChecked, Verified, Channel, Plan, TheOrder, TheTxn
  <2>2. PaidIsBacked' /\ PurchaseHasOrder'
    BY <1>4 DEF IInv, PaidIsBacked, PurchaseHasOrder
  <2>3. SoleCreditor' /\ CreditorState'
    BY <1>4 DEF IInv, SoleCreditor, CreditorState, TheOrder
  <2>4. UntouchedUnlessPaid' /\ CreditAtMostOnce' /\ RewardTrailIsBacked'
    BY <1>4 DEF IInv, UntouchedUnlessPaid, CreditAtMostOnce, RewardTrailIsBacked
  <2>5. QED
    BY <1>4, <2>1, <2>2, <2>3, <2>4, SilenceKeepsAnswers DEF Core
<1>5. ASSUME Crash
      PROVE  Core' /\ Answers'
  <2>1. /\ UNCHANGED <<Books, answers>>
        /\ \A r \in Requests : pc'[r] = "idle"
    BY <1>5 DEF Crash
  <2>2. ReceiptsAreChecked' /\ SoleCreditor' /\ CreditorState'
    BY <2>1 DEF ReceiptsAreChecked, SoleCreditor, CreditorState, Crediting
  <2>3. PaidIsBacked' /\ PurchaseHasOrder'
    BY <2>1 DEF IInv, PaidIsBacked, PurchaseHasOrder
  <2>4. UntouchedUnlessPaid' /\ CreditAtMostOnce' /\ RewardTrailIsBacked'
    BY <2>1 DEF IInv, UntouchedUnlessPaid, CreditAtMostOnce, RewardTrailIsBacked
  <2>5. QED
    BY <2>1, <2>2, <2>3, <2>4, SilenceKeepsAnswers DEF Core
<1>6. ASSUME NEW r \in Requests, Handle(r)
      PROVE  Core' /\ Answers'
  <2>1. ASSUME VerifyGetOrder(r) PROVE Core' /\ Answers'
    BY <2>1, <1>goto, <1>refuse, <1>accept
       DEF VerifyGetOrder, At, Labels, Crediting, BeforeUpsert, BeforeReward
  <2>2. ASSUME NotifyGetOrder(r) PROVE Core' /\ Answers'
    <3>1. /\ pc[r] # "idle" /\ Channel(r) = "alipay" /\ UNCHANGED Books
      BY <2>2 DEF NotifyGetOrder, At
    <3>2. orders[TheOrder(r)].status = "none" => TheTxn(r) \notin purchased
      BY <3>1 DEF IInv, ReceiptsAreChecked, PurchaseHasOrder, Channel
    <3>3. QED
      BY <2>2, <3>1, <3>2, <1>goto, <1>refuse, <1>accept
         DEF NotifyGetOrder, At, Labels, Crediting, BeforeUpsert, BeforeReward
  <2>3. ASSUME VerifyGetByTxn(r) PROVE Core' /\ Answers'
    <3>1. TheOrder(r) \in OrdersPaidBy(TheTxn(r)) => orders[TheOrder(r)].status = "paid"
      BY <2>3, <1>job, <1>txn DEF OrdersPaidBy, VerifyGetByTxn, At
    <3>2. QED
      BY <2>3, <3>1, <1>verified, <1>goto, <1>refuse, <1>accept
         DEF VerifyGetByTxn, At, Labels, Crediting, BeforeUpsert, BeforeReward
  <2>4. ASSUME NotifyGetByTxn(r) PROVE Core' /\ Answers'
    BY <2>4, <1>verified, <1>goto, <1>refuse
       DEF NotifyGetByTxn, At, Labels, Crediting, BeforeUpsert, BeforeReward
  <2>5. ASSUME MarkOrderPaid(r) PROVE Core' /\ Answers'
    <3>1. CASE orders[TheOrder(r)].status = "pending"
      <4>1. Core'
        BY <2>5, <3>1, MarkPaidKeepsCore DEF MarkOrderPaid, At
      <4>2. Answers'
        BY <2>5, <3>1, SilenceKeepsAnswers
           DEF MarkOrderPaid, Goto, PaidRow, IInv, TypeOK
      <4>3. QED BY <4>1, <4>2
    <3>2. CASE orders[TheOrder(r)].status # "pending"
      BY <2>5, <3>2, <1>verified, <1>goto
         DEF MarkOrderPaid, At, Labels, Crediting, BeforeUpsert, BeforeReward
    <3>3. QED BY <3>1, <3>2
  <2>6. ASSUME RereadOrder(r) PROVE Core' /\ Answers'
    <3>1. orders[TheOrder(r)].txn = TheTxn(r) => orders[TheOrder(r)].status = "paid"
      BY <2>6, <1>job, <1>txn DEF RereadOrder, At
    <3>2. QED
      BY <2>6, <3>1, <1>refuse, <1>accept DEF RereadOrder, At
  <2>7. ASSUME ReadSubscription(r) PROVE Core' /\ Answers'
    BY <2>7, <1>verified, <1>goto
       DEF ReadSubscription, At, Labels, Crediting, BeforeUpsert, BeforeReward
  <2>8. ASSUME UpsertSubscription(r) PROVE Core' /\ Answers'
    <3>1. /\ pc[r] = "upsert" /\ pc[r] \in Crediting
          /\ "audit" \in Labels /\ "audit" \in Crediting
          /\ "audit" \notin BeforeUpsert
      BY <2>8 DEF UpsertSubscription, At, Crediting, Labels, BeforeUpsert
    <3>2. /\ credits[TheOrder(r)] = 0 /\ inviterCredits[TheOrder(r)] = 0
          /\ grants[TheOrder(r)] = 0 /\ TheOrder(r) \notin rewards
      BY <3>1 DEF IInv, CreditorState, BeforeUpsert, BeforeReward
    <3>3. /\ credits' = [credits EXCEPT ![TheOrder(r)] = @ + 1]
          /\ UNCHANGED <<orders, purchased, inviterCredits, grants, rewards, answers>>
          /\ job' = job /\ pc'[r] = "audit" /\ pc' = [pc EXCEPT ![r] = pc'[r]]
      BY <2>8 DEF UpsertSubscription, Goto, IInv, TypeOK
    <3>4. /\ credits'[TheOrder(r)] = 1
          /\ \A p \in Orders \ {TheOrder(r)} : credits'[p] = credits[p]
      BY <3>1, <3>2, <3>3, <1>job DEF IInv, TypeOK
    <3>5. pc'[r] \notin {"grantAudit", "insertReward"}
      BY <3>3
    <3>6. Core'
      BY <3>1, <3>2, <3>3, <3>4, <3>5, CreditorKeepsCore DEF BeforeReward
    <3>7. QED BY <3>3, <3>6, SilenceKeepsAnswers
  <2>9. ASSUME InsertRechargeRecord(r) PROVE Core' /\ Answers'
    BY <2>9, <1>verified, <1>goto
       DEF InsertRechargeRecord, At, Labels, Crediting, BeforeUpsert, BeforeReward
  <2>10. ASSUME FindInviter(r) PROVE Core' /\ Answers'
    BY <2>10, <1>verified, <1>paid, <1>goto, <1>accept
       DEF FindInviter, At, Labels, Crediting, BeforeUpsert, BeforeReward
  <2>11. ASSUME ReadInviterSubscription(r) PROVE Core' /\ Answers'
    BY <2>11, <1>verified, <1>goto
       DEF ReadInviterSubscription, At, Labels, Crediting, BeforeUpsert, BeforeReward
  <2>12. ASSUME UpsertInviterSubscription(r) PROVE Core' /\ Answers'
    <3>1. /\ pc[r] = "upsertInviter" /\ pc[r] \in Crediting
          /\ "grantAudit" \in Labels /\ "grantAudit" \in Crediting
          /\ "grantAudit" \notin BeforeUpsert /\ "grantAudit" \notin BeforeReward
      BY <2>12 DEF UpsertInviterSubscription, At, Crediting, Labels, BeforeUpsert,
                   BeforeReward
    <3>2. /\ inviterCredits[TheOrder(r)] = 0
          /\ grants[TheOrder(r)] = 0 /\ TheOrder(r) \notin rewards
      BY <3>1 DEF IInv, CreditorState, BeforeReward
    <3>3. /\ inviterCredits' = [inviterCredits EXCEPT ![TheOrder(r)] = @ + 1]
          /\ UNCHANGED <<orders, purchased, credits, grants, rewards, answers>>
          /\ job' = job /\ pc'[r] = "grantAudit" /\ pc' = [pc EXCEPT ![r] = pc'[r]]
      BY <2>12 DEF UpsertInviterSubscription, Goto, IInv, TypeOK
    <3>4. /\ inviterCredits'[TheOrder(r)] = 1 /\ credits[TheOrder(r)] \in {0, 1}
          /\ \A p \in Orders \ {TheOrder(r)} : inviterCredits'[p] = inviterCredits[p]
      BY <3>1, <3>2, <3>3, <1>job DEF IInv, TypeOK, CreditAtMostOnce, Crediting
    <3>5. Core'
      BY <3>1, <3>2, <3>3, <3>4, CreditorKeepsCore
    <3>6. QED BY <3>3, <3>5, SilenceKeepsAnswers
  <2>13. ASSUME InsertGrantRecord(r) PROVE Core' /\ Answers'
    <3>1. /\ pc[r] = "grantAudit" /\ pc[r] \in Crediting
          /\ "insertReward" \in Labels /\ "insertReward" \in Crediting
          /\ "insertReward" \notin BeforeUpsert /\ "insertReward" \notin BeforeReward
      BY <2>13 DEF InsertGrantRecord, At, Crediting, Labels, BeforeUpsert,
                   BeforeReward
    <3>2. inviterCredits[TheOrder(r)] = 1 /\ grants[TheOrder(r)] = 0
      BY <3>1 DEF IInv, CreditorState
    <3>3. /\ grants' = [grants EXCEPT ![TheOrder(r)] = @ + 1]
          /\ UNCHANGED <<orders, purchased, credits, inviterCredits, rewards, answers>>
          /\ job' = job /\ pc'[r] = "insertReward" /\ pc' = [pc EXCEPT ![r] = pc'[r]]
      BY <2>13 DEF InsertGrantRecord, Goto, IInv, TypeOK
    <3>4. /\ grants'[TheOrder(r)] = 1 /\ credits[TheOrder(r)] \in {0, 1}
          /\ \A p \in Orders \ {TheOrder(r)} : grants'[p] = grants[p]
      BY <3>1, <3>2, <3>3, <1>job DEF IInv, TypeOK, CreditAtMostOnce, Crediting
    <3>5. Core'
      BY <3>1, <3>2, <3>3, <3>4, CreditorKeepsCore
    <3>6. QED BY <3>3, <3>5, SilenceKeepsAnswers
  <2>14. ASSUME InsertRechargeReward(r) PROVE Core' /\ Answers'
    <3>1. /\ pc[r] = "insertReward" /\ pc[r] \in Crediting /\ "idle" \in Labels
          /\ "idle" \notin BeforeUpsert /\ "idle" \notin BeforeReward
      BY <2>14 DEF InsertRechargeReward, At, Crediting, Labels, BeforeUpsert,
                   BeforeReward
    <3>2. inviterCredits[TheOrder(r)] = 1
      BY <3>1 DEF IInv, CreditorState
    <3>3. /\ rewards' = rewards \cup {TheOrder(r)}
          /\ UNCHANGED <<orders, purchased, credits, inviterCredits, grants>>
          /\ Accept(r) /\ Return(r)
          /\ pc'[r] = "idle" /\ pc' = [pc EXCEPT ![r] = pc'[r]]
      BY <2>14 DEF InsertRechargeReward, Accept, Return, IInv, TypeOK
    <3>4. /\ credits[TheOrder(r)] \in {0, 1}
          /\ grants[TheOrder(r)] <= inviterCredits[TheOrder(r)]
      BY <3>1, <1>job
         DEF IInv, TypeOK, CreditAtMostOnce, RewardTrailIsBacked, Crediting
    <3>5. Core'
      BY <3>1, <3>2, <3>3, <3>4, CreditorKeepsCore
    <3>6. QED BY <3>1, <3>3, <3>5, <1>paid, AcceptKeepsAnswers DEF Crediting
  <2>15. QED
    BY <1>6, <2>1, <2>2, <2>3, <2>4, <2>5, <2>6, <2>7, <2>8, <2>9, <2>10, <2>11,
       <2>12, <2>13, <2>14
       DEF Handle, AppleVerifyOrder, HuaweiVerifyOrder, AlipayNotify,
           ExtendQingyuSubscriptionAfterPayment, OnInviteeRechargePaid
<1>7. ASSUME NEW r \in Requests, Fail(r)
      PROVE  Core' /\ Answers'
  <2>1. ASSUME ReadFails(r) PROVE Core' /\ Answers'
    BY <2>1, <1>paid, <1>refuse, <1>accept DEF ReadFails, Crediting, Labels
  <2>2. ASSUME WriteFails(r) PROVE Core' /\ Answers'
    <3>1. CASE pc[r] = "markPaid"
      BY <2>2, <3>1, <1>verified, <1>goto
         DEF WriteFails, Labels, Crediting, BeforeUpsert, BeforeReward
    <3>2. CASE pc[r] = "upsert" \/ pc[r] = "audit"
      BY <2>2, <3>2, <1>verified, <1>goto
         DEF WriteFails, Labels, Crediting, BeforeUpsert, BeforeReward
    <3>3. CASE pc[r] = "grantAudit"
      BY <2>2, <3>3, <1>verified, <1>goto
         DEF WriteFails, Labels, Crediting, BeforeUpsert, BeforeReward
    <3>4. CASE pc[r] \in {"upsertInviter", "insertReward"}
      BY <2>2, <3>4, <1>paid, <1>accept DEF WriteFails, Labels, Crediting
    <3>5. QED BY <2>2, <3>1, <3>2, <3>3, <3>4 DEF WriteFails
  <2>3. ASSUME WriteReplyLost(r) PROVE Core' /\ Answers'
    <3>1. CASE pc[r] = "markPaid"
      <4>1. Core'
        BY <2>3, <3>1, MarkPaidKeepsCore DEF WriteReplyLost
      <4>2. Answers'
        BY <2>3, <3>1, SilenceKeepsAnswers
           DEF WriteReplyLost, Goto, PaidRow, IInv, TypeOK
      <4>3. QED BY <4>1, <4>2
    <3>2. CASE pc[r] = "upsertInviter"
      <4>1. /\ pc[r] \in Crediting /\ "idle" \in Labels
            /\ "idle" \notin BeforeUpsert /\ "idle" \notin BeforeReward
        BY <3>2 DEF Crediting, Labels, BeforeUpsert, BeforeReward
      <4>2. /\ inviterCredits[TheOrder(r)] = 0
            /\ grants[TheOrder(r)] = 0 /\ TheOrder(r) \notin rewards
        BY <3>2, <4>1 DEF IInv, CreditorState, BeforeReward
      <4>3. /\ inviterCredits' = [inviterCredits EXCEPT ![TheOrder(r)] = @ + 1]
            /\ UNCHANGED <<orders, purchased, credits, grants, rewards>>
            /\ Accept(r) /\ Return(r)
            /\ pc'[r] = "idle" /\ pc' = [pc EXCEPT ![r] = pc'[r]]
        BY <2>3, <3>2 DEF WriteReplyLost, Accept, Return, IInv, TypeOK
      <4>4. /\ inviterCredits'[TheOrder(r)] = 1 /\ credits[TheOrder(r)] \in {0, 1}
            /\ \A p \in Orders \ {TheOrder(r)} : inviterCredits'[p] = inviterCredits[p]
        BY <3>2, <4>2, <4>3, <1>job DEF IInv, TypeOK, CreditAtMostOnce
      <4>5. Core'
        BY <4>1, <4>2, <4>3, <4>4, CreditorKeepsCore
      <4>6. QED BY <3>2, <4>1, <4>3, <4>5, <1>paid, AcceptKeepsAnswers
    <3>3. QED BY <2>3, <3>1, <3>2 DEF WriteReplyLost
  <2>4. ASSUME Disconnect(r) PROVE Core' /\ Answers'
    BY <2>4, <1>4 DEF Disconnect
  <2>5. QED BY <1>7, <2>1, <2>2, <2>3, <2>4 DEF Fail
<1>8. ASSUME NextDay
      PROVE  Core' /\ Answers'
  BY <1>8, <1>4 DEF NextDay
<1>9. ASSUME UNCHANGED vars
      PROVE  Core' /\ Answers'
  BY <1>9, <1>4 DEF vars
<1>10. ASSUME NEW r \in Requests, NEW u \in Users, NEW o \in Orders, NEW t \in Txns,
              PostVerify(r, u, o, t)
       PROVE  Core' /\ Answers'
  BY <1>10, <1>3 DEF PostVerify
<1>11. ASSUME NEW r \in Requests, NEW t \in Txns, Notify(r, t)
       PROVE  Core' /\ Answers'
  BY <1>11, <1>3, OrderAssumption DEF Notify, AlipayTxns
<1>12. QED
  BY <1>1, <1>2, <1>5, <1>6, <1>7, <1>8, <1>9, <1>10, <1>11 DEF Next

-----------------------------------------------------------------------------
(***************************************************************************)
(* As long as nothing fails, a paid order is settled when its creditor is  *)
(* through with it.                                                        *)
(***************************************************************************)
Unfailed == dbErrors = 0 /\ crashes = 0
Settling == SettlesAsItGoes /\ SettledUnlessFailed

SameRecords(o) ==
  /\ credits'[o] = credits[o] /\ recharges'[o] = recharges[o]
  /\ inviterCredits'[o] = inviterCredits[o] /\ grants'[o] = grants[o]
  /\ o \in rewards' <=> o \in rewards

Settled(o) ==
  /\ credits[o] = 1 /\ recharges[o] = 1
  /\ Rewardable(o) => inviterCredits[o] = 1 /\ grants[o] = 1 /\ o \in rewards

\* What the creditor of o leaves behind it, at a label.
LeftAt(label, o) ==
  /\ label \notin BeforeUpsert => credits[o] = 1
  /\ recharges[o] = IF label \in BeforeUpsert \cup {"audit"} THEN 0 ELSE 1
  /\ label = "insertReward" => grants[o] = 1

\* A failure is not undone.
LEMMA FailuresStay == ASSUME TypeOK, [Next]_vars, Unfailed' PROVE Unfailed
<1>1. /\ dbErrors' \in {dbErrors, dbErrors + 1}
      /\ crashes' \in {crashes, crashes + 1}
  BY DEF Next, CreateOrder, Purchase, PostVerify, Notify, Serve, Handle, AppleVerifyOrder,
     HuaweiVerifyOrder, AlipayNotify, VerifyGetOrder, NotifyGetOrder, VerifyGetByTxn,
     NotifyGetByTxn, MarkOrderPaid, RereadOrder, ExtendQingyuSubscriptionAfterPayment,
     ReadSubscription, UpsertSubscription, InsertRechargeRecord, OnInviteeRechargePaid,
     FindInviter, ReadInviterSubscription, UpsertInviterSubscription, InsertGrantRecord,
     InsertRechargeReward, Fail, ReadFails, WriteFails, WriteReplyLost, CallFails, Disconnect,
     NextDay, Crash, vars, faults
<1>2. QED BY <1>1 DEF Unfailed, TypeOK

\* Steps of requests that are no creditors settle nothing, and leave nothing
\* unsettled.
LEMMA OthersSettle ==
  ASSUME IInv, Unfailed, cancelled' = {}, \A o \in Orders : SameRecords(o),
         \A o \in Orders : orders'[o].status = "paid" <=> orders[o].status = "paid",
         \A s \in Requests :
           \/ pc'[s] = pc[s] /\ job'[s] = job[s]
           \/ pc[s] \notin Crediting /\ pc'[s] \notin Crediting
  PROVE  Settling'
<1>1. ASSUME NEW s \in Requests, pc'[s] \in Crediting \/ pc[s] \in Crediting
      PROVE  pc'[s] = pc[s] /\ TheOrder(s)' = TheOrder(s) /\ TheOrder(s) \in Orders
  BY <1>1 DEF IInv, TypeOK, Job, TheOrder, Crediting
<1>2. SettlesAsItGoes'
  BY <1>1 DEF SettlesAsItGoes, IInv, Unfailed, SameRecords
<1>3. SettledUnlessFailed'
  <2> SUFFICES ASSUME NEW o \in Orders, orders'[o].status = "paid"
               PROVE  \/ \E s \in Requests : pc'[s] \in Crediting /\ TheOrder(s)' = o
                      \/ Settled(o)'
    BY DEF SettledUnlessFailed, Settled
  <2>1. \/ \E s \in Requests : pc[s] \in Crediting /\ TheOrder(s) = o
        \/ Settled(o)
    BY DEF IInv, SettledUnlessFailed, Unfailed, Settled
  <2>2. QED BY <1>1, <2>1 DEF Settled, SameRecords, Rewardable
<1>4. QED BY <1>2, <1>3 DEF Settling

\* What the creditor of an order has left behind it, if nothing has failed.
LEMMA CreditorHasLeft ==
  ASSUME IInv, Unfailed, NEW r \in Requests, pc[r] \in Crediting
  PROVE  LeftAt(pc[r], TheOrder(r)) /\ TheOrder(r) \in Orders /\ cancelled = {}
  BY DEF IInv, TypeOK, Job, TheOrder, Crediting, SettlesAsItGoes, Unfailed, LeftAt

\* It is alone with its order: it may go on with what it must leave behind it,
\* or return from an order that is settled.
LEMMA CreditorSettles ==
  ASSUME IInv, Unfailed, NEW r \in Requests, NEW o, o = TheOrder(r), pc[r] \in Crediting,
         cancelled' = {}, UNCHANGED orders,
         \A s \in Requests \ {r} : pc'[s] = pc[s] /\ job'[s] = job[s],
         \A p \in Orders \ {o} : SameRecords(p),
         \/ pc'[r] \in Crediting /\ job'[r] = job[r] /\ LeftAt(pc[r], o)'
         \/ pc'[r] \notin Crediting /\ Settled(o)'
  PROVE  Settling'
<1>1. o \in Orders /\ orders[o].status = "paid"
  BY CreditorHasLeft DEF IInv, CreditorState
<1>2. ASSUME NEW s \in Requests \ {r}, pc[s] \in Crediting
      PROVE  /\ pc'[s] = pc[s] /\ TheOrder(s)' = TheOrder(s)
             /\ TheOrder(s) \in Orders \ {o} /\ LeftAt(pc[s], TheOrder(s))
  BY <1>2, CreditorHasLeft DEF IInv, SoleCreditor, TheOrder
<1>3. ASSUME NEW s \in Requests, pc'[s] \in Crediting
      PROVE  LeftAt(pc[s], TheOrder(s))'
  <2>1. CASE s = r
    BY <1>3, <2>1 DEF TheOrder
  <2>2. CASE s # r
    BY <1>2, <1>3, <2>2 DEF LeftAt, SameRecords
  <2>3. QED BY <2>1, <2>2
<1>4. \A p \in Orders : orders'[p].status # "paid" => recharges'[p] = 0
  BY <1>1 DEF IInv, SettlesAsItGoes, Unfailed, SameRecords
<1>5. SettlesAsItGoes'
  BY <1>3, <1>4 DEF SettlesAsItGoes, LeftAt
<1>6. SettledUnlessFailed'
  <2> SUFFICES ASSUME NEW p \in Orders, orders'[p].status = "paid"
               PROVE  \/ \E s \in Requests : pc'[s] \in Crediting /\ TheOrder(s)' = p
                      \/ Settled(p)'
    BY DEF SettledUnlessFailed, Settled
  <2>1. CASE p = o
    BY <2>1 DEF TheOrder
  <2>2. CASE p # o
    <3>1. \/ \E s \in Requests : pc[s] \in Crediting /\ TheOrder(s) = p
          \/ Settled(p)
      BY DEF IInv, SettledUnlessFailed, Unfailed, Settled
    <3>2. QED BY <1>2, <2>2, <3>1 DEF Settled, SameRecords, Rewardable
  <2>3. QED BY <2>1, <2>2
<1>7. QED BY <1>5, <1>6 DEF Settling

\* An order that becomes paid has a creditor, and no record yet.
LEMMA MarkPaidSettles ==
  ASSUME IInv, Unfailed, NEW r \in Requests, pc[r] = "markPaid", Goto(r, "readSub"),
         orders[TheOrder(r)].status = "pending", cancelled' = {},
         orders' = [orders EXCEPT ![TheOrder(r)] = PaidRow(r)],
         \A o \in Orders : SameRecords(o)
  PROVE  Settling'
<1> DEFINE o == TheOrder(r)
<1>1. /\ o \in Orders /\ job' = job /\ pc'[r] = "readSub" /\ TheOrder(r)' = o
      /\ \A s \in Requests \ {r} : pc'[s] = pc[s] /\ TheOrder(s)' = TheOrder(s)
  BY DEF IInv, TypeOK, Job, TheOrder, Goto
<1>2. /\ \A p \in Orders \ {o} : orders'[p] = orders[p]
      /\ recharges[o] = 0
  BY <1>1 DEF IInv, TypeOK, SettlesAsItGoes, Unfailed
<1>3. "readSub" \in BeforeUpsert /\ "readSub" \in Crediting
  BY DEF BeforeUpsert, Crediting, Labels
<1>4. ASSUME NEW s \in Requests, pc'[s] \in Crediting
      PROVE  LeftAt(pc[s], TheOrder(s))'
  <2>1. CASE s = r
    BY <1>1, <1>2, <1>3, <2>1 DEF LeftAt, SameRecords
  <2>2. CASE s # r
    BY <1>1, <1>4, <2>2, CreditorHasLeft DEF LeftAt, SameRecords
  <2>3. QED BY <2>1, <2>2
<1>5. \A p \in Orders : orders'[p].status # "paid" => recharges'[p] = 0
  BY <1>2 DEF IInv, SettlesAsItGoes, Unfailed, SameRecords
<1>6. SettlesAsItGoes'
  BY <1>4, <1>5 DEF SettlesAsItGoes, LeftAt
<1>7. SettledUnlessFailed'
  <2> SUFFICES ASSUME NEW p \in Orders, p # o, orders'[p].status = "paid"
               PROVE  \/ \E s \in Requests : pc'[s] \in Crediting /\ TheOrder(s)' = p
                      \/ Settled(p)'
    BY <1>1, <1>3 DEF SettledUnlessFailed, Settled
  <2>1. \/ \E s \in Requests : pc[s] \in Crediting /\ TheOrder(s) = p
        \/ Settled(p)
    BY <1>2 DEF IInv, SettledUnlessFailed, Unfailed, Settled
  <2>2. CASE Settled(p)
    BY <2>2 DEF Settled, SameRecords, Rewardable
  <2>3. ASSUME NEW s \in Requests, pc[s] \in Crediting, TheOrder(s) = p
        PROVE  pc'[s] \in Crediting /\ TheOrder(s)' = p
    BY <1>1, <2>3
  <2>4. QED BY <2>1, <2>2, <2>3
<1>8. QED BY <1>6, <1>7 DEF Settling

\* Every step settles what it must.
LEMMA NextSettling == IInv /\ [Next]_vars => Settling'
<1> SUFFICES ASSUME IInv, [Next]_vars, Unfailed' PROVE Settling'
  BY DEF Settling, SettlesAsItGoes, SettledUnlessFailed, Unfailed
<1> USE DEF tables, history
<1>1. Unfailed /\ cancelled = {} /\ TypeOK
  BY FailuresStay DEF IInv, SettlesAsItGoes, Unfailed
\* A request that stays no creditor.
<1>other. ASSUME NEW r \in Requests, pc[r] \notin Crediting,
                 UNCHANGED <<orders, recharges, grants, rewards, history>>,
                 Refuse(r) \/ Accept(r) \/ \E label \in {"getByTxn", "markPaid", "reread"} : Goto(r, label)
          PROVE  Settling'
  <2>1. /\ cancelled' = {} /\ \A o \in Orders : SameRecords(o)
        /\ pc'[r] \in {"idle", "getByTxn", "markPaid", "reread"}
        /\ \A s \in Requests \ {r} : pc'[s] = pc[s] /\ job'[s] = job[s]
    BY <1>1, <1>other DEF Refuse, Accept, Return, Goto, TypeOK, SameRecords
  <2>2. pc'[r] \notin Crediting
    BY <2>1 DEF Crediting
  <2>3. QED BY <1>1, <1>other, <2>1, <2>2, OthersSettle
\* The creditor goes on.
<1>goto. ASSUME NEW r \in Requests, pc[r] \in Crediting, NEW label \in Crediting, Goto(r, label),
                UNCHANGED orders, NEW o, o = TheOrder(r),
                \A p \in Orders \ {o} : SameRecords(p), LeftAt(label, o)'
         PROVE  Settling'
  <2>1. /\ cancelled' = {} /\ pc'[r] = label /\ job' = job
        /\ \A s \in Requests \ {r} : pc'[s] = pc[s]
    BY <1>1, <1>goto DEF Goto, TypeOK
  <2>2. LeftAt(pc[r], o)'
    BY <1>goto, <2>1 DEF LeftAt
  <2>3. QED BY <1>1, <1>goto, <2>1, <2>2, CreditorSettles
\* The creditor is through.
<1>accept. ASSUME NEW r \in Requests, pc[r] \in Crediting, Accept(r), UNCHANGED orders,
                  NEW o, o = TheOrder(r), \A p \in Orders \ {o} : SameRecords(p), Settled(o)'
           PROVE  Settling'
  <2>1. /\ cancelled' = {} /\ pc'[r] \notin Crediting
        /\ \A s \in Requests \ {r} : pc'[s] = pc[s] /\ job'[s] = job[s]
    BY <1>1, <1>accept DEF Accept, Return, TypeOK, Crediting
  <2>2. QED BY <1>1, <1>accept, <2>1, CreditorSettles
<1>2. ASSUME NEW r \in Requests, AppleVerifyOrder(r) \/ HuaweiVerifyOrder(r) \/ AlipayNotify(r)
      PROVE  Settling'
  <2>1. ASSUME \/ VerifyGetOrder(r) \/ NotifyGetOrder(r) \/ VerifyGetByTxn(r)
               \/ NotifyGetByTxn(r) \/ RereadOrder(r)
        PROVE  Settling'
    <3>1. pc[r] \notin Crediting
      BY <2>1 DEF VerifyGetOrder, NotifyGetOrder, VerifyGetByTxn, NotifyGetByTxn, RereadOrder,
         At, Crediting
    <3>2. UNCHANGED <<orders, recharges, grants, rewards, history>>
      BY <2>1 DEF VerifyGetOrder, NotifyGetOrder, VerifyGetByTxn, NotifyGetByTxn, RereadOrder
    <3>3. Refuse(r) \/ Accept(r) \/ \E label \in {"getByTxn", "markPaid", "reread"} : Goto(r, label)
      BY <2>1 DEF VerifyGetOrder, NotifyGetOrder, VerifyGetByTxn, NotifyGetByTxn, RereadOrder
    <3>4. QED BY <1>other, <3>1, <3>2, <3>3
  <2>2. ASSUME MarkOrderPaid(r) PROVE Settling'
    <3>1. CASE orders[TheOrder(r)].status = "pending"
      <4>1. cancelled' = {} /\ \A o \in Orders : SameRecords(o)
        BY <1>1, <2>2, <3>1 DEF MarkOrderPaid, Goto, SameRecords
      <4>2. QED BY <1>1, <2>2, <3>1, <4>1, MarkPaidSettles DEF MarkOrderPaid, At
    <3>2. CASE orders[TheOrder(r)].status # "pending"
      <4>1. pc[r] \notin Crediting
        BY <2>2 DEF MarkOrderPaid, At, Crediting
      <4>2. QED BY <1>other, <2>2, <3>2, <4>1 DEF MarkOrderPaid
    <3>3. QED BY <3>1, <3>2
  <2>3. QED BY <1>2, <2>1, <2>2 DEF AppleVerifyOrder, HuaweiVerifyOrder, AlipayNotify
<1>3. ASSUME NEW r \in Requests,
             ExtendQingyuSubscriptionAfterPayment(r) \/ OnInviteeRechargePaid(r)
      PROVE  Settling'
  <2>1. pc[r] \in Crediting
    BY <1>3 DEF ExtendQingyuSubscriptionAfterPayment, ReadSubscription, UpsertSubscription,
       InsertRechargeRecord, OnInviteeRechargePaid, FindInviter, ReadInviterSubscription,
       UpsertInviterSubscription, InsertGrantRecord, InsertRechargeReward, At, Crediting, Labels
  <2>o. PICK o : o = TheOrder(r)
    OBVIOUS
  <2>2. LeftAt(pc[r], o) /\ o \in Orders
    BY <1>1, <2>1, <2>o, CreditorHasLeft
  <2>3. /\ pc[r] \in BeforeUpsert => credits[o] = 0
        /\ pc[r] \in BeforeReward => inviterCredits[o] = 0 /\ grants[o] = 0 /\ o \notin rewards
        /\ pc[r] \in {"grantAudit", "insertReward"} => inviterCredits[o] = 1
        /\ pc[r] = "grantAudit" => grants[o] = 0
    BY <2>1, <2>o DEF IInv, CreditorState
  <2> USE DEF BeforeUpsert, BeforeReward
  <2>labels. {"readSub", "upsert", "audit", "findInviter", "readInviter", "upsertInviter",
              "grantAudit", "insertReward"} \subseteq Crediting
    BY DEF Crediting, Labels
  <2>same. ASSUME UNCHANGED <<recharges, grants, rewards, history>>
           PROVE  \A p \in Orders : SameRecords(p)
    BY <2>same DEF SameRecords
  <2>4. ASSUME ReadSubscription(r) PROVE Settling'
    <3>1. /\ pc[r] = "readSub" /\ Goto(r, "upsert") /\ UNCHANGED orders
          /\ UNCHANGED <<recharges, grants, rewards, history>>
      BY <2>4 DEF ReadSubscription, At
    <3>2. LeftAt("upsert", o)'
      BY <2>2, <3>1 DEF LeftAt
    <3>3. QED BY <1>goto, <2>1, <2>o, <2>labels, <2>same, <3>1, <3>2
  <2>5. ASSUME UpsertSubscription(r) PROVE Settling'
    <3>1. /\ pc[r] = "upsert" /\ Goto(r, "audit") /\ credits' = [credits EXCEPT ![o] = @ + 1]
          /\ UNCHANGED <<orders, recharges, grants, rewards, inviterCredits>>
      BY <2>5, <2>o DEF UpsertSubscription, At
    <3>2. LeftAt("audit", o)' /\ \A p \in Orders \ {o} : SameRecords(p)
      BY <1>1, <2>2, <2>3, <3>1 DEF LeftAt, SameRecords, TypeOK
    <3>3. QED BY <1>goto, <2>1, <2>o, <2>labels, <3>1, <3>2
  <2>6. ASSUME InsertRechargeRecord(r) PROVE Settling'
    <3>1. /\ pc[r] = "audit" /\ Goto(r, "findInviter")
          /\ recharges' = [recharges EXCEPT ![o] = @ + 1]
          /\ UNCHANGED <<orders, grants, rewards, history>>
      BY <2>6, <2>o DEF InsertRechargeRecord, At
    <3>2. LeftAt("findInviter", o)' /\ \A p \in Orders \ {o} : SameRecords(p)
      BY <1>1, <2>2, <3>1 DEF LeftAt, SameRecords, TypeOK
    <3>3. QED BY <1>goto, <2>1, <2>o, <2>labels, <3>1, <3>2
  <2>7. ASSUME FindInviter(r) PROVE Settling'
    <3>1. /\ pc[r] = "findInviter" /\ UNCHANGED orders
          /\ UNCHANGED <<recharges, grants, rewards, history>>
          /\ \/ Goto(r, "readInviter")
             \/ Accept(r) /\ (~Rewardable(o) \/ o \in rewards)
      BY <2>7, <2>o DEF FindInviter, At, Rewardable, Plan, Inviter, Owner
    <3>2. CASE Goto(r, "readInviter")
      <4>1. LeftAt("readInviter", o)'
        BY <2>2, <3>1 DEF LeftAt
      <4>2. QED BY <1>goto, <2>1, <2>o, <2>labels, <2>same, <3>1, <3>2, <4>1
    <3>3. CASE Accept(r) /\ ~Rewardable(o)
      <4>1. Settled(o)'
        BY <2>2, <3>1, <3>3 DEF LeftAt, Settled, Rewardable
      <4>2. QED BY <1>accept, <2>1, <2>o, <2>same, <3>1, <3>3, <4>1
    <3>4. QED BY <2>3, <3>1, <3>2, <3>3
  <2>8. ASSUME ReadInviterSubscription(r) PROVE Settling'
    <3>1. /\ pc[r] = "readInviter" /\ Goto(r, "upsertInviter") /\ UNCHANGED orders
          /\ UNCHANGED <<recharges, grants, rewards, history>>
      BY <2>8 DEF ReadInviterSubscription, At
    <3>2. LeftAt("upsertInviter", o)'
      BY <2>2, <3>1 DEF LeftAt
    <3>3. QED BY <1>goto, <2>1, <2>o, <2>labels, <2>same, <3>1, <3>2
  <2>9. ASSUME UpsertInviterSubscription(r) PROVE Settling'
    <3>1. /\ pc[r] = "upsertInviter" /\ Goto(r, "grantAudit")
          /\ inviterCredits' = [inviterCredits EXCEPT ![o] = @ + 1]
          /\ UNCHANGED <<orders, recharges, grants, rewards, credits>>
      BY <2>9, <2>o DEF UpsertInviterSubscription, At
    <3>2. LeftAt("grantAudit", o)' /\ \A p \in Orders \ {o} : SameRecords(p)
      BY <1>1, <2>2, <3>1 DEF LeftAt, SameRecords, TypeOK
    <3>3. QED BY <1>goto, <2>1, <2>o, <2>labels, <3>1, <3>2
  <2>10. ASSUME InsertGrantRecord(r) PROVE Settling'
    <3>1. /\ pc[r] = "grantAudit" /\ Goto(r, "insertReward")
          /\ grants' = [grants EXCEPT ![o] = @ + 1]
          /\ UNCHANGED <<orders, recharges, rewards, history>>
      BY <2>10, <2>o DEF InsertGrantRecord, At
    <3>2. LeftAt("insertReward", o)' /\ \A p \in Orders \ {o} : SameRecords(p)
      BY <1>1, <2>2, <2>3, <3>1 DEF LeftAt, SameRecords, TypeOK
    <3>3. QED BY <1>goto, <2>1, <2>o, <2>labels, <3>1, <3>2
  <2>11. ASSUME InsertRechargeReward(r) PROVE Settling'
    <3>1. /\ pc[r] = "insertReward" /\ Accept(r) /\ rewards' = rewards \cup {o}
          /\ UNCHANGED <<orders, recharges, grants, history>>
      BY <2>11, <2>o DEF InsertRechargeReward, At
    <3>2. Settled(o)' /\ \A p \in Orders \ {o} : SameRecords(p)
      BY <2>2, <2>3, <3>1 DEF LeftAt, Settled, SameRecords
    <3>3. QED BY <1>accept, <2>1, <2>o, <3>1, <3>2
  <2>12. QED
    BY <1>3, <2>4, <2>5, <2>6, <2>7, <2>8, <2>9, <2>10, <2>11
       DEF ExtendQingyuSubscriptionAfterPayment, OnInviteeRechargePaid
\* Steps of no request, or that begin one.
<1>4. ASSUME UNCHANGED <<recharges, grants, rewards, history, cancelled>>,
             \A o \in Orders : orders'[o].status = "paid" <=> orders[o].status = "paid",
             \A s \in Requests :
               \/ pc'[s] = pc[s] /\ job'[s] = job[s]
               \/ pc[s] \notin Crediting /\ pc'[s] \notin Crediting
      PROVE  Settling'
  <2>1. \A o \in Orders : SameRecords(o)
    BY <1>4 DEF SameRecords
  <2>2. QED BY <1>1, <1>4, <2>1, OthersSettle
<1>5. ASSUME NEW o \in Orders, CreateOrder(o) PROVE Settling'
  BY <1>1, <1>4, <1>5 DEF CreateOrder, PendingRow, TypeOK
<1>6. ASSUME NEW r \in Requests, NEW u, NEW o, NEW t, Serve(r, u, o, t) PROVE Settling'
  <2>1. /\ \A s \in Requests \ {r} : pc'[s] = pc[s] /\ job'[s] = job[s]
        /\ pc[r] \notin Crediting /\ pc'[r] \notin Crediting
    BY <1>1, <1>6 DEF Serve, TypeOK, Crediting
  <2>2. QED BY <1>4, <1>6, <2>1 DEF Serve
<1>7. CASE (\E t \in Txns : Purchase(t)) \/ NextDay \/ UNCHANGED vars
  BY <1>4, <1>7 DEF Purchase, NextDay, vars
<1>8. CASE Crash \/ \E r \in Requests : Fail(r)
  <2>1. crashes' = crashes + 1 \/ dbErrors' = dbErrors + 1
    BY <1>1, <1>8 DEF Crash, Fail, ReadFails, WriteFails, WriteReplyLost, Disconnect, CallFails
  <2>2. QED BY <1>1, <2>1 DEF Unfailed, TypeOK
<1>9. QED
  BY <1>2, <1>3, <1>5, <1>6, <1>7, <1>8 DEF Next, PostVerify, Notify, Handle

\* The inductive invariant holds of every reachable state.
THEOREM Invariance == Spec => []IInv
<1>1. Init => IInv
  <2>1. Init => InviterIsKnown
    BY DEF Init, InviterIsKnown
  <2>2. Init => Core
    BY OrderAssumption
       DEF Init, Core, ReceiptsAreChecked, PaidIsBacked, PurchaseHasOrder,
           SoleCreditor, CreditorState, UntouchedUnlessPaid, CreditAtMostOnce,
           RewardTrailIsBacked, Crediting, NoOrderRow
  <2>3. Init => Answers
    BY DEF Init, Answers, AckedIsAlipay, AnswersAreTrue
  <2>4. Init => Settling
    BY DEF Init, Settling, SettlesAsItGoes, SettledUnlessFailed, Crediting, NoOrderRow
  <2>5. QED BY <2>1, <2>2, <2>3, <2>4, InitTypeOK DEF IInv, Core, Answers, Settling
<1>2. IInv /\ [Next]_vars => IInv'
  <2>1. IInv /\ [Next]_vars => TypeOK' /\ InviterIsKnown'
    BY NextTypeOK DEF IInv
  <2>2. QED BY <2>1, NextCore, NextSettling DEF IInv, Core, Answers, Settling
<1>3. QED BY <1>1, <1>2, PTL DEF Spec

\* An order extends its owner's membership at most once, and the inviter's at
\* most once, whatever the number of requests, repetitions and failures.
THEOREM CreditedOnce == Spec => []CreditAtMostOnce
<1>1. IInv => CreditAtMostOnce BY DEF IInv
<1>2. QED BY <1>1, Invariance, PTL

\* Membership is only given for a payment the gateway really charged, for the
\* plan of the order and, from Alipay, for the order itself.
THEOREM CreditBacked == Spec => []CreditIsBacked
<1>1. IInv => CreditIsBacked
  <2> SUFFICES ASSUME IInv, NEW o \in Orders, credits[o] + inviterCredits[o] > 0
               PROVE  orders[o].status = "paid"
    BY DEF IInv, CreditIsBacked, PaidIsBacked
  <2>1. credits[o] \in Nat /\ inviterCredits[o] \in Nat
    BY DEF IInv, TypeOK
  <2>2. QED BY <2>1 DEF IInv, UntouchedUnlessPaid
<1>2. QED BY <1>1, Invariance, PTL

\* A client is told "paid", and Alipay "success", only of paid orders.
THEOREM AnswersTrue == Spec => []AnswersAreTrue
<1>1. IInv => AnswersAreTrue BY DEF IInv
<1>2. QED BY <1>1, Invariance, PTL

\* The audit row and the reward row of an inviter's days are backed by them.
THEOREM RewardTrailBacked == Spec => []RewardTrailIsBacked
<1>1. IInv => RewardTrailIsBacked BY DEF IInv
<1>2. QED BY <1>1, Invariance, PTL

\* As long as nothing has failed, a paid order that no request is crediting has
\* been credited and recorded, and its inviter rewarded, exactly once.
THEOREM SettledUnlessItFails == Spec => []SettledUnlessFailed
<1>1. IInv => SettledUnlessFailed BY DEF IInv
<1>2. QED BY <1>1, Invariance, PTL

\* Once an order is paid, no step of any request, repetition or failure
\* changes its row: the conditional update is what protects it.
THEOREM PaidStays == Spec => PaidIsFinal
<1>1. ASSUME TypeOK, [Next]_vars, NEW o \in Orders, orders[o].status = "paid"
      PROVE  orders'[o] = orders[o]
  <2> USE <1>1 DEF tables
  <2>1. ASSUME NEW p \in Orders, CreateOrder(p) PROVE orders'[o] = orders[o]
    BY <2>1 DEF CreateOrder, TypeOK
  <2>2. ASSUME NEW r \in Requests, Handle(r) PROVE orders'[o] = orders[o]
    <3>1. CASE MarkOrderPaid(r)
      BY <3>1 DEF MarkOrderPaid, TypeOK
    <3>2. CASE ~MarkOrderPaid(r)
      <4>1. \/ VerifyGetOrder(r) \/ NotifyGetOrder(r) \/ VerifyGetByTxn(r)
            \/ NotifyGetByTxn(r) \/ RereadOrder(r)
            \/ ExtendQingyuSubscriptionAfterPayment(r) \/ OnInviteeRechargePaid(r)
        BY <2>2, <3>2 DEF Handle, AppleVerifyOrder, HuaweiVerifyOrder, AlipayNotify
      <4>2. UNCHANGED orders
        BY <4>1 DEF VerifyGetOrder, NotifyGetOrder, VerifyGetByTxn, NotifyGetByTxn,
             RereadOrder, ExtendQingyuSubscriptionAfterPayment, ReadSubscription,
             UpsertSubscription, InsertRechargeRecord, OnInviteeRechargePaid,
             FindInviter, ReadInviterSubscription, UpsertInviterSubscription,
             InsertGrantRecord, InsertRechargeReward
      <4>3. QED BY <4>2
    <3>3. QED BY <3>1, <3>2
  <2>3. ASSUME NEW r \in Requests, Fail(r) PROVE orders'[o] = orders[o]
    BY <2>3 DEF Fail, ReadFails, WriteFails, WriteReplyLost, Disconnect, TypeOK
  <2>4. ASSUME NEW r \in Requests, NEW u \in Users, NEW p \in Orders, NEW t \in Txns,
               PostVerify(r, u, p, t)
        PROVE  orders'[o] = orders[o]
    BY <2>4 DEF PostVerify, Serve
  <2>5. ASSUME NEW r \in Requests, NEW t \in Txns, Notify(r, t)
        PROVE  orders'[o] = orders[o]
    BY <2>5 DEF Notify, Serve
  <2>6. CASE (\E t \in Txns : Purchase(t)) \/ NextDay \/ Crash \/ UNCHANGED vars
    BY <2>6 DEF Purchase, NextDay, Crash, vars
  <2>7. QED BY <1>1, <2>1, <2>2, <2>3, <2>4, <2>5, <2>6 DEF Next
<1>2. TypeOK /\ [Next]_vars =>
        \A o \in Orders : orders[o].status = "paid" => orders'[o] = orders[o]
  BY <1>1
<1>3. QED BY <1>2, TypeCorrect, PTL DEF Spec, PaidIsFinal
-----------------------------------------------------------------------------
(***************************************************************************)
(* Requests that do not overlap.  A request then writes what it has read:  *)
(* the transaction it looked up is still unused, and the row it computed   *)
(* extends the row it replaces.                                            *)
(***************************************************************************)
Serial == TxnPaysOneOrder /\ MarksUnused /\ WritesWhatItRead /\ PaidByToday /\ RewardsInOrder

\* The shape of an order's row tells whether it is paid.
LEMMA RowShape ==
  ASSUME TypeOK, NEW o \in Orders
  PROVE  /\ orders[o].status # "paid" => orders[o].txn = NoTxn /\ orders[o].paidAt = 0
         /\ orders[o].status = "paid" => orders[o].txn \in Txns /\ orders[o].paidAt \in Nat \ {0}
         /\ orders[o].status = "none" => orders[o] = NoOrderRow
         /\ orders[o].paidAt \in Nat
  BY DEF TypeOK, OrderRow, NoOrderRow, PendingRow, PaidRows

\* What a request that is not idle works on.
LEMMA RequestJob ==
  ASSUME IInv, NEW r \in Requests, pc[r] # "idle"
  PROVE  /\ TheOrder(r) \in Orders /\ TheTxn(r) \in Txns
         /\ Owner(r) \in Users /\ Plan(r) \in Plans
         /\ RewardLength[Plan(r)] \in Nat
         /\ Inviter(r) # NoUser => Inviter(r) \in Users
  BY OrderAssumption, PlanAssumption
     DEF IInv, TypeOK, Job, TheOrder, TheTxn, Owner, Plan, Inviter

\* Paying an order by an unused transaction keeps transactions apart.
LEMMA PayingAlone ==
  ASSUME Alone, IInv, Serial, NEW r \in Requests, pc[r] = "markPaid", UNCHANGED today,
         orders' = [orders EXCEPT ![TheOrder(r)] = PaidRow(r)]
  PROVE  TxnPaysOneOrder' /\ PaidByToday'
<1>1. TheOrder(r) \in Orders /\ TheTxn(r) \in Txns
  BY RequestJob
<1>2. \A p \in Orders : orders'[p] = IF p = TheOrder(r) THEN PaidRow(r) ELSE orders[p]
  BY <1>1 DEF IInv, TypeOK
<1>3. PaidByToday'
  BY <1>2 DEF Serial, PaidByToday, PaidRow, IInv, TypeOK
<1>4. TxnPaysOneOrder'
  BY <1>1, <1>2 DEF Serial, TxnPaysOneOrder, MarksUnused, OrdersPaidBy, PaidRow
<1>5. QED BY <1>3, <1>4

\* Where the only request stands, when it has just moved, and has nothing to
\* write yet: nothing is asked of it but the order of its rewards.
LEMMA MovingAlone ==
  ASSUME Alone, NEW r \in Requests,
         pc'[r] \notin {"markPaid", "upsert", "upsertInviter"},
         TxnPaysOneOrder', PaidByToday',
         pc'[r] = "readInviter" => RewardLength[Plan(r)'] > 0,
         dbErrors' = 0 => r \notin cancelled',
         dbErrors' = 0 /\ pc'[r] \in Crediting \ BeforeUpsert => credits'[TheOrder(r)'] = 1
  PROVE  Serial'
<1>1. \A s \in Requests : s = r
  BY DEF Alone
<1>2. MarksUnused'
  BY <1>1 DEF MarksUnused
<1>3. WritesWhatItRead'
  BY <1>1 DEF WritesWhatItRead
<1>4. RewardsInOrder'
  BY <1>1 DEF RewardsInOrder
<1>5. QED BY <1>2, <1>3, <1>4 DEF Serial
\* Every step of requests that do not overlap keeps their invariant: one step
\* of the proof per kind of step.
LEMMA NextSerial == ASSUME Alone PROVE IInv /\ Serial /\ [Next]_vars => Serial'
<1> SUFFICES ASSUME IInv, Serial, [Next]_vars
             PROVE  Serial'
  OBVIOUS
<1> USE DEF tables, history, faults
<1>1. /\ today \in Nat /\ dbErrors \in Nat /\ pc \in [Requests -> Labels]
      /\ cancelled \subseteq Requests /\ credits \in [Orders -> Nat]
      /\ newSub \in [Requests -> Row] /\ orders \in [Orders -> OrderRow]
  BY DEF IInv, TypeOK
<1>2. TxnPaysOneOrder /\ PaidByToday
  BY DEF Serial
<1>orders. ASSUME UNCHANGED <<today, orders>>
           PROVE  TxnPaysOneOrder' /\ PaidByToday'
  BY <1>2, <1>orders DEF TxnPaysOneOrder, PaidByToday, OrdersPaidBy
\* A request that returns.
<1>return. ASSUME NEW r \in Requests, Return(r), TxnPaysOneOrder', PaidByToday'
           PROVE  Serial'
  <2>1. pc'[r] = "idle" /\ r \notin cancelled'
    BY <1>1, <1>return DEF Return
  <2>2. QED BY <1>return, <2>1, MovingAlone DEF Crediting
\* A request that goes on and has nothing to write yet.
<1>goto. ASSUME NEW r \in Requests, NEW label \in Labels \ {"markPaid", "upsert", "upsertInviter"},
                Goto(r, label), TxnPaysOneOrder', PaidByToday',
                label = "readInviter" => RewardLength[Plan(r)] > 0,
                r \in cancelled => dbErrors' # 0,
                dbErrors' = 0 /\ label \in Crediting \ BeforeUpsert => credits'[TheOrder(r)] = 1
         PROVE  Serial'
  <2>1. /\ pc'[r] = label /\ cancelled' = cancelled
        /\ Plan(r)' = Plan(r) /\ TheOrder(r)' = TheOrder(r)
    BY <1>1, <1>goto DEF Goto, Plan, TheOrder
  <2>2. QED BY <1>goto, <2>1, MovingAlone
<1>calm. ASSUME NEW r \in Requests
         PROVE  /\ dbErrors = 0 => r \notin cancelled
                /\ pc[r] \in {"readInviter", "upsertInviter"} => RewardLength[Plan(r)] > 0
                /\ dbErrors = 0 /\ pc[r] \in Crediting \ BeforeUpsert => credits[TheOrder(r)] = 1
                /\ \A s \in Requests : s = r
  BY DEF Serial, RewardsInOrder, Alone
<1>labels. /\ {"audit", "findInviter", "readInviter", "upsertInviter", "grantAudit",
               "insertReward"} = Crediting \ BeforeUpsert
           /\ {"getByTxn", "reread", "idle", "readSub", "getOrder", "markPaid", "upsert"} 
                \cap (Crediting \ BeforeUpsert) = {}
           /\ Labels = {"getByTxn", "reread", "idle", "readSub", "getOrder", "markPaid", "upsert"}
                         \cup (Crediting \ BeforeUpsert)
  BY DEF Crediting, BeforeUpsert, Labels
<1>3. ASSUME NEW r \in Requests, AppleVerifyOrder(r) \/ HuaweiVerifyOrder(r) \/ AlipayNotify(r)
      PROVE  Serial'
  <2>1. ASSUME VerifyGetOrder(r) \/ NotifyGetOrder(r) \/ RereadOrder(r)
        PROVE  Serial'
    <3>1. /\ UNCHANGED <<today, orders, dbErrors>> /\ r \notin cancelled
          /\ Return(r) \/ Goto(r, "getByTxn")
      BY <2>1 DEF VerifyGetOrder, NotifyGetOrder, RereadOrder, Refuse, Accept, At
    <3>2. QED BY <3>1, <1>orders, <1>return, <1>goto, <1>labels
  <2>2. ASSUME VerifyGetByTxn(r) \/ NotifyGetByTxn(r)
        PROVE  Serial'
    <3>1. /\ UNCHANGED <<today, orders, dbErrors>> /\ r \notin cancelled
          /\ \/ Return(r)
             \/ Goto(r, "markPaid") /\ OrdersPaidBy(TheTxn(r)) \subseteq {TheOrder(r)}
      BY <2>2 DEF VerifyGetByTxn, NotifyGetByTxn, Refuse, Accept, At
    <3>2. CASE Goto(r, "markPaid") /\ OrdersPaidBy(TheTxn(r)) \subseteq {TheOrder(r)}
      <4>1. /\ pc'[r] = "markPaid" /\ cancelled' = cancelled /\ job' = job
        BY <1>1, <3>2 DEF Goto
      <4>2. MarksUnused'
        BY <1>calm, <3>1, <3>2, <4>1 DEF MarksUnused, OrdersPaidBy, TheTxn, TheOrder
      <4>3. WritesWhatItRead'
        BY <1>calm, <4>1 DEF WritesWhatItRead
      <4>4. RewardsInOrder'
        BY <1>calm, <1>labels, <3>1, <4>1 DEF RewardsInOrder
      <4>5. QED BY <1>orders, <3>1, <4>2, <4>3, <4>4 DEF Serial
    <3>3. QED BY <3>1, <3>2, <1>orders, <1>return
  <2>3. ASSUME MarkOrderPaid(r)
        PROVE  Serial'
    <3>1. /\ pc[r] = "markPaid" /\ r \notin cancelled /\ UNCHANGED <<today, dbErrors>>
          /\ \/ UNCHANGED orders /\ Goto(r, "reread")
             \/ /\ orders' = [orders EXCEPT ![TheOrder(r)] = PaidRow(r)]
                /\ Goto(r, "readSub")
      BY <2>3 DEF MarkOrderPaid, At
    <3>2. TxnPaysOneOrder' /\ PaidByToday'
      BY <1>orders, <3>1, PayingAlone
    <3>3. QED BY <3>1, <3>2, <1>goto, <1>labels
  <2>4. QED BY <1>3, <2>1, <2>2, <2>3 DEF AppleVerifyOrder, HuaweiVerifyOrder, AlipayNotify
<1>4. ASSUME NEW r \in Requests,
             ExtendQingyuSubscriptionAfterPayment(r) \/ OnInviteeRechargePaid(r)
      PROVE  Serial'
  <2>1. /\ pc[r] \in Crediting /\ pc[r] # "idle" /\ r \notin cancelled
        /\ UNCHANGED <<today, orders, dbErrors>>
    BY <1>4 DEF ExtendQingyuSubscriptionAfterPayment, ReadSubscription, UpsertSubscription,
       InsertRechargeRecord, OnInviteeRechargePaid, FindInviter, ReadInviterSubscription,
       UpsertInviterSubscription, InsertGrantRecord, InsertRechargeReward, At, Crediting, Labels
  <2>2. /\ TheOrder(r) \in Orders /\ orders[TheOrder(r)].status = "paid"
        /\ today \in orders[TheOrder(r)].paidAt .. today
    BY <1>1, <1>2, <2>1, RequestJob, RowShape DEF IInv, CreditorState, PaidByToday
  <2>3. TxnPaysOneOrder' /\ PaidByToday'
    BY <1>orders, <2>1
  <2>4. ASSUME ReadSubscription(r) PROVE Serial'
    <3>1. /\ pc'[r] = "upsert" /\ cancelled' = cancelled /\ job' = job /\ UNCHANGED <<subs, orders>>
          /\ newSub'[r] = ExtendAfterPayment(subs[Owner(r)], Plan(r), today)
      BY <1>1, <2>4 DEF ReadSubscription, Goto, At
    <3>2. MarksUnused'
      BY <1>calm, <3>1 DEF MarksUnused
    <3>3. WritesWhatItRead'
      BY <1>calm, <2>1, <2>2, <3>1 DEF WritesWhatItRead, Owner, Plan, TheOrder
    <3>4. RewardsInOrder'
      BY <1>calm, <1>labels, <2>1, <3>1 DEF RewardsInOrder
    <3>5. QED BY <2>3, <3>2, <3>3, <3>4 DEF Serial
  <2>5. ASSUME ReadInviterSubscription(r) PROVE Serial'
    <3>1. /\ pc[r] = "readInviter" /\ pc'[r] = "upsertInviter" /\ cancelled' = cancelled
          /\ job' = job /\ UNCHANGED <<subs, orders, credits, dbErrors>>
          /\ newSub'[r] = ExtendByDays(subs[Inviter(r)], RewardLength[Plan(r)], today)
      BY <1>1, <2>5 DEF ReadInviterSubscription, Goto, At
    <3>2. MarksUnused'
      BY <1>calm, <3>1 DEF MarksUnused
    <3>3. WritesWhatItRead'
      BY <1>calm, <2>1, <2>2, <3>1 DEF WritesWhatItRead, Inviter, Owner, Plan, TheOrder
    <3>4. RewardsInOrder'
      BY <1>calm, <1>labels, <2>1, <3>1 DEF RewardsInOrder, TheOrder, Plan
    <3>5. QED BY <2>3, <3>2, <3>3, <3>4 DEF Serial
  <2>6. ASSUME UpsertSubscription(r) PROVE Serial'
    <3>1. /\ pc[r] = "upsert" /\ Goto(r, "audit")
          /\ credits' = [credits EXCEPT ![TheOrder(r)] = @ + 1]
      BY <2>6 DEF UpsertSubscription, At
    <3>2. credits'[TheOrder(r)] = 1
      BY <1>1, <2>1, <2>2, <3>1 DEF IInv, CreditorState, BeforeUpsert
    <3>3. QED BY <1>goto, <1>labels, <2>1, <2>3, <3>1, <3>2
  <2>7. ASSUME FindInviter(r) PROVE Serial'
    <3>1. /\ pc[r] = "findInviter" /\ UNCHANGED credits
          /\ \/ Return(r)
             \/ Goto(r, "readInviter") /\ RewardLength[Plan(r)] > 0
      BY <2>7 DEF FindInviter, Accept, At
    <3>2. QED BY <1>calm, <1>goto, <1>labels, <1>return, <2>1, <2>3, <3>1
  <2>8. ASSUME \/ InsertRechargeRecord(r) \/ UpsertInviterSubscription(r)
               \/ InsertGrantRecord(r) \/ InsertRechargeReward(r)
        PROVE  Serial'
    <3>1. /\ pc[r] \in {"audit", "upsertInviter", "grantAudit", "insertReward"}
          /\ UNCHANGED credits
          /\ Return(r) \/ \E label \in {"findInviter", "grantAudit", "insertReward"} : Goto(r, label)
      BY <2>8 DEF InsertRechargeRecord, UpsertInviterSubscription, InsertGrantRecord,
         InsertRechargeReward, Accept, At
    <3>2. QED BY <1>calm, <1>goto, <1>labels, <1>return, <2>1, <2>3, <3>1
  <2>9. QED
    BY <1>4, <2>4, <2>5, <2>6, <2>7, <2>8
       DEF ExtendQingyuSubscriptionAfterPayment, OnInviteeRechargePaid
\* A call that fails is counted, if the client had not left before.
<1>5. ASSUME NEW r \in Requests, Fail(r)
      PROVE  Serial'
  <2>1. dbErrors' # 0 /\ UNCHANGED today
    BY <1>1, <1>5, <1>calm DEF Fail, ReadFails, WriteFails, WriteReplyLost, Disconnect, CallFails
  <2>2. ASSUME ReadFails(r) PROVE Serial'
    BY <1>orders, <1>return, <2>2 DEF ReadFails, Refuse, Accept
  <2>3. ASSUME WriteFails(r) PROVE Serial'
    <3>1. /\ UNCHANGED orders
          /\ \/ Return(r)
             \/ \E label \in {"reread", "audit", "findInviter", "insertReward"} : Goto(r, label)
      BY <2>3 DEF WriteFails, Accept
    <3>2. QED BY <1>goto, <1>labels, <1>orders, <1>return, <2>1, <3>1
  <2>4. ASSUME WriteReplyLost(r) PROVE Serial'
    <3>1. \/ /\ pc[r] = "markPaid" /\ Goto(r, "reread")
             /\ orders' = [orders EXCEPT ![TheOrder(r)] = PaidRow(r)]
          \/ UNCHANGED orders /\ Return(r)
      BY <2>4 DEF WriteReplyLost, Accept
    <3>2. QED BY <1>goto, <1>labels, <1>orders, <1>return, <2>1, <3>1, PayingAlone
  <2>5. ASSUME Disconnect(r) PROVE Serial'
    <3>1. UNCHANGED <<today, orders, subs, pc, job, newSub>>
      BY <2>5 DEF Disconnect
    <3>2. MarksUnused' /\ WritesWhatItRead'
      BY <3>1 DEF Serial, MarksUnused, WritesWhatItRead, OrdersPaidBy, TheTxn, TheOrder, Owner,
         Plan, Inviter
    <3>3. RewardsInOrder'
      BY <2>1, <3>1 DEF Serial, RewardsInOrder, Plan, TheOrder
    <3>4. QED BY <1>orders, <3>1, <3>2, <3>3 DEF Serial
  <2>6. QED BY <1>5, <2>2, <2>3, <2>4, <2>5 DEF Fail
<1>6. ASSUME NEW o \in Orders, CreateOrder(o)
      PROVE  Serial'
  <2>1. /\ \A p \in Orders : orders'[p].txn = orders[p].txn /\ orders'[p].paidAt = orders[p].paidAt
        /\ UNCHANGED <<today, subs, pc, job, newSub, cancelled, credits, dbErrors>>
    BY <1>6, RowShape DEF CreateOrder, PendingRow, NoOrderRow, IInv, TypeOK
  <2>2. TxnPaysOneOrder' /\ PaidByToday'
    BY <1>2, <2>1 DEF TxnPaysOneOrder, PaidByToday, OrdersPaidBy
  <2>3. MarksUnused'
    BY <2>1 DEF Serial, MarksUnused, OrdersPaidBy, TheTxn, TheOrder
  <2>4. WritesWhatItRead'
    <3> SUFFICES ASSUME NEW r \in Requests, pc[r] \in {"upsert", "upsertInviter"}
                 PROVE  orders'[TheOrder(r)].paidAt = orders[TheOrder(r)].paidAt
      BY <2>1 DEF Serial, WritesWhatItRead, TheOrder, Owner, Plan, Inviter
    <3>1. QED BY <2>1, RequestJob
  <2>5. RewardsInOrder'
    BY <2>1 DEF Serial, RewardsInOrder, Plan, TheOrder
  <2>6. QED BY <2>2, <2>3, <2>4, <2>5 DEF Serial
<1>7. ASSUME NEW r \in Requests, NEW u, NEW o, NEW t, Serve(r, u, o, t)
      PROVE  Serial'
  <2>1. pc'[r] = "getOrder" /\ UNCHANGED <<today, orders, cancelled, dbErrors>>
    BY <1>1, <1>7 DEF Serve
  <2>2. QED BY <1>calm, <1>labels, <1>orders, <2>1, MovingAlone
<1>8. CASE NextDay
  <2>1. today' = today + 1 /\ UNCHANGED <<orders, subs, pc, job, newSub, cancelled, credits, dbErrors>>
    BY <1>8 DEF NextDay
  <2>2. TxnPaysOneOrder' /\ PaidByToday'
    BY <1>1, <1>2, <2>1, RowShape DEF TxnPaysOneOrder, PaidByToday, OrdersPaidBy, IInv
  <2>3. MarksUnused' /\ RewardsInOrder'
    BY <2>1 DEF Serial, MarksUnused, RewardsInOrder, OrdersPaidBy, TheTxn, TheOrder, Plan
  <2>4. WritesWhatItRead'
    <3> SUFFICES ASSUME NEW r \in Requests, pc[r] \in {"upsert", "upsertInviter"},
                        NEW day \in orders[TheOrder(r)].paidAt .. today
                 PROVE  day \in orders[TheOrder(r)].paidAt .. today'
      BY <2>1 DEF Serial, WritesWhatItRead, TheOrder, Owner, Plan, Inviter
    <3>1. orders[TheOrder(r)].paidAt \in Nat
      BY RequestJob, RowShape DEF IInv
    <3>2. QED BY <1>1, <2>1, <3>1
  <2>5. QED BY <2>2, <2>3, <2>4 DEF Serial
<1>9. CASE Crash
  <2>1. /\ UNCHANGED <<today, orders>> /\ cancelled' = {}
        /\ \A r \in Requests : pc'[r] = "idle"
    BY <1>9 DEF Crash
  <2>2. MarksUnused' /\ WritesWhatItRead' /\ RewardsInOrder'
    BY <1>labels, <2>1 DEF MarksUnused, WritesWhatItRead, RewardsInOrder
  <2>3. QED BY <1>orders, <2>1, <2>2 DEF Serial
<1>10. CASE (\E t \in Txns : Purchase(t)) \/ UNCHANGED vars
  <2>1. UNCHANGED <<today, orders, subs, pc, job, newSub, cancelled, credits, dbErrors>>
    BY <1>10 DEF Purchase, vars
  <2>2. MarksUnused' /\ WritesWhatItRead' /\ RewardsInOrder'
    BY <2>1 DEF Serial, MarksUnused, WritesWhatItRead, RewardsInOrder, OrdersPaidBy, TheTxn,
       TheOrder, Owner, Plan, Inviter
  <2>3. QED BY <1>orders, <2>1, <2>2 DEF Serial
<1>11. QED
  BY <1>3, <1>4, <1>5, <1>6, <1>7, <1>8, <1>9, <1>10 DEF Next, PostVerify, Notify, Handle

\* The inductive invariant of requests that do not overlap.
LEMMA AloneInvariance == ASSUME Alone PROVE Spec => []AloneIInv
<1>1. Init => Serial
  BY OrderAssumption
     DEF Init, Serial, TxnPaysOneOrder, OrdersPaidBy, NoOrderRow, MarksUnused, WritesWhatItRead,
         PaidByToday, RewardsInOrder, Crediting
<1>2. IInv /\ Serial /\ [Next]_vars => Serial'
  BY NextSerial
<1>3. IInv /\ Serial => AloneIInv
  BY DEF Serial, AloneIInv
<1>4. QED BY <1>1, <1>2, <1>3, Invariance, PTL DEF Spec

\* While requests do not overlap, one transaction pays for one order, whatever
\* fails and however often the server is restarted: the look-up of the
\* transaction is then still true at the update (store/mysql.go:229).
THEOREM OneOrderPerTxn == ASSUME Alone PROVE Spec => []TxnPaysOneOrder
<1>1. AloneIInv => TxnPaysOneOrder BY DEF AloneIInv
<1>2. QED BY <1>1, AloneInvariance, PTL

\* The steps that touch what the ledger sees; all others leave the orders, the
\* subscriptions and the credits alone.
LEMMA LedgerSteps ==
  ASSUME [Next]_vars
  PROVE  \/ \E o \in Orders : CreateOrder(o)
         \/ \E r \in Requests : \/ MarkOrderPaid(r) /\ orders[TheOrder(r)].status = "pending"
                                \/ UpsertSubscription(r) \/ UpsertInviterSubscription(r)
                                \/ WriteReplyLost(r)
         \/ UNCHANGED <<orders, subs, history>> /\ today' \in {today, today + 1}
<1> USE DEF tables, history
<1>1. ASSUME NEW r \in Requests, Handle(r),
             ~MarkOrderPaid(r), ~UpsertSubscription(r), ~UpsertInviterSubscription(r)
      PROVE  UNCHANGED <<orders, subs, history, today>>
  BY <1>1 DEF Handle, AppleVerifyOrder, HuaweiVerifyOrder, AlipayNotify, VerifyGetOrder,
     NotifyGetOrder, VerifyGetByTxn, NotifyGetByTxn, RereadOrder,
     ExtendQingyuSubscriptionAfterPayment, ReadSubscription, InsertRechargeRecord,
     OnInviteeRechargePaid, FindInviter, ReadInviterSubscription, InsertGrantRecord,
     InsertRechargeReward
<1>2. ASSUME NEW r \in Requests, MarkOrderPaid(r), orders[TheOrder(r)].status # "pending"
      PROVE  UNCHANGED <<orders, subs, history, today>>
  BY <1>2 DEF MarkOrderPaid
<1>3. ASSUME NEW r \in Requests, Fail(r), ~WriteReplyLost(r)
      PROVE  UNCHANGED <<orders, subs, history, today>>
  BY <1>3 DEF Fail, ReadFails, WriteFails, Disconnect
<1>4. CASE \/ \E t \in Txns : Purchase(t)
           \/ \E r \in Requests, u \in Users, o \in Orders, t \in Txns : PostVerify(r, u, o, t)
           \/ \E r \in Requests, t \in Txns : Notify(r, t)
           \/ Crash \/ UNCHANGED vars
  BY <1>4 DEF Purchase, PostVerify, Notify, Serve, Crash, vars
<1>5. CASE NextDay
  BY <1>5 DEF NextDay
<1>6. QED BY <1>1, <1>2, <1>3, <1>4, <1>5 DEF Next

\* Membership arithmetic takes nothing away: a purchase or a gift of days
\* leaves a row no shorter than it was, and a lifetime is kept
\* (extend.go:18-45, 80-101).
LEMMA ExtensionsGrow ==
  ASSUME NEW row \in Row, NEW plan \in Plans, NEW days \in Nat, NEW day \in Nat,
         NEW new \in {ExtendAfterPayment(row, plan, day), ExtendByDays(row, days, day)}
  PROVE  new.lifetime \/ (~row.lifetime /\ new.expires >= row.expires)
<1>1. Anchor(row, day) \in Nat /\ Anchor(row, day) >= row.expires
  BY DEF Anchor, Row
<1>2. plan \notin LifetimePlans => PlanLength[plan] \in Nat
  BY PlanAssumption
<1>3. CASE new = ExtendAfterPayment(row, plan, day)
  <2>1. CASE plan \in LifetimePlans \/ row.lifetime
    BY <1>3, <2>1 DEF ExtendAfterPayment, LifetimeRow
  <2>2. CASE ~(plan \in LifetimePlans \/ row.lifetime)
    <3>1. new.expires = Anchor(row, day) + PlanLength[plan]
      BY <1>3, <2>2 DEF ExtendAfterPayment
    <3>2. QED BY <1>1, <1>2, <2>2, <3>1 DEF Row
  <2>3. QED BY <2>1, <2>2
<1>4. CASE new = ExtendByDays(row, days, day)
  <2>1. CASE row.lifetime
    BY <1>4, <2>1 DEF ExtendByDays, LifetimeRow
  <2>2. CASE ~row.lifetime
    <3>1. new.expires = Anchor(row, day) + days
      BY <1>4, <2>2 DEF ExtendByDays
    <3>2. QED BY <1>1, <2>2, <3>1 DEF Row
  <2>3. QED BY <2>1, <2>2
<1>5. QED BY <1>3, <1>4

\* While requests do not overlap, no step makes a membership shorter or takes a
\* lifetime away: the row a handler writes is the row it replaces, extended.
THEOREM NeverShrinks == ASSUME Alone PROVE Spec => MembershipNeverShrinks
<1>1. ASSUME AloneIInv, [Next]_vars, NEW u \in Users
      PROVE  \/ subs'[u].lifetime
             \/ ~subs[u].lifetime /\ subs'[u].expires >= subs[u].expires
  <2>1. /\ subs \in [Users -> Row] /\ today \in Nat /\ WritesWhatItRead /\ IInv
        /\ subs[u].expires \in Nat /\ subs[u].lifetime \in BOOLEAN
    BY <1>1 DEF AloneIInv, IInv, TypeOK, Row
  <2>2. CASE UNCHANGED subs
    BY <2>1, <2>2
  <2>day. ASSUME NEW r \in Requests, pc[r] # "idle"
          PROVE  /\ orders[TheOrder(r)].paidAt .. today \subseteq Nat
                 /\ Owner(r) \in Users /\ Plan(r) \in Plans /\ RewardLength[Plan(r)] \in Nat
    BY <2>1, <2>day, RequestJob, RowShape DEF IInv
  <2>3. ASSUME NEW r \in Requests, pc[r] = "upsert",
               subs' = [subs EXCEPT ![Owner(r)] = newSub[r]]
        PROVE  \/ subs'[u].lifetime
               \/ ~subs[u].lifetime /\ subs'[u].expires >= subs[u].expires
    <3>1. PICK day \in Nat : newSub[r] = ExtendAfterPayment(subs[Owner(r)], Plan(r), day)
      BY <2>1, <2>3, <2>day DEF WritesWhatItRead
    <3>2. CASE u = Owner(r)
      <4>1. subs'[u] = ExtendAfterPayment(subs[u], Plan(r), day)
        BY <2>1, <2>3, <3>1, <3>2
      <4>2. QED BY <2>1, <2>3, <2>day, <4>1, ExtensionsGrow
    <3>3. CASE u # Owner(r)
      BY <2>1, <2>3, <3>3
    <3>4. QED BY <3>2, <3>3
  <2>4. ASSUME NEW r \in Requests, pc[r] = "upsertInviter",
               subs' = [subs EXCEPT ![Inviter(r)] = newSub[r]]
        PROVE  \/ subs'[u].lifetime
               \/ ~subs[u].lifetime /\ subs'[u].expires >= subs[u].expires
    <3>1. PICK day \in Nat :
            newSub[r] = ExtendByDays(subs[Inviter(r)], RewardLength[Plan(r)], day)
      BY <2>1, <2>4, <2>day DEF WritesWhatItRead
    <3>2. CASE u = Inviter(r)
      <4>1. subs'[u] = ExtendByDays(subs[u], RewardLength[Plan(r)], day)
        BY <2>1, <2>4, <3>1, <3>2
      <4>2. QED BY <2>1, <2>4, <2>day, <4>1, ExtensionsGrow
    <3>3. CASE u # Inviter(r)
      BY <2>1, <2>4, <3>3
    <3>4. QED BY <3>2, <3>3
  <2>5. CASE \E o \in Orders : CreateOrder(o)
    BY <2>2, <2>5 DEF CreateOrder
  <2>6. ASSUME NEW r \in Requests, \/ MarkOrderPaid(r) \/ UpsertSubscription(r)
                                   \/ UpsertInviterSubscription(r) \/ WriteReplyLost(r)
        PROVE  \/ UNCHANGED subs
               \/ pc[r] = "upsert" /\ subs' = [subs EXCEPT ![Owner(r)] = newSub[r]]
               \/ pc[r] = "upsertInviter" /\ subs' = [subs EXCEPT ![Inviter(r)] = newSub[r]]
    BY <2>6 DEF MarkOrderPaid, UpsertSubscription, UpsertInviterSubscription, WriteReplyLost, At
  <2>7. QED BY <1>1, <2>2, <2>3, <2>4, <2>5, <2>6, LedgerSteps
<1>2. AloneIInv /\ [Next]_vars =>
        \A u \in Users :
          \/ subs'[u].lifetime
          \/ ~subs[u].lifetime /\ subs'[u].expires >= subs[u].expires
  BY <1>1
<1>3. QED BY <1>2, AloneInvariance, PTL DEF Spec, MembershipNeverShrinks

-----------------------------------------------------------------------------
(***************************************************************************)
(* Refinement.  While requests do not overlap and no call fails, the       *)
(* update of the order is the ledger's Pay, the two upserts are its Credit *)
(* and Reward, the day is its day, and every other step stutters, restarts *)
(* included.                                                               *)
(***************************************************************************)
\* Where no call may fail none does.
LEMMA NoCallFails ==
  ASSUME AloneIInv, dbErrors = 0, MaxDBErrors = 0, [Next]_vars
  PROVE  dbErrors' = 0 /\ \A r \in Requests : ~Fail(r)
<1>1. \A r \in Requests : ~Fail(r)
  BY DEF AloneIInv, RewardsInOrder, Fail, ReadFails, WriteFails, WriteReplyLost, Disconnect,
     CallFails
<1>2. dbErrors' = dbErrors
  BY <1>1
     DEF Next, CreateOrder, Purchase, PostVerify, Notify, Serve, Handle, AppleVerifyOrder,
     HuaweiVerifyOrder, AlipayNotify, VerifyGetOrder, NotifyGetOrder, VerifyGetByTxn,
     NotifyGetByTxn, MarkOrderPaid, RereadOrder, ExtendQingyuSubscriptionAfterPayment,
     ReadSubscription, UpsertSubscription, InsertRechargeRecord, OnInviteeRechargePaid,
     FindInviter, ReadInviterSubscription, UpsertInviterSubscription, InsertGrantRecord,
     InsertRechargeReward, NextDay, Crash, vars, faults
<1>3. QED BY <1>1, <1>2

\* The ledger computes rows as the handlers do.
LEMMA SameArithmetic ==
  ASSUME NEW row, NEW plan, NEW days, NEW day
  PROVE  /\ Ledger!ExtendAfterPayment(row, plan, day) = ExtendAfterPayment(row, plan, day)
         /\ Ledger!ExtendByDays(row, days, day) = ExtendByDays(row, days, day)
         /\ Ledger!NoRow = NoRow
  BY DEF Ledger!ExtendAfterPayment, ExtendAfterPayment, Ledger!ExtendByDays, ExtendByDays,
     Ledger!Anchor, Anchor, Ledger!LifetimeRow, LifetimeRow, Ledger!NoRow, NoRow

\* The update that makes an order paid is the ledger's payment.
LEMMA MarkPaidIsPay ==
  ASSUME AloneIInv, NEW r \in Requests, MarkOrderPaid(r), NEW o, o = TheOrder(r),
         NEW t, t = TheTxn(r), orders[o].status = "pending"
  PROVE  Ledger!Pay(o, t)
<1>1. /\ pc[r] = "markPaid" /\ orders' = [orders EXCEPT ![o] = PaidRow(r)]
      /\ UNCHANGED <<today, subs, credits, inviterCredits>>
  BY DEF MarkOrderPaid, At, history
<1>2. /\ o \in Orders /\ t \in Txns /\ IInv /\ orders \in [Orders -> OrderRow]
      /\ orders[o].txn = NoTxn /\ NoTxn \notin Txns
  BY <1>1, RequestJob, RowShape, OrderAssumption DEF AloneIInv, IInv, TypeOK
<1>3. \A p \in Orders : orders[p].txn # t
  BY <1>1, <1>2 DEF AloneIInv, MarksUnused, OrdersPaidBy
<1>4. \A p \in Orders : orders'[p] = IF p = o THEN PaidRow(r) ELSE orders[p]
  BY <1>1, <1>2
<1>5. PaidRow(r).txn = t /\ PaidRow(r).paidAt = today
  BY DEF PaidRow
<1>6. /\ [p \in Orders |-> orders'[p].txn] = [[p \in Orders |-> orders[p].txn] EXCEPT ![o] = t]
      /\ [p \in Orders |-> orders'[p].paidAt]
           = [[p \in Orders |-> orders[p].paidAt] EXCEPT ![o] = today]
  BY <1>2, <1>4, <1>5
<1>7. /\ {p \in Orders : credits'[p] > 0} = {p \in Orders : credits[p] > 0}
      /\ {p \in Orders : inviterCredits'[p] > 0} = {p \in Orders : inviterCredits[p] > 0}
  BY <1>1
<1>8. QED BY <1>1, <1>2, <1>3, <1>6, <1>7 DEF Ledger!Pay

\* Writing the row computed for the buyer is the ledger's credit.
LEMMA UpsertIsCredit ==
  ASSUME AloneIInv, NEW r \in Requests, UpsertSubscription(r), NEW o, o = TheOrder(r)
  PROVE  Ledger!Credit(o)
<1>1. /\ pc[r] = "upsert" /\ subs' = [subs EXCEPT ![OwnerOf[o]] = newSub[r]]
      /\ credits' = [credits EXCEPT ![o] = @ + 1]
      /\ UNCHANGED <<today, orders, inviterCredits>>
  BY DEF UpsertSubscription, At, Owner
<1>paid. o \in Orders /\ credits[o] = 0 /\ orders[o].status = "paid" /\ IInv
  BY <1>1, RequestJob DEF AloneIInv, IInv, CreditorState, Crediting, Labels, BeforeUpsert
<1>2. /\ o \in Orders /\ OwnerOf[o] \in Users /\ subs \in [Users -> Row]
      /\ credits \in [Orders -> Nat] /\ credits[o] = 0 /\ orders[o].txn # NoTxn
  BY <1>paid, RowShape, OrderAssumption DEF IInv, TypeOK
<1>3. PICK day \in orders[o].paidAt .. today :
        newSub[r] = ExtendAfterPayment(subs[OwnerOf[o]], PlanOf[o], day)
  BY <1>1 DEF AloneIInv, WritesWhatItRead, Owner, Plan
<1>4. {p \in Orders : credits'[p] > 0} = {p \in Orders : credits[p] > 0} \cup {o}
  BY <1>1, <1>2
<1>5. subs' = [subs EXCEPT ![OwnerOf[o]] = Ledger!ExtendAfterPayment(@, PlanOf[o], day)]
  <2>1. Ledger!ExtendAfterPayment(subs[OwnerOf[o]], PlanOf[o], day) = newSub[r]
    BY ONLY <1>3, SameArithmetic
  <2>2. subs' = [subs EXCEPT ![OwnerOf[o]] = newSub[r]]
    BY <1>1
  <2>3. QED BY ONLY <2>1, <2>2
<1>6. /\ [p \in Orders |-> orders[p].txn][o] # NoTxn
      /\ o \notin {p \in Orders : credits[p] > 0}
      /\ [p \in Orders |-> orders[p].paidAt][o] = orders[o].paidAt
  BY <1>2
<1>7. QED BY <1>1, <1>4, <1>5, <1>6 DEF Ledger!Credit

\* Writing the row computed for the inviter is the ledger's reward, the buyer
\* having been credited.
LEMMA UpsertIsReward ==
  ASSUME AloneIInv, dbErrors = 0, NEW r \in Requests, UpsertInviterSubscription(r),
         NEW o, o = TheOrder(r)
  PROVE  Ledger!Reward(o)
<1> DEFINE inviter == InviterOf[OwnerOf[o]]
           days == RewardLength[PlanOf[o]]
<1>1. /\ pc[r] = "upsertInviter" /\ subs' = [subs EXCEPT ![inviter] = newSub[r]]
      /\ inviterCredits' = [inviterCredits EXCEPT ![o] = @ + 1]
      /\ UNCHANGED <<today, orders, credits>>
  BY DEF UpsertInviterSubscription, At, Inviter, Owner
<1>2. /\ o \in Orders /\ inviter # NoUser /\ inviter \in Users /\ subs \in [Users -> Row]
      /\ inviterCredits \in [Orders -> Nat] /\ inviterCredits[o] = 0
  BY <1>1, RequestJob
     DEF AloneIInv, IInv, TypeOK, CreditorState, Crediting, Labels, BeforeReward, InviterIsKnown,
         Inviter, Owner
<1>3. credits[o] = 1 /\ days > 0
  BY <1>1 DEF AloneIInv, RewardsInOrder, Crediting, Labels, BeforeUpsert, Plan
<1>4. PICK day \in orders[o].paidAt .. today : newSub[r] = ExtendByDays(subs[inviter], days, day)
  BY <1>1 DEF AloneIInv, WritesWhatItRead, Inviter, Owner, Plan
<1>5. {p \in Orders : inviterCredits'[p] > 0} = {p \in Orders : inviterCredits[p] > 0} \cup {o}
  BY <1>1, <1>2
<1>6. subs' = [subs EXCEPT ![inviter] = Ledger!ExtendByDays(@, days, day)]
  <2>1. Ledger!ExtendByDays(subs[inviter], days, day) = newSub[r]
    BY ONLY <1>4, SameArithmetic
  <2>2. subs' = [subs EXCEPT ![inviter] = newSub[r]]
    BY <1>1
  <2>3. QED BY ONLY <2>1, <2>2
<1>7. /\ o \in {p \in Orders : credits[p] > 0} \ {p \in Orders : inviterCredits[p] > 0}
      /\ [p \in Orders |-> orders[p].paidAt][o] = orders[o].paidAt
  BY <1>2, <1>3
<1>8. QED BY <1>1, <1>2, <1>3, <1>5, <1>6, <1>7 DEF Ledger!Reward

\* Serving requests one at a time, with a database that answers, the handlers
\* pay and credit as the ledger does: each payment, credit and reward happens
\* at most once, in one step, in that order, on top of the row as it is at that
\* moment.  Restarts only leave something out.
THEOREM Refinement == ASSUME Alone, MaxDBErrors = 0 PROVE Spec => ImplementsLedger
<1>1. Init => Ledger!Init /\ dbErrors = 0
  <2> SUFFICES ASSUME Init PROVE Ledger!Init
    BY DEF Init
  <2>1. /\ \A o \in Orders : orders[o] = NoOrderRow /\ credits[o] = 0 /\ inviterCredits[o] = 0
        /\ today = 1 /\ subs = [u \in Users |-> NoRow]
    BY DEF Init
  <2>2. NoRow = Ledger!NoRow
    BY DEF NoRow, Ledger!NoRow
  <2>3. QED BY <2>1, <2>2 DEF Ledger!Init, NoOrderRow
<1>2. AloneIInv /\ dbErrors = 0 /\ [Next]_vars => (dbErrors = 0)'
  BY NoCallFails
<1>3. AloneIInv /\ dbErrors = 0 /\ [Next]_vars => [Ledger!Next]_Ledger!vars
  <2> SUFFICES ASSUME AloneIInv, dbErrors = 0, [Next]_vars
               PROVE  [Ledger!Next]_Ledger!vars
    OBVIOUS
  <2>quiet. ASSUME \A o \in Orders : orders'[o].txn = orders[o].txn /\ orders'[o].paidAt = orders[o].paidAt,
                   UNCHANGED <<subs, credits, inviterCredits>>
            PROVE  UNCHANGED <<[o \in Orders |-> orders[o].txn], [o \in Orders |-> orders[o].paidAt],
                               subs, {o \in Orders : credits[o] > 0},
                               {o \in Orders : inviterCredits[o] > 0}>>
    BY <2>quiet
  <2>1. ASSUME NEW o \in Orders, CreateOrder(o)
        PROVE  UNCHANGED Ledger!vars
    <3>1. \A p \in Orders : orders'[p].txn = orders[p].txn /\ orders'[p].paidAt = orders[p].paidAt
      BY <2>1, RowShape DEF CreateOrder, PendingRow, NoOrderRow, AloneIInv, IInv, TypeOK
    <3>2. UNCHANGED <<today, subs, credits, inviterCredits>>
      BY <2>1 DEF CreateOrder, history
    <3>3. QED BY <2>quiet, <3>1, <3>2 DEF Ledger!vars
  <2>2. ASSUME NEW r \in Requests, \/ MarkOrderPaid(r) /\ orders[TheOrder(r)].status = "pending"
                                   \/ UpsertSubscription(r) \/ UpsertInviterSubscription(r)
        PROVE  Ledger!Next
    <3>o. PICK o, t : o = TheOrder(r) /\ t = TheTxn(r)
      OBVIOUS
    <3>1. o \in Orders /\ t \in Txns
      BY <2>2, <3>o, RequestJob
         DEF AloneIInv, MarkOrderPaid, UpsertSubscription, UpsertInviterSubscription, At
    <3>2. Ledger!Pay(o, t) \/ Ledger!Credit(o) \/ Ledger!Reward(o)
      BY <2>2, <3>o, MarkPaidIsPay, UpsertIsCredit, UpsertIsReward
    <3>3. QED BY <3>1, <3>2 DEF Ledger!Next
  <2>3. ASSUME UNCHANGED <<orders, subs, history>>, today' \in {today, today + 1}
        PROVE  [Ledger!Next]_Ledger!vars
    <3>1. CASE today' = today
      BY <2>3, <2>quiet, <3>1 DEF Ledger!vars, history
    <3>2. CASE today' = today + 1
      BY <2>3, <2>quiet, <3>2 DEF Ledger!Next, Ledger!NextDay, history
    <3>3. QED BY <2>3, <3>1, <3>2
  <2>4. \A r \in Requests : ~WriteReplyLost(r)
    BY NoCallFails DEF Fail
  <2>5. QED BY <2>1, <2>2, <2>3, <2>4, LedgerSteps
<1>4. QED
  BY <1>1, <1>2, <1>3, AloneInvariance, PTL DEF Spec, ImplementsLedger, Ledger!Spec
=============================================================================
