---------------------------- MODULE OrderPayment ----------------------------
(***************************************************************************)
(* How an order becomes paid and how the payment becomes membership: the   *)
(* handlers of internal/api/server.go (Apple and Huawei verification, and  *)
(* the crediting they share) and internal/api/alipay_handlers.go (Alipay's *)
(* asynchronous notification) over the tables of internal/store.           *)
(*                                                                         *)
(* Every HTTP request is a goroutine of its own; nothing serialises two of *)
(* them.  A request is modelled as a process whose steps are its database  *)
(* calls, one call per step, because each call is one autocommitted        *)
(* statement and every other request may run between two of them.  A call  *)
(* may fail (connection lost, or the request's context cancelled because   *)
(* its client went away, in which case every later call of it fails too),  *)
(* and the server may die and be restarted between any two steps.          *)
(*                                                                         *)
(* An order row's owner and plan are fixed when it is inserted, so they    *)
(* are constants of the order.  A gateway transaction is a payment the     *)
(* user may make at Apple, Huawei or Alipay; what was bought with it is a  *)
(* plan: the product of an Apple or Huawei receipt, and for Alipay the     *)
(* amount, the prices of the plans being all different                     *)
(* (config.PlanAmountFen).  A receipt for a transaction that was never     *)
(* paid does not verify.  An Apple or Huawei receipt names no order, so    *)
(* whoever holds it may send it with any order; an Alipay payment names    *)
(* its order.                                                              *)
(*                                                                         *)
(* Left out: qingyuGuard.invalidate (server.go:728), which drops an        *)
(* in-process copy of the WebDAV credentials that does not depend on the   *)
(* subscription, and the log lines.                                        *)
(***************************************************************************)
EXTENDS Subscription

CONSTANTS
  Users, Orders, Txns,
  Requests,        \* request goroutines that may be live at the same time
  OwnerOf,         \* orders.user_id
  PlanOf,          \* orders.plan_id
  ChannelOf,       \* the gateway a transaction belongs to
  PaidPlan,        \* what the transaction bought
  PaidOrder,       \* the order an Alipay transaction names
  InviterOf,       \* user_referrals: who invited a user, or NoUser
  NoUser, NoTxn, NoJob,
  MaxDay,          \* bound: the last day of the behaviour
  MaxDBErrors,     \* bound: failing calls and departed clients
  MaxCrashes       \* bound: restarts of the server

Channels == {"apple", "huawei", "alipay"}
AlipayTxns == {t \in Txns : ChannelOf[t] = "alipay"}

ASSUME OrderAssumption ==
  /\ OwnerOf \in [Orders -> Users]
  /\ PlanOf \in [Orders -> Plans]
  /\ ChannelOf \in [Txns -> Channels]
  /\ PaidPlan \in [Txns -> Plans]
  /\ PaidOrder \in [AlipayTxns -> Orders]
  /\ InviterOf \in [Users -> Users \cup {NoUser}]
  /\ NoUser \notin Users
  /\ NoTxn \notin Txns
  /\ NoJob \notin [user : Users, order : Orders, txn : Txns]
  /\ MaxDay \in Nat /\ MaxDBErrors \in Nat /\ MaxCrashes \in Nat

VARIABLES
  today,
  orders,        \* table orders: status, transaction_id, paid_at
  subs,          \* table subscriptions
  recharges,     \* rows of membership_recharge_records per order
  grants,        \* rows of membership_grant_records per order
  rewards,       \* orders with a row in referral_recharge_rewards
  purchased,     \* the transactions the gateway has charged for
  pc,            \* where each request stands
  job,           \* what it was asked: caller, order, transaction
  newSub,        \* the subscriptions row it has computed and will write
  cancelled,     \* requests whose context is cancelled
  told,          \* orders some client was answered "paid" for
  acked,         \* paid Alipay transactions answered "success"
  credits,       \* history: times the order extended its owner's membership
  inviterCredits,\* history: times the order extended the inviter's
  dbErrors, crashes

tables == <<orders, subs, recharges, grants, rewards>>
history == <<credits, inviterCredits>>
answers == <<told, acked>>
faults == <<dbErrors, crashes>>
vars == <<today, tables, purchased, pc, job, newSub, cancelled, answers,
          history, faults>>

-----------------------------------------------------------------------------
Job == [user : Users, order : Orders, txn : Txns]
NoOrderRow == [status |-> "none", txn |-> NoTxn, paidAt |-> 0]
PendingRow == [status |-> "pending", txn |-> NoTxn, paidAt |-> 0]
PaidRows == [status : {"paid"}, txn : Txns, paidAt : Nat \ {0}]
OrderRow == {NoOrderRow, PendingRow} \cup PaidRows

Labels == {"idle", "getOrder", "getByTxn", "markPaid", "reread",
           "readSub", "upsert", "audit",
           "findInviter", "readInviter", "upsertInviter",
           "grantAudit", "insertReward"}

TypeOK ==
  /\ today \in Nat \ {0}
  /\ orders \in [Orders -> OrderRow]
  /\ subs \in [Users -> Row]
  /\ recharges \in [Orders -> Nat]
  /\ grants \in [Orders -> Nat]
  /\ rewards \subseteq Orders
  /\ purchased \subseteq Txns
  /\ pc \in [Requests -> Labels]
  /\ job \in [Requests -> Job \cup {NoJob}]
  /\ \A r \in Requests : pc[r] # "idle" => job[r] \in Job
  /\ newSub \in [Requests -> Row]
  /\ cancelled \subseteq Requests
  /\ told \subseteq Orders
  /\ acked \subseteq Txns
  /\ credits \in [Orders -> Nat]
  /\ inviterCredits \in [Orders -> Nat]
  /\ dbErrors \in Nat
  /\ crashes \in Nat

Init ==
  /\ today = 1
  /\ orders = [o \in Orders |-> NoOrderRow]
  /\ subs = [u \in Users |-> NoRow]
  /\ recharges = [o \in Orders |-> 0]
  /\ grants = [o \in Orders |-> 0]
  /\ rewards = {}
  /\ purchased = {}
  /\ pc = [r \in Requests |-> "idle"]
  /\ job = [r \in Requests |-> NoJob]
  /\ newSub = [r \in Requests |-> NoRow]
  /\ cancelled = {}
  /\ told = {} /\ acked = {}
  /\ credits = [o \in Orders |-> 0]
  /\ inviterCredits = [o \in Orders |-> 0]
  /\ dbErrors = 0 /\ crashes = 0

-----------------------------------------------------------------------------
(***************************************************************************)
(* The request a goroutine serves.                                         *)
(***************************************************************************)
TheOrder(r) == job[r].order
TheTxn(r) == job[r].txn
Owner(r) == OwnerOf[TheOrder(r)]
Plan(r) == PlanOf[TheOrder(r)]
Inviter(r) == InviterOf[Owner(r)]
Channel(r) == ChannelOf[TheTxn(r)]

Goto(r, label) ==
  /\ pc' = [pc EXCEPT ![r] = label]
  /\ UNCHANGED <<job, cancelled, answers>>

\* The handler returns: the goroutine and all it held are gone.
Return(r) ==
  /\ pc' = [pc EXCEPT ![r] = "idle"]
  /\ job' = [job EXCEPT ![r] = NoJob]
  /\ newSub' = [newSub EXCEPT ![r] = NoRow]
  /\ cancelled' = cancelled \ {r}

\* It returns an error (Alipay: "fail", so that the gateway sends it again).
Refuse(r) == Return(r) /\ UNCHANGED answers

\* It returns that the order is paid (Alipay: "success").  A client that went
\* away does not hear it.
Accept(r) ==
  /\ Return(r)
  /\ IF r \in cancelled THEN UNCHANGED answers
     ELSE IF Channel(r) = "alipay"
     THEN acked' = acked \cup ({TheTxn(r)} \cap purchased) /\ UNCHANGED told
     ELSE told' = told \cup {TheOrder(r)} /\ UNCHANGED acked

At(r, label) == pc[r] = label /\ r \notin cancelled

-----------------------------------------------------------------------------
(***************************************************************************)
(* The users and the gateways.                                             *)
(***************************************************************************)
CreateOrder(o) ==
  /\ orders[o].status = "none"
  /\ orders' = [orders EXCEPT ![o] = PendingRow]
  /\ UNCHANGED <<today, subs, recharges, grants, rewards, purchased, pc, job,
                 newSub, cancelled, answers, history, faults>>

\* The gateway charges the user.  An Alipay payment was prepared by the
\* app-pay or page-pay handler, which wants its order in the table.
Purchase(t) ==
  /\ t \notin purchased
  /\ ChannelOf[t] = "alipay" => orders[PaidOrder[t]].status # "none"
  /\ purchased' = purchased \cup {t}
  /\ UNCHANGED <<today, tables, pc, job, newSub, cancelled, answers, history,
                 faults>>

Serve(r, u, o, t) ==
  /\ pc[r] = "idle"
  /\ pc' = [pc EXCEPT ![r] = "getOrder"]
  /\ job' = [job EXCEPT ![r] = [user |-> u, order |-> o, txn |-> t]]
  /\ UNCHANGED <<today, tables, purchased, newSub, cancelled, answers,
                 history, faults>>

\* A client posts a receipt for an order, as often as it likes.
PostVerify(r, u, o, t) == ChannelOf[t] # "alipay" /\ Serve(r, u, o, t)

\* Alipay notifies, and notifies again, in any order and at any time.
Notify(r, t) ==
  /\ ChannelOf[t] = "alipay"
  /\ Serve(r, OwnerOf[PaidOrder[t]], PaidOrder[t], t)

NextDay ==
  /\ today < MaxDay
  /\ today' = today + 1
  /\ UNCHANGED <<tables, purchased, pc, job, newSub, cancelled, answers,
                 history, faults>>

-----------------------------------------------------------------------------
(***************************************************************************)
(* The calls of the verification handlers before the order is paid.        *)
(***************************************************************************)

\* Variant: a receipt is taken at its word.
VerifiedUnpaid(r) == PaidPlan[TheTxn(r)] = Plan(r)

\* The receipt checks out: it was really paid, and for this order's plan.
Verified(r) == TheTxn(r) \in purchased /\ PaidPlan[TheTxn(r)] = Plan(r)

\* GetOrderByID, the checks on its row and, with no call in between, those
\* on the receipt.
VerifyGetOrder(r) ==
  LET row == orders[TheOrder(r)]
      own == row.status # "none" /\ Owner(r) = job[r].user
  IN  /\ At(r, "getOrder") /\ Channel(r) # "alipay"
      /\ \/ ~own /\ Refuse(r)
         \/ own /\ row.status = "paid" /\ Accept(r)
         \/ own /\ row.status = "pending" /\ ~Verified(r) /\ Refuse(r)
         \/ /\ own /\ row.status = "pending" /\ Verified(r)
            /\ Goto(r, "getByTxn") /\ UNCHANGED newSub
      /\ UNCHANGED <<today, tables, purchased, history, faults>>

\* Variant: a repeated notification of a paid order is an error.
NotifyGetOrderOnce(r) ==
  LET row == orders[TheOrder(r)]
      success == TheTxn(r) \in purchased
  IN  /\ At(r, "getOrder") /\ Channel(r) = "alipay"
      /\ \/ row.status \in {"none", "paid"} /\ Refuse(r)
         \/ row.status = "pending" /\ ~success /\ Accept(r)
         \/ row.status = "pending" /\ success /\ ~Verified(r) /\ Refuse(r)
         \/ /\ row.status = "pending" /\ Verified(r)
            /\ Goto(r, "getByTxn") /\ UNCHANGED newSub
      /\ UNCHANGED <<today, tables, purchased, history, faults>>

\* GetOrderByOutTradeNo and the checks on the row and the notification: an
\* unknown or paid order and an unsuccessful trade are acknowledged, a wrong
\* amount is not.
NotifyGetOrder(r) ==
  LET row == orders[TheOrder(r)]
      success == TheTxn(r) \in purchased
  IN  /\ At(r, "getOrder") /\ Channel(r) = "alipay"
      /\ \/ row.status \in {"none", "paid"} /\ Accept(r)
         \/ row.status = "pending" /\ ~success /\ Accept(r)
         \/ row.status = "pending" /\ success /\ ~Verified(r) /\ Refuse(r)
         \/ /\ row.status = "pending" /\ Verified(r)
            /\ Goto(r, "getByTxn") /\ UNCHANGED newSub
      /\ UNCHANGED <<today, tables, purchased, history, faults>>

OrdersPaidBy(t) == {o \in Orders : orders[o].txn = t}

\* Variant: the conflicting order is not looked for.
VerifyGetByTxnNever(r) ==
  /\ At(r, "getByTxn") /\ Channel(r) # "alipay"
  /\ Goto(r, "markPaid")
  /\ UNCHANGED <<today, tables, purchased, newSub, history, faults>>

\* GetOrderByTransactionID: another order paid by this transaction is a
\* conflict, this order paid by it is already done, and no order means go on.
VerifyGetByTxn(r) ==
  LET found == OrdersPaidBy(TheTxn(r))
  IN  /\ At(r, "getByTxn") /\ Channel(r) # "alipay"
      /\ \/ found = {} /\ Goto(r, "markPaid") /\ UNCHANGED newSub
         \/ \E prev \in found : prev # TheOrder(r) /\ Refuse(r)
         \/ TheOrder(r) \in found /\ Accept(r)
      /\ UNCHANGED <<today, tables, purchased, history, faults>>

\* The same for Alipay, which goes on when it finds this order.
NotifyGetByTxn(r) ==
  LET found == OrdersPaidBy(TheTxn(r))
  IN  /\ At(r, "getByTxn") /\ Channel(r) = "alipay"
      /\ \/ found \subseteq {TheOrder(r)} /\ Goto(r, "markPaid") /\ UNCHANGED newSub
         \/ \E prev \in found : prev # TheOrder(r) /\ Refuse(r)
      /\ UNCHANGED <<today, tables, purchased, history, faults>>

\* UPDATE orders ... WHERE out_trade_no = ? AND status = 'pending'
PaidRow(r) == [status |-> "paid", txn |-> TheTxn(r), paidAt |-> today]

\* Variant: the update lacks "AND status = 'pending'".
MarkOrderPaidAnyway(r) ==
  /\ At(r, "markPaid")
  /\ orders' = [orders EXCEPT ![TheOrder(r)] = PaidRow(r)]
  /\ Goto(r, "readSub")
  /\ UNCHANGED <<today, subs, recharges, grants, rewards, purchased, newSub,
                 history, faults>>

MarkOrderPaid(r) ==
  /\ At(r, "markPaid")
  /\ \/ /\ orders[TheOrder(r)].status = "pending"
        /\ orders' = [orders EXCEPT ![TheOrder(r)] = PaidRow(r)]
        /\ Goto(r, "readSub")
     \/ /\ orders[TheOrder(r)].status # "pending"
        /\ UNCHANGED orders
        /\ Goto(r, "reread")
  /\ UNCHANGED <<today, subs, recharges, grants, rewards, purchased, newSub,
                 history, faults>>

\* Variant: a failed update is taken for an update that was done before.
RereadOrderTrusting(r) ==
  /\ At(r, "reread") /\ Accept(r)
  /\ UNCHANGED <<today, tables, purchased, history, faults>>

\* The update failed: was it because this very transaction is in the row?
RereadOrder(r) ==
  /\ At(r, "reread")
  /\ \/ orders[TheOrder(r)].txn = TheTxn(r) /\ Accept(r)
     \/ orders[TheOrder(r)].txn # TheTxn(r) /\ Refuse(r)
  /\ UNCHANGED <<today, tables, purchased, history, faults>>

-----------------------------------------------------------------------------
(***************************************************************************)
(* extendQingyuSubscriptionAfterPayment and the inviter's reward: only the *)
(* request whose update made the order paid comes here.                    *)
(***************************************************************************)
ReadSubscription(r) ==
  /\ At(r, "readSub")
  /\ newSub' = [newSub EXCEPT ![r] =
                  ExtendAfterPayment(subs[Owner(r)], Plan(r), today)]
  /\ Goto(r, "upsert")
  /\ UNCHANGED <<today, tables, purchased, history, faults>>

UpsertSubscription(r) ==
  /\ At(r, "upsert")
  /\ subs' = [subs EXCEPT ![Owner(r)] = newSub[r]]
  /\ credits' = [credits EXCEPT ![TheOrder(r)] = @ + 1]
  /\ Goto(r, "audit")
  /\ UNCHANGED <<today, orders, recharges, grants, rewards, purchased, newSub,
                 inviterCredits, faults>>

\* Variant: the inviter is forgotten.
InsertRechargeRecordLast(r) ==
  /\ At(r, "audit")
  /\ recharges' = [recharges EXCEPT ![TheOrder(r)] = @ + 1]
  /\ Accept(r)
  /\ UNCHANGED <<today, orders, subs, grants, rewards, purchased, history,
                 faults>>

InsertRechargeRecord(r) ==
  /\ At(r, "audit")
  /\ recharges' = [recharges EXCEPT ![TheOrder(r)] = @ + 1]
  /\ Goto(r, "findInviter")
  /\ UNCHANGED <<today, orders, subs, grants, rewards, purchased, newSub,
                 history, faults>>

\* ReferralRechargeRewardExists, then GetInviterUserIDForInvitee: a referral
\* is never changed once it is there, so nothing can come between the two.
FindInviter(r) ==
  /\ At(r, "findInviter")
  /\ IF RewardLength[Plan(r)] > 0 /\ TheOrder(r) \notin rewards
        /\ Inviter(r) # NoUser
     THEN Goto(r, "readInviter") /\ UNCHANGED newSub
     ELSE Accept(r)
  /\ UNCHANGED <<today, tables, purchased, history, faults>>

\* Variant: the days are added to the buyer's row.
ReadBuyerSubscription(r) ==
  /\ At(r, "readInviter")
  /\ newSub' = [newSub EXCEPT ![r] =
                  ExtendByDays(subs[Owner(r)], RewardLength[Plan(r)], today)]
  /\ Goto(r, "upsertInviter")
  /\ UNCHANGED <<today, tables, purchased, history, faults>>

ReadInviterSubscription(r) ==
  /\ At(r, "readInviter")
  /\ newSub' = [newSub EXCEPT ![r] =
                  ExtendByDays(subs[Inviter(r)], RewardLength[Plan(r)], today)]
  /\ Goto(r, "upsertInviter")
  /\ UNCHANGED <<today, tables, purchased, history, faults>>

UpsertInviterSubscription(r) ==
  /\ At(r, "upsertInviter")
  /\ subs' = [subs EXCEPT ![Inviter(r)] = newSub[r]]
  /\ inviterCredits' = [inviterCredits EXCEPT ![TheOrder(r)] = @ + 1]
  /\ Goto(r, "grantAudit")
  /\ UNCHANGED <<today, orders, recharges, grants, rewards, purchased, newSub,
                 credits, faults>>

InsertGrantRecord(r) ==
  /\ At(r, "grantAudit")
  /\ grants' = [grants EXCEPT ![TheOrder(r)] = @ + 1]
  /\ Goto(r, "insertReward")
  /\ UNCHANGED <<today, orders, subs, recharges, rewards, purchased, newSub,
                 history, faults>>

\* referral_recharge_rewards has a unique key on the order: a second insert
\* fails and is logged.
InsertRechargeReward(r) ==
  /\ At(r, "insertReward")
  /\ rewards' = rewards \cup {TheOrder(r)}
  /\ Accept(r)
  /\ UNCHANGED <<today, orders, subs, recharges, grants, purchased, history,
                 faults>>

-----------------------------------------------------------------------------
(***************************************************************************)
(* Failures.  A call fails because the request's context is cancelled, or  *)
(* because the connection is lost: then the statement may have run even    *)
(* though the caller sees an error.  Each call continues where its error   *)
(* branch goes.                                                            *)
(***************************************************************************)
CallFails(r) ==
  \/ r \in cancelled /\ UNCHANGED dbErrors
  \/ r \notin cancelled /\ dbErrors < MaxDBErrors /\ dbErrors' = dbErrors + 1

\* A failing read.
ReadFails(r) ==
  /\ CallFails(r)
  /\ \/ pc[r] \in {"getOrder", "getByTxn", "reread"} /\ Refuse(r)
     \/ pc[r] \in {"readSub", "findInviter", "readInviter"} /\ Accept(r)
  /\ UNCHANGED <<today, tables, purchased, history, crashes>>

\* A failing write that did not run.
WriteFails(r) ==
  /\ CallFails(r)
  /\ \/ pc[r] = "markPaid" /\ Goto(r, "reread") /\ UNCHANGED newSub
     \/ pc[r] = "upsert" /\ Goto(r, "audit") /\ UNCHANGED newSub
     \/ pc[r] = "audit" /\ Goto(r, "findInviter") /\ UNCHANGED newSub
     \/ pc[r] = "grantAudit" /\ Goto(r, "insertReward") /\ UNCHANGED newSub
     \/ pc[r] \in {"upsertInviter", "insertReward"} /\ Accept(r)
  /\ UNCHANGED <<today, tables, purchased, history, crashes>>

\* A write that ran although its caller is told it failed, where that makes
\* a difference.
WriteReplyLost(r) ==
  /\ CallFails(r)
  /\ \/ /\ pc[r] = "markPaid" /\ orders[TheOrder(r)].status = "pending"
        /\ orders' = [orders EXCEPT ![TheOrder(r)] = PaidRow(r)]
        /\ Goto(r, "reread")
        /\ UNCHANGED <<subs, newSub, inviterCredits>>
     \/ /\ pc[r] = "upsertInviter"
        /\ subs' = [subs EXCEPT ![Inviter(r)] = newSub[r]]
        /\ inviterCredits' = [inviterCredits EXCEPT ![TheOrder(r)] = @ + 1]
        /\ Accept(r)
        /\ UNCHANGED orders
  /\ UNCHANGED <<today, recharges, grants, rewards, purchased, credits, crashes>>

\* The client of the request goes away: net/http cancels the context.
Disconnect(r) ==
  /\ pc[r] # "idle" /\ r \notin cancelled
  /\ dbErrors < MaxDBErrors
  /\ dbErrors' = dbErrors + 1
  /\ cancelled' = cancelled \cup {r}
  /\ UNCHANGED <<today, tables, purchased, pc, job, newSub, answers, history,
                 crashes>>

\* The process dies and is started again: its goroutines are gone.
Crash ==
  /\ crashes < MaxCrashes
  /\ crashes' = crashes + 1
  /\ pc' = [r \in Requests |-> "idle"]
  /\ job' = [r \in Requests |-> NoJob]
  /\ newSub' = [r \in Requests |-> NoRow]
  /\ cancelled' = {}
  /\ UNCHANGED <<today, tables, purchased, answers, history, dbErrors>>

-----------------------------------------------------------------------------
AppleVerifyOrder(r) ==
  /\ pc[r] # "idle" /\ Channel(r) = "apple"
  /\ VerifyGetOrder(r) \/ VerifyGetByTxn(r) \/ MarkOrderPaid(r) \/ RereadOrder(r)

HuaweiVerifyOrder(r) ==
  /\ pc[r] # "idle" /\ Channel(r) = "huawei"
  /\ VerifyGetOrder(r) \/ VerifyGetByTxn(r) \/ MarkOrderPaid(r) \/ RereadOrder(r)

AlipayNotify(r) ==
  /\ pc[r] # "idle" /\ Channel(r) = "alipay"
  /\ NotifyGetOrder(r) \/ NotifyGetByTxn(r) \/ MarkOrderPaid(r) \/ RereadOrder(r)

ExtendQingyuSubscriptionAfterPayment(r) ==
  \/ ReadSubscription(r) \/ UpsertSubscription(r) \/ InsertRechargeRecord(r)

OnInviteeRechargePaid(r) ==
  \/ FindInviter(r)
  \/ ReadInviterSubscription(r) \/ UpsertInviterSubscription(r)
  \/ InsertGrantRecord(r) \/ InsertRechargeReward(r)

Handle(r) ==
  \/ AppleVerifyOrder(r) \/ HuaweiVerifyOrder(r) \/ AlipayNotify(r)
  \/ ExtendQingyuSubscriptionAfterPayment(r) \/ OnInviteeRechargePaid(r)

Fail(r) ==
  \/ ReadFails(r) \/ WriteFails(r) \/ WriteReplyLost(r) \/ Disconnect(r)

Next ==
  \/ \E o \in Orders : CreateOrder(o)
  \/ \E t \in Txns : Purchase(t)
  \/ \E r \in Requests, u \in Users, o \in Orders, t \in Txns : PostVerify(r, u, o, t)
  \/ \E r \in Requests, t \in Txns : Notify(r, t)
  \/ \E r \in Requests : Handle(r) \/ Fail(r)
  \/ NextDay
  \/ Crash

Spec == Init /\ [][Next]_vars

(***************************************************************************)
(* Fairness.  A goroutine that is running keeps running, failing calls are *)
(* not required to happen except to a request whose context is cancelled,  *)
(* and Alipay repeats a notification until it is answered "success": it    *)
(* will find the server accepting connections again and again.             *)
(***************************************************************************)
Proceed(r) == Handle(r) \/ (r \in cancelled /\ (ReadFails(r) \/ WriteFails(r)))

Redeliver(t) ==
  /\ t \in purchased \ acked
  /\ \E r \in Requests : Notify(r, t)

FairSpec ==
  /\ Spec
  /\ \A r \in Requests : WF_vars(Proceed(r))
  /\ \A t \in AlipayTxns : SF_vars(Redeliver(t))

-----------------------------------------------------------------------------
(***************************************************************************)
(* Safety.                                                                 *)
(***************************************************************************)

\* However often a receipt is posted or a notification repeated, and
\* whatever fails in between, an order extends its owner's membership at
\* most once, and its owner's inviter's at most once.
CreditAtMostOnce ==
  \A o \in Orders : credits[o] <= 1 /\ inviterCredits[o] <= 1

\* Membership is only ever given for an order that is paid by a transaction
\* the gateway charged for, of this order's plan (amount), and which, if it
\* is Alipay's, was made for this very order.
CreditIsBacked ==
  \A o \in Orders :
    credits[o] + inviterCredits[o] > 0 =>
      LET t == orders[o].txn
      IN  /\ orders[o].status = "paid" /\ t \in purchased
          /\ PaidPlan[t] = PlanOf[o]
          /\ ChannelOf[t] = "alipay" => PaidOrder[t] = o

\* Nobody is told "paid" for an order that is not, and Alipay is never told
\* to stop notifying of a payment while its order is still unpaid.
AnswersAreTrue ==
  /\ \A o \in told : orders[o].status = "paid"
  /\ \A t \in acked : orders[PaidOrder[t]].status = "paid"

\* The grant audit and the reward row, which are what stops an order from
\* rewarding twice and what the inviter is shown, are never there without
\* the days they stand for, whatever fails.
RewardTrailIsBacked ==
  \A o \in Orders :
    /\ grants[o] <= inviterCredits[o]
    /\ o \in rewards => inviterCredits[o] > 0

Rewardable(o) ==
  RewardLength[PlanOf[o]] > 0 /\ InviterOf[OwnerOf[o]] # NoUser

Crediting == Labels \ {"idle", "getOrder", "getByTxn", "markPaid", "reread"}

\* As long as nothing has failed, a paid order that nobody is working on any
\* more has been credited, recorded, and its inviter rewarded with all the
\* records of it: exactly once each.
SettledUnlessFailed ==
  dbErrors = 0 /\ crashes = 0 =>
    \A o \in Orders : orders[o].status = "paid" =>
      \/ \E r \in Requests : pc[r] \in Crediting /\ TheOrder(r) = o
      \/ /\ credits[o] = 1 /\ recharges[o] = 1
         /\ Rewardable(o) =>
              inviterCredits[o] = 1 /\ grants[o] = 1 /\ o \in rewards

\* A paid order stays as it is: no later payment, retry or notification
\* changes which transaction paid it or when.
PaidIsFinal ==
  [][\A o \in Orders : orders[o].status = "paid" => orders'[o] = orders[o]]_vars

\* One gateway transaction pays for one order (GetOrderByTransactionID is
\* there to detect the conflict, store/mysql.go:229).  It holds while the
\* requests do not overlap.
TxnPaysOneOrder ==
  \A t \in Txns : \A p, q \in OrdersPaidBy(t) : p = q

\* No step makes a membership shorter or takes a lifetime membership away.
\* It holds while the requests do not overlap.
MembershipNeverShrinks ==
  [][\A u \in Users :
       \/ subs'[u].lifetime
       \/ ~subs[u].lifetime /\ subs'[u].expires >= subs[u].expires]_vars

(***************************************************************************)
(* The inductive invariant behind the safety properties.  An order's       *)
(* credit is a token: the update that makes the order paid creates it,     *)
(* exactly one request holds it, and it is spent by the upsert or lost.    *)
(***************************************************************************)
BeforeUpsert == {"readSub", "upsert"}
BeforeReward == BeforeUpsert \cup {"audit", "findInviter", "readInviter", "upsertInviter"}

InviterIsKnown ==
  \A r \in Requests :
    pc[r] \in {"readInviter", "upsertInviter", "grantAudit", "insertReward"} =>
      Inviter(r) # NoUser

SoleCreditor ==
  \A r1, r2 \in Requests :
    /\ pc[r1] \in Crediting /\ pc[r2] \in Crediting
    /\ TheOrder(r1) = TheOrder(r2)
    => r1 = r2

CreditorState ==
  \A r \in Requests : pc[r] \in Crediting =>
    LET o == TheOrder(r)
    IN  /\ orders[o].status = "paid"
        /\ pc[r] \in BeforeUpsert => credits[o] = 0
        /\ pc[r] \in BeforeReward =>
             inviterCredits[o] = 0 /\ grants[o] = 0 /\ o \notin rewards
        /\ pc[r] \in {"grantAudit", "insertReward"} => inviterCredits[o] = 1
        /\ pc[r] = "grantAudit" => grants[o] = 0

UntouchedUnlessPaid ==
  \A o \in Orders : orders[o].status # "paid" =>
    /\ credits[o] = 0 /\ inviterCredits[o] = 0
    /\ grants[o] = 0 /\ o \notin rewards

ReceiptsAreChecked ==
  \A r \in Requests : pc[r] # "idle" =>
    /\ Channel(r) = "alipay" => PaidOrder[TheTxn(r)] = TheOrder(r)
    /\ pc[r] # "getOrder" => Verified(r)

PaidIsBacked ==
  \A o \in Orders : orders[o].status = "paid" =>
    LET t == orders[o].txn
    IN  /\ t \in purchased
        /\ PaidPlan[t] = PlanOf[o]
        /\ ChannelOf[t] = "alipay" => PaidOrder[t] = o

PurchaseHasOrder ==
  \A t \in purchased :
    ChannelOf[t] = "alipay" => orders[PaidOrder[t]].status # "none"

AckedIsAlipay == acked \subseteq AlipayTxns

\* Until something fails, the creditor leaves every record behind it.
SettlesAsItGoes ==
  dbErrors = 0 /\ crashes = 0 =>
    /\ cancelled = {}
    /\ \A o \in Orders : orders[o].status # "paid" => recharges[o] = 0
    /\ \A r \in Requests : pc[r] \in Crediting =>
         LET o == TheOrder(r)
         IN  /\ pc[r] \notin BeforeUpsert => credits[o] = 1
             /\ recharges[o] = IF pc[r] \in BeforeUpsert \cup {"audit"} THEN 0 ELSE 1
             /\ pc[r] = "insertReward" => grants[o] = 1

IInv ==
  /\ TypeOK /\ InviterIsKnown
  /\ ReceiptsAreChecked /\ PaidIsBacked /\ PurchaseHasOrder
  /\ SoleCreditor /\ CreditorState /\ UntouchedUnlessPaid
  /\ CreditAtMostOnce /\ RewardTrailIsBacked
  /\ AckedIsAlipay /\ AnswersAreTrue
  /\ SettlesAsItGoes /\ SettledUnlessFailed

(***************************************************************************)
(* Requests that do not overlap: what one found is still so when it        *)
(* writes, until a day is over at most.                                    *)
(***************************************************************************)
Alone == \A r, s \in Requests : r = s

MarksUnused ==
  \A r \in Requests : pc[r] = "markPaid" => OrdersPaidBy(TheTxn(r)) \subseteq {TheOrder(r)}

WritesWhatItRead ==
  \A r \in Requests :
    LET days == orders[TheOrder(r)].paidAt .. today
    IN  /\ pc[r] = "upsert" => \E day \in days :
             newSub[r] = ExtendAfterPayment(subs[Owner(r)], Plan(r), day)
        /\ pc[r] = "upsertInviter" => \E day \in days :
             newSub[r] = ExtendByDays(subs[Inviter(r)], RewardLength[Plan(r)], day)

PaidByToday == \A o \in Orders : orders[o].paidAt <= today

\* An inviter has days coming, and the buyer was credited first if no call
\* failed.
RewardsInOrder ==
  \A r \in Requests :
    /\ pc[r] \in {"readInviter", "upsertInviter"} => RewardLength[Plan(r)] > 0
    /\ dbErrors = 0 => r \notin cancelled
    /\ dbErrors = 0 /\ pc[r] \in Crediting \ BeforeUpsert => credits[TheOrder(r)] = 1

AloneIInv ==
  /\ IInv /\ TxnPaysOneOrder
  /\ MarksUnused /\ WritesWhatItRead /\ PaidByToday /\ RewardsInOrder

(***************************************************************************)
(* Refinement.  While the requests do not overlap, and calls do not fail,  *)
(* the handlers implement the ledger, restarts included.                   *)
(***************************************************************************)
Ledger == INSTANCE MembershipLedger WITH
  paidBy <- [o \in Orders |-> orders[o].txn],
  paidAt <- [o \in Orders |-> orders[o].paidAt],
  credited <- {o \in Orders : credits[o] > 0},
  rewarded <- {o \in Orders : inviterCredits[o] > 0}

ImplementsLedger == Ledger!Spec

(***************************************************************************)
(* Liveness.                                                               *)
(***************************************************************************)

\* Alipay gets its "success" for every payment in the end, in spite of
\* failing calls and restarts.
EveryNotificationAcked ==
  \A t \in AlipayTxns :
    (t \in purchased /\ PaidPlan[t] = PlanOf[PaidOrder[t]]) ~> t \in acked

\* An order that is paid extends its owner's membership in the end.
PaidIsCredited ==
  \A o \in Orders : orders[o].status = "paid" ~> credits[o] > 0
=============================================================================
