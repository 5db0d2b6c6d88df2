----------------------------- MODULE Redemption -----------------------------
(***************************************************************************)
(* Redemption codes: issuing them (cmd/issue_redemption_codes), redeeming  *)
(* one in a database transaction (internal/redemption/redeem.go) and the   *)
(* handler around it (internal/api/redeem_handlers.go), next to payments   *)
(* that extend the same memberships (api/server.go:715).                   *)
(*                                                                         *)
(* A step is one database call.  Inside the transaction a call sees what   *)
(* InnoDB lets it see at its default isolation level: SELECT ... FOR       *)
(* UPDATE waits for the lock of the code's row and reads the committed     *)
(* row; the plain SELECT of the subscription, being the first consistent   *)
(* read of the transaction, reads what is committed at that moment and     *)
(* locks nothing; the upsert takes the lock of the subscription's row.     *)
(* The locks and the writes of a transaction last until it commits or is   *)
(* rolled back.  A payment's two calls are statements of their own, the    *)
(* second of which waits for the row's lock.                               *)
(*                                                                         *)
(* All of it happens on one day; Subscription.tla says what a plan does to *)
(* a row.  As in OrderPayment.tla, the drop of the in-process WebDAV       *)
(* credentials (redeem_handlers.go:62) is left out.                        *)
(***************************************************************************)
EXTENDS Subscription

CONSTANTS
  Users, Codes,
  CodePlan,        \* redemption_codes.plan_id
  FirstRow,        \* the subscriptions there are before the first code
  Today,
  Requests,        \* request goroutines that may be live at the same time
  Payments,        \* payments of orders of these users, each credited once
  PayerOf, PaidFor,
  NoUser, NoJob, NoRequest,
  MaxDBErrors,     \* bound: failing calls and departed clients
  MaxCrashes       \* bound: restarts of the server

ASSUME RedemptionAssumption ==
  /\ CodePlan \in [Codes -> Plans]
  /\ FirstRow \in [Users -> Row]
  /\ Today \in Nat \ {0}
  /\ PayerOf \in [Payments -> Users]
  /\ PaidFor \in [Payments -> Plans]
  /\ NoUser \notin Users
  /\ NoJob \notin [user : Users, code : Codes]
  /\ NoRequest \notin Requests
  /\ MaxDBErrors \in Nat /\ MaxCrashes \in Nat

VARIABLES
  issued,          \* the codes in the table
  redeemedBy,      \* redeemed_by_user_id of each code, or NoUser
  subs,            \* the committed subscriptions row of each user
  records,         \* the codes with a membership_recharge_records row
  pc, job,         \* where each request is, and what it was asked
  newSub,          \* the row it is going to write, or has written
  codeLock,        \* the request whose transaction holds each code's row
  subLock,         \* and each user's subscription row
  payPc, payRow,   \* the same for the crediting of each payment
  told,            \* history: the redemptions a client was told of
  deserved,        \* history: each first row, extended by every plan given
  possible,        \* history: the rows that some of the plans given, in the
                   \* order of their commits, make of it
  earned,          \* history: those of them with the last plan given
  gifts,           \* history: how often a code was given to someone
  overlapped,      \* history: users whose row was read for an extension while
                   \* another one of it was still to be committed
  dbErrors, crashes

table == <<issued, redeemedBy, subs, records>>
locks == <<codeLock, subLock>>
pays == <<payPc, payRow>>
given == <<deserved, possible, earned>>
history == <<told, given, gifts, overlapped>>
faults == <<dbErrors, crashes>>
vars == <<table, pc, job, newSub, locks, pays, history, faults>>

Job == [user : Users, code : Codes]
InTransaction == {"mark", "readSub", "upsertSub", "commit"}
Labels == InTransaction \cup {"idle", "lockCode", "record"}

TypeOK ==
  /\ issued \subseteq Codes
  /\ redeemedBy \in [Codes -> Users \cup {NoUser}]
  /\ subs \in [Users -> Row]
  /\ records \subseteq Codes
  /\ pc \in [Requests -> Labels]
  /\ job \in [Requests -> Job \cup {NoJob}]
  /\ \A r \in Requests : pc[r] # "idle" <=> job[r] \in Job
  /\ newSub \in [Requests -> Row]
  /\ codeLock \in [Codes -> Requests \cup {NoRequest}]
  /\ subLock \in [Users -> Requests \cup {NoRequest}]
  /\ payPc \in [Payments -> {"due", "upsert", "done"}]
  /\ payRow \in [Payments -> Row]
  /\ told \subseteq Job
  /\ deserved \in [Users -> Row]
  /\ possible \in [Users -> SUBSET Row]
  /\ earned \in [Users -> SUBSET Row]
  /\ gifts \in [Codes -> Nat]
  /\ overlapped \subseteq Users
  /\ dbErrors \in Nat /\ crashes \in Nat

Init ==
  /\ issued = {}
  /\ redeemedBy = [c \in Codes |-> NoUser]
  /\ subs = FirstRow
  /\ records = {}
  /\ pc = [r \in Requests |-> "idle"]
  /\ job = [r \in Requests |-> NoJob]
  /\ newSub = [r \in Requests |-> NoRow]
  /\ codeLock = [c \in Codes |-> NoRequest]
  /\ subLock = [u \in Users |-> NoRequest]
  /\ payPc = [p \in Payments |-> "due"]
  /\ payRow = [p \in Payments |-> NoRow]
  /\ told = {}
  /\ deserved = FirstRow
  /\ possible = [u \in Users |-> {FirstRow[u]}]
  /\ earned = [u \in Users |-> {FirstRow[u]}]
  /\ gifts = [c \in Codes |-> 0]
  /\ overlapped = {}
  /\ dbErrors = 0 /\ crashes = 0

-----------------------------------------------------------------------------
TheUser(r) == job[r].user
TheCode(r) == job[r].code

Goto(r, label) == pc' = [pc EXCEPT ![r] = label] /\ UNCHANGED job

\* The handler returns; what it held in memory is gone.
Return(r) ==
  /\ pc' = [pc EXCEPT ![r] = "idle"]
  /\ job' = [job EXCEPT ![r] = NoJob]
  /\ newSub' = [newSub EXCEPT ![r] = NoRow]

\* The transaction of r ends, and its locks with it.
Unlock(r) ==
  /\ codeLock' = [c \in Codes |-> IF codeLock[c] = r THEN NoRequest ELSE codeLock[c]]
  /\ subLock' = [u \in Users |-> IF subLock[u] = r THEN NoRequest ELSE subLock[u]]

\* The operator issues a code.
IssueCode(c) ==
  /\ c \notin issued
  /\ issued' = issued \cup {c}
  /\ UNCHANGED <<redeemedBy, subs, records, pc, job, newSub, locks, pays,
                 history, faults>>

\* A client posts a code, as often as it likes, whether issued or not.
PostRedeem(r, u, c) ==
  /\ pc[r] = "idle"
  /\ pc' = [pc EXCEPT ![r] = "lockCode"]
  /\ job' = [job EXCEPT ![r] = [user |-> u, code |-> c]]
  /\ UNCHANGED <<table, newSub, locks, pays, history, faults>>

Redeemable(c) == c \in issued /\ redeemedBy[c] = NoUser

\* Variant: the SELECT lacks FOR UPDATE.
LockCodeNever(r) ==
  /\ pc[r] = "lockCode"
  /\ \/ ~Redeemable(TheCode(r)) /\ Return(r)
     \/ Redeemable(TheCode(r)) /\ Goto(r, "mark") /\ UNCHANGED newSub
  /\ UNCHANGED <<table, locks, pays, history, faults>>

\* SELECT ... FOR UPDATE; without an unredeemed row the answer is
\* redemption_invalid.
LockCode(r) ==
  LET c == TheCode(r)
  IN  /\ pc[r] = "lockCode" /\ codeLock[c] = NoRequest
      /\ \/ ~Redeemable(c) /\ Return(r) /\ UNCHANGED codeLock
         \/ /\ Redeemable(c)
            /\ codeLock' = [codeLock EXCEPT ![c] = r]
            /\ Goto(r, "mark") /\ UNCHANGED newSub
      /\ UNCHANGED <<table, subLock, pays, history, faults>>

\* UPDATE redemption_codes.  The row is locked since it was seen unredeemed,
\* so exactly one row is updated.
MarkRedeemed(r) ==
  /\ pc[r] = "mark"
  /\ Goto(r, "readSub")
  /\ UNCHANGED <<table, newSub, locks, pays, history, faults>>

\* An extension of a user's row is under way: the row was read for it and is
\* still to be written.
RequestExtends(r, u) == pc[r] \in {"upsertSub", "commit"} /\ TheUser(r) = u
PaymentExtends(p, u) == payPc[p] = "upsert" /\ PayerOf[p] = u

Extending(u) ==
  \/ \E r \in Requests : RequestExtends(r, u)
  \/ \E p \in Payments : PaymentExtends(p, u)

\* History: a row is read for an extension.
ReadForExtension(u) ==
  /\ overlapped' = overlapped \cup {v \in {u} : Extending(v)}
  /\ UNCHANGED <<told, given, gifts>>

\* Variant: the plan is counted from today, whatever the row says.
ReadSubscriptionNever(r) ==
  /\ pc[r] = "readSub"
  /\ newSub' = [newSub EXCEPT ![r] =
       ExtendAfterPayment(NoRow, CodePlan[TheCode(r)], Today)]
  /\ Goto(r, "upsertSub") /\ ReadForExtension(TheUser(r))
  /\ UNCHANGED <<table, locks, pays, faults>>

ReadSubscription(r) ==
  /\ pc[r] = "readSub"
  /\ newSub' = [newSub EXCEPT ![r] =
       ExtendAfterPayment(subs[TheUser(r)], CodePlan[TheCode(r)], Today)]
  /\ Goto(r, "upsertSub") /\ ReadForExtension(TheUser(r))
  /\ UNCHANGED <<table, locks, pays, faults>>

UpsertSubscription(r) ==
  /\ pc[r] = "upsertSub" /\ subLock[TheUser(r)] = NoRequest
  /\ subLock' = [subLock EXCEPT ![TheUser(r)] = r]
  /\ Goto(r, "commit")
  /\ UNCHANGED <<table, newSub, codeLock, pays, history, faults>>

\* History: one more plan has been given to u.
Give(u, plan) ==
  LET Extended(row) == ExtendAfterPayment(row, plan, Today)
      with == {Extended(row) : row \in possible[u]}
  IN  /\ deserved' = [deserved EXCEPT ![u] = Extended(@)]
      /\ earned' = [earned EXCEPT ![u] = with]
      /\ possible' = [possible EXCEPT ![u] = @ \cup with]

\* What the commit makes durable.
Committed(r) ==
  /\ redeemedBy' = [redeemedBy EXCEPT ![TheCode(r)] = TheUser(r)]
  /\ subs' = [subs EXCEPT ![TheUser(r)] = newSub[r]]
  /\ Give(TheUser(r), CodePlan[TheCode(r)])
  /\ gifts' = [gifts EXCEPT ![TheCode(r)] = @ + 1]
  /\ Unlock(r)
  /\ UNCHANGED <<issued, records, overlapped>>

Commit(r) ==
  /\ pc[r] = "commit" /\ Committed(r)
  /\ Goto(r, "record")
  /\ UNCHANGED <<newSub, pays, told, faults>>

\* InsertMembershipRechargeRecord, and the answer.
InsertRechargeRecord(r) ==
  /\ pc[r] = "record"
  /\ records' = records \cup {TheCode(r)}
  /\ told' = told \cup {job[r]}
  /\ Return(r)
  /\ UNCHANGED <<issued, redeemedBy, subs, locks, pays, given, gifts,
                 overlapped, faults>>

\* The crediting of a payment, once per payment (OrderPayment.tla).
CreditRead(p) ==
  /\ payPc[p] = "due"
  /\ payRow' = [payRow EXCEPT ![p] =
       ExtendAfterPayment(subs[PayerOf[p]], PaidFor[p], Today)]
  /\ payPc' = [payPc EXCEPT ![p] = "upsert"] /\ ReadForExtension(PayerOf[p])
  /\ UNCHANGED <<table, pc, job, newSub, locks, faults>>

CreditUpsert(p) ==
  /\ payPc[p] = "upsert" /\ subLock[PayerOf[p]] = NoRequest
  /\ subs' = [subs EXCEPT ![PayerOf[p]] = payRow[p]]
  /\ Give(PayerOf[p], PaidFor[p])
  /\ payPc' = [payPc EXCEPT ![p] = "done"]
  /\ UNCHANGED <<issued, redeemedBy, records, pc, job, newSub, locks, payRow,
                 told, gifts, overlapped, faults>>

-----------------------------------------------------------------------------
(***************************************************************************)
(* Failures.                                                               *)
(***************************************************************************)
DBError == dbErrors < MaxDBErrors /\ dbErrors' = dbErrors + 1 /\ UNCHANGED crashes

\* Variant: no deferred rollback, the transaction stays open.
TransactionFailsOpen(r) ==
  /\ DBError
  /\ pc[r] \in InTransaction \cup {"lockCode"}
  /\ Return(r)
  /\ UNCHANGED <<table, locks, pays, history>>

\* Variant: a failed commit is not noticed.
TransactionFailsUnnoticed(r) ==
  /\ DBError
  /\ pc[r] = "commit"
  /\ Unlock(r) /\ Goto(r, "record")
  /\ UNCHANGED <<table, newSub, pays, history>>

\* A call before the commit fails, or the client goes away: the deferred
\* rollback drops everything.
TransactionFails(r) ==
  /\ DBError
  /\ pc[r] \in InTransaction \cup {"lockCode"}
  /\ Unlock(r) /\ Return(r)
  /\ UNCHANGED <<table, pays, history>>

\* The commit takes effect but its reply is lost: the client hears db_failed.
CommitReplyLost(r) ==
  /\ DBError
  /\ pc[r] = "commit" /\ Committed(r)
  /\ Return(r)
  /\ UNCHANGED <<pays, told>>

\* The audit row cannot be written: that is logged, and the client told.
RecordFails(r) ==
  /\ DBError
  /\ pc[r] = "record"
  /\ told' = told \cup {job[r]}
  /\ Return(r)
  /\ UNCHANGED <<table, locks, pays, given, gifts, overlapped>>

\* The server dies; the database rolls its transactions back.
Crash ==
  /\ crashes < MaxCrashes /\ crashes' = crashes + 1
  /\ pc' = [r \in Requests |-> "idle"]
  /\ job' = [r \in Requests |-> NoJob]
  /\ newSub' = [r \in Requests |-> NoRow]
  /\ codeLock' = [c \in Codes |-> NoRequest]
  /\ subLock' = [u \in Users |-> NoRequest]
  /\ payPc' = [p \in Payments |-> IF payPc[p] = "upsert" THEN "done" ELSE payPc[p]]
  /\ UNCHANGED <<table, payRow, history, dbErrors>>

-----------------------------------------------------------------------------
RedeemAtomically(r) ==
  \/ LockCode(r) \/ MarkRedeemed(r) \/ ReadSubscription(r)
  \/ UpsertSubscription(r) \/ Commit(r)

Proceed(r) == RedeemAtomically(r) \/ InsertRechargeRecord(r)

Next ==
  \/ \E c \in Codes : IssueCode(c)
  \/ \E r \in Requests :
       \/ \E u \in Users, c \in Codes : PostRedeem(r, u, c)
       \/ Proceed(r)
       \/ TransactionFails(r) \/ CommitReplyLost(r) \/ RecordFails(r)
  \/ \E p \in Payments : CreditRead(p) \/ CreditUpsert(p)
  \/ Crash

Spec == Init /\ [][Next]_vars

\* A goroutine with a call to make gets it made; a lock that is free again
\* and again is granted (InnoDB queues its waiters).  Clients need not act.
FairSpec ==
  /\ Spec
  /\ \A r \in Requests : WF_vars(Proceed(r)) /\ SF_vars(LockCode(r) \/ UpsertSubscription(r))
  /\ \A p \in Payments : WF_vars(CreditRead(p)) /\ SF_vars(CreditUpsert(p))
-----------------------------------------------------------------------------
(***************************************************************************)
(* Properties.                                                             *)
(***************************************************************************)

\* A code is given at most once, to the user its row names, however many
\* requests carry it and whatever fails or dies between the calls: the row is
\* marked exactly when the membership was extended (redeem.go:58-96).
RedeemedIffGiven ==
  \A c \in Codes : gifts[c] = IF redeemedBy[c] = NoUser THEN 0 ELSE 1

\* A lock outlives no transaction, and a transaction that has seen its code
\* unredeemed keeps others from it until it ends (redeem.go:44-51).
LocksAreHeld ==
  /\ \A c \in Codes : codeLock[c] # NoRequest =>
       /\ pc[codeLock[c]] \in InTransaction
       /\ TheCode(codeLock[c]) = c
       /\ Redeemable(c)
  /\ \A u \in Users : subLock[u] # NoRequest =>
       pc[subLock[u]] = "commit" /\ TheUser(subLock[u]) = u
  /\ \A r \in Requests :
       /\ pc[r] \in InTransaction => codeLock[TheCode(r)] = r
       /\ pc[r] = "commit" => subLock[TheUser(r)] = r

\* A redemption that a client was told of, that a request is about to record
\* or that is in the audit table, stands (redeem_handlers.go:45-63).
RedemptionsStand ==
  /\ \A j \in told : redeemedBy[j.code] = j.user
  /\ \A r \in Requests : pc[r] = "record" => redeemedBy[TheCode(r)] = TheUser(r)
  /\ \A c \in records : redeemedBy[c] # NoUser

\* Nothing that was given is lost: each committed code and each credited
\* payment is in the row, whatever fails, as long as the row was never read
\* for one extension while another was under way.  The transaction does not
\* see to that: it reads the row without a lock (redeem.go:73-91).
NothingLostUnlessOverlapped ==
  \A u \in Users \ overlapped : subs[u] = deserved[u]

\* And even then a user never loses what was given last, nor has what was
\* not given: the row is the first one extended by some of the plans given,
\* the last one among them.
RowIsEarned == \A u \in Users : subs[u] \in earned[u]

(***************************************************************************)
(* The inductive invariant.  A row that was read once is still what the    *)
(* extension under way was computed from; one that was read twice is at    *)
(* least one that was there before.                                        *)
(***************************************************************************)
SoleExtension ==
  \A u \in Users \ overlapped :
    /\ \A r, s \in Requests : RequestExtends(r, u) /\ RequestExtends(s, u) => r = s
    /\ \A p, q \in Payments : PaymentExtends(p, u) /\ PaymentExtends(q, u) => p = q
    /\ \A r \in Requests, p \in Payments : ~(RequestExtends(r, u) /\ PaymentExtends(p, u))

ExtensionsAreFresh ==
  \A u \in Users \ overlapped :
    /\ \A r \in Requests : RequestExtends(r, u) =>
         newSub[r] = ExtendAfterPayment(subs[u], CodePlan[TheCode(r)], Today)
    /\ \A p \in Payments : PaymentExtends(p, u) =>
         payRow[p] = ExtendAfterPayment(subs[u], PaidFor[p], Today)

ExtensionsArePossible ==
  \A u \in Users :
    /\ earned[u] \subseteq possible[u]
    /\ \A r \in Requests : RequestExtends(r, u) =>
         \E row \in possible[u] : newSub[r] = ExtendAfterPayment(row, CodePlan[TheCode(r)], Today)
    /\ \A p \in Payments : PaymentExtends(p, u) =>
         \E row \in possible[u] : payRow[p] = ExtendAfterPayment(row, PaidFor[p], Today)

IInv ==
  /\ TypeOK /\ LocksAreHeld /\ RedeemedIffGiven /\ RedemptionsStand
  /\ SoleExtension /\ ExtensionsAreFresh /\ NothingLostUnlessOverlapped
  /\ ExtensionsArePossible /\ RowIsEarned

-----------------------------------------------------------------------------
(***************************************************************************)
(* Liveness.                                                               *)
(***************************************************************************)

\* Locks are taken in one order, code then subscription, so no two requests
\* wait for each other and every redemption ends.
RedemptionEnds == \A r \in Requests : pc[r] # "idle" ~> pc[r] = "idle"
=============================================================================
