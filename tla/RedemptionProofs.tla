-------------------------- MODULE RedemptionProofs --------------------------
(***************************************************************************)
(* Proofs, for any number of users, codes, payments and concurrent         *)
(* requests, that redeeming is atomic: a code is given once or not at all, *)
(* and what clients and the audit table say of it is true.                 *)
(*                                                                         *)
(* The argument: between seeing the code unredeemed and its end a          *)
(* transaction holds the code's lock (LocksAreHeld), so the code it        *)
(* commits is still unredeemed and its gift is the first.                  *)
(* The row a code or a payment extends has no such lock.  What can be      *)
(* proved of it is that it is lost to nobody while extensions of it do not *)
(* overlap (SoleExtension, ExtensionsAreFresh), and that it is made of     *)
(* plans that were given when they do (ExtensionsArePossible).             *)
(***************************************************************************)
EXTENDS Redemption, TLAPS

USE DEF table, locks, pays, given, history, faults, InTransaction

-----------------------------------------------------------------------------
(***************************************************************************)
(* Type correctness.                                                       *)
(***************************************************************************)
\* Buying a plan turns a subscriptions row into a subscriptions row.
LEMMA ExtendAfterPaymentType ==
  ASSUME NEW row \in Row, NEW plan \in Plans, NEW day \in Nat
  PROVE  ExtendAfterPayment(row, plan, day) \in Row
  BY PlanAssumption DEF ExtendAfterPayment, LifetimeRow, Row, Anchor

\* The code table is empty and nothing runs: every variable has its type.
LEMMA InitTypeOK == Init => TypeOK
  BY RedemptionAssumption DEF Init, TypeOK, Row, NoRow, Labels, Job

\* A request in the middle of something is about a user and a code.
LEMMA JobType ==
  ASSUME TypeOK, NEW r \in Requests, pc[r] # "idle"
  PROVE  /\ TheUser(r) \in Users /\ TheCode(r) \in Codes
         /\ CodePlan[TheCode(r)] \in Plans
         /\ job[r] = [user |-> TheUser(r), code |-> TheCode(r)]
  BY RedemptionAssumption DEF TypeOK, Job, TheUser, TheCode

\* What a request may do to its own bookkeeping keeps the types.
LEMMA ReturnType ==
  ASSUME TypeOK, NEW r \in Requests, Return(r)
  PROVE  /\ pc' \in [Requests -> Labels]
         /\ job' \in [Requests -> Job \cup {NoJob}]
         /\ \A s \in Requests : pc'[s] # "idle" <=> job'[s] \in Job
         /\ newSub' \in [Requests -> Row]
  BY RedemptionAssumption DEF TypeOK, Return, Labels, NoRow, Row, Job

\* A request that goes on keeps the job it has.
LEMMA GotoType ==
  ASSUME TypeOK, NEW r \in Requests, NEW label \in Labels \ {"idle"},
         pc[r] # "idle", Goto(r, label)
  PROVE  /\ pc' \in [Requests -> Labels]
         /\ job' \in [Requests -> Job \cup {NoJob}]
         /\ \A s \in Requests : pc'[s] # "idle" <=> job'[s] \in Job
  BY DEF TypeOK, Goto, Labels

\* The end of a transaction leaves lock tables.
LEMMA UnlockType ==
  ASSUME TypeOK, NEW r \in Requests, Unlock(r)
  PROVE  /\ codeLock' \in [Codes -> Requests \cup {NoRequest}]
         /\ subLock' \in [Users -> Requests \cup {NoRequest}]
  BY DEF TypeOK, Unlock

\* Noting that a row is read twice leaves a set of users.
LEMMA ReadForExtensionType ==
  ASSUME TypeOK, NEW u \in Users, ReadForExtension(u)
  PROVE  overlapped' \subseteq Users /\ UNCHANGED <<told, given, gifts>>
  BY DEF TypeOK, ReadForExtension

\* Giving a plan turns rows into rows.
LEMMA GiveType ==
  ASSUME TypeOK, NEW u \in Users, NEW plan \in Plans, Give(u, plan)
  PROVE  /\ deserved' \in [Users -> Row]
         /\ possible' \in [Users -> SUBSET Row] /\ earned' \in [Users -> SUBSET Row]
<1> DEFINE with == {ExtendAfterPayment(row, plan, Today) : row \in possible[u]}
<1>1. \A row \in Row : ExtendAfterPayment(row, plan, Today) \in Row
  BY RedemptionAssumption, ExtendAfterPaymentType
<1>2. with \subseteq Row /\ ExtendAfterPayment(deserved[u], plan, Today) \in Row
  BY <1>1 DEF TypeOK
<1>3. /\ deserved' = [deserved EXCEPT ![u] = ExtendAfterPayment(deserved[u], plan, Today)]
      /\ earned' = [earned EXCEPT ![u] = with]
      /\ possible' = [possible EXCEPT ![u] = possible[u] \cup with]
  BY DEF Give
<1> HIDE DEF with
<1>4. QED BY <1>2, <1>3 DEF TypeOK

\* So does a commit, and it leaves tables.
LEMMA CommittedType ==
  ASSUME TypeOK, NEW r \in Requests, pc[r] = "commit", Committed(r)
  PROVE  /\ issued' \subseteq Codes /\ records' \subseteq Codes
         /\ redeemedBy' \in [Codes -> Users \cup {NoUser}]
         /\ subs' \in [Users -> Row]
         /\ codeLock' \in [Codes -> Requests \cup {NoRequest}]
         /\ subLock' \in [Users -> Requests \cup {NoRequest}]
         /\ deserved' \in [Users -> Row]
         /\ possible' \in [Users -> SUBSET Row] /\ earned' \in [Users -> SUBSET Row]
         /\ gifts' \in [Codes -> Nat]
         /\ overlapped' \subseteq Users
<1>1. /\ TheUser(r) \in Users /\ TheCode(r) \in Codes
      /\ CodePlan[TheCode(r)] \in Plans
  BY JobType
<1>2. Unlock(r)
  BY DEF Committed
<1>3. Give(TheUser(r), CodePlan[TheCode(r)])
  BY DEF Committed
<1>4. QED BY <1>1, <1>2, <1>3, UnlockType, GiveType DEF Committed, TypeOK

\* Every step keeps the types.
LEMMA NextTypeOK == TypeOK /\ [Next]_vars => TypeOK'
<1> SUFFICES ASSUME TypeOK, [Next]_vars PROVE TypeOK'
  OBVIOUS
<1>labels. /\ "mark" \in Labels /\ "readSub" \in Labels /\ "upsertSub" \in Labels
           /\ "commit" \in Labels /\ "record" \in Labels /\ "lockCode" \in Labels
  BY DEF Labels
<1>1. ASSUME NEW c \in Codes, IssueCode(c) PROVE TypeOK'
  BY <1>1 DEF IssueCode, TypeOK
<1>2. ASSUME NEW r \in Requests, NEW u \in Users, NEW c \in Codes, PostRedeem(r, u, c)
      PROVE  TypeOK'
  BY <1>2, <1>labels DEF PostRedeem, TypeOK, Job
<1>3. ASSUME NEW r \in Requests, LockCode(r) PROVE TypeOK'
  <2>1. CASE Return(r) /\ UNCHANGED codeLock
    BY <1>3, <2>1, ReturnType DEF LockCode, TypeOK
  <2>2. CASE ~(Return(r) /\ UNCHANGED codeLock)
    <3>1. /\ Goto(r, "mark") /\ UNCHANGED newSub
          /\ codeLock' = [codeLock EXCEPT ![TheCode(r)] = r]
      BY <1>3, <2>2 DEF LockCode
    <3>2. QED BY <1>3, <3>1, <1>labels, GotoType DEF LockCode, TypeOK
  <2>3. QED BY <2>1, <2>2
<1>4. ASSUME NEW r \in Requests, MarkRedeemed(r) PROVE TypeOK'
  BY <1>4, <1>labels, GotoType DEF MarkRedeemed, TypeOK
<1>5. ASSUME NEW r \in Requests, ReadSubscription(r) PROVE TypeOK'
  <2>1. subs[TheUser(r)] \in Row /\ CodePlan[TheCode(r)] \in Plans /\ Today \in Nat
    BY <1>5, JobType, RedemptionAssumption DEF ReadSubscription, TypeOK
  <2>2. ExtendAfterPayment(subs[TheUser(r)], CodePlan[TheCode(r)], Today) \in Row
    BY <2>1, ExtendAfterPaymentType
  <2>3. /\ pc[r] # "idle" /\ Goto(r, "upsertSub") /\ ReadForExtension(TheUser(r))
        /\ UNCHANGED <<table, locks, pays, faults>>
        /\ newSub' = [newSub EXCEPT ![r] =
             ExtendAfterPayment(subs[TheUser(r)], CodePlan[TheCode(r)], Today)]
    BY <1>5 DEF ReadSubscription
  <2>4. TheUser(r) \in Users
    BY <2>3, JobType
  <2>5. QED BY <2>2, <2>3, <2>4, <1>labels, GotoType, ReadForExtensionType DEF TypeOK
<1>6. ASSUME NEW r \in Requests, UpsertSubscription(r) PROVE TypeOK'
  BY <1>6, <1>labels, GotoType DEF UpsertSubscription, TypeOK
<1>7. ASSUME NEW r \in Requests, Commit(r) PROVE TypeOK'
  BY <1>7, <1>labels, GotoType, CommittedType DEF Commit, TypeOK
<1>8. ASSUME NEW r \in Requests, InsertRechargeRecord(r) PROVE TypeOK'
  <2>1. TheCode(r) \in Codes /\ job[r] \in Job
    BY <1>8, JobType DEF InsertRechargeRecord, TypeOK
  <2>2. QED BY <1>8, <2>1, ReturnType DEF InsertRechargeRecord, TypeOK
<1>9. ASSUME NEW p \in Payments, CreditRead(p) PROVE TypeOK'
  <2>1. ExtendAfterPayment(subs[PayerOf[p]], PaidFor[p], Today) \in Row
    BY RedemptionAssumption, ExtendAfterPaymentType DEF TypeOK
  <2>2. QED BY <1>9, <2>1, RedemptionAssumption, ReadForExtensionType DEF CreditRead, TypeOK
<1>10. ASSUME NEW p \in Payments, CreditUpsert(p) PROVE TypeOK'
  <2>1. /\ deserved' \in [Users -> Row]
        /\ possible' \in [Users -> SUBSET Row] /\ earned' \in [Users -> SUBSET Row]
    BY <1>10, RedemptionAssumption, GiveType DEF CreditUpsert
  <2>2. QED BY <1>10, <2>1, RedemptionAssumption DEF CreditUpsert, TypeOK
<1>11. ASSUME NEW r \in Requests, TransactionFails(r) PROVE TypeOK'
  BY <1>11, ReturnType, UnlockType DEF TransactionFails, DBError, TypeOK
<1>12. ASSUME NEW r \in Requests, CommitReplyLost(r) PROVE TypeOK'
  BY <1>12, ReturnType, CommittedType DEF CommitReplyLost, DBError, TypeOK
<1>13. ASSUME NEW r \in Requests, RecordFails(r) PROVE TypeOK'
  <2>1. job[r] \in Job
    BY <1>13 DEF RecordFails, TypeOK
  <2>2. QED BY <1>13, <2>1, ReturnType DEF RecordFails, DBError, TypeOK
<1>14. CASE Crash
  BY <1>14, RedemptionAssumption DEF Crash, TypeOK, Labels, NoRow, Row, Job
<1>15. CASE UNCHANGED vars
  BY <1>15 DEF vars, TypeOK
<1>16. QED
  BY <1>1, <1>2, <1>3, <1>4, <1>5, <1>6, <1>7, <1>8, <1>9, <1>10, <1>11, <1>12,
     <1>13, <1>14, <1>15 DEF Next, Proceed, RedeemAtomically

\* Every variable keeps its type, in every reachable state.
THEOREM TypeCorrect == Spec => []TypeOK
<1>1. QED BY InitTypeOK, NextTypeOK, PTL DEF Spec
-----------------------------------------------------------------------------
(***************************************************************************)
(* The inductive invariant's part about codes.                             *)
(***************************************************************************)
Redeeming == TypeOK /\ LocksAreHeld /\ RedeemedIffGiven /\ RedemptionsStand

\* Nothing is locked, given or told at the start.
LEMMA InitRedeeming == Init => Redeeming
<1> SUFFICES ASSUME Init PROVE Redeeming
  OBVIOUS
<1>1. TypeOK
  BY InitTypeOK
<1>2. LocksAreHeld
  BY RedemptionAssumption DEF Init, LocksAreHeld
<1>3. RedeemedIffGiven /\ RedemptionsStand
  BY RedemptionAssumption DEF Init, RedeemedIffGiven, RedemptionsStand
<1>4. QED BY <1>1, <1>2, <1>3 DEF Redeeming

\* A transaction that commits holds its code's lock, so the code was still
\* unredeemed: no gift is repeated and no redemption is overwritten.
LEMMA CommittedOnce ==
  ASSUME Redeeming, NEW r \in Requests, pc[r] = "commit", Committed(r)
  PROVE  /\ RedeemedIffGiven'
         /\ redeemedBy'[TheCode(r)] = TheUser(r)
         /\ TheUser(r) # NoUser
         /\ \A c \in Codes : redeemedBy[c] # NoUser => redeemedBy'[c] = redeemedBy[c]
<1> USE DEF Redeeming
<1>1. TheUser(r) \in Users /\ TheCode(r) \in Codes
  BY JobType
<1>2. redeemedBy[TheCode(r)] = NoUser
  <2>1. codeLock[TheCode(r)] = r /\ r # NoRequest
    BY RedemptionAssumption DEF LocksAreHeld
  <2>2. QED BY <1>1, <2>1 DEF LocksAreHeld, Redeemable
<1>3. TheUser(r) # NoUser
  BY <1>1, RedemptionAssumption
<1>4. \A c \in Codes : redeemedBy'[c] = IF c = TheCode(r) THEN TheUser(r) ELSE redeemedBy[c]
  BY <1>1 DEF Committed, TypeOK
<1>5. \A c \in Codes : gifts'[c] = IF c = TheCode(r) THEN gifts[c] + 1 ELSE gifts[c]
  BY <1>1 DEF Committed, TypeOK
<1>6. gifts[TheCode(r)] = 0
  BY <1>1, <1>2 DEF RedeemedIffGiven
<1>7. RedeemedIffGiven'
  BY <1>2, <1>3, <1>4, <1>5, <1>6 DEF RedeemedIffGiven
<1>8. QED BY <1>1, <1>2, <1>3, <1>4, <1>7

\* A request that leaves its transaction and takes its locks along leaves the
\* locks of the others as they were.
LEMMA LeaveLocks ==
  ASSUME TypeOK, LocksAreHeld, NEW r \in Requests, pc[r] # "idle", Unlock(r),
         \A s \in Requests \ {r} : pc'[s] = pc[s] /\ job'[s] = job[s],
         pc'[r] \in {"idle", "record"},
         issued' = issued,
         \A c \in Codes : c # TheCode(r) \/ pc[r] \notin InTransaction
           => redeemedBy'[c] = redeemedBy[c]
  PROVE  LocksAreHeld'
<1>1. \A c \in Codes : codeLock'[c] = IF codeLock[c] = r THEN NoRequest ELSE codeLock[c]
  BY DEF Unlock
<1>2. \A u \in Users : subLock'[u] = IF subLock[u] = r THEN NoRequest ELSE subLock[u]
  BY DEF Unlock
<1>3. ASSUME NEW c \in Codes, codeLock'[c] # NoRequest
      PROVE  /\ pc'[codeLock'[c]] \in InTransaction
             /\ job'[codeLock'[c]].code = c
             /\ Redeemable(c)'
  <2>1. codeLock[c] # r /\ codeLock'[c] = codeLock[c] /\ codeLock[c] \in Requests
    BY <1>1, <1>3 DEF TypeOK
  <2>2. /\ pc[codeLock[c]] \in InTransaction /\ TheCode(codeLock[c]) = c /\ Redeemable(c)
    BY <2>1, <1>3 DEF LocksAreHeld
  <2>3. pc'[codeLock[c]] = pc[codeLock[c]] /\ job'[codeLock[c]] = job[codeLock[c]]
    BY <2>1
  <2>4. redeemedBy'[c] = redeemedBy[c]
    <3>1. CASE pc[r] \in InTransaction
      <4>1. codeLock[TheCode(r)] = r
        BY <3>1 DEF LocksAreHeld
      <4>2. c # TheCode(r)
        BY <4>1, <2>1
      <4>3. QED BY <4>2
    <3>2. CASE pc[r] \notin InTransaction
      BY <3>2
    <3>3. QED BY <3>1, <3>2
  <2>5. QED BY <2>1, <2>2, <2>3, <2>4 DEF TheCode, Redeemable
<1>4. ASSUME NEW u \in Users, subLock'[u] # NoRequest
      PROVE  pc'[subLock'[u]] = "commit" /\ job'[subLock'[u]].user = u
  <2>1. subLock[u] # r /\ subLock'[u] = subLock[u] /\ subLock[u] \in Requests
    BY <1>2, <1>4 DEF TypeOK
  <2>2. pc[subLock[u]] = "commit" /\ job[subLock[u]].user = u
    BY <2>1, <1>4 DEF LocksAreHeld, TheUser
  <2>3. QED BY <2>1, <2>2
<1>5. ASSUME NEW s \in Requests, pc'[s] \in InTransaction
      PROVE  codeLock'[TheCode(s)'] = s
  <2>1. s # r /\ pc[s] = pc'[s] /\ TheCode(s)' = TheCode(s) /\ pc[s] # "idle"
    BY <1>5 DEF TheCode
  <2>2. codeLock[TheCode(s)] = s /\ TheCode(s) \in Codes
    BY <2>1, <1>5, JobType DEF LocksAreHeld
  <2>3. QED BY <2>1, <2>2, <1>1
<1>6. ASSUME NEW s \in Requests, pc'[s] = "commit"
      PROVE  subLock'[TheUser(s)'] = s
  <2>1. s # r /\ pc[s] = pc'[s] /\ TheUser(s)' = TheUser(s) /\ pc[s] # "idle"
    BY <1>6 DEF TheUser
  <2>2. subLock[TheUser(s)] = s /\ TheUser(s) \in Users
    BY <2>1, <1>6, JobType DEF LocksAreHeld
  <2>3. QED BY <2>1, <2>2, <1>2
<1>7. QED BY <1>3, <1>4, <1>5, <1>6 DEF LocksAreHeld, TheCode, TheUser

\* A step of r that stays outside or inside its transaction and touches no
\* lock and no code.
LEMMA StayLocks ==
  ASSUME TypeOK, LocksAreHeld, NEW r \in Requests,
         UNCHANGED <<issued, redeemedBy, locks>>,
         \A s \in Requests \ {r} : pc'[s] = pc[s] /\ job'[s] = job[s],
         \/ pc[r] \notin InTransaction /\ pc'[r] \notin InTransaction
         \/ /\ pc[r] \in InTransaction \ {"commit"} /\ job'[r] = job[r]
            /\ pc'[r] \in InTransaction \ {"commit"}
  PROVE  LocksAreHeld'
<1>1. ASSUME NEW s \in Requests, pc[s] \in InTransaction
      PROVE  pc'[s] \in InTransaction /\ job'[s] = job[s] /\ (pc[s] = "commit" <=> pc'[s] = "commit")
  BY <1>1
<1>2. ASSUME NEW s \in Requests, pc'[s] \in InTransaction
      PROVE  pc[s] \in InTransaction /\ job'[s] = job[s] /\ (pc[s] = "commit" <=> pc'[s] = "commit")
  BY <1>2
<1>3. ASSUME NEW c \in Codes, codeLock[c] # NoRequest
      PROVE  /\ pc'[codeLock[c]] \in InTransaction
             /\ job'[codeLock[c]].code = c /\ Redeemable(c)'
  <2>1. codeLock[c] \in Requests
    BY <1>3 DEF TypeOK
  <2>2. QED BY <1>3, <2>1, <1>1 DEF LocksAreHeld, TheCode, Redeemable
<1>4. ASSUME NEW u \in Users, subLock[u] # NoRequest
      PROVE  pc'[subLock[u]] = "commit" /\ job'[subLock[u]].user = u
  <2>1. subLock[u] \in Requests
    BY <1>4 DEF TypeOK
  <2>2. QED BY <1>4, <2>1, <1>1 DEF LocksAreHeld, TheUser
<1>5. ASSUME NEW s \in Requests
      PROVE  /\ pc'[s] \in InTransaction => codeLock[job'[s].code] = s
             /\ pc'[s] = "commit" => subLock[job'[s].user] = s
  BY <1>2 DEF LocksAreHeld, TheCode, TheUser
<1>6. QED BY <1>3, <1>4, <1>5 DEF LocksAreHeld, TheCode, TheUser

\* Each step keeps the invariant.
LEMMA NextRedeeming == Redeeming /\ [Next]_vars => Redeeming'
<1> SUFFICES ASSUME Redeeming, [Next]_vars PROVE Redeeming'
  OBVIOUS
<1>type. TypeOK /\ TypeOK'
  BY NextTypeOK DEF Redeeming
<1>inv. LocksAreHeld /\ RedeemedIffGiven /\ RedemptionsStand
  BY DEF Redeeming
<1>given. ASSUME UNCHANGED <<redeemedBy, gifts>> PROVE RedeemedIffGiven'
  BY <1>given, <1>inv DEF RedeemedIffGiven
<1>stand. ASSUME NEW r \in Requests, UNCHANGED <<redeemedBy, told, records>>,
                 \A s \in Requests \ {r} : pc'[s] = pc[s] /\ job'[s] = job[s],
                 pc'[r] # "record"
          PROVE  RedemptionsStand'
  <2>1. ASSUME NEW s \in Requests, pc'[s] = "record"
        PROVE  redeemedBy'[TheCode(s)'] = TheUser(s)'
    <3>1. s # r
      BY <2>1, <1>stand
    <3>2. QED BY <2>1, <3>1, <1>stand, <1>inv DEF RedemptionsStand, TheCode, TheUser
  <2>2. QED BY <2>1, <1>stand, <1>inv DEF RedemptionsStand
<1>goto. ASSUME NEW r \in Requests, NEW label, Goto(r, label)
         PROVE  /\ \A s \in Requests \ {r} : pc'[s] = pc[s] /\ job'[s] = job[s]
                /\ pc'[r] = label /\ job'[r] = job[r]
  BY <1>goto, <1>type DEF Goto, TypeOK
<1>return. ASSUME NEW r \in Requests, Return(r)
           PROVE  /\ \A s \in Requests \ {r} : pc'[s] = pc[s] /\ job'[s] = job[s]
                  /\ pc'[r] = "idle"
  BY <1>return, <1>type DEF Return, TypeOK
<1>idle. ASSUME NEW r \in Requests, pc[r] = "commit", Committed(r),
                \A s \in Requests \ {r} : pc'[s] = pc[s] /\ job'[s] = job[s],
                pc'[r] = "record" => job'[r] = job[r],
                pc'[r] \in {"idle", "record"}, UNCHANGED told
         PROVE  LocksAreHeld' /\ RedeemedIffGiven' /\ RedemptionsStand'
  <2>1. /\ RedeemedIffGiven' /\ redeemedBy'[TheCode(r)] = TheUser(r) /\ TheUser(r) # NoUser
        /\ \A c \in Codes : redeemedBy[c] # NoUser => redeemedBy'[c] = redeemedBy[c]
    BY <1>idle, CommittedOnce
  <2>2. LocksAreHeld'
    <3>1. Unlock(r) /\ issued' = issued
      BY <1>idle DEF Committed
    <3>2. \A c \in Codes : c # TheCode(r) => redeemedBy'[c] = redeemedBy[c]
      BY <1>idle, <1>type DEF Committed, TypeOK
    <3>3. QED BY <1>idle, <3>1, <3>2, <1>type, <1>inv, LeaveLocks
  <2>3. RedemptionsStand'
    <3>1. \A j \in told' : redeemedBy'[j.code] = j.user
      <4>1. ASSUME NEW j \in told PROVE redeemedBy'[j.code] = j.user
        <5>1. j.code \in Codes /\ j.user \in Users /\ redeemedBy[j.code] = j.user
          BY <1>type, <1>inv DEF TypeOK, Job, RedemptionsStand
        <5>2. j.user # NoUser
          BY <5>1, RedemptionAssumption
        <5>3. QED BY <5>1, <5>2, <2>1
      <4>2. QED BY <4>1, <1>idle
    <3>2. ASSUME NEW s \in Requests, pc'[s] = "record"
          PROVE  redeemedBy'[TheCode(s)'] = TheUser(s)'
      <4>1. CASE s = r
        BY <4>1, <3>2, <2>1, <1>idle DEF TheCode, TheUser
      <4>2. CASE s # r
        <5>1. pc[s] = "record" /\ TheCode(s)' = TheCode(s) /\ TheUser(s)' = TheUser(s)
          BY <4>2, <3>2, <1>idle DEF TheCode, TheUser
        <5>2. redeemedBy[TheCode(s)] = TheUser(s) /\ TheCode(s) \in Codes /\ TheUser(s) \in Users
          BY <5>1, <1>type, <1>inv, JobType DEF RedemptionsStand
        <5>3. TheUser(s) # NoUser
          BY <5>2, RedemptionAssumption
        <5>4. QED BY <5>1, <5>2, <5>3, <2>1
      <4>3. QED BY <4>1, <4>2
    <3>3. \A c \in records' : redeemedBy'[c] # NoUser
      BY <2>1, <1>type, <1>inv, <1>idle DEF RedemptionsStand, TypeOK, Committed
    <3>4. QED BY <3>1, <3>2, <3>3 DEF RedemptionsStand
  <2>4. QED BY <2>1, <2>2, <2>3
<1>1. ASSUME NEW c \in Codes, IssueCode(c) PROVE Redeeming'
  <2>1. LocksAreHeld'
    BY <1>1, <1>inv DEF IssueCode, LocksAreHeld, Redeemable, TheCode, TheUser
  <2>2. RedemptionsStand'
    BY <1>1, <1>inv DEF IssueCode, RedemptionsStand, TheCode, TheUser
  <2>3. QED BY <1>1, <2>1, <2>2, <1>given, <1>type DEF IssueCode, Redeeming
<1>2. ASSUME NEW r \in Requests, NEW u \in Users, NEW c \in Codes, PostRedeem(r, u, c)
      PROVE  Redeeming'
  <2>1. /\ \A s \in Requests \ {r} : pc'[s] = pc[s] /\ job'[s] = job[s]
        /\ pc[r] = "idle" /\ pc'[r] = "lockCode"
    BY <1>2, <1>type DEF PostRedeem, TypeOK
  <2>2. LocksAreHeld'
    BY <1>2, <2>1, <1>type, <1>inv, StayLocks DEF PostRedeem
  <2>3. RedemptionsStand'
    BY <1>2, <2>1, <1>stand DEF PostRedeem
  <2>4. QED BY <1>2, <2>2, <2>3, <1>given, <1>type DEF PostRedeem, Redeeming
<1>3. ASSUME NEW r \in Requests, LockCode(r) PROVE Redeeming'
  <2>0. UNCHANGED <<issued, redeemedBy, told, records, gifts, subLock>>
    BY <1>3 DEF LockCode
  <2>1. CASE Return(r) /\ UNCHANGED codeLock
    <3>1. LocksAreHeld'
      BY <1>3, <2>0, <2>1, <1>return, <1>type, <1>inv, StayLocks DEF LockCode
    <3>2. QED BY <2>0, <2>1, <3>1, <1>return, <1>stand, <1>given, <1>type DEF Redeeming
  <2>2. CASE /\ Redeemable(TheCode(r)) /\ Goto(r, "mark")
             /\ codeLock' = [codeLock EXCEPT ![TheCode(r)] = r]
    <3>1. /\ \A s \in Requests \ {r} : pc'[s] = pc[s] /\ job'[s] = job[s]
          /\ pc'[r] = "mark" /\ job'[r] = job[r] /\ pc[r] = "lockCode"
      BY <1>3, <2>2, <1>goto DEF LockCode
    <3>2. TheCode(r) \in Codes /\ codeLock[TheCode(r)] = NoRequest
      BY <1>3, <1>type, <3>1, JobType DEF LockCode
    <3>3. \A c \in Codes : codeLock'[c] = IF c = TheCode(r) THEN r ELSE codeLock[c]
      BY <2>2, <3>2, <1>type DEF TypeOK
    <3>4. r # NoRequest
      BY RedemptionAssumption
    <3>5. ASSUME NEW c \in Codes, codeLock'[c] # NoRequest
          PROVE  /\ pc'[codeLock'[c]] \in InTransaction
                 /\ job'[codeLock'[c]].code = c /\ Redeemable(c)'
      <4>1. CASE c = TheCode(r)
        BY <4>1, <3>1, <3>3, <2>2, <2>0 DEF TheCode, Redeemable
      <4>2. CASE c # TheCode(r)
        <5>1. codeLock'[c] = codeLock[c] /\ codeLock[c] \in Requests
          BY <4>2, <3>3, <3>5, <1>type DEF TypeOK
        <5>2. /\ pc[codeLock[c]] \in InTransaction /\ job[codeLock[c]].code = c
              /\ Redeemable(c)
          BY <5>1, <3>5, <1>inv DEF LocksAreHeld, TheCode
        <5>3. codeLock[c] # r
          BY <5>2, <3>1
        <5>4. QED BY <5>1, <5>2, <5>3, <3>1, <2>0 DEF Redeemable
      <4>3. QED BY <4>1, <4>2
    <3>6. ASSUME NEW u \in Users, subLock'[u] # NoRequest
          PROVE  pc'[subLock'[u]] = "commit" /\ job'[subLock'[u]].user = u
      <4>1. /\ subLock'[u] = subLock[u] /\ subLock[u] \in Requests
            /\ pc[subLock[u]] = "commit" /\ job[subLock[u]].user = u
        BY <3>6, <2>0, <1>type, <1>inv DEF LocksAreHeld, TheUser, TypeOK
      <4>2. subLock[u] # r
        BY <4>1, <3>1
      <4>3. QED BY <4>1, <4>2, <3>1
    <3>7. ASSUME NEW s \in Requests
          PROVE  /\ pc'[s] \in InTransaction => codeLock'[job'[s].code] = s
                 /\ pc'[s] = "commit" => subLock'[job'[s].user] = s
      <4>1. CASE s = r
        BY <4>1, <3>1, <3>2, <3>3 DEF TheCode
      <4>2. CASE s # r
        <5>1. pc'[s] = pc[s] /\ job'[s] = job[s]
          BY <4>2, <3>1
        <5>2. ASSUME pc[s] \in InTransaction
              PROVE  codeLock[TheCode(s)] = s /\ TheCode(s) \in Codes /\ s # NoRequest
          BY <5>2, <1>type, <1>inv, JobType, RedemptionAssumption DEF LocksAreHeld
        <5>3. ASSUME pc[s] \in InTransaction PROVE TheCode(s) # TheCode(r)
          BY <5>2, <5>3, <3>2
        <5>4. pc[s] = "commit" => subLock[job[s].user] = s
          BY <1>inv DEF LocksAreHeld, TheUser
        <5>5. QED BY <5>1, <5>2, <5>3, <5>4, <3>3, <2>0 DEF TheCode
      <4>3. QED BY <4>1, <4>2
    <3>8. LocksAreHeld'
      BY <3>5, <3>6, <3>7 DEF LocksAreHeld, TheCode, TheUser
    <3>9. QED BY <2>0, <3>1, <3>8, <1>stand, <1>given, <1>type DEF Redeeming
  <2>3. QED BY <1>3, <2>1, <2>2 DEF LockCode
<1>4. ASSUME NEW r \in Requests, MarkRedeemed(r) PROVE Redeeming'
  <2>1. LocksAreHeld'
    BY <1>4, <1>goto, <1>type, <1>inv, StayLocks DEF MarkRedeemed
  <2>2. QED BY <1>4, <2>1, <1>goto, <1>stand, <1>given, <1>type DEF MarkRedeemed, Redeeming
<1>5. ASSUME NEW r \in Requests, ReadSubscription(r) PROVE Redeeming'
  <2>1. LocksAreHeld'
    BY <1>5, <1>goto, <1>type, <1>inv, StayLocks DEF ReadSubscription
  <2>2. QED BY <1>5, <2>1, <1>goto, <1>stand, <1>given, <1>type
       DEF ReadSubscription, ReadForExtension, Redeeming
<1>6. ASSUME NEW r \in Requests, UpsertSubscription(r) PROVE Redeeming'
  <2>0. UNCHANGED <<issued, redeemedBy, told, records, gifts, codeLock>>
    BY <1>6 DEF UpsertSubscription
  <2>1. /\ \A s \in Requests \ {r} : pc'[s] = pc[s] /\ job'[s] = job[s]
        /\ pc'[r] = "commit" /\ job'[r] = job[r] /\ pc[r] = "upsertSub"
    BY <1>6, <1>goto DEF UpsertSubscription
  <2>2. TheUser(r) \in Users /\ subLock[TheUser(r)] = NoRequest
    BY <1>6, <2>1, <1>type, JobType DEF UpsertSubscription
  <2>3. \A u \in Users : subLock'[u] = IF u = TheUser(r) THEN r ELSE subLock[u]
    BY <1>6, <2>2, <1>type DEF UpsertSubscription, TypeOK
  <2>4. ASSUME NEW c \in Codes, codeLock'[c] # NoRequest
        PROVE  /\ pc'[codeLock'[c]] \in InTransaction
               /\ job'[codeLock'[c]].code = c /\ Redeemable(c)'
    <3>1. /\ codeLock'[c] = codeLock[c] /\ codeLock[c] \in Requests
          /\ pc[codeLock[c]] \in InTransaction /\ job[codeLock[c]].code = c /\ Redeemable(c)
      BY <2>4, <2>0, <1>type, <1>inv DEF LocksAreHeld, TheCode, TypeOK
    <3>2. QED BY <3>1, <2>0, <2>1 DEF Redeemable
  <2>5. ASSUME NEW u \in Users, subLock'[u] # NoRequest
        PROVE  pc'[subLock'[u]] = "commit" /\ job'[subLock'[u]].user = u
    <3>1. CASE u = TheUser(r)
      BY <3>1, <2>1, <2>3 DEF TheUser
    <3>2. CASE u # TheUser(r)
      <4>1. /\ subLock'[u] = subLock[u] /\ subLock[u] \in Requests
            /\ pc[subLock[u]] = "commit" /\ job[subLock[u]].user = u
        BY <2>3, <2>5, <3>2, <1>type, <1>inv DEF LocksAreHeld, TheUser, TypeOK
      <4>2. subLock[u] # r
        BY <4>1, <2>1
      <4>3. QED BY <4>1, <4>2, <2>1
    <3>3. QED BY <3>1, <3>2
  <2>6. ASSUME NEW s \in Requests
        PROVE  /\ pc'[s] \in InTransaction => codeLock'[job'[s].code] = s
               /\ pc'[s] = "commit" => subLock'[job'[s].user] = s
    <3>1. CASE s = r
      <4>1. codeLock[job[r].code] = r
        BY <2>1, <1>inv DEF LocksAreHeld, TheCode
      <4>2. QED BY <3>1, <4>1, <2>0, <2>1, <2>2, <2>3 DEF TheUser
    <3>2. CASE s # r
      <4>1. pc'[s] = pc[s] /\ job'[s] = job[s]
        BY <3>2, <2>1
      <4>2. ASSUME pc[s] = "commit"
            PROVE  subLock[TheUser(s)] = s /\ TheUser(s) \in Users /\ s # NoRequest
        BY <4>2, <1>type, <1>inv, JobType, RedemptionAssumption DEF LocksAreHeld
      <4>3. ASSUME pc[s] = "commit" PROVE TheUser(s) # TheUser(r)
        BY <4>2, <4>3, <2>2
      <4>4. pc[s] \in InTransaction => codeLock[job[s].code] = s
        BY <1>inv DEF LocksAreHeld, TheCode
      <4>5. QED BY <4>1, <4>2, <4>3, <4>4, <2>3, <2>0 DEF TheUser
    <3>3. QED BY <3>1, <3>2
  <2>7. LocksAreHeld'
    BY <2>4, <2>5, <2>6 DEF LocksAreHeld, TheCode, TheUser
  <2>8. QED BY <2>0, <2>1, <2>7, <1>stand, <1>given, <1>type DEF Redeeming
<1>7. ASSUME NEW r \in Requests, Commit(r) PROVE Redeeming'
  BY <1>7, <1>goto, <1>idle, <1>type DEF Commit, Redeeming
<1>8. ASSUME NEW r \in Requests, InsertRechargeRecord(r) PROVE Redeeming'
  <2>1. LocksAreHeld'
    BY <1>8, <1>return, <1>type, <1>inv, StayLocks DEF InsertRechargeRecord
  <2>2. RedemptionsStand'
    <3>1. /\ redeemedBy[TheCode(r)] = TheUser(r) /\ TheUser(r) \in Users
          /\ job[r] = [user |-> TheUser(r), code |-> TheCode(r)]
      BY <1>8, <1>type, <1>inv, JobType DEF InsertRechargeRecord, RedemptionsStand
    <3>2. redeemedBy[TheCode(r)] # NoUser
      BY <3>1, RedemptionAssumption
    <3>3. ASSUME NEW s \in Requests, pc'[s] = "record"
          PROVE  redeemedBy'[TheCode(s)'] = TheUser(s)'
      <4>1. s # r /\ pc[s] = "record" /\ job'[s] = job[s]
        BY <3>3, <1>8, <1>return DEF InsertRechargeRecord
      <4>2. QED BY <4>1, <1>8, <1>inv DEF InsertRechargeRecord, RedemptionsStand, TheCode, TheUser
    <3>4. \A j \in told' : redeemedBy'[j.code] = j.user
      BY <1>8, <3>1, <1>inv DEF InsertRechargeRecord, RedemptionsStand
    <3>5. \A c \in records' : redeemedBy'[c] # NoUser
      BY <1>8, <3>2, <1>inv DEF InsertRechargeRecord, RedemptionsStand
    <3>6. QED BY <3>3, <3>4, <3>5 DEF RedemptionsStand
  <2>3. QED BY <1>8, <2>1, <2>2, <1>given, <1>type DEF InsertRechargeRecord, Redeeming
<1>9. ASSUME NEW p \in Payments, CreditRead(p) \/ CreditUpsert(p) PROVE Redeeming'
  <2>1. UNCHANGED <<issued, redeemedBy, records, pc, job, locks, told, gifts>>
    BY <1>9 DEF CreditRead, CreditUpsert, ReadForExtension
  <2>2. LocksAreHeld' /\ RedemptionsStand'
    BY <2>1, <1>inv DEF LocksAreHeld, RedemptionsStand, Redeemable, TheCode, TheUser
  <2>3. QED BY <2>1, <2>2, <1>given, <1>type DEF Redeeming
<1>11. ASSUME NEW r \in Requests, TransactionFails(r) PROVE Redeeming'
  <2>1. LocksAreHeld'
    BY <1>11, <1>return, <1>type, <1>inv, LeaveLocks DEF TransactionFails
  <2>2. QED BY <1>11, <2>1, <1>return, <1>stand, <1>given, <1>type DEF TransactionFails, Redeeming
<1>12. ASSUME NEW r \in Requests, CommitReplyLost(r) PROVE Redeeming'
  BY <1>12, <1>return, <1>idle, <1>type DEF CommitReplyLost, Redeeming
<1>13. ASSUME NEW r \in Requests, RecordFails(r) PROVE Redeeming'
  <2>1. LocksAreHeld'
    BY <1>13, <1>return, <1>type, <1>inv, StayLocks DEF RecordFails
  <2>2. RedemptionsStand'
    <3>1. /\ redeemedBy[TheCode(r)] = TheUser(r)
          /\ job[r] = [user |-> TheUser(r), code |-> TheCode(r)]
      BY <1>13, <1>type, <1>inv, JobType DEF RecordFails, RedemptionsStand
    <3>2. ASSUME NEW s \in Requests, pc'[s] = "record"
          PROVE  redeemedBy'[TheCode(s)'] = TheUser(s)'
      <4>1. s # r /\ pc[s] = "record" /\ job'[s] = job[s]
        BY <3>2, <1>13, <1>return DEF RecordFails
      <4>2. QED BY <4>1, <1>13, <1>inv DEF RecordFails, RedemptionsStand, TheCode, TheUser
    <3>3. QED BY <1>13, <3>1, <3>2, <1>inv DEF RecordFails, RedemptionsStand
  <2>3. QED BY <1>13, <2>1, <2>2, <1>given, <1>type DEF RecordFails, Redeeming
<1>14. CASE Crash
  <2>1. \A r \in Requests : pc'[r] = "idle"
    BY <1>14 DEF Crash
  <2>2. /\ \A c \in Codes : codeLock'[c] = NoRequest
        /\ \A u \in Users : subLock'[u] = NoRequest
    BY <1>14 DEF Crash
  <2>3. LocksAreHeld'
    BY <2>1, <2>2 DEF LocksAreHeld
  <2>4. RedemptionsStand'
    BY <1>14, <2>1, <1>inv DEF Crash, RedemptionsStand
  <2>5. QED BY <1>14, <2>3, <2>4, <1>given, <1>type DEF Crash, Redeeming
<1>15. CASE UNCHANGED vars
  <2>1. UNCHANGED <<issued, redeemedBy, records, pc, job, locks, told, gifts>>
    BY <1>15 DEF vars
  <2>2. LocksAreHeld' /\ RedemptionsStand'
    BY <2>1, <1>inv DEF LocksAreHeld, RedemptionsStand, Redeemable, TheCode, TheUser
  <2>3. QED BY <2>1, <2>2, <1>given, <1>type DEF Redeeming
<1>16. QED
  BY <1>1, <1>2, <1>3, <1>4, <1>5, <1>6, <1>7, <1>8, <1>9, <1>11, <1>12,
     <1>13, <1>14, <1>15 DEF Next, Proceed, RedeemAtomically

-----------------------------------------------------------------------------
(***************************************************************************)
(* The part about the rows that codes and payments extend.                 *)
(***************************************************************************)
Extensions ==
  /\ SoleExtension /\ ExtensionsAreFresh /\ NothingLostUnlessOverlapped
  /\ ExtensionsArePossible /\ RowIsEarned

Written == {"upsertSub", "commit"}

\* A step that begins no extension and writes none.
LEMMA OthersExtend ==
  ASSUME Extensions, UNCHANGED <<subs, given, overlapped>>,
         \A r \in Requests : pc'[r] \in Written =>
           pc[r] \in Written /\ job'[r] = job[r] /\ newSub'[r] = newSub[r],
         \A p \in Payments : payPc'[p] = "upsert" =>
           payPc[p] = "upsert" /\ payRow'[p] = payRow[p]
  PROVE  Extensions'
<1>1. \A r \in Requests, u \in Users : RequestExtends(r, u)' =>
        RequestExtends(r, u) /\ newSub'[r] = newSub[r] /\ TheCode(r)' = TheCode(r)
  BY DEF RequestExtends, Written, TheUser, TheCode
<1>2. \A p \in Payments, u \in Users : PaymentExtends(p, u)' =>
        PaymentExtends(p, u) /\ payRow'[p] = payRow[p]
  BY DEF PaymentExtends
<1>3. SoleExtension'
  BY <1>1, <1>2 DEF Extensions, SoleExtension
<1>4. ExtensionsAreFresh'
  BY <1>1, <1>2 DEF Extensions, ExtensionsAreFresh
<1>5. NothingLostUnlessOverlapped' /\ RowIsEarned'
  BY DEF Extensions, NothingLostUnlessOverlapped, RowIsEarned
<1>6. ExtensionsArePossible'
  BY <1>1, <1>2 DEF Extensions, ExtensionsArePossible
<1>7. QED BY <1>3, <1>4, <1>5, <1>6 DEF Extensions

\* A request reads the row it is going to extend.
LEMMA RequestReads ==
  ASSUME TypeOK, Extensions, NEW r \in Requests, ReadSubscription(r)
  PROVE  Extensions'
<1> DEFINE v == TheUser(r)
           new == ExtendAfterPayment(subs[v], CodePlan[TheCode(r)], Today)
<1>1. /\ v \in Users /\ pc[r] = "readSub" /\ newSub' = [newSub EXCEPT ![r] = new]
      /\ pc' = [pc EXCEPT ![r] = "upsertSub"] /\ UNCHANGED <<subs, given, job, pays>>
      /\ overlapped' = overlapped \cup {w \in {v} : Extending(w)}
  BY JobType DEF ReadSubscription, Goto, ReadForExtension
<1>2. \A s \in Requests, u \in Users : RequestExtends(s, u)' =>
        \/ RequestExtends(s, u) /\ newSub'[s] = newSub[s] /\ TheCode(s)' = TheCode(s)
        \/ s = r /\ u = v /\ newSub'[r] = new /\ TheCode(r)' = TheCode(r)
  BY <1>1 DEF TypeOK, RequestExtends, TheUser, TheCode
<1>3. \A p \in Payments, u \in Users : PaymentExtends(p, u)' =>
        PaymentExtends(p, u) /\ payRow'[p] = payRow[p]
  BY <1>1 DEF PaymentExtends
<1>4. \A u \in Users \ overlapped' : u \notin overlapped /\ (u = v => ~Extending(u))
  BY <1>1
<1> HIDE DEF v
<1>5. SoleExtension'
  BY <1>2, <1>3, <1>4 DEF Extensions, SoleExtension, Extending
<1>6. ExtensionsAreFresh'
  BY <1>1, <1>2, <1>3, <1>4 DEF Extensions, ExtensionsAreFresh
<1>7. NothingLostUnlessOverlapped' /\ RowIsEarned'
  BY <1>1, <1>4 DEF Extensions, NothingLostUnlessOverlapped, RowIsEarned
<1>8. subs[v] \in possible[v]
  BY <1>1 DEF Extensions, RowIsEarned, ExtensionsArePossible
<1>9. ExtensionsArePossible'
  BY <1>1, <1>2, <1>3, <1>8 DEF Extensions, ExtensionsArePossible
<1>10. QED BY <1>5, <1>6, <1>7, <1>9 DEF Extensions

\* So does the crediting of a payment.
LEMMA PaymentReads ==
  ASSUME TypeOK, Extensions, NEW q \in Payments, CreditRead(q)
  PROVE  Extensions'
<1> DEFINE v == PayerOf[q]
           new == ExtendAfterPayment(subs[v], PaidFor[q], Today)
<1>1. /\ v \in Users /\ payPc[q] = "due" /\ payRow' = [payRow EXCEPT ![q] = new]
      /\ payPc' = [payPc EXCEPT ![q] = "upsert"] /\ UNCHANGED <<subs, given, pc, job, newSub>>
      /\ overlapped' = overlapped \cup {w \in {v} : Extending(w)}
  BY RedemptionAssumption DEF CreditRead, ReadForExtension
<1>2. \A p \in Payments, u \in Users : PaymentExtends(p, u)' =>
        \/ PaymentExtends(p, u) /\ payRow'[p] = payRow[p]
        \/ p = q /\ u = v /\ payRow'[q] = new
  BY <1>1 DEF TypeOK, PaymentExtends
<1>3. \A r \in Requests, u \in Users : RequestExtends(r, u)' =>
        RequestExtends(r, u) /\ newSub'[r] = newSub[r] /\ TheCode(r)' = TheCode(r)
  BY <1>1 DEF RequestExtends, TheUser, TheCode
<1>4. \A u \in Users \ overlapped' : u \notin overlapped /\ (u = v => ~Extending(u))
  BY <1>1
<1> HIDE DEF v
<1>5. SoleExtension'
  BY <1>2, <1>3, <1>4 DEF Extensions, SoleExtension, Extending
<1>6. ExtensionsAreFresh'
  BY <1>1, <1>2, <1>3, <1>4 DEF Extensions, ExtensionsAreFresh
<1>7. NothingLostUnlessOverlapped' /\ RowIsEarned'
  BY <1>1, <1>4 DEF Extensions, NothingLostUnlessOverlapped, RowIsEarned
<1>8. subs[v] \in possible[v]
  BY <1>1 DEF Extensions, RowIsEarned, ExtensionsArePossible
<1>9. ExtensionsArePossible'
  BY <1>1, <1>2, <1>3, <1>8 DEF Extensions, ExtensionsArePossible
<1>10. QED BY <1>5, <1>6, <1>7, <1>9 DEF Extensions

\* Writing a row that some possible row makes with the plan that is given keeps
\* the row earned; and if it extends the row that is there, and no other
\* extension of it is under way, nothing is lost.
LEMMA Writes ==
  ASSUME TypeOK, Extensions, NEW v \in Users, NEW plan \in Plans, NEW new, Give(v, plan),
         subs' = [subs EXCEPT ![v] = new], UNCHANGED overlapped,
         \E row \in possible[v] : new = ExtendAfterPayment(row, plan, Today),
         v \notin overlapped => new = ExtendAfterPayment(subs[v], plan, Today),
         \A r \in Requests : pc'[r] \in Written =>
           pc[r] \in Written /\ job'[r] = job[r] /\ newSub'[r] = newSub[r],
         \A p \in Payments : payPc'[p] = "upsert" =>
           payPc[p] = "upsert" /\ payRow'[p] = payRow[p],
         v \notin overlapped => ~Extending(v)'
  PROVE  Extensions'
<1> DEFINE with == {ExtendAfterPayment(row, plan, Today) : row \in possible[v]}
<1>1. \A r \in Requests, u \in Users : RequestExtends(r, u)' =>
        RequestExtends(r, u) /\ newSub'[r] = newSub[r] /\ TheCode(r)' = TheCode(r)
  BY DEF RequestExtends, Written, TheUser, TheCode
<1>2. \A p \in Payments, u \in Users : PaymentExtends(p, u)' =>
        PaymentExtends(p, u) /\ payRow'[p] = payRow[p]
  BY DEF PaymentExtends
<1>3. /\ deserved' = [deserved EXCEPT ![v] = ExtendAfterPayment(deserved[v], plan, Today)]
      /\ earned' = [earned EXCEPT ![v] = with]
      /\ possible' = [possible EXCEPT ![v] = possible[v] \cup with]
  BY DEF Give
<1>4. new \in with
  OBVIOUS
<1> HIDE DEF with
<1>5. \A u \in Users : u # v => subs'[u] = subs[u] /\ deserved'[u] = deserved[u]
                                /\ earned'[u] = earned[u] /\ possible'[u] = possible[u]
  BY <1>3 DEF TypeOK
<1>6. /\ subs'[v] = new /\ deserved'[v] = ExtendAfterPayment(deserved[v], plan, Today)
      /\ earned'[v] = with /\ possible'[v] = possible[v] \cup with
  BY <1>3 DEF TypeOK
<1>7. SoleExtension'
  BY <1>1, <1>2 DEF Extensions, SoleExtension
<1>8. \A u \in Users \ overlapped : Extending(u)' => u # v
  OBVIOUS
<1>9. ExtensionsAreFresh'
  BY <1>1, <1>2, <1>5, <1>8 DEF Extensions, ExtensionsAreFresh, Extending
<1>10. NothingLostUnlessOverlapped'
  BY <1>5, <1>6 DEF Extensions, NothingLostUnlessOverlapped
<1>11. RowIsEarned'
  BY <1>4, <1>5, <1>6 DEF Extensions, RowIsEarned
<1>12. \A u \in Users : possible[u] \subseteq possible'[u] /\ earned'[u] \subseteq possible'[u]
  BY <1>5, <1>6 DEF Extensions, ExtensionsArePossible
<1>13. ExtensionsArePossible'
  BY <1>1, <1>2, <1>12 DEF Extensions, ExtensionsArePossible
<1>14. QED BY <1>7, <1>9, <1>10, <1>11, <1>13 DEF Extensions

\* A transaction that commits writes what it has computed.
LEMMA CommitExtends ==
  ASSUME TypeOK, Extensions, NEW r \in Requests, pc[r] = "commit", Committed(r),
         \A s \in Requests \ {r} : pc'[s] = pc[s] /\ job'[s] = job[s] /\ newSub'[s] = newSub[s],
         pc'[r] \notin Written, UNCHANGED pays
  PROVE  Extensions'
<1>v. PICK v, plan : v = TheUser(r) /\ plan = CodePlan[TheCode(r)]
  OBVIOUS
<1>1. v \in Users /\ plan \in Plans /\ RequestExtends(r, v)
  BY <1>v, JobType DEF RequestExtends
<1>2. \E row \in possible[v] : newSub[r] = ExtendAfterPayment(row, plan, Today)
  BY <1>v, <1>1 DEF Extensions, ExtensionsArePossible
<1>3. v \notin overlapped => newSub[r] = ExtendAfterPayment(subs[v], plan, Today)
  BY <1>v, <1>1 DEF Extensions, ExtensionsAreFresh
<1>4. ASSUME v \notin overlapped
      PROVE  ~Extending(v)'
  <2>1. \A s \in Requests : RequestExtends(s, v)' => s # r /\ RequestExtends(s, v)
    BY DEF RequestExtends, Written, TheUser
  <2>2. \A p \in Payments : PaymentExtends(p, v)' => PaymentExtends(p, v)
    BY DEF PaymentExtends
  <2>3. QED BY <1>1, <1>4, <2>1, <2>2 DEF Extensions, SoleExtension, Extending
<1>5. /\ Give(v, plan) /\ subs' = [subs EXCEPT ![v] = newSub[r]] /\ UNCHANGED overlapped
  BY <1>v DEF Committed
<1>6. /\ \A s \in Requests : pc'[s] \in Written =>
           pc[s] \in Written /\ job'[s] = job[s] /\ newSub'[s] = newSub[s]
      /\ \A p \in Payments : payPc'[p] = "upsert" => payPc[p] = "upsert" /\ payRow'[p] = payRow[p]
  OBVIOUS
<1>7. PICK new : new = newSub[r]
  OBVIOUS
<1>8. QED BY <1>1, <1>2, <1>3, <1>4, <1>5, <1>6, <1>7, Writes

\* So does a payment that is credited.
LEMMA CreditExtends ==
  ASSUME TypeOK, Extensions, NEW q \in Payments, CreditUpsert(q)
  PROVE  Extensions'
<1>v. PICK v, plan, new : v = PayerOf[q] /\ plan = PaidFor[q] /\ new = payRow[q]
  OBVIOUS
<1>1. v \in Users /\ plan \in Plans /\ PaymentExtends(q, v)
  BY <1>v, RedemptionAssumption DEF PaymentExtends, CreditUpsert
<1>2. \E row \in possible[v] : new = ExtendAfterPayment(row, plan, Today)
  BY <1>v, <1>1 DEF Extensions, ExtensionsArePossible
<1>3. v \notin overlapped => new = ExtendAfterPayment(subs[v], plan, Today)
  BY <1>v, <1>1 DEF Extensions, ExtensionsAreFresh
<1>4. /\ Give(v, plan) /\ subs' = [subs EXCEPT ![v] = new]
      /\ UNCHANGED <<overlapped, pc, job, newSub, payRow>>
      /\ payPc' = [payPc EXCEPT ![q] = "done"]
  BY <1>v DEF CreditUpsert
<1>5. ASSUME v \notin overlapped
      PROVE  ~Extending(v)'
  <2>1. \A s \in Requests : RequestExtends(s, v)' => RequestExtends(s, v)
    BY <1>4 DEF RequestExtends, TheUser
  <2>2. \A p \in Payments : PaymentExtends(p, v)' => p # q /\ PaymentExtends(p, v)
    BY <1>4 DEF PaymentExtends, TypeOK
  <2>3. QED BY <1>1, <1>5, <2>1, <2>2 DEF Extensions, SoleExtension, Extending
<1>6. /\ \A s \in Requests : pc'[s] \in Written =>
           pc[s] \in Written /\ job'[s] = job[s] /\ newSub'[s] = newSub[s]
      /\ \A p \in Payments : payPc'[p] = "upsert" => payPc[p] = "upsert" /\ payRow'[p] = payRow[p]
  BY <1>4 DEF Written, TypeOK
<1>7. QED BY <1>1, <1>2, <1>3, <1>4, <1>5, <1>6, Writes

\* Each step keeps the rows' part of the invariant.
LEMMA NextExtensions == TypeOK /\ Extensions /\ [Next]_vars => Extensions'
<1> SUFFICES ASSUME TypeOK, Extensions, [Next]_vars PROVE Extensions'
  OBVIOUS
\* A step of a request that begins no extension and writes none.
<1>request. ASSUME NEW r \in Requests, UNCHANGED <<subs, given, overlapped, pays>>,
                   \A s \in Requests \ {r} : pc'[s] = pc[s] /\ job'[s] = job[s] /\ newSub'[s] = newSub[s],
                   \/ pc'[r] \notin Written
                   \/ pc[r] \in Written /\ job'[r] = job[r] /\ newSub'[r] = newSub[r]
            PROVE  Extensions'
  <2>1. \A s \in Requests : pc'[s] \in Written =>
          pc[s] \in Written /\ job'[s] = job[s] /\ newSub'[s] = newSub[s]
    BY <1>request
  <2>2. QED BY <1>request, <2>1, OthersExtend
<1>goto. ASSUME NEW r \in Requests, NEW label, Goto(r, label)
         PROVE  /\ \A s \in Requests \ {r} : pc'[s] = pc[s]
                /\ pc'[r] = label /\ job' = job
  BY <1>goto DEF Goto, TypeOK
<1>return. ASSUME NEW r \in Requests, Return(r)
           PROVE  /\ \A s \in Requests \ {r} : pc'[s] = pc[s] /\ job'[s] = job[s] /\ newSub'[s] = newSub[s]
                  /\ pc'[r] \notin Written
  BY <1>return DEF Return, TypeOK, Written
<1>1. ASSUME NEW c \in Codes, IssueCode(c) PROVE Extensions'
  BY <1>1, OthersExtend DEF IssueCode
<1>2. ASSUME NEW r \in Requests, NEW u \in Users, NEW c \in Codes, PostRedeem(r, u, c)
      PROVE  Extensions'
  BY <1>2, <1>request DEF PostRedeem, TypeOK, Written
<1>3. ASSUME NEW r \in Requests,
             \/ LockCode(r) \/ InsertRechargeRecord(r) \/ TransactionFails(r) \/ RecordFails(r)
      PROVE  Extensions'
  <2>1. UNCHANGED <<subs, given, overlapped, pays>>
    BY <1>3 DEF LockCode, InsertRechargeRecord, TransactionFails, RecordFails
  <2>2. Return(r) \/ (Goto(r, "mark") /\ UNCHANGED newSub)
    BY <1>3 DEF LockCode, InsertRechargeRecord, TransactionFails, RecordFails
  <2>3. QED BY <1>request, <1>return, <1>goto, <2>1, <2>2 DEF Written
<1>4. ASSUME NEW r \in Requests, MarkRedeemed(r) PROVE Extensions'
  BY <1>4, <1>request, <1>goto DEF MarkRedeemed, Written
<1>5. ASSUME NEW r \in Requests, UpsertSubscription(r) PROVE Extensions'
  BY <1>5, <1>request, <1>goto DEF UpsertSubscription, Written
<1>6. ASSUME NEW r \in Requests, Commit(r) \/ CommitReplyLost(r) PROVE Extensions'
  <2>1. /\ pc[r] = "commit" /\ Committed(r) /\ UNCHANGED pays
        /\ Return(r) \/ (Goto(r, "record") /\ UNCHANGED newSub)
    BY <1>6 DEF Commit, CommitReplyLost
  <2>2. QED BY <1>return, <1>goto, <2>1, CommitExtends DEF Written
<1>7. CASE Crash
  BY <1>7, OthersExtend DEF Crash, Written, TypeOK
<1>8. CASE UNCHANGED vars
  BY <1>8, OthersExtend DEF vars
<1>9. QED
  BY <1>1, <1>2, <1>3, <1>4, <1>5, <1>6, <1>7, <1>8, RequestReads, PaymentReads, CreditExtends
     DEF Next, Proceed, RedeemAtomically

\* The inductive invariant holds in every reachable state.
THEOREM Invariance == Spec => []IInv
<1>1. Init => IInv
  <2>1. Init => Extensions
    BY RedemptionAssumption
       DEF Init, Extensions, SoleExtension, ExtensionsAreFresh, NothingLostUnlessOverlapped,
           ExtensionsArePossible, RowIsEarned, RequestExtends, PaymentExtends
  <2>2. QED BY <2>1, InitRedeeming DEF Redeeming, Extensions, IInv
<1>2. IInv /\ [Next]_vars => IInv'
  BY NextRedeeming, NextExtensions DEF Redeeming, Extensions, IInv
<1>3. QED BY <1>1, <1>2, PTL DEF Spec

\* A code is given at most once, and is marked redeemed exactly when it was
\* given, for any number of concurrent requests, failures and restarts.
THEOREM GivenOnce == Spec => []RedeemedIffGiven
<1>1. IInv => RedeemedIffGiven
  BY DEF IInv
<1>2. QED BY <1>1, Invariance, PTL

\* The locks follow the transactions.
THEOREM LocksHeld == Spec => []LocksAreHeld
<1>1. IInv => LocksAreHeld
  BY DEF IInv
<1>2. QED BY <1>1, Invariance, PTL

\* Redemptions that were told or recorded stand.
THEOREM RedemptionsStay == Spec => []RedemptionsStand
<1>1. IInv => RedemptionsStand
  BY DEF IInv
<1>2. QED BY <1>1, Invariance, PTL

\* A membership holds everything that was given to its user, unless it was
\* read for one extension while another was under way: for any number of codes
\* and payments, and whatever fails (redeem.go:73-91).
THEOREM NothingLost == Spec => []NothingLostUnlessOverlapped
<1>1. IInv => NothingLostUnlessOverlapped
  BY DEF IInv
<1>2. QED BY <1>1, Invariance, PTL

\* And in any case a membership is made of plans that were given, and holds
\* the last of them.
THEOREM RowsAreEarned == Spec => []RowIsEarned
<1>1. IInv => RowIsEarned
  BY DEF IInv
<1>2. QED BY <1>1, Invariance, PTL
=============================================================================
