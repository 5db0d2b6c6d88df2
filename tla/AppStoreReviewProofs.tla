------------------------ MODULE AppStoreReviewProofs ------------------------
(***************************************************************************)
(* Proofs, for any number of users, images and concurrent uploads, that a  *)
(* user has one review at a time and that its month is given once.         *)
(*                                                                         *)
(* The argument: an upload that locks the row has seen it free of reviews, *)
(* and nobody can put it under review before it does (LockedIsFree), so    *)
(* that the review it starts is alone (SoleReviewer), with the row to      *)
(* itself from the read to the write (ReviewerState); a month is given     *)
(* again only when the call that gave it, or one after it, was lost        *)
(* (GiftsAddUp).                                                           *)
(***************************************************************************)
EXTENDS AppStoreReview, FiniteSetTheorems, TLAPS

USE DEF tables, process, history, bounds

-----------------------------------------------------------------------------
(***************************************************************************)
(* A month.                                                                *)
(***************************************************************************)
\* A row stays a row.
LEMMA ExtendType ==
  ASSUME NEW row \in Row
  PROVE  ExtendAfterPayment(row, Monthly, Today) \in Row
  BY PlanAssumption, ReviewAssumption DEF ExtendAfterPayment, LifetimeRow, Row,
        Anchor

\* The next month is added to the months given so far.
LEMMA OneMonthMore ==
  ASSUME NEW row \in Row, NEW n \in Nat
  PROVE  AfterMonths(row, n + 1) = ExtendAfterPayment(AfterMonths(row, n), Monthly, Today)
<1> DEFINE length == PlanLength[Monthly]
<1>1. length \in Nat /\ Monthly \notin LifetimePlans /\ Today \in Nat
  BY PlanAssumption, ReviewAssumption
<1>2. CASE n = 0
  <2>1. AfterMonths(row, n) = row /\ n + 1 # 0 /\ (n + 1) * length = length
    BY <1>1, <1>2 DEF AfterMonths
  <2> QED BY <1>1, <2>1 DEF AfterMonths, ExtendAfterPayment
<1>3. CASE n # 0 /\ row.lifetime
  BY <1>1, <1>3 DEF AfterMonths, ExtendAfterPayment, LifetimeRow
<1>4. CASE n # 0 /\ ~row.lifetime
  <2> DEFINE before == AfterMonths(row, n)
  <2>1. Anchor(row, Today) \in Nat /\ Anchor(row, Today) >= Today
    BY <1>1 DEF Anchor, Row
  <2>2. n * length \in Nat /\ (n + 1) * length = n * length + length
    BY <1>1
  <2>3. before = [expires |-> Anchor(row, Today) + n * length, lifetime |-> FALSE]
    BY <1>4 DEF AfterMonths
  <2>4. AfterMonths(row, n + 1)
          = [expires |-> Anchor(row, Today) + (n + 1) * length, lifetime |-> FALSE]
    BY <1>4 DEF AfterMonths
  <2> HIDE DEF length, before
  <2>5. before.expires >= Today /\ ~before.lifetime
    BY <1>1, <2>1, <2>2, <2>3
  <2>6. ExtendAfterPayment(before, Monthly, Today)
          = [expires |-> before.expires + length, lifetime |-> FALSE]
    BY <1>1, <2>5 DEF ExtendAfterPayment, Anchor, length
  <2>7. before.expires + length = Anchor(row, Today) + (n + 1) * length
    BY <1>1, <2>1, <2>2, <2>3
  <2> QED BY <2>4, <2>6, <2>7 DEF before, length
<1> QED BY <1>2, <1>3, <1>4

-----------------------------------------------------------------------------
(***************************************************************************)
(* The inductive invariant.                                                *)
(***************************************************************************)
\* At most one review is counted among the dead of a restart.
LEMMA LiveIsOne ==
  ASSUME IInv, NEW u \in Users
  PROVE  /\ Cardinality(Live(u)) \in {0, 1}
         /\ Live(u) # {} => Cardinality(Live(u)) = 1
<1>1. CASE Live(u) = {}
  BY <1>1, FS_EmptySet
<1>2. CASE Live(u) # {}
  <2>1. PICK r \in Live(u) : TRUE
    BY <1>2
  <2>2. Live(u) = {r}
    BY <2>1 DEF Live, IInv, SoleReviewer
  <2> QED BY <2>2, FS_Singleton
<1> QED BY <1>1, <1>2

\* Nothing has been uploaded.
LEMMA InitIInv == Init => IInv
<1> SUFFICES ASSUME Init  PROVE IInv
  OBVIOUS
<1> USE ReviewAssumption DEF Init
<1>1. NoRow \in Row
  BY DEF NoRow, Row
<1>2. TypeOK
  BY <1>1 DEF TypeOK, Labels
<1>3. ImageIsStored /\ LockedIsFree /\ SoleReviewer /\ ReviewerState
  BY DEF ImageIsStored, LockedIsFree, SoleReviewer, ReviewerState, Reviewing
<1>4. GiftsAddUp /\ GiftsAreEarned
  BY DEF GiftsAddUp, GiftsAreEarned, AfterMonths, Nearly, Live, Reviewing
<1> QED BY <1>2, <1>3, <1>4 DEF IInv

\* A process without a row to write.
LEMMA NoRowType == NoRow \in Row
  BY DEF NoRow, Row

\* A client uploads an image.
LEMMA PostKeepsIInv ==
  ASSUME IInv, NEW r \in Requests, NEW u \in Users, NEW i \in Images,
         PostScreenshot(r, u, i)
  PROVE  IInv'
<1> USE ReviewAssumption, NoRowType DEF IInv, TypeOK, ImageIsStored,
      LockedIsFree, SoleReviewer, ReviewerState, Labels, Reviewing, PostScreenshot
<1>1. TypeOK'
  OBVIOUS
<1>2. (ImageIsStored /\ LockedIsFree /\ SoleReviewer /\ ReviewerState)'
  OBVIOUS
<1>3. (GiftsAddUp /\ GiftsAreEarned)'
  BY DEF GiftsAddUp, GiftsAreEarned, Nearly, Live
<1> QED BY <1>1, <1>2, <1>3

\* The handler.  The transaction that writes "reviewing" holds the lock alone.
LEMMA UploadKeepsIInv ==
  ASSUME IInv, NEW r \in Requests, Upload(r)
  PROVE  IInv'
<1> USE ReviewAssumption, NoRowType DEF IInv, Labels, Reviewing, At, Goto,
      Return, Unlock
<1>1. CASE PutFile(r)
  <2> USE <1>1 DEF PutFile
  <2>1. TypeOK'
    BY DEF TypeOK, ImageIsStored
  <2>2. (ImageIsStored /\ LockedIsFree)'
    BY DEF TypeOK, ImageIsStored, LockedIsFree, ReviewerState
  <2>3. (SoleReviewer /\ ReviewerState)'
    BY DEF TypeOK, LockedIsFree, SoleReviewer, ReviewerState
  <2>4. GiftsAddUp'
    BY DEF TypeOK, LockedIsFree, SoleReviewer, ReviewerState, GiftsAddUp,
          GiftsAreEarned,
      Nearly, Live
  <2>5. GiftsAreEarned'
    BY DEF TypeOK, LockedIsFree, SoleReviewer, ReviewerState, GiftsAddUp,
          GiftsAreEarned,
      Nearly, Live
  <2> QED BY <2>1, <2>2, <2>3, <2>4, <2>5
<1>2. CASE BeginLock(r)
  <2> USE <1>2 DEF BeginLock
  <2>1. TypeOK'
    BY DEF TypeOK, ImageIsStored
  <2>2. (ImageIsStored /\ LockedIsFree)'
    BY DEF TypeOK, ImageIsStored, LockedIsFree, ReviewerState
  <2>3. (SoleReviewer /\ ReviewerState)'
    BY DEF TypeOK, LockedIsFree, SoleReviewer, ReviewerState
  <2>4. GiftsAddUp'
    BY DEF TypeOK, LockedIsFree, SoleReviewer, ReviewerState, GiftsAddUp,
          GiftsAreEarned,
      Nearly, Live
  <2>5. GiftsAreEarned'
    BY DEF TypeOK, LockedIsFree, SoleReviewer, ReviewerState, GiftsAddUp,
          GiftsAreEarned,
      Nearly, Live
  <2> QED BY <2>1, <2>2, <2>3, <2>4, <2>5
<1>3. CASE BeginWrite(r)
  <2> USE <1>3 DEF BeginWrite
  <2>1. TypeOK'
    BY DEF TypeOK, ImageIsStored
  <2>2. (ImageIsStored /\ LockedIsFree)'
    BY DEF TypeOK, ImageIsStored, LockedIsFree, ReviewerState
  <2>3. (SoleReviewer /\ ReviewerState)'
    BY DEF TypeOK, LockedIsFree, SoleReviewer, ReviewerState
  <2>4. GiftsAddUp'
    BY DEF TypeOK, LockedIsFree, SoleReviewer, ReviewerState, GiftsAddUp,
          GiftsAreEarned,
      Nearly, Live
  <2>5. GiftsAreEarned'
    BY DEF TypeOK, LockedIsFree, SoleReviewer, ReviewerState, GiftsAddUp,
          GiftsAreEarned,
      Nearly, Live
  <2> QED BY <2>1, <2>2, <2>3, <2>4, <2>5
<1>4. CASE BeginDeadlock(r)
  <2> USE <1>4 DEF BeginDeadlock
  <2>1. TypeOK'
    BY DEF TypeOK, ImageIsStored
  <2>2. (ImageIsStored /\ LockedIsFree)'
    BY DEF TypeOK, ImageIsStored, LockedIsFree, ReviewerState
  <2>3. (SoleReviewer /\ ReviewerState)'
    BY DEF TypeOK, LockedIsFree, SoleReviewer, ReviewerState
  <2>4. GiftsAddUp'
    BY DEF TypeOK, LockedIsFree, SoleReviewer, ReviewerState, GiftsAddUp,
          GiftsAreEarned,
      Nearly, Live
  <2>5. GiftsAreEarned'
    BY DEF TypeOK, LockedIsFree, SoleReviewer, ReviewerState, GiftsAddUp,
          GiftsAreEarned,
      Nearly, Live
  <2> QED BY <2>1, <2>2, <2>3, <2>4, <2>5
<1> QED BY <1>1, <1>2, <1>3, <1>4 DEF Upload

\* The goroutine: the month it writes is the next one of the row as it is.
LEMMA ReviewKeepsIInv ==
  ASSUME IInv, NEW r \in Requests, Review(r)
  PROVE  IInv'
<1> USE ReviewAssumption, NoRowType DEF IInv, Labels, Reviewing, At, Goto,
      Return, Unlock
<1>1. CASE Judge(r)
  <2> USE <1>1 DEF Judge
  <2>1. TypeOK'
    BY DEF TypeOK, ImageIsStored
  <2>2. (ImageIsStored /\ LockedIsFree)'
    BY DEF TypeOK, ImageIsStored, LockedIsFree, ReviewerState
  <2>3. (SoleReviewer /\ ReviewerState)'
    BY DEF TypeOK, LockedIsFree, SoleReviewer, ReviewerState, ImageIsStored
  <2>4. GiftsAddUp'
    BY DEF TypeOK, LockedIsFree, SoleReviewer, ReviewerState, GiftsAddUp,
          GiftsAreEarned,
      Nearly, Live
  <2>5. GiftsAreEarned'
    BY DEF TypeOK, LockedIsFree, SoleReviewer, ReviewerState, GiftsAddUp,
          GiftsAreEarned,
      Nearly, Live, ImageIsStored
  <2> QED BY <2>1, <2>2, <2>3, <2>4, <2>5
<1>2. CASE Reject(r)
  <2> USE <1>2 DEF Reject
  <2>1. TypeOK'
    BY DEF TypeOK, ImageIsStored
  <2>2. (ImageIsStored /\ LockedIsFree)'
    BY DEF TypeOK, ImageIsStored, LockedIsFree, ReviewerState
  <2>3. (SoleReviewer /\ ReviewerState)'
    BY DEF TypeOK, LockedIsFree, SoleReviewer, ReviewerState
  <2>4. GiftsAddUp'
    BY DEF TypeOK, LockedIsFree, SoleReviewer, ReviewerState, GiftsAddUp,
          GiftsAreEarned,
      Nearly, Live
  <2>5. GiftsAreEarned'
    BY DEF TypeOK, LockedIsFree, SoleReviewer, ReviewerState, GiftsAddUp,
          GiftsAreEarned,
      Nearly, Live
  <2> QED BY <2>1, <2>2, <2>3, <2>4, <2>5
<1>3. CASE ReadSubscription(r)
  <2> USE <1>3 DEF ReadSubscription
  <2>1. TypeOK'
    BY ExtendType DEF TypeOK, ImageIsStored
  <2>2. (ImageIsStored /\ LockedIsFree)'
    BY DEF TypeOK, ImageIsStored, LockedIsFree, ReviewerState
  <2>3. (SoleReviewer /\ ReviewerState)'
    BY DEF TypeOK, LockedIsFree, SoleReviewer, ReviewerState
  <2>4. GiftsAddUp'
    BY DEF TypeOK, LockedIsFree, SoleReviewer, ReviewerState, GiftsAddUp,
          GiftsAreEarned,
      Nearly, Live
  <2>5. GiftsAreEarned'
    BY DEF TypeOK, LockedIsFree, SoleReviewer, ReviewerState, GiftsAddUp,
          GiftsAreEarned,
      Nearly, Live
  <2> QED BY <2>1, <2>2, <2>3, <2>4, <2>5
<1>4. CASE UpsertSubscription(r)
  <2> USE <1>4 DEF UpsertSubscription, Give
  <2>1. TypeOK'
    BY DEF TypeOK, ImageIsStored
  <2>2. (ImageIsStored /\ LockedIsFree)'
    BY DEF TypeOK, ImageIsStored, LockedIsFree, ReviewerState
  <2>3. (SoleReviewer /\ ReviewerState)'
    BY DEF TypeOK, LockedIsFree, SoleReviewer, ReviewerState
  <2>4. GiftsAddUp'
    BY DEF TypeOK, LockedIsFree, SoleReviewer, ReviewerState, GiftsAddUp,
          GiftsAreEarned,
      Nearly, Live
  <2>5. GiftsAreEarned'
    BY OneMonthMore DEF TypeOK, LockedIsFree, SoleReviewer, ReviewerState,
          GiftsAddUp, GiftsAreEarned,
      Nearly, Live
  <2> QED BY <2>1, <2>2, <2>3, <2>4, <2>5
<1>5. CASE InsertGrantRecord(r)
  <2> USE <1>5 DEF InsertGrantRecord
  <2>1. TypeOK'
    BY DEF TypeOK, ImageIsStored
  <2>2. (ImageIsStored /\ LockedIsFree)'
    BY DEF TypeOK, ImageIsStored, LockedIsFree, ReviewerState
  <2>3. (SoleReviewer /\ ReviewerState)'
    BY DEF TypeOK, LockedIsFree, SoleReviewer, ReviewerState
  <2>4. GiftsAddUp'
    BY DEF TypeOK, LockedIsFree, SoleReviewer, ReviewerState, GiftsAddUp,
          GiftsAreEarned,
      Nearly, Live
  <2>5. GiftsAreEarned'
    BY DEF TypeOK, LockedIsFree, SoleReviewer, ReviewerState, GiftsAddUp,
          GiftsAreEarned,
      Nearly, Live
  <2> QED BY <2>1, <2>2, <2>3, <2>4, <2>5
<1>6. CASE Approve(r)
  <2> USE <1>6 DEF Approve
  <2>1. TypeOK'
    BY DEF TypeOK, ImageIsStored
  <2>2. (ImageIsStored /\ LockedIsFree)'
    BY DEF TypeOK, ImageIsStored, LockedIsFree, ReviewerState
  <2>3. (SoleReviewer /\ ReviewerState)'
    BY DEF TypeOK, LockedIsFree, SoleReviewer, ReviewerState
  <2>4. GiftsAddUp'
    BY DEF TypeOK, LockedIsFree, SoleReviewer, ReviewerState, GiftsAddUp,
          GiftsAreEarned,
      Nearly, Live
  <2>5. GiftsAreEarned'
    BY DEF TypeOK, LockedIsFree, SoleReviewer, ReviewerState, GiftsAddUp,
          GiftsAreEarned,
      Nearly, Live
  <2> QED BY <2>1, <2>2, <2>3, <2>4, <2>5
<1> QED BY <1>1, <1>2, <1>3, <1>4, <1>5, <1>6 DEF Review, GrantMembership

\* A failing call of the handler, a reply that is lost, a review whose time is over.
LEMMA FaultKeepsIInv ==
  ASSUME IInv, NEW r \in Requests, UploadFails(r) \/ BeginReplyLost(r) \/ Expire(r)
  PROVE  IInv'
<1> USE ReviewAssumption, NoRowType DEF IInv, Labels, Reviewing, At, Goto,
      Return, Unlock, Lose, Fault
<1>1. CASE UploadFails(r)
  <2> USE <1>1 DEF UploadFails
  <2>1. TypeOK'
    BY DEF TypeOK, ImageIsStored
  <2>2. (ImageIsStored /\ LockedIsFree)'
    BY DEF TypeOK, ImageIsStored, LockedIsFree, ReviewerState
  <2>3. (SoleReviewer /\ ReviewerState)'
    BY DEF TypeOK, LockedIsFree, SoleReviewer, ReviewerState
  <2>4. GiftsAddUp'
    BY DEF TypeOK, LockedIsFree, SoleReviewer, ReviewerState, GiftsAddUp,
          GiftsAreEarned,
      Nearly, Live
  <2>5. GiftsAreEarned'
    BY DEF TypeOK, LockedIsFree, SoleReviewer, ReviewerState, GiftsAddUp,
          GiftsAreEarned,
      Nearly, Live
  <2> QED BY <2>1, <2>2, <2>3, <2>4, <2>5
<1>2. CASE BeginReplyLost(r)
  <2> USE <1>2 DEF BeginReplyLost
  <2>1. TypeOK'
    BY DEF TypeOK, ImageIsStored
  <2>2. (ImageIsStored /\ LockedIsFree)'
    BY DEF TypeOK, ImageIsStored, LockedIsFree, ReviewerState
  <2>3. (SoleReviewer /\ ReviewerState)'
    BY DEF TypeOK, LockedIsFree, SoleReviewer, ReviewerState
  <2>4. GiftsAddUp'
    BY DEF TypeOK, LockedIsFree, SoleReviewer, ReviewerState, GiftsAddUp,
          GiftsAreEarned,
      Nearly, Live
  <2>5. GiftsAreEarned'
    BY DEF TypeOK, LockedIsFree, SoleReviewer, ReviewerState, GiftsAddUp,
          GiftsAreEarned,
      Nearly, Live
  <2> QED BY <2>1, <2>2, <2>3, <2>4, <2>5
<1>3. CASE Expire(r)
  <2> USE <1>3 DEF Expire
  <2>1. TypeOK'
    BY DEF TypeOK, ImageIsStored
  <2>2. (ImageIsStored /\ LockedIsFree)'
    BY DEF TypeOK, ImageIsStored, LockedIsFree, ReviewerState
  <2>3. (SoleReviewer /\ ReviewerState)'
    BY DEF TypeOK, LockedIsFree, SoleReviewer, ReviewerState
  <2>4. GiftsAddUp'
    BY DEF TypeOK, LockedIsFree, SoleReviewer, ReviewerState, GiftsAddUp,
          GiftsAreEarned,
      Nearly, Live
  <2>5. GiftsAreEarned'
    BY DEF TypeOK, LockedIsFree, SoleReviewer, ReviewerState, GiftsAddUp,
          GiftsAreEarned,
      Nearly, Live
  <2> QED BY <2>1, <2>2, <2>3, <2>4, <2>5
<1> QED BY <1>1, <1>2, <1>3

\* A failing call of the goroutine is counted as lost before another month is given.
LEMMA CallFailsKeepsIInv ==
  ASSUME IInv, NEW r \in Requests, CallFails(r)
  PROVE  IInv'
<1> USE ReviewAssumption, NoRowType DEF IInv, Labels, Reviewing, At, Goto,
      Return, Unlock, Lose, Fault, Failing
<1>1. CASE ReviewFails(r)
  <2> USE <1>1 DEF ReviewFails
  <2>1. TypeOK'
    BY DEF TypeOK, ImageIsStored
  <2>2. (ImageIsStored /\ LockedIsFree)'
    BY DEF TypeOK, ImageIsStored, LockedIsFree, ReviewerState
  <2>3. (SoleReviewer /\ ReviewerState)'
    BY DEF TypeOK, LockedIsFree, SoleReviewer, ReviewerState
  <2>4. GiftsAddUp'
    BY DEF TypeOK, LockedIsFree, SoleReviewer, ReviewerState, GiftsAddUp,
          GiftsAreEarned,
      Nearly, Live
  <2>5. GiftsAreEarned'
    BY DEF TypeOK, LockedIsFree, SoleReviewer, ReviewerState, GiftsAddUp,
          GiftsAreEarned,
      Nearly, Live
  <2> QED BY <2>1, <2>2, <2>3, <2>4, <2>5
<1>2. CASE UpsertReplyLost(r)
  <2> USE <1>2 DEF UpsertReplyLost
  <2>1. TypeOK'
    BY DEF TypeOK, ImageIsStored
  <2>2. (ImageIsStored /\ LockedIsFree)'
    BY DEF TypeOK, ImageIsStored, LockedIsFree, ReviewerState
  <2>3. (SoleReviewer /\ ReviewerState)'
    BY DEF TypeOK, LockedIsFree, SoleReviewer, ReviewerState
  <2>4. GiftsAddUp'
    BY DEF TypeOK, LockedIsFree, SoleReviewer, ReviewerState, GiftsAddUp,
          GiftsAreEarned,
      Nearly, Live
  <2>5. GiftsAreEarned'
    BY OneMonthMore DEF TypeOK, LockedIsFree, SoleReviewer, ReviewerState,
          GiftsAddUp, GiftsAreEarned,
      Nearly, Live
  <2> QED BY <2>1, <2>2, <2>3, <2>4, <2>5
<1>3. CASE AuditFails(r)
  <2> USE <1>3 DEF AuditFails
  <2>1. TypeOK'
    BY DEF TypeOK, ImageIsStored
  <2>2. (ImageIsStored /\ LockedIsFree)'
    BY DEF TypeOK, ImageIsStored, LockedIsFree, ReviewerState
  <2>3. (SoleReviewer /\ ReviewerState)'
    BY DEF TypeOK, LockedIsFree, SoleReviewer, ReviewerState
  <2>4. GiftsAddUp'
    BY DEF TypeOK, LockedIsFree, SoleReviewer, ReviewerState, GiftsAddUp,
          GiftsAreEarned,
      Nearly, Live
  <2>5. GiftsAreEarned'
    BY DEF TypeOK, LockedIsFree, SoleReviewer, ReviewerState, GiftsAddUp,
          GiftsAreEarned,
      Nearly, Live
  <2> QED BY <2>1, <2>2, <2>3, <2>4, <2>5
<1>4. CASE MarkFails(r)
  <2> USE <1>4 DEF MarkFails
  <2>1. TypeOK'
    BY DEF TypeOK, ImageIsStored
  <2>2. (ImageIsStored /\ LockedIsFree)'
    BY DEF TypeOK, ImageIsStored, LockedIsFree, ReviewerState
  <2>3. (SoleReviewer /\ ReviewerState)'
    BY DEF TypeOK, LockedIsFree, SoleReviewer, ReviewerState
  <2>4. GiftsAddUp'
    BY DEF TypeOK, LockedIsFree, SoleReviewer, ReviewerState, GiftsAddUp,
          GiftsAreEarned,
      Nearly, Live
  <2>5. GiftsAreEarned'
    BY DEF TypeOK, LockedIsFree, SoleReviewer, ReviewerState, GiftsAddUp,
          GiftsAreEarned,
      Nearly, Live
  <2> QED BY <2>1, <2>2, <2>3, <2>4, <2>5
<1> QED BY <1>1, <1>2, <1>3, <1>4 DEF CallFails

\* A restart counts the review it ends as lost.
LEMMA CrashKeepsIInv ==
  ASSUME IInv, Crash
  PROVE  IInv'
<1>1. \A u \in Users : lost'[u] = lost[u] + Cardinality(Live(u))
  BY DEF Crash, Live
<1>2. \A u \in Users : /\ lost'[u] \in Nat /\ lost'[u] >= lost[u]
                       /\ Live(u) # {} => lost'[u] = lost[u] + 1
                       /\ Live(u) = {} => lost'[u] = lost[u]
  <2> TAKE u \in Users
  <2>1. lost[u] \in Nat
    BY DEF IInv, TypeOK
  <2>2. Cardinality(Live(u)) \in {0, 1} /\ (Live(u) # {} => Cardinality(Live(u)) = 1)
    BY LiveIsOne
  <2>3. Live(u) = {} => Cardinality(Live(u)) = 0
    BY FS_EmptySet
  <2> QED BY <1>1, <2>1, <2>2, <2>3
<1> USE ReviewAssumption, NoRowType DEF IInv, Labels, Reviewing, Crash
<1>3. TypeOK'
  BY <1>2 DEF TypeOK
<1>4. (ImageIsStored /\ LockedIsFree /\ SoleReviewer /\ ReviewerState)'
  BY DEF ImageIsStored, LockedIsFree, SoleReviewer, ReviewerState
<1>5. GiftsAddUp'
  <2> SUFFICES ASSUME NEW u \in Users
               PROVE  /\ gifts[u] > lost'[u] => status[u] = "approved"
                      /\ lost'[u] = 0 => gifts[u] = audits[u]
    BY DEF GiftsAddUp, Live, TypeOK
  <2>1. CASE Live(u) = {}
    BY <1>2, <2>1 DEF GiftsAddUp, Nearly, TypeOK
  <2>2. CASE Live(u) # {}
    BY <1>2, <2>2 DEF GiftsAreEarned, TypeOK
  <2> QED BY <2>1, <2>2
<1>6. GiftsAreEarned'
  <2> SUFFICES ASSUME NEW u \in Users
               PROVE  /\ gifts[u] <= 1 + lost'[u]
                      /\ status[u] = "rejected" /\ lost'[u] = 0 => gifts[u] = 0
                      /\ lost'[u] = 0 => audits[u] = gifts[u]
    BY DEF GiftsAreEarned
  <2>1. gifts[u] <= 1 + lost'[u]
    BY <1>2 DEF GiftsAreEarned, TypeOK
  <2>2. ASSUME lost'[u] = 0
        PROVE  lost[u] = 0 /\ Live(u) = {}
    BY <1>2, <2>2 DEF TypeOK
  <2>3. lost'[u] = 0 => audits[u] = gifts[u]
    BY <2>2 DEF GiftsAddUp, TypeOK
  <2>4. status[u] = "rejected" /\ lost'[u] = 0 => gifts[u] = 0
    BY <2>2 DEF GiftsAreEarned
  <2> QED BY <2>1, <2>3, <2>4
<1> QED BY <1>3, <1>4, <1>5, <1>6

\* Every step.
LEMMA NextKeepsIInv ==
  ASSUME IInv, [Next]_vars
  PROVE  IInv'
<1>1. CASE Next
  BY <1>1, PostKeepsIInv, UploadKeepsIInv, ReviewKeepsIInv, FaultKeepsIInv,
     CallFailsKeepsIInv, CrashKeepsIInv DEF Next
<1>2. CASE UNCHANGED vars
  BY <1>2 DEF vars, IInv, TypeOK, ImageIsStored, LockedIsFree, SoleReviewer,
     ReviewerState, GiftsAddUp, GiftsAreEarned, Nearly, Live
<1> QED BY <1>1, <1>2

\* Which is therefore always so.
LEMMA AlwaysIInv == Spec => []IInv
  BY InitIInv, NextKeepsIInv, PTL DEF Spec

-----------------------------------------------------------------------------
(***************************************************************************)
(* The theorems.                                                           *)
(***************************************************************************)
\* Every variable keeps its type: a process that is not idle has a user, a
\* row that is not "none" has its file, and only reviews run out of time.
THEOREM TypeCorrect == Spec => []TypeOK
<1>1. IInv => TypeOK
  BY DEF IInv
<1> QED BY <1>1, AlwaysIInv, PTL

\* Uploads at the same time start one review (campaign.go:75-81, its lock held
\* to the commit), and nobody takes the row from under it.
THEOREM OneReview == Spec => []OneReviewAtATime
<1>1. IInv => OneReviewAtATime
  BY LiveIsOne DEF IInv, ReviewerState, OneReviewAtATime, Live
<1> QED BY <1>1, AlwaysIInv, PTL

\* Whatever fails or dies, a month is given for an image that passed, once but
\* for what was lost, and is in the row (app_store_review_handlers.go:130-181).
THEOREM MonthsAreEarned == Spec => []GiftsAreEarned
<1>1. IInv => GiftsAreEarned
  BY DEF IInv
<1> QED BY <1>1, AlwaysIInv, PTL
=============================================================================
