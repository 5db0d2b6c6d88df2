--------------------------- MODULE AppStoreReview ---------------------------
(***************************************************************************)
(* The app-store review campaign: a member uploads a screenshot of a good  *)
(* review, a goroutine started by the upload has a vision model judge it,  *)
(* and an approved one earns a month                                       *)
(* (internal/api/app_store_review_handlers.go,                             *)
(* internal/store/app_store_review_campaign.go).                           *)
(*                                                                         *)
(* An upload and the goroutine it starts are one process here: after the   *)
(* start the handler only reads.  Its steps are the calls of the file      *)
(* store, the database and the vision model.  The transaction of           *)
(* BeginAppStoreReviewUpload takes two: SELECT ... FOR UPDATE locks the    *)
(* user's row, or the gap where it would be; gap locks are shared, and an  *)
(* insert waits for the other holders of the gap, so that of two first     *)
(* uploads InnoDB breaks the deadlock by failing one.                      *)
(*                                                                         *)
(* The goroutine's 90 seconds (handlers.go:130) cover the vision model and *)
(* every database call after it: once they are over each of those calls    *)
(* fails.  The extension of a row is read and written by two calls; other  *)
(* writers of subscriptions are modelled in Redemption and OrderPayment.   *)
(* The files of a user have one name here; in the code the image's type is *)
(* part of it.                                                             *)
(***************************************************************************)
EXTENDS Subscription, FiniteSets

CONSTANTS
  Users,
  Images,          \* screenshots a user may upload
  Monthly,         \* the plan a good review earns
  FirstRow,        \* the subscriptions there are before the campaign
  Today,
  Requests,        \* uploads and reviews that may be live at the same time
  NoUser, NoImage,
  MaxFaults,       \* bound: failing calls, departed clients, late reviews
  MaxCrashes       \* bound: restarts of the server

ASSUME ReviewAssumption ==
  /\ Monthly \in Plans \ LifetimePlans
  /\ FirstRow \in [Users -> Row]
  /\ Today \in Nat \ {0}
  /\ NoUser \notin Users /\ NoImage \notin Images
  /\ MaxFaults \in Nat /\ MaxCrashes \in Nat

VARIABLES
  status,          \* app_store_review_campaign.status, "none" without a row
  file,            \* the screenshot in the file store
  subs,            \* the subscriptions rows
  pc, user, image, \* where each process is, and what it was sent
  newSub,          \* the row it is going to write
  rowLock,         \* the processes that lock a user's row, or its gap
  expired,         \* the reviews whose 90 seconds are over
  gifts,           \* history: months given to each user
  audits,          \* history: audit rows of them
  passed,          \* history: the last image of each user the model passed
  lost,            \* history: calls for a user's reviews that failed or took
                   \* effect unheard, and reviews that died
  faults, crashes

tables == <<status, file, subs>>
process == <<pc, user, image, newSub, expired>>
history == <<gifts, audits, passed, lost>>
bounds == <<faults, crashes>>
vars == <<tables, process, rowLock, history, bounds>>

Reviewing == {"judge", "reject", "readSub", "upsert", "audit", "approve"}
Labels == Reviewing \cup {"idle", "put", "lock", "write"}

TypeOK ==
  /\ status \in [Users -> {"none", "reviewing", "approved", "rejected"}]
  /\ file \in [Users -> Images \cup {NoImage}]
  /\ subs \in [Users -> Row]
  /\ pc \in [Requests -> Labels]
  /\ user \in [Requests -> Users \cup {NoUser}]
  /\ image \in [Requests -> Images \cup {NoImage}]
  /\ \A r \in Requests : pc[r] = "idle" <=> user[r] = NoUser
  /\ \A u \in Users : status[u] # "none" => file[u] # NoImage
  /\ newSub \in [Requests -> Row]
  /\ rowLock \in [Users -> SUBSET Requests]
  /\ expired \subseteq {r \in Requests : pc[r] \in Reviewing}
  /\ gifts \in [Users -> Nat] /\ audits \in [Users -> Nat]
  /\ passed \in [Users -> Images \cup {NoImage}]
  /\ lost \in [Users -> Nat]
  /\ faults \in Nat /\ crashes \in Nat

Init ==
  /\ status = [u \in Users |-> "none"]
  /\ file = [u \in Users |-> NoImage]
  /\ subs = FirstRow
  /\ pc = [r \in Requests |-> "idle"]
  /\ user = [r \in Requests |-> NoUser]
  /\ image = [r \in Requests |-> NoImage]
  /\ newSub = [r \in Requests |-> NoRow]
  /\ rowLock = [u \in Users |-> {}]
  /\ expired = {}
  /\ gifts = [u \in Users |-> 0]
  /\ audits = [u \in Users |-> 0]
  /\ passed = [u \in Users |-> NoImage]
  /\ lost = [u \in Users |-> 0]
  /\ faults = 0 /\ crashes = 0

-----------------------------------------------------------------------------
At(r, label) == pc[r] = label /\ r \notin expired

Goto(r, label) ==
  /\ pc' = [pc EXCEPT ![r] = label]
  /\ UNCHANGED <<user, image, expired>>

\* The handler refuses, or the goroutine is done.
Return(r) ==
  /\ pc' = [pc EXCEPT ![r] = "idle"]
  /\ user' = [user EXCEPT ![r] = NoUser]
  /\ image' = [image EXCEPT ![r] = NoImage]
  /\ newSub' = [newSub EXCEPT ![r] = NoRow]
  /\ expired' = expired \ {r}

Unlock(r) == rowLock' = [u \in Users |-> rowLock[u] \ {r}]

\* A client uploads an image, as often as it likes.
PostScreenshot(r, u, i) ==
  /\ pc[r] = "idle"
  /\ pc' = [pc EXCEPT ![r] = "put"]
  /\ user' = [user EXCEPT ![r] = u]
  /\ image' = [image EXCEPT ![r] = i]
  /\ UNCHANGED <<tables, newSub, expired, rowLock, history, bounds>>

\* avatarwebdav.PutFile, before anything is checked.
PutFile(r) ==
  /\ At(r, "put")
  /\ file' = [file EXCEPT ![user[r]] = image[r]]
  /\ Goto(r, "lock")
  /\ UNCHANGED <<status, subs, newSub, rowLock, history, bounds>>

\* Variant: an upload during a review starts another.
BeginLockLoose(r) ==
  LET u == user[r]
  IN  /\ At(r, "lock")
      /\ status[u] = "none" \/ rowLock[u] = {}
      /\ \/ status[u] = "approved" /\ Return(r) /\ UNCHANGED rowLock
         \/ /\ status[u] # "approved"
            /\ rowLock' = [rowLock EXCEPT ![u] = @ \cup {r}]
            /\ Goto(r, "write") /\ UNCHANGED newSub
      /\ UNCHANGED <<tables, history, bounds>>

\* Variant: an approved user may earn again.
BeginLockForgetful(r) ==
  LET u == user[r]
  IN  /\ At(r, "lock")
      /\ status[u] = "none" \/ rowLock[u] = {}
      /\ \/ status[u] = "reviewing" /\ Return(r) /\ UNCHANGED rowLock
         \/ /\ status[u] # "reviewing"
            /\ rowLock' = [rowLock EXCEPT ![u] = @ \cup {r}]
            /\ Goto(r, "write") /\ UNCHANGED newSub
      /\ UNCHANGED <<tables, history, bounds>>

\* SELECT ... FOR UPDATE: an approved row or one under review is a conflict.
BeginLock(r) ==
  LET u == user[r]
  IN  /\ At(r, "lock")
      /\ status[u] = "none" \/ rowLock[u] = {}
      /\ \/ status[u] \in {"approved", "reviewing"} /\ Return(r) /\ UNCHANGED rowLock
         \/ /\ status[u] \in {"none", "rejected"}
            /\ rowLock' = [rowLock EXCEPT ![u] = @ \cup {r}]
            /\ Goto(r, "write") /\ UNCHANGED newSub
      /\ UNCHANGED <<tables, history, bounds>>

\* The update or, when no other transaction holds the gap, the insert; then
\* the commit and the start of the review.
BeginWrite(r) ==
  LET u == user[r]
  IN  /\ At(r, "write") /\ rowLock[u] = {r}
      /\ status' = [status EXCEPT ![u] = "reviewing"]
      /\ Unlock(r)
      /\ Goto(r, "judge")
      /\ UNCHANGED <<file, subs, newSub, history, bounds>>

\* Two inserts wait for each other's gap lock: one is rolled back.
BeginDeadlock(r) ==
  LET u == user[r]
  IN  /\ At(r, "write") /\ rowLock[u] # {r}
      /\ \A s \in rowLock[u] : pc[s] = "write"
      /\ Unlock(r) /\ Return(r)
      /\ UNCHANGED <<tables, history, bounds>>

\* Variant: an image that does not pass is dropped.
JudgeSilently(r) ==
  /\ At(r, "judge")
  /\ \/ /\ Goto(r, "readSub") /\ UNCHANGED newSub
        /\ passed' = [passed EXCEPT ![user[r]] = image[r]]
     \/ Return(r) /\ UNCHANGED passed
  /\ UNCHANGED <<tables, rowLock, gifts, audits, lost, bounds>>

\* The vision model and ApplyHardRules: the image passes, or it does not (or
\* the model gives no usable answer), which is a rejection.
Judge(r) ==
  /\ At(r, "judge")
  /\ \/ /\ Goto(r, "readSub")
        /\ passed' = [passed EXCEPT ![user[r]] = image[r]]
     \/ Goto(r, "reject") /\ UNCHANGED passed
  /\ UNCHANGED <<tables, newSub, rowLock, gifts, audits, lost, bounds>>

\* MarkAppStoreReviewRejected.
Reject(r) ==
  /\ At(r, "reject")
  /\ status' = [status EXCEPT ![user[r]] = IF @ = "reviewing" THEN "rejected" ELSE @]
  /\ Return(r)
  /\ UNCHANGED <<file, subs, rowLock, history, bounds>>

ReadSubscription(r) ==
  /\ At(r, "readSub")
  /\ newSub' = [newSub EXCEPT ![r] = ExtendAfterPayment(subs[user[r]], Monthly, Today)]
  /\ Goto(r, "upsert")
  /\ UNCHANGED <<tables, rowLock, history, bounds>>

Give(r) ==
  /\ subs' = [subs EXCEPT ![user[r]] = newSub[r]]
  /\ gifts' = [gifts EXCEPT ![user[r]] = @ + 1]
  /\ UNCHANGED <<status, file, audits, passed>>

UpsertSubscription(r) ==
  /\ At(r, "upsert") /\ Give(r)
  /\ Goto(r, "audit")
  /\ UNCHANGED <<newSub, rowLock, lost, bounds>>

InsertGrantRecord(r) ==
  /\ At(r, "audit")
  /\ audits' = [audits EXCEPT ![user[r]] = @ + 1]
  /\ Goto(r, "approve")
  /\ UNCHANGED <<tables, newSub, rowLock, gifts, passed, lost, bounds>>

\* MarkAppStoreReviewApproved.
Approve(r) ==
  /\ At(r, "approve")
  /\ status' = [status EXCEPT ![user[r]] = IF @ = "reviewing" THEN "approved" ELSE @]
  /\ Return(r)
  /\ UNCHANGED <<file, subs, rowLock, history, bounds>>

-----------------------------------------------------------------------------
(***************************************************************************)
(* Failures.                                                               *)
(***************************************************************************)
Fault == faults < MaxFaults /\ faults' = faults + 1 /\ UNCHANGED crashes

\* A call of an expired review fails; another fails within the bound.
Failing(r) == IF r \in expired THEN UNCHANGED bounds ELSE Fault

Lose(r) ==
  /\ lost' = [lost EXCEPT ![user[r]] = @ + 1]
  /\ UNCHANGED <<audits, passed>>

\* A call of the handler fails, or its client goes away: refused, nothing
\* left open.  A failed upload may have stored the file or not.
UploadFails(r) ==
  /\ Fault
  /\ pc[r] \in {"put", "lock", "write"}
  /\ \/ UNCHANGED file
     \/ pc[r] = "put" /\ file' = [file EXCEPT ![user[r]] = image[r]]
  /\ Unlock(r) /\ Return(r)
  /\ UNCHANGED <<status, subs, history>>

\* The upload's commit takes effect unheard: the row is under review, and no
\* review is started.
BeginReplyLost(r) ==
  /\ Fault
  /\ pc[r] = "write" /\ rowLock[user[r]] = {r}
  /\ status' = [status EXCEPT ![user[r]] = "reviewing"]
  /\ Unlock(r) /\ Lose(r) /\ Return(r)
  /\ UNCHANGED <<file, subs, gifts>>

\* The model takes too long, or the calls after it do.
Expire(r) ==
  /\ Fault
  /\ pc[r] \in Reviewing /\ r \notin expired
  /\ expired' = expired \cup {r}
  /\ UNCHANGED <<tables, pc, user, image, newSub, rowLock, history>>

\* No verdict, no subscription, no extension: the review is to be rejected.
ReviewFails(r) ==
  /\ Failing(r)
  /\ pc[r] \in {"judge", "readSub", "upsert"}
  /\ Goto(r, "reject") /\ Lose(r)
  /\ UNCHANGED <<tables, newSub, rowLock, gifts>>

\* The extension was written, but that was not heard.
UpsertReplyLost(r) ==
  /\ Failing(r)
  /\ r \notin expired /\ pc[r] = "upsert"
  /\ subs' = [subs EXCEPT ![user[r]] = newSub[r]]
  /\ gifts' = [gifts EXCEPT ![user[r]] = @ + 1]
  /\ Goto(r, "reject") /\ Lose(r)
  /\ UNCHANGED <<status, file, newSub, rowLock>>

\* The audit row fails: logged, and the review goes on.
AuditFails(r) ==
  /\ Failing(r)
  /\ pc[r] = "audit"
  /\ Goto(r, "approve") /\ Lose(r)
  /\ UNCHANGED <<tables, newSub, rowLock, gifts>>

\* The last update fails: logged or dropped, and the goroutine ends.
MarkFails(r) ==
  /\ Failing(r)
  /\ pc[r] \in {"reject", "approve"}
  /\ Lose(r) /\ Return(r)
  /\ UNCHANGED <<tables, rowLock, gifts>>

\* The server dies with its goroutines; nothing starts them again.
Crash ==
  /\ crashes < MaxCrashes /\ crashes' = crashes + 1
  /\ pc' = [r \in Requests |-> "idle"]
  /\ user' = [r \in Requests |-> NoUser]
  /\ image' = [r \in Requests |-> NoImage]
  /\ newSub' = [r \in Requests |-> NoRow]
  /\ expired' = {}
  /\ rowLock' = [u \in Users |-> {}]
  /\ lost' = [u \in Users |->
       lost[u] + Cardinality({r \in Requests : user[r] = u /\ pc[r] \in Reviewing})]
  /\ UNCHANGED <<tables, gifts, audits, passed, faults>>

-----------------------------------------------------------------------------
GrantMembership(r) ==
  ReadSubscription(r) \/ UpsertSubscription(r) \/ InsertGrantRecord(r)

Upload(r) == PutFile(r) \/ BeginLock(r) \/ BeginWrite(r) \/ BeginDeadlock(r)

Review(r) == Judge(r) \/ Reject(r) \/ GrantMembership(r) \/ Approve(r)

CallFails(r) ==
  ReviewFails(r) \/ UpsertReplyLost(r) \/ AuditFails(r) \/ MarkFails(r)

Next ==
  \/ \E r \in Requests :
       \/ \E u \in Users, i \in Images : PostScreenshot(r, u, i)
       \/ Upload(r) \/ Review(r)
       \/ UploadFails(r) \/ BeginReplyLost(r) \/ Expire(r) \/ CallFails(r)
  \/ Crash

Spec == Init /\ [][Next]_vars

\* A live goroutine makes its next call, and when its time is over that call
\* fails.  Users need not upload anything.
Proceed(r) == Upload(r) \/ Review(r) \/ (r \in expired /\ CallFails(r))

FairSpec == Spec /\ \A r \in Requests : WF_vars(Proceed(r)) /\ SF_vars(BeginLock(r))

-----------------------------------------------------------------------------
(***************************************************************************)
(* Properties.                                                             *)
(***************************************************************************)
Live(u) == {r \in Requests : user[r] = u /\ pc[r] \in Reviewing}

\* A user has one review at a time, the one that made the row "reviewing";
\* uploads while it runs are refused (campaign.go:75-81).
OneReviewAtATime ==
  \A u \in Users :
    /\ Cardinality(Live(u)) <= 1
    /\ Live(u) # {} => status[u] = "reviewing"

\* A row after n months: they are counted from its end, or from today.
AfterMonths(row, n) ==
  IF n = 0 THEN row
  ELSE IF row.lifetime THEN LifetimeRow
  ELSE [expires |-> Anchor(row, Today) + n * PlanLength[Monthly], lifetime |-> FALSE]

\* A month is given for an image the model passed, once: a second one takes
\* an extension whose reply was lost, and an approved row was given one; and
\* every month given is in the row, for nobody else extends it between a
\* review's read and its write (app_store_review_handlers.go:147-152, :166-181).
GiftsAreEarned ==
  \A u \in Users :
    /\ subs[u] = AfterMonths(FirstRow[u], gifts[u])
    /\ gifts[u] > 0 => passed[u] # NoImage
    /\ gifts[u] <= 1 + lost[u]
    /\ status[u] = "approved" => gifts[u] > 0
    /\ status[u] = "rejected" /\ lost[u] = 0 => gifts[u] = 0
    /\ lost[u] = 0 => audits[u] = gifts[u] \/ \E r \in Live(u) : pc[r] = "audit"

\* Why: the lock keeps the row free of reviews until the one it starts,
LockedIsFree ==
  \A r \in Requests : pc[r] = "write" =>
    /\ r \in rowLock[user[r]]
    /\ status[user[r]] \in {"none", "rejected"}

\* which is alone, and extends the row as it is;
SoleReviewer ==
  \A r, s \in Requests :
    pc[r] \in Reviewing /\ pc[s] \in Reviewing /\ user[r] = user[s] => r = s
ReviewerState ==
  \A r \in Requests : pc[r] \in Reviewing =>
    LET u == user[r] IN
    /\ status[u] = "reviewing"
    /\ pc[r] \in {"readSub", "upsert", "audit", "approve"} => passed[u] # NoImage
    /\ pc[r] = "upsert" => newSub[r] = ExtendAfterPayment(subs[u], Monthly, Today)
    /\ pc[r] \in {"audit", "approve"} => gifts[u] > 0

\* and a month beyond the lost calls is the one of a review that is nearly done,
\* or of an approved row.
Nearly(u) == \E r \in Live(u) : pc[r] \in {"audit", "approve"}
GiftsAddUp ==
  \A u \in Users :
    /\ gifts[u] > lost[u] => status[u] = "approved" \/ Nearly(u)
    /\ lost[u] = 0 =>
         gifts[u] = audits[u] + (IF \E r \in Live(u) : pc[r] = "audit" THEN 1 ELSE 0)

\* What a request uploads is an image, which is stored before the row changes.
ImageIsStored ==
  \A r \in Requests :
    /\ pc[r] # "idle" => image[r] \in Images
    /\ pc[r] \in {"lock", "write"} => file[user[r]] # NoImage

IInv ==
  /\ TypeOK /\ ImageIsStored /\ LockedIsFree /\ SoleReviewer /\ ReviewerState
  /\ GiftsAddUp /\ GiftsAreEarned

\* Every row under review leaves that state as long as no call made for the
\* user's reviews has failed, whatever happened to uploads (an insert that
\* InnoDB failed among them).
ReviewEndsUnlessFailed ==
  \A u \in Users : status[u] = "reviewing" ~> status[u] # "reviewing" \/ lost[u] > 0
=============================================================================
