# A TLA+ model of the QingYuNote server

The server (`src/`, the Go service `noteapi`) is an HTTP API in one process over
one MySQL (InnoDB) database. It sells memberships, gives memberships away
(redemption codes, referrals, an app-store review campaign), hands WebDAV
credentials to members, and keeps accounts with several login identities. There
is no message broker and no lock service: whatever is concurrent is two request
goroutines over the same tables, a request and a background goroutine it
started, or two requests over one map in memory. A process restart loses memory
and goroutines and keeps the tables.

This directory holds TLA+ modules for that service, TLC configurations that
check them on small instances, and proofs of the theorems that matter most for
every value of the constants.

## 1. The system: inventory

| component | where | state it keeps | operations |
|---|---|---|---|
| orders and payment | `internal/api/server.go:666-1021`, `alipay_handlers.go`, `store/mysql.go:180-259` | `orders`, `subscriptions`, `membership_recharge_records` | create order, Apple verify, Huawei verify, Alipay notify, credit |
| membership arithmetic | `internal/subscription/extend.go` | none (pure) | extend by a plan, extend by days, report state |
| redemption codes | `internal/redemption`, `api/redeem_handlers.go`, `cmd/issue_redemption_codes` | `redemption_codes`, `subscriptions` | issue, redeem (one transaction) |
| referral campaign | `internal/referral`, `api/referral_handlers.go`, `store/referral*.go` | `referral_claims`, `user_referrals`, `referral_recharge_rewards`, `membership_grant_records` | claim, bind on registration or phone binding, reward |
| public SMS quota | `internal/smsquota`, `api/sms_public_quota.go` | map in memory | reserve, undo |
| WebDAV credential guard | `api/qingyu_guard.go`, `server.go:610-651` | maps in memory | rate limit, cache, invalidate |
| admin login guard | `store/admin_login_guard.go`, `api/admin_handlers.go:35-90` | `admin_login_ip_guards` | is banned, record failure, reset |
| app-market version | `store/app_market_version.go`, `api/app_market_handlers.go`, `internal/appmarket` | `app_market_version_states`, a published JSON | report, claim a fetch, update, release |
| app-store review campaign | `store/app_store_review_campaign.go`, `api/app_store_review_handlers.go` | `app_store_review_campaign` | upload, review in the background, grant |
| third-party identities | `store/identities.go`, `merge.go`, `referral_invite.go`, `api/server.go:251-577`, `rebind_*.go` | `users`, `user_identities`, `registered_identity_history`, `users.wechat_openid` | first login, link, rebind with a ticket, delete |
| phone accounts and passwords | `api/phone_register_handlers.go`, `profile_handlers.go`, `password_reset_handlers.go`, `admin_handlers.go`, `store/phone_register.go`, `profile.go`, `admin.go` | `users.phone`, `users.password_hash`, `registered_phone_history` | register, bind, rebind, reset and change a password, delete; the operator's own changes |
| release manifest | `internal/release/manifest.go`, `api/app_version_guard.go` | map in memory, CDN copy | gate a client version, refresh |
| sync settings, feedback, device sessions, page views | `store/user_sync_settings.go`, `feedback_reply.go`, ... | one table each | single-statement reads and upserts |
| gateways | `appstoreiap`, `huaweiiap`, `alipayapp`, `aliyunsms`, `minimax`, `wechat`, `huawei`, `appleid` | token caches | HTTP and signature checks of other services |

How they interact: everything that gives membership (payment, redemption,
referral, review campaign) reads a `subscriptions` row, computes a new one with
`internal/subscription`, and overwrites the row, each in its own way of being
atomic or not. Payment calls referral (`OnInviteeRechargePaid`). Registration and
phone binding call referral (`OnNewUserRegistered`, `OnPhoneBound`). Redemption,
payment and phone binding invalidate the WebDAV guard. The client-version guard
and the app-market job read the release manifest and the version table.

What is hard, per component, is in `PROJECT.json` under `hazards`, each at the
line where it bites.

## 2. Modules

| module | what it is | kind |
|---|---|---|
| `Subscription` | `internal/subscription/extend.go` over natural-number days | operators |
| `MembershipLedger` | what payment promises: an order is paid once, credited once, its inviter rewarded once, day by day | abstract specification |
| `OrderPayment` | the three gateways' handlers, one database call per step | component |
| `Redemption` | the redeeming transaction with its row locks, next to payments | component |
| `Identities` | whose account a third-party identity opens | component |
| `PhoneAccounts` | whose account a phone number is, and whose password it resets | component |
| `Referral` | claims, bonds and rewards of the invitation campaign | component |
| `SmsQuota` | the sliding window and the two handlers around it | component |
| `AdminLogin` | wrong passwords and bans of the administration | component |
| `Versions` | the two comparisons of version strings, and a reference order | operators |
| `ReleaseManifest` | the cache of release manifests and the gate that reads it | component |
| `AppStoreReview` | upload, background review, grant | component |
| `AppMarketVersion` | reports, fetch lock, publication | component |
| `OrderPaymentProofs`, `RedemptionProofs`, `IdentitiesProofs`, `PhoneAccountsProofs`, `ReferralProofs`, `AppStoreReviewProofs` | theorems and proofs about the component they extend (`OrderPaymentProofs` also about `Subscription`) | proofs |
| `LimitProofs` | theorems and proofs about `AdminLogin` and `SmsQuota` | proofs |
| `VersionProofs` | theorems and proofs about `Versions`, `ReleaseManifest` and `AppMarketVersion` | proofs |
| `MC*` and their `.cfg` | instances for TLC | model checking |

`OrderPayment`, `Redemption` and `AppStoreReview` extend `Subscription`,
`ReleaseManifest` extends `Versions`. `OrderPayment` instantiates
`MembershipLedger` under a refinement mapping. `Redemption` models payments as a
second kind of writer of the same rows, `OrderPayment` the reward of an inviter
for a recharge, `Referral` what registrations and phone bindings set off.
`Identities` and `PhoneAccounts` share the table `users`: each has the other's
ways to create an account as one action (`CreateAccount`).

### Conventions

*Names.* A component calls its specification `Spec`, its type invariant `TypeOK`
and its inductive invariant `IInv`. Where two components are extended by one
proof module, the second has names of its own: `QuotaSpec`, `QuotaTypeOK` and
`QuotaInv` in `SmsQuota`, `MarketSpec`, `MarketTypeOK` and `MarketInv` in
`AppMarketVersion`.

*A step is one database statement, one gateway call or one critical section*,
whatever happens between two of them in the handler. A handler is a process with
a label `pc` named after the call it is about to make; what it holds in local
variables is a variable of the process. `Init` is what the migrations create.
Days are natural numbers: the calendar rule of `time.AddDate` is abstracted to a
fixed length of each plan (section 7 says what that leaves out).

*Failures are actions.* A call may fail without effect, or take effect with its
reply lost (the two ways a statement over a network ends), a client may go away
(which cancels the request's context and fails its next call), and the server may
restart (which ends every goroutine, empties the memory and rolls transactions
back). Their number is bounded by `MaxDBErrors`, `MaxFaults`, `MaxCrashes`,
`MaxRestarts`.

*Definitions named `...Never`, `...Loose`, `...Once` and the like, marked
"Variant"*, are broken forms of the definition that follows them. They are used
by no specification; `PROJECT.json` lists for each property the variant that
breaks it, so that a reader knows what the property is sensitive to.

*History variables* (`credits`, `told`, `sent`, `gifts`, `deserved`, `possible`,
`earned`, `overlapped`, `dropped`, `passed`, `lost`, `ever`, `late`, `contested`,
`taken`, `abandoned`, `via`, `guesses`, ...)
record what happened; no guard reads them. Several record a condition under which
a property is known not to hold (section 5): a property that excuses `contested`
numbers says exactly which overlap may break it.

*Nothing is skipped by being left out.* A handler that reads something and then
returns without writing is left out, or is a disjunct that returns; a call that
writes is always there.

### OrderPayment

| code | model |
|---|---|
| `orders`, `subscriptions`, recharge, grant and reward rows | `orders`, `subs`, `recharges`, `grants`, `rewards` |
| `handleCreateOrder` | `CreateOrder` |
| the user pays at the gateway | `Purchase` (external) |
| `handleAppleVerifyOrder`, `handleHuaweiVerifyOrder` | `PostVerify`, then `VerifyGetOrder`, `VerifyGetByTxn`, `MarkOrderPaid`, `RereadOrder` |
| `handleAlipayNotify` | `Notify`, then `NotifyGetOrder`, `NotifyGetByTxn`, `MarkOrderPaid`, `RereadOrder` |
| `MarkOrderPaid` | one conditional update: pending to paid |
| `extendQingyuSubscriptionAfterPayment` | `ReadSubscription`, `UpsertSubscription`, `InsertRechargeRecord` |
| `OnInviteeRechargePaid` | `FindInviter`, `ReadInviterSubscription`, `UpsertInviterSubscription`, `InsertGrantRecord`, `InsertRechargeReward` |
| a statement fails, or its reply is lost | `ReadFails`, `WriteFails`, `WriteReplyLost`, each continuing where the handler does |

A receipt's verification is one comparison: did the gateway charge for the
transaction, for this order's plan. The invalidation of the WebDAV cache is left
out, and so is the deletion of accounts.

### Redemption

The isolation level is InnoDB's default, and it matters: the code's row is read
`FOR UPDATE`, so it is locked from its sight to the end of the transaction; the
subscription is read by a plain `SELECT`, which locks nothing and sees what is
committed; the upsert locks the subscription's row. Locks are variables
(`codeLock`, `subLock`), a call that needs a taken one is not enabled, and what a
transaction wrote is applied when it commits.

What a user was given is history: the row all of it in order comes to
(`deserved`), every row a choice of it in order comes to (`possible`), and those
that end with the last of it (`earned`).

### Identities

| code | model |
|---|---|
| `user_identities`, `users.wechat_openid`, `registered_identity_history` | `owner`, `openid`, `history` |
| `EnsureUserForIdentity` | `FindUser`, `InHistory`, `HasOwner`, `CreateUser` or `CreateUserFails`, `RecordHistory` |
| `LinkIdentity` | `FindForLink`, `LinkIdentity` |
| `mergeOrLinkIdentity` and a ticket's ten minutes | `MergeOrLink`, `TicketExpires` |
| `TransferThirdPartyIdentity` with `syncWechatOpenIDColumnTx` | `FindForTransfer`, `TransferThirdPartyIdentity` |
| `ArchiveUserRegistrationHistory`, `DeleteUserByID` and their callers | `Archive`, `Erase` |
| the migrations, all of which `scripts/deploy.sh` runs again | `MigrateIdentities`, `MigrateHistory` |

A transaction that writes takes effect in one step, its commit, and fails as a
whole when a key is taken. A rebinding reads the rows of both accounts in a
snapshot taken earlier (`view`), and `changed` keeps which of them changed since,
because its own statements see those as they are. `syncWechatOpenIDColumnTx` has
no `ORDER BY`: with two WeChat identities either may be chosen.

### PhoneAccounts

| code | model |
|---|---|
| `users.phone`, `users.password_hash`, `registered_phone_history` | `phone`, `setBy` (which number's text message set it), `history` |
| `handleRegisterConfirm`, `CreateUserWithPhonePassword` | `RegisterConfirm`, `LookupInTx`, `CreateUserWithPhonePassword`, `RecordHistory` |
| `handlePatchProfile`, `ClearUserPhone`, `PatchUserProfile` | `FindOther`, `ClearUserPhone`, `PatchUserProfile` |
| `handlePasswordResetConfirm`, `SetUserPasswordHash` | `ResetFinds`, `SetUserPasswordHash` |
| the operator | `AdminLookup`, `AdminCreateUser`, `AdminSetUserPhone`, `ChangePassword` |
| deletion | `Archive`, `Erase` |

No key makes `users.phone` unique, so a query by number may find any of several
accounts (`\E u \in Holders(p)`), and whether there are several is what the
module is about. A text message is a check that may refuse: a code that is wrong
is a failing call.

A rebinding takes the number from the other account (`ClearUserPhone`) before the
handler has finished with the body: one that also asks to clear the password is
refused after that, a disjunct of `ClearUserPhone` that returns. `taken` keeps the
numbers that were taken and that nobody has got since, and `abandoned` those of
them whose own rebinding ended without them: refused, failed, or meant for another
number.

### Referral

| code | model |
|---|---|
| `referral_claims` | `status`, `age`, `inviter`, `invitee` of each claim |
| `user_referrals` | `bond` |
| `handleReferralClaim` | `CountClaims`, `PhoneIsNew`, `NotReferred`, `InsertClaim` |
| `OnNewUserRegistered` | `RegisterPhone` or `RegisterThirdParty`, then `WelcomeBonus` and the binding |
| a first number in the profile, `OnPhoneBound` | `HadPhone`, `PatchUserProfile`, `OnPhoneBound` and the binding |
| `bindReferralClaim` by token, then by number | `FindClaim`, `InsertUserReferral`, `MarkReferralClaimSuccess`, `RewardInviter`, `RewardInvitee`, with `BindingFails` for an error's way on |

Time is the age of a claim: of today, of the last 24 hours, expired. The
registration itself is one step here, its races being those of `PhoneAccounts`.
A request's `hope` is a claim that was pending when its account got the number.

### SmsQuota

`BeginSend` and `undo` each hold the mutex throughout, so each is a step; the call
of the gateway is between them and holds nothing. `pruneKey` is its loop, stamp by
stamp (`Kept`). The model is one life of the process: the map starts empty after a
restart, and nothing else survives. A gateway call ends within `MaxSend`, less
than the window: the gateway's client gives up after seconds, the window is a day. Two
histories say what the counter should hold: `sent`, the reservations behind the
texts that went out, and `dropped`, the stamps an undo took that were another's.

### AdminLogin

`handleAdminLogin` is `Begin` (the check of the ban), then either
`RecordAdminLoginFailure` and `Reread`, or `Login`, which resets the count. The
upsert's `ON DUPLICATE KEY UPDATE` assigns the count first and computes the ban
from the assigned value, as MySQL evaluates the list from left to right.

### Versions and ReleaseManifest

`compareSemanticVersions` (API) and `CompareSemanticVersions` (store) are
operators over sequences of parts, each a number with the form it was written in;
`Weight` is an independent reference. The cache's goroutine of a platform is
`ShouldSkipCDNFetch` and then `FetchGateInfo` or `FetchFails`; `Serve` is the end
of `NewProvider` after its first refresh, `Tick` the ticker's next hour, `Refuses`
what `withMinAppVersion` answers. An entry's age is in ticks, and at exactly TTL
of them the platform may be asked or skipped: the code compares real durations.

### AppStoreReview

An upload and the goroutine it starts are one process. `SELECT ... FOR UPDATE` of
a missing row locks the gap, which two uploads can do together; each insert then
waits for the other, and InnoDB fails one of them (`BeginDeadlock`). The 90
seconds of the goroutine are the set `expired`: a review in it only makes failing
calls.

### AppMarketVersion

The claim is one transaction under a row lock, one step. Time is kept as the age
of each lock and of each job. The job's calls share a deadline (`MaxJob`); the
release has none in the code and takes at most `MaxRelease` here (in the code the
lock is stale after ten minutes and the deadline is two). Versions are
numbers, in the order of `CompareSemanticVersions`, which `Versions` shows to be
one on the versions the store lets in. A published version goes into
`latestRelease`; the gate reads `latestVersion`, which this job leaves alone, so
the two modules do not meet.

## 3. Runs

Twelve runs; ten check what holds, two exhibit a disagreement between what
the code or its documentation says and what the code does (section 6).

| run | instance | shows |
|---|---|---|
| `order_races` | 2 requests, an Apple receipt that fits either of two orders of one user, an Alipay notification of one of them, 1 failing call, fair | credited at most once and only for a real payment, answers true, paid rows final, everything settled unless a call failed, every notification acknowledged |
| `order_serial` | 1 request, 3 gateways, 3 orders of 2 users, one of them a lifetime and one user the other's inviter, 3 days, 1 restart | one transaction pays one order, no membership shrinks, the handlers implement the ledger |
| `redeem` | 2 requests, 2 codes (a month, a lifetime), 2 users, 1 payment, 1 failing call, 1 restart, fair | given once or not at all, plans lost only when extensions overlapped and never the last one, every redemption ends |
| `identities` | 2 requests, 2 accounts, 2 WeChat identities, 1 ticket, 1 failing call, 1 restart | who deleted an account is remembered and gets no second one; `wechat_openid` is the user's own; a rebinding works |
| `phones` | 2 requests, 2 accounts, 2 numbers, 1 failing call or restart | a number has one account and a deleted one's does not come back; a reset reaches the number's account; a number taken away is bound, unless its own rebinding gave it up |
| `referral` | 2 requests, an inviter, an account that binds, one that registers, 2 claims, 2 numbers, 1 failing call, restart or deletion | the daily limit, one bond for a claim, rewards once and never forgotten, whoever was invited is bonded |
| `limits` | the admin login with 3 attempts, 2 addresses, the limit of 5, 2 failing statements; the text quota with 2 requests, 2 clients behind one address, limit 2, window 3, 5 moments | the number of guesses is bounded, a ban is earned; the quota exceeded by no more than the foreign stamps an undo dropped in the window, the account kept but for those |
| `gate` | 2 platforms, 4 spellings, 3 versions, a TTL of 2 ticks, 2 failing fetches, 1 restart, fair; about 150 versions compared pairwise | versions compare as numbers, minimums are fresh, attempts are spaced, an upgrade is enough, a release takes effect |
| `review` | 2 uploads or reviews of one user, 2 images, 2 failing calls or deadlines, 1 restart, fair | one review at a time, gifts earned and none lost, reviews end unless a call of them failed |
| `market` | 2 platforms, 2 jobs, 2 versions, 2 failing calls, 1 restart, fair | nothing goes back, every version is published in the end |
| `lostcredit` | the smallest instance that shows it | section 6 |
| `phone_refused` | that of `phones` without failing calls | section 6 |

`limits` runs two components. They share no variable and neither reads the
other's, so one stays in its initial state while the other moves: every behaviour
of each is explored, and only their interleaving, which neither could notice, is
not.

### Why these bounds are enough

A race here is between two goroutines over a row: two requests meet in every
order, and twin orders, an address shared by two clients, two codes of one user,
two numbers or two first uploads give them the same row. A third goroutine adds
waiting, not a new kind of step; where it does add one, in the admin login of `limits`, where each
attempt in flight is one more guess, there are three, and the theorem is for any
number. One failing call and one restart reach every place a handler can stop at;
the second fault of `review`, `market` and `gate` is the one that hits the
clean-up or the retry after the first. In `order_races` restarts are left out and
in `order_serial` requests do not overlap: for restarts among overlapping
requests, the safety properties have their theorems. Time bounds are chosen past
the length they must exceed: in five moments two windows overlap and stamps leave
the first, the lock's age runs past
its lifetime, three days cover a plan that runs out before the next is bought, and
ages of entries and claims are kept up to one past what the code tells apart. Two
accounts suffice for a number or an identity to change hands both ways, and ids
are not used again. Three versions of different lengths and forms give every
outcome of a comparison. Plans are two: one with a length and a lifetime, which
`ExtendAfterPayment` treats differently; two plans of different length would
differ in nothing else.

### Fairness

The code starts a goroutine for each request and Go runs it: weak fairness of
each process's next call. A row lock that is free again and again is granted,
since InnoDB queues its waiters: strong fairness of the calls that need one.
Alipay repeats a notification until it is answered `success`: strong fairness of
its repetition, an assumption about Alipay that its documentation states.
`market` assumes that somebody who runs the market's version keeps reporting it,
`gate` that the ticker ticks. Nothing obliges a client to post an order, a code or
a screenshot.

## 4. What is proved

By TLAPS, for any number of users, orders, codes, transactions and concurrent
requests, and any bounds on failures:

* `OrderPaymentProofs`: `TypeCorrect`, `Invariance`, `CreditedOnce`,
  `CreditBacked`, `AnswersTrue`, `RewardTrailBacked`, `PaidStays`,
  `SettledUnlessItFails`; of requests that do not overlap, `OneOrderPerTxn`,
  `NeverShrinks` and, if no call fails, `Refinement`; of the arithmetic,
  `BuyerIsMember` (a plan makes a member at once).
* `RedemptionProofs`: `TypeCorrect`, `Invariance`, `GivenOnce`, `LocksHeld`,
  `RedemptionsStay`, `NothingLost`, `RowsAreEarned`.
* `IdentitiesProofs`: `TypeCorrect`, `GoneIsRememberedAlways`,
  `NobodyRegistersTwice`, `OpenIDIsOwnAlways`, `RebindingTakesEffect`.
* `PhoneAccountsProofs`: `TypeCorrect`, `PhoneHasOneAccountAlways`,
  `NumberRegistersOnce`, `PasswordIsOfHolder`, `TakenIsAccountedAlways`.
* `ReferralProofs`: `TypeCorrect`, `LimitHolds`, `ClaimBondsOne`,
  `RewardComesOnce`, `RewardComes`, `InvitedAreBonded`.
* `AppStoreReviewProofs`: `TypeCorrect`, `OneReview`, `MonthsAreEarned`.
* `LimitProofs`: of the admin login `TypeCorrect`, `GuessesBounded`, `BanEarned`,
  `BanPermanent`; of the text quota `QuotaTypeCorrect`, `QuotaIsHeld`,
  `QuotaAccount`.
* `VersionProofs`: of the versions and the gate `TypeCorrect`,
  `ComparisonsAgree`, `ComparedAsTheyStand`, `GateBeforeServing`, `GateIsFresh`,
  `GateIsFrugal`, `UpgradeSuffices`; of the app-market version
  `MarketTypeCorrect`, `NothingGoesBackInTime`.

They rest on the constants' assumptions (the `ASSUME`s of the modules, which TLC
evaluates on every run): plans have lengths, orders have owners and plans, the
attempts are finitely many and the limit is above 2, the requests that send texts
are finitely many, none sends for as long as the window and no client has the same
key twice, the accounts that exist at first are finitely many, the base of the reference order is larger than the parts
of the versions it compares, and the placeholder values are none of the real ones.
Three theorems about payment have a hypothesis of their own (*Payments one at a
time*, below), and so has `NothingGoesBackInTime` (`JobsEndInTime`).

*Orders.* `CreditAtMostOnce` is not inductive: nothing in it says that a request
about to upsert is the first to do so. `IInv` sees an order's credit as a token.
The conditional update that makes the order paid creates it (before it, nothing
was credited: `UntouchedUnlessPaid`); exactly one request holds it
(`SoleCreditor`) and what is still to be given was not (`CreditorState`); it is
spent by the upsert, or lost with the request. That the credit is backed follows
from what a request knows after verification (`ReceiptsAreChecked`) at the moment
of that update (`PaidIsBacked`), and that answers are true from paid rows being
final. An order that is paid is settled unless a call failed: `SettlesAsItGoes`
says, for each label, which of the rows the request has written already.

*Payments one at a time.* What overlapping payments break is proved for requests
that do not overlap: `Alone`, a single request goroutine, is the hypothesis of
three theorems, and any number of requests may follow each other. `AloneIInv` adds
to `IInv` what the request read and is still true, because nobody else writes: the
subscription it is about to extend is the row, and no other order was paid by its
transaction when it asked (`WritesWhatItRead`, `MarksUnused`). `OneOrderPerTxn`
and `NeverShrinks` follow. `Refinement` shows each step to be one of
`MembershipLedger` or a stutter: the conditional update is the payment, the
buyer's upsert the credit, the inviter's upsert the reward, the rest stutters. It
also assumes `MaxDBErrors = 0`, and needs to: after an upsert that failed the
handler goes on to reward the inviter, which the ledger lets happen only to a
credited order. Restarts are allowed.

*Redemption.* A transaction that saw a code unredeemed holds its row's lock until
it ends (`LocksAreHeld`), so whatever it commits is still unredeemed, its gift is
the first, and no redemption that was told of is ever overwritten. What is lost is
proved from the writers: a transaction or a payment that has read the row and is
the only one under way for its user (`SoleExtension`) holds what is still there
(`ExtensionsAreFresh`), and in every case what it is about to write is a choice of
what was given and ends with its own plan (`ExtensionsArePossible`).

*Identities.* That an identity without an account is in the history is not
inductive: a deletion archives what it read, and a first login asks the history
before it creates. `IInv` adds what both know: the identities of an account that
is archived are remembered or were bound since (`ErasedWhenArchived`), and a login
that passed the history holds an identity that never had an account, or `late`
says so (`AskedWhenNew`). A rebinding writes the column from the rows it read, so
`SeenIsCurrent` keeps that its snapshot is the tables except for what is in
`changed`; a rebinding that used none of that leaves column and rows in agreement,
and what agrees cannot meet a key of another account.

*Phone numbers.* Every request looks first and writes later, and nothing locks
what it found. `IInv` says that what a request found still holds, or the number is
contested (`FoundStillHolds`): whoever changes which account has a number contests
the requests about it. The one account of a number, and that of a reset, follow at
the moment of the write. A number taken from another account is in the hands of
the request that took it (`RebindingStillHolds`), whose next call binds it; when
that request ends instead, it is its own rebinding that gave the number up
(`abandoned`), and no other request's end does.

*Referrals.* The daily limit is about the claims of today, the check about a count
made earlier: `AskedInLimit` counts the claim a request is about to insert with
those that are there, and keeps the sum within the limit until two of an inviter's
requests overlap. A claim that bonded an account is used up (`ViaIsUsedUp`): it is
no longer pending, or the one request that read it is about to mark it
(`ReadAlone`), or it is `shared`. Once an account's reward has begun the account
is bonded for good and no second request is at it (`RewardedByOne`); and a bond
without both rewards has a request on its way to give them, or something failed
(`RewardIsDue`).

*Reviews.* The state `reviewing` is a lock: whoever passed the check under the
row's lock is its only holder (`LockedIsFree`, `SoleReviewer`), what it is about
to write extends the row as it is (`ReviewerState`), and a month given is in the
audit, about to be, or among the lost calls (`GiftsAddUp`).

*Admin logins.* The count and the number of guesses `AddsUp`: before the ban, the
count is the guesses less the failures that were not recorded; from the ban on,
only attempts past the check can guess, and each does once.

*The gate.* `IInv` relates an entry to the manifest over time: a platform that is
done was looked at in this round (`DoneIsRecent`), an entry's age is that of the
last question (`AgeIsAsked`), a fresh one asked for after the manifest's last
change has its version (`FreshIsCurrent`), and none is ever ahead of it
(`NeverAhead`), for which the comparison is shown to be a linear order: the lemmas
about the first place where two versions differ, a missing number being 0. The
reference order of `ComparesAsNumbers` is reached digit by digit: comparing two
numbers in a base is comparing all but their last digits, then those
(`DigitByDigit`).

*The text quota.* `ExceededByDroppedAlone` is not inductive: a text on its way was
counted when it was reserved and is sent later, when its stamp may be the only one
left of it. `Balanced` relates the three at every moment that is still in the
window: from that moment on the counter has no more stamps than texts were sent or
are being sent, and lacks none but dropped ones. It has to be stated of every such
moment: an undo gives back a reservation but takes the youngest stamp, and because
stamps are in order (`QuotaTypeOK`), a counter that has any stamp from the
reservation's moment on loses one of those. `InLimit` bounds the counter, and
`PendingIsRecent` keeps a reservation in the window while its text is on its way,
so that both properties are `Balanced` at the beginning of the window. What
`pruneKey` leaves is found by induction over the rounds of its loop. The library's
induction takes an operator; `SetInduction` is one for sets of naturals, from the
least element of a well-founded order. With it the loop is shown to have a result
(`LoopEnds`) and after each round to have kept just the stamps of the window, as
many of them since every moment as there were (`PruneKeepsTheWindow`,
`PruneCounts`).

*The app markets.* Nothing compares a version with what is stored when it is
stored, so that nothing goes back has to come from the lock. Its age is the age of
its holder's work (`LocksHeld`); a job that ends before the lock is stale is
therefore the only one of its platform (`OneFetch`), whatever it has fetched is
ahead of all that is known of the platform (`FetchedIsAhead`), and what is known
is carried by the market (`KnownIsCarried`). `JobsEndInTime`, that a job and its
release take no longer than `LockTTL`, is a hypothesis of the theorem and not an
assumption of the module, for the code has no deadline for the release.

*Only model-checked*: liveness (`EveryNotificationAcked`, `RedemptionEnds`,
`ReviewEndsUnlessFailed`, `MarketIsPublished`, `ReleaseTakesEffect`), which is out
of the prover's reach. Every invariant and action property the passing runs check
has its theorem. The refinement is proved without failing calls and checked in
`order_serial` with a restart; with a failing call neither the proof nor the run
would pass.

## 5. What holds under which condition

Several properties are stated with the condition that makes them true, since the
condition is what a maintainer has to know:

* a paid order is credited *unless a call fails or the server restarts between the
  two* (`SettledUnlessFailed`);
* memberships only grow, and payments implement the ledger, *while requests do not
  overlap*, the latter while no call fails either (`order_serial`, `Alone`);
* a redeemed plan stays in the row *unless two extensions of the row overlapped*
  (`NothingLostUnlessOverlapped`), and the last one always does (`RowIsEarned`);
* the text quota is exceeded *only by the stamps that undos took from other
  reservations in the same window* (`ExceededByDroppedAlone`): it is itself again
  when those have left it;
* an identity that is gone is remembered *unless it was bound to the account after
  that was archived, or a first login was under way when the account went*
  (`GoneIsRemembered`, `late`);
* `wechat_openid` is its user's own *unless a rebinding used rows that had changed
  since it read them* (`OpenIDIsOwn`, `raced`): what it then leaves behind, the
  migrations a later deployment runs again turn into an identity once more;
* a number has one account *unless somebody changed whose it is while a request
  was about it, or the operator gave it away* (`PhoneHasOneAccount`, `contested`),
  and a number taken for a rebinding is bound *unless that rebinding is refused or
  fails after the taking, or took it by mistake from an account that had changed
  its number* (`TakenIsAccounted`, `abandoned`): without those, no end of another
  request loses one;
* an inviter keeps to the daily limit *unless two claims are made at once*
  (`DailyLimitHolds`, `crowded`); a claim bonds one account *unless two requests
  had read it or one could not mark it* (`OneBondPerClaim`, `shared`); an invitee
  is rewarded once *unless the inviter's deletion took the bond away*
  (`RewardedOnce`, `orphans`), and both are rewarded *if nothing failed*
  (`BondIsRewarded`, `InvitedIsBonded`);
* wrong passwords are bounded by the limit *plus the attempts in flight and the
  failures that could not be recorded* (`GuessesAreBounded`);
* a minimum is in force a tick after the TTL *unless the last fetch failed*
  (`FreshUnlessFailed`); a start whose fetch fails leaves the gate open for up to
  a day; and an upgrade is enough *as long as releases only move forward*
  (`Release` is the only change of `cdn`);
* a row leaves the review *unless a call of the review failed*
  (`ReviewEndsUnlessFailed`);
* a platform has one fetch at a time *as long as a job and its release end before
  its lock is stale* (`JobsEndInTime`): the release is unconditional and runs
  without a deadline, so a later one frees the lock of the job that took over.

## 6. Where the code disagrees with its comments

Two runs exhibit one each.

* `lostcredit`: a call that fails after `MarkOrderPaid` loses the credit for good,
  since the client is told `paid` and the retry `already_paid`.
* `phone_refused`: the comment at `profile_handlers.go:112` says that
  `unbind_phone_from_other` clears the number of the other account and then binds
  it to this one. The clearing (`:203`) comes before the body is wholly checked: if
  it carries `clear_password` too, which `TECHNICAL.md:109` lists among the fields
  to send, the answer is 400 `clear_password_not_allowed` (`:220`), the number has
  left the other account and this one has not got it. `TakenIsGiven` is the
  comment's claim; TLC finds it violated with no failing call and nobody else about
  the number. Checking `clear_password` before `:203` would repair it.

Others were met while modelling and have no run of their own; each is visible in
the condition of a property that holds.

* Two concurrent verifications of one receipt for two orders both find no
  conflict (`server.go:832`, `mysql.go:229`): the lookup and the update are
  separate and no unique key backs them. `TxnPaysOneOrder` is checked and proved
  for requests that do not overlap.
* Of two payments credited concurrently the later write was computed from a stale
  read and discards the earlier extension, even a lifetime (`server.go:716`,
  `extend.go:18`). `MembershipNeverShrinks` is about requests that do not overlap, and
  `NothingLostUnlessOverlapped` names the overlap.
* `undo` drops the last stamp, which may be another request's, so that more than
  the limit go out in one window (`window.go:89`; `sms_public_quota.go:9` states
  the limit): `ExceededByDroppedAlone` says how many.
* The rejection of a review that ran out of its 90 seconds is written with the
  expired context: the row stays `reviewing`, and uploads are refused from then on
  (`app_store_review_handlers.go:136`): `ReviewEndsUnlessFailed`.
* `AdminLoginMaxConsecutiveFailures` is 5 and the log says "permanently banned after
  %d consecutive failures", but the ban comes with the fourth: `BanIsEarned` says
  one less than the limit. An attempt that updates a row banned in the same
  millisecond is answered as a wrong password, and one that had passed the check
  gets its token although the address was banned meanwhile.
* The recharge record is inserted even when the upsert it vouches for failed
  (`server.go:728`; compare `SettledUnlessFailed`).
* An upload that is refused because a review runs has already replaced the
  screenshot under review (`app_store_review_handlers.go:105`, in the model
  `PutFile` in any state).

## 7. Not modelled

* *WebDAV credential guard* (`api/qingyu_guard.go`): a cache of answers that saves
  rate quota and nothing else. The credentials of a user never change and the
  membership row is read again on every request, hits included, so that no
  interleaving makes an answer wrong for longer than that request; its sliding
  window is that of `SmsQuota` without the undo.
* *Sync settings, feedback, device sessions, page views*: each operation is one
  statement over one table.
* *Note tree deletion and avatars*: calls of an external WebDAV server, without
  state here.
* *Gateways* (signatures, certificates, HTTP, OAuth and JWKS, captcha, SMS, vision
  model, Feishu): external; what the server relies on is whether a receipt, a code
  or a token is genuine, which the modules take as given.
* *Tokens, configuration, CORS, scripts, admin listings*: stateless, or read only.
* The calendar rule of `time.AddDate`: a plan has a fixed length. In the code a
  plan is a number of calendar months, and a day that a month does not have is
  carried over, so that lengths vary by a few days and the order of two plans can
  matter: from August 31, one month and then six end on April 1, six and then one
  on April 3. No property or theorem here depends on the order of two plans; they
  rest on the anchor (the later of today and the expiry) and on positive lengths.
* The per-address limit of market reports, which only refuses some; the lists, popups
  and statistics of the referral page.

## 8. Plan

*Done*: payment and its ledger, membership arithmetic, redemption, identities,
phone accounts, referral, the SMS quota, the admin login, versions and the release
gate, the review campaign, the app-market version; type correctness and all safety
properties the runs check, proved; the refinement of the ledger.

*Left, in this order*:

1. `Calendar`: natural months of `time.AddDate`, and what the day lengths of
   `Subscription` abstract.
2. Compositions: referral rewards and the review's month next to payments and
   redemptions over one `subscriptions` table, as `Redemption` has payments.
