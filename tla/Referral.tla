------------------------------ MODULE Referral ------------------------------
(***************************************************************************)
(* The invitation campaign (internal/api/referral_handlers.go,             *)
(* internal/referral/referral.go, internal/store/referral.go,              *)
(* internal/store/referral_invite.go): a visitor leaves a phone number on  *)
(* the page of an inviter, and when an account with that number registers, *)
(* or a third-party account binds it, inviter and invitee are bonded and   *)
(* both get membership.                                                    *)
(*                                                                         *)
(* Nothing of it is a transaction.  The tables have two keys that matter:  *)
(* a token has one claim, an invitee one bond.                             *)
(*                                                                         *)
(* Left out: the grant records and welcome_bonus_granted_at, which nothing *)
(* here reads; the races for a number itself, which PhoneAccounts has; the *)
(* membership a grant extends (Subscription) and the extensions that       *)
(* overlap (Redemption), so that a grant is one step here; which of        *)
(* several pending claims on one number is the latest: any of them is; and *)
(* the change of a number by an account that has one, which bonds nothing. *)
(***************************************************************************)
EXTENDS Naturals, FiniteSets

CONSTANTS
  Users,        \* bound: the ids given out
  Existing,     \* the accounts there are at first
  Inviters,     \* bound: the accounts that invite
  NoUser,
  Phones,
  Registering,  \* bound: the numbers that accounts get
  NoPhone,
  Claims,       \* bound: the claims that are ever made
  NoClaim,
  Requests,     \* handlers that may run at the same time
  DailyLimit,   \* ReferralDailyInviteLimit
  MaxFaults     \* bound: failing calls, restarts of the server and deletions

ASSUME ReferralAssumption ==
  /\ Existing \subseteq Users /\ IsFiniteSet(Existing)
  /\ Inviters \subseteq Users /\ NoUser \notin Users
  /\ Registering \subseteq Phones /\ NoPhone \notin Phones /\ NoClaim \notin Claims
  /\ DailyLimit \in Nat \ {0} /\ MaxFaults \in Nat

VARIABLES
  live, used,   \* the accounts, and the ids given out so far
  phone,        \* users.phone
  history,      \* registered_phone_history
  status, age,  \* of a claim; "asked" while its request is under way
  inviter, invitee,  \* of a claim: the account and the number
  bond,         \* user_referrals: the inviter of an account
  req,          \* where each request is and what it has read
  asInvitee,    \* history variable: how often an account was rewarded for a bond
  asInviter,    \* history variable: and how often its inviter was
  via,          \* history variable: the claim an account was bonded with
  crowded,      \* history variable: inviters of two claims asked at once
  shared,       \* history variable: claims two requests had read at once, or
                \* one could not mark
  orphans,      \* history variable: accounts that lost their bond's inviter
  faults

users == <<live, used, phone, history>>
claims == <<status, age, inviter, invitee>>
rewards == <<bond, asInvitee, asInviter, via, shared, orphans>>
vars == <<users, claims, rewards, crowded, req, faults>>

Statuses == {"none", "asked", "pending", "success", "failed", "deleted"}
Ages == {"today", "recent", "expired"}       \* recent: of the last 24 hours
Claiming == {"ever", "referred", "insert"}
Granting == {"welcome", "inviter", "invitee"}
Labels == {"idle", "patch", "bound", "find", "bond", "mark"} \cup Claiming \cup Granting

Idle == [at |-> "idle", user |-> NoUser, number |-> NoPhone, claim |-> NoClaim,
         token |-> NoClaim, hope |-> NoClaim]

Request == [at : Labels, user : Users \cup {NoUser}, number : Phones \cup {NoPhone},
            claim : Claims \cup {NoClaim}, token : Claims \cup {NoClaim},
            hope : Claims \cup {NoClaim}]

TypeOK ==
  /\ live \subseteq used /\ used \subseteq Users
  /\ phone \in [Users -> Phones \cup {NoPhone}] /\ history \subseteq Phones
  /\ status \in [Claims -> Statuses] /\ age \in [Claims -> Ages]
  /\ inviter \in [Claims -> Users \cup {NoUser}]
  /\ invitee \in [Claims -> Phones \cup {NoPhone}]
  /\ bond \in [Users -> Users \cup {NoUser}]
  /\ asInvitee \in [Users -> Nat] /\ asInviter \in [Users -> Nat]
  /\ via \in [Users -> Claims \cup {NoClaim}]
  /\ req \in [Requests -> Request]
  /\ crowded \subseteq Users /\ shared \subseteq Claims
  /\ orphans \subseteq Users
  /\ faults \in 0 .. MaxFaults

Init ==
  /\ live = Existing /\ used = Existing
  /\ phone = [u \in Users |-> NoPhone] /\ history = {}
  /\ status = [c \in Claims |-> "none"] /\ age = [c \in Claims |-> "today"]
  /\ inviter = [c \in Claims |-> NoUser] /\ invitee = [c \in Claims |-> NoPhone]
  /\ bond = [u \in Users |-> NoUser]
  /\ asInvitee = [u \in Users |-> 0] /\ asInviter = [u \in Users |-> 0]
  /\ via = [u \in Users |-> NoClaim]
  /\ req = [r \in Requests |-> Idle]
  /\ crowded = {} /\ shared = {} /\ orphans = {}
  /\ faults = 0

-----------------------------------------------------------------------------
Goto(r, label) == req' = [req EXCEPT ![r].at = label]
Return(r) == req' = [req EXCEPT ![r] = Idle]
Start(r, fields) == req[r] = Idle /\ req' = [req EXCEPT ![r] = fields]

MayFail == faults + Cardinality(used \ live) < MaxFaults

Holders(p) == {u \in Users : phone[u] = p}
Registered(p) == p \in history \/ Holders(p) # {}
InWindow(c) == age[c] # "expired"
Pending(p) == {c \in Claims : status[c] = "pending" /\ invitee[c] = p /\ InWindow(c)}
MadeToday(i) == {c \in Claims : inviter[c] = i /\ age[c] = "today"
                                /\ status[c] \in {"pending", "success", "failed"}}

-----------------------------------------------------------------------------
(***************************************************************************)
(* A visitor leaves a number with an inviter.                              *)
(***************************************************************************)
\* Variant: only claims that ended well count.
CountSuccessful(r, c, i, p) ==
  /\ i \in live /\ status[c] = "none"
  /\ Cardinality({d \in MadeToday(i) : status[d] = "success"}) < DailyLimit
  /\ Start(r, [Idle EXCEPT !.at = "ever", !.claim = c, !.number = p])
  /\ status' = [status EXCEPT ![c] = "asked"]
  /\ age' = [age EXCEPT ![c] = "today"]
  /\ inviter' = [inviter EXCEPT ![c] = i] /\ invitee' = [invitee EXCEPT ![c] = p]
  /\ crowded' = IF \E d \in Claims : status[d] = "asked" /\ inviter[d] = i
                THEN crowded \cup {i} ELSE crowded
  /\ UNCHANGED <<users, rewards, faults>>

\* The inviter exists and has claims left today; the claim's time is now.
CountClaims(r, c, i, p) ==
  /\ i \in live /\ status[c] = "none"
  /\ Cardinality(MadeToday(i)) < DailyLimit
  /\ Start(r, [Idle EXCEPT !.at = "ever", !.claim = c, !.number = p])
  /\ status' = [status EXCEPT ![c] = "asked"]
  /\ age' = [age EXCEPT ![c] = "today"]
  /\ inviter' = [inviter EXCEPT ![c] = i] /\ invitee' = [invitee EXCEPT ![c] = p]
  /\ crowded' = IF \E d \in Claims : status[d] = "asked" /\ inviter[d] = i
                THEN crowded \cup {i} ELSE crowded
  /\ UNCHANGED <<users, rewards, faults>>

\* The claim as if it had never been asked for.
Forget(forgotten) ==
  /\ status' = [c \in Claims |-> IF c \in forgotten THEN "none" ELSE status[c]]
  /\ age' = [c \in Claims |-> IF c \in forgotten THEN "today" ELSE age[c]]
  /\ inviter' = [c \in Claims |-> IF c \in forgotten THEN NoUser ELSE inviter[c]]
  /\ invitee' = [c \in Claims |-> IF c \in forgotten THEN NoPhone ELSE invitee[c]]

Refuse(r) == Return(r) /\ Forget({req[r].claim})

\* PhoneEverRegistered; a call that fails refuses the claim as well.
PhoneIsNew(r) ==
  /\ req[r].at = "ever"
  /\ \/ Refuse(r)
     \/ ~Registered(req[r].number) /\ Goto(r, "referred") /\ UNCHANGED claims
  /\ UNCHANGED <<users, rewards, crowded, faults>>

\* InviteePhoneAlreadyReferred
NotReferred(r) ==
  LET p == req[r].number
      successful == {c \in Claims : invitee[c] = p /\ status[c] = "success"} IN
  /\ req[r].at = "referred"
  /\ \/ Refuse(r)
     \/ Pending(p) \cup successful = {} /\ Goto(r, "insert") /\ UNCHANGED claims
  /\ UNCHANGED <<users, rewards, crowded, faults>>

\* InsertReferralClaimV2, whose foreign key wants the inviter.
InsertClaim(r) ==
  LET c == req[r].claim IN
  /\ req[r].at = "insert"
  /\ \/ /\ inviter[c] \in live
        /\ Return(r) /\ status' = [status EXCEPT ![c] = "pending"]
        /\ UNCHANGED <<age, inviter, invitee>>
     \/ Refuse(r)
  /\ UNCHANGED <<users, rewards, crowded, faults>>

\* Midnight in Shanghai, and later the end of the 24 hours.
DayPasses ==
  /\ \E c \in Claims : age[c] = "today" /\ status[c] # "none"
  /\ age' = [c \in Claims |-> IF status[c] # "none" /\ age[c] = "today" THEN "recent" ELSE age[c]]
  /\ crowded' = {}
  /\ UNCHANGED <<users, status, inviter, invitee, rewards, req, faults>>

ClaimExpires(c) ==
  /\ age[c] = "recent" /\ status[c] \in {"asked", "pending"}
  /\ age' = [age EXCEPT ![c] = "expired"]
  /\ UNCHANGED <<users, status, inviter, invitee, rewards, crowded, req, faults>>

-----------------------------------------------------------------------------
(***************************************************************************)
(* Accounts.                                                               *)
(***************************************************************************)
\* A claim the account may hope for when it gets its number.
Hopes(p) == IF Pending(p) = {} THEN {NoClaim} ELSE Pending(p)

\* An account with a number registers, perhaps with the token of a claim.
RegisterPhone(r, u, p, token) ==
  /\ u \notin used /\ ~Registered(p)
  /\ live' = live \cup {u} /\ used' = used \cup {u}
  /\ phone' = [phone EXCEPT ![u] = p] /\ history' = history \cup {p}
  /\ \E c \in Hopes(p) : Start(r, [Idle EXCEPT !.at = "welcome", !.user = u, !.number = p,
                                                !.token = token, !.hope = c])
  /\ UNCHANGED <<claims, rewards, crowded, faults>>

\* Or one without: the token then finds no number to match.
RegisterThirdParty(r, u, token) ==
  /\ u \notin used
  /\ live' = live \cup {u} /\ used' = used \cup {u}
  /\ Start(r, [Idle EXCEPT !.at = "welcome", !.user = u, !.token = token])
  /\ UNCHANGED <<phone, history, claims, rewards, crowded, faults>>

\* The profile of an account that has no number: hadPhone is read here.
HadPhone(r, u, p) ==
  /\ u \in live /\ phone[u] = NoPhone
  /\ Start(r, [Idle EXCEPT !.at = "patch", !.user = u, !.number = p])
  /\ UNCHANGED <<users, claims, rewards, crowded, faults>>

\* Another account that has the number loses it.
PatchUserProfile(r) ==
  LET u == req[r].user  p == req[r].number IN
  /\ req[r].at = "patch"
  /\ \/ /\ u \in live
        /\ phone' = [v \in Users |-> IF v = u THEN p
                                     ELSE IF phone[v] = p THEN NoPhone ELSE phone[v]]
        /\ \E c \in Hopes(p) : req' = [req EXCEPT ![r].at = "bound", ![r].hope = c]
     \/ u \notin live /\ Return(r) /\ UNCHANGED phone
  /\ UNCHANGED <<live, used, history, claims, rewards, crowded, faults>>

\* OnPhoneBound
OnPhoneBound(r) ==
  /\ req[r].at = "bound"
  /\ \/ bond[req[r].user] = NoUser /\ Goto(r, "find")
     \/ bond[req[r].user] # NoUser /\ Return(r)
  /\ UNCHANGED <<users, claims, rewards, crowded, faults>>

\* Rows of the account go with it, those of its claims and bonds too.
DeleteUser(u) ==
  /\ u \in live /\ MayFail
  /\ live' = live \ {u} /\ history' = history \cup ({phone[u]} \ {NoPhone})
  /\ phone' = [phone EXCEPT ![u] = NoPhone]
  /\ status' = [c \in Claims |-> IF inviter[c] = u /\ status[c] \in {"pending", "success", "failed"}
                                 THEN "deleted" ELSE status[c]]
  /\ bond' = [v \in Users |-> IF v = u \/ bond[v] = u THEN NoUser ELSE bond[v]]
  /\ orphans' = orphans \cup {v \in Users : bond[v] = u}
  /\ UNCHANGED <<used, age, inviter, invitee, asInvitee, asInviter, via, shared, crowded, req, faults>>

-----------------------------------------------------------------------------
(***************************************************************************)
(* bindReferralClaim: by the token, then by the number.                    *)
(***************************************************************************)
\* Variant: an error ends it.
FailForGood(r) == Return(r)

\* An error of the binding by token is followed by the binding by number.
BindingFails(r) ==
  IF req[r].token # NoClaim /\ req[r].number # NoPhone
  THEN req' = [req EXCEPT ![r] = [Idle EXCEPT !.at = "find", !.user = req[r].user,
                                     !.number = req[r].number, !.hope = req[r].hope]]
  ELSE Return(r)

\* The requests other than r that have read the claim.
BindingToo(r, c) ==
  {q \in Requests \ {r} : req[q].claim = c /\ req[q].at \in {"bond", "mark", "inviter", "invitee"}}

\* What is wrong with a claim for the account; expired and self-made ones too.
Bindable(r, c) ==
  /\ status[c] = "pending" /\ InWindow(c)
  /\ inviter[c] # req[r].user
  /\ invitee[c] = req[r].number
  /\ bond[req[r].user] = NoUser

\* Of a claim and the bonds, read one after the other; the key checks the bond
\* again.
FindClaim(r) ==
  LET found == IF req[r].token # NoClaim THEN {req[r].token} \ {c \in Claims : status[c] \in {"none", "asked", "deleted"}}
               ELSE Pending(req[r].number) IN
  /\ req[r].at = "find"
  /\ \/ /\ found = {} /\ BindingFails(r) /\ UNCHANGED <<status, shared>>
     \/ \E c \in found :
          \/ /\ Bindable(r, c)
             /\ req' = [req EXCEPT ![r].at = "bond", ![r].claim = c]
             /\ shared' = IF BindingToo(r, c) # {} THEN shared \cup {c} ELSE shared
             /\ UNCHANGED status
          \/ /\ ~Bindable(r, c)
             /\ status' = IF status[c] = "pending" /\ ~InWindow(c)
                          THEN [status EXCEPT ![c] = "failed"] ELSE status
             /\ BindingFails(r) /\ UNCHANGED shared
  /\ UNCHANGED <<users, age, inviter, invitee, bond, asInvitee, asInviter, via, orphans,
                 crowded, faults>>

\* Variant: the key of the invitee is missing.
InsertAnyway(r) ==
  LET u == req[r].user  c == req[r].claim IN
  /\ req[r].at = "bond"
  /\ \/ /\ u \in live /\ inviter[c] \in live
        /\ bond' = [bond EXCEPT ![u] = inviter[c]] /\ via' = [via EXCEPT ![u] = c]
        /\ Goto(r, "mark")
     \/ /\ ~(u \in live /\ inviter[c] \in live)
        /\ BindingFails(r) /\ UNCHANGED <<bond, via>>
  /\ UNCHANGED <<users, claims, asInvitee, asInviter, shared, orphans, crowded, faults>>

\* An invitee has one bond, and both its accounts exist.
InsertUserReferral(r) ==
  LET u == req[r].user  c == req[r].claim
      insertable == u \in live /\ inviter[c] \in live /\ bond[u] = NoUser IN
  /\ req[r].at = "bond"
  /\ \/ /\ insertable
        /\ bond' = [bond EXCEPT ![u] = inviter[c]] /\ via' = [via EXCEPT ![u] = c]
        /\ Goto(r, "mark")
     \/ ~insertable /\ BindingFails(r) /\ UNCHANGED <<bond, via>>
  /\ UNCHANGED <<users, claims, asInvitee, asInviter, shared, orphans, crowded, faults>>

\* Variant: the claim is left as it is.
MarkNothing(r) ==
  /\ req[r].at = "mark"
  /\ Goto(r, "inviter")
  /\ UNCHANGED <<users, claims, rewards, crowded, faults>>

\* A claim that is not pending any more is left as it is, unnoticed.
MarkReferralClaimSuccess(r) ==
  LET c == req[r].claim IN
  /\ req[r].at = "mark"
  /\ status' = IF status[c] = "pending" THEN [status EXCEPT ![c] = "success"] ELSE status
  /\ Goto(r, "inviter")
  /\ UNCHANGED <<users, age, inviter, invitee, rewards, crowded, faults>>

-----------------------------------------------------------------------------
(***************************************************************************)
(* Membership, for accounts that still exist.                              *)
(***************************************************************************)
\* A new account, which is not bonded either if this fails.
WelcomeBonus(r) ==
  /\ req[r].at = "welcome"
  /\ IF req[r].user \in live THEN Goto(r, "find") ELSE Return(r)
  /\ UNCHANGED <<users, claims, rewards, crowded, faults>>

\* Variant: the invitee's reward is forgotten.
RewardInviterOnly(r) ==
  LET u == req[r].user IN
  /\ req[r].at = "inviter"
  /\ asInviter' = [asInviter EXCEPT ![u] = @ + 1] /\ Return(r)
  /\ UNCHANGED <<users, claims, bond, asInvitee, via, shared, orphans, crowded, faults>>

RewardInviter(r) ==
  LET u == req[r].user  c == req[r].claim IN
  /\ req[r].at = "inviter"
  /\ \/ /\ inviter[c] \in live
        /\ asInviter' = [asInviter EXCEPT ![u] = @ + 1] /\ Goto(r, "invitee")
     \/ inviter[c] \notin live /\ BindingFails(r) /\ UNCHANGED asInviter
  /\ UNCHANGED <<users, claims, bond, asInvitee, via, shared, orphans, crowded, faults>>

RewardInvitee(r) ==
  LET u == req[r].user IN
  /\ req[r].at = "invitee"
  /\ \/ u \in live /\ asInvitee' = [asInvitee EXCEPT ![u] = @ + 1] /\ Return(r)
     \/ u \notin live /\ BindingFails(r) /\ UNCHANGED asInvitee
  /\ UNCHANGED <<users, claims, bond, asInviter, via, shared, orphans, crowded, faults>>

-----------------------------------------------------------------------------
(***************************************************************************)
(* Failures.                                                               *)
(***************************************************************************)
\* A call fails.  One that took effect and whose reply is lost is followed by a
\* failure of the next.
CallFails(r) ==
  /\ MayFail /\ faults' = faults + 1
  /\ \/ req[r].at \in {"find", "bond", "mark", "inviter", "invitee"} /\ BindingFails(r)
     \/ req[r].at \in {"patch", "bound", "welcome"} /\ Return(r)
  /\ shared' = IF req[r].at = "mark" THEN shared \cup {req[r].claim} ELSE shared
  /\ UNCHANGED <<users, claims, bond, asInvitee, asInviter, via, orphans, crowded>>

Crash ==
  /\ MayFail /\ faults' = faults + 1
  /\ \E r \in Requests : req[r] # Idle
  /\ req' = [r \in Requests |-> Idle]
  /\ Forget({c \in Claims : status[c] = "asked"})
  /\ shared' = shared \cup {req[r].claim : r \in {q \in Requests : req[q].at = "mark"}}
  /\ UNCHANGED <<users, bond, asInvitee, asInviter, via, orphans, crowded>>

-----------------------------------------------------------------------------
Ask(r) ==
  \/ \E c \in Claims, i \in live \cap Inviters, p \in Phones : CountClaims(r, c, i, p)
  \/ PhoneIsNew(r) \/ NotReferred(r) \/ InsertClaim(r)

Bind(r) ==
  \/ PatchUserProfile(r) \/ OnPhoneBound(r)
  \/ WelcomeBonus(r) \/ FindClaim(r) \/ InsertUserReferral(r)
  \/ MarkReferralClaimSuccess(r) \/ RewardInviter(r) \/ RewardInvitee(r)

Arrive(r) ==
  \E u \in Users :
    \/ \E token \in {c \in Claims : status[c] \notin {"none", "asked"}} \cup {NoClaim} :
         RegisterThirdParty(r, u, token) \/ \E p \in Registering : RegisterPhone(r, u, p, token)
    \/ \E p \in Registering : HadPhone(r, u, p)

Next ==
  \/ \E r \in Requests : Ask(r) \/ Arrive(r) \/ Bind(r) \/ CallFails(r)
  \/ \E u \in Users : DeleteUser(u)
  \/ \E c \in Claims : ClaimExpires(c)
  \/ DayPasses
  \/ Crash

Spec == Init /\ [][Next]_vars

-----------------------------------------------------------------------------
(***************************************************************************)
(* Properties.                                                             *)
(***************************************************************************)
\* An inviter makes no more claims a day than the limit
\* (referral_handlers.go:86-94), unless two were under way at once.
DailyLimitHolds == \A i \in Users \ crowded : Cardinality(MadeToday(i)) <= DailyLimit

\* A claim bonds one account (referral.go:110-115), unless two requests had read
\* it or one could not mark it.
OneBondPerClaim ==
  \A u, v \in Users : via[u] = via[v] => u = v \/ via[u] \in shared \cup {NoClaim}

\* Invitee and inviter are rewarded once, whatever fails or comes twice; the
\* deletion of the inviter takes the bond away, so that the invitee may be
\* invited again.
RewardedOnce == \A u \in Users \ orphans : asInvitee[u] <= 1 /\ asInviter[u] <= 1

\* Both sides of a bond are rewarded once its request is through
\* (referral.go:110-133), if nothing failed.
BondIsRewarded ==
  \A u \in live : bond[u] # NoUser =>
    \/ asInvitee[u] > 0 /\ asInviter[u] > 0
    \/ faults > 0 \/ \E r \in Requests : req[r].user = u

\* An account that got its number while a claim on it was pending is bonded when
\* its request is through, if nothing failed and the claim still stands; not
\* with one of its own.
InvitedIsBonded ==
  [][\A r \in Requests :
       LET u == req[r].user  c == req[r].hope IN
       c # NoClaim /\ req'[r] = Idle =>
         \/ bond'[u] # NoUser
         \/ faults' > 0 \/ u \notin live \/ \E d \in Claims : status[d] = "deleted" \/ inviter[d] = u
         \/ status'[c] # "pending" \/ ~InWindow(c)]_vars

\* Why they hold.  A claim that is asked for is so by one request, its inviter
\* counts it as made, and claims nobody asks for are nobody's;
AskedBy(r) == req[r].at \in Claiming
AskedToday(i) == {c \in Claims : inviter[c] = i /\ age[c] = "today"
                                 /\ status[c] \in {"asked", "pending", "success", "failed"}}
AskedOnce ==
  /\ \A r \in Requests : AskedBy(r) => req[r].claim \in Claims /\ status[req[r].claim] = "asked"
  /\ \A r, q \in Requests : AskedBy(r) /\ AskedBy(q) /\ req[r].claim = req[q].claim => r = q
  /\ \A c \in Claims : status[c] = "none" <=> inviter[c] = NoUser
AskedInLimit ==
  \A i \in Users \ crowded :
    IsFiniteSet(AskedToday(i)) /\ Cardinality(AskedToday(i)) <= DailyLimit

\* a request binds an account, and the claims it has read were there;
Stands(c) == c \in Claims /\ status[c] \notin {"none", "asked"}
Bonded(r) == req[r].at \in {"mark", "inviter", "invitee"}
Binding(r) == Bonded(r) \/ req[r].at = "bond"
ReadsWhatStands(r) ==
  /\ req[r].at \notin Claiming \cup {"idle"} => req[r].user \in used
  /\ req[r].at = "patch" => req[r].number # NoPhone
  /\ Binding(r) => Stands(req[r].claim)
  /\ AskedBy(r) \/ req[r].at = "idle" => req[r].hope = NoClaim
  /\ req[r].hope # NoClaim =>
       /\ Stands(req[r].hope) /\ invitee[req[r].hope] = req[r].number
       /\ req[r].number # NoPhone
ReadersAreSound == IsFiniteSet(used) /\ \A r \in Requests : ReadsWhatStands(r)

\* a claim that bonded an account is not pending, or about to be marked, unless
\* it is shared, and then nobody else is about to bond with it;
ReadAlone ==
  \A r, q \in Requests :
    Binding(r) /\ Binding(q) /\ req[r].claim = req[q].claim => r = q \/ req[r].claim \in shared
ViaIsUsedUp ==
  \A u \in Users : via[u] \notin shared \cup {NoClaim} =>
    /\ Stands(via[u])
    /\ status[via[u]] # "pending" \/ \E r \in Requests : req[r].at = "mark" /\ req[r].claim = via[u]
    /\ \A r \in Requests : ~(req[r].at = "bond" /\ req[r].claim = via[u])

\* an account that is bonded stays so, or is gone or an orphan, and one request
\* rewards for it;
WasBonded(u) == u \in used /\ (bond[u] # NoUser \/ u \notin live)
RewardedByOne ==
  \A u \in Users \ orphans :
    /\ asInvitee[u] > 0 \/ asInviter[u] > 0 => WasBonded(u)
    /\ \A r \in Requests : Bonded(r) /\ req[r].user = u =>
         /\ WasBonded(u) /\ asInvitee[u] = 0
         /\ req[r].at # "invitee" => asInviter[u] = 0
         /\ \A q \in Requests : Bonded(q) /\ req[q].user = u => q = r

\* a claim or bond goes with its inviter, and what is not rewarded is at work.
InviterIsLive ==
  /\ \A u \in Users : bond[u] # NoUser =>
       u \in live /\ bond[u] \in live /\ Stands(via[u]) /\ bond[u] = inviter[via[u]]
  /\ \A c \in Claims : status[c] \in {"pending", "success", "failed"} => inviter[c] \in live
  /\ \A r \in Requests : Bonded(r) =>
       \/ bond[req[r].user] # NoUser \/ req[r].user \notin live
       \/ \E c \in Claims : status[c] = "deleted"
RewardIsDue ==
  \A u \in live : bond[u] # NoUser =>
    \/ asInvitee[u] > 0 /\ asInviter[u] > 0
    \/ faults > 0
    \/ \E r \in Requests :
         /\ Bonded(r) /\ req[r].user = u /\ inviter[req[r].claim] = bond[u]
         /\ req[r].at = "invitee" => asInviter[u] > 0

IInv ==
  /\ TypeOK /\ AskedOnce /\ AskedInLimit /\ ReadersAreSound
  /\ ReadAlone /\ ViaIsUsedUp /\ OneBondPerClaim
  /\ RewardedByOne /\ RewardedOnce /\ InviterIsLive /\ RewardIsDue
=============================================================================
