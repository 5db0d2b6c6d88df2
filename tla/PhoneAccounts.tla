---------------------------- MODULE PhoneAccounts ----------------------------
(***************************************************************************)
(* Which account a phone number belongs to: registration by text message,  *)
(* binding and rebinding in the profile, the reset of a password, the      *)
(* operator's changes, deletion, and the history that keeps the number of  *)
(* a deleted account from registering again (internal/api/                 *)
(* phone_register_handlers.go, profile_handlers.go,                        *)
(* password_reset_handlers.go, admin_handlers.go, internal/store/          *)
(* phone_register.go, profile.go, referral_invite.go, admin.go).           *)
(*                                                                         *)
(* users.phone has no unique key, so that a number has one account only if *)
(* the handlers, which look first and write later, see to it.  A query     *)
(* that finds the account of a number returns any one of them.             *)
(*                                                                         *)
(* Left out: the text messages (a handler whose code is refused returns),  *)
(* what the numbers and passwords are, the referral work after a           *)
(* registration or a first binding, and the reuse of an id by the          *)
(* operator.                                                               *)
(***************************************************************************)
EXTENDS Naturals

CONSTANTS
  Users,        \* bound: the ids given out
  NoUser,
  Phones,
  NoPhone,
  Requests,     \* handlers that may run at the same time
  MaxFaults     \* bound: failing calls and restarts of the server

ASSUME PhoneAssumption ==
  /\ NoUser \notin Users
  /\ NoPhone \notin Phones
  /\ MaxFaults \in Nat

VARIABLES
  live,          \* the accounts
  used,          \* ids given out so far
  phone,         \* users.phone
  setBy,         \* the number whose text message the password was set with,
                 \* NoPhone for one set otherwise
  history,       \* registered_phone_history
  pc, user, number,  \* where each request is, for which account and number
  other,         \* the account it takes the number from
  gone,          \* history variable: numbers deleted with their account
  late,          \* history variable: numbers an account got once archived
  contested,     \* history variable: numbers that two dealt with at once
  taken,         \* history variable: numbers taken for a rebinding, and not
                 \* given to anybody since
  abandoned,     \* history variable: those whose rebinding ended without them
  faults

accounts == <<live, used>>
requests == <<pc, user, number, other>>
ghosts == <<gone, late, contested, taken, abandoned>>
vars == <<accounts, phone, setBy, history, requests, ghosts, faults>>

Labels == {"idle", "lookup", "insert", "create", "record", "clear", "patch", "reset", "erase"}

TypeOK ==
  /\ used \subseteq Users /\ live \subseteq used
  /\ phone \in [Users -> Phones \cup {NoPhone}]
  /\ \A u \in Users \ live : phone[u] = NoPhone
  /\ setBy \in [Users -> Phones \cup {NoPhone}]
  /\ history \subseteq Phones
  /\ pc \in [Requests -> Labels]
  /\ user \in [Requests -> Users \cup {NoUser}]
  /\ number \in [Requests -> Phones \cup {NoPhone}]
  /\ other \in [Requests -> Users \cup {NoUser}]
  /\ \A r \in Requests :
       /\ pc[r] \in {"clear", "patch", "reset", "erase"} <=> user[r] \in Users
       /\ pc[r] \notin {"idle", "erase"} <=> number[r] \in Phones
       /\ pc[r] = "clear" <=> other[r] \in Users
  /\ gone \subseteq Phones /\ late \subseteq Phones
  /\ contested \subseteq Phones
  /\ taken \subseteq Phones /\ abandoned \subseteq taken
  /\ faults \in Nat

Init ==
  /\ live = {} /\ used = {}
  /\ phone = [u \in Users |-> NoPhone]
  /\ setBy = [u \in Users |-> NoPhone]
  /\ history = {}
  /\ pc = [r \in Requests |-> "idle"]
  /\ user = [r \in Requests |-> NoUser]
  /\ number = [r \in Requests |-> NoPhone]
  /\ other = [r \in Requests |-> NoUser]
  /\ gone = {} /\ late = {} /\ contested = {}
  /\ taken = {} /\ abandoned = {}
  /\ faults = 0

Holders(p) == {u \in Users : phone[u] = p}

-----------------------------------------------------------------------------
(***************************************************************************)
(* Steps of a request.                                                     *)
(***************************************************************************)
Start(r, label, u, p) ==
  /\ pc[r] = "idle"
  /\ pc' = [pc EXCEPT ![r] = label]
  /\ user' = [user EXCEPT ![r] = u]
  /\ number' = [number EXCEPT ![r] = p]

Goto(r, label) ==
  /\ pc' = [pc EXCEPT ![r] = label]
  /\ other' = [other EXCEPT ![r] = NoUser]
  /\ UNCHANGED <<user, number>>

Return(r) ==
  /\ pc' = [pc EXCEPT ![r] = "idle"]
  /\ user' = [user EXCEPT ![r] = NoUser]
  /\ number' = [number EXCEPT ![r] = NoPhone]
  /\ other' = [other EXCEPT ![r] = NoUser]

NothingWritten == UNCHANGED <<accounts, phone, setBy, history, ghosts, faults>>

\* The requests other than self that the account of u, or a change of who has
\* one of the numbers, concerns.
Concerned(self, u, numbers) ==
  {r \in Requests \ self :
     pc[r] # "idle" /\ (number[r] \in numbers \/ user[r] = u \/ other[r] = u)}

Contest(self, u, numbers) ==
  contested' = contested \cup ({number[r] : r \in Concerned(self, u, numbers)} \ {NoPhone})

\* The account is archived and about to be deleted.
Doomed(u) == \E r \in Requests : pc[r] = "erase" /\ user[r] = u

\* users.phone of u becomes p; an account that is gone has none.
SetPhone(self, u, p) ==
  /\ phone' = IF u \in live' THEN [phone EXCEPT ![u] = p] ELSE phone
  /\ late' = IF Doomed(u) THEN late \cup ({p} \ (history \cup {NoPhone})) ELSE late
  /\ Contest(self, u, {p, phone[u]})

\* Somebody has the number again.
Given(p) == taken' = taken \ {p} /\ abandoned' = abandoned \ {p}

\* Requests that end before they have bound the number they took.
Abandon(ended) ==
  /\ abandoned' = abandoned \cup (taken \cap {number[r] : r \in {q \in ended : pc[q] = "patch"}})
  /\ UNCHANGED <<gone, late, contested, taken>>

-----------------------------------------------------------------------------
(***************************************************************************)
(* Registration.  An answer that the number is registered, at any of the   *)
(* checks, changes nothing.                                                *)
(***************************************************************************)
\* Variant: the history is not asked.
FindHolderOnly(r, p) ==
  /\ Holders(p) = {}
  /\ Start(r, "lookup", NoUser, p)
  /\ NothingWritten /\ UNCHANGED other

\* GetUserByPhone and PhoneEverRegistered find nothing; then the text message.
RegisterConfirm(r, p) ==
  /\ Holders(p) = {} /\ p \notin history
  /\ Start(r, "lookup", NoUser, p)
  /\ NothingWritten /\ UNCHANGED other

\* findUserIDByPhoneTx: the transaction's snapshot.
LookupInTx(r) ==
  /\ pc[r] = "lookup"
  /\ \/ Holders(number[r]) # {} /\ Return(r)
     \/ Holders(number[r]) = {} /\ Goto(r, "insert")
  /\ NothingWritten

\* AdminCreateUser looks for the number only.
AdminLookup(r, p) ==
  /\ Holders(p) = {}
  /\ Start(r, "create", NoUser, p)
  /\ NothingWritten /\ UNCHANGED other

NewAccount(r, u, by) ==
  /\ u \notin used
  /\ live' = live \cup {u} /\ used' = used \cup {u}
  /\ SetPhone({r}, u, number[r])
  /\ setBy' = [setBy EXCEPT ![u] = by]
  /\ Given(number[r])
  /\ UNCHANGED <<history, gone>>

CreateUserWithPhonePassword(r, u) ==
  /\ pc[r] = "insert"
  /\ NewAccount(r, u, number[r])
  /\ Goto(r, "record")
  /\ UNCHANGED faults

AdminCreateUser(r, u) ==
  /\ pc[r] = "create"
  /\ NewAccount(r, u, NoPhone)
  /\ Return(r)
  /\ UNCHANGED faults

RecordHistory(r) ==
  /\ pc[r] = "record" /\ Return(r)
  /\ history' = history \cup {number[r]}
  /\ UNCHANGED <<accounts, phone, setBy, ghosts, faults>>

\* A first login with a third-party identity.
CreateAccount(u) ==
  /\ u \notin used
  /\ live' = live \cup {u} /\ used' = used \cup {u}
  /\ UNCHANGED <<phone, setBy, history, requests, ghosts, faults>>

-----------------------------------------------------------------------------
(***************************************************************************)
(* The profile: a number, after its text message.                          *)
(***************************************************************************)
\* Variant: the account that has the number is not looked for.
FindNobody(r, u, p) ==
  /\ u \in live
  /\ Start(r, "patch", u, p) /\ UNCHANGED other
  /\ NothingWritten

\* Another account that has it loses it first, if the client says so.
FindOther(r, u, p) ==
  /\ u \in live
  /\ \/ /\ Holders(p) = {} \/ u \in Holders(p)
        /\ Start(r, "patch", u, p) /\ UNCHANGED other
     \/ \E v \in Holders(p) \ {u} :
          Start(r, "clear", u, p) /\ other' = [other EXCEPT ![r] = v]
  /\ NothingWritten

\* Whatever number the other account has by now.  Once it has none the body may
\* still be refused, for asking to clear the password.
ClearUserPhone(r) ==
  LET lost == {phone[other[r]]} \ {NoPhone} IN
  /\ pc[r] = "clear"
  /\ \/ /\ other[r] \in live /\ Goto(r, "patch")
        /\ abandoned' = abandoned \cup (lost \ {number[r]})
     \/ /\ other[r] \in live /\ Return(r)            \* clear_password_not_allowed
        /\ abandoned' = abandoned \cup lost
     \/ other[r] \notin live /\ Return(r) /\ UNCHANGED abandoned  \* phone_rebind_race
  /\ taken' = taken \cup lost
  /\ UNCHANGED accounts /\ SetPhone({r}, other[r], NoPhone)
  /\ UNCHANGED <<setBy, history, gone, faults>>

\* Variant: the number is left out of the update.
PatchOthers(r) ==
  /\ pc[r] = "patch" /\ Return(r)
  /\ NothingWritten

PatchUserProfile(r) ==
  /\ pc[r] = "patch" /\ Return(r)
  /\ UNCHANGED accounts /\ SetPhone({r}, user[r], number[r])
  /\ \/ user[r] \in live /\ Given(number[r])
     \/ user[r] \notin live /\ UNCHANGED <<taken, abandoned>>
  /\ UNCHANGED <<setBy, history, gone, faults>>

-----------------------------------------------------------------------------
(***************************************************************************)
(* Passwords.                                                              *)
(***************************************************************************)
\* Variant: the client names the account.
ResetAnybody(r, p) ==
  /\ \E u \in live : Start(r, "reset", u, p)
  /\ NothingWritten /\ UNCHANGED other

\* handlePasswordResetConfirm finds the account, and checks the message.
ResetFinds(r, p) ==
  /\ \E u \in Holders(p) : Start(r, "reset", u, p)
  /\ NothingWritten /\ UNCHANGED other

SetUserPasswordHash(r) ==
  /\ pc[r] = "reset" /\ Return(r)
  /\ setBy' = IF user[r] \in live THEN [setBy EXCEPT ![user[r]] = number[r]] ELSE setBy
  /\ UNCHANGED <<accounts, phone, history, ghosts, faults>>

\* By the user, who is logged in, or the operator.
ChangePassword(u) ==
  /\ u \in live
  /\ setBy' = [setBy EXCEPT ![u] = NoPhone]
  /\ UNCHANGED <<accounts, phone, history, requests, ghosts, faults>>

\* The operator gives an account a number without looking who has it.
AdminSetUserPhone(u, p) ==
  /\ u \in live
  /\ phone' = [phone EXCEPT ![u] = p]
  /\ late' = IF Doomed(u) THEN late \cup ({p} \ history) ELSE late
  /\ contested' = contested \cup {p}
       \cup ({number[r] : r \in Concerned({}, u, {p, phone[u]})} \ {NoPhone})
  /\ Given(p)
  /\ UNCHANGED <<accounts, setBy, history, requests, gone, faults>>

-----------------------------------------------------------------------------
(***************************************************************************)
(* Deletion, by the user or the operator.                                  *)
(***************************************************************************)
Archive(r, u) ==
  /\ u \in live
  /\ Start(r, "erase", u, NoPhone)
  /\ history' = history \cup ({phone[u]} \ {NoPhone})
  /\ UNCHANGED <<accounts, phone, setBy, other, ghosts, faults>>

Erase(r) ==
  LET u == user[r] IN
  /\ pc[r] = "erase" /\ Return(r)
  /\ live' = live \ {u}
  /\ gone' = gone \cup ({phone[u]} \ {NoPhone})
  /\ phone' = [phone EXCEPT ![u] = NoPhone]
  /\ setBy' = [setBy EXCEPT ![u] = NoPhone]
  /\ Contest({r}, u, {phone[u]})
  /\ UNCHANGED <<used, history, late, taken, abandoned, faults>>

\* Every deployment may run the migrations again.
MigrateHistory ==
  /\ history' = history \cup {p \in Phones : Holders(p) # {}}
  /\ UNCHANGED <<accounts, phone, setBy, requests, ghosts, faults>>

-----------------------------------------------------------------------------
(***************************************************************************)
(* Failures.                                                               *)
(***************************************************************************)
\* A call fails, or the text message is not the right one.
CallFails(r) ==
  /\ faults < MaxFaults /\ faults' = faults + 1
  /\ pc[r] # "idle" /\ Return(r)
  /\ Abandon({r})
  /\ UNCHANGED <<accounts, phone, setBy, history>>

\* The account is created but the commit's reply is lost: not recorded.
CommitReplyLost(r, u) ==
  /\ faults < MaxFaults /\ faults' = faults + 1
  /\ pc[r] = "insert"
  /\ NewAccount(r, u, number[r])
  /\ Return(r)

Crash ==
  /\ faults < MaxFaults /\ faults' = faults + 1
  /\ pc' = [r \in Requests |-> "idle"]
  /\ user' = [r \in Requests |-> NoUser]
  /\ number' = [r \in Requests |-> NoPhone]
  /\ other' = [r \in Requests |-> NoUser]
  /\ Abandon(Requests)
  /\ UNCHANGED <<accounts, phone, setBy, history>>

-----------------------------------------------------------------------------
Register(r) ==
  \/ \E p \in Phones : RegisterConfirm(r, p) \/ AdminLookup(r, p)
  \/ LookupInTx(r) \/ RecordHistory(r)
  \/ \E u \in Users :
       CreateUserWithPhonePassword(r, u) \/ AdminCreateUser(r, u) \/ CommitReplyLost(r, u)

PatchProfile(r) ==
  \/ \E u \in Users, p \in Phones : FindOther(r, u, p)
  \/ ClearUserPhone(r) \/ PatchUserProfile(r)

PasswordReset(r) == SetUserPasswordHash(r) \/ \E p \in Phones : ResetFinds(r, p)

Delete(r) == Erase(r) \/ \E u \in Users : Archive(r, u)

Next ==
  \/ \E r \in Requests :
       Register(r) \/ PatchProfile(r) \/ PasswordReset(r) \/ Delete(r) \/ CallFails(r)
  \/ \E u \in Users : CreateAccount(u) \/ ChangePassword(u)
  \/ \E u \in Users, p \in Phones : AdminSetUserPhone(u, p)
  \/ MigrateHistory
  \/ Crash

Spec == Init /\ [][Next]_vars

-----------------------------------------------------------------------------
(***************************************************************************)
(* Properties.                                                             *)
(***************************************************************************)
\* A number has one account (profile_handlers.go:112, phone_register.go:32),
\* unless somebody else changed whose it is while a request was about it, or
\* the operator gave it away.
PhoneHasOneAccount ==
  \A u, v \in live : phone[u] = phone[v] => u = v \/ phone[u] \in contested \cup {NoPhone}

\* Why: what a request found of its number still holds when it writes.
StillHolds(r) ==
  /\ pc[r] \in {"insert", "create"} => Holders(number[r]) = {}
  /\ pc[r] = "clear" => Holders(number[r]) \subseteq {other[r]}
  /\ pc[r] = "patch" => Holders(number[r]) \subseteq {user[r]}
  /\ pc[r] = "reset" => user[r] \in Holders(number[r])
FoundStillHolds == \A r \in Requests : number[r] \in contested \/ StillHolds(r)

\* And a number that is gone was archived, which a registration has asked.
GoneIsRemembered == gone \subseteq history \cup late
ErasedWhenArchived ==
  \A r \in Requests : pc[r] = "erase" => phone[user[r]] \in history \cup late \cup {NoPhone}
AskedWhenNew ==
  \A r \in Requests :
    pc[r] \in {"lookup", "insert"} /\ number[r] \in gone => number[r] \in late \cup contested

\* A number that was taken from an account and that nobody has got since is in
\* the hands of a request about to bind it, unless somebody changed whose it is
\* meanwhile, or its own rebinding gave it up: was refused or failed after it had
\* taken the number, or took it by mistake for another one
\* (profile_handlers.go:203-223).  Nothing else that runs or fails loses one.
InHands(p) == \E r \in Requests : pc[r] = "patch" /\ number[r] = p
TakenIsAccounted == \A p \in taken : InHands(p) \/ p \in abandoned \cup contested

\* The account that is to get a number is alive, unless that changed meanwhile.
RebindingStillHolds ==
  \A r \in Requests :
    pc[r] \in {"clear", "patch"} => user[r] \in live \/ number[r] \in contested

\* What profile_handlers.go:112 says of unbind_phone_from_other: the number is
\* taken from the other account and then bound to this one, if nothing fails and
\* nobody interferes.  It is not: a body that asks to clear the password as well
\* is refused in between.
TakenIsGiven == faults = 0 /\ contested = {} => \A p \in taken : InHands(p)

IInv ==
  /\ TypeOK /\ PhoneHasOneAccount /\ FoundStillHolds
  /\ GoneIsRemembered /\ ErasedWhenArchived /\ AskedWhenNew
  /\ RebindingStillHolds /\ TakenIsAccounted

\* The number of a deleted account does not register again
\* (phone_register_handlers.go:141), although recording it at registration
\* may fail silently; unless it came to the account once that was archived.
DeletedStaysOut ==
  [][\A u \in live' \ live :
       \/ phone'[u] \notin gone \/ setBy'[u] = NoPhone
       \/ phone'[u] \in late \cup contested']_vars

\* A text message sets the password of the account that has the number
\* (password_reset_handlers.go:190), which was looked up long before.
PasswordReachesHolder ==
  [][\A u \in Users :
       setBy'[u] # setBy[u] => setBy'[u] \in {NoPhone, phone'[u]} \cup contested]_vars
=============================================================================
