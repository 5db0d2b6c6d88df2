------------------------- MODULE PhoneAccountsProofs -------------------------
(***************************************************************************)
(* Proofs, for any number of accounts, numbers and concurrent requests,    *)
(* that a number has one account unless it is contested, that the number   *)
(* of a deleted account does not register again, that a reset password is  *)
(* that of the account the number belongs to, and what becomes of a number *)
(* that is taken for a rebinding.                                          *)
(*                                                                         *)
(* The argument: whatever changes who has a number contests the requests   *)
(* about it, so what the others found before still holds when they write   *)
(* (FoundStillHolds, RebindingStillHolds).                                 *)
(***************************************************************************)
EXTENDS PhoneAccounts, TLAPS

USE DEF accounts, requests, ghosts

-----------------------------------------------------------------------------
(***************************************************************************)
(* Type correctness.                                                       *)
(***************************************************************************)
\* There are no accounts at first.
LEMMA InitIInv == Init => IInv
  BY PhoneAssumption DEF Init, IInv, TypeOK, Labels, PhoneHasOneAccount, FoundStillHolds, StillHolds,
     GoneIsRemembered, ErasedWhenArchived, AskedWhenNew, RebindingStillHolds, TakenIsAccounted, Holders

\* What a step may do to the bookkeeping of its request.
RequestsOK ==
  /\ pc \in [Requests -> Labels]
  /\ user \in [Requests -> Users \cup {NoUser}]
  /\ number \in [Requests -> Phones \cup {NoPhone}]
  /\ other \in [Requests -> Users \cup {NoUser}]
  /\ \A r \in Requests :
       /\ pc[r] \in {"clear", "patch", "reset", "erase"} <=> user[r] \in Users
       /\ pc[r] \notin {"idle", "erase"} <=> number[r] \in Phones
       /\ pc[r] = "clear" <=> other[r] \in Users

\* A request that returns forgets what it was about.
LEMMA ReturnType == ASSUME TypeOK, NEW r \in Requests, Return(r) PROVE RequestsOK'
  BY PhoneAssumption DEF TypeOK, Return, RequestsOK, Labels

\* A request goes on with its number, for nobody or for its user.
LEMMA GotoType ==
  ASSUME TypeOK, NEW r \in Requests, NEW label, Goto(r, label),
         \/ label \in {"insert", "record"} /\ pc[r] \in {"lookup", "insert"}
         \/ label = "patch" /\ pc[r] = "clear"
  PROVE  RequestsOK'
  BY PhoneAssumption DEF TypeOK, Goto, RequestsOK, Labels

\* A request about a number, an account or both begins.
LEMMA StartType ==
  ASSUME TypeOK, NEW r \in Requests, NEW label, NEW u, NEW p, Start(r, label, u, p),
         \/ label \in {"lookup", "create"} /\ u = NoUser /\ p \in Phones
         \/ label \in {"patch", "reset"} /\ u \in Users /\ p \in Phones
         \/ label = "erase" /\ u \in Users /\ p = NoPhone,
         other' = other
  PROVE  RequestsOK'
  BY PhoneAssumption DEF TypeOK, Start, RequestsOK, Labels

\* A rebinding begins that takes the number from another account.
LEMMA StartClearType ==
  ASSUME TypeOK, NEW r \in Requests, NEW u \in Users, NEW p \in Phones, NEW v \in Users,
         Start(r, "clear", u, p), other' = [other EXCEPT ![r] = v]
  PROVE  RequestsOK'
  BY PhoneAssumption DEF TypeOK, Start, RequestsOK, Labels

\* A change of a number writes a number, of an account that lives.
LEMMA SetPhoneType ==
  ASSUME TypeOK, NEW self \in SUBSET Requests, NEW u \in Users, NEW p \in Phones \cup {NoPhone},
         SetPhone(self, u, p), live \subseteq live'
  PROVE  /\ phone' \in [Users -> Phones \cup {NoPhone}]
         /\ \A v \in Users \ live' : phone'[v] = NoPhone
         /\ late' \subseteq Phones /\ contested' \subseteq Phones
  <1>1. phone' = IF u \in live' THEN [phone EXCEPT ![u] = p] ELSE phone
    BY DEF SetPhone
  <1>2. late' \subseteq late \cup ({p} \ {NoPhone})
    BY DEF SetPhone
  <1>3. contested' = contested \cup ({number[r] : r \in Concerned(self, u, {p, phone[u]})} \ {NoPhone})
    BY DEF SetPhone, Contest
  <1>4. Concerned(self, u, {p, phone[u]}) \subseteq Requests
    BY DEF Concerned
  <1>5. contested' \subseteq Phones
    <2> SUFFICES ASSUME NEW q \in contested' PROVE q \in Phones
      OBVIOUS
    <2>1. q \in contested \/ \E r \in Requests : q = number[r] /\ q # NoPhone
      BY <1>3, <1>4
    <2> QED BY <2>1 DEF TypeOK
  <1>6. /\ phone' \in [Users -> Phones \cup {NoPhone}]
        /\ \A v \in Users \ live' : phone'[v] = NoPhone
    BY <1>1 DEF TypeOK
  <1> QED BY <1>2, <1>5, <1>6 DEF TypeOK

\* An account that is created is one more.
LEMMA NewAccountType ==
  ASSUME TypeOK, NEW r \in Requests, NEW u \in Users, NEW by \in Phones \cup {NoPhone},
         pc[r] \in {"insert", "create"}, NewAccount(r, u, by), RequestsOK', faults' \in Nat
  PROVE  TypeOK'
  <1>1. number[r] \in Phones
    BY DEF TypeOK
  <1>2. /\ live' = live \cup {u} /\ used' = used \cup {u} /\ SetPhone({r}, u, number[r])
        /\ setBy' = [setBy EXCEPT ![u] = by]
        /\ taken' = taken \ {number[r]} /\ abandoned' = abandoned \ {number[r]}
        /\ UNCHANGED <<history, gone>>
    BY DEF NewAccount, Given
  <1>3. /\ phone' \in [Users -> Phones \cup {NoPhone}]
        /\ \A v \in Users \ live' : phone'[v] = NoPhone
        /\ late' \subseteq Phones /\ contested' \subseteq Phones
    BY <1>1, <1>2, SetPhoneType
  <1> QED BY <1>2, <1>3 DEF TypeOK, RequestsOK

\* Every step keeps the types.
LEMMA StepTypeOK == TypeOK /\ [Next]_vars => TypeOK'
  <1> SUFFICES ASSUME TypeOK, [Next]_vars PROVE TypeOK'
    OBVIOUS
  <1>0. ASSUME NothingWritten, RequestsOK' PROVE TypeOK'
    BY <1>0 DEF TypeOK, NothingWritten, RequestsOK
  <1>1. ASSUME NEW r \in Requests, Register(r) PROVE TypeOK'
    <2>1. ASSUME NEW p \in Phones, RegisterConfirm(r, p) \/ AdminLookup(r, p) PROVE TypeOK'
      <3>1. RequestsOK' BY <2>1, StartType DEF RegisterConfirm, AdminLookup
      <3> QED BY <1>0, <2>1, <3>1 DEF RegisterConfirm, AdminLookup
    <2>2. CASE LookupInTx(r)
      <3>1. RequestsOK' BY <2>2, ReturnType, GotoType DEF LookupInTx
      <3> QED BY <1>0, <2>2, <3>1 DEF LookupInTx
    <2>3. CASE RecordHistory(r)
      <3>1. RequestsOK' /\ number[r] \in Phones
        BY <2>3, ReturnType DEF RecordHistory, TypeOK
      <3> QED BY <2>3, <3>1 DEF RecordHistory, TypeOK, RequestsOK
    <2>4. ASSUME NEW u \in Users, CreateUserWithPhonePassword(r, u) PROVE TypeOK'
      <3>1. RequestsOK' /\ number[r] \in Phones
        BY <2>4, GotoType DEF CreateUserWithPhonePassword, TypeOK
      <3> QED BY <2>4, <3>1, NewAccountType DEF CreateUserWithPhonePassword, TypeOK
    <2>5. ASSUME NEW u \in Users, AdminCreateUser(r, u) PROVE TypeOK'
      <3>1. RequestsOK' BY <2>5, ReturnType DEF AdminCreateUser
      <3> QED BY <2>5, <3>1, NewAccountType DEF AdminCreateUser, TypeOK
    <2>6. ASSUME NEW u \in Users, CommitReplyLost(r, u) PROVE TypeOK'
      <3>1. RequestsOK' /\ number[r] \in Phones
        BY <2>6, ReturnType DEF CommitReplyLost, TypeOK
      <3> QED BY <2>6, <3>1, NewAccountType DEF CommitReplyLost, TypeOK
    <2> QED BY <1>1, <2>1, <2>2, <2>3, <2>4, <2>5, <2>6 DEF Register
  <1>2. ASSUME NEW r \in Requests, PatchProfile(r) PROVE TypeOK'
    <2>1. ASSUME NEW u \in Users, NEW p \in Phones, FindOther(r, u, p) PROVE TypeOK'
      <3>1. RequestsOK'
        BY <2>1, StartType, StartClearType DEF FindOther, Holders
      <3> QED BY <1>0, <2>1, <3>1 DEF FindOther
    <2>2. CASE ClearUserPhone(r)
      <3>1. RequestsOK' /\ other[r] \in Users
        BY <2>2, ReturnType, GotoType DEF ClearUserPhone, TypeOK
      <3>2. /\ phone' \in [Users -> Phones \cup {NoPhone}]
            /\ \A v \in Users \ live' : phone'[v] = NoPhone
            /\ late' \subseteq Phones /\ contested' \subseteq Phones
        BY <2>2, <3>1, SetPhoneType DEF ClearUserPhone
      <3> QED BY <2>2, <3>1, <3>2 DEF ClearUserPhone, TypeOK, RequestsOK
    <2>3. CASE PatchUserProfile(r)
      <3>1. RequestsOK' /\ user[r] \in Users /\ number[r] \in Phones
        BY <2>3, ReturnType DEF PatchUserProfile, TypeOK
      <3>2. /\ phone' \in [Users -> Phones \cup {NoPhone}]
            /\ \A v \in Users \ live' : phone'[v] = NoPhone
            /\ late' \subseteq Phones /\ contested' \subseteq Phones
        BY <2>3, <3>1, SetPhoneType DEF PatchUserProfile
      <3> QED BY <2>3, <3>1, <3>2 DEF PatchUserProfile, Given, TypeOK, RequestsOK
    <2> QED BY <1>2, <2>1, <2>2, <2>3 DEF PatchProfile
  <1>3. ASSUME NEW r \in Requests, PasswordReset(r) PROVE TypeOK'
    <2>1. ASSUME NEW p \in Phones, ResetFinds(r, p) PROVE TypeOK'
      <3>1. RequestsOK' BY <2>1, StartType DEF ResetFinds, Holders
      <3> QED BY <1>0, <2>1, <3>1 DEF ResetFinds
    <2>2. CASE SetUserPasswordHash(r)
      <3>1. RequestsOK' BY <2>2, ReturnType DEF SetUserPasswordHash
      <3> QED BY <2>2, <3>1 DEF SetUserPasswordHash, TypeOK, RequestsOK
    <2> QED BY <1>3, <2>1, <2>2 DEF PasswordReset
  <1>4. ASSUME NEW r \in Requests, Delete(r) PROVE TypeOK'
    <2>1. ASSUME NEW u \in Users, Archive(r, u) PROVE TypeOK'
      <3>1. RequestsOK' BY <2>1, StartType DEF Archive
      <3> QED BY <2>1, <3>1 DEF Archive, TypeOK, RequestsOK
    <2>2. CASE Erase(r)
      <3>1. RequestsOK' /\ user[r] \in Users
        BY <2>2, ReturnType DEF Erase, TypeOK
      <3>2. contested' \subseteq Phones
        BY <2>2 DEF Erase, Contest, Concerned, TypeOK
      <3> QED BY <2>2, <3>1, <3>2 DEF Erase, TypeOK, RequestsOK
    <2> QED BY <1>4, <2>1, <2>2 DEF Delete
  <1>5. ASSUME NEW r \in Requests, CallFails(r) PROVE TypeOK'
    <2>1. RequestsOK' BY <1>5, ReturnType DEF CallFails
    <2> QED BY <1>5, <2>1 DEF CallFails, Abandon, TypeOK, RequestsOK
  <1>6. ASSUME NEW u \in Users, NEW p \in Phones, AdminSetUserPhone(u, p) PROVE TypeOK'
    <2>1. contested' \subseteq Phones /\ late' \subseteq Phones
      BY <1>6 DEF AdminSetUserPhone, Concerned, TypeOK
    <2> QED BY <1>6, <2>1 DEF AdminSetUserPhone, Given, TypeOK
  <1>7. ASSUME NEW u \in Users, CreateAccount(u) \/ ChangePassword(u) PROVE TypeOK'
    BY <1>7 DEF CreateAccount, ChangePassword, TypeOK
  <1>8. CASE MigrateHistory
    BY <1>8 DEF MigrateHistory, TypeOK
  <1>9. CASE Crash
    BY <1>9, PhoneAssumption DEF Crash, Abandon, TypeOK, Labels
  <1>10. CASE UNCHANGED vars
    BY <1>10 DEF vars, TypeOK
  <1> QED BY <1>1, <1>2, <1>3, <1>4, <1>5, <1>6, <1>7, <1>8, <1>9, <1>10 DEF Next

\* The variables have their types in every reachable state.
THEOREM TypeCorrect == Spec => []TypeOK
  <1>1. Init => TypeOK
    BY InitIInv DEF IInv
  <1> QED BY <1>1, StepTypeOK, PTL DEF Spec

-----------------------------------------------------------------------------
(***************************************************************************)
(* What was found still holds.                                             *)
(***************************************************************************)
Same(q) == pc'[q] = pc[q] /\ user'[q] = user[q] /\ number'[q] = number[q] /\ other'[q] = other[q]

\* A step of one request leaves the others where they are.
LEMMA OthersStay ==
  ASSUME TypeOK, NEW r \in Requests, Return(r) \/ \E label : Goto(r, label),
         NEW q \in Requests \ {r}
  PROVE  Same(q)
  BY DEF TypeOK, Return, Goto, Same

\* Whoever gets or loses a number, the requests it does not concern find their
\* own where it was.
LEMMA UnconcernedHolds ==
  ASSUME IInv, NEW self \in SUBSET Requests, NEW u \in Users, NEW p,
         phone' = phone \/ phone' = [phone EXCEPT ![u] = p],
         contested \subseteq contested',
         \A q \in Concerned(self, u, {p, phone[u]}) : number[q] \in contested' \cup {NoPhone},
         NEW q \in Requests \ self, Same(q)
  PROVE  number'[q] \in contested' \/ StillHolds(q)'
  <1> SUFFICES ASSUME number[q] \notin contested' PROVE StillHolds(q)'
    BY DEF Same
  <1>1. StillHolds(q)
    BY DEF IInv, FoundStillHolds
  <1>2. CASE q \in Concerned(self, u, {p, phone[u]})
    BY <1>2, PhoneAssumption DEF IInv, TypeOK, StillHolds, Same
  <1>3. CASE pc[q] \in {"insert", "create", "clear", "patch", "reset"}
             /\ number[q] \notin {p, phone[u]} /\ user[q] # u
    <2>1. Holders(number[q])' = Holders(number[q])
      BY <1>3 DEF Holders, IInv, TypeOK, Same
    <2> QED BY <1>1, <2>1 DEF StillHolds, Same
  <1>4. CASE pc[q] \notin {"insert", "create", "clear", "patch", "reset"}
    BY <1>4 DEF StillHolds, Same
  <1> QED BY <1>2, <1>3, <1>4 DEF Concerned

\* So does it for a change of a number by a request that is through with it.
LEMMA SetPhoneHolds ==
  ASSUME IInv, NEW r \in Requests, NEW u \in Users, NEW p, SetPhone({r}, u, p),
         \A q \in Requests \ {r} : Same(q),
         pc'[r] \in {"idle", "record"}
  PROVE  FoundStillHolds'
  <1>1. phone' = phone \/ phone' = [phone EXCEPT ![u] = p]
    BY DEF SetPhone
  <1>2. /\ contested \subseteq contested'
        /\ \A q \in Concerned({r}, u, {p, phone[u]}) : number[q] \in contested' \cup {NoPhone}
    BY DEF SetPhone, Contest
  <1>3. ASSUME NEW q \in Requests \ {r} PROVE number'[q] \in contested' \/ StillHolds(q)'
    BY <1>1, <1>2, UnconcernedHolds
  <1>4. StillHolds(r)'
    BY DEF StillHolds
  <1> QED BY <1>3, <1>4 DEF FoundStillHolds

\* While the holders stay, so does what was found of them.
LEMMA HoldersStay ==
  ASSUME IInv, UNCHANGED <<phone, contested>>,
         \A q \in Requests : Same(q) \/ pc'[q] \in {"idle", "lookup", "record", "erase"}
  PROVE  FoundStillHolds'
  BY DEF IInv, FoundStillHolds, StillHolds, Same, Holders

\* A number given to an account has no other unless it is contested.
LEMMA OneAccount ==
  ASSUME IInv, NEW u \in Users, NEW p \in Phones \cup {NoPhone},
         phone' = phone \/ phone' = [phone EXCEPT ![u] = p], contested \subseteq contested',
         live' \subseteq live \cup {u},
         p \in contested' \cup {NoPhone} \/ Holders(p) \subseteq {u}
  PROVE  PhoneHasOneAccount'
  <1> SUFFICES ASSUME NEW v \in live', NEW w \in live', phone'[v] = phone'[w], v # w,
                      phone'[v] \notin contested' \cup {NoPhone}
               PROVE  FALSE
    BY DEF PhoneHasOneAccount
  <1> USE DEF IInv, TypeOK
  <1>1. CASE phone' = phone
    BY <1>1 DEF PhoneHasOneAccount
  <1>2. CASE phone' = [phone EXCEPT ![u] = p] /\ v # u /\ w # u
    BY <1>2 DEF PhoneHasOneAccount
  <1>3. CASE phone' = [phone EXCEPT ![u] = p] /\ (v = u \/ w = u)
    BY <1>3 DEF Holders
  <1> QED BY <1>1, <1>2, <1>3

\* Both facts together are what a number is about.
Numbers == PhoneHasOneAccount /\ FoundStillHolds

\* A request that found nothing, or the account it takes the number for.
LEMMA StartHolds ==
  ASSUME IInv, NEW r \in Requests, NEW label, NEW u, NEW p, Start(r, label, u, p),
         UNCHANGED <<live, phone, contested>>, \A q \in Requests \ {r} : other'[q] = other[q],
         StillHolds(r)'
  PROVE  Numbers'
  <1>1. \A q \in Requests \ {r} : Same(q)
    BY DEF IInv, TypeOK, Start, Same
  <1>2. \A q \in Requests \ {r} : number'[q] \in contested' \/ StillHolds(q)'
    BY <1>1 DEF IInv, FoundStillHolds, StillHolds, Same, Holders
  <1>3. PhoneHasOneAccount'
    BY DEF IInv, PhoneHasOneAccount
  <1> QED BY <1>2, <1>3 DEF Numbers, FoundStillHolds

\* An account that is created gets a number nobody has.
LEMMA NewAccountHolds ==
  ASSUME IInv, NEW r \in Requests, NEW u \in Users, NEW by, NewAccount(r, u, by),
         pc[r] \in {"insert", "create"}, \A q \in Requests \ {r} : Same(q),
         pc'[r] \in {"idle", "record"}
  PROVE  Numbers'
  <1>1. /\ SetPhone({r}, u, number[r]) /\ live' = live \cup {u} /\ number[r] \in Phones
        /\ phone' = phone \/ phone' = [phone EXCEPT ![u] = number[r]]
        /\ contested \subseteq contested'
    BY DEF NewAccount, SetPhone, Contest, IInv, TypeOK
  <1>2. number[r] \in contested \/ Holders(number[r]) = {}
    BY DEF IInv, FoundStillHolds, StillHolds
  <1>3. PhoneHasOneAccount'
    BY <1>1, <1>2, OneAccount
  <1>4. FoundStillHolds'
    BY <1>1, SetPhoneHolds
  <1> QED BY <1>3, <1>4 DEF Numbers

\* Taking a number leaves it to the request that took it.
LEMMA ClearHolds == ASSUME IInv, NEW r \in Requests, ClearUserPhone(r) PROVE Numbers'
  <1> DEFINE u == other[r]
  <1>1. /\ u \in Users /\ number[r] \in Phones /\ SetPhone({r}, u, NoPhone) /\ live' = live
        /\ phone' = IF u \in live THEN [phone EXCEPT ![u] = NoPhone] ELSE phone
        /\ contested \subseteq contested'
        /\ \A q \in Concerned({r}, u, {NoPhone, phone[u]}) : number[q] \in contested' \cup {NoPhone}
    BY DEF ClearUserPhone, SetPhone, Contest, IInv, TypeOK
  <1>2. \A q \in Requests \ {r} : Same(q)
    BY OthersStay DEF ClearUserPhone, IInv
  <1>3. PhoneHasOneAccount'
    BY <1>1, OneAccount
  <1>4. ASSUME NEW q \in Requests \ {r} PROVE number'[q] \in contested' \/ StillHolds(q)'
    BY <1>1, <1>2, UnconcernedHolds
  <1>5. number'[r] \in contested' \/ StillHolds(r)'
    <2>1. CASE u \in live /\ Goto(r, "patch")
      <3>1. number[r] \in contested \/ Holders(number[r]) \subseteq {u}
        BY DEF IInv, FoundStillHolds, StillHolds, ClearUserPhone
      <3>2. number[r] \in contested \/ Holders(number[r])' = {}
        BY <1>1, <2>1, <3>1, PhoneAssumption DEF Holders, Goto, IInv, TypeOK
      <3> QED BY <1>1, <2>1, <3>2 DEF Goto, StillHolds, IInv, TypeOK
    <2>2. CASE Return(r)
      BY <2>2 DEF Return, StillHolds, IInv, TypeOK
    <2> QED BY <2>1, <2>2 DEF ClearUserPhone
  <1> QED BY <1>3, <1>4, <1>5 DEF Numbers, FoundStillHolds

\* Every step keeps a number's account its only one.
LEMMA StepNumbers == IInv /\ [Next]_vars => Numbers'
  <1> SUFFICES ASSUME IInv, [Next]_vars PROVE Numbers'
    OBVIOUS
  <1>0. ASSUME UNCHANGED <<live, phone, contested>>,
               \A q \in Requests : Same(q) \/ pc'[q] \in {"idle", "lookup", "record", "erase"}
        PROVE  Numbers'
    BY <1>0, HoldersStay DEF Numbers, IInv, PhoneHasOneAccount
  <1>1. ASSUME NEW r \in Requests, Register(r) PROVE Numbers'
    <2>1. ASSUME NEW p \in Phones, RegisterConfirm(r, p) \/ AdminLookup(r, p) PROVE Numbers'
      <3>1. StillHolds(r)'
        BY <2>1 DEF RegisterConfirm, AdminLookup, Start, StillHolds, Holders, NothingWritten,
           IInv, TypeOK
      <3> QED BY <2>1, <3>1, StartHolds DEF RegisterConfirm, AdminLookup, NothingWritten
    <2>2. CASE LookupInTx(r)
      <3>1. \A q \in Requests \ {r} : Same(q)
        BY <2>2, OthersStay DEF LookupInTx, IInv
      <3>2. UNCHANGED <<live, phone, contested>>
        BY <2>2 DEF LookupInTx, NothingWritten
      <3>3. CASE Return(r)
        BY <1>0, <3>1, <3>2, <3>3 DEF Return, IInv, TypeOK
      <3>4. CASE Holders(number[r]) = {} /\ Goto(r, "insert")
        <4>1. StillHolds(r)'
          BY <3>2, <3>4 DEF Goto, StillHolds, Holders, IInv, TypeOK
        <4>2. \A q \in Requests \ {r} : number'[q] \in contested' \/ StillHolds(q)'
          BY <3>1, <3>2 DEF IInv, FoundStillHolds, StillHolds, Same, Holders
        <4> QED BY <3>2, <4>1, <4>2 DEF Numbers, FoundStillHolds, IInv, PhoneHasOneAccount
      <3> QED BY <2>2, <3>3, <3>4 DEF LookupInTx
    <2>3. CASE RecordHistory(r)
      <3>1. \A q \in Requests \ {r} : Same(q)
        BY <2>3, OthersStay DEF RecordHistory, IInv
      <3> QED BY <1>0, <2>3, <3>1 DEF RecordHistory, Return, IInv, TypeOK
    <2>4. ASSUME NEW u \in Users,
                 CreateUserWithPhonePassword(r, u) \/ AdminCreateUser(r, u) \/ CommitReplyLost(r, u)
          PROVE  Numbers'
      <3>1. \A q \in Requests \ {r} : Same(q)
        BY <2>4, OthersStay DEF CreateUserWithPhonePassword, AdminCreateUser, CommitReplyLost, IInv
      <3>2. pc'[r] \in {"idle", "record"}
        BY <2>4 DEF CreateUserWithPhonePassword, AdminCreateUser, CommitReplyLost, Return, Goto,
           IInv, TypeOK
      <3> QED BY <2>4, <3>1, <3>2, NewAccountHolds
              DEF CreateUserWithPhonePassword, AdminCreateUser, CommitReplyLost
    <2> QED BY <1>1, <2>1, <2>2, <2>3, <2>4 DEF Register
  <1>2. ASSUME NEW r \in Requests, PatchProfile(r) PROVE Numbers'
    <2>1. ASSUME NEW u \in Users, NEW p \in Phones, FindOther(r, u, p) PROVE Numbers'
      <3> USE <2>1 DEF FindOther, NothingWritten
      <3>1. CASE /\ Holders(p) = {} \/ u \in Holders(p)
                 /\ Start(r, "patch", u, p) /\ UNCHANGED other
        <4>1. p \in contested \/ Holders(p) \subseteq {u}
          BY <3>1, PhoneAssumption DEF Holders, IInv, TypeOK, PhoneHasOneAccount
        <4>2. CASE Holders(p) \subseteq {u}
          <5>1. StillHolds(r)'
            BY <3>1, <4>2 DEF Start, StillHolds, Holders, IInv, TypeOK
          <5> QED BY <3>1, <5>1, StartHolds
        <4>3. CASE p \in contested
          <5>1. \A q \in Requests \ {r} : Same(q)
            BY <3>1 DEF Start, Same, IInv, TypeOK
          <5>2. number'[r] = p
            BY <3>1 DEF Start, IInv, TypeOK
          <5> QED BY <4>3, <5>1, <5>2 DEF Numbers, IInv, PhoneHasOneAccount, FoundStillHolds,
                  StillHolds, Same, Holders
        <4> QED BY <4>1, <4>2, <4>3
      <3>2. ASSUME NEW v \in Holders(p) \ {u}, Start(r, "clear", u, p),
                   other' = [other EXCEPT ![r] = v]
            PROVE  Numbers'
        <4>1. p \in contested \/ Holders(p) \subseteq {v}
          BY PhoneAssumption DEF Holders, IInv, TypeOK, PhoneHasOneAccount
        <4>2. CASE Holders(p) \subseteq {v}
          <5>1. StillHolds(r)'
            BY <3>2, <4>2 DEF Start, StillHolds, Holders, IInv, TypeOK
          <5> QED BY <3>2, <5>1, StartHolds DEF IInv, TypeOK
        <4>3. CASE p \in contested
          <5>1. \A q \in Requests \ {r} : Same(q)
            BY <3>2 DEF Start, Same, IInv, TypeOK
          <5>2. number'[r] = p
            BY <3>2 DEF Start, IInv, TypeOK
          <5> QED BY <4>3, <5>1, <5>2 DEF Numbers, IInv, PhoneHasOneAccount, FoundStillHolds,
                  StillHolds, Same, Holders
        <4> QED BY <4>1, <4>2, <4>3
      <3> QED BY <3>1, <3>2
    <2>2. CASE PatchUserProfile(r)
      <3>1. /\ \A q \in Requests \ {r} : Same(q)
            /\ pc'[r] = "idle"
        BY <2>2, OthersStay DEF PatchUserProfile, Return, IInv, TypeOK
      <3>2. /\ user[r] \in Users /\ number[r] \in Phones /\ live' = live
            /\ SetPhone({r}, user[r], number[r])
            /\ phone' = phone \/ phone' = [phone EXCEPT ![user[r]] = number[r]]
            /\ contested \subseteq contested'
        BY <2>2 DEF PatchUserProfile, SetPhone, Contest, IInv, TypeOK
      <3>3. number[r] \in contested \/ Holders(number[r]) \subseteq {user[r]}
        BY <2>2 DEF PatchUserProfile, IInv, FoundStillHolds, StillHolds
      <3>4. PhoneHasOneAccount'
        BY <3>2, <3>3, OneAccount
      <3>5. FoundStillHolds'
        BY <3>1, <3>2, SetPhoneHolds
      <3> QED BY <3>4, <3>5 DEF Numbers
    <2> QED BY <1>2, <2>1, <2>2, ClearHolds DEF PatchProfile
  <1>3. ASSUME NEW r \in Requests, PasswordReset(r) PROVE Numbers'
    <2>1. ASSUME NEW p \in Phones, ResetFinds(r, p) PROVE Numbers'
      <3>1. PICK u \in Holders(p) : Start(r, "reset", u, p)
        BY <2>1 DEF ResetFinds
      <3>2. StillHolds(r)'
        BY <2>1, <3>1 DEF ResetFinds, NothingWritten, Start, StillHolds, Holders, IInv, TypeOK
      <3> QED BY <2>1, <3>1, <3>2, StartHolds DEF ResetFinds, NothingWritten
    <2>2. CASE SetUserPasswordHash(r)
      <3>1. \A q \in Requests \ {r} : Same(q)
        BY <2>2, OthersStay DEF SetUserPasswordHash, IInv
      <3> QED BY <1>0, <2>2, <3>1 DEF SetUserPasswordHash, Return, IInv, TypeOK
    <2> QED BY <1>3, <2>1, <2>2 DEF PasswordReset
  <1>4. ASSUME NEW r \in Requests, Delete(r) PROVE Numbers'
    <2>1. ASSUME NEW u \in Users, Archive(r, u) PROVE Numbers'
      <3>1. StillHolds(r)'
        BY <2>1 DEF Archive, Start, StillHolds, IInv, TypeOK
      <3> QED BY <2>1, <3>1, StartHolds DEF Archive
    <2>2. CASE Erase(r)
      <3> DEFINE u == user[r]
      <3>1. /\ \A q \in Requests \ {r} : Same(q)
            /\ pc'[r] = "idle"
        BY <2>2, OthersStay DEF Erase, Return, IInv, TypeOK
      <3>2. /\ u \in Users /\ live' = live \ {u}
            /\ phone' = [phone EXCEPT ![u] = NoPhone]
            /\ contested \subseteq contested'
            /\ \A q \in Concerned({r}, u, {phone[u]}) : number[q] \in contested' \cup {NoPhone}
        BY <2>2 DEF Erase, Contest, IInv, TypeOK
      <3>3. PhoneHasOneAccount'
        BY <3>2, OneAccount
      <3>4. \A q \in Concerned({r}, u, {NoPhone, phone[u]}) : number[q] \in contested' \cup {NoPhone}
        BY <3>2 DEF Concerned
      <3>5. ASSUME NEW q \in Requests \ {r} PROVE number'[q] \in contested' \/ StillHolds(q)'
        BY <3>1, <3>2, <3>4, UnconcernedHolds
      <3>6. StillHolds(r)'
        BY <3>1 DEF StillHolds
      <3> QED BY <3>3, <3>5, <3>6 DEF Numbers, FoundStillHolds
    <2> QED BY <1>4, <2>1, <2>2 DEF Delete
  <1>5. ASSUME NEW r \in Requests, CallFails(r) PROVE Numbers'
    <2>1. \A q \in Requests \ {r} : Same(q)
      BY <1>5, OthersStay DEF CallFails, IInv
    <2> QED BY <1>0, <1>5, <2>1 DEF CallFails, Abandon, Return, IInv, TypeOK
  <1>6. ASSUME NEW u \in Users, NEW p \in Phones, AdminSetUserPhone(u, p) PROVE Numbers'
    <2>1. /\ phone' = [phone EXCEPT ![u] = p] /\ live' = live /\ p \in contested'
          /\ contested \subseteq contested'
          /\ \A q \in Concerned({}, u, {p, phone[u]}) : number[q] \in contested' \cup {NoPhone}
      BY <1>6 DEF AdminSetUserPhone
    <2>2. \A q \in Requests : Same(q)
      BY <1>6 DEF AdminSetUserPhone, Same
    <2>3. PhoneHasOneAccount'
      BY <2>1, OneAccount
    <2>4. ASSUME NEW q \in Requests PROVE number'[q] \in contested' \/ StillHolds(q)'
      <3>1. {} \in SUBSET Requests /\ q \in Requests \ {} /\ Same(q)
        BY <2>2
      <3> QED BY <2>1, <3>1, UnconcernedHolds
    <2> QED BY <2>3, <2>4 DEF Numbers, FoundStillHolds
  <1>7. ASSUME NEW u \in Users, CreateAccount(u) PROVE Numbers'
    <2>1. PhoneHasOneAccount'
      BY <1>7 DEF CreateAccount, IInv, TypeOK, PhoneHasOneAccount
    <2> QED BY <1>7, <2>1, HoldersStay DEF CreateAccount, Same, Numbers
  <1>8. CASE \/ \E u \in Users : ChangePassword(u)
             \/ MigrateHistory \/ Crash \/ UNCHANGED vars
    BY <1>0, <1>8 DEF ChangePassword, MigrateHistory, Crash, Abandon, vars, Same
  <1> QED BY <1>1, <1>2, <1>3, <1>4, <1>5, <1>6, <1>7, <1>8 DEF Next

-----------------------------------------------------------------------------
(***************************************************************************)
(* The number of a deleted account is remembered.                          *)
(***************************************************************************)
Remembered == GoneIsRemembered /\ ErasedWhenArchived /\ AskedWhenNew

\* No request gets past the history, or past the archive.
NoneGetsPast ==
  \A q \in Requests :
    /\ pc'[q] \in {"lookup", "insert"} => pc[q] \in {"lookup", "insert"} /\ number'[q] = number[q]
    /\ pc'[q] = "erase" => pc[q] = "erase" /\ user'[q] = user[q]

\* Only a request that starts gets past either.
LEMMA ReturnGetsNotPast == ASSUME TypeOK, NEW r \in Requests, Return(r) PROVE NoneGetsPast
  BY DEF TypeOK, Return, NoneGetsPast

LEMMA GotoGetsNotPast ==
  ASSUME TypeOK, NEW r \in Requests, NEW label, Goto(r, label),
         label \in {"record", "patch"} \/ (label = "insert" /\ pc[r] = "lookup")
  PROVE  NoneGetsPast
  BY DEF TypeOK, Goto, NoneGetsPast

LEMMA StartGetsNotPast ==
  ASSUME TypeOK, NEW r \in Requests, NEW label \in {"create", "clear", "patch", "reset"},
         NEW u, NEW p, Start(r, label, u, p)
  PROVE  NoneGetsPast
  BY DEF TypeOK, Start, NoneGetsPast

\* While the numbers stay, the history only grows.
LEMMA NumbersStay ==
  ASSUME IInv, NoneGetsPast, UNCHANGED <<phone, gone>>,
         history \subseteq history', late \subseteq late', contested \subseteq contested'
  PROVE  Remembered'
  BY DEF IInv, GoneIsRemembered, AskedWhenNew, ErasedWhenArchived, Remembered, NoneGetsPast

\* A number that comes to a doomed account is late.
LEMMA NumberSet ==
  ASSUME IInv, NoneGetsPast, NEW self, NEW u \in Users, NEW p \in Phones \cup {NoPhone},
         SetPhone(self, u, p), UNCHANGED <<history, gone>>
  PROVE  Remembered'
  <1>1. /\ phone' = phone \/ phone' = [phone EXCEPT ![u] = p]
        /\ late' = IF Doomed(u) THEN late \cup ({p} \ (history \cup {NoPhone})) ELSE late
        /\ contested \subseteq contested'
    BY DEF SetPhone, Contest
  <1>2. GoneIsRemembered' /\ AskedWhenNew'
    BY <1>1 DEF IInv, GoneIsRemembered, AskedWhenNew, NoneGetsPast
  <1>3. ErasedWhenArchived'
    <2> SUFFICES ASSUME NEW q \in Requests, pc'[q] = "erase"
                 PROVE  phone'[user'[q]] \in history' \cup late' \cup {NoPhone}
      BY DEF ErasedWhenArchived
    <2>1. pc[q] = "erase" /\ user'[q] = user[q] /\ user[q] \in Users
      BY DEF NoneGetsPast, IInv, TypeOK
    <2>2. CASE user[q] = u /\ phone' = [phone EXCEPT ![u] = p]
      <3>1. Doomed(u) BY <2>1, <2>2 DEF Doomed
      <3>2. phone'[user'[q]] = p BY <2>1, <2>2 DEF IInv, TypeOK
      <3> QED BY <1>1, <3>1, <3>2
    <2>3. CASE user[q] # u \/ phone' = phone
      BY <1>1, <2>1, <2>3 DEF IInv, TypeOK, ErasedWhenArchived
    <2> QED BY <1>1, <2>2, <2>3
  <1> QED BY <1>2, <1>3 DEF Remembered

\* A registration gets past the history with a number that is not in it.
LEMMA RegisterAsks ==
  ASSUME IInv, NEW r \in Requests, NEW p \in Phones, RegisterConfirm(r, p) PROVE Remembered'
  BY DEF IInv, TypeOK, RegisterConfirm, Start, NothingWritten, GoneIsRemembered, AskedWhenNew,
     ErasedWhenArchived, Remembered

\* A deletion begins with its number in the history.
LEMMA ArchiveRemembers ==
  ASSUME IInv, NEW r \in Requests, NEW u \in Users, Archive(r, u) PROVE Remembered'
  <1>1. phone[u] \in history' \cup {NoPhone} /\ history \subseteq history'
    BY DEF Archive
  <1> QED BY <1>1 DEF IInv, TypeOK, Archive, Start, GoneIsRemembered, AskedWhenNew,
          ErasedWhenArchived, Remembered

\* And contests the registrations that asked for it before.
LEMMA EraseRemembers == ASSUME IInv, NEW r \in Requests, Erase(r) PROVE Remembered'
  <1> DEFINE u == user[r]
  <1>1. /\ u \in Users /\ pc[r] = "erase" /\ NoneGetsPast
        /\ phone' = [phone EXCEPT ![u] = NoPhone]
        /\ gone' = gone \cup ({phone[u]} \ {NoPhone})
        /\ contested' = contested \cup ({number[q] : q \in Concerned({r}, u, {phone[u]})} \ {NoPhone})
        /\ UNCHANGED <<history, late>>
    BY ReturnGetsNotPast DEF IInv, TypeOK, Erase, Contest
  <1>2. phone[u] \in history \cup late \cup {NoPhone}
    BY <1>1 DEF IInv, ErasedWhenArchived
  <1>3. GoneIsRemembered'
    BY <1>1, <1>2 DEF IInv, GoneIsRemembered
  <1>4. AskedWhenNew'
    <2> SUFFICES ASSUME NEW q \in Requests, pc'[q] \in {"lookup", "insert"}, number'[q] \in gone'
                 PROVE  number'[q] \in late' \cup contested'
      BY DEF AskedWhenNew
    <2>1. pc[q] \in {"lookup", "insert"} /\ number'[q] = number[q] /\ q # r
      BY <1>1 DEF NoneGetsPast
    <2>2. CASE number[q] \in gone
      BY <1>1, <2>1, <2>2 DEF IInv, AskedWhenNew
    <2>3. CASE number[q] = phone[u] /\ number[q] # NoPhone
      <3>1. q \in Concerned({r}, u, {phone[u]})
        BY <2>1, <2>3 DEF Concerned
      <3> QED BY <1>1, <2>1, <2>3, <3>1
    <2> QED BY <1>1, <2>1, <2>2, <2>3
  <1>5. ErasedWhenArchived'
    BY <1>1 DEF IInv, TypeOK, NoneGetsPast, ErasedWhenArchived
  <1> QED BY <1>3, <1>4, <1>5 DEF Remembered

\* Every step keeps the numbers that are gone remembered.
LEMMA StepRemembered == IInv /\ [Next]_vars => Remembered'
  <1> SUFFICES ASSUME IInv, [Next]_vars PROVE Remembered'
    OBVIOUS
  <1>1. ASSUME NEW r \in Requests, Register(r) PROVE Remembered'
    <2>1. ASSUME NEW p \in Phones, AdminLookup(r, p) PROVE Remembered'
      BY <2>1, StartGetsNotPast, NumbersStay DEF AdminLookup, NothingWritten, IInv
    <2>2. CASE LookupInTx(r)
      BY <2>2, ReturnGetsNotPast, GotoGetsNotPast, NumbersStay
         DEF LookupInTx, NothingWritten, IInv
    <2>3. CASE RecordHistory(r)
      BY <2>3, ReturnGetsNotPast, NumbersStay DEF RecordHistory, IInv
    <2>4. ASSUME NEW u \in Users,
                 CreateUserWithPhonePassword(r, u) \/ AdminCreateUser(r, u) \/ CommitReplyLost(r, u)
          PROVE  Remembered'
      <3>0. TypeOK BY DEF IInv
      <3>1. number[r] \in Phones
        BY <2>4, <3>0 DEF CreateUserWithPhonePassword, AdminCreateUser, CommitReplyLost, TypeOK
      <3>3. Return(r) \/ Goto(r, "record")
        BY <2>4 DEF CreateUserWithPhonePassword, AdminCreateUser, CommitReplyLost
      <3>4. NoneGetsPast
        BY <3>0, <3>3, ReturnGetsNotPast, GotoGetsNotPast
      <3>2. SetPhone({r}, u, number[r]) /\ UNCHANGED <<history, gone>>
        BY <2>4 DEF CreateUserWithPhonePassword, AdminCreateUser, CommitReplyLost, NewAccount
      <3> QED BY <3>1, <3>2, <3>4, NumberSet
    <2> QED BY <1>1, <2>1, <2>2, <2>3, <2>4, RegisterAsks DEF Register
  <1>2. ASSUME NEW r \in Requests, PatchProfile(r) PROVE Remembered'
    <2>1. ASSUME NEW u \in Users, NEW p \in Phones, FindOther(r, u, p) PROVE Remembered'
      BY <2>1, StartGetsNotPast, NumbersStay DEF FindOther, NothingWritten, IInv
    <2>2. CASE ClearUserPhone(r)
      <3>1. TypeOK /\ other[r] \in Users
        BY <2>2 DEF ClearUserPhone, IInv, TypeOK
      <3>2. Return(r) \/ Goto(r, "patch")
        BY <2>2 DEF ClearUserPhone
      <3>3. NoneGetsPast
        BY <3>1, <3>2, ReturnGetsNotPast, GotoGetsNotPast
      <3> QED BY <2>2, <3>1, <3>3, NumberSet DEF ClearUserPhone
    <2>3. CASE PatchUserProfile(r)
      <3>1. NoneGetsPast /\ user[r] \in Users /\ number[r] \in Phones
        BY <2>3, ReturnGetsNotPast DEF PatchUserProfile, IInv, TypeOK
      <3> QED BY <2>3, <3>1, NumberSet DEF PatchUserProfile
    <2> QED BY <1>2, <2>1, <2>2, <2>3 DEF PatchProfile
  <1>3. ASSUME NEW r \in Requests, PasswordReset(r) PROVE Remembered'
    <2>1. NoneGetsPast
      BY <1>3, StartGetsNotPast, ReturnGetsNotPast
         DEF PasswordReset, ResetFinds, SetUserPasswordHash, IInv
    <2> QED BY <1>3, <2>1, NumbersStay
            DEF PasswordReset, ResetFinds, SetUserPasswordHash, NothingWritten
  <1>4. ASSUME NEW r \in Requests, CallFails(r) PROVE Remembered'
    BY <1>4, ReturnGetsNotPast, NumbersStay DEF CallFails, Abandon, IInv
  <1>5. ASSUME NEW u \in Users, NEW p \in Phones, AdminSetUserPhone(u, p) PROVE Remembered'
    <2>1. /\ phone' = [phone EXCEPT ![u] = p] /\ UNCHANGED <<history, gone, pc, user, number>>
          /\ late' = IF Doomed(u) THEN late \cup ({p} \ history) ELSE late
          /\ contested \subseteq contested'
      BY <1>5 DEF AdminSetUserPhone
    <2>2. ErasedWhenArchived'
      BY <2>1 DEF IInv, TypeOK, ErasedWhenArchived, Doomed
    <2> QED BY <2>1, <2>2 DEF IInv, GoneIsRemembered, AskedWhenNew, Remembered
  <1>6. CASE \/ \E u \in Users : CreateAccount(u) \/ ChangePassword(u)
             \/ MigrateHistory \/ Crash \/ UNCHANGED vars
    <2>1. UNCHANGED <<phone, gone, late, contested>> /\ history \subseteq history'
      BY <1>6 DEF CreateAccount, ChangePassword, MigrateHistory, Crash, Abandon, vars
    <2>2. NoneGetsPast
      BY <1>6 DEF CreateAccount, ChangePassword, MigrateHistory, Crash, vars, NoneGetsPast
    <2> QED BY <2>1, <2>2, NumbersStay
  <1> QED BY <1>1, <1>2, <1>3, <1>4, <1>5, <1>6, ArchiveRemembers, EraseRemembers DEF Next, Delete

-----------------------------------------------------------------------------
(***************************************************************************)
(* What becomes of a number that was taken.                                *)
(***************************************************************************)
Rebinding == RebindingStillHolds /\ TakenIsAccounted

\* A step that takes no number, ends no account and drops no number that is
\* owed.
LEMMA RebindingGoesOn ==
  ASSUME IInv, contested \subseteq contested', live \subseteq live',
         taken' \subseteq taken, abandoned \cap taken' \subseteq abandoned',
         \A q \in Requests :
           \/ Same(q)
           \/ /\ (pc[q] = "patch" /\ number[q] \in taken') =>
                   number[q] \in abandoned' \cup contested'
              /\ pc'[q] \in {"clear", "patch"} => user'[q] \in live'
  PROVE  Rebinding'
  <1>1. RebindingStillHolds'
    BY DEF IInv, RebindingStillHolds, Same
  <1>2. ASSUME NEW p \in taken' PROVE InHands(p)' \/ p \in abandoned' \cup contested'
    <2>1. CASE p \in abandoned \cup contested
      BY <1>2, <2>1
    <2>2. ASSUME NEW q \in Requests, pc[q] = "patch", number[q] = p
          PROVE  InHands(p)' \/ p \in abandoned' \cup contested'
      BY <1>2, <2>2 DEF Same, InHands
    <2> QED BY <1>2, <2>1, <2>2 DEF IInv, TakenIsAccounted, InHands
  <1> QED BY <1>1, <1>2 DEF Rebinding, TakenIsAccounted

\* A number is taken by a request that goes on to bind it, or given up.
LEMMA ClearRebinding ==
  ASSUME IInv, NEW r \in Requests, ClearUserPhone(r) PROVE Rebinding'
  <1> DEFINE lost == {phone[other[r]]} \ {NoPhone}
  <1>1. /\ pc[r] = "clear" /\ live' = live /\ contested \subseteq contested'
        /\ taken' = taken \cup lost /\ abandoned \subseteq abandoned'
        /\ other[r] \in Users
        /\ Return(r) \/ Goto(r, "patch")
    BY DEF ClearUserPhone, SetPhone, Contest, IInv, TypeOK
  <1>2. \A q \in Requests \ {r} : Same(q)
    BY <1>1, OthersStay DEF IInv
  <1>3. pc'[r] = "idle" \/ (pc'[r] = "patch" /\ user'[r] = user[r] /\ number'[r] = number[r])
    BY <1>1 DEF Return, Goto, IInv, TypeOK
  <1>4. RebindingStillHolds'
    BY <1>1, <1>2, <1>3 DEF IInv, RebindingStillHolds, Same
  <1>5. ASSUME NEW p \in taken PROVE InHands(p)' \/ p \in abandoned' \cup contested'
    <2>1. p \in abandoned \cup contested \/ \E q \in Requests \ {r} : pc[q] = "patch" /\ number[q] = p
      BY <1>1, <1>5 DEF IInv, TakenIsAccounted, InHands
    <2> QED BY <1>1, <1>2, <2>1 DEF InHands, Same
  <1>6. ASSUME NEW p \in lost PROVE InHands(p)' \/ p \in abandoned' \cup contested'
    <2>1. other[r] \in live
      BY <1>1, <1>6 DEF IInv, TypeOK
    <2>2. CASE Goto(r, "patch") /\ abandoned' = abandoned \cup (lost \ {number[r]})
      <3>1. pc'[r] = "patch" /\ number'[r] = number[r]
        BY <2>2 DEF Goto, IInv, TypeOK
      <3> QED BY <1>6, <2>2, <3>1 DEF InHands
    <2>3. CASE abandoned' = abandoned \cup lost
      BY <1>6, <2>3
    <2> QED BY <2>1, <2>2, <2>3 DEF ClearUserPhone
  <1>7. TakenIsAccounted'
    <2> HIDE DEF lost
    <2> QED BY <1>1, <1>5, <1>6 DEF TakenIsAccounted
  <1> QED BY <1>4, <1>7 DEF Rebinding

\* Binding it gives it, unless the account is gone by then.
LEMMA PatchRebinding ==
  ASSUME IInv, NEW r \in Requests, PatchUserProfile(r) PROVE Rebinding'
  <1>1. /\ pc[r] = "patch" /\ live' = live /\ contested \subseteq contested'
        /\ pc'[r] = "idle"
    BY DEF PatchUserProfile, Return, SetPhone, Contest, IInv, TypeOK
  <1>2. \A q \in Requests \ {r} : Same(q)
    BY OthersStay DEF PatchUserProfile, IInv
  <1>3. CASE user[r] \in live
    <2>1. taken' = taken \ {number[r]} /\ abandoned' = abandoned \ {number[r]}
      BY <1>3 DEF PatchUserProfile, Given
    <2> QED BY <1>1, <1>2, <2>1, RebindingGoesOn
  <1>4. CASE user[r] \notin live
    <2>1. taken' = taken /\ abandoned' = abandoned
      BY <1>4 DEF PatchUserProfile
    <2>2. number[r] \in contested
      BY <1>1, <1>4 DEF IInv, RebindingStillHolds
    <2> QED BY <1>1, <1>2, <2>1, <2>2, RebindingGoesOn
  <1> QED BY <1>3, <1>4

\* Deleting an account contests every rebinding that is for it.
LEMMA EraseRebinding == ASSUME IInv, NEW r \in Requests, Erase(r) PROVE Rebinding'
  <1> DEFINE u == user[r]
  <1>1. /\ pc[r] = "erase" /\ pc'[r] = "idle" /\ live' = live \ {u}
        /\ taken' = taken /\ abandoned' = abandoned /\ contested \subseteq contested'
        /\ Contest({r}, u, {phone[u]})
    BY DEF Erase, Return, Contest, IInv, TypeOK
  <1>2. \A q \in Requests \ {r} : Same(q)
    BY OthersStay DEF Erase, IInv
  <1>3. ASSUME NEW q \in Requests \ {r}, pc[q] \in {"clear", "patch"}, user[q] = u
        PROVE  number[q] \in contested'
    <2>1. number[q] \in Phones /\ number[q] # NoPhone
      BY <1>3, PhoneAssumption DEF IInv, TypeOK
    <2>2. q \in Concerned({r}, u, {phone[u]})
      BY <1>3 DEF Concerned
    <2> QED BY <1>1, <2>1, <2>2 DEF Contest
  <1>4. RebindingStillHolds'
    <2> SUFFICES ASSUME NEW q \in Requests, pc'[q] \in {"clear", "patch"}
                 PROVE  user'[q] \in live' \/ number'[q] \in contested'
      BY DEF RebindingStillHolds
    <2>1. q # r /\ Same(q)
      BY <1>1, <1>2
    <2> QED BY <1>1, <1>3, <2>1 DEF IInv, RebindingStillHolds, Same
  <1>5. TakenIsAccounted'
    BY <1>1, <1>2 DEF IInv, TakenIsAccounted, InHands, Same
  <1> QED BY <1>4, <1>5 DEF Rebinding

\* Every step keeps the rebindings.
LEMMA StepRebinding == IInv /\ [Next]_vars => Rebinding'
  <1> SUFFICES ASSUME IInv, [Next]_vars PROVE Rebinding'
    OBVIOUS
  <1>0. TypeOK
    BY DEF IInv
  <1>1. ASSUME NEW r \in Requests, NEW label \in Labels \ {"clear", "patch"},
               NEW u, NEW p, Start(r, label, u, p),
               UNCHANGED <<live, taken, abandoned, contested, other>>
        PROVE  Rebinding'
    <2>1. \A q \in Requests : Same(q) \/ (pc[q] = "idle" /\ pc'[q] \notin {"clear", "patch"})
      BY <1>0, <1>1 DEF Start, TypeOK, Same
    <2> QED BY <1>1, <2>1, RebindingGoesOn
  <1>2. ASSUME NEW r \in Requests, pc[r] # "patch", live \subseteq live', contested \subseteq contested',
               taken' \subseteq taken, abandoned \cap taken' \subseteq abandoned',
               Return(r) \/ Goto(r, "insert") \/ Goto(r, "record")
        PROVE  Rebinding'
    <2>1. \A q \in Requests : Same(q) \/ (pc[q] # "patch" /\ pc'[q] \notin {"clear", "patch"})
      BY <1>0, <1>2, OthersStay DEF Return, Goto, TypeOK
    <2> QED BY <1>2, <2>1, RebindingGoesOn
  <1>3. ASSUME UNCHANGED requests, live \subseteq live', contested \subseteq contested',
               taken' \subseteq taken, abandoned \cap taken' \subseteq abandoned'
        PROVE  Rebinding'
    BY <1>3, RebindingGoesOn DEF Same
  <1>5. ASSUME NEW r \in Requests, Register(r) PROVE Rebinding'
    <2>1. ASSUME NEW p \in Phones, RegisterConfirm(r, p) \/ AdminLookup(r, p) PROVE Rebinding'
      BY <1>1, <2>1 DEF RegisterConfirm, AdminLookup, NothingWritten, Labels
    <2>2. CASE LookupInTx(r) \/ RecordHistory(r)
      BY <1>2, <2>2 DEF LookupInTx, RecordHistory, NothingWritten
    <2>3. ASSUME NEW u \in Users,
                 CreateUserWithPhonePassword(r, u) \/ AdminCreateUser(r, u) \/ CommitReplyLost(r, u)
          PROVE  Rebinding'
      <3>1. /\ Return(r) \/ Goto(r, "record")
            /\ pc[r] \in {"insert", "create"}
            /\ NewAccount(r, u, number[r]) \/ NewAccount(r, u, NoPhone)
        BY <2>3 DEF CreateUserWithPhonePassword, AdminCreateUser, CommitReplyLost
      <3>2. /\ live \subseteq live' /\ contested \subseteq contested'
            /\ taken' \subseteq taken /\ abandoned \cap taken' \subseteq abandoned'
        BY <3>1 DEF NewAccount, SetPhone, Contest, Given
      <3> QED BY <1>2, <3>1, <3>2
    <2> QED BY <1>5, <2>1, <2>2, <2>3 DEF Register
  <1>6. ASSUME NEW r \in Requests, PatchProfile(r) PROVE Rebinding'
    <2>1. ASSUME NEW u \in Users, NEW p \in Phones, FindOther(r, u, p) PROVE Rebinding'
      <3>1. /\ u \in live /\ UNCHANGED <<live, taken, abandoned, contested>>
            /\ \/ Start(r, "patch", u, p) /\ other' = other
               \/ \E v \in Holders(p) : Start(r, "clear", u, p) /\ other' = [other EXCEPT ![r] = v]
        BY <2>1 DEF FindOther, NothingWritten
      <3>2. \A q \in Requests \ {r} : Same(q)
        BY <1>0, <3>1 DEF Start, TypeOK, Same
      <3>3. pc[r] # "patch" /\ user'[r] \in live'
        BY <1>0, <3>1 DEF Start, TypeOK
      <3> QED BY <3>1, <3>2, <3>3, RebindingGoesOn
    <2> QED BY <1>6, <2>1, ClearRebinding, PatchRebinding DEF PatchProfile
  <1>7. ASSUME NEW r \in Requests, PasswordReset(r) PROVE Rebinding'
    <2>1. ASSUME NEW p \in Phones, ResetFinds(r, p) PROVE Rebinding'
      BY <1>1, <2>1 DEF ResetFinds, NothingWritten, Labels
    <2>2. CASE SetUserPasswordHash(r)
      BY <1>2, <2>2 DEF SetUserPasswordHash
    <2> QED BY <1>7, <2>1, <2>2 DEF PasswordReset
  <1>8. ASSUME NEW r \in Requests, Delete(r) PROVE Rebinding'
    <2>1. ASSUME NEW u \in Users, Archive(r, u) PROVE Rebinding'
      BY <1>1, <2>1 DEF Archive, Labels
    <2> QED BY <1>8, <2>1, EraseRebinding DEF Delete
  <1>9. ASSUME NEW ended \in SUBSET Requests, Abandon(ended), live' = live,
               \A q \in Requests : Same(q) \/ (q \in ended /\ pc'[q] = "idle")
        PROVE  Rebinding'
    <2>1. /\ taken' = taken /\ contested' = contested /\ abandoned \subseteq abandoned'
          /\ \A q \in ended : (pc[q] = "patch" /\ number[q] \in taken) => number[q] \in abandoned'
      BY <1>9 DEF Abandon
    <2> QED BY <1>9, <2>1, RebindingGoesOn
  <1>10. ASSUME NEW r \in Requests, CallFails(r) PROVE Rebinding'
    <2>1. Abandon({r}) /\ live' = live /\ Return(r)
      BY <1>10 DEF CallFails
    <2>2. \A q \in Requests : Same(q) \/ (q \in {r} /\ pc'[q] = "idle")
      BY <1>0, <2>1, OthersStay DEF Return, TypeOK
    <2> QED BY <1>9, <2>1, <2>2
  <1>11. CASE Crash
    BY <1>9, <1>11 DEF Crash
  <1>12. ASSUME NEW u \in Users, NEW p \in Phones, AdminSetUserPhone(u, p) PROVE Rebinding'
    BY <1>3, <1>12 DEF AdminSetUserPhone, Given
  <1>13. CASE \/ \E u \in Users : CreateAccount(u) \/ ChangePassword(u)
              \/ MigrateHistory \/ UNCHANGED vars
    BY <1>3, <1>13 DEF CreateAccount, ChangePassword, MigrateHistory, vars
  <1> QED BY <1>5, <1>6, <1>7, <1>8, <1>10, <1>11, <1>12, <1>13 DEF Next

-----------------------------------------------------------------------------
(***************************************************************************)
(* What users of the numbers may rely on.                                  *)
(***************************************************************************)
LEMMA StepIInv == IInv /\ [Next]_vars => IInv'
  BY StepTypeOK, StepNumbers, StepRemembered, StepRebinding DEF IInv, Numbers, Remembered, Rebinding

\* A number has one account unless it is contested.
THEOREM PhoneHasOneAccountAlways == Spec => []PhoneHasOneAccount
  <1>1. IInv => PhoneHasOneAccount
    BY DEF IInv
  <1> QED BY InitIInv, StepIInv, <1>1, PTL DEF Spec

\* A number taken from an account is in the hands of a request that is about to
\* bind it, unless its own rebinding gave it up or somebody changed whose it is.
THEOREM TakenIsAccountedAlways == Spec => []TakenIsAccounted
  <1>1. IInv => TakenIsAccounted
    BY DEF IInv
  <1> QED BY InitIInv, StepIInv, <1>1, PTL DEF Spec

\* The number of a deleted account does not register again.
THEOREM NumberRegistersOnce == Spec => DeletedStaysOut
  <1> DEFINE Step == \A u \in live' \ live :
                       \/ phone'[u] \notin gone \/ setBy'[u] = NoPhone
                       \/ phone'[u] \in late \cup contested'
  <1>1. IInv /\ [Next]_vars => [Step]_vars
    <2> SUFFICES ASSUME IInv, Next, NEW u \in live' \ live, phone'[u] \in gone, setBy'[u] # NoPhone
                 PROVE  phone'[u] \in late \cup contested'
      OBVIOUS
    <2>1. ASSUME NEW r \in Requests, NEW v \in Users, NewAccount(r, v, number[r]), pc[r] = "insert"
          PROVE  phone'[u] \in late \cup contested'
      <3>1. u = v /\ phone'[u] = number[r] /\ contested \subseteq contested'
        BY <2>1 DEF NewAccount, SetPhone, Contest, IInv, TypeOK
      <3> QED BY <2>1, <3>1 DEF IInv, AskedWhenNew
    <2>2. ASSUME NEW r \in Requests, NEW v \in Users, AdminCreateUser(r, v) PROVE FALSE
      <3>1. u = v BY <2>2 DEF AdminCreateUser, NewAccount, IInv, TypeOK
      <3> QED BY <2>2, <3>1 DEF AdminCreateUser, NewAccount, IInv, TypeOK
    <2>3. ASSUME NEW v \in Users, CreateAccount(v) PROVE FALSE
      <3>1. phone'[u] = NoPhone
        BY <2>3 DEF CreateAccount, IInv, TypeOK
      <3> QED BY <3>1, PhoneAssumption DEF IInv, TypeOK
    <2>4. CASE live' \subseteq live
      BY <2>4
    <2>5. \/ live' \subseteq live
          \/ \E r \in Requests, v \in Users :
               AdminCreateUser(r, v) \/ (NewAccount(r, v, number[r]) /\ pc[r] = "insert")
          \/ \E v \in Users : CreateAccount(v)
      BY DEF Next, Register, RegisterConfirm, AdminLookup, LookupInTx, RecordHistory,
         CreateUserWithPhonePassword, CommitReplyLost, PatchProfile, FindOther, ClearUserPhone,
         PatchUserProfile, PasswordReset, ResetFinds, SetUserPasswordHash, Delete, Archive, Erase,
         CallFails, ChangePassword, AdminSetUserPhone, MigrateHistory, Crash, NothingWritten
    <2> QED BY <2>1, <2>2, <2>3, <2>4, <2>5
  <1> QED BY InitIInv, StepIInv, <1>1, PTL DEF Spec, DeletedStaysOut

\* A text message sets the password of the account that has the number.
THEOREM PasswordIsOfHolder == Spec => PasswordReachesHolder
  <1> DEFINE Step == \A u \in Users :
                       setBy'[u] # setBy[u] => setBy'[u] \in {NoPhone, phone'[u]} \cup contested
  <1>1. IInv /\ [Next]_vars => [Step]_vars
    <2> SUFFICES ASSUME IInv, Next, NEW u \in Users, setBy'[u] # setBy[u], setBy'[u] # NoPhone
                 PROVE  setBy'[u] = phone'[u] \/ setBy'[u] \in contested
      OBVIOUS
    <2>1. ASSUME NEW r \in Requests, NEW v \in Users, NewAccount(r, v, number[r])
          PROVE  setBy'[u] = phone'[u]
      BY <2>1 DEF NewAccount, SetPhone, IInv, TypeOK
    <2>2. ASSUME NEW r \in Requests, SetUserPasswordHash(r)
          PROVE  setBy'[u] = phone'[u] \/ setBy'[u] \in contested
      <3>1. u = user[r] /\ setBy'[u] = number[r] /\ phone' = phone
        BY <2>2 DEF SetUserPasswordHash, IInv, TypeOK
      <3>2. number[r] \in contested \/ phone[u] = number[r]
        BY <2>2, <3>1 DEF SetUserPasswordHash, IInv, FoundStillHolds, StillHolds, Holders
      <3> QED BY <3>1, <3>2
    <2>3. CASE setBy'[u] \in {setBy[u], NoPhone}
      BY <2>3
    <2>4. ASSUME NEW v \in Users, ChangePassword(v) PROVE setBy'[u] \in {setBy[u], NoPhone}
      BY <2>4 DEF ChangePassword, IInv, TypeOK
    <2>5. ASSUME NEW r \in Requests, Erase(r) PROVE setBy'[u] \in {setBy[u], NoPhone}
      BY <2>5 DEF Erase, IInv, TypeOK
    <2>6. ASSUME NEW r \in Requests, NEW v \in Users, AdminCreateUser(r, v)
          PROVE  setBy'[u] \in {setBy[u], NoPhone}
      BY <2>6 DEF AdminCreateUser, NewAccount, IInv, TypeOK
    <2>7. \/ setBy' = setBy
          \/ \E r \in Requests, v \in Users : NewAccount(r, v, number[r]) \/ AdminCreateUser(r, v)
          \/ \E r \in Requests : SetUserPasswordHash(r) \/ Erase(r)
          \/ \E v \in Users : ChangePassword(v)
      BY DEF Next, Register, RegisterConfirm, AdminLookup, LookupInTx, RecordHistory,
         CreateUserWithPhonePassword, CommitReplyLost, PatchProfile, FindOther, ClearUserPhone,
         PatchUserProfile, PasswordReset, ResetFinds, Delete, Archive, CallFails, CreateAccount,
         AdminSetUserPhone, MigrateHistory, Crash, NothingWritten
    <2> QED BY <2>1, <2>2, <2>3, <2>4, <2>5, <2>6, <2>7
  <1> QED BY InitIInv, StepIInv, <1>1, PTL DEF Spec, PasswordReachesHolder
=============================================================================
