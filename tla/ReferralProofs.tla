--------------------------- MODULE ReferralProofs ---------------------------
(***************************************************************************)
(* Proofs, for any number of accounts, claims and requests, of what the    *)
(* invitation campaign keeps without a transaction: the limit of a day,    *)
(* one bond for a claim, one reward for a bond, and that whoever was       *)
(* invited is bonded.                                                      *)
(*                                                                         *)
(* The argument: a step of a request touches what it has read and nobody   *)
(* else's (OthersAreSound), and only a request at "bond" or later has to   *)
(* do with bonds and rewards (QuietForBinders), only one before "insert"   *)
(* with a claim that does not stand yet (QuietForAskers).  What is left is *)
(* the invariant of those few steps: the key of user_referrals lets one    *)
(* request of an account pass "bond" (RewardedByOne), a claim that bonded  *)
(* an account is not pending, or about to be marked (ViaIsUsedUp), and     *)
(* what was asked for counts for the limit before it is made               *)
(* (AskedInLimit).                                                         *)
(***************************************************************************)
EXTENDS Referral, FiniteSetTheorems, TLAPS

USE DEF users, claims, rewards

-----------------------------------------------------------------------------
(***************************************************************************)
(* How a request moves.                                                    *)
(***************************************************************************)
\* The other requests stay where they are.
Others(r) == \A q \in Requests \ {r} : req'[q] = req[q]

\* A request that is not there has read nothing.
LEMMA IdleFields ==
  /\ Idle.at = "idle" /\ Idle.user = NoUser /\ Idle.number = NoPhone
  /\ Idle.claim = NoClaim /\ Idle.token = NoClaim /\ Idle.hope = NoClaim
  /\ Idle \in Request
  BY DEF Idle, Request, Labels

\* The next step of a handler keeps what it has read.
LEMMA GotoMoves ==
  ASSUME TypeOK, NEW r \in Requests, NEW label \in Labels, Goto(r, label)
  PROVE  /\ Others(r) /\ req' \in [Requests -> Request]
         /\ req'[r].at = label /\ req'[r].user = req[r].user
         /\ req'[r].number = req[r].number /\ req'[r].claim = req[r].claim
         /\ req'[r].token = req[r].token /\ req'[r].hope = req[r].hope
  BY DEF TypeOK, Request, Goto, Others

\* The end of a handler forgets it.
LEMMA ReturnMoves ==
  ASSUME TypeOK, NEW r \in Requests, Return(r)
  PROVE  Others(r) /\ req' \in [Requests -> Request] /\ req'[r] = Idle
  BY IdleFields DEF TypeOK, Return, Others

\* The binding by token ends, or goes on by number.
LEMMA BindingFailsMoves ==
  ASSUME TypeOK, NEW r \in Requests, BindingFails(r)
  PROVE  /\ Others(r) /\ req' \in [Requests -> Request]
         /\ req'[r].at \in {"idle", "find"}
         /\ req'[r] = Idle \/ /\ req'[r].at = "find"
                              /\ req'[r].user = req[r].user /\ req'[r].hope = req[r].hope
                              /\ req'[r].number = req[r].number
<1>1. CASE req[r].token # NoClaim /\ req[r].number # NoPhone
  <2> DEFINE again == [Idle EXCEPT !.at = "find", !.user = req[r].user,
                                   !.number = req[r].number, !.hope = req[r].hope]
  <2>1. /\ again \in Request /\ again.at = "find" /\ again.user = req[r].user
        /\ again.number = req[r].number /\ again.hope = req[r].hope
    BY IdleFields DEF TypeOK, Request, Labels
  <2>2. req' = [req EXCEPT ![r] = again]
    BY <1>1 DEF BindingFails
  <2> HIDE DEF again
  <2> QED BY <2>1, <2>2 DEF TypeOK, Others
<1>2. CASE ~(req[r].token # NoClaim /\ req[r].number # NoPhone)
  BY <1>2, ReturnMoves, IdleFields DEF BindingFails
<1> QED BY <1>1, <1>2

-----------------------------------------------------------------------------
(***************************************************************************)
(* What most steps leave alone.                                            *)
(***************************************************************************)
\* The states of a claim that somebody asked for and that was not taken away.
Labelled == {"asked", "pending", "success", "failed"}

\* A claim less does not pass the limit.
LEMMA LimitStays ==
  ASSUME AskedInLimit, crowded' = crowded,
         \A i \in Users : AskedToday(i)' \subseteq AskedToday(i)
  PROVE  AskedInLimit'
<1> SUFFICES ASSUME NEW i \in Users \ crowded
             PROVE  IsFiniteSet(AskedToday(i)') /\ Cardinality(AskedToday(i)') <= DailyLimit
  BY DEF AskedInLimit
<1>1. IsFiniteSet(AskedToday(i)) /\ Cardinality(AskedToday(i)) <= DailyLimit
  BY DEF AskedInLimit
<1>2. /\ IsFiniteSet(AskedToday(i)')
      /\ Cardinality(AskedToday(i)') <= Cardinality(AskedToday(i))
      /\ Cardinality(AskedToday(i)') \in Nat /\ Cardinality(AskedToday(i)) \in Nat
  BY <1>1, FS_Subset, FS_CardinalityType
<1> QED BY <1>1, <1>2, ReferralAssumption

\* Steps of accounts do not touch what is asked for.
LEMMA QuietForAskers ==
  ASSUME TypeOK, AskedOnce, AskedInLimit,
         inviter' = inviter, crowded' = crowded,
         \A c \in Claims : age'[c] = "today" => age[c] = "today",
         \A c \in Claims : \/ status'[c] = status[c]
                           \/ /\ status'[c] \notin {"none", "asked"}
                              /\ status[c] \in Labelled \ {"asked"},
         \A q \in Requests : AskedBy(q)' => AskedBy(q) /\ req'[q].claim = req[q].claim
  PROVE  AskedOnce' /\ AskedInLimit'
<1>1. AskedOnce'
  BY ReferralAssumption DEF AskedOnce, AskedBy, TypeOK, Labelled
<1>2. \A i \in Users : AskedToday(i)' \subseteq AskedToday(i)
  BY DEF AskedToday, Labelled
<1> QED BY <1>1, <1>2, LimitStays

\* The claims that stand go on doing so.
ClaimsStand ==
  \A c \in Claims :
    /\ Stands(c) => Stands(c)' /\ inviter'[c] = inviter[c] /\ invitee'[c] = invitee[c]
    /\ status'[c] = "pending" => status[c] \in {"asked", "pending"}
    /\ status[c] = "deleted" => status'[c] = "deleted"

\* Whatever a request does, the others have read what stands.
LEMMA OthersAreSound ==
  ASSUME ReadersAreSound, NEW r \in Requests, Others(r), ClaimsStand, used \subseteq used',
         NEW q \in Requests \ {r}
  PROVE  ReadsWhatStands(q)'
  BY DEF ReadersAreSound, ReadsWhatStands, Others, ClaimsStand, Binding, Bonded, AskedBy, Stands

\* What the steps from "bond" on have to keep.
BindInv ==
  /\ ReadAlone /\ ViaIsUsedUp /\ OneBondPerClaim
  /\ RewardedByOne /\ RewardedOnce /\ InviterIsLive /\ RewardIsDue

\* The steps of everybody else keep it: they may let accounts and claims appear
\* and claims end.
LEMMA QuietForBinders ==
  ASSUME TypeOK, TypeOK', ReadersAreSound, BindInv, ClaimsStand,
         UNCHANGED <<bond, via, asInvitee, asInviter, shared, orphans>>,
         faults' >= faults,
         \A q \in Requests : Binding(q) \/ Binding(q)' => req'[q] = req[q],
         \A c \in Claims : status'[c] \in {"pending", "success", "failed"} =>
           \/ status[c] \in {"pending", "success", "failed"}
           \/ inviter'[c] \in live',
         live \subseteq live', used \subseteq used',
         \A u \in used : u \in live' => u \in live
  PROVE  BindInv'
<1> USE DEF BindInv, TypeOK, Binding, Bonded
<1>1. ReadAlone'
  BY DEF ReadAlone
<1>2. (ViaIsUsedUp /\ OneBondPerClaim)'
  BY DEF ViaIsUsedUp, OneBondPerClaim, ClaimsStand, Stands
<1>3. (RewardedByOne /\ RewardedOnce)'
  BY DEF RewardedByOne, RewardedOnce, WasBonded
<1>4. InviterIsLive'
  BY DEF InviterIsLive, ClaimsStand, Stands, ReadersAreSound, ReadsWhatStands, Claiming
<1>5. RewardIsDue'
  BY DEF RewardIsDue, InviterIsLive, ClaimsStand, Stands, ReadersAreSound, ReadsWhatStands
<1> QED BY <1>1, <1>2, <1>3, <1>4, <1>5

-----------------------------------------------------------------------------
(***************************************************************************)
(* The visitor.                                                            *)
(***************************************************************************)
\* A failure is within its bound.
LEMMA MayFailBelow ==
  ASSUME TypeOK, ReadersAreSound, MayFail
  PROVE  faults + 1 \in 0 .. MaxFaults
<1>1. IsFiniteSet(used \ live)
  BY FS_Subset DEF ReadersAreSound
<1>2. Cardinality(used \ live) \in Nat
  BY <1>1, FS_CardinalityType
<1> QED BY <1>2, ReferralAssumption DEF TypeOK, MayFail

\* A claim is asked for: nobody asks for it yet, and when nobody else asks the
\* inviter, all it made today are below the limit.
LEMMA CountClaimsKeepsIInv ==
  ASSUME IInv, NEW r \in Requests, NEW c \in Claims, NEW i \in live, NEW p \in Phones,
         CountClaims(r, c, i, p)
  PROVE  IInv'
<1> DEFINE asking == [Idle EXCEPT !.at = "ever", !.claim = c, !.number = p]
<1>1. /\ asking \in Request /\ asking.at = "ever" /\ asking.claim = c
      /\ asking.hope = NoClaim
  BY IdleFields DEF Request, Labels, Claiming
<1>2. /\ req[r] = Idle /\ req' = [req EXCEPT ![r] = asking]
      /\ status[c] = "none" /\ status' = [status EXCEPT ![c] = "asked"]
      /\ age' = [age EXCEPT ![c] = "today"]
      /\ inviter' = [inviter EXCEPT ![c] = i] /\ invitee' = [invitee EXCEPT ![c] = p]
      /\ crowded' = IF \E d \in Claims : status[d] = "asked" /\ inviter[d] = i
                    THEN crowded \cup {i} ELSE crowded
      /\ Cardinality(MadeToday(i)) < DailyLimit
      /\ UNCHANGED <<live, used, phone, history, bond, asInvitee, asInviter, via, shared,
                     orphans, faults>>
  BY DEF CountClaims, Start
<1> HIDE DEF asking
<1>3. Others(r) /\ req'[r] = asking /\ req' \in [Requests -> Request]
  BY <1>1, <1>2 DEF Others, IInv, TypeOK
<1>4. TypeOK'
  BY <1>2, <1>3 DEF IInv, TypeOK, Statuses, Ages
<1>5. AskedOnce'
  BY <1>1, <1>2, <1>3, ReferralAssumption DEF IInv, TypeOK, AskedOnce, AskedBy, Others, Claiming
<1>6. AskedInLimit'
  <2> SUFFICES ASSUME NEW j \in Users \ crowded'
               PROVE  IsFiniteSet(AskedToday(j)') /\ Cardinality(AskedToday(j)') <= DailyLimit
    BY <1>2 DEF AskedInLimit
  <2>1. j \notin crowded /\ IsFiniteSet(AskedToday(j)) /\ Cardinality(AskedToday(j)) <= DailyLimit
    BY <1>2 DEF IInv, AskedInLimit
  <2>2. CASE j # i
    <3>1. AskedToday(j)' = AskedToday(j)
      BY <1>2, <2>2, ReferralAssumption DEF AskedToday, IInv, TypeOK, AskedOnce
    <3> QED BY <2>1, <3>1
  <2>3. CASE j = i
    <3>1. AskedToday(i) = MadeToday(i)
      BY <1>2, <2>3 DEF AskedToday, MadeToday
    <3>2. AskedToday(i)' = AskedToday(i) \cup {c}
      BY <1>2 DEF AskedToday, IInv, TypeOK
    <3>3. c \notin AskedToday(i)
      BY <1>2 DEF AskedToday
    <3>4. /\ IsFiniteSet(AskedToday(i)')
          /\ Cardinality(AskedToday(i)') = Cardinality(AskedToday(i)) + 1
          /\ Cardinality(AskedToday(i)) \in Nat
      BY <2>1, <2>3, <3>2, <3>3, FS_AddElement, FS_CardinalityType
    <3> QED BY <1>2, <2>3, <3>1, <3>4, ReferralAssumption
  <2> QED BY <2>2, <2>3
<1>7. ClaimsStand
  BY <1>2 DEF ClaimsStand, Stands, IInv, TypeOK
<1>8. ReadersAreSound'
  <2>1. ReadsWhatStands(r)'
    BY <1>1, <1>3 DEF ReadsWhatStands, Binding, Bonded, Claiming
  <2> QED BY <1>2, <1>3, <1>7, <2>1, OthersAreSound DEF IInv, ReadersAreSound
<1>9. BindInv'
  <2>1. \A q \in Requests : Binding(q) \/ Binding(q)' => req'[q] = req[q]
    BY <1>1, <1>2, <1>3, IdleFields DEF Others, Binding, Bonded
  <2>2. \A d \in Claims : status'[d] \in {"pending", "success", "failed"} =>
          status[d] \in {"pending", "success", "failed"}
    BY <1>2 DEF IInv, TypeOK
  <2>3. /\ UNCHANGED <<bond, via, asInvitee, asInviter, shared, orphans, live, used>>
        /\ faults' >= faults
    BY <1>2 DEF IInv, TypeOK
  <2> QED BY <1>4, <1>7, <2>1, <2>2, <2>3, QuietForBinders DEF IInv, BindInv
<1> QED BY <1>4, <1>5, <1>6, <1>8, <1>9 DEF IInv, BindInv

\* A claim that is refused is as it was before.
LEMMA RefuseKeepsIInv ==
  ASSUME IInv, NEW r \in Requests, AskedBy(r), Refuse(r),
         UNCHANGED <<users, rewards, crowded, faults>>
  PROVE  IInv'
<1> DEFINE c == req[r].claim
<1>1. c \in Claims /\ status[c] = "asked"
  BY DEF IInv, AskedOnce
<1>2. /\ Return(r) /\ status' = [status EXCEPT ![c] = "none"]
      /\ age' = [age EXCEPT ![c] = "today"]
      /\ inviter' = [inviter EXCEPT ![c] = NoUser] /\ invitee' = [invitee EXCEPT ![c] = NoPhone]
  BY <1>1 DEF Refuse, Forget, IInv, TypeOK
<1> HIDE DEF c
<1>3. Others(r) /\ req'[r] = Idle /\ req' \in [Requests -> Request]
  BY <1>2, ReturnMoves DEF IInv
<1>4. TypeOK'
  BY <1>1, <1>2, <1>3 DEF IInv, TypeOK, Statuses, Ages
<1>5. AskedOnce'
  BY <1>1, <1>2, <1>3, IdleFields, ReferralAssumption
  DEF IInv, TypeOK, AskedOnce, AskedBy, Others, Claiming, c
<1>6. AskedInLimit'
  <2>1. \A i \in Users : AskedToday(i)' \subseteq AskedToday(i)
    BY <1>1, <1>2, ReferralAssumption DEF AskedToday, IInv, TypeOK
  <2> QED BY <2>1, LimitStays DEF IInv
<1>7. ClaimsStand
  BY <1>1, <1>2 DEF ClaimsStand, Stands, IInv, TypeOK
<1>8. ReadersAreSound'
  <2>1. ReadsWhatStands(r)'
    BY <1>3, IdleFields DEF ReadsWhatStands, Binding, Bonded, Claiming
  <2> QED BY <1>3, <1>7, <2>1, OthersAreSound DEF IInv, ReadersAreSound
<1>9. BindInv'
  <2>1. \A q \in Requests : Binding(q) \/ Binding(q)' => req'[q] = req[q]
    BY <1>3, IdleFields DEF Others, Binding, Bonded, AskedBy, Claiming
  <2>2. \A d \in Claims : status'[d] \in {"pending", "success", "failed"} =>
          status[d] \in {"pending", "success", "failed"}
    BY <1>2 DEF IInv, TypeOK
  <2>3. faults' >= faults
    BY DEF IInv, TypeOK
  <2> QED BY <1>4, <1>7, <2>1, <2>2, <2>3, QuietForBinders DEF IInv, BindInv
<1> QED BY <1>4, <1>5, <1>6, <1>8, <1>9 DEF IInv, BindInv

\* The requests that neither bind nor start to, nor change a claim.
LEMMA OtherStepsKeepIInv ==
  ASSUME IInv, NEW r \in Requests, Others(r), TypeOK', ReadsWhatStands(r)',
         UNCHANGED <<claims, rewards, crowded, faults>>,
         AskedBy(r)' => AskedBy(r) /\ req'[r].claim = req[r].claim,
         ~Binding(r), ~Binding(r)',
         live \subseteq live', used \subseteq used', IsFiniteSet(used'),
         \A u \in used : u \in live' => u \in live
  PROVE  IInv'
<1>1. ClaimsStand
  BY DEF ClaimsStand, Stands
<1>2. ReadersAreSound'
  BY <1>1, OthersAreSound DEF IInv, ReadersAreSound
<1>3. AskedOnce' /\ AskedInLimit'
  BY QuietForAskers DEF IInv, Others, AskedBy
<1>4. BindInv'
  <2>1. \A q \in Requests : Binding(q) \/ Binding(q)' => req'[q] = req[q]
    BY DEF Others
  <2>2. faults' >= faults
    BY DEF IInv, TypeOK
  <2> QED BY <1>1, <2>1, <2>2, QuietForBinders DEF IInv, BindInv
<1> QED BY <1>2, <1>3, <1>4 DEF IInv, BindInv

\* A check that does not refuse.
LEMMA AskerMovesKeepsIInv ==
  ASSUME IInv, NEW r \in Requests, AskedBy(r), NEW label \in Claiming, Goto(r, label),
         UNCHANGED <<users, claims, rewards, crowded, faults>>
  PROVE  IInv'
<1>1. /\ Others(r) /\ req' \in [Requests -> Request] /\ req'[r].at = label
      /\ req'[r].claim = req[r].claim /\ req'[r].hope = req[r].hope
  BY GotoMoves DEF IInv, Labels
<1>2. TypeOK'
  BY <1>1 DEF IInv, TypeOK
<1>3. ~Binding(r) /\ ~Binding(r)'
  BY <1>1 DEF Binding, Bonded, AskedBy, Claiming
<1>4. ReadsWhatStands(r)'
  BY <1>1, <1>3 DEF ReadsWhatStands, IInv, ReadersAreSound, AskedBy, Claiming
<1> QED BY <1>1, <1>2, <1>3, <1>4, OtherStepsKeepIInv DEF IInv, ReadersAreSound, AskedBy

\* The checks of the number.
LEMMA ChecksKeepIInv ==
  ASSUME IInv, NEW r \in Requests, PhoneIsNew(r) \/ NotReferred(r)
  PROVE  IInv'
  BY RefuseKeepsIInv, AskerMovesKeepsIInv DEF PhoneIsNew, NotReferred, AskedBy, Claiming

\* A claim that is asked for becomes one that stands.
LEMMA InsertClaimKeepsIInv ==
  ASSUME IInv, NEW r \in Requests, InsertClaim(r)
  PROVE  IInv'
<1> DEFINE c == req[r].claim
<1>1. AskedBy(r) /\ UNCHANGED <<users, rewards, crowded, faults>>
  BY DEF InsertClaim, AskedBy, Claiming
<1>2. CASE Refuse(r)
  BY <1>1, <1>2, RefuseKeepsIInv
<1>3. CASE /\ inviter[c] \in live
           /\ Return(r) /\ status' = [status EXCEPT ![c] = "pending"]
           /\ UNCHANGED <<age, inviter, invitee>>
  <2>1. c \in Claims /\ status[c] = "asked"
    BY <1>1 DEF IInv, AskedOnce
  <2> HIDE DEF c
  <2>3. Others(r) /\ req'[r] = Idle /\ req' \in [Requests -> Request]
    BY <1>3, ReturnMoves DEF IInv
  <2>4. TypeOK'
    BY <1>1, <1>3, <2>1, <2>3 DEF IInv, TypeOK, Statuses, Ages
  <2>5. AskedOnce'
    <3>1. \A q \in Requests : AskedBy(q)' =>
            AskedBy(q) /\ req'[q] = req[q] /\ req[q].claim # c
      BY <1>1, <2>3, IdleFields DEF IInv, AskedOnce, AskedBy, Others, Claiming, c
    <3>2. \A d \in Claims : status'[d] = "none" <=> inviter'[d] = NoUser
      BY <1>3, <2>1 DEF IInv, TypeOK, AskedOnce
    <3> QED BY <1>3, <3>1, <3>2 DEF IInv, TypeOK, AskedOnce, AskedBy
  <2>6. AskedInLimit'
    <3>1. \A i \in Users : AskedToday(i)' \subseteq AskedToday(i)
      BY <1>3, <2>1 DEF AskedToday, IInv, TypeOK
    <3> QED BY <1>1, <3>1, LimitStays DEF IInv
  <2>7. ClaimsStand
    BY <1>3, <2>1 DEF ClaimsStand, Stands, IInv, TypeOK
  <2>8. ReadersAreSound'
    <3>1. ReadsWhatStands(r)'
      BY <2>3, IdleFields DEF ReadsWhatStands, Binding, Bonded, Claiming
    <3> QED BY <1>1, <2>3, <2>7, <3>1, OthersAreSound DEF IInv, ReadersAreSound
  <2>9. BindInv'
    <3>1. \A q \in Requests : Binding(q) \/ Binding(q)' => req'[q] = req[q]
      BY <1>1, <2>3, IdleFields DEF Others, Binding, Bonded, AskedBy, Claiming
    <3>2. \A d \in Claims : status'[d] \in {"pending", "success", "failed"} =>
            status[d] \in {"pending", "success", "failed"} \/ inviter'[d] \in live'
      BY <1>1, <1>3 DEF IInv, TypeOK
    <3>3. faults' >= faults
      BY <1>1 DEF IInv, TypeOK
    <3> QED BY <1>1, <2>4, <2>7, <3>1, <3>2, <3>3, QuietForBinders DEF IInv, BindInv
  <2> QED BY <2>4, <2>5, <2>6, <2>8, <2>9 DEF IInv, BindInv
<1> QED BY <1>2, <1>3 DEF InsertClaim

-----------------------------------------------------------------------------
(***************************************************************************)
(* The account.                                                            *)
(***************************************************************************)
\* What an account may hope for stands, and has its number.
LEMMA HopesStand ==
  ASSUME TypeOK, NEW p \in Phones, NEW c \in Hopes(p)
  PROVE  /\ c \in Claims \cup {NoClaim}
         /\ c # NoClaim => Stands(c) /\ invitee[c] = p
  BY DEF Hopes, Pending, Stands

\* An account with a number registers.
LEMMA RegisterPhoneKeepsIInv ==
  ASSUME IInv, NEW r \in Requests, NEW u \in Users, NEW p \in Phones,
         NEW token \in Claims \cup {NoClaim}, RegisterPhone(r, u, p, token)
  PROVE  IInv'
<1>1. PICK c \in Hopes(p) :
        Start(r, [Idle EXCEPT !.at = "welcome", !.user = u, !.number = p,
                              !.token = token, !.hope = c])
  BY DEF RegisterPhone
<1> DEFINE arrived == [Idle EXCEPT !.at = "welcome", !.user = u, !.number = p,
                                   !.token = token, !.hope = c]
<1>2. /\ c \in Claims \cup {NoClaim} /\ p # NoPhone
      /\ c # NoClaim => Stands(c) /\ invitee[c] = p
  BY HopesStand, ReferralAssumption DEF IInv
<1>3. /\ arrived \in Request /\ arrived.at = "welcome" /\ arrived.user = u
      /\ arrived.number = p /\ arrived.hope = c
  BY <1>2, IdleFields DEF Request, Labels, Granting
<1>4. req[r] = Idle /\ req' = [req EXCEPT ![r] = arrived]
  BY <1>1 DEF Start
<1> HIDE DEF arrived
<1>5. Others(r) /\ req'[r] = arrived /\ req' \in [Requests -> Request]
  BY <1>3, <1>4 DEF Others, IInv, TypeOK
<1>6. TypeOK'
  BY <1>5 DEF RegisterPhone, IInv, TypeOK
<1>7. ReadsWhatStands(r)'
  BY <1>2, <1>3, <1>5 DEF RegisterPhone, ReadsWhatStands, Binding, Bonded, AskedBy, Claiming, Stands
<1>8. ~Binding(r) /\ ~Binding(r)' /\ ~AskedBy(r)'
  BY <1>3, <1>4, <1>5, IdleFields DEF Binding, Bonded, AskedBy, Claiming
<1>9. /\ live \subseteq live' /\ used \subseteq used' /\ IsFiniteSet(used')
      /\ \A v \in used : v \in live' => v \in live
  BY FS_AddElement DEF RegisterPhone, IInv, ReadersAreSound
<1> QED BY <1>5, <1>6, <1>7, <1>8, <1>9, OtherStepsKeepIInv DEF RegisterPhone

\* Or one without.
LEMMA RegisterThirdPartyKeepsIInv ==
  ASSUME IInv, NEW r \in Requests, NEW u \in Users,
         NEW token \in Claims \cup {NoClaim}, RegisterThirdParty(r, u, token)
  PROVE  IInv'
<1> DEFINE arrived == [Idle EXCEPT !.at = "welcome", !.user = u, !.token = token]
<1>1. /\ arrived \in Request /\ arrived.at = "welcome" /\ arrived.user = u
      /\ arrived.hope = NoClaim
  BY IdleFields DEF Request, Labels, Granting
<1>2. req[r] = Idle /\ req' = [req EXCEPT ![r] = arrived]
  BY DEF RegisterThirdParty, Start
<1> HIDE DEF arrived
<1>3. Others(r) /\ req'[r] = arrived /\ req' \in [Requests -> Request]
  BY <1>1, <1>2 DEF Others, IInv, TypeOK
<1>4. TypeOK'
  BY <1>3 DEF RegisterThirdParty, IInv, TypeOK
<1>5. ReadsWhatStands(r)'
  BY <1>1, <1>3 DEF RegisterThirdParty, ReadsWhatStands, Binding, Bonded
<1>6. ~Binding(r) /\ ~Binding(r)' /\ ~AskedBy(r)'
  BY <1>1, <1>2, <1>3, IdleFields DEF Binding, Bonded, AskedBy, Claiming
<1>7. /\ live \subseteq live' /\ used \subseteq used' /\ IsFiniteSet(used')
      /\ \A v \in used : v \in live' => v \in live
  BY FS_AddElement DEF RegisterThirdParty, IInv, ReadersAreSound
<1> QED BY <1>3, <1>4, <1>5, <1>6, <1>7, OtherStepsKeepIInv DEF RegisterThirdParty

\* The profile of an account that is there is read.
LEMMA HadPhoneKeepsIInv ==
  ASSUME IInv, NEW r \in Requests, NEW u \in Users, NEW p \in Phones, HadPhone(r, u, p)
  PROVE  IInv'
<1> DEFINE patching == [Idle EXCEPT !.at = "patch", !.user = u, !.number = p]
<1>1. /\ patching \in Request /\ patching.at = "patch" /\ patching.user = u
      /\ patching.hope = NoClaim /\ patching.number # NoPhone
  BY IdleFields, ReferralAssumption DEF Request, Labels
<1>2. req[r] = Idle /\ req' = [req EXCEPT ![r] = patching]
  BY DEF HadPhone, Start
<1> HIDE DEF patching
<1>3. Others(r) /\ req'[r] = patching /\ req' \in [Requests -> Request]
  BY <1>1, <1>2 DEF Others, IInv, TypeOK
<1>4. TypeOK'
  BY <1>3 DEF HadPhone, IInv, TypeOK
<1>5. ReadsWhatStands(r)'
  BY <1>1, <1>3 DEF HadPhone, ReadsWhatStands, Binding, Bonded, IInv, TypeOK
<1>6. ~Binding(r) /\ ~Binding(r)' /\ ~AskedBy(r)'
  BY <1>1, <1>2, <1>3, IdleFields DEF Binding, Bonded, AskedBy, Claiming
<1> QED BY <1>3, <1>4, <1>5, <1>6, OtherStepsKeepIInv DEF HadPhone, IInv, ReadersAreSound

\* It gets its number.
LEMMA PatchUserProfileKeepsIInv ==
  ASSUME IInv, NEW r \in Requests, PatchUserProfile(r)
  PROVE  IInv'
<1> DEFINE u == req[r].user  p == req[r].number
<1>1. CASE u \notin live /\ Return(r) /\ UNCHANGED phone
  <2>1. Others(r) /\ req'[r] = Idle /\ req' \in [Requests -> Request]
    BY <1>1, ReturnMoves DEF IInv
  <2>2. TypeOK'
    BY <1>1, <2>1 DEF PatchUserProfile, IInv, TypeOK
  <2>3. ReadsWhatStands(r)' /\ ~Binding(r) /\ ~Binding(r)' /\ ~AskedBy(r)'
    BY <2>1, IdleFields DEF PatchUserProfile, ReadsWhatStands, Binding, Bonded, AskedBy, Claiming
  <2> QED BY <1>1, <2>1, <2>2, <2>3, OtherStepsKeepIInv DEF PatchUserProfile, IInv, ReadersAreSound
<1>2. ASSUME u \in live,
             phone' = [v \in Users |-> IF v = u THEN p
                                       ELSE IF phone[v] = p THEN NoPhone ELSE phone[v]],
             NEW c \in Hopes(p), req' = [req EXCEPT ![r].at = "bound", ![r].hope = c]
      PROVE  IInv'
  <2>1. CASE p \in Phones
    <3>1. /\ c \in Claims \cup {NoClaim} /\ p # NoPhone
          /\ c # NoClaim => Stands(c) /\ invitee[c] = p
      BY <1>2, <2>1, HopesStand, ReferralAssumption DEF IInv
    <3>2. /\ Others(r) /\ req' \in [Requests -> Request]
          /\ req'[r].at = "bound" /\ req'[r].hope = c
          /\ req'[r].user = u /\ req'[r].number = p
      <4> DEFINE new == [req[r] EXCEPT !.at = "bound", !.hope = c]
      <4>1. /\ new \in Request /\ new.at = "bound" /\ new.hope = c
            /\ new.user = u /\ new.number = p
        BY <3>1 DEF IInv, TypeOK, Request, Labels
      <4>2. req' = [req EXCEPT ![r] = new]
        BY <1>2 DEF IInv, TypeOK
      <4> HIDE DEF new
      <4> QED BY <4>1, <4>2 DEF Others, IInv, TypeOK
    <3> HIDE DEF u, p
    <3>3. TypeOK'
      BY <1>2, <2>1, <3>2 DEF PatchUserProfile, IInv, TypeOK
    <3>4. u \in used
      BY <1>2 DEF IInv, TypeOK
    <3>5. ReadsWhatStands(r)' /\ ~Binding(r) /\ ~Binding(r)' /\ ~AskedBy(r)'
      BY <3>1, <3>2, <3>4
      DEF PatchUserProfile, ReadsWhatStands, Binding, Bonded, AskedBy, Claiming, Stands
    <3> QED BY <3>2, <3>3, <3>5, OtherStepsKeepIInv DEF PatchUserProfile, IInv, ReadersAreSound
  <2>2. p # NoPhone
    BY DEF PatchUserProfile, IInv, ReadersAreSound, ReadsWhatStands
  <2> QED BY <2>1, <2>2 DEF IInv, TypeOK, Request
<1> QED BY <1>1, <1>2 DEF PatchUserProfile

\* It has one already, or nobody has bonded it yet.
LEMMA OnPhoneBoundKeepsIInv ==
  ASSUME IInv, NEW r \in Requests, OnPhoneBound(r)
  PROVE  IInv'
<1>1. /\ Others(r) /\ req' \in [Requests -> Request]
      /\ req'[r] = Idle \/ /\ req'[r].at = "find" /\ req'[r].user = req[r].user
                           /\ req'[r].number = req[r].number /\ req'[r].hope = req[r].hope
  BY GotoMoves, ReturnMoves DEF OnPhoneBound, IInv, Labels
<1>2. TypeOK'
  BY <1>1 DEF OnPhoneBound, IInv, TypeOK
<1>3. ReadsWhatStands(r)' /\ ~Binding(r) /\ ~Binding(r)' /\ ~AskedBy(r)'
  BY <1>1, IdleFields
  DEF OnPhoneBound, IInv, ReadersAreSound, ReadsWhatStands, Binding, Bonded, AskedBy,
      Claiming, Stands
<1> QED BY <1>1, <1>2, <1>3, OtherStepsKeepIInv DEF OnPhoneBound, IInv, ReadersAreSound

\* A new account is given its welcome.
LEMMA WelcomeBonusKeepsIInv ==
  ASSUME IInv, NEW r \in Requests, WelcomeBonus(r)
  PROVE  IInv'
<1>1. /\ Others(r) /\ req' \in [Requests -> Request]
      /\ req'[r] = Idle \/ /\ req'[r].at = "find" /\ req'[r].user = req[r].user
                           /\ req'[r].number = req[r].number /\ req'[r].hope = req[r].hope
  BY GotoMoves, ReturnMoves DEF WelcomeBonus, IInv, Labels
<1>2. TypeOK'
  BY <1>1 DEF WelcomeBonus, IInv, TypeOK
<1>3. ReadsWhatStands(r)' /\ ~Binding(r) /\ ~Binding(r)' /\ ~AskedBy(r)'
  BY <1>1, IdleFields
  DEF WelcomeBonus, IInv, ReadersAreSound, ReadsWhatStands, Binding, Bonded, AskedBy,
      Claiming, Stands
<1> QED BY <1>1, <1>2, <1>3, OtherStepsKeepIInv DEF WelcomeBonus, IInv, ReadersAreSound

-----------------------------------------------------------------------------
(***************************************************************************)
(* The binding.                                                            *)
(***************************************************************************)
\* A request that binds, or ends: what it asked for is not its concern.
LEMMA BindersKeepClaims ==
  ASSUME IInv, NEW r \in Requests, Others(r), ~AskedBy(r)',
         UNCHANGED <<age, inviter, invitee, crowded>>,
         \A c \in Claims : \/ status'[c] = status[c]
                           \/ status[c] = "pending" /\ status'[c] \in {"success", "failed"}
  PROVE  AskedOnce' /\ AskedInLimit' /\ ClaimsStand
<1>1. AskedOnce' /\ AskedInLimit'
  BY QuietForAskers DEF IInv, Others, AskedBy, Labelled
<1>2. ClaimsStand
  BY DEF ClaimsStand, Stands
<1> QED BY <1>1, <1>2

\* A request that goes back to the number, or ends, has read nothing any more.
LEMMA BackOut ==
  ASSUME IInv, NEW r \in Requests, BindingFails(r) \/ Return(r),
         ~AskedBy(r), req[r].at # "idle",
         ClaimsStand, used' = used
  PROVE  /\ Others(r) /\ req' \in [Requests -> Request]
         /\ ~AskedBy(r)' /\ ~Binding(r)' /\ ReadersAreSound'
<1>1. /\ Others(r) /\ req' \in [Requests -> Request]
      /\ req'[r] = Idle \/ /\ req'[r].at = "find" /\ req'[r].user = req[r].user
                           /\ req'[r].number = req[r].number /\ req'[r].hope = req[r].hope
  BY BindingFailsMoves, ReturnMoves DEF IInv
<1>2. ~AskedBy(r)' /\ ~Binding(r)'
  BY <1>1, IdleFields DEF AskedBy, Binding, Bonded, Claiming
<1>3. ReadsWhatStands(r)'
  <2>1. ReadsWhatStands(r) /\ req[r].at \notin Claiming \cup {"idle"}
    BY DEF IInv, ReadersAreSound, AskedBy
  <2>2. req[r].hope # NoClaim =>
          /\ req[r].hope \in Claims /\ status'[req[r].hope] \notin {"none", "asked"}
          /\ invitee'[req[r].hope] = req[r].number /\ req[r].number # NoPhone
    BY <2>1 DEF ReadsWhatStands, ClaimsStand, Stands
  <2> QED BY <1>1, <1>2, <2>1, <2>2, IdleFields DEF ReadsWhatStands, Stands
<1> QED BY <1>1, <1>2, <1>3, OthersAreSound DEF IInv, ReadersAreSound

\* A binding that does not find its claim bindable.
LEMMA FindNothingKeepsIInv ==
  ASSUME IInv, NEW r \in Requests, req[r].at = "find", BindingFails(r),
         UNCHANGED <<users, age, inviter, invitee, rewards, crowded, faults>>,
         \A c \in Claims : \/ status'[c] = status[c]
                           \/ status[c] = "pending" /\ status'[c] = "failed",
         status' \in [Claims -> Statuses]
  PROVE  IInv'
<1>1. Others(r) /\ req' \in [Requests -> Request] /\ ~AskedBy(r)' /\ ~Binding(r)'
  BY BindingFailsMoves, IdleFields DEF IInv, AskedBy, Binding, Bonded, Claiming
<1>2. AskedOnce' /\ AskedInLimit' /\ ClaimsStand
  BY <1>1, BindersKeepClaims
<1>3. ReadersAreSound'
  BY <1>2, BackOut DEF AskedBy, Claiming
<1>4. TypeOK'
  BY <1>1 DEF IInv, TypeOK
<1>5. BindInv'
  <2>1. \A q \in Requests : Binding(q) \/ Binding(q)' => req'[q] = req[q]
    BY <1>1 DEF Others, Binding, Bonded
  <2>2. faults' >= faults
    BY DEF IInv, TypeOK
  <2> QED BY <1>2, <1>4, <2>1, <2>2, QuietForBinders DEF IInv, BindInv
<1> QED BY <1>2, <1>3, <1>4, <1>5 DEF IInv, BindInv

\* A claim is found.  It is pending, so that whoever bonded with it is about to
\* mark it, and it is shared from now on.
LEMMA FindClaimKeepsIInv ==
  ASSUME IInv, NEW r \in Requests, FindClaim(r)
  PROVE  IInv'
<1>1. ASSUME NEW c \in Claims, Bindable(r, c),
             req' = [req EXCEPT ![r].at = "bond", ![r].claim = c],
             shared' = IF BindingToo(r, c) # {} THEN shared \cup {c} ELSE shared,
             UNCHANGED status
      PROVE  IInv'
  <2>1. /\ req[r].at = "find" /\ status[c] = "pending" /\ Stands(c)
        /\ UNCHANGED <<users, claims, bond, asInvitee, asInviter, via, orphans, crowded, faults>>
    BY <1>1 DEF FindClaim, Bindable, Stands
  <2>2. /\ Others(r) /\ req' \in [Requests -> Request]
        /\ req'[r].at = "bond" /\ req'[r].claim = c
        /\ req'[r].user = req[r].user /\ req'[r].number = req[r].number
        /\ req'[r].hope = req[r].hope
    <3> DEFINE new == [req[r] EXCEPT !.at = "bond", !.claim = c]
    <3>1. /\ new \in Request /\ new.at = "bond" /\ new.claim = c
          /\ new.user = req[r].user /\ new.number = req[r].number /\ new.hope = req[r].hope
      BY DEF IInv, TypeOK, Request, Labels
    <3>2. req' = [req EXCEPT ![r] = new]
      BY <1>1 DEF IInv, TypeOK
    <3> HIDE DEF new
    <3> QED BY <3>1, <3>2 DEF Others, IInv, TypeOK
  <2>3. /\ shared \subseteq shared' /\ shared' \subseteq shared \cup {c}
        /\ \A q \in Requests \ {r} : Binding(q) /\ req[q].claim = c => c \in shared'
    BY <1>1 DEF BindingToo, Binding, Bonded
  <2>4. TypeOK'
    BY <2>1, <2>2, <2>3 DEF IInv, TypeOK
  <2>5. AskedOnce' /\ AskedInLimit' /\ ClaimsStand
    BY <2>1, <2>2, BindersKeepClaims DEF AskedBy, Claiming
  <2>6. ReadersAreSound'
    <3>1. ReadsWhatStands(r)'
      BY <2>1, <2>2
      DEF IInv, ReadersAreSound, ReadsWhatStands, Stands, Binding, Bonded, AskedBy, Claiming
    <3> QED BY <2>1, <2>2, <2>5, <3>1, OthersAreSound DEF IInv, ReadersAreSound
  <2>7. ReadAlone'
    BY <2>1, <2>2, <2>3 DEF IInv, ReadAlone, Others, Binding, Bonded
  <2>8. (ViaIsUsedUp /\ OneBondPerClaim)'
    <3>1. ASSUME NEW u \in Users, via[u] \notin shared' \cup {NoClaim}
          PROVE  /\ Stands(via[u])
                 /\ via[u] # c
                 /\ \/ status[via[u]] # "pending"
                    \/ \E q \in Requests \ {r} : req[q].at = "mark" /\ req[q].claim = via[u]
                 /\ \A q \in Requests \ {r} : ~(req[q].at = "bond" /\ req[q].claim = via[u])
      BY <2>1, <2>3, <3>1 DEF IInv, ViaIsUsedUp, Binding, Bonded
    <3>2. ViaIsUsedUp'
      BY <2>1, <2>2, <3>1 DEF ViaIsUsedUp, Others, Stands
    <3> QED BY <2>1, <2>3, <3>2 DEF IInv, OneBondPerClaim
  <2>9. (RewardedByOne /\ RewardedOnce /\ InviterIsLive /\ RewardIsDue)'
    <3>1. \A q \in Requests : Bonded(q) \/ Bonded(q)' => req'[q] = req[q]
      BY <2>1, <2>2 DEF Others, Bonded
    <3> QED BY <2>1, <3>1
        DEF IInv, TypeOK, RewardedByOne, RewardedOnce, WasBonded, InviterIsLive, Stands,
            RewardIsDue, Bonded
  <2> QED BY <2>4, <2>5, <2>6, <2>7, <2>8, <2>9 DEF IInv
<1>2. ASSUME BindingFails(r), UNCHANGED shared,
             \/ status' = status
             \/ \E c \in Claims : status[c] = "pending" /\ status' = [status EXCEPT ![c] = "failed"]
      PROVE  IInv'
  <2>1. /\ req[r].at = "find"
        /\ UNCHANGED <<users, age, inviter, invitee, rewards, crowded, faults>>
    BY <1>2 DEF FindClaim
  <2>2. /\ status' \in [Claims -> Statuses]
        /\ \A c \in Claims : \/ status'[c] = status[c]
                             \/ status[c] = "pending" /\ status'[c] = "failed"
    BY <1>2 DEF IInv, TypeOK, Statuses
  <2> QED BY <1>2, <2>1, <2>2, FindNothingKeepsIInv
<1>3. req[r].token \in Claims \cup {NoClaim}
  BY DEF IInv, TypeOK, Request
<1> QED BY <1>1, <1>2, <1>3 DEF FindClaim, Pending

\* A bond is inserted: the account had none and is there, so that nobody was
\* rewarded for it; and nobody else bonds with the claim, if it is not shared.
LEMMA InsertUserReferralKeepsIInv ==
  ASSUME IInv, NEW r \in Requests, InsertUserReferral(r)
  PROVE  IInv'
<1> DEFINE u == req[r].user  c == req[r].claim
<1>1. /\ req[r].at = "bond" /\ ~AskedBy(r) /\ Binding(r)
      /\ UNCHANGED <<users, claims, asInvitee, asInviter, shared, orphans, crowded, faults>>
  BY DEF InsertUserReferral, AskedBy, Claiming, Binding
<1>2. u \in used /\ u \in Users /\ Stands(c)
  BY <1>1 DEF IInv, TypeOK, ReadersAreSound, ReadsWhatStands, Claiming
<1>3. CASE BindingFails(r) /\ UNCHANGED <<bond, via>>
  <2>1. Others(r) /\ ~AskedBy(r)' /\ ~Binding(r)' /\ req' \in [Requests -> Request]
    BY <1>3, BindingFailsMoves, IdleFields DEF IInv, AskedBy, Binding, Bonded, Claiming
  <2>2. AskedOnce' /\ AskedInLimit' /\ ClaimsStand
    BY <1>1, <2>1, BindersKeepClaims
  <2>3. ReadersAreSound'
    BY <1>1, <1>3, <2>2, BackOut
  <2>4. TypeOK'
    BY <1>1, <1>3, <2>1 DEF IInv, TypeOK
  <2>5. (ReadAlone /\ ViaIsUsedUp /\ OneBondPerClaim)'
    BY <1>1, <1>3, <2>1
    DEF IInv, ReadAlone, ViaIsUsedUp, OneBondPerClaim, Others, Binding, Bonded, Stands
  <2>6. (RewardedByOne /\ RewardedOnce /\ InviterIsLive /\ RewardIsDue)'
    <3>1. \A q \in Requests : Bonded(q) \/ Bonded(q)' => req'[q] = req[q]
      BY <1>1, <2>1 DEF Others, Bonded, Binding
    <3> QED BY <1>1, <1>3, <3>1
        DEF IInv, TypeOK, RewardedByOne, RewardedOnce, WasBonded, InviterIsLive, Stands,
            RewardIsDue, Bonded
  <2> QED BY <2>2, <2>3, <2>4, <2>5, <2>6 DEF IInv
<1>4. CASE /\ u \in live /\ inviter[c] \in live /\ bond[u] = NoUser
           /\ bond' = [bond EXCEPT ![u] = inviter[c]] /\ via' = [via EXCEPT ![u] = c]
           /\ Goto(r, "mark")
  <2>1. /\ Others(r) /\ req' \in [Requests -> Request]
        /\ req'[r].at = "mark" /\ req'[r].user = u /\ req'[r].claim = c
        /\ req'[r].hope = req[r].hope /\ req'[r].number = req[r].number
    BY <1>4, GotoMoves DEF IInv, Labels
  <2>2. ~AskedBy(r)' /\ Bonded(r)' /\ Binding(r)'
    BY <2>1 DEF AskedBy, Binding, Bonded, Claiming
  <2>3. AskedOnce' /\ AskedInLimit' /\ ClaimsStand
    BY <1>1, <2>1, <2>2, BindersKeepClaims
  <2>4. ReadersAreSound'
    <3>1. ReadsWhatStands(r)'
      BY <1>1, <1>2, <2>1, <2>2
      DEF IInv, ReadersAreSound, ReadsWhatStands, Stands
    <3> QED BY <1>1, <2>1, <2>3, <3>1, OthersAreSound DEF IInv, ReadersAreSound
  <2>5. TypeOK'
    BY <1>1, <1>2, <1>4, <2>1 DEF IInv, TypeOK, Stands
  <2>6. ReadAlone'
    BY <1>1, <2>1 DEF IInv, ReadAlone, Others, Binding, Bonded
  <2>7. ViaIsUsedUp' /\ OneBondPerClaim'
    <3>1. \A q \in Requests \ {r} : c \notin shared => ~(req'[q].at = "bond" /\ req'[q].claim = c)
      BY <1>1, <2>1 DEF IInv, ReadAlone, Others, Binding
    <3>2. \A v \in Users : c \notin shared => via[v] # c
      BY <1>1, <1>2, ReferralAssumption DEF IInv, ViaIsUsedUp, Stands
    <3>3. \A v \in Users \ {u} : via'[v] = via[v]
      BY <1>4 DEF IInv, TypeOK
    <3>4. via'[u] = c
      BY <1>2, <1>4 DEF IInv, TypeOK
    <3>5. ViaIsUsedUp'
      BY <1>1, <1>2, <2>1, <3>1, <3>3, <3>4 DEF IInv, ViaIsUsedUp, Others, Stands
    <3>6. OneBondPerClaim'
      BY <1>1, <3>2, <3>3, <3>4 DEF IInv, OneBondPerClaim
    <3> QED BY <3>5, <3>6
  <2>8. (RewardedByOne /\ RewardedOnce)'
    <3>1. /\ bond'[u] # NoUser /\ \A v \in Users \ {u} : bond'[v] = bond[v]
      BY <1>2, <1>4, ReferralAssumption DEF IInv, TypeOK
    <3>2. u \notin orphans => /\ asInvitee[u] = 0 /\ asInviter[u] = 0
                              /\ \A q \in Requests : ~(Bonded(q) /\ req[q].user = u)
      BY <1>2, <1>4 DEF IInv, TypeOK, RewardedByOne, WasBonded
    <3>3. \A q \in Requests \ {r} : req'[q] = req[q]
      BY <2>1 DEF Others
    <3>4. RewardedByOne'
      BY <1>1, <1>2, <2>1, <3>1, <3>2, <3>3 DEF IInv, RewardedByOne, WasBonded, Bonded
    <3> QED BY <1>1, <3>4 DEF IInv, RewardedOnce
  <2>9. InviterIsLive'
    <3>1. /\ bond'[u] = inviter[c] /\ via'[u] = c
          /\ \A v \in Users \ {u} : bond'[v] = bond[v] /\ via'[v] = via[v]
      BY <1>2, <1>4 DEF IInv, TypeOK
    <3> HIDE DEF u, c
    <3>2. \A v \in Users : bond'[v] # NoUser =>
            v \in live' /\ bond'[v] \in live' /\ Stands(via[v])' /\ bond'[v] = inviter'[via'[v]]
      BY <1>1, <1>2, <1>4, <3>1 DEF IInv, InviterIsLive, Stands
    <3>3. \A q \in Requests \ {r} : Bonded(q)' => Bonded(q) /\ req'[q] = req[q]
      BY <2>1 DEF Others, Bonded
    <3>4. bond'[u] # NoUser
      BY <1>4, <3>1, ReferralAssumption DEF IInv, TypeOK
    <3>5. \A q \in Requests : Bonded(q) => req[q].user \in Users
      BY DEF IInv, TypeOK, ReadersAreSound, ReadsWhatStands, Bonded, Claiming
    <3> QED BY <1>1, <2>1, <3>1, <3>2, <3>3, <3>4, <3>5 DEF IInv, InviterIsLive
  <2>10. RewardIsDue'
    <3>1. ASSUME NEW v \in live, v # u
          PROVE  bond'[v] = bond[v]
      BY <1>4, <3>1 DEF IInv, TypeOK
    <3>2. \A q \in Requests : Bonded(q) => req'[q] = req[q]
      BY <1>1, <2>1 DEF Others, Bonded
    <3>3. bond'[u] = inviter[c] /\ c \in Claims
      BY <1>2, <1>4 DEF IInv, TypeOK, Stands
    <3> QED BY <1>1, <1>2, <2>1, <3>1, <3>2, <3>3 DEF IInv, TypeOK, RewardIsDue, Bonded
  <2> QED BY <2>3, <2>4, <2>5, <2>6, <2>7, <2>8, <2>9, <2>10 DEF IInv
<1> QED BY <1>3, <1>4 DEF InsertUserReferral

\* The claim of the bond is not pending any more.
LEMMA MarkReferralClaimSuccessKeepsIInv ==
  ASSUME IInv, NEW r \in Requests, MarkReferralClaimSuccess(r)
  PROVE  IInv'
<1> DEFINE c == req[r].claim
<1>1. /\ req[r].at = "mark" /\ Binding(r) /\ Goto(r, "inviter")
      /\ status' = IF status[c] = "pending" THEN [status EXCEPT ![c] = "success"] ELSE status
      /\ UNCHANGED <<users, age, inviter, invitee, rewards, crowded, faults>>
  BY DEF MarkReferralClaimSuccess, Binding, Bonded
<1>2. /\ Others(r) /\ req' \in [Requests -> Request]
      /\ req'[r].at = "inviter" /\ req'[r].user = req[r].user /\ req'[r].claim = c
      /\ req'[r].hope = req[r].hope /\ req'[r].number = req[r].number
  BY <1>1, GotoMoves DEF IInv, Labels, Granting
<1>3. Stands(c)
  BY <1>1 DEF IInv, ReadersAreSound, ReadsWhatStands
<1>4. /\ status' \in [Claims -> Statuses] /\ status'[c] # "pending" /\ Stands(c)'
      /\ \A d \in Claims : \/ status'[d] = status[d]
                           \/ status[d] = "pending" /\ status'[d] \in {"success", "failed"}
  BY <1>1, <1>2, <1>3 DEF IInv, TypeOK, Statuses, Stands
<1>5. ~AskedBy(r)' /\ Bonded(r)' /\ Binding(r)'
  BY <1>2 DEF AskedBy, Binding, Bonded, Claiming
<1> HIDE DEF c
<1>6. AskedOnce' /\ AskedInLimit' /\ ClaimsStand
  BY <1>1, <1>2, <1>4, <1>5, BindersKeepClaims
<1>7. ReadersAreSound'
  <2>1. ReadsWhatStands(r)'
    BY <1>1, <1>2, <1>3, <1>4, <1>5, <1>6
    DEF IInv, ReadersAreSound, ReadsWhatStands, Stands, ClaimsStand, Claiming
  <2> QED BY <1>1, <1>2, <1>6, <2>1, OthersAreSound DEF IInv, ReadersAreSound
<1>8. TypeOK'
  BY <1>1, <1>2, <1>4 DEF IInv, TypeOK
<1>9. ReadAlone'
  BY <1>1, <1>2, <1>5 DEF IInv, ReadAlone, Others, Binding, Bonded, c
<1>10. (ViaIsUsedUp /\ OneBondPerClaim)'
  BY <1>1, <1>2, <1>3, <1>4 DEF IInv, ViaIsUsedUp, OneBondPerClaim, Others, Stands, c
<1>11. (RewardedByOne /\ RewardedOnce)'
  BY <1>1, <1>2 DEF IInv, TypeOK, RewardedByOne, RewardedOnce, WasBonded, Bonded, Others
<1>12. InviterIsLive'
  BY <1>1, <1>2, <1>4 DEF IInv, TypeOK, InviterIsLive, Stands, Bonded, Others
<1>13. RewardIsDue'
  BY <1>1, <1>2 DEF IInv, TypeOK, RewardIsDue, Bonded, Others, c
<1> QED BY <1>6, <1>7, <1>8, <1>9, <1>10, <1>11, <1>12, <1>13 DEF IInv

\* A request that ends, or backs out, after it has read a claim: unmarked, it
\* leaves it shared.
LEMMA LeaveKeepsMost ==
  ASSUME IInv, NEW r \in Requests, BindingFails(r) \/ Return(r),
         ~AskedBy(r), req[r].at # "idle",
         UNCHANGED <<users, claims, bond, via, crowded>>,
         shared \subseteq shared', shared' \subseteq Claims,
         req[r].at = "mark" => req[r].claim \in shared'
  PROVE  /\ Others(r) /\ ~Binding(r)' /\ req' \in [Requests -> Request]
         /\ AskedOnce' /\ AskedInLimit' /\ ReadersAreSound'
         /\ ReadAlone' /\ ViaIsUsedUp' /\ OneBondPerClaim' /\ InviterIsLive'
<1>1. Others(r) /\ ~Binding(r)' /\ ~AskedBy(r)' /\ req' \in [Requests -> Request]
  BY BindingFailsMoves, ReturnMoves, IdleFields DEF IInv, AskedBy, Binding, Bonded, Claiming
<1>2. AskedOnce' /\ AskedInLimit' /\ ClaimsStand
  BY <1>1, BindersKeepClaims
<1>3. ReadersAreSound'
  BY <1>2, BackOut
<1>4. (ReadAlone /\ ViaIsUsedUp /\ OneBondPerClaim)'
  BY <1>1 DEF IInv, ReadAlone, ViaIsUsedUp, OneBondPerClaim, Others, Binding, Bonded, Stands
<1>5. InviterIsLive'
  BY <1>1 DEF IInv, InviterIsLive, Stands, Others, Binding, Bonded
<1> QED BY <1>1, <1>2, <1>3, <1>4, <1>5

\* The inviter is rewarded, or is gone and the bond with it.
LEMMA RewardInviterKeepsIInv ==
  ASSUME IInv, NEW r \in Requests, RewardInviter(r)
  PROVE  IInv'
<1> DEFINE u == req[r].user  c == req[r].claim
<1>1. /\ req[r].at = "inviter" /\ ~AskedBy(r) /\ Binding(r) /\ Bonded(r)
      /\ UNCHANGED <<users, claims, bond, asInvitee, via, shared, orphans, crowded, faults>>
  BY DEF RewardInviter, AskedBy, Claiming, Binding, Bonded
<1>2. u \in used /\ u \in Users /\ Stands(c)
  BY <1>1 DEF IInv, TypeOK, ReadersAreSound, ReadsWhatStands, Claiming
<1>3. CASE inviter[c] \notin live /\ BindingFails(r) /\ UNCHANGED asInviter
  <2>1. /\ Others(r) /\ ~Binding(r)' /\ req' \in [Requests -> Request]
        /\ AskedOnce' /\ AskedInLimit' /\ ReadersAreSound'
        /\ ReadAlone' /\ ViaIsUsedUp' /\ OneBondPerClaim' /\ InviterIsLive'
    BY <1>1, <1>3, LeaveKeepsMost DEF IInv, TypeOK
  <2>2. TypeOK'
    BY <1>1, <1>3, <2>1 DEF IInv, TypeOK
  <2>3. (RewardedByOne /\ RewardedOnce)'
    BY <1>1, <1>3, <2>1
    DEF IInv, RewardedByOne, RewardedOnce, WasBonded, Bonded, Binding, Others
  <2>4. RewardIsDue'
    BY <1>1, <1>3, <2>1 DEF IInv, TypeOK, RewardIsDue, InviterIsLive, Bonded, Others
  <2> QED BY <2>1, <2>2, <2>3, <2>4 DEF IInv
<1>4. CASE /\ inviter[c] \in live
           /\ asInviter' = [asInviter EXCEPT ![u] = @ + 1] /\ Goto(r, "invitee")
  <2>1. /\ Others(r) /\ req' \in [Requests -> Request]
        /\ req'[r].at = "invitee" /\ req'[r].user = u /\ req'[r].claim = c
        /\ req'[r].hope = req[r].hope /\ req'[r].number = req[r].number
    BY <1>4, GotoMoves DEF IInv, Labels, Granting
  <2>2. ~AskedBy(r)' /\ Bonded(r)' /\ Binding(r)'
    BY <2>1 DEF AskedBy, Binding, Bonded, Claiming
  <2>3. AskedOnce' /\ AskedInLimit' /\ ClaimsStand
    BY <1>1, <2>1, <2>2, BindersKeepClaims
  <2>4. ReadersAreSound'
    <3>1. ReadsWhatStands(r)'
      BY <1>1, <1>2, <2>1, <2>2 DEF IInv, ReadersAreSound, ReadsWhatStands, Stands
    <3> QED BY <1>1, <2>1, <2>3, <3>1, OthersAreSound DEF IInv, ReadersAreSound
  <2>5. TypeOK'
    BY <1>1, <1>2, <1>4, <2>1 DEF IInv, TypeOK
  <2>6. (ReadAlone /\ ViaIsUsedUp /\ OneBondPerClaim)'
    BY <1>1, <1>2, <2>1
    DEF IInv, ReadAlone, ViaIsUsedUp, OneBondPerClaim, Others, Binding, Bonded, Stands
  <2>7. (RewardedByOne /\ RewardedOnce)'
    <3>1. /\ asInviter'[u] = asInviter[u] + 1 /\ asInviter[u] \in Nat
          /\ \A v \in Users \ {u} : asInviter'[v] = asInviter[v]
      BY <1>2, <1>4 DEF IInv, TypeOK
    <3>2. u \notin orphans => WasBonded(u) /\ asInvitee[u] = 0 /\ asInviter[u] = 0
      BY <1>1, <1>2 DEF IInv, RewardedByOne
    <3> QED BY <1>1, <1>2, <2>1, <3>1, <3>2
        DEF IInv, RewardedByOne, RewardedOnce, WasBonded, Bonded, Others
  <2>8. InviterIsLive'
    BY <1>1, <2>1 DEF IInv, TypeOK, InviterIsLive, Stands, Others, Bonded
  <2>9. RewardIsDue'
    <3>1. /\ asInviter'[u] > 0
          /\ \A v \in Users : asInviter[v] > 0 => asInviter'[v] > 0
      BY <1>2, <1>4 DEF IInv, TypeOK
    <3> QED BY <1>1, <1>2, <2>1, <3>1 DEF IInv, TypeOK, RewardIsDue, Others, Bonded
  <2> QED BY <2>3, <2>4, <2>5, <2>6, <2>7, <2>8, <2>9 DEF IInv
<1> QED BY <1>3, <1>4 DEF RewardInviter

\* The invitee is rewarded, or is gone.
LEMMA RewardInviteeKeepsIInv ==
  ASSUME IInv, NEW r \in Requests, RewardInvitee(r)
  PROVE  IInv'
<1> DEFINE u == req[r].user
<1>1. /\ req[r].at = "invitee" /\ ~AskedBy(r) /\ Binding(r) /\ Bonded(r)
      /\ BindingFails(r) \/ Return(r)
      /\ UNCHANGED <<users, claims, bond, asInviter, via, shared, orphans, crowded, faults>>
  BY DEF RewardInvitee, AskedBy, Claiming, Binding, Bonded
<1>2. u \in used /\ u \in Users
  BY <1>1 DEF IInv, TypeOK, ReadersAreSound, ReadsWhatStands, Claiming
<1>3. /\ Others(r) /\ ~Binding(r)' /\ req' \in [Requests -> Request]
      /\ AskedOnce' /\ AskedInLimit' /\ ReadersAreSound'
      /\ ReadAlone' /\ ViaIsUsedUp' /\ OneBondPerClaim' /\ InviterIsLive'
  BY <1>1, LeaveKeepsMost DEF IInv, TypeOK
<1>4. CASE u \notin live /\ UNCHANGED asInvitee
  <2>1. TypeOK'
    BY <1>1, <1>3, <1>4 DEF IInv, TypeOK
  <2>2. (RewardedByOne /\ RewardedOnce)'
    BY <1>1, <1>3, <1>4
    DEF IInv, RewardedByOne, RewardedOnce, WasBonded, Bonded, Binding, Others
  <2>3. RewardIsDue'
    BY <1>1, <1>3, <1>4 DEF IInv, TypeOK, RewardIsDue, Bonded, Others
  <2> QED BY <1>3, <2>1, <2>2, <2>3 DEF IInv
<1>5. CASE u \in live /\ asInvitee' = [asInvitee EXCEPT ![u] = @ + 1]
  <2>1. TypeOK'
    BY <1>1, <1>2, <1>3, <1>5 DEF IInv, TypeOK
  <2>2. /\ asInvitee'[u] = asInvitee[u] + 1 /\ asInvitee[u] \in Nat
        /\ \A v \in Users \ {u} : asInvitee'[v] = asInvitee[v]
    BY <1>2, <1>5 DEF IInv, TypeOK
  <2>3. (RewardedByOne /\ RewardedOnce)'
    <3>1. u \notin orphans => WasBonded(u) /\ asInvitee[u] = 0
      BY <1>1, <1>2 DEF IInv, RewardedByOne
    <3>2. \A q \in Requests : Bonded(q)' => Bonded(q) /\ req'[q] = req[q] /\ q # r
      BY <1>3 DEF Others, Binding, Bonded
    <3>3. u \notin orphans => \A q \in Requests : Bonded(q)' => req'[q].user # u
      BY <1>1, <1>2, <3>2 DEF IInv, RewardedByOne
    <3> HIDE DEF u
    <3>4. RewardedByOne'
      BY <1>1, <1>2, <2>2, <3>1, <3>2, <3>3 DEF IInv, RewardedByOne, WasBonded
    <3>5. RewardedOnce'
      BY <1>1, <1>2, <2>2, <3>1 DEF IInv, RewardedOnce
    <3> QED BY <3>4, <3>5
  <2>4. RewardIsDue'
    BY <1>1, <1>2, <1>3, <2>2 DEF IInv, TypeOK, RewardIsDue, Bonded, Others
  <2> QED BY <1>3, <2>1, <2>3, <2>4 DEF IInv
<1> QED BY <1>4, <1>5 DEF RewardInvitee

-----------------------------------------------------------------------------
(***************************************************************************)
(* Failures, deletions and time.                                           *)
(***************************************************************************)
\* A call fails.
LEMMA CallFailsKeepsIInv ==
  ASSUME IInv, NEW r \in Requests, CallFails(r)
  PROVE  IInv'
<1>1. /\ faults' = faults + 1 /\ faults' \in 0 .. MaxFaults /\ faults \in Nat
      /\ BindingFails(r) \/ Return(r)
      /\ ~AskedBy(r) /\ req[r].at # "idle"
      /\ UNCHANGED <<users, claims, bond, asInvitee, asInviter, via, orphans, crowded>>
      /\ shared' = IF req[r].at = "mark" THEN shared \cup {req[r].claim} ELSE shared
  BY MayFailBelow DEF CallFails, IInv, TypeOK, AskedBy, Claiming
<1>2. req[r].at = "mark" => req[r].claim \in Claims
  BY DEF IInv, ReadersAreSound, ReadsWhatStands, Stands, Binding, Bonded
<1>3. /\ Others(r) /\ ~Binding(r)' /\ req' \in [Requests -> Request]
      /\ AskedOnce' /\ AskedInLimit' /\ ReadersAreSound'
      /\ ReadAlone' /\ ViaIsUsedUp' /\ OneBondPerClaim' /\ InviterIsLive'
  BY <1>1, <1>2, LeaveKeepsMost DEF IInv, TypeOK
<1>4. TypeOK'
  BY <1>1, <1>2, <1>3 DEF IInv, TypeOK
<1>5. (RewardedByOne /\ RewardedOnce)'
  BY <1>1, <1>3 DEF IInv, RewardedByOne, RewardedOnce, WasBonded, Bonded, Binding, Others
<1>6. RewardIsDue'
  BY <1>1 DEF RewardIsDue
<1> QED BY <1>3, <1>4, <1>5, <1>6 DEF IInv

\* A restart forgets the requests, and the claims they asked for.
LEMMA CrashKeepsIInv ==
  ASSUME IInv, Crash
  PROVE  IInv'
<1>1. /\ faults' = faults + 1 /\ faults' \in 0 .. MaxFaults /\ faults \in Nat
      /\ req' = [r \in Requests |-> Idle]
      /\ UNCHANGED <<users, bond, asInvitee, asInviter, via, orphans, crowded>>
      /\ shared' = shared \cup {req[r].claim : r \in {q \in Requests : req[q].at = "mark"}}
  BY MayFailBelow DEF Crash, IInv, TypeOK
<1>2. /\ status' = [c \in Claims |-> IF status[c] = "asked" THEN "none" ELSE status[c]]
      /\ age' = [c \in Claims |-> IF status[c] = "asked" THEN "today" ELSE age[c]]
      /\ inviter' = [c \in Claims |-> IF status[c] = "asked" THEN NoUser ELSE inviter[c]]
      /\ invitee' = [c \in Claims |-> IF status[c] = "asked" THEN NoPhone ELSE invitee[c]]
  BY DEF Crash, Forget
<1>3. \A r \in Requests : /\ req'[r] = Idle /\ req'[r].at = "idle" /\ req'[r].hope = NoClaim
                          /\ ~AskedBy(r)' /\ ~Binding(r)' /\ ~Bonded(r)'
  BY <1>1, IdleFields DEF AskedBy, Binding, Bonded, Claiming
<1>4. \A r \in Requests : req[r].at = "mark" => req[r].claim \in Claims
  BY DEF IInv, ReadersAreSound, ReadsWhatStands, Stands, Binding, Bonded
<1>5. TypeOK'
  BY <1>1, <1>2, <1>4, IdleFields DEF IInv, TypeOK, Statuses, Ages
<1>6. AskedOnce'
  BY <1>2, <1>3 DEF IInv, TypeOK, AskedOnce
<1>7. AskedInLimit'
  <2>1. \A i \in Users : AskedToday(i)' \subseteq AskedToday(i)
    BY <1>2 DEF AskedToday, IInv, TypeOK
  <2> QED BY <1>1, <2>1, LimitStays DEF IInv
<1>8. ReadersAreSound' /\ ReadAlone'
  BY <1>1, <1>3 DEF IInv, ReadersAreSound, ReadsWhatStands, ReadAlone
<1>9. (ViaIsUsedUp /\ OneBondPerClaim)'
  BY <1>1, <1>2, <1>3 DEF IInv, ViaIsUsedUp, OneBondPerClaim, Stands
<1>10. (RewardedByOne /\ RewardedOnce)'
  BY <1>1, <1>3 DEF IInv, RewardedByOne, RewardedOnce, WasBonded
<1>11. (InviterIsLive /\ RewardIsDue)'
  BY <1>1, <1>2, <1>3 DEF IInv, TypeOK, InviterIsLive, RewardIsDue, Stands
<1> QED BY <1>5, <1>6, <1>7, <1>8, <1>9, <1>10, <1>11 DEF IInv

\* An account is deleted, with its claims and bonds.
LEMMA DeleteUserKeepsIInv ==
  ASSUME IInv, NEW u \in Users, DeleteUser(u)
  PROVE  IInv'
<1>1. /\ u \in live /\ live' = live \ {u} /\ used' = used
      /\ status' = [c \in Claims |->
                     IF inviter[c] = u /\ status[c] \in {"pending", "success", "failed"}
                     THEN "deleted" ELSE status[c]]
      /\ bond' = [v \in Users |-> IF v = u \/ bond[v] = u THEN NoUser ELSE bond[v]]
      /\ orphans' = orphans \cup {v \in Users : bond[v] = u}
      /\ UNCHANGED <<age, inviter, invitee, asInvitee, asInviter, via, shared, crowded, req,
                     faults>>
  BY DEF DeleteUser
<1>2. TypeOK'
  BY <1>1 DEF DeleteUser, IInv, TypeOK, Statuses
<1>3. AskedOnce' /\ AskedInLimit'
  BY <1>1, QuietForAskers DEF IInv, TypeOK, Labelled, AskedBy
<1>4. ClaimsStand
  BY <1>1 DEF IInv, TypeOK, ClaimsStand, Stands
<1>5. ReadersAreSound'
  BY <1>1, <1>4
  DEF IInv, ReadersAreSound, ReadsWhatStands, ClaimsStand, Stands, Binding, Bonded, AskedBy
<1>6. (ReadAlone /\ ViaIsUsedUp /\ OneBondPerClaim)'
  BY <1>1 DEF IInv, ReadAlone, ViaIsUsedUp, OneBondPerClaim, Stands, Binding, Bonded
<1>7. (RewardedByOne /\ RewardedOnce)'
  BY <1>1 DEF IInv, RewardedByOne, RewardedOnce, WasBonded, Bonded
<1>8. InviterIsLive'
  <2>1. ASSUME NEW v \in Users, bond'[v] # NoUser
        PROVE  v \in live' /\ bond'[v] \in live' /\ Stands(via[v])' /\ bond'[v] = inviter'[via'[v]]
    BY <1>1, <2>1 DEF IInv, InviterIsLive, Stands
  <2>2. ASSUME NEW c \in Claims, status'[c] \in {"pending", "success", "failed"}
        PROVE  inviter'[c] \in live'
    BY <1>1, <2>2 DEF IInv, InviterIsLive
  <2>3. ASSUME NEW r \in Requests, Bonded(r)'
        PROVE  \/ bond'[req'[r].user] # NoUser \/ req'[r].user \notin live'
               \/ \E c \in Claims : status'[c] = "deleted"
    <3> DEFINE v == req[r].user
    <3>1. Bonded(r) /\ v \in Users
      BY <1>1, <2>3 DEF Bonded, IInv, TypeOK, ReadersAreSound, ReadsWhatStands, Claiming
    <3>2. CASE bond[v] = u
      <4>1. Stands(via[v]) /\ inviter[via[v]] = u
        BY <3>1, <3>2, ReferralAssumption DEF IInv, InviterIsLive
      <4>2. status'[via[v]] = "deleted"
        BY <1>1, <4>1 DEF Stands, IInv, TypeOK, Statuses
      <4> QED BY <4>1, <4>2 DEF Stands
    <3>3. CASE v = u \/ v \notin live
      BY <1>1, <3>3
    <3>4. CASE bond[v] # u /\ bond[v] # NoUser /\ v # u
      BY <1>1, <3>1, <3>4
    <3>5. CASE \E c \in Claims : status[c] = "deleted"
      BY <1>1, <3>5
    <3> QED BY <3>1, <3>2, <3>3, <3>4, <3>5 DEF IInv, InviterIsLive
  <2> QED BY <2>1, <2>2, <2>3 DEF InviterIsLive
<1>9. RewardIsDue'
  BY <1>1 DEF IInv, TypeOK, RewardIsDue, Bonded
<1> QED BY <1>2, <1>3, <1>5, <1>6, <1>7, <1>8, <1>9 DEF IInv

\* A claim is older than a day.
LEMMA ClaimExpiresKeepsIInv ==
  ASSUME IInv, NEW c \in Claims, ClaimExpires(c)
  PROVE  IInv'
<1> USE DEF ClaimExpires
<1>1. TypeOK'
  BY DEF IInv, TypeOK, Ages
<1>2. AskedOnce' /\ AskedInLimit'
  BY QuietForAskers DEF IInv, TypeOK, AskedBy
<1>3. (ReadersAreSound /\ BindInv)'
  BY DEF IInv, BindInv, ReadersAreSound, ReadsWhatStands, ReadAlone, ViaIsUsedUp, OneBondPerClaim,
     RewardedByOne, RewardedOnce, WasBonded, InviterIsLive, RewardIsDue, Stands, Bonded, Binding,
     AskedBy
<1> QED BY <1>1, <1>2, <1>3 DEF IInv, BindInv

\* At midnight nothing has been made today.
LEMMA DayPassesKeepsIInv ==
  ASSUME IInv, DayPasses
  PROVE  IInv'
<1> USE DEF DayPasses
<1>1. TypeOK'
  BY DEF IInv, TypeOK, Ages
<1>2. AskedOnce'
  BY DEF IInv, AskedOnce, AskedBy
<1>3. AskedInLimit'
  <2>1. \A i \in Users : AskedToday(i)' = {}
    BY DEF IInv, TypeOK, AskedToday
  <2> QED BY <2>1, FS_EmptySet, ReferralAssumption DEF AskedInLimit
<1>4. (ReadersAreSound /\ BindInv)'
  BY DEF IInv, BindInv, ReadersAreSound, ReadsWhatStands, ReadAlone, ViaIsUsedUp, OneBondPerClaim,
     RewardedByOne, RewardedOnce, WasBonded, InviterIsLive, RewardIsDue, Stands, Bonded, Binding,
     AskedBy
<1> QED BY <1>1, <1>2, <1>3, <1>4 DEF IInv, BindInv

-----------------------------------------------------------------------------
(***************************************************************************)
(* The inductive invariant.                                                *)
(***************************************************************************)
\* Nobody has been invited.
LEMMA InitIInv == Init => IInv
<1> SUFFICES ASSUME Init
             PROVE  IInv
  OBVIOUS
<1> USE ReferralAssumption, IdleFields DEF Init
<1>1. TypeOK
  BY DEF TypeOK, Statuses, Ages
<1>2. AskedOnce /\ ReadersAreSound
  BY DEF AskedOnce, ReadersAreSound, ReadsWhatStands, AskedBy, Binding, Bonded, Claiming
<1>3. AskedInLimit
  <2>1. \A i \in Users : AskedToday(i) = {}
    BY DEF AskedToday
  <2>2. IsFiniteSet({}) /\ Cardinality({}) = 0
    BY FS_EmptySet
  <2> QED BY <2>1, <2>2 DEF AskedInLimit
<1>4. ReadAlone /\ ViaIsUsedUp /\ OneBondPerClaim
  BY DEF ReadAlone, ViaIsUsedUp, OneBondPerClaim, Binding, Bonded
<1>5. RewardedByOne /\ RewardedOnce /\ InviterIsLive /\ RewardIsDue
  BY DEF RewardedByOne, RewardedOnce, InviterIsLive, RewardIsDue, Bonded
<1> QED BY <1>1, <1>2, <1>3, <1>4, <1>5 DEF IInv

\* Every step.
LEMMA NextKeepsIInv ==
  ASSUME IInv, [Next]_vars
  PROVE  IInv'
<1>1. ASSUME NEW r \in Requests, Ask(r)
      PROVE  IInv'
  BY <1>1, CountClaimsKeepsIInv, ChecksKeepIInv, InsertClaimKeepsIInv DEF Ask
<1>2. ASSUME NEW r \in Requests, Arrive(r)
      PROVE  IInv'
  BY <1>2, RegisterPhoneKeepsIInv, RegisterThirdPartyKeepsIInv, HadPhoneKeepsIInv,
     ReferralAssumption DEF Arrive
<1>3. ASSUME NEW r \in Requests, Bind(r)
      PROVE  IInv'
  BY <1>3, PatchUserProfileKeepsIInv, OnPhoneBoundKeepsIInv, WelcomeBonusKeepsIInv,
     FindClaimKeepsIInv, InsertUserReferralKeepsIInv, MarkReferralClaimSuccessKeepsIInv,
     RewardInviterKeepsIInv, RewardInviteeKeepsIInv DEF Bind
<1>4. CASE UNCHANGED vars
  <2>1. (TypeOK /\ AskedOnce /\ AskedInLimit)'
    BY <1>4 DEF vars, IInv, TypeOK, AskedOnce, AskedInLimit, AskedToday, AskedBy
  <2>2. ReadersAreSound'
    BY <1>4 DEF vars, IInv, ReadersAreSound, ReadsWhatStands, Stands, Bonded, Binding, AskedBy
  <2>3. BindInv'
    BY <1>4 DEF vars, IInv, BindInv, ReadAlone, ViaIsUsedUp, OneBondPerClaim, RewardedByOne,
       RewardedOnce, WasBonded, InviterIsLive, RewardIsDue, Stands, Bonded, Binding
  <2> QED BY <2>1, <2>2, <2>3 DEF IInv, BindInv
<1> QED BY <1>1, <1>2, <1>3, <1>4, CallFailsKeepsIInv, CrashKeepsIInv, DeleteUserKeepsIInv,
           ClaimExpiresKeepsIInv, DayPassesKeepsIInv DEF Next

\* Which is therefore always so.
LEMMA AlwaysIInv == Spec => []IInv
  BY InitIInv, NextKeepsIInv, PTL DEF Spec

-----------------------------------------------------------------------------
(***************************************************************************)
(* The theorems.                                                           *)
(***************************************************************************)
\* Every variable keeps its type, and the faults stay within their bound.
THEOREM TypeCorrect == Spec => []TypeOK
<1>1. IInv => TypeOK
  BY DEF IInv
<1> QED BY <1>1, AlwaysIInv, PTL

\* The limit of a day holds for every inviter who was not asked twice at once
\* (referral_handlers.go:86-94).
THEOREM LimitHolds == Spec => []DailyLimitHolds
<1>1. IInv => DailyLimitHolds
  <2> SUFFICES ASSUME IInv, NEW i \in Users \ crowded
               PROVE  Cardinality(MadeToday(i)) <= DailyLimit
    BY DEF DailyLimitHolds
  <2>1. MadeToday(i) \subseteq AskedToday(i)
    BY DEF MadeToday, AskedToday
  <2>2. IsFiniteSet(AskedToday(i)) /\ Cardinality(AskedToday(i)) <= DailyLimit
    BY DEF IInv, AskedInLimit
  <2>3. /\ Cardinality(MadeToday(i)) <= Cardinality(AskedToday(i))
        /\ Cardinality(MadeToday(i)) \in Nat /\ Cardinality(AskedToday(i)) \in Nat
    BY <2>1, <2>2, FS_Subset, FS_CardinalityType
  <2> QED BY <2>2, <2>3, ReferralAssumption
<1> QED BY <1>1, AlwaysIInv, PTL

\* A claim that is not shared bonds one account (referral.go:110-115).
THEOREM ClaimBondsOne == Spec => []OneBondPerClaim
<1>1. IInv => OneBondPerClaim
  BY DEF IInv
<1> QED BY <1>1, AlwaysIInv, PTL

\* The key of user_referrals makes a reward come once, however many requests of
\* an account bind at the same time.
THEOREM RewardComesOnce == Spec => []RewardedOnce
<1>1. IInv => RewardedOnce
  BY DEF IInv
<1> QED BY <1>1, AlwaysIInv, PTL

\* And without a failure it comes (referral.go:110-133).
THEOREM RewardComes == Spec => []BondIsRewarded
<1>1. IInv => BondIsRewarded
  BY DEF IInv, RewardIsDue, BondIsRewarded
<1> QED BY <1>1, AlwaysIInv, PTL

\* A request moves by itself.
LEMMA OneMoves ==
  ASSUME IInv, NEW q \in Requests, Ask(q) \/ Arrive(q) \/ Bind(q) \/ CallFails(q)
  PROVE  Others(q)
<1> USE DEF Others, Goto, Return, Start, IInv, TypeOK
<1>1. BindingFails(q) => Others(q)
  BY DEF BindingFails
<1>2. CASE Ask(q)
  BY <1>2 DEF Ask, CountClaims, PhoneIsNew, NotReferred, InsertClaim, Refuse
<1>3. CASE Arrive(q)
  BY <1>3 DEF Arrive, RegisterPhone, RegisterThirdParty, HadPhone
<1>4. CASE Bind(q)
  BY <1>1, <1>4 DEF Bind, PatchUserProfile, OnPhoneBound, WelcomeBonus, FindClaim,
     InsertUserReferral, MarkReferralClaimSuccess, RewardInviter, RewardInvitee
<1>5. CASE CallFails(q)
  BY <1>1, <1>5 DEF CallFails
<1> QED BY <1>2, <1>3, <1>4, <1>5

\* A request with a number backs out of the number only.
LEMMA BacksOutByNumber ==
  ASSUME NEW r \in Requests, TypeOK, BindingFails(r), req'[r] = Idle, req[r].number # NoPhone
  PROVE  req[r].token = NoClaim
<1> DEFINE again == [Idle EXCEPT !.at = "find", !.user = req[r].user,
                                 !.number = req[r].number, !.hope = req[r].hope]
<1>1. again.at = "find"
  BY DEF Idle
<1>2. ASSUME req[r].token # NoClaim
      PROVE  req'[r] = again
  BY <1>2 DEF BindingFails, TypeOK
<1> QED BY <1>1, <1>2, IdleFields

\* An account that got its number while a claim on it was pending is bonded at
\* the end (referral.go:20-75), whatever other requests do meanwhile: the claim
\* it hoped for, or another one on the number, is there to be found.
THEOREM InvitedAreBonded == Spec => InvitedIsBonded
<1> DEFINE Ends(r) ==
      LET u == req[r].user  c == req[r].hope IN
      c # NoClaim /\ req'[r] = Idle =>
        \/ bond'[u] # NoUser
        \/ faults' > 0 \/ u \notin live \/ \E d \in Claims : status[d] = "deleted" \/ inviter[d] = u
        \/ status'[c] # "pending" \/ ~InWindow(c)
<1>1. ASSUME IInv, [Next]_vars, NEW r \in Requests, req[r].hope # NoClaim, req'[r] = Idle
      PROVE  Ends(r)
  <2> DEFINE u == req[r].user  c == req[r].hope
  <2>1. /\ ~AskedBy(r) /\ req[r].at # "idle" /\ req[r].number # NoPhone
        /\ Stands(c) /\ invitee[c] = req[r].number
    BY <1>1 DEF IInv, ReadersAreSound, ReadsWhatStands
  <2>2. req'[r] # req[r] /\ req[r] # Idle /\ req'[r].at = "idle"
    BY <1>1, <2>1, IdleFields
  <2>3. CASE Bind(r)
    <3>1. CASE PatchUserProfile(r)
      <4>1. ASSUME NEW h \in Hopes(req[r].number),
                   req' = [req EXCEPT ![r].at = "bound", ![r].hope = h]
            PROVE  FALSE
        <5>1. req'[r] = [req[r] EXCEPT !.at = "bound", !.hope = h]
          BY <1>1, <4>1 DEF IInv, TypeOK
        <5>2. [req[r] EXCEPT !.at = "bound", !.hope = h].at = "bound"
          BY <1>1 DEF IInv, TypeOK, Request
        <5> QED BY <2>2, <5>1, <5>2
      <4> QED BY <3>1, <4>1 DEF PatchUserProfile
    <3>2. CASE OnPhoneBound(r)
      BY <1>1, <2>2, <3>2, GotoMoves DEF OnPhoneBound, IInv, Labels
    <3>3. CASE WelcomeBonus(r)
      BY <1>1, <2>2, <3>3, GotoMoves DEF WelcomeBonus, IInv, Labels
    <3>4. CASE FindClaim(r)
      <4>1. ASSUME NEW d \in Claims, req' = [req EXCEPT ![r].at = "bond", ![r].claim = d]
            PROVE  FALSE
        <5>1. req'[r] = [req[r] EXCEPT !.at = "bond", !.claim = d]
          BY <1>1, <4>1 DEF IInv, TypeOK
        <5>2. [req[r] EXCEPT !.at = "bond", !.claim = d].at = "bond"
          BY <1>1 DEF IInv, TypeOK, Request
        <5> QED BY <2>2, <5>1, <5>2
      <4>2. BindingFails(r) /\ UNCHANGED bond
        BY <1>1, <3>4, <4>1 DEF FindClaim, Pending, IInv, TypeOK, Request
      <4>3. req[r].token = NoClaim
        BY <1>1, <2>1, <4>2, BacksOutByNumber DEF IInv
      <4>4. CASE Pending(req[r].number) = {} /\ UNCHANGED status
        BY <2>1, <4>4 DEF Pending, Stands
      <4>5. CASE \E d \in Pending(req[r].number) : ~Bindable(r, d)
        BY <4>2, <4>5 DEF Pending, Bindable
      <4> QED BY <3>4, <4>1, <4>3, <4>4, <4>5 DEF FindClaim, Pending
    <3>5. CASE InsertUserReferral(r)
      <4>1. Stands(req[r].claim)
        BY <1>1, <3>5 DEF InsertUserReferral, IInv, ReadersAreSound, ReadsWhatStands, Binding
      <4>2. inviter[req[r].claim] \in live \/ status[req[r].claim] = "deleted"
        BY <1>1, <4>1 DEF IInv, TypeOK, Statuses, InviterIsLive, Stands
      <4> QED BY <1>1, <2>2, <3>5, <4>1, <4>2, GotoMoves
              DEF InsertUserReferral, IInv, Labels, Stands
    <3>6. CASE MarkReferralClaimSuccess(r)
      BY <1>1, <2>2, <3>6, GotoMoves DEF MarkReferralClaimSuccess, IInv, Labels, Granting
    <3>7. CASE RewardInviter(r)
      <4>1. Stands(req[r].claim)
        BY <1>1, <3>7 DEF RewardInviter, IInv, ReadersAreSound, ReadsWhatStands, Binding, Bonded
      <4>2. inviter[req[r].claim] \in live \/ status[req[r].claim] = "deleted"
        BY <1>1, <4>1 DEF IInv, TypeOK, Statuses, InviterIsLive, Stands
      <4> QED BY <1>1, <2>2, <3>7, <4>1, <4>2, GotoMoves
              DEF RewardInviter, IInv, Labels, Granting, Stands
    <3>8. CASE RewardInvitee(r)
      BY <1>1, <3>8 DEF RewardInvitee, IInv, InviterIsLive, Bonded
    <3> QED BY <2>3, <3>1, <3>2, <3>3, <3>4, <3>5, <3>6, <3>7, <3>8 DEF Bind
  <2>4. CASE CallFails(r) \/ Crash
    BY <1>1, <2>4 DEF CallFails, Crash, IInv, TypeOK
  <2>5. ~Ask(r) /\ ~Arrive(r)
    BY <2>1, <2>2, IdleFields DEF Ask, Arrive, CountClaims, PhoneIsNew, NotReferred, InsertClaim,
       RegisterPhone, RegisterThirdParty, HadPhone, Start, AskedBy, Claiming
  <2>6. ASSUME NEW q \in Requests, Ask(q) \/ Arrive(q) \/ Bind(q) \/ CallFails(q), q # r
        PROVE  FALSE
    BY <1>1, <2>2, <2>6, OneMoves DEF Others
  <2>7. ~((\E v \in Users : DeleteUser(v)) \/ (\E d \in Claims : ClaimExpires(d)) \/ DayPasses)
    BY <2>2 DEF DeleteUser, ClaimExpires, DayPasses
  <2> QED BY <1>1, <2>2, <2>3, <2>4, <2>5, <2>6, <2>7 DEF Next, vars
<1>2. IInv /\ [Next]_vars => [\A r \in Requests : Ends(r)]_vars
  BY <1>1
<1> QED BY <1>2, AlwaysIInv, PTL DEF Spec, InvitedIsBonded
=============================================================================
