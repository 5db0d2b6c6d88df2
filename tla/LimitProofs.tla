----------------------------- MODULE LimitProofs -----------------------------
(***************************************************************************)
(* The two limits of the server.  Of wrong administration passwords, for   *)
(* any number of addresses and overlapping attempts and any limit: how     *)
(* many an address gets, that a ban is earned, and that it stays.  Of text *)
(* messages, for any clients, keys, limit and window: that the counter is  *)
(* exact, but for what an undo takes from others, and the quota with it.   *)
(***************************************************************************)
EXTENDS AdminLogin, SmsQuota, FiniteSetTheorems, SequenceTheorems,
        WellFoundedInduction, TLAPS

\* The attempts of an address that have passed the check.
Passed(a) == {r \in Attempts : pc[r] = "password" /\ ip[r] = a}

\* Up to the ban, the count is what was guessed, but for what could not be
\* recorded; from then on, the attempts that have passed are all that can still
\* guess.
AddsUp(a) ==
  /\ ~banned[a] =>
       /\ failures[a] <= Limit - 2
       /\ failures[a] <= guesses[a] /\ guesses[a] <= failures[a] + faults
  /\ banned[a] =>
       /\ guesses[a] >= Limit - 1
       /\ guesses[a] + Cardinality(Passed(a))
            <= (Limit - 1) + (Cardinality(Attempts) - 1) + faults

IInv == TypeOK /\ \A a \in IPs : AddsUp(a)

LEMMA PassedIsFinite ==
  ASSUME NEW a
  PROVE  /\ IsFiniteSet(Passed(a)) /\ Cardinality(Passed(a)) \in Nat
         /\ Cardinality(Attempts) \in Nat
<1>1. Passed(a) \subseteq Attempts
  BY DEF Passed
<1> QED  BY <1>1, FS_Subset, FS_CardinalityType, AdminAssumption

LEMMA InitIInv == Init => IInv
<1> SUFFICES ASSUME Init  PROVE IInv
  OBVIOUS
<1>1. 0 \in 0..MaxGuesses /\ 0 \in 0..Limit /\ 0 \in 0..MaxFaults
  BY AdminAssumption, FS_CardinalityType DEF MaxGuesses
<1>2. TypeOK
  BY <1>1 DEF Init, TypeOK, Labels
<1>3. \A a \in IPs : AddsUp(a)
  BY AdminAssumption DEF Init, AddsUp
<1> QED  BY <1>2, <1>3 DEF IInv

\* An attempt that had passed and returns or goes on is no longer one of those.
LEMMA PassedShrinks ==
  ASSUME TypeOK, NEW r \in Attempts, pc[r] = "password",
         \A q \in Attempts \ {r} : pc'[q] = pc[q] /\ ip'[q] = ip[q],
         pc'[r] # "password", NEW a
  PROVE  /\ Cardinality(Passed(a)') \in Nat
         /\ Cardinality(Passed(a)') <= Cardinality(Passed(a))
         /\ a = ip[r] => Cardinality(Passed(a)') = Cardinality(Passed(a)) - 1
         /\ Cardinality(Passed(a)') <= Cardinality(Attempts) - 1
<1>1. Passed(a)' = Passed(a) \ {r}
  BY DEF Passed
<1>2. IsFiniteSet(Passed(a)) /\ IsFiniteSet(Attempts) /\ Cardinality(Attempts) \in Nat
      /\ Cardinality(Passed(a)) \in Nat
  BY PassedIsFinite, AdminAssumption
<1>3. /\ IsFiniteSet(Passed(a) \ {r})
      /\ Cardinality(Passed(a) \ {r}) = IF r \in Passed(a) THEN Cardinality(Passed(a)) - 1
                                        ELSE Cardinality(Passed(a))
  BY <1>2, FS_RemoveElement
<1>4. /\ IsFiniteSet(Attempts \ {r})
      /\ Cardinality(Attempts \ {r}) = Cardinality(Attempts) - 1
  BY <1>2, FS_RemoveElement
<1>5. Cardinality(Passed(a) \ {r}) <= Cardinality(Attempts \ {r})
  <2>1. Passed(a) \ {r} \subseteq Attempts \ {r}
    BY DEF Passed
  <2> QED  BY <2>1, <1>4, FS_Subset
<1>6. a = ip[r] => r \in Passed(a)
  BY DEF Passed
<1>7. Cardinality(Passed(a) \ {r}) \in Nat
  BY <1>3, FS_CardinalityType
<1> QED  BY <1>1, <1>2, <1>3, <1>4, <1>5, <1>6, <1>7

\* Nothing but the control of one attempt changes, which has not passed.
LEMMA PassedStays ==
  ASSUME TypeOK, NEW r \in Attempts, NEW a,
         \A q \in Attempts \ {r} : pc'[q] = pc[q] /\ ip'[q] = ip[q],
         ~(pc[r] = "password" /\ ip[r] = a), ~(pc'[r] = "password" /\ ip'[r] = a)
  PROVE  Passed(a)' = Passed(a)
BY DEF Passed

\* What an upsert does to the row of a, and to no other.
LEMMA UpsertRow ==
  ASSUME IInv, NEW a \in IPs, Upsert(a)
  PROVE  /\ known' \subseteq IPs
         /\ failures' \in [IPs -> 0..Limit] /\ banned' \in [IPs -> BOOLEAN]
         /\ \A b \in IPs \ known' : failures'[b] = 0 /\ ~banned'[b]
         /\ \A b \in IPs \ {a} : failures'[b] = failures[b] /\ banned'[b] = banned[b]
         /\ banned[a] => banned'[a]
         /\ ~banned[a] /\ ~banned'[a] => failures'[a] = failures[a] + 1 /\ failures'[a] <= Limit - 2
         /\ ~banned[a] /\ banned'[a] => failures[a] = Limit - 2
<1>1. CASE banned[a]
  BY <1>1 DEF Upsert, guard, IInv, TypeOK
<1>2. CASE ~banned[a]
  <2>1. failures[a] \in 0..Limit /\ failures[a] <= Limit - 2
    BY <1>2 DEF IInv, AddsUp, TypeOK
  <2>2. /\ known' = known \cup {a}
        /\ failures' = [failures EXCEPT ![a] = failures[a] + 1]
        /\ banned' = [banned EXCEPT ![a] = a \in known /\ failures'[a] + 1 >= Limit]
    BY <1>2 DEF Upsert
  <2>3. failures[a] + 1 \in 0..Limit
    BY <2>1, AdminAssumption
  <2>4. failures' \in [IPs -> 0..Limit] /\ failures'[a] = failures[a] + 1
    BY <2>2, <2>3 DEF IInv, TypeOK
  <2>5. banned' \in [IPs -> BOOLEAN]
    BY <2>2 DEF IInv, TypeOK
  <2>6. banned'[a] <=> a \in known /\ failures'[a] + 1 >= Limit
    BY <2>2 DEF IInv, TypeOK
  <2>7. \A b \in IPs \ {a} : failures'[b] = failures[b] /\ banned'[b] = banned[b]
    BY <2>2 DEF IInv, TypeOK
  <2>8. \A b \in IPs \ known' : failures'[b] = 0 /\ ~banned'[b]
    BY <2>2, <2>7 DEF IInv, TypeOK
  <2>9. a \notin known => failures[a] = 0
    BY DEF IInv, TypeOK
  <2>10. known' \subseteq IPs
    BY <2>2 DEF IInv, TypeOK
  <2>11. ~banned'[a] => failures'[a] <= Limit - 2
    BY <2>1, <2>4, <2>6, <2>9, AdminAssumption
  <2>12. banned'[a] => failures[a] = Limit - 2
    BY <2>1, <2>4, <2>6, AdminAssumption
  <2> QED  BY <1>2, <2>4, <2>5, <2>7, <2>8, <2>10, <2>11, <2>12
<1> QED  BY <1>1, <1>2

\* A guess of a, if they are counted, is one more.
LEMMA GuessCounts ==
  ASSUME IInv, NEW a \in IPs, Guess(a)
  PROVE  /\ guesses' \in [IPs -> 0..MaxGuesses]
         /\ \A b \in IPs \ {a} : guesses'[b] = guesses[b]
         /\ guesses'[a] \in Nat /\ guesses[a] \in Nat
         /\ guesses[a] <= guesses'[a] /\ guesses'[a] <= guesses[a] + 1
         /\ guesses'[a] > guesses[a] \/ guesses'[a] >= Limit
<1>1. MaxGuesses \in Nat /\ MaxGuesses >= Limit
  BY AdminAssumption, FS_CardinalityType DEF MaxGuesses
<1>2. guesses \in [IPs -> 0..MaxGuesses]
  BY DEF IInv, TypeOK
<1> QED  BY <1>1, <1>2, AdminAssumption DEF Guess

\* What an attempt does with itself.
AttemptsOK ==
  /\ pc \in [Attempts -> Labels]
  /\ ip \in [Attempts -> IPs \cup {NoIP}]
  /\ \A r \in Attempts : pc[r] = "idle" <=> ip[r] = NoIP

\* A wrong password of an attempt that had passed, recorded or not.
LEMMA GuessKeepsIInv ==
  ASSUME IInv, NEW r \in Attempts, pc[r] = "password", pc'[r] # "password",
         \A q \in Attempts \ {r} : pc'[q] = pc[q] /\ ip'[q] = ip[q],
         AttemptsOK', Guess(ip[r]), faults' \in 0..MaxFaults,
         \/ Upsert(ip[r]) /\ faults' \in {faults, faults + 1}
         \/ UNCHANGED guard /\ faults' = faults + 1
  PROVE  IInv'
<1>1. PICK a \in IPs : a = ip[r]
  BY AdminAssumption DEF IInv, TypeOK
<1>b. /\ Guess(a)
      /\ \/ Upsert(a) /\ faults' \in {faults, faults + 1}
         \/ UNCHANGED guard /\ faults' = faults + 1
  BY <1>1
<1>2. /\ guesses' \in [IPs -> 0..MaxGuesses]
      /\ \A b \in IPs \ {a} : guesses'[b] = guesses[b]
      /\ guesses'[a] \in Nat /\ guesses[a] \in Nat
      /\ guesses[a] <= guesses'[a] /\ guesses'[a] <= guesses[a] + 1
      /\ guesses'[a] > guesses[a] \/ guesses'[a] >= Limit
  BY <1>b, GuessCounts
<1>3. /\ known' \subseteq IPs
      /\ failures' \in [IPs -> 0..Limit] /\ banned' \in [IPs -> BOOLEAN]
      /\ \A b \in IPs \ known' : failures'[b] = 0 /\ ~banned'[b]
      /\ \A b \in IPs \ {a} : failures'[b] = failures[b] /\ banned'[b] = banned[b]
      /\ banned[a] => banned'[a]
  <2>1. CASE Upsert(a)  BY <1>1, <2>1, UpsertRow
  <2>2. CASE UNCHANGED guard  BY <2>2 DEF guard, IInv, TypeOK
  <2> QED  BY <1>b, <2>1, <2>2
<1>4. TypeOK'
  BY <1>2, <1>3 DEF TypeOK, AttemptsOK
<1>5. \A b : /\ Cardinality(Passed(b)') \in Nat /\ Cardinality(Passed(b)) \in Nat
             /\ Cardinality(Passed(b)') <= Cardinality(Passed(b))
             /\ b = a => Cardinality(Passed(b)') = Cardinality(Passed(b)) - 1
             /\ Cardinality(Passed(b)') <= Cardinality(Attempts) - 1
  BY <1>1, PassedShrinks, PassedIsFinite DEF IInv
<1>6. Cardinality(Attempts) \in Nat /\ faults \in Nat /\ faults' \in Nat /\ faults <= faults'
  BY PassedIsFinite, AdminAssumption DEF IInv, TypeOK
<1>7. ASSUME NEW b \in IPs, b # a
      PROVE  AddsUp(b)'
  <2>1. guesses'[b] = guesses[b] /\ failures'[b] = failures[b] /\ banned'[b] = banned[b]
    BY <1>2, <1>3, <1>7
  <2>2. guesses[b] \in Nat /\ failures[b] \in Nat
    BY DEF IInv, TypeOK
  <2>3. CASE ~banned[b]
    BY <2>1, <2>2, <2>3, <1>6, AdminAssumption DEF IInv, AddsUp
  <2>4. CASE banned[b]
    BY <2>1, <2>2, <2>4, <1>5, <1>6, AdminAssumption DEF IInv, AddsUp
  <2> QED  BY <2>3, <2>4
<1>8. AddsUp(a)'
  <2>1. failures[a] \in Nat /\ failures'[a] \in Nat
    BY <1>1, <1>3 DEF IInv, TypeOK
  <2>2. ~banned[a] => /\ failures[a] <= Limit - 2
                      /\ failures[a] <= guesses[a] /\ guesses[a] <= failures[a] + faults
    BY <1>1 DEF IInv, AddsUp
  <2>3. banned[a] => /\ guesses[a] + Cardinality(Passed(a))
                          <= (Limit - 1) + (Cardinality(Attempts) - 1) + faults
                     /\ guesses[a] >= Limit - 1
    BY <1>1 DEF IInv, AddsUp
  <2>4. CASE banned[a]
    <3>1. /\ Cardinality(Passed(a)') \in Nat /\ Cardinality(Passed(a)) \in Nat
          /\ Cardinality(Passed(a)') = Cardinality(Passed(a)) - 1
      BY <1>1, <1>5
    <3>2. banned'[a]
      BY <2>4, <1>3
    <3> QED  BY <2>3, <2>4, <3>1, <3>2, <1>2, <1>6, AdminAssumption DEF AddsUp
  <2>5. CASE ~banned[a] /\ Upsert(a) /\ faults' \in {faults, faults + 1}
    <3>1. /\ ~banned'[a] => failures'[a] = failures[a] + 1 /\ failures'[a] <= Limit - 2
          /\ banned'[a] => failures[a] = Limit - 2
      BY <1>1, <2>5, UpsertRow
    <3>2. /\ Cardinality(Passed(a)') \in Nat
          /\ Cardinality(Passed(a)') <= Cardinality(Attempts) - 1
      BY <1>1, <1>5
    <3> QED  BY <3>1, <3>2, <2>1, <2>2, <2>5, <1>2, <1>6, AdminAssumption DEF AddsUp
  <2>6. CASE ~banned[a] /\ UNCHANGED guard /\ faults' = faults + 1
    <3>1. failures'[a] = failures[a] /\ ~banned'[a]
      BY <2>6 DEF guard
    <3> QED  BY <3>1, <2>1, <2>2, <2>6, <1>2, <1>6, AdminAssumption DEF AddsUp
  <2> QED  BY <1>b, <2>4, <2>5, <2>6
<1>9. \A b \in IPs : AddsUp(b)'
  BY <1>7, <1>8
<1> QED  BY <1>4, <1>9 DEF IInv

\* The right password, its failures reset or not.
LEMMA ResetKeepsIInv ==
  ASSUME IInv, NEW r \in Attempts, pc[r] = "password", pc'[r] # "password",
         \A q \in Attempts \ {r} : pc'[q] = pc[q] /\ ip'[q] = ip[q],
         AttemptsOK', faults' \in 0..MaxFaults, faults <= faults',
         UNCHANGED <<known, banned>>,
         \/ ResetAdminLoginFailures(ip[r]) /\ guesses' = Forgiven(ip[r])
         \/ UNCHANGED <<failures, guesses>>
  PROVE  IInv'
<1>1. PICK a \in IPs : a = ip[r]
  BY AdminAssumption DEF IInv, TypeOK
<1>b. \/ ResetAdminLoginFailures(a) /\ guesses' = Forgiven(a)
      \/ UNCHANGED <<failures, guesses>>
  BY <1>1
<1>2. /\ failures' \in [IPs -> 0..Limit] /\ guesses' \in [IPs -> 0..MaxGuesses]
      /\ \A b \in IPs :
           \/ failures'[b] = failures[b] /\ guesses'[b] = guesses[b]
           \/ ~banned[b] /\ failures'[b] = 0 /\ guesses'[b] = 0
  <2>1. 0 \in 0..Limit /\ 0 \in 0..MaxGuesses
    BY AdminAssumption, FS_CardinalityType DEF MaxGuesses
  <2>2. CASE UNCHANGED <<failures, guesses>>  BY <2>2 DEF IInv, TypeOK
  <2>3. CASE ResetAdminLoginFailures(a) /\ guesses' = Forgiven(a)
    BY <1>1, <2>1, <2>3 DEF ResetAdminLoginFailures, Forgiven, IInv, TypeOK
  <2> QED  BY <1>b, <2>2, <2>3
<1>3. TypeOK'
  BY <1>2 DEF IInv, TypeOK, AttemptsOK
<1>4. \A b : /\ Cardinality(Passed(b)') \in Nat /\ Cardinality(Passed(b)) \in Nat
             /\ Cardinality(Passed(b)') <= Cardinality(Passed(b))
  BY PassedShrinks, PassedIsFinite DEF IInv
<1>5. Cardinality(Attempts) \in Nat /\ faults \in Nat /\ faults' \in Nat
  BY PassedIsFinite, AdminAssumption DEF IInv, TypeOK
<1>6. ASSUME NEW b \in IPs
      PROVE  AddsUp(b)'
  <2>1. guesses[b] \in Nat /\ failures[b] \in Nat /\ banned'[b] = banned[b]
    BY DEF IInv, TypeOK
  <2>2. CASE ~banned[b]
    BY <2>1, <2>2, <1>2, <1>5, AdminAssumption DEF IInv, AddsUp
  <2>3. CASE banned[b]
    BY <2>1, <2>3, <1>2, <1>4, <1>5, AdminAssumption DEF IInv, AddsUp
  <2> QED  BY <2>2, <2>3
<1> QED  BY <1>3, <1>6 DEF IInv

LEMMA StepIInv ==
  ASSUME IInv, [Next]_vars
  PROVE  IInv'
<1>1. ASSUME NEW r \in Attempts, NEW a \in IPs, Begin(r, a)
      PROVE  IInv'
  <2>1. TypeOK'
    BY <1>1, AdminAssumption DEF Begin, IInv, TypeOK, Labels, guard
  <2>2. \A b \in IPs : banned[b] => Passed(b)' = Passed(b)
    BY <1>1, PassedStays DEF Begin, IsAdminIPBanned, IInv, TypeOK
  <2> QED  BY <1>1, <2>1, <2>2 DEF Begin, guard, IInv, AddsUp
<1>2. ASSUME NEW r \in Attempts, RecordAdminLoginFailure(r)
      PROVE  IInv'
  <2>1. AttemptsOK'
    BY <1>2, AdminAssumption DEF RecordAdminLoginFailure, Return, AttemptsOK, IInv, TypeOK, Labels
  <2>2. /\ pc[r] = "password" /\ pc'[r] # "password"
        /\ \A q \in Attempts \ {r} : pc'[q] = pc[q] /\ ip'[q] = ip[q]
    BY <1>2 DEF RecordAdminLoginFailure, Return, IInv, TypeOK
  <2> QED
    BY <1>2, <2>1, <2>2, GuessKeepsIInv DEF RecordAdminLoginFailure, IInv, TypeOK
<1>3. ASSUME NEW r \in Attempts, RecordFails(r)
      PROVE  IInv'
  <2>1. AttemptsOK'
    BY <1>3, AdminAssumption DEF RecordFails, Fault, Return, AttemptsOK, IInv, TypeOK, Labels
  <2>2. /\ pc[r] = "password" /\ pc'[r] # "password"
        /\ \A q \in Attempts \ {r} : pc'[q] = pc[q] /\ ip'[q] = ip[q]
        /\ faults' = faults + 1 /\ faults' \in 0..MaxFaults
    BY <1>3, AdminAssumption DEF RecordFails, Fault, Return, IInv, TypeOK
  <2> QED  BY <1>3, <2>1, <2>2, GuessKeepsIInv DEF RecordFails
<1>4. ASSUME NEW r \in Attempts, Login(r) \/ ResetFails(r)
      PROVE  IInv'
  <2>1. AttemptsOK'
    BY <1>4, AdminAssumption DEF Login, ResetFails, Fault, Return, AttemptsOK, IInv, TypeOK, Labels
  <2>2. /\ pc[r] = "password" /\ pc'[r] # "password"
        /\ \A q \in Attempts \ {r} : pc'[q] = pc[q] /\ ip'[q] = ip[q]
        /\ faults' \in 0..MaxFaults /\ faults <= faults'
    BY <1>4, AdminAssumption DEF Login, ResetFails, Fault, Return, IInv, TypeOK
  <2>3. /\ UNCHANGED <<known, banned>>
        /\ \/ ResetAdminLoginFailures(ip[r]) /\ guesses' = Forgiven(ip[r])
           \/ UNCHANGED <<failures, guesses>>
    BY <1>4 DEF Login, ResetFails
  <2> QED  BY <2>1, <2>2, <2>3, ResetKeepsIInv
<1>5. ASSUME NEW r \in Attempts, Reread(r)
      PROVE  IInv'
  <2>1. TypeOK'
    BY <1>5, AdminAssumption DEF Reread, Return, IInv, TypeOK, Labels, guard
  <2>2. \A b : Passed(b)' = Passed(b)
    BY <1>5, PassedStays DEF Reread, Return, IInv, TypeOK
  <2> QED  BY <1>5, <2>1, <2>2 DEF Reread, guard, IInv, AddsUp
<1>6. ASSUME UNCHANGED vars
      PROVE  IInv'
  BY <1>6 DEF vars, guard, attempts, IInv, TypeOK, AddsUp, Passed
<1> QED
  BY <1>1, <1>2, <1>3, <1>4, <1>5, <1>6 DEF Next, HandleAdminLogin

\* Every variable has its type.
THEOREM TypeCorrect == Spec => []TypeOK
<1>1. IInv => TypeOK  BY DEF IInv
<1> QED  BY <1>1, InitIInv, StepIInv, PTL DEF Spec

\* The wrong passwords of an address are bounded by the limit, the other
\* attempts and the statements that failed (admin_handlers.go:42).
THEOREM GuessesBounded == Spec => []GuessesAreBounded
<1>1. ASSUME IInv, NEW a \in IPs, Attempts # {}
      PROVE  guesses[a] <= (Limit - 1) + (Cardinality(Attempts) - 1) + faults
  <2>1. Cardinality(Passed(a)) \in Nat /\ Cardinality(Attempts) \in Nat \ {0}
    BY <1>1, PassedIsFinite, FS_EmptySet, AdminAssumption
  <2>2. guesses[a] \in Nat /\ failures[a] \in Nat /\ faults \in Nat
    BY <1>1 DEF IInv, TypeOK
  <2>3. CASE banned[a]
    BY <1>1, <2>1, <2>2, <2>3, AdminAssumption DEF IInv, AddsUp
  <2>4. CASE ~banned[a]
    BY <1>1, <2>1, <2>2, <2>4, AdminAssumption DEF IInv, AddsUp
  <2> QED  BY <2>3, <2>4
<1>2. IInv => GuessesAreBounded
  BY <1>1, AdminAssumption DEF GuessesAreBounded
<1> QED  BY <1>2, InitIInv, StepIInv, PTL DEF Spec

\* A ban takes one wrong password less than the limit, since the last right one
\* (admin_login_guard.go:40, :60).
THEOREM BanEarned == Spec => []BanIsEarned
<1>1. IInv => BanIsEarned  BY DEF IInv, AddsUp, BanIsEarned
<1> QED  BY <1>1, InitIInv, StepIInv, PTL DEF Spec

\* A ban stays (admin_login_guard.go:41).
THEOREM BanPermanent == Spec => BanIsPermanent
<1>1. ASSUME IInv, Next, NEW a \in IPs, banned[a]
      PROVE  banned'[a]
  <2>1. ASSUME NEW r \in Attempts, pc[r] = "password", Upsert(ip[r])
        PROVE  banned'[a]
    <3>1. ip[r] \in IPs
      BY <1>1, <2>1, AdminAssumption DEF IInv, TypeOK
    <3> QED  BY <1>1, <2>1, <3>1, UpsertRow
  <2> QED
    BY <1>1, <2>1 DEF Next, HandleAdminLogin, Begin, RecordAdminLoginFailure, Reread, Login,
                      RecordFails, ResetFails, guard
<1>2. IInv /\ [Next]_vars => [\A a \in IPs : banned[a] => banned'[a]]_vars
  BY <1>1
<1> QED  BY <1>2, InitIInv, StepIInv, PTL DEF Spec, BanIsPermanent

-----------------------------------------------------------------------------
(***************************************************************************)
(* The quota of text messages.  pruneKey is a loop, so what it keeps is    *)
(* found by induction over its rounds.                                     *)
(***************************************************************************)
\* Induction over the naturals, for a set of them.
LEMMA SetInduction ==
  ASSUME NEW S, 0 \in S, \A n \in Nat : n \in S => n + 1 \in S
  PROVE  Nat \subseteq S
<1> SUFFICES ASSUME Nat \ S # {}  PROVE FALSE
  OBVIOUS
<1> DEFINE R == {ss \in Nat \X Nat : ss[1] < ss[2]}
<1>1. IsWellFoundedOn(R, Nat)
  BY NatLessThanWellFounded DEF OpToRel
<1>2. PICK x \in Nat \ S : \A y \in Nat \ S : ~(<<y, x>> \in R)
  <2> HIDE DEF R
  <2> QED BY <1>1, WFMin
<1>3. x # 0 /\ x - 1 \in Nat
  BY <1>2
<1>4. x - 1 \in Nat \ S
  BY <1>3
<1>5. <<x - 1, x>> \in R
  BY <1>2, <1>3
<1> QED BY <1>2, <1>4, <1>5

\* What the loop of pruneKey has kept after n stamps.
KeptStep(ts, f, i) ==
  IF i = 0 THEN <<>>
  ELSE IF InWindow(ts[i]) THEN Append(f[i - 1], ts[i]) ELSE f[i - 1]

\* The loop is well defined: every number of its rounds has a result,
LEMMA LoopEnds ==
  ASSUME NEW ts, NEW m \in Nat
  PROVE  \E f : f = [i \in 0..m |-> KeptStep(ts, f, i)]
<1> DEFINE S == {n \in Nat : \E f : f = [i \in 0..n |-> KeptStep(ts, f, i)]}
<1>1. 0 \in S
  <2> DEFINE f == [i \in 0..0 |-> <<>>]
  <2>1. f = [i \in 0..0 |-> KeptStep(ts, f, i)]
    BY DEF KeptStep
  <2> QED BY <2>1
<1>2. ASSUME NEW n \in Nat, n \in S PROVE n + 1 \in S
  <2>1. PICK f : f = [i \in 0..n |-> KeptStep(ts, f, i)]
    BY <1>2
  <2> DEFINE g == [i \in 0..n + 1 |-> IF i \in 0..n THEN f[i] ELSE KeptStep(ts, f, i)]
  <2>2. ASSUME NEW i \in 0..n + 1 PROVE g[i] = KeptStep(ts, g, i)
    <3>1. CASE i = 0
      BY <2>1, <3>1 DEF KeptStep
    <3>2. CASE i # 0
      <4>1. i - 1 \in 0..n /\ g[i - 1] = f[i - 1]
        BY <3>2
      <4>2. KeptStep(ts, g, i) = KeptStep(ts, f, i)
        BY <4>1, <3>2 DEF KeptStep
      <4>3. g[i] = KeptStep(ts, f, i)
        <5> HIDE DEF KeptStep
        <5>1. CASE i \in 0..n  BY <2>1, <5>1
        <5>2. CASE i \notin 0..n  BY <5>2
        <5> QED BY <5>1, <5>2
      <4> QED BY <4>2, <4>3
    <3> QED BY <3>1, <3>2
  <2>3. g = [i \in 0..n + 1 |-> KeptStep(ts, g, i)]
    <3> DEFINE h == [i \in 0..n + 1 |-> KeptStep(ts, g, i)]
    <3>1. \A i \in 0..n + 1 : g[i] = h[i]
      BY <2>2
    <3>2. DOMAIN g = DOMAIN h /\ DOMAIN g = 0..n + 1
      OBVIOUS
    <3>3. g = [i \in DOMAIN g |-> g[i]] /\ h = [i \in DOMAIN h |-> h[i]]
      OBVIOUS
    <3> HIDE DEF g, h
    <3>4. g = h BY <3>1, <3>2, <3>3
    <3> QED BY <3>4 DEF h
  <2> HIDE DEF g
  <2> QED BY <2>3
<1>3. Nat \subseteq S
  <2> HIDE DEF S
  <2> QED BY <1>1, <1>2, SetInduction
<1> QED BY <1>3

\* and it is what the definition says.
LEMMA KeptIsLoop ==
  ASSUME NEW ts, NEW m \in Nat
  PROVE  \E f : f = [i \in 0..m |-> KeptStep(ts, f, i)] /\ Kept(ts, m) = f[m]
<1> DEFINE f == CHOOSE g : g = [i \in 0..m |-> KeptStep(ts, g, i)]
<1>1. f = [i \in 0..m |-> KeptStep(ts, f, i)]
  <2>1. \E g : g = [i \in 0..m |-> KeptStep(ts, g, i)]
    BY LoopEnds
  <2> QED BY <2>1, Zenon
<1>2. Kept(ts, m) = f[m]
  BY DEF Kept, KeptStep
<1> QED BY <1>1, <1>2

-----------------------------------------------------------------------------
(***************************************************************************)
(* Counting stamps.                                                        *)
(***************************************************************************)
LEMMA SinceIsNat ==
  ASSUME NEW s \in Seq(Nat), NEW t
  PROVE  IsFiniteSet({i \in DOMAIN s : s[i] >= t}) /\ Since(s, t) \in Nat
<1>1. DOMAIN s = 1..Len(s) /\ Len(s) \in Nat
  OBVIOUS
<1>2. IsFiniteSet(DOMAIN s)
  BY <1>1, FS_Interval
<1> QED BY <1>2, FS_Subset, FS_CardinalityType DEF Since

LEMMA SinceOfNone ==
  ASSUME NEW t
  PROVE  Since(<<>>, t) = 0
<1>1. {i \in DOMAIN <<>> : <<>>[i] >= t} = {}
  OBVIOUS
<1> QED BY <1>1, FS_EmptySet DEF Since

\* A stamp more counts if it is recent.
LEMMA SinceOneMore ==
  ASSUME NEW s \in Seq(Nat), NEW x \in Nat, NEW t \in Nat
  PROVE  Since(Append(s, x), t) = IF x >= t THEN Since(s, t) + 1 ELSE Since(s, t)
<1> DEFINE a == Append(s, x)
           A == {i \in DOMAIN s : s[i] >= t}
           B == {i \in DOMAIN a : a[i] >= t}
<1>1. /\ DOMAIN a = 1..Len(s) + 1 /\ DOMAIN s = 1..Len(s) /\ Len(s) \in Nat
      /\ \A i \in 1..Len(s) : a[i] = s[i]
      /\ a[Len(s) + 1] = x
  OBVIOUS
<1>2. IsFiniteSet(A) /\ Cardinality(A) \in Nat
  BY SinceIsNat DEF Since
<1>3. Len(s) + 1 \notin A
  BY <1>1
<1>6. Since(s, t) = Cardinality(A) /\ Since(a, t) = Cardinality(B)
  BY DEF Since
<1>4. ASSUME x >= t PROVE Cardinality(B) = Cardinality(A) + 1
  <2>1. B = A \cup {Len(s) + 1}
    <3> HIDE DEF a
    <3> QED BY <1>1, <1>4
  <2> QED BY <1>2, <1>3, <2>1, FS_AddElement
<1>5. ASSUME ~(x >= t) PROVE B = A
  <2> HIDE DEF a
  <2> QED BY <1>1, <1>5
<1> HIDE DEF A, B
<1> QED BY <1>4, <1>5, <1>6

-----------------------------------------------------------------------------
(***************************************************************************)
(* What pruning keeps: the stamps of the window, in their order.           *)
(***************************************************************************)
\* What the loop has got from the first n stamps.
Got(ts, kept, n) ==
  /\ kept \in Seq(Nat)
  /\ \A i \in DOMAIN kept : InWindow(kept[i])
  /\ \A i \in DOMAIN kept : \E j \in 1..n : kept[i] = ts[j]
  /\ \A i \in DOMAIN kept : \A j \in 1..i : kept[j] <= kept[i]
  /\ \A t \in Nat : InWindow(t) => Since(kept, t) = Since(SubSeq(ts, 1, n), t)

LEMMA OneMoreRound ==
  ASSUME now \in Nat, Window \in Nat,
         NEW ts \in Seq(Nat), NEW n \in Nat, n + 1 <= Len(ts),
         \A i, j \in 1..Len(ts) : i <= j => ts[i] <= ts[j],
         NEW kept, Got(ts, kept, n)
  PROVE  Got(ts, IF InWindow(ts[n + 1]) THEN Append(kept, ts[n + 1]) ELSE kept, n + 1)
<1> DEFINE x == ts[n + 1]
           a == Append(kept, x)
<1>1. x \in Nat /\ n + 1 \in 1..Len(ts) /\ Len(ts) \in Nat
  OBVIOUS
<1>2. kept \in Seq(Nat)
  BY DEF Got
<1>3. /\ SubSeq(ts, 1, n) \in Seq(Nat)
      /\ SubSeq(ts, 1, n + 1) = Append(SubSeq(ts, 1, n), x)
  <2>1. 1..n \subseteq 1..Len(ts) /\ 1..n + 1 \subseteq 1..Len(ts)
    BY <1>1
  <2> QED BY <1>1, <2>1
<1>4. \A t \in Nat : Since(SubSeq(ts, 1, n + 1), t)
                        = IF x >= t THEN Since(SubSeq(ts, 1, n), t) + 1
                          ELSE Since(SubSeq(ts, 1, n), t)
  <2> DEFINE u == SubSeq(ts, 1, n)
  <2> HIDE DEF x, u
  <2>1. u \in Seq(Nat) /\ SubSeq(ts, 1, n + 1) = Append(u, x)
    BY <1>3 DEF u
  <2>2. \A t \in Nat : Since(Append(u, x), t) = IF x >= t THEN Since(u, t) + 1 ELSE Since(u, t)
    BY <1>1, <2>1, SinceOneMore
  <2> QED BY <2>1, <2>2 DEF u
<1>5. \A t \in Nat : Since(SubSeq(ts, 1, n), t) \in Nat
  BY <1>3, SinceIsNat
<1>6. CASE InWindow(x)
  <2>1. /\ a \in Seq(Nat) /\ DOMAIN a = 1..Len(kept) + 1 /\ DOMAIN kept = 1..Len(kept)
        /\ Len(kept) \in Nat
        /\ \A i \in 1..Len(kept) : a[i] = kept[i]
        /\ a[Len(kept) + 1] = x
    BY <1>1, <1>2
  <2>2. \A i \in DOMAIN kept : \E j \in 1..n + 1 : kept[i] = ts[j]
    BY DEF Got
  <2>3. ASSUME NEW i \in DOMAIN kept PROVE kept[i] <= x
    <3>1. PICK j \in 1..n : kept[i] = ts[j]
      BY DEF Got
    <3>2. j \in 1..Len(ts) /\ j <= n + 1
      BY <1>1
    <3> QED BY <1>1, <3>1, <3>2
  <2>4. \A t \in Nat : Since(a, t) = IF x >= t THEN Since(kept, t) + 1 ELSE Since(kept, t)
    <3> HIDE DEF x
    <3> QED BY <1>1, <1>2, SinceOneMore
  <2>5. \A t \in Nat : InWindow(t) => Since(a, t) = Since(SubSeq(ts, 1, n + 1), t)
    BY <1>4, <2>4 DEF Got
  <2>6. Got(ts, a, n + 1)
    <3>1. \A i \in DOMAIN a : InWindow(a[i])
      <4> SUFFICES ASSUME NEW i \in 1..Len(kept) + 1 PROVE InWindow(a[i])
        BY <2>1
      <4>1. CASE i \in 1..Len(kept)
        BY <2>1, <4>1 DEF Got
      <4>2. CASE i = Len(kept) + 1
        BY <1>6, <2>1, <4>2
      <4> QED BY <2>1, <4>1, <4>2
    <3>2. \A i \in DOMAIN a : \E j \in 1..n + 1 : a[i] = ts[j]
      <4> SUFFICES ASSUME NEW i \in 1..Len(kept) + 1
                   PROVE  \E j \in 1..n + 1 : a[i] = ts[j]
        BY <2>1
      <4>1. CASE i \in 1..Len(kept)
        BY <2>1, <2>2, <4>1
      <4>2. CASE i = Len(kept) + 1
        <5>1. n + 1 \in 1..n + 1 /\ a[i] = ts[n + 1]
          BY <2>1, <4>2
        <5> QED BY <5>1
      <4> QED BY <2>1, <4>1, <4>2
    <3>3. \A i \in DOMAIN a : \A j \in 1..i : a[j] <= a[i]
      <4> SUFFICES ASSUME NEW i \in 1..Len(kept) + 1, NEW j \in 1..i PROVE a[j] <= a[i]
        BY <2>1
      <4>1. CASE i \in 1..Len(kept)
        <5>1. j \in 1..Len(kept) /\ a[i] = kept[i] /\ a[j] = kept[j]
          BY <2>1, <4>1
        <5> QED BY <2>1, <4>1, <5>1 DEF Got
      <4>2. CASE i = Len(kept) + 1 /\ j \in 1..Len(kept)
        BY <2>1, <2>3, <4>2
      <4>3. CASE i = Len(kept) + 1 /\ j = Len(kept) + 1
        BY <1>1, <2>1, <4>3
      <4> QED BY <2>1, <4>1, <4>2, <4>3
    <3> QED BY <2>1, <2>5, <3>1, <3>2, <3>3 DEF Got
  <2> QED BY <1>6, <2>6
<1>7. CASE ~InWindow(x)
  <2>1. ASSUME NEW t \in Nat, InWindow(t) PROVE ~(x >= t)
    BY <1>1, <1>7, <2>1 DEF InWindow
  <2>2. \A t \in Nat : InWindow(t) => Since(kept, t) = Since(SubSeq(ts, 1, n + 1), t)
    <3> HIDE DEF x
    <3> QED BY <1>4, <1>5, <2>1 DEF Got
  <2>3. \A i \in DOMAIN kept : \E j \in 1..n + 1 : kept[i] = ts[j]
    BY DEF Got
  <2> QED BY <1>7, <2>2, <2>3 DEF Got
<1> QED BY <1>6, <1>7

LEMMA PruneKeepsTheWindow ==
  ASSUME now \in Nat, Window \in Nat, NEW ts \in Seq(Nat),
         \A i, j \in 1..Len(ts) : i <= j => ts[i] <= ts[j]
  PROVE  Got(ts, pruneKey(ts), Len(ts))
<1>1. Len(ts) \in Nat
  OBVIOUS
<1>2. PICK f : f = [i \in 0..Len(ts) |-> KeptStep(ts, f, i)] /\ pruneKey(ts) = f[Len(ts)]
  BY <1>1, KeptIsLoop DEF pruneKey
<1> DEFINE S == {n \in Nat : n <= Len(ts) => Got(ts, f[n], n)}
<1>3. 0 \in S
  <2>1. f[0] = <<>>
    BY <1>1, <1>2 DEF KeptStep
  <2>2. SubSeq(ts, 1, 0) = <<>>
    OBVIOUS
  <2>3. Got(ts, <<>>, 0)
    <3>1. <<>> \in Seq(Nat) /\ DOMAIN <<>> = {}
      OBVIOUS
    <3>2. \A t \in Nat : InWindow(t) => Since(<<>>, t) = Since(SubSeq(ts, 1, 0), t)
      BY <2>2
    <3> QED BY <3>1, <3>2 DEF Got
  <2> QED BY <2>1, <2>3
<1>4. ASSUME NEW n \in Nat, n \in S PROVE n + 1 \in S
  <2> SUFFICES ASSUME n + 1 <= Len(ts) PROVE Got(ts, f[n + 1], n + 1)
    OBVIOUS
  <2>1. f[n + 1] = IF InWindow(ts[n + 1]) THEN Append(f[n], ts[n + 1]) ELSE f[n]
    <3>1. n + 1 \in 0..Len(ts) /\ n + 1 # 0 /\ n + 1 - 1 = n
      BY <1>1
    <3>2. f[n + 1] = KeptStep(ts, f, n + 1)
      BY <1>2, <3>1
    <3> QED BY <3>1, <3>2 DEF KeptStep
  <2>2. Got(ts, f[n], n)
    BY <1>1, <1>4
  <2> QED BY <2>1, <2>2, OneMoreRound
<1>5. Nat \subseteq S
  <2> HIDE DEF S
  <2> QED BY <1>3, <1>4, SetInduction
<1> QED BY <1>1, <1>2, <1>5

\* The window opens at this moment, and what is live is what came since.
Opening == IF now < Window THEN 0 ELSE now - Window + 1

LEMMA WindowOpens ==
  ASSUME now \in Nat, Window \in Nat \ {0}
  PROVE  /\ Opening \in 0..now
         /\ \A x \in Nat : InWindow(x) <=> x >= Opening
         /\ \A s \in Seq(Nat) : Live(s) = Since(s, Opening)
<1>1. Opening \in 0..now /\ \A x \in Nat : InWindow(x) <=> x >= Opening
  BY DEF Opening, InWindow
<1>2. ASSUME NEW s \in Seq(Nat) PROVE Live(s) = Since(s, Opening)
  <2>1. \A i \in DOMAIN s : s[i] \in Nat
    OBVIOUS
  <2>2. {i \in DOMAIN s : InWindow(s[i])} = {i \in DOMAIN s : s[i] >= Opening}
    BY <1>1, <2>1
  <2> QED BY <2>2 DEF Live, Since
<1> QED BY <1>1, <1>2

LEMMA PruneCounts ==
  ASSUME QuotaTypeOK, NEW k \in Keys
  PROVE  /\ Pruned(k) \in Seq(Nat)
         /\ Len(Pruned(k)) = Live(events[k])
         /\ \A i \in DOMAIN Pruned(k) :
              Pruned(k)[i] <= now /\ \A j \in 1..i : Pruned(k)[j] <= Pruned(k)[i]
         /\ \A t \in Nat : InWindow(t) => Since(Pruned(k), t) = Since(events[k], t)
<1> DEFINE ts == events[k]
           p == Pruned(k)
<1>1. /\ now \in Nat /\ Window \in Nat \ {0} /\ ts \in Seq(Nat)
      /\ \A i \in 1..Len(ts) : ts[i] <= now
      /\ \A i, j \in 1..Len(ts) : i <= j => ts[i] <= ts[j]
  <2>1. now \in Nat /\ Window \in Nat \ {0} /\ ts \in Seq(Nat)
    BY QuotaAssumption DEF QuotaTypeOK
  <2>2. DOMAIN ts = 1..Len(ts)
    BY <2>1
  <2>3. ASSUME NEW i \in 1..Len(ts) PROVE ts[i] <= now /\ \A j \in 1..i : ts[j] <= ts[i]
    BY <2>2 DEF QuotaTypeOK
  <2>4. ASSUME NEW i \in 1..Len(ts), NEW j \in 1..Len(ts), i <= j PROVE ts[i] <= ts[j]
    <3>1. i \in 1..j
      BY <2>4
    <3> QED BY <2>3, <3>1
  <2> QED BY <2>1, <2>3, <2>4
<1> HIDE DEF ts
<1>2. Got(ts, p, Len(ts))
  BY <1>1, PruneKeepsTheWindow DEF Pruned, ts
<1>3. p \in Seq(Nat) /\ \A i \in DOMAIN p : InWindow(p[i])
  BY <1>2 DEF Got
<1>4. SubSeq(ts, 1, Len(ts)) = ts
  BY <1>1
<1>5. \A t \in Nat : InWindow(t) => Since(p, t) = Since(ts, t)
  BY <1>2, <1>4 DEF Got
<1>6. Len(p) = Live(p)
  <2>1. {i \in DOMAIN p : InWindow(p[i])} = 1..Len(p) /\ Len(p) \in Nat
    <3> HIDE DEF p
    <3> QED BY <1>3
  <2>2. Cardinality(1..Len(p)) = Len(p)
    <3> DEFINE n == Len(p)
    <3>1. n \in Int /\ 1 \in Int /\ n >= 0
      BY <2>1
    <3> HIDE DEF n
    <3>2. Cardinality(1..n) = IF 1 > n THEN 0 ELSE n - 1 + 1
      BY <3>1, FS_Interval
    <3>3. Cardinality(1..n) = n
      BY <3>1, <3>2
    <3> QED BY <3>3 DEF n
  <2> QED BY <2>1, <2>2 DEF Live
<1>7. Live(p) = Live(ts)
  BY <1>1, <1>3, <1>5, WindowOpens
<1>8. \A i \in DOMAIN p : p[i] <= now /\ \A j \in 1..i : p[j] <= p[i]
  BY <1>1, <1>2 DEF Got
<1> QED BY <1>3, <1>5, <1>6, <1>7, <1>8 DEF ts

-----------------------------------------------------------------------------
(***************************************************************************)
(* The texts on their way.                                                 *)
(***************************************************************************)
PendingOnes(k, t) ==
  {r \in Requests : client[r] # NoClient /\ k \in KeySet(client[r]) /\ stamp[r] >= t}

LEMMA PendingIsNat ==
  ASSUME NEW k, NEW t
  PROVE  /\ IsFiniteSet(PendingOnes(k, t)) /\ Cardinality(PendingOnes(k, t)) \in Nat
         /\ PendingSince(k, t) = Cardinality(PendingOnes(k, t))
<1>1. PendingOnes(k, t) \subseteq Requests /\ IsFiniteSet(Requests)
  BY QuotaAssumption DEF PendingOnes
<1> QED BY <1>1, FS_Subset, FS_CardinalityType DEF PendingOnes, PendingSince

\* A reservation adds one for each of its keys,
LEMMA PendingGrows ==
  ASSUME QuotaTypeOK, NEW r \in Requests, NEW c \in Clients, Reserve(r, c),
         NEW k, NEW t \in 0..now
  PROVE  PendingSince(k, t)' = IF k \in KeySet(c) THEN PendingSince(k, t) + 1
                               ELSE PendingSince(k, t)
<1>1. c # NoClient /\ client[r] = NoClient /\ r \notin PendingOnes(k, t) /\ now >= t
  BY QuotaAssumption DEF Reserve, PendingOnes, QuotaTypeOK
<1>2. /\ client' = [client EXCEPT ![r] = c] /\ stamp' = [stamp EXCEPT ![r] = now]
      /\ client \in [Requests -> Clients \cup {NoClient}] /\ stamp \in [Requests -> Nat]
  BY DEF Reserve, QuotaTypeOK
<1>3. PendingOnes(k, t)' = IF k \in KeySet(c) THEN PendingOnes(k, t) \cup {r} ELSE PendingOnes(k, t)
  BY <1>1, <1>2 DEF PendingOnes
<1>4. Cardinality(PendingOnes(k, t) \cup {r}) = Cardinality(PendingOnes(k, t)) + 1
  BY <1>1, PendingIsNat, FS_AddElement
<1>5. PendingSince(k, t)' = Cardinality(PendingOnes(k, t)')
  BY DEF PendingSince, PendingOnes
<1> QED BY <1>3, <1>4, <1>5, PendingIsNat

\* and its end takes it away again.
LEMMA PendingShrinks ==
  ASSUME QuotaTypeOK, NEW r \in Requests, client[r] # NoClient, Finish(r),
         NEW k, NEW t \in 0..now
  PROVE  /\ PendingSince(k, t)' \in Nat
         /\ PendingSince(k, t)' = IF k \in KeySet(client[r]) /\ stamp[r] >= t
                                  THEN PendingSince(k, t) - 1 ELSE PendingSince(k, t)
<1>1. /\ client' = [client EXCEPT ![r] = NoClient] /\ stamp' = [stamp EXCEPT ![r] = 0]
      /\ client \in [Requests -> Clients \cup {NoClient}] /\ stamp \in [Requests -> Nat]
  BY DEF Finish, QuotaTypeOK
<1>2. PendingOnes(k, t)' = PendingOnes(k, t) \ {r}
  BY <1>1 DEF PendingOnes
<1>3. r \in PendingOnes(k, t) <=> k \in KeySet(client[r]) /\ stamp[r] >= t
  BY DEF PendingOnes
<1>4. r \in PendingOnes(k, t) =>
        Cardinality(PendingOnes(k, t) \ {r}) = Cardinality(PendingOnes(k, t)) - 1
  BY PendingIsNat, FS_RemoveElement
<1>5. r \notin PendingOnes(k, t) => PendingOnes(k, t) \ {r} = PendingOnes(k, t)
  OBVIOUS
<1>6. PendingSince(k, t)' = Cardinality(PendingOnes(k, t)')
  BY DEF PendingSince, PendingOnes
<1>7. IsFiniteSet(PendingOnes(k, t) \ {r}) /\ Cardinality(PendingOnes(k, t) \ {r}) \in Nat
  BY PendingIsNat, FS_Subset, FS_CardinalityType
<1>8. PendingSince(k, t) = Cardinality(PendingOnes(k, t))
  BY PendingIsNat
<1> QED BY <1>2, <1>3, <1>4, <1>5, <1>6, <1>7, <1>8

-----------------------------------------------------------------------------
\* The first state satisfies the invariant.
LEMMA QuotaInitInv ==
  ASSUME QuotaInit PROVE QuotaInv
<1>2. \A k \in Keys : events[k] = <<>> /\ sent[k] = <<>> /\ dropped[k] = <<>>
  BY DEF QuotaInit
<1>1. QuotaTypeOK
  <2>1. <<>> \in Seq(Nat) /\ DOMAIN <<>> = {}
    OBVIOUS
  <2>2. /\ events \in [Keys -> Seq(Nat)] /\ sent \in [Keys -> Seq(Nat)]
        /\ dropped \in [Keys -> Seq(Nat)]
    BY <2>1 DEF QuotaInit
  <2>3. \A k \in Keys : DOMAIN events[k] = {}
    BY <1>2, <2>1
  <2>4. now = 0 /\ \A r \in Requests : stamp[r] = 0
    BY DEF QuotaInit
  <2>5. client \in [Requests -> Clients \cup {NoClient}] /\ stamp \in [Requests -> Nat]
    BY DEF QuotaInit
  <2>6. \A r \in Requests : stamp[r] <= now /\ (client[r] = NoClient => stamp[r] = 0)
    BY <2>4
  <2>7. now \in Nat
    BY <2>4
  <2> QED BY <2>2, <2>3, <2>5, <2>6, <2>7 DEF QuotaTypeOK
<1>3. \A k, t : PendingSince(k, t) = 0
  <2> SUFFICES ASSUME NEW k, NEW t PROVE PendingSince(k, t) = 0
    OBVIOUS
  <2>1. PendingOnes(k, t) = {}
    BY DEF QuotaInit, PendingOnes
  <2> QED BY <2>1, PendingIsNat, FS_EmptySet
<1>4. Balanced
  BY <1>2, <1>3, SinceOfNone DEF Balanced
<1>5. InLimit
  <2>1. now \in Nat /\ Window \in Nat \ {0} /\ PerWindow \in Nat /\ <<>> \in Seq(Nat)
    BY QuotaAssumption DEF QuotaInit
  <2>2. Live(<<>>) = 0
    BY <2>1, WindowOpens, SinceOfNone
  <2> QED BY <1>2, <2>1, <2>2 DEF InLimit
<1> QED BY <1>1, <1>2, <1>4, <1>5 DEF QuotaInv, PendingIsRecent, SentByNow, QuotaInit

\* Time only lets stamps leave the window.
LEMMA TickKeepsQuota ==
  ASSUME QuotaInv, Tick PROVE QuotaInv'
<1>1. now \in Nat /\ now' = now + 1 /\ Window \in Nat \ {0} /\ MaxSend \in Nat
  BY QuotaAssumption DEF Tick, QuotaInv, QuotaTypeOK
<1>2. UNCHANGED <<events, client, stamp, sent, dropped>>
  BY DEF Tick
<1>3. QuotaTypeOK'
  <2>1. \A k \in Keys : \A i \in DOMAIN events[k] : events[k][i] \in Nat
    BY DEF QuotaInv, QuotaTypeOK
  <2>2. \A k \in Keys : \A i \in DOMAIN events[k] : events[k][i] <= now + 1
    BY <1>1, <2>1 DEF QuotaInv, QuotaTypeOK
  <2>3. \A r \in Requests : stamp[r] <= now + 1
    BY <1>1 DEF QuotaInv, QuotaTypeOK
  <2> QED BY <1>1, <1>2, <2>2, <2>3 DEF QuotaInv, QuotaTypeOK
<1>4. Balanced'
  <2> SUFFICES ASSUME NEW k \in Keys, NEW t \in 0..now + 1, t + Window > now + 1
               PROVE  /\ Since(events[k], t) <= Since(sent[k], t) + PendingSince(k, t)
                      /\ Since(sent[k], t) + PendingSince(k, t) <= Since(events[k], t) + Since(dropped[k], t)
    BY <1>1, <1>2 DEF Balanced, InWindow, PendingSince, Since
  <2>1. CASE t \in 0..now
    BY <1>1, <2>1 DEF QuotaInv, Balanced, InWindow
  <2>2. CASE t = now + 1
    <3>1. {i \in DOMAIN events[k] : events[k][i] >= t} = {}
      BY <1>1, <2>2 DEF QuotaInv, QuotaTypeOK
    <3>2. {i \in DOMAIN sent[k] : sent[k][i] >= t} = {}
      BY <1>1, <2>2 DEF QuotaInv, QuotaTypeOK, SentByNow
    <3>3. PendingOnes(k, t) = {}
      BY <1>1, <2>2 DEF QuotaInv, QuotaTypeOK, PendingOnes
    <3>4. Since(events[k], t) = 0 /\ Since(sent[k], t) = 0
      BY <3>1, <3>2, FS_EmptySet DEF Since
    <3>5. PendingSince(k, t) = 0
      BY <3>3, PendingIsNat, FS_EmptySet
    <3>6. Since(dropped[k], t) \in Nat
      BY SinceIsNat DEF QuotaInv, QuotaTypeOK
    <3> QED BY <3>4, <3>5, <3>6
  <2> QED BY <1>1, <2>1, <2>2
<1>5. InLimit'
  <2> SUFFICES ASSUME NEW k \in Keys
               PROVE  Cardinality({i \in DOMAIN events[k] : events[k][i] + Window > now + 1}) <= PerWindow
    BY <1>1, <1>2 DEF InLimit, Live, InWindow
  <2> DEFINE ts == events[k]
             A == {i \in DOMAIN ts : ts[i] + Window > now}
             B == {i \in DOMAIN ts : ts[i] + Window > now + 1}
  <2>1. ts \in Seq(Nat)
    BY DEF QuotaInv, QuotaTypeOK
  <2>2. B \subseteq A
    BY <1>1, <2>1
  <2>3. IsFiniteSet(A)
    <3>1. DOMAIN ts = 1..Len(ts) /\ Len(ts) \in Nat
      BY <2>1
    <3>2. IsFiniteSet(DOMAIN ts)
      BY <3>1, FS_Interval
    <3> QED BY <3>2, FS_Subset
  <2>4. Cardinality(B) <= Cardinality(A) /\ Cardinality(B) \in Nat /\ Cardinality(A) \in Nat
    BY <2>2, <2>3, FS_Subset, FS_CardinalityType
  <2>5. Cardinality(A) <= PerWindow /\ PerWindow \in Nat
    BY QuotaAssumption DEF QuotaInv, InLimit, Live, InWindow
  <2> HIDE DEF A, B
  <2>6. Cardinality(B) <= PerWindow
    BY <2>4, <2>5
  <2> QED BY <2>6 DEF B
<1>6. PendingIsRecent'
  BY <1>1, <1>2 DEF Tick, PendingIsRecent, QuotaInv, QuotaTypeOK
<1>7. SentByNow'
  <2>1. \A k \in Keys : \A i \in DOMAIN sent[k] : sent[k][i] \in Nat
    BY DEF QuotaInv, QuotaTypeOK
  <2> QED BY <1>1, <1>2, <2>1 DEF QuotaInv, SentByNow
<1> QED BY <1>3, <1>4, <1>5, <1>6, <1>7 DEF QuotaInv

\* Each key gets one stamp, where there was room for it.
LEMMA ReserveKeepsQuota ==
  ASSUME QuotaInv, NEW r \in Requests, NEW c \in Clients, Reserve(r, c)
  PROVE  QuotaInv'
<1>1. QuotaTypeOK /\ now \in Nat /\ Window \in Nat \ {0} /\ PerWindow \in Nat /\ MaxSend \in Nat
  BY QuotaAssumption DEF QuotaInv, QuotaTypeOK
<1>2. /\ UNCHANGED <<now, sent, dropped>>
      /\ client' = [client EXCEPT ![r] = c] /\ stamp' = [stamp EXCEPT ![r] = now]
      /\ \A k \in Keys : events'[k] = IF k \in KeySet(c) THEN Append(Pruned(k), now)
                                      ELSE events[k]
      /\ DOMAIN events' = Keys
  BY DEF Reserve
<1>3. \A k \in Keys : /\ Pruned(k) \in Seq(Nat) /\ events[k] \in Seq(Nat)
                      /\ Append(Pruned(k), now) \in Seq(Nat)
  BY <1>1, PruneCounts DEF QuotaTypeOK
<1>4. \A k \in Keys : \A t \in 0..now : InWindow(t) =>
        Since(events'[k], t) = IF k \in KeySet(c) THEN Since(events[k], t) + 1
                               ELSE Since(events[k], t)
  <2> SUFFICES ASSUME NEW k \in Keys, NEW t \in 0..now, InWindow(t), k \in KeySet(c)
               PROVE  Since(Append(Pruned(k), now), t) = Since(events[k], t) + 1
    BY <1>2
  <2>1. Since(Pruned(k), t) = Since(events[k], t)
    BY <1>1, PruneCounts
  <2>2. Since(Append(Pruned(k), now), t) =
          IF now >= t THEN Since(Pruned(k), t) + 1 ELSE Since(Pruned(k), t)
    BY <1>1, <1>3, SinceOneMore
  <2>3. now >= t
    BY <1>1
  <2> QED BY <2>1, <2>2, <2>3
<1>5. QuotaTypeOK'
  <2>1. events' \in [Keys -> Seq(Nat)]
    <3>1. \A k \in Keys : events'[k] \in Seq(Nat)
      BY <1>2, <1>3
    <3>2. events' = [k \in Keys |-> events'[k]]
      BY DEF Reserve
    <3> QED BY <3>1, <3>2
  <2>2. /\ client' \in [Requests -> Clients \cup {NoClient}] /\ stamp' \in [Requests -> Nat]
        /\ \A q \in Requests : stamp'[q] <= now /\ (client'[q] = NoClient => stamp'[q] = 0)
    BY <1>1, <1>2, QuotaAssumption DEF QuotaTypeOK
  <2>3. ASSUME NEW k \in Keys, NEW i \in DOMAIN events'[k]
        PROVE  events'[k][i] <= now /\ \A j \in 1..i : events'[k][j] <= events'[k][i]
    <3>1. CASE k \notin KeySet(c)
      BY <1>1, <1>2, <2>3, <3>1 DEF QuotaTypeOK
    <3>2. CASE k \in KeySet(c)
      <4> DEFINE p == Pruned(k)
                 a == Append(p, now)
      <4>1. /\ p \in Seq(Nat)
            /\ \A h \in DOMAIN p : p[h] <= now /\ \A j \in 1..h : p[j] <= p[h]
        BY <1>1, PruneCounts
      <4> HIDE DEF p
      <4>2. /\ DOMAIN a = 1..Len(p) + 1 /\ DOMAIN p = 1..Len(p) /\ Len(p) \in Nat
            /\ \A h \in 1..Len(p) : a[h] = p[h] /\ p[h] \in Nat
            /\ a[Len(p) + 1] = now
        BY <1>1, <4>1
      <4>3. events'[k] = a
        BY <1>2, <3>2 DEF p
      <4> HIDE DEF a
      <4>4. i \in 1..Len(p) + 1
        BY <4>2, <4>3
      <4>5. CASE i \in 1..Len(p)
        <5>1. ASSUME NEW j \in 1..i PROVE a[j] <= a[i]
          BY <4>1, <4>2, <4>5
        <5> QED BY <4>1, <4>2, <4>3, <4>5, <5>1
      <4>6. CASE i = Len(p) + 1
        <5>1. ASSUME NEW j \in 1..i PROVE a[j] <= now
          <6>1. j \in 1..Len(p) \/ j = Len(p) + 1
            BY <4>2, <4>6
          <6>2. ASSUME j \in 1..Len(p) PROVE a[j] <= now
            BY <4>1, <4>2, <6>2
          <6> QED BY <1>1, <4>2, <6>1, <6>2
        <5> QED BY <1>1, <4>2, <4>3, <4>6, <5>1
      <4> QED BY <4>2, <4>4, <4>5, <4>6
    <3> QED BY <3>1, <3>2
  <2> QED BY <1>1, <1>2, <2>1, <2>2, <2>3 DEF QuotaTypeOK
<1>6. Balanced'
  <2> SUFFICES ASSUME NEW k \in Keys, NEW t \in 0..now, InWindow(t)
               PROVE  /\ Since(events'[k], t) <= Since(sent[k], t) + PendingSince(k, t)'
                      /\ Since(sent[k], t) + PendingSince(k, t)' <= Since(events'[k], t) + Since(dropped[k], t)
    BY <1>2 DEF Balanced, InWindow, Since
  <2>1. /\ Since(events[k], t) <= Since(sent[k], t) + PendingSince(k, t)
        /\ Since(sent[k], t) + PendingSince(k, t) <= Since(events[k], t) + Since(dropped[k], t)
    BY DEF QuotaInv, Balanced
  <2>2. PendingSince(k, t)' = IF k \in KeySet(c) THEN PendingSince(k, t) + 1
                              ELSE PendingSince(k, t)
    BY <1>1, PendingGrows
  <2>3. /\ PendingSince(k, t) \in Nat /\ t \in Nat
        /\ Since(events[k], t) \in Nat /\ Since(sent[k], t) \in Nat /\ Since(dropped[k], t) \in Nat
    <3>1. sent[k] \in Seq(Nat) /\ events[k] \in Seq(Nat) /\ dropped[k] \in Seq(Nat)
      BY <1>1 DEF QuotaTypeOK
    <3>2. Since(events[k], t) \in Nat /\ Since(sent[k], t) \in Nat /\ Since(dropped[k], t) \in Nat
      BY <3>1, SinceIsNat
    <3>3. PendingSince(k, t) \in Nat
      BY PendingIsNat
    <3> QED BY <1>1, <3>2, <3>3
  <2>4. Since(events'[k], t) = IF k \in KeySet(c) THEN Since(events[k], t) + 1
                               ELSE Since(events[k], t)
    BY <1>4
  <2> QED BY <2>1, <2>2, <2>3, <2>4
<1>7. InLimit'
  <2> SUFFICES ASSUME NEW k \in Keys PROVE Live(events'[k]) <= PerWindow
    BY <1>2 DEF InLimit, Live, InWindow
  <2>1. Opening \in 0..now /\ InWindow(Opening)
    BY <1>1, WindowOpens
  <2>2. events'[k] \in Seq(Nat)
    BY <1>2, <1>3
  <2>3. Live(events'[k]) = Since(events'[k], Opening) /\ Live(events[k]) = Since(events[k], Opening)
    BY <1>1, <1>3, <2>2, WindowOpens
  <2>4. CASE k \in KeySet(c)
    <3>1. Len(Pruned(k)) = Live(events[k]) /\ Len(Pruned(k)) \in Nat
      BY <1>1, <1>3, PruneCounts
    <3>2. ~(Len(Pruned(k)) >= PerWindow)
      BY <2>4 DEF Reserve, Full
    <3>3. Live(events'[k]) = Live(events[k]) + 1
      BY <1>4, <2>1, <2>3, <2>4
    <3> QED BY <1>1, <3>1, <3>2, <3>3
  <2>5. CASE k \notin KeySet(c)
    BY <1>2, <2>5 DEF QuotaInv, InLimit
  <2> QED BY <2>4, <2>5
<1>8. PendingIsRecent'
  <2> SUFFICES ASSUME NEW q \in Requests, client'[q] # NoClient PROVE now <= stamp'[q] + MaxSend
    BY <1>2 DEF PendingIsRecent
  <2>1. CASE q = r
    BY <1>1, <1>2, <2>1 DEF QuotaTypeOK
  <2>2. CASE q # r
    BY <1>1, <1>2, <2>2 DEF QuotaTypeOK, QuotaInv, PendingIsRecent
  <2> QED BY <2>1, <2>2
<1>9. SentByNow'
  BY <1>2 DEF QuotaInv, SentByNow
<1> QED BY <1>5, <1>6, <1>7, <1>8, <1>9 DEF QuotaInv

\* A refusal only prunes.
LEMMA RefusedKeepsQuota ==
  ASSUME QuotaInv, NEW r \in Requests, NEW c \in Clients, Refused(r, c)
  PROVE  QuotaInv'
<1>1. QuotaTypeOK /\ now \in Nat /\ Window \in Nat \ {0}
  BY QuotaAssumption DEF QuotaInv, QuotaTypeOK
<1>2. /\ UNCHANGED <<now, client, stamp, sent, dropped>>
      /\ \A k \in Keys : events'[k] = Pruned(k) \/ events'[k] = events[k]
  BY DEF Refused
<1>3. \A k \in Keys : /\ Pruned(k) \in Seq(Nat) /\ events[k] \in Seq(Nat)
                      /\ events'[k] \in Seq(Nat)
  BY <1>1, <1>2, PruneCounts DEF QuotaTypeOK
<1>4. \A k \in Keys : \A t \in Nat : InWindow(t) => Since(events'[k], t) = Since(events[k], t)
  BY <1>1, <1>2, PruneCounts
<1>5. QuotaTypeOK'
  <2>1. events' \in [Keys -> Seq(Nat)]
    <3>1. events' = [k \in Keys |-> events'[k]]
      BY DEF Refused
    <3> QED BY <1>3, <3>1
  <2>2. ASSUME NEW k \in Keys, NEW i \in DOMAIN events'[k]
        PROVE  events'[k][i] <= now /\ \A j \in 1..i : events'[k][j] <= events'[k][i]
    <3>1. CASE events'[k] = Pruned(k)
      BY <1>1, <2>2, <3>1, PruneCounts
    <3>2. CASE events'[k] = events[k]
      BY <1>1, <2>2, <3>2 DEF QuotaTypeOK
    <3> QED BY <1>2, <3>1, <3>2
  <2> QED BY <1>1, <1>2, <2>1, <2>2 DEF QuotaTypeOK
<1>6. Balanced'
  <2> SUFFICES ASSUME NEW k \in Keys, NEW t \in 0..now, InWindow(t)
               PROVE  /\ Since(events'[k], t) <= Since(sent[k], t) + PendingSince(k, t)
                      /\ Since(sent[k], t) + PendingSince(k, t) <= Since(events'[k], t) + Since(dropped[k], t)
    BY <1>2 DEF Balanced, InWindow, Since, PendingSince
  <2>1. t \in Nat
    BY <1>1
  <2> QED BY <1>4, <2>1 DEF QuotaInv, Balanced
<1>7. InLimit'
  <2> SUFFICES ASSUME NEW k \in Keys PROVE Live(events'[k]) <= PerWindow
    BY <1>2 DEF InLimit, Live, InWindow
  <2>1. Opening \in Nat /\ InWindow(Opening)
    BY <1>1, WindowOpens
  <2>2. Live(events'[k]) = Live(events[k])
    BY <1>1, <1>3, <1>4, <2>1, WindowOpens
  <2> QED BY <2>2 DEF QuotaInv, InLimit
<1> QED BY <1>2, <1>5, <1>6, <1>7 DEF QuotaInv, PendingIsRecent, SentByNow

\* A text that is sent is one less on its way.
LEMMA SentKeepsQuota ==
  ASSUME QuotaInv, NEW r \in Requests, Sent(r)
  PROVE  QuotaInv'
<1>1. QuotaTypeOK /\ now \in Nat /\ Window \in Nat \ {0}
  BY QuotaAssumption DEF QuotaInv, QuotaTypeOK
<1>2. /\ UNCHANGED <<now, events, dropped>> /\ client[r] # NoClient /\ Finish(r)
      /\ client' = [client EXCEPT ![r] = NoClient] /\ stamp' = [stamp EXCEPT ![r] = 0]
      /\ \A k \in Keys : sent'[k] = IF k \in KeySet(client[r]) THEN Append(sent[k], stamp[r])
                                    ELSE sent[k]
  BY DEF Sent, Finish
<1>3. /\ stamp[r] \in Nat /\ stamp[r] <= now
      /\ \A k \in Keys : sent[k] \in Seq(Nat) /\ Append(sent[k], stamp[r]) \in Seq(Nat)
  BY <1>1 DEF QuotaTypeOK
<1>4. QuotaTypeOK'
  <2>1. sent' \in [Keys -> Seq(Nat)]
    <3>1. sent' = [k \in Keys |-> sent'[k]]
      BY DEF Sent
    <3> QED BY <1>2, <1>3, <3>1
  <2>2. /\ client' \in [Requests -> Clients \cup {NoClient}] /\ stamp' \in [Requests -> Nat]
        /\ \A q \in Requests : stamp'[q] <= now /\ (client'[q] = NoClient => stamp'[q] = 0)
    BY <1>1, <1>2 DEF QuotaTypeOK
  <2> QED BY <1>1, <1>2, <2>1, <2>2 DEF QuotaTypeOK
<1>5. Balanced'
  <2> SUFFICES ASSUME NEW k \in Keys, NEW t \in 0..now, InWindow(t)
               PROVE  /\ Since(events[k], t) <= Since(sent'[k], t) + PendingSince(k, t)'
                      /\ Since(sent'[k], t) + PendingSince(k, t)' <= Since(events[k], t) + Since(dropped[k], t)
    BY <1>2 DEF Balanced, InWindow, Since
  <2>1. /\ Since(events[k], t) <= Since(sent[k], t) + PendingSince(k, t)
        /\ Since(sent[k], t) + PendingSince(k, t) <= Since(events[k], t) + Since(dropped[k], t)
    BY DEF QuotaInv, Balanced
  <2>2. PendingSince(k, t)' = IF k \in KeySet(client[r]) /\ stamp[r] >= t
                              THEN PendingSince(k, t) - 1 ELSE PendingSince(k, t)
    BY <1>1, <1>2, PendingShrinks
  <2>3. /\ PendingSince(k, t) \in Nat /\ t \in Nat
        /\ Since(events[k], t) \in Nat /\ Since(sent[k], t) \in Nat /\ Since(dropped[k], t) \in Nat
    <3>1. sent[k] \in Seq(Nat) /\ events[k] \in Seq(Nat) /\ dropped[k] \in Seq(Nat)
      BY <1>1 DEF QuotaTypeOK
    <3>2. Since(events[k], t) \in Nat /\ Since(sent[k], t) \in Nat /\ Since(dropped[k], t) \in Nat
      BY <3>1, SinceIsNat
    <3>3. PendingSince(k, t) \in Nat
      BY PendingIsNat
    <3> QED BY <1>1, <3>2, <3>3
  <2>4. k \in KeySet(client[r]) =>
          Since(sent'[k], t) = IF stamp[r] >= t THEN Since(sent[k], t) + 1 ELSE Since(sent[k], t)
    BY <1>2, <1>3, <2>3, SinceOneMore
  <2>5. k \notin KeySet(client[r]) => Since(sent'[k], t) = Since(sent[k], t)
    BY <1>2
  <2> QED BY <2>1, <2>2, <2>3, <2>4, <2>5
<1>6. InLimit'
  BY <1>2 DEF QuotaInv, InLimit, Live, InWindow
<1>7. PendingIsRecent'
  <2> SUFFICES ASSUME NEW q \in Requests, client'[q] # NoClient PROVE now <= stamp'[q] + MaxSend
    BY <1>2 DEF PendingIsRecent
  <2>1. q # r
    BY <1>1, <1>2 DEF QuotaTypeOK
  <2> QED BY <1>1, <1>2, <2>1 DEF QuotaTypeOK, QuotaInv, PendingIsRecent
<1>8. SentByNow'
  <2> SUFFICES ASSUME NEW k \in Keys, NEW i \in DOMAIN sent'[k] PROVE sent'[k][i] <= now
    BY <1>2 DEF SentByNow
  <2>1. CASE k \notin KeySet(client[r])
    BY <1>2, <2>1 DEF QuotaInv, SentByNow
  <2>2. CASE k \in KeySet(client[r])
    <3> DEFINE s == sent[k]
    <3>1. s \in Seq(Nat) /\ sent'[k] = Append(s, stamp[r])
      BY <1>2, <1>3, <2>2
    <3>2. \A h \in DOMAIN s : s[h] <= now
      BY DEF QuotaInv, SentByNow
    <3> HIDE DEF s
    <3> QED BY <1>3, <3>1, <3>2
  <2> QED BY <2>1, <2>2
<1> QED BY <1>4, <1>5, <1>6, <1>7, <1>8 DEF QuotaInv

LEMMA LastIsOneMore ==
  ASSUME NEW s \in Seq(Nat), s # <<>>
  PROVE  /\ Front(s) \in Seq(Nat) /\ Last(s) \in Nat
         /\ s = Append(Front(s), Last(s))
         /\ DOMAIN Front(s) \subseteq DOMAIN s
         /\ \A i \in DOMAIN Front(s) : Front(s)[i] = s[i]
<1>1. Len(s) \in Nat \ {0} /\ DOMAIN s = 1..Len(s)
  OBVIOUS
<1>2. 1..Len(s) - 1 \subseteq 1..Len(s)
  BY <1>1
<1>3. Front(s) = SubSeq(s, 1, Len(s) - 1) /\ Last(s) = s[Len(s)]
  BY DEF Front, Last
<1> DEFINE f == SubSeq(s, 1, Len(s) - 1)
<1>4. /\ f \in Seq(Nat) /\ Len(f) = Len(s) - 1 /\ DOMAIN f = 1..Len(s) - 1
      /\ \A i \in 1..Len(s) - 1 : f[i] = s[i]
  BY <1>1, <1>2
<1>5. s[Len(s)] \in Nat
  BY <1>1
<1>6. s = Append(f, s[Len(s)])
  BY <1>1, <1>4, <1>5
<1> QED BY <1>1, <1>2, <1>3, <1>4, <1>5, <1>6

\* Stamps are in order: nothing is as recent as t if the last one is not.
LEMMA NoneSince ==
  ASSUME NEW s \in Seq(Nat), s # <<>>, NEW t \in Nat, ~(Last(s) >= t),
         \A i \in DOMAIN s : \A j \in 1..i : s[j] <= s[i]
  PROVE  Since(s, t) = 0
<1>1. Len(s) \in DOMAIN s /\ DOMAIN s = 1..Len(s) /\ Last(s) = s[Len(s)]
  BY DEF Last
<1>2. \A j \in DOMAIN s : s[j] \in Nat /\ s[j] <= s[Len(s)]
  BY <1>1
<1>3. s[Len(s)] \in Nat
  BY <1>1, <1>2
<1>4. {i \in DOMAIN s : s[i] >= t} = {}
  BY <1>1, <1>2, <1>3
<1> QED BY <1>4, FS_EmptySet DEF Since

\* The undo takes the last stamp of each key, its own or another's.
LEMMA FailedKeepsQuota ==
  ASSUME QuotaInv, NEW r \in Requests, Failed(r)
  PROVE  QuotaInv'
<1>1. QuotaTypeOK /\ now \in Nat /\ Window \in Nat \ {0} /\ PerWindow \in Nat
  BY QuotaAssumption DEF QuotaInv, QuotaTypeOK
<1>2. /\ UNCHANGED <<now, sent>> /\ client[r] # NoClient /\ Finish(r)
      /\ client' = [client EXCEPT ![r] = NoClient] /\ stamp' = [stamp EXCEPT ![r] = 0]
      /\ \A k \in Keys : events'[k] = IF k \in KeySet(client[r]) /\ events[k] # <<>>
                                      THEN Front(events[k]) ELSE events[k]
      /\ \A k \in Keys : dropped'[k] = IF TakesAnothers(r, k)
                                       THEN Append(dropped[k], Last(events[k])) ELSE dropped[k]
  BY DEF Failed, Finish
<1>3. \A k \in Keys : events[k] \in Seq(Nat)
  BY <1>1 DEF QuotaTypeOK
<1>4. \A k \in Keys : /\ events'[k] \in Seq(Nat) /\ DOMAIN events'[k] \subseteq DOMAIN events[k]
                      /\ \A i \in DOMAIN events'[k] : events'[k][i] = events[k][i]
  <2> SUFFICES ASSUME NEW k \in Keys
               PROVE  /\ events'[k] \in Seq(Nat) /\ DOMAIN events'[k] \subseteq DOMAIN events[k]
                      /\ \A i \in DOMAIN events'[k] : events'[k][i] = events[k][i]
    OBVIOUS
  <2>1. CASE events'[k] = events[k]
    BY <1>3, <2>1
  <2>2. CASE events[k] # <<>> /\ events'[k] = Front(events[k])
    BY <1>3, <2>2, LastIsOneMore
  <2> QED BY <1>2, <2>1, <2>2
<1>5. \A k \in Keys : \A t \in Nat :
        /\ Since(events'[k], t) \in Nat /\ Since(events[k], t) \in Nat
        /\ Since(events'[k], t) <= Since(events[k], t)
        /\ (k \in KeySet(client[r]) /\ events[k] # <<>>) =>
             Since(events[k], t) = IF Last(events[k]) >= t THEN Since(events'[k], t) + 1
                                   ELSE Since(events'[k], t)
  <2> SUFFICES ASSUME NEW k \in Keys, NEW t \in Nat
               PROVE  /\ Since(events'[k], t) \in Nat /\ Since(events[k], t) \in Nat
                      /\ Since(events'[k], t) <= Since(events[k], t)
                      /\ (k \in KeySet(client[r]) /\ events[k] # <<>>) =>
                           Since(events[k], t) = IF Last(events[k]) >= t THEN Since(events'[k], t) + 1
                                                 ELSE Since(events'[k], t)
    OBVIOUS
  <2>1. Since(events'[k], t) \in Nat /\ Since(events[k], t) \in Nat
    BY <1>3, <1>4, SinceIsNat
  <2>2. CASE k \in KeySet(client[r]) /\ events[k] # <<>>
    <3>1. events'[k] = Front(events[k])
      BY <1>2, <2>2
    <3>2. /\ events'[k] \in Seq(Nat) /\ Last(events[k]) \in Nat
          /\ events[k] = Append(events'[k], Last(events[k]))
      BY <1>3, <2>2, <3>1, LastIsOneMore
    <3>3. Since(Append(events'[k], Last(events[k])), t)
            = IF Last(events[k]) >= t THEN Since(events'[k], t) + 1 ELSE Since(events'[k], t)
      BY <3>2, SinceOneMore
    <3>4. Since(events[k], t) = IF Last(events[k]) >= t THEN Since(events'[k], t) + 1
                                ELSE Since(events'[k], t)
      BY <3>2, <3>3
    <3> QED BY <2>1, <3>4
  <2>3. CASE ~(k \in KeySet(client[r]) /\ events[k] # <<>>)
    BY <1>2, <2>1, <2>3
  <2> QED BY <2>2, <2>3
<1>6. QuotaTypeOK'
  <2>1. events' \in [Keys -> Seq(Nat)]
    <3>1. events' = [k \in Keys |-> events'[k]]
      BY DEF Failed
    <3> QED BY <1>4, <3>1
  <2>2. /\ client' \in [Requests -> Clients \cup {NoClient}] /\ stamp' \in [Requests -> Nat]
        /\ \A q \in Requests : stamp'[q] <= now /\ (client'[q] = NoClient => stamp'[q] = 0)
    BY <1>1, <1>2 DEF QuotaTypeOK
  <2>3. ASSUME NEW k \in Keys, NEW i \in DOMAIN events'[k]
        PROVE  events'[k][i] <= now /\ \A j \in 1..i : events'[k][j] <= events'[k][i]
    <3>1. i \in DOMAIN events[k] /\ events'[k][i] = events[k][i]
      BY <1>4, <2>3
    <3>2. ASSUME NEW j \in 1..i PROVE events'[k][j] = events[k][j]
      <4>1. DOMAIN events'[k] = 1..Len(events'[k]) /\ Len(events'[k]) \in Nat
        BY <1>4
      <4>2. j \in DOMAIN events'[k]
        BY <2>3, <4>1
      <4> QED BY <1>4, <4>2
    <3> QED BY <1>1, <3>1, <3>2 DEF QuotaTypeOK
  <2>4. dropped' \in [Keys -> Seq(Nat)]
    <3>1. ASSUME NEW k \in Keys PROVE dropped'[k] \in Seq(Nat)
      <4>1. dropped[k] \in Seq(Nat)
        BY <1>1 DEF QuotaTypeOK
      <4> DEFINE last == Last(events[k])
      <4>2. dropped'[k] = IF TakesAnothers(r, k) THEN Append(dropped[k], last) ELSE dropped[k]
        BY DEF Failed
      <4>3. TakesAnothers(r, k) => last \in Nat
        BY <1>3, LastIsOneMore DEF TakesAnothers
      <4> HIDE DEF last
      <4>4. CASE TakesAnothers(r, k)
        BY <4>1, <4>2, <4>3, <4>4
      <4>5. CASE ~TakesAnothers(r, k)
        BY <4>1, <4>2, <4>5
      <4> QED BY <4>4, <4>5
    <3>2. dropped' = [k \in Keys |-> dropped'[k]]
      BY DEF Failed
    <3> QED BY <3>1, <3>2
  <2> QED BY <1>1, <1>2, <2>1, <2>2, <2>3, <2>4 DEF QuotaTypeOK
<1>7. Balanced'
  <2> SUFFICES ASSUME NEW k \in Keys, NEW t \in 0..now, InWindow(t)
               PROVE  /\ Since(events'[k], t) <= Since(sent[k], t) + PendingSince(k, t)'
                      /\ Since(sent[k], t) + PendingSince(k, t)' <= Since(events'[k], t) + Since(dropped'[k], t)
    BY <1>2 DEF Balanced, InWindow, Since
  <2>1. /\ Since(events[k], t) <= Since(sent[k], t) + PendingSince(k, t)
        /\ Since(sent[k], t) + PendingSince(k, t) <= Since(events[k], t) + Since(dropped[k], t)
    BY DEF QuotaInv, Balanced
  <2>2. PendingSince(k, t)' = IF k \in KeySet(client[r]) /\ stamp[r] >= t
                              THEN PendingSince(k, t) - 1 ELSE PendingSince(k, t)
    BY <1>1, <1>2, PendingShrinks
  <2>3. PendingSince(k, t)' \in Nat
    BY <1>1, <1>2, PendingShrinks
  <2>4. /\ PendingSince(k, t) \in Nat /\ t \in Nat
        /\ Since(events[k], t) \in Nat /\ Since(sent[k], t) \in Nat /\ Since(dropped[k], t) \in Nat
    <3>1. sent[k] \in Seq(Nat) /\ events[k] \in Seq(Nat) /\ dropped[k] \in Seq(Nat)
      BY <1>1 DEF QuotaTypeOK
    <3>2. Since(events[k], t) \in Nat /\ Since(sent[k], t) \in Nat /\ Since(dropped[k], t) \in Nat
      BY <3>1, SinceIsNat
    <3>3. PendingSince(k, t) \in Nat
      BY PendingIsNat
    <3> QED BY <1>1, <3>2, <3>3
  <2>5. CASE k \notin KeySet(client[r])
    <3>1. events'[k] = events[k] /\ dropped'[k] = dropped[k]
      BY <1>2, <2>5 DEF TakesAnothers
    <3> QED BY <2>1, <2>2, <2>5, <3>1
  <2>6. CASE k \in KeySet(client[r]) /\ events[k] = <<>>
    <3>1. events'[k] = events[k] /\ dropped'[k] = dropped[k] /\ Since(events[k], t) = 0
      BY <1>2, <2>6, SinceOfNone DEF TakesAnothers
    <3> QED BY <2>1, <2>2, <2>3, <2>4, <3>1
  <2>7. CASE k \in KeySet(client[r]) /\ events[k] # <<>>
    <3> DEFINE last == Last(events[k])
    <3>1. last \in Nat /\ dropped[k] \in Seq(Nat) /\ stamp[r] \in Nat
      BY <1>1, <1>3, <2>7, LastIsOneMore DEF QuotaTypeOK
    <3>2. Since(events'[k], t) \in Nat
          /\ Since(events[k], t) = IF last >= t THEN Since(events'[k], t) + 1
                                   ELSE Since(events'[k], t)
      BY <1>5, <2>4, <2>7
    <3>3. Since(dropped'[k], t) = IF last # stamp[r] /\ last >= t THEN Since(dropped[k], t) + 1
                                  ELSE Since(dropped[k], t)
      <4>1. CASE last # stamp[r]
        <5>1. dropped'[k] = Append(dropped[k], last)
          BY <1>2, <2>7, <4>1 DEF TakesAnothers
        <5> HIDE DEF last
        <5>2. Since(Append(dropped[k], last), t) = IF last >= t THEN Since(dropped[k], t) + 1
                                                   ELSE Since(dropped[k], t)
          BY <2>4, <3>1, SinceOneMore
        <5> QED BY <4>1, <5>1, <5>2
      <4>2. CASE last = stamp[r]
        BY <1>2, <4>2 DEF TakesAnothers
      <4> QED BY <4>1, <4>2
    <3>4. ~(last >= t) => Since(events[k], t) = 0
      BY <1>1, <2>4, <2>7, NoneSince DEF QuotaTypeOK
    <3> HIDE DEF last
    <3>5. CASE last >= t
      BY <2>1, <2>2, <2>3, <2>4, <2>7, <3>1, <3>2, <3>3, <3>5
    <3>6. CASE ~(last >= t)
      BY <2>1, <2>2, <2>3, <2>4, <2>7, <3>2, <3>3, <3>4, <3>6
    <3> QED BY <3>5, <3>6
  <2> QED BY <2>5, <2>6, <2>7
<1>8. InLimit'
  <2> SUFFICES ASSUME NEW k \in Keys PROVE Live(events'[k]) <= PerWindow
    BY <1>2 DEF InLimit, Live, InWindow
  <2>1. Opening \in Nat
    BY <1>1, WindowOpens
  <2>2. Live(events'[k]) = Since(events'[k], Opening) /\ Live(events[k]) = Since(events[k], Opening)
    BY <1>1, <1>3, <1>4, WindowOpens
  <2>3. Live(events[k]) <= PerWindow
    BY DEF QuotaInv, InLimit
  <2> QED BY <1>1, <1>5, <2>1, <2>2, <2>3
<1>9. PendingIsRecent'
  <2> SUFFICES ASSUME NEW q \in Requests, client'[q] # NoClient PROVE now <= stamp'[q] + MaxSend
    BY <1>2 DEF PendingIsRecent
  <2>1. q # r
    BY <1>1, <1>2 DEF QuotaTypeOK
  <2> QED BY <1>1, <1>2, <2>1 DEF QuotaTypeOK, QuotaInv, PendingIsRecent
<1>10. SentByNow'
  BY <1>2 DEF QuotaInv, SentByNow
<1> QED BY <1>6, <1>7, <1>8, <1>9, <1>10 DEF QuotaInv

LEMMA QuotaStepInv ==
  ASSUME QuotaInv, [QuotaNext]_quotaVars PROVE QuotaInv'
<1>1. CASE QuotaNext
  BY <1>1, TickKeepsQuota, ReserveKeepsQuota, RefusedKeepsQuota, SentKeepsQuota, FailedKeepsQuota DEF QuotaNext
<1>2. CASE UNCHANGED quotaVars
  <2>1. UNCHANGED <<now, events, client, stamp, sent, dropped>>
    BY <1>2 DEF quotaVars
  <2>2. QuotaTypeOK'
    BY <2>1 DEF QuotaInv, QuotaTypeOK
  <2>3. Balanced'
    <3>1. \A k, t : PendingSince(k, t)' = PendingSince(k, t)
      BY <2>1 DEF PendingSince
    <3>2. \A t : InWindow(t)' <=> InWindow(t)
      BY <2>1 DEF InWindow
    <3> QED BY <2>1, <3>1, <3>2 DEF QuotaInv, Balanced
  <2>4. InLimit' /\ PendingIsRecent' /\ SentByNow'
    BY <2>1 DEF QuotaInv, InLimit, PendingIsRecent, SentByNow, Live, InWindow
  <2> QED BY <2>2, <2>3, <2>4 DEF QuotaInv
<1> QED BY <1>1, <1>2

LEMMA QuotaInvariant ==
  QuotaSpec => []QuotaInv
<1>1. QuotaInit => QuotaInv
  BY QuotaInitInv
<1>2. QuotaInv /\ [QuotaNext]_quotaVars => QuotaInv'
  BY QuotaStepInv
<1> QED BY <1>1, <1>2, PTL DEF QuotaSpec

\* What the invariant says of the window at this moment.
LEMMA QuotaNow ==
  ASSUME QuotaInv, NEW k \in Keys
  PROVE  /\ Live(events[k]) <= Live(sent[k]) + Pending(k)
         /\ Live(sent[k]) + Pending(k) <= Live(events[k]) + Live(dropped[k])
         /\ Live(sent[k]) <= PerWindow + Live(dropped[k])
<1>1. /\ QuotaTypeOK /\ now \in Nat /\ Window \in Nat \ {0} /\ PerWindow \in Nat
      /\ MaxSend \in Nat /\ MaxSend < Window
      /\ events[k] \in Seq(Nat) /\ sent[k] \in Seq(Nat) /\ dropped[k] \in Seq(Nat)
  BY QuotaAssumption DEF QuotaInv, QuotaTypeOK
<1>2. Opening \in 0..now /\ Opening \in Nat /\ InWindow(Opening)
  BY <1>1, WindowOpens
<1>3. /\ Since(events[k], Opening) <= Since(sent[k], Opening) + PendingSince(k, Opening)
      /\ Since(sent[k], Opening) + PendingSince(k, Opening)
           <= Since(events[k], Opening) + Since(dropped[k], Opening)
  BY <1>2 DEF QuotaInv, Balanced
<1>4. /\ Live(events[k]) = Since(events[k], Opening) /\ Live(sent[k]) = Since(sent[k], Opening)
      /\ Live(dropped[k]) = Since(dropped[k], Opening)
  BY <1>1, WindowOpens
<1>5. Pending(k) = PendingSince(k, Opening)
  <2>1. ASSUME NEW r \in Requests, client[r] # NoClient PROVE stamp[r] >= Opening
    <3>1. stamp[r] \in Nat /\ now <= stamp[r] + MaxSend
      BY <1>1, <2>1 DEF QuotaInv, PendingIsRecent, QuotaTypeOK
    <3>2. InWindow(stamp[r])
      BY <1>1, <3>1 DEF InWindow
    <3> QED BY <1>1, <3>1, <3>2, WindowOpens
  <2>2. {r \in Requests : client[r] # NoClient /\ k \in KeySet(client[r])}
          = {r \in Requests : client[r] # NoClient /\ k \in KeySet(client[r]) /\ stamp[r] >= Opening}
    BY <2>1
  <2> QED BY <2>2 DEF Pending, PendingSince
<1>6. /\ PendingSince(k, Opening) \in Nat /\ Since(sent[k], Opening) \in Nat
      /\ Since(events[k], Opening) \in Nat /\ Since(dropped[k], Opening) \in Nat
  BY <1>1, PendingIsNat, SinceIsNat
<1>7. Live(events[k]) <= PerWindow
  BY DEF QuotaInv, InLimit
<1> QED BY <1>1, <1>3, <1>4, <1>5, <1>6, <1>7

\* Every reachable state of the counter is well typed: its stamps are in order and
\* none is in the future (window.go:39-54).
THEOREM QuotaTypeCorrect == QuotaSpec => []QuotaTypeOK
<1>1. QuotaInv => QuotaTypeOK
  BY DEF QuotaInv
<1> QED BY <1>1, QuotaInvariant, PTL

\* For any clients, keys, limit and window: the texts sent under a key in a window
\* are no more than the limit and one for each stamp of the window that an undo took
\* from another reservation (window.go:56-94).
THEOREM QuotaIsHeld == QuotaSpec => []ExceededByDroppedAlone
<1>1. QuotaInv => ExceededByDroppedAlone
  BY QuotaNow DEF ExceededByDroppedAlone
<1> QED BY <1>1, QuotaInvariant, PTL

\* The counter never charges for a text that was not sent and is not on its way, and
\* forgets one early only if another's undo took its stamp (window.go:56-94).
THEOREM QuotaAccount == QuotaSpec => []AccountIsKept
<1>1. QuotaInv => AccountIsKept
  BY QuotaNow DEF AccountIsKept
<1> QED BY <1>1, QuotaInvariant, PTL
=============================================================================
