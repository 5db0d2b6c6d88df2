---------------------------- MODULE VersionProofs ----------------------------
(***************************************************************************)
(* The two components that deal with versions.  What holds of the version  *)
(* gate for every number of platforms, every set of versions and every     *)
(* TTL; and of what is learnt from the app markets, for every number of    *)
(* platforms, jobs and versions: that nothing goes back, if jobs end       *)
(* before their locks are stale.                                           *)
(***************************************************************************)
EXTENDS ReleaseManifest, AppMarketVersion, TLAPS

\* A version is its numbers to the comparison: naturals, at places from 1 on.
LEMMA AtIsNat ==
  ASSUME NEW v \in Seq(Parts)
  PROVE  /\ DOMAIN Numbers(v) \subseteq Nat \ {0}
         /\ \A i : At(Numbers(v), i) \in Nat
<1>1. DOMAIN Numbers(v) = 1..Len(v) /\ Len(v) \in Nat
  BY DEF Numbers
<1>2. ASSUME NEW i \in 1..Len(v)  PROVE v[i].num \in Nat
  <2>1. v[i] \in Parts  OBVIOUS
  <2> QED  BY <2>1 DEF Parts
<1> QED  BY <1>1, <1>2 DEF At, Numbers

\* s is smaller at i and the same before it.
LessAt(s, t, i) == At(s, i) < At(t, i) /\ \A j \in 1..i - 1 : At(s, j) = At(t, j)

\* Nothing differs first at two places, the other way round at the second.
LEMMA LessAtIsAsymmetric ==
  ASSUME NEW s, NEW t, \A i : At(s, i) \in Nat /\ At(t, i) \in Nat,
         NEW i \in Nat \ {0}, NEW j \in Nat \ {0}, LessAt(s, t, i), LessAt(t, s, j)
  PROVE  FALSE
<1>1. CASE i < j
  <2>1. i \in 1..j - 1  BY <1>1
  <2> QED  BY <2>1 DEF LessAt
<1>2. CASE j < i
  <2>1. j \in 1..i - 1  BY <1>2
  <2> QED  BY <2>1 DEF LessAt
<1>3. CASE i = j  BY <1>3 DEF LessAt
<1> QED  BY <1>1, <1>2, <1>3

\* What is first less at i, and then at j, is first less at the earlier one.
LEMMA LessAtIsTransitive ==
  ASSUME NEW s, NEW t, NEW u, \A i : At(s, i) \in Nat /\ At(t, i) \in Nat /\ At(u, i) \in Nat,
         NEW i \in Nat \ {0}, NEW j \in Nat \ {0}, LessAt(s, t, i), LessAt(t, u, j)
  PROVE  LessAt(s, u, i) \/ LessAt(s, u, j)
<1>1. CASE i < j
  <2>1. i \in 1..j - 1 /\ \A k \in 1..i - 1 : k \in 1..j - 1  BY <1>1
  <2>2. At(s, i) < At(u, i)  BY <2>1 DEF LessAt
  <2>3. \A k \in 1..i - 1 : At(s, k) = At(u, k)  BY <2>1 DEF LessAt
  <2> QED  BY <2>2, <2>3 DEF LessAt
<1>2. CASE j < i
  <2>1. j \in 1..i - 1 /\ \A k \in 1..j - 1 : k \in 1..i - 1  BY <1>2
  <2>2. At(s, j) < At(u, j)  BY <2>1 DEF LessAt
  <2>3. \A k \in 1..j - 1 : At(s, k) = At(u, k)  BY <2>1 DEF LessAt
  <2> QED  BY <2>2, <2>3 DEF LessAt
<1>3. CASE i = j
  <2>1. At(s, i) < At(u, i)  BY <1>3 DEF LessAt
  <2> QED  BY <1>3, <2>1 DEF LessAt
<1> QED  BY <1>1, <1>2, <1>3

\* The comparison is a strict order: two versions are not before each other,
LEMMA BeforeIsAsymmetric ==
  ASSUME NEW a \in Seq(Parts), NEW b \in Seq(Parts),
         Before(Numbers(a), Numbers(b)), Before(Numbers(b), Numbers(a))
  PROVE  FALSE
<1>1. PICK i \in DOMAIN Numbers(a) \cup DOMAIN Numbers(b) : LessAt(Numbers(a), Numbers(b), i)
  BY DEF Before, LessAt
<1>2. PICK j \in DOMAIN Numbers(b) \cup DOMAIN Numbers(a) : LessAt(Numbers(b), Numbers(a), j)
  BY DEF Before, LessAt
<1>3. i \in Nat \ {0} /\ j \in Nat \ {0}
  BY AtIsNat
<1> QED  BY <1>1, <1>2, <1>3, AtIsNat, LessAtIsAsymmetric

\* and what is before a version is before the later ones.
LEMMA BeforeIsTransitive ==
  ASSUME NEW a \in Seq(Parts), NEW b \in Seq(Parts), NEW c \in Seq(Parts),
         Before(Numbers(a), Numbers(b)), Before(Numbers(b), Numbers(c))
  PROVE  Before(Numbers(a), Numbers(c))
<1>1. PICK i \in DOMAIN Numbers(a) \cup DOMAIN Numbers(b) : LessAt(Numbers(a), Numbers(b), i)
  BY DEF Before, LessAt
<1>2. PICK j \in DOMAIN Numbers(b) \cup DOMAIN Numbers(c) : LessAt(Numbers(b), Numbers(c), j)
  BY DEF Before, LessAt
<1>3. i \in Nat \ {0} /\ j \in Nat \ {0}
  BY AtIsNat
<1>4. PICK m \in {i, j} : LessAt(Numbers(a), Numbers(c), m)
  BY <1>1, <1>2, <1>3, AtIsNat, LessAtIsTransitive
<1>5. m \in DOMAIN Numbers(a) \cup DOMAIN Numbers(c)
  <2> SUFFICES ASSUME m \notin DOMAIN Numbers(a) \cup DOMAIN Numbers(c)  PROVE FALSE
    OBVIOUS
  <2>1. At(Numbers(a), m) = 0 /\ At(Numbers(c), m) = 0
    BY DEF At
  <2> QED  BY <1>4, <2>1 DEF LessAt
<1> QED  BY <1>4, <1>5 DEF Before, LessAt

\* Versions the store lets in compare in the API as in the store
\* (app_version.go:25, app_market_version.go:18).
THEOREM ComparisonsAgree ==
  ASSUME NEW a \in Seq(Parts), NEW b \in Seq(Parts),
         IsSemanticVersion(a), IsSemanticVersion(b)
  PROVE  compareSemanticVersions(a, b) = CompareSemanticVersions(a, b)
BY DEF IsSemanticVersion, compareSemanticVersions, CompareSemanticVersions,
       parseVersionSegments, parse

-----------------------------------------------------------------------------
(***************************************************************************)
(* The comparisons and the reference: versions of at most four parts       *)
(* compare as numbers in a base larger than their parts.                   *)
(***************************************************************************)
\* Comparing two numbers in the base is comparing all but their last digits,
\* then those.
LEMMA DigitByDigit ==
  ASSUME NEW a \in Nat, NEW b \in Nat, NEW c \in Nat, NEW d \in Nat, b < Base, d < Base
  PROVE  /\ a * Base + b \in Nat
         /\ a * Base + b < c * Base + d <=> a < c \/ (a = c /\ b < d)
<1>1. ASSUME NEW x \in Nat, NEW y \in Nat, NEW u \in Nat, NEW w \in Nat,
             x < y, u < Base, w < Base
      PROVE  x * Base + u < y * Base + w
  <2>1. PICK k \in Nat : y = x + 1 + k
    <3>1. y - x - 1 \in Nat /\ y = x + 1 + (y - x - 1)
      BY <1>1
    <3> QED  BY <3>1
  <2>2. y * Base = x * Base + Base + k * Base
    BY <2>1, BaseAssumption
  <2>3. k * Base \in Nat /\ x * Base \in Nat
    BY BaseAssumption
  <2>4. y * Base \in Nat
    BY BaseAssumption
  <2> QED  BY <1>1, <2>2, <2>3, <2>4, BaseAssumption
<1>2. a * Base \in Nat /\ c * Base \in Nat
  BY BaseAssumption
<1>3. CASE a < c
  BY <1>1, <1>2, <1>3
<1>4. CASE c < a
  <2>1. c * Base + d < a * Base + b
    BY <1>1, <1>4
  <2> QED  BY <1>2, <1>4, <2>1
<1>5. CASE a = c
  BY <1>2, <1>5
<1> QED  BY <1>2, <1>3, <1>4, <1>5

\* A version's i-th digit.
Digit(v, i) == At(Numbers(v), i)

\* What the reference makes of a version, and of which digits.
LEMMA WeightOfDigits ==
  ASSUME NEW v \in Seq(Parts), \A i \in DOMAIN v : v[i].num < Base
  PROVE  /\ \A i : Digit(v, i) \in Nat /\ Digit(v, i) < Base
         /\ Weight(v) = ((Digit(v, 1) * Base + Digit(v, 2)) * Base + Digit(v, 3)) * Base
                          + Digit(v, 4)
<1>1. \A i : Digit(v, i) \in Nat
  BY AtIsNat DEF Digit
<1>2. \A i : Digit(v, i) < Base
  BY BaseAssumption DEF Digit, At, Numbers
<1>3. \A i \in 1..4 : Digit(v, i) = IF i <= Len(v) THEN v[i].num ELSE 0
  BY DEF Digit, At, Numbers
<1> QED  BY <1>1, <1>2, <1>3 DEF Weight

\* One version has the smaller number if it has the smaller digit at the first
\* place where they differ.
LEMMA WeightsAreOrdered ==
  ASSUME NEW a \in Seq(Parts), NEW b \in Seq(Parts),
         \A i \in DOMAIN a : a[i].num < Base, \A i \in DOMAIN b : b[i].num < Base,
         Len(a) \in 1..4, Len(b) \in 1..4
  PROVE  /\ Weight(a) \in Nat /\ Weight(b) \in Nat
         /\ Weight(a) < Weight(b) <=> Before(Numbers(a), Numbers(b))
<1> DEFINE two(v) == Digit(v, 1) * Base + Digit(v, 2)
           three(v) == two(v) * Base + Digit(v, 3)
           four(v) == three(v) * Base + Digit(v, 4)
<1>1. \A i : /\ Digit(a, i) \in Nat /\ Digit(a, i) < Base
             /\ Digit(b, i) \in Nat /\ Digit(b, i) < Base
  BY WeightOfDigits
<1>2. Weight(a) = four(a) /\ Weight(b) = four(b)
  BY WeightOfDigits
<1>3. /\ two(a) \in Nat /\ two(b) \in Nat
      /\ two(a) < two(b) <=>
           Digit(a, 1) < Digit(b, 1) \/ (Digit(a, 1) = Digit(b, 1) /\ Digit(a, 2) < Digit(b, 2))
      /\ two(b) < two(a) <=>
           Digit(b, 1) < Digit(a, 1) \/ (Digit(b, 1) = Digit(a, 1) /\ Digit(b, 2) < Digit(a, 2))
  <2>1. ASSUME NEW v, NEW w,
               \A i \in {1, 2} : /\ Digit(v, i) \in Nat /\ Digit(v, i) < Base
                                 /\ Digit(w, i) \in Nat /\ Digit(w, i) < Base
        PROVE  /\ two(v) \in Nat
               /\ two(v) < two(w) <=>
                    Digit(v, 1) < Digit(w, 1)
                      \/ (Digit(v, 1) = Digit(w, 1) /\ Digit(v, 2) < Digit(w, 2))
    <3>1. /\ Digit(v, 1) \in Nat /\ Digit(v, 2) \in Nat /\ Digit(v, 2) < Base
          /\ Digit(w, 1) \in Nat /\ Digit(w, 2) \in Nat /\ Digit(w, 2) < Base
      BY <2>1
    <3> QED  BY <3>1, DigitByDigit
  <2> HIDE DEF two
  <2> QED  BY <1>1, <2>1
<1> HIDE DEF two
<1>4. /\ three(a) \in Nat /\ three(b) \in Nat
      /\ three(a) < three(b) <=>
           two(a) < two(b) \/ (two(a) = two(b) /\ Digit(a, 3) < Digit(b, 3))
      /\ three(b) < three(a) <=>
           two(b) < two(a) \/ (two(b) = two(a) /\ Digit(b, 3) < Digit(a, 3))
  BY <1>1, <1>3, DigitByDigit
<1> HIDE DEF three
<1>5. /\ four(a) \in Nat /\ four(b) \in Nat
      /\ four(a) < four(b) <=>
           three(a) < three(b) \/ (three(a) = three(b) /\ Digit(a, 4) < Digit(b, 4))
  BY <1>1, <1>4, DigitByDigit
<1> HIDE DEF four
<1>6. four(a) < four(b) <=> \E i \in 1..4 : LessAt(Numbers(a), Numbers(b), i)
  <2>1. /\ LessAt(Numbers(a), Numbers(b), 1) <=> Digit(a, 1) < Digit(b, 1)
        /\ LessAt(Numbers(a), Numbers(b), 2) <=>
             Digit(a, 1) = Digit(b, 1) /\ Digit(a, 2) < Digit(b, 2)
        /\ LessAt(Numbers(a), Numbers(b), 3) <=>
             /\ Digit(a, 1) = Digit(b, 1) /\ Digit(a, 2) = Digit(b, 2)
             /\ Digit(a, 3) < Digit(b, 3)
        /\ LessAt(Numbers(a), Numbers(b), 4) <=>
             /\ Digit(a, 1) = Digit(b, 1) /\ Digit(a, 2) = Digit(b, 2)
             /\ Digit(a, 3) = Digit(b, 3) /\ Digit(a, 4) < Digit(b, 4)
    <3>1. /\ 1..1 - 1 = {} /\ 1..2 - 1 = {1} /\ 1..3 - 1 = {1, 2} /\ 1..4 - 1 = {1, 2, 3}
      OBVIOUS
    <3> QED  BY <3>1 DEF LessAt, Digit
  <2>2. (\E i \in 1..4 : LessAt(Numbers(a), Numbers(b), i)) <=>
          \/ LessAt(Numbers(a), Numbers(b), 1) \/ LessAt(Numbers(a), Numbers(b), 2)
          \/ LessAt(Numbers(a), Numbers(b), 3) \/ LessAt(Numbers(a), Numbers(b), 4)
    <3>1. 1..4 = {1, 2, 3, 4}
      OBVIOUS
    <3> QED  BY <3>1
  <2>3. /\ two(a) = two(b) <=> Digit(a, 1) = Digit(b, 1) /\ Digit(a, 2) = Digit(b, 2)
        /\ three(a) = three(b) <=> two(a) = two(b) /\ Digit(a, 3) = Digit(b, 3)
    BY <1>1, <1>3, <1>4
  <2> QED  BY <1>1, <1>3, <1>4, <1>5, <2>1, <2>2, <2>3
<1>7. Before(Numbers(a), Numbers(b)) <=> \E i \in 1..4 : LessAt(Numbers(a), Numbers(b), i)
  <2>1. DOMAIN Numbers(a) = 1..Len(a) /\ DOMAIN Numbers(b) = 1..Len(b)
    BY DEF Numbers
  <2>2. ASSUME NEW i \in 1..4, LessAt(Numbers(a), Numbers(b), i)
        PROVE  i \in DOMAIN Numbers(a) \cup DOMAIN Numbers(b)
    BY <2>2 DEF LessAt, At
  <2>3. DOMAIN Numbers(a) \cup DOMAIN Numbers(b) \subseteq 1..4
    <3>1. ASSUME NEW n \in 1..4  PROVE 1..n \subseteq 1..4
      OBVIOUS
    <3> QED  BY <2>1, <3>1
  <2>4. Before(Numbers(a), Numbers(b)) <=>
          \E i \in DOMAIN Numbers(a) \cup DOMAIN Numbers(b) : LessAt(Numbers(a), Numbers(b), i)
    BY DEF Before, LessAt
  <2> QED  BY <2>2, <2>3, <2>4
<1> QED  BY <1>2, <1>5, <1>6, <1>7

\* Versions of at most four parts compare as the numbers they stand for, in the
\* API and in the store (app_version.go:25, app_market_version.go:18).
THEOREM ComparedAsTheyStand == Spec => []ComparesAsNumbers
<1>1. ASSUME NEW a \in Samples, NEW b \in Samples, Len(a) \in 1..4, Len(b) \in 1..4
      PROVE  ComparedAsNumbers(a, b)
  <2>1. a \in Seq(Parts) /\ b \in Seq(Parts)
    BY ReleaseAssumption
  <2>2. /\ Weight(a) \in Nat /\ Weight(b) \in Nat
        /\ Weight(a) < Weight(b) <=> Before(Numbers(a), Numbers(b))
        /\ Weight(b) < Weight(a) <=> Before(Numbers(b), Numbers(a))
    BY <1>1, <2>1, ReleaseAssumption, WeightsAreOrdered
  <2>3. compareSemanticVersions(a, b) = Sign(Weight(a) - Weight(b))
    <3> QED  BY <2>2 DEF compareSemanticVersions, parseVersionSegments, CompareNumbers, Sign
  <2> QED  BY <2>1, <2>3, ComparisonsAgree DEF ComparedAsNumbers
<1>2. ComparesAsNumbers
  BY <1>1 DEF ComparesAsNumbers
<1> QED  BY <1>2, PTL

-----------------------------------------------------------------------------
(***************************************************************************)
(* The invariant: a platform that is done has an entry no older than TTL,  *)
(* the entry is as old as the last request, an attempt that succeeded      *)
(* after the release has its version, and no entry is ahead of the CDN.    *)
(***************************************************************************)
DoneIsRecent ==
  \A p \in Platforms : pc[p] = "done" => cache[p].found /\ cache[p].age <= TTL

AgeIsAsked ==
  \A p \in Platforms :
    asked[p] = IF pc[p] = "fetch" THEN 0
               ELSE IF cache[p].found THEN cache[p].age ELSE TTL

FreshIsCurrent ==
  \A p \in Platforms :
    cache[p].fresh /\ since[p] > cache[p].age => cache[p].min = cdn[p]

NeverAhead ==
  \A p \in Platforms :
    \/ cache[p].min \in {NoVersion, cdn[p]}
    \/ Before(Numbers(cache[p].min), Numbers(cdn[p]))

IInv == TypeOK /\ AskedBeforeServing /\ DoneIsRecent /\ AgeIsAsked
        /\ FreshIsCurrent /\ NeverAhead

\* A server that starts satisfies it,
LEMMA InitIInv == Init => IInv
<1> SUFFICES ASSUME Init  PROVE IInv
  OBVIOUS
<1>1. NoEntry \in Entries
  BY ReleaseAssumption DEF NoEntry, Entries
<1>2. TypeOK
  <2>1. TTL \in 0..TTL + 1 /\ TTL + 1 \in 0..TTL + 1
    BY ReleaseAssumption
  <2>2. cdn \in [Platforms -> Releases] /\ since \in [Platforms -> 0..TTL + 1]
    BY <2>1, ReleaseAssumption DEF Init
  <2>3. cache \in [Platforms -> Entries] /\ asked \in [Platforms -> 0..TTL + 1]
    BY <1>1, <2>1 DEF Init, NewCache, NeverAsked
  <2> QED  BY <2>2, <2>3 DEF Init, TypeOK, AllCheck, Labels
<1>3. AskedBeforeServing /\ DoneIsRecent /\ AgeIsAsked /\ FreshIsCurrent /\ NeverAhead
  BY DEF Init, AskedBeforeServing, DoneIsRecent, AgeIsAsked, FreshIsCurrent, NeverAhead,
         NewCache, AllCheck, NeverAsked, NoEntry
<1> QED  BY <1>2, <1>3 DEF IInv

\* An entry an hour older.
LEMMA OlderEntry ==
  ASSUME NEW e \in Entries, e.age <= TTL
  PROVE  LET o == [e EXCEPT !.age = Older(e.age)]
         IN  /\ o \in Entries /\ o.age = e.age + 1
             /\ o.found = e.found /\ o.min = e.min /\ o.fresh = e.fresh
<1>1. e.age \in 0..TTL /\ Older(e.age) = e.age + 1
  BY ReleaseAssumption DEF Entries, Older
<1>2. e.age + 1 \in 0..TTL + 1
  BY <1>1, ReleaseAssumption
<1> QED  BY <1>1, <1>2 DEF Entries

\* Releasing a version makes every entry of the platform older than it.
LEMMA NewerIsBefore ==
  ASSUME NEW a \in Seq(Parts), NEW b \in Seq(Parts),
         compareSemanticVersions(a, b) = -1
  PROVE  Before(Numbers(a), Numbers(b))
BY DEF compareSemanticVersions, parseVersionSegments, CompareNumbers

\* and every step keeps it.
LEMMA StepIInv ==
  ASSUME IInv, [Next]_vars
  PROVE  IInv'
<1> USE ReleaseAssumption
<1>1. ASSUME NEW p \in Platforms, NEW v \in Releases, Release(p, v)
      PROVE  IInv'
  <2>1. (TypeOK /\ AskedBeforeServing /\ DoneIsRecent /\ AgeIsAsked /\ FreshIsCurrent)'
    BY <1>1 DEF IInv, TypeOK, AskedBeforeServing, DoneIsRecent, AgeIsAsked,
                FreshIsCurrent, Release, bounds, Entries, Labels
  <2>2. NeverAhead'
    <3> SUFFICES ASSUME NEW q \in Platforms,
                        cache[q].min \notin {NoVersion, cdn'[q]}
                 PROVE  Before(Numbers(cache[q].min), Numbers(cdn'[q]))
      BY <1>1 DEF NeverAhead, Release
    <3>1. CASE q # p
      BY <3>1, <1>1 DEF IInv, NeverAhead, Release, TypeOK
    <3>2. CASE q = p
      <4>1. cdn[p] \in Seq(Parts) /\ v \in Seq(Parts) /\ cdn'[p] = v
        BY <1>1 DEF IInv, TypeOK, Release
      <4>2. Before(Numbers(cdn[p]), Numbers(v))
        BY <4>1, <1>1, NewerIsBefore DEF Release
      <4>3. cache[p].min \in Seq(Parts)
        BY <3>2 DEF IInv, TypeOK, Entries
      <4>4. cache[p].min = cdn[p] \/ Before(Numbers(cache[p].min), Numbers(cdn[p]))
        BY <3>2 DEF IInv, NeverAhead
      <4> QED  BY <3>2, <4>1, <4>2, <4>3, <4>4, BeforeIsTransitive
    <3> QED  BY <3>1, <3>2
  <2> QED  BY <2>1, <2>2 DEF IInv
<1>2. ASSUME NEW p \in Platforms, ShouldSkipCDNFetch(p)
      PROVE  IInv'
  <2>1. CASE Skip(p) /\ UNCHANGED asked /\ pc' = [pc EXCEPT ![p] = "done"]
    BY <1>2, <2>1 DEF IInv, TypeOK, AskedBeforeServing, DoneIsRecent, AgeIsAsked,
         FreshIsCurrent, NeverAhead, ShouldSkipCDNFetch, Skip, world, bounds, Entries, Labels
  <2>2. CASE Ask(p) /\ UNCHANGED cache /\ pc' = [pc EXCEPT ![p] = "fetch"]
    BY <1>2, <2>2 DEF IInv, TypeOK, AskedBeforeServing, DoneIsRecent, AgeIsAsked,
         FreshIsCurrent, NeverAhead, ShouldSkipCDNFetch, Ask, world, bounds, Entries, Labels
  <2> QED  BY <1>2, <2>1, <2>2 DEF ShouldSkipCDNFetch
<1>3. ASSUME NEW p \in Platforms, NEW ok \in BOOLEAN,
             pc[p] = "fetch", RecordFetchAttempt(p, ok),
             pc' = [pc EXCEPT ![p] = "done"],
             UNCHANGED <<world, asked, serving>>,
             faults' \in Nat, restarts' \in Nat
      PROVE  IInv'
  <2>1. cache' = [cache EXCEPT ![p] = [found |-> TRUE, age |-> 0, fresh |-> ok,
                                       min |-> IF ok THEN cdn[p] ELSE cache[p].min]]
    BY <1>3 DEF RecordFetchAttempt, IInv, TypeOK
  <2>2. TypeOK'
    BY <1>3, <2>1 DEF IInv, TypeOK, world, Entries, Labels
  <2>3. (AskedBeforeServing /\ DoneIsRecent /\ AgeIsAsked)'
    BY <1>3, <2>1 DEF IInv, TypeOK, AskedBeforeServing, DoneIsRecent, AgeIsAsked, world
  <2>4. (FreshIsCurrent /\ NeverAhead)'
    BY <1>3, <2>1 DEF IInv, TypeOK, FreshIsCurrent, NeverAhead, world
  <2> QED  BY <2>2, <2>3, <2>4 DEF IInv
<1>4. ASSUME NEW p \in Platforms, FetchGateInfo(p) \/ FetchFails(p)
      PROVE  IInv'
  <2>1. PICK ok \in BOOLEAN : RecordFetchAttempt(p, ok)
    BY <1>4 DEF FetchGateInfo, FetchFails
  <2>2. /\ pc[p] = "fetch" /\ pc' = [pc EXCEPT ![p] = "done"]
        /\ UNCHANGED <<world, asked, serving>>
        /\ faults' \in Nat /\ restarts' \in Nat
    <3>1. CASE FetchGateInfo(p)
      BY <3>1 DEF FetchGateInfo, bounds, world, IInv, TypeOK
    <3>2. CASE FetchFails(p)
      BY <3>2 DEF FetchFails, world, IInv, TypeOK
    <3> QED  BY <1>4, <3>1, <3>2
  <2> QED  BY <1>3, <2>1, <2>2
<1>5. ASSUME Serve
      PROVE  IInv'
  BY <1>5 DEF Serve, AllDone, IInv, TypeOK, AskedBeforeServing, DoneIsRecent, AgeIsAsked,
              FreshIsCurrent, NeverAhead, world, bounds
<1>6. ASSUME Tick
      PROVE  IInv'
  <2>1. \A p \in Platforms : cache[p].age <= TTL /\ cache[p].age \in Nat
    BY <1>6 DEF Tick, AllDone, IInv, DoneIsRecent, TypeOK, Entries
  <2>2. \A p \in Platforms :
          /\ cache'[p] \in Entries /\ cache'[p].age = cache[p].age + 1
          /\ cache'[p].found = cache[p].found
          /\ cache'[p].min = cache[p].min
          /\ cache'[p].fresh = cache[p].fresh
    <3> SUFFICES ASSUME NEW p \in Platforms
                 PROVE  /\ cache'[p] \in Entries /\ cache'[p].age = cache[p].age + 1
                        /\ cache'[p].found = cache[p].found
                        /\ cache'[p].min = cache[p].min
                        /\ cache'[p].fresh = cache[p].fresh
      OBVIOUS
    <3>1. cache'[p] = [cache[p] EXCEPT !.age = Older(cache[p].age)]
      BY <1>6 DEF Tick
    <3>2. cache[p] \in Entries /\ cache[p].age <= TTL
      BY <2>1 DEF IInv, TypeOK
    <3> QED  BY <3>1, <3>2, OlderEntry
  <2>3. TypeOK'
    <3>1. \A n \in 0..TTL + 1 : Older(n) \in 0..TTL + 1
      BY DEF Older
    <3>2. cache' = [p \in Platforms |-> cache'[p]]
      BY <1>6 DEF Tick
    <3>3. cache' \in [Platforms -> Entries]
      BY <2>2, <3>2
    <3>4. since' \in [Platforms -> 0..TTL + 1] /\ asked' \in [Platforms -> 0..TTL + 1]
      BY <1>6, <3>1 DEF Tick, IInv, TypeOK
    <3> QED  BY <1>6, <3>3, <3>4 DEF Tick, IInv, TypeOK, AllCheck, Labels, bounds
  <2>4. (AskedBeforeServing /\ DoneIsRecent)'
    BY <1>6, <2>2 DEF Tick, AllDone, IInv, AskedBeforeServing, DoneIsRecent, AllCheck
  <2>5. AgeIsAsked'
    BY <1>6, <2>1, <2>2 DEF Tick, AllDone, Older, IInv, DoneIsRecent, AgeIsAsked, AllCheck
  <2>6. FreshIsCurrent'
    <3> SUFFICES ASSUME NEW p \in Platforms,
                        cache'[p].fresh, since'[p] > cache'[p].age
                 PROVE  cache'[p].min = cdn'[p]
      BY DEF FreshIsCurrent
    <3>1. since[p] \in 0..TTL + 1 /\ since'[p] = Older(since[p])
      BY <1>6 DEF Tick, IInv, TypeOK
    <3>2. since[p] > cache[p].age
      BY <2>1, <2>2, <3>1 DEF Older
    <3> QED  BY <1>6, <2>2, <3>2 DEF Tick, IInv, FreshIsCurrent
  <2>7. NeverAhead'
    BY <1>6, <2>2 DEF Tick, IInv, NeverAhead
  <2> QED  BY <2>3, <2>4, <2>5, <2>6, <2>7 DEF IInv
<1>7. ASSUME Restart
      PROVE  IInv'
  <2>1. NoEntry \in Entries
    BY DEF NoEntry, Entries
  <2>2. TypeOK'
    <3>1. cache' \in [Platforms -> Entries]
      BY <1>7, <2>1 DEF Restart, NewCache
    <3>2. TTL \in 0..TTL + 1
      OBVIOUS
    <3>3. asked' \in [Platforms -> 0..TTL + 1]
      BY <1>7, <3>2 DEF Restart, NeverAsked
    <3>4. pc' \in [Platforms -> Labels]
      BY <1>7 DEF Restart, AllCheck, Labels
    <3>5. /\ cdn' \in [Platforms -> Releases] /\ since' \in [Platforms -> 0..TTL + 1]
          /\ faults' \in Nat /\ restarts' \in Nat /\ serving' \in BOOLEAN
      <4>1. cdn' = cdn /\ since' = since /\ faults' = faults /\ restarts' = restarts + 1
        BY <1>7 DEF Restart, world
      <4>2. serving' \in BOOLEAN
        BY <1>7, Zenon DEF Restart
      <4> QED  BY <4>1, <4>2 DEF IInv, TypeOK
    <3> QED  BY <3>1, <3>3, <3>4, <3>5 DEF TypeOK
  <2>3. (AskedBeforeServing /\ DoneIsRecent /\ AgeIsAsked /\ FreshIsCurrent /\ NeverAhead)'
    BY <1>7 DEF Restart, AskedBeforeServing, DoneIsRecent, AgeIsAsked, FreshIsCurrent, NeverAhead,
                NewCache, AllCheck, NeverAsked, NoEntry
  <2> QED  BY <2>2, <2>3 DEF IInv
<1>8. ASSUME UNCHANGED vars
      PROVE  IInv'
  BY <1>8 DEF vars, world, bounds, IInv, TypeOK, AskedBeforeServing, DoneIsRecent, AgeIsAsked,
              FreshIsCurrent, NeverAhead
<1> QED
  BY <1>1, <1>2, <1>4, <1>5, <1>6, <1>7, <1>8 DEF Next, RefreshPlatform

\* Every variable has its type.
THEOREM TypeCorrect == Spec => []TypeOK
<1>1. IInv => TypeOK  BY DEF IInv
<1> QED  BY <1>1, InitIInv, StepIInv, PTL DEF Spec

\* No request is answered before every platform was asked about
\* (manifest.go:55, :135).
THEOREM GateBeforeServing == Spec => []AskedBeforeServing
<1>1. IInv => AskedBeforeServing  BY DEF IInv
<1> QED  BY <1>1, InitIInv, StepIInv, PTL DEF Spec

\* A minimum published more than TTL ticks ago is in force wherever the last
\* attempt succeeded (manifest.go:161).
THEOREM GateIsFresh == Spec => []FreshUnlessFailed
<1>1. IInv => FreshUnlessFailed
  BY ReleaseAssumption DEF IInv, FreshUnlessFailed, FreshIsCurrent, DoneIsRecent, TypeOK, Entries
<1> QED  BY <1>1, InitIInv, StepIInv, PTL DEF Spec

\* The CDN is asked about a platform at most once in TTL ticks
\* (manifest.go:16, :172).
THEOREM GateIsFrugal == Spec => AttemptsAreSpaced
<1>1. ASSUME IInv, [Next]_vars, NEW p \in Platforms, pc[p] = "check", pc'[p] = "fetch"
      PROVE  asked[p] >= TTL
  <2>1. asked[p] = IF cache[p].found THEN cache[p].age ELSE TTL
    BY <1>1 DEF IInv, AgeIsAsked
  <2>2. Ask(p)
    <3>1. ASSUME NEW q \in Platforms, ShouldSkipCDNFetch(q)  PROVE Ask(p)
      BY <1>1, <3>1 DEF IInv, TypeOK, ShouldSkipCDNFetch
    <3>2. ASSUME NEW q \in Platforms,
                 FetchGateInfo(q) \/ FetchFails(q) \/ \E v \in Releases : Release(q, v)
          PROVE  FALSE
      BY <1>1, <3>2 DEF IInv, TypeOK, FetchGateInfo, FetchFails, Release
    <3>3. ~(Serve \/ Tick \/ Restart \/ UNCHANGED vars)
      BY <1>1 DEF Serve, Tick, Restart, vars, AllCheck
    <3> QED  BY <1>1, <3>1, <3>2, <3>3 DEF Next, RefreshPlatform
  <2> QED  BY <2>1, <2>2, <1>1, ReleaseAssumption DEF Ask, IInv, TypeOK, Entries
<1>2. IInv /\ [Next]_vars =>
        [\A p \in Platforms :
           pc[p] = "check" /\ pc'[p] = "fetch" => asked[p] >= TTL]_vars
  BY <1>1
<1> QED  BY <1>2, InitIInv, StepIInv, PTL DEF Spec, AttemptsAreSpaced

\* Whoever has the version the manifest requires is let in
\* (app_version_guard.go:32): no entry is ahead of its manifest.
THEOREM UpgradeSuffices == Spec => []UpgradeIsEnough
<1>1. ASSUME IInv, NEW h, NormalizePlatform(h) \in Platforms
      PROVE  ~Refuses(h, cdn[NormalizePlatform(h)])
  <2> DEFINE p == NormalizePlatform(h)
             min == cache[p].min
  <2> SUFFICES ASSUME min # NoVersion
               PROVE  cdn[p] # NoVersion /\ compareSemanticVersions(cdn[p], min) # -1
    BY <1>1 DEF Refuses, GateInfoForPlatform
  <2>1. cdn[p] \in Releases /\ min \in Releases
    BY <1>1 DEF IInv, TypeOK, Entries
  <2>2. ~Before(Numbers(cdn[p]), Numbers(min))
    <3>1. cdn[p] \in Seq(Parts) /\ min \in Seq(Parts)
      BY <2>1, ReleaseAssumption
    <3>2. min = cdn[p] \/ Before(Numbers(min), Numbers(cdn[p]))
      BY <1>1 DEF IInv, NeverAhead
    <3> HIDE DEF p, min
    <3> QED  BY <3>1, <3>2, BeforeIsAsymmetric
  <2>3. compareSemanticVersions(cdn[p], min) # -1
    BY <2>2 DEF compareSemanticVersions, parseVersionSegments, CompareNumbers
  <2> QED  BY <2>1, <2>3, ReleaseAssumption
<1>2. IInv => UpgradeIsEnough
  BY <1>1 DEF UpgradeIsEnough
<1> QED  BY <1>2, InitIInv, StepIInv, PTL DEF Spec

-----------------------------------------------------------------------------
(***************************************************************************)
(* The versions of the app markets: types first.                           *)
(***************************************************************************)
\* The first state is well typed,
LEMMA MarketTypeInit == MarketInit => MarketTypeOK
<1>1. 1 \in MarketVersions /\ 0 \in 0..LockTTL + 1 /\ 0 \in 0..MaxJob + MaxRelease
  BY MarketAssumption DEF MarketVersions
<1>2. "idle" \in Phases
  BY DEF Phases
<1> QED BY <1>1, <1>2, MarketAssumption DEF MarketInit, MarketTypeOK

\* A job that is not idle works for a platform.
LEMMA JobHasPlatform ==
  ASSUME MarketTypeOK, NEW j \in Jobs, phase[j] # "idle"
  PROVE  platform[j] \in MarketPlatforms
BY MarketAssumption DEF MarketTypeOK

\* The steps of a job that end it, or take it to its next phase.
LEMMA DoneType ==
  ASSUME MarketTypeOK, NEW j \in Jobs, Done(j)
  PROVE  /\ phase' \in [Jobs -> Phases]
         /\ platform' \in [Jobs -> MarketPlatforms \cup {NoPlatform}]
         /\ \A i \in Jobs : phase'[i] = "idle" <=> platform'[i] = NoPlatform
         /\ jobAge' \in [Jobs -> 0..MaxJob + MaxRelease]
         /\ fetched' \in [Jobs -> MarketVersions]
<1>1. 1 \in MarketVersions /\ 0 \in 0..MaxJob + MaxRelease /\ "idle" \in Phases
  BY MarketAssumption DEF MarketVersions, Phases
<1> QED BY <1>1 DEF MarketTypeOK, Done

LEMMA GotoType ==
  ASSUME MarketTypeOK, NEW j \in Jobs, phase[j] # "idle",
         NEW label \in Phases \ {"idle"}, Goto(j, label)
  PROVE  /\ phase' \in [Jobs -> Phases]
         /\ platform' \in [Jobs -> MarketPlatforms \cup {NoPlatform}]
         /\ \A i \in Jobs : phase'[i] = "idle" <=> platform'[i] = NoPlatform
         /\ jobAge' \in [Jobs -> 0..MaxJob + MaxRelease]
BY DEF MarketTypeOK, Goto

\* and every step leaves it so.
LEMMA MarketTypeStep == MarketTypeOK /\ [MarketNext]_marketVars => MarketTypeOK'
<1> SUFFICES ASSUME MarketTypeOK, [MarketNext]_marketVars PROVE MarketTypeOK'
  OBVIOUS
<1>1. /\ 1 \in MarketVersions /\ 0 \in 0..LockTTL + 1 /\ 0 \in 0..MaxJob + MaxRelease
      /\ MaxJob \in Nat /\ MaxRelease \in Nat /\ LockTTL \in Nat /\ MaxVersion \in Nat
      /\ \A l \in {"idle", "fetch", "update", "config", "manifest", "release"} : l \in Phases
  BY MarketAssumption DEF MarketVersions, Phases, Working
<1>2. ASSUME NEW p \in MarketPlatforms, MarketReleases(p) PROVE MarketTypeOK'
  <2>1. market[p] \in MarketVersions /\ market[p] < MaxVersion
    BY <1>2 DEF MarketTypeOK, MarketReleases
  <2>2. market[p] + 1 \in MarketVersions
    BY <1>1, <2>1 DEF MarketVersions
  <2> QED BY <1>2, <2>2 DEF MarketTypeOK, MarketReleases, row, files, jobs, jobBounds
<1>3. ASSUME NEW p \in MarketPlatforms, NEW v \in MarketVersions, ClaimReplyLost(p, v)
      PROVE  MarketTypeOK'
  BY <1>1, <1>3 DEF MarketTypeOK, ClaimReplyLost, Fault, TakeLock, files, jobs
<1>4. ASSUME NEW p \in MarketPlatforms, NEW v \in MarketVersions, NEW j \in Jobs, Report(p, v, j)
      PROVE  MarketTypeOK'
  <2>1. p # NoPlatform
    BY MarketAssumption
  <2> QED BY <1>1, <1>4, <2>1 DEF MarketTypeOK, Report, TakeLock, files, jobBounds
<1>5. ASSUME NEW j \in Jobs, FetchLatestVersion(j) PROVE MarketTypeOK'
  <2>1. phase[j] = "fetch" /\ platform[j] \in MarketPlatforms
    BY <1>5, JobHasPlatform DEF FetchLatestVersion
  <2>2. market[platform[j]] \in MarketVersions
    BY <2>1 DEF MarketTypeOK
  <2>3. Goto(j, "update") /\ "update" \in Phases \ {"idle"}
    BY <1>1, <1>5 DEF FetchLatestVersion
  <2> QED BY <1>5, <2>1, <2>2, <2>3, GotoType
          DEF MarketTypeOK, FetchLatestVersion, row, files, jobBounds
<1>6. ASSUME NEW j \in Jobs, UpdateAppMarketVersion(j) PROVE MarketTypeOK'
  <2>1. phase[j] = "update" /\ platform[j] \in MarketPlatforms
    BY <1>6, JobHasPlatform DEF UpdateAppMarketVersion
  <2>2. fetched[j] \in MarketVersions
    BY DEF MarketTypeOK
  <2>3. Goto(j, "config") /\ "config" \in Phases \ {"idle"}
    BY <1>1, <1>6 DEF UpdateAppMarketVersion
  <2> QED BY <1>6, <2>1, <2>2, <2>3, GotoType
          DEF MarketTypeOK, UpdateAppMarketVersion, files, jobBounds
<1>7. ASSUME NEW j \in Jobs, PublishConfig(j) PROVE MarketTypeOK'
  <2>1. phase[j] = "config" /\ platform[j] \in MarketPlatforms
    BY <1>7, JobHasPlatform DEF PublishConfig
  <2>2. fetched[j] \in MarketVersions
    BY DEF MarketTypeOK
  <2>3. PICK label \in Phases \ {"idle"} : Goto(j, label)
    BY <1>1, <1>7 DEF PublishConfig
  <2> QED BY <1>7, <2>1, <2>2, <2>3, GotoType
          DEF MarketTypeOK, PublishConfig, WriteConfig, row, jobBounds
<1>8. ASSUME NEW j \in Jobs, PublishManifest(j) PROVE MarketTypeOK'
  <2>1. phase[j] = "manifest" /\ platform[j] \in MarketPlatforms
    BY <1>8, JobHasPlatform DEF PublishManifest
  <2>2. fetched[j] \in MarketVersions
    BY DEF MarketTypeOK
  <2>3. Goto(j, "release") /\ "release" \in Phases \ {"idle"}
    BY <1>1, <1>8 DEF PublishManifest
  <2> QED BY <1>8, <2>1, <2>2, <2>3, GotoType
          DEF MarketTypeOK, PublishManifest, WriteManifest, row, jobBounds
<1>9. ASSUME NEW j \in Jobs, ReleaseFetch(j) PROVE MarketTypeOK'
  <2>1. Done(j)
    BY <1>9 DEF ReleaseFetch
  <2> QED BY <1>1, <1>9, <2>1, DoneType DEF MarketTypeOK, ReleaseFetch, files, jobBounds
<1>10. ASSUME NEW j \in Jobs, CallFails(j) PROVE MarketTypeOK'
  <2>1. phase[j] # "idle" /\ fetched[j] \in MarketVersions
    BY <1>10 DEF CallFails, Working, MarketTypeOK
  <2>2. Goto(j, "release") /\ "release" \in Phases \ {"idle"}
    BY <1>1, <1>10 DEF CallFails
  <2>3. /\ latest' \in [MarketPlatforms -> MarketVersions]
        /\ config' \in [MarketPlatforms -> MarketVersions]
        /\ manifest' \in [ManifestPlatforms -> MarketVersions]
    BY <1>10, <2>1 DEF CallFails, files, WriteConfig, WriteManifest, MarketTypeOK
  <2> QED BY <1>10, <2>1, <2>2, <2>3, GotoType DEF MarketTypeOK, CallFails, Fault
<1>11. ASSUME NEW j \in Jobs, ReleaseFails(j) PROVE MarketTypeOK'
  <2>1. Done(j)
    BY <1>11 DEF ReleaseFails
  <2> QED BY <1>11, <2>1, DoneType DEF MarketTypeOK, ReleaseFails, Fault, row, files
<1>12. ASSUME TimePasses PROVE MarketTypeOK'
  <2>1. ASSUME NEW p \in MarketPlatforms PROVE age'[p] \in 0..LockTTL + 1
    BY <1>1, <1>12 DEF MarketTypeOK, TimePasses
  <2>2. ASSUME NEW j \in Jobs PROVE jobAge'[j] \in 0..MaxJob + MaxRelease
    <3>1. /\ phase[j] \in Phases /\ jobAge[j] \in Nat
          /\ jobAge'[j] = IF phase[j] = "idle" THEN 0 ELSE jobAge[j] + 1
          /\ phase[j] \in Working => jobAge[j] < MaxJob
          /\ phase[j] = "release" => jobAge[j] < MaxJob + MaxRelease
      BY <1>1, <1>12 DEF MarketTypeOK, TimePasses
    <3> QED BY <1>1, <3>1 DEF Phases
  <2>3. age' \in [MarketPlatforms -> 0..LockTTL + 1]
    BY <1>12, <2>1 DEF TimePasses
  <2>4. jobAge' \in [Jobs -> 0..MaxJob + MaxRelease]
    BY <1>12, <2>2 DEF TimePasses
  <2> QED BY <1>12, <2>3, <2>4 DEF MarketTypeOK, TimePasses, files, jobBounds
<1>13. ASSUME Crash PROVE MarketTypeOK'
  BY <1>1, <1>13 DEF MarketTypeOK, Crash, row, files
<1>14. ASSUME UNCHANGED marketVars PROVE MarketTypeOK'
  BY <1>14 DEF MarketTypeOK, marketVars, row, files, jobs, jobBounds
<1> QED
  BY <1>2, <1>3, <1>4, <1>5, <1>6, <1>7, <1>8, <1>9, <1>10, <1>11, <1>12, <1>13, <1>14
  DEF MarketNext, RefreshAppMarketVersion

\* Every reachable state of the lock, the jobs and the published files is well
\* typed (app_market_version.go, app_market_handlers.go).
THEOREM MarketTypeCorrect == MarketSpec => []MarketTypeOK
BY MarketTypeInit, MarketTypeStep, PTL DEF MarketSpec

-----------------------------------------------------------------------------
\* Nobody works for a platform at first.
LEMMA MarketInitInv == MarketInit => MarketInv
<1> SUFFICES ASSUME MarketInit PROVE MarketInv
  OBVIOUS
<1>1. MarketTypeOK
  BY MarketTypeInit
<1>2. \A j \in Jobs : phase[j] = "idle"
  BY DEF MarketInit
<1>3. KnownIsCarried
  BY MarketAssumption DEF MarketInit, KnownIsCarried, Known
<1> QED BY <1>1, <1>2, <1>3 DEF MarketInv, LocksHeld, OneFetch, FetchedIsAhead

\* Nobody works for a platform whose lock may be claimed: its holder's lock is
\* not stale yet.
LEMMA ClaimedIsFree ==
  ASSUME MarketInv, JobsEndInTime, NEW p \in MarketPlatforms, NEW v, Claimable(p, v),
         NEW j \in Jobs, phase[j] # "idle"
  PROVE  platform[j] # p
<1> SUFFICES ASSUME platform[j] = p PROVE FALSE
  OBVIOUS
<1>1. locked[p] /\ age[p] = jobAge[j]
  BY DEF MarketInv, LocksHeld
<1>2. jobAge[j] \in 0..MaxJob + MaxRelease
  BY DEF MarketInv, MarketTypeOK
<1>3. ~Stale(p)
  BY <1>1, <1>2, MarketAssumption DEF JobsEndInTime, Stale
<1> QED BY <1>1, <1>3 DEF Claimable

\* Locks and jobs through a step that takes a job to its next phase,
LEMMA GotoKeepsLocks ==
  ASSUME MarketInv, NEW j \in Jobs, phase[j] # "idle", NEW label, Goto(j, label),
         UNCHANGED <<locked, age>>
  PROVE  LocksHeld' /\ OneFetch'
<1>1. /\ UNCHANGED <<platform, jobAge, locked, age>>
      /\ \A i \in Jobs : phase'[i] # "idle" => phase[i] # "idle"
  BY DEF Goto, MarketInv, MarketTypeOK
<1> QED BY <1>1 DEF MarketInv, LocksHeld, OneFetch

\* and through one that ends it.
LEMMA DoneKeepsLocks ==
  ASSUME MarketInv, NEW j \in Jobs, phase[j] # "idle", Done(j),
         \A p \in MarketPlatforms \ {platform[j]} : locked'[p] = locked[p] /\ age'[p] = age[p]
  PROVE  LocksHeld' /\ OneFetch'
<1>1. \A i \in Jobs : phase'[i] # "idle" =>
        /\ i # j /\ phase[i] # "idle"
        /\ platform'[i] = platform[i] /\ jobAge'[i] = jobAge[i]
  BY DEF Done, MarketInv, MarketTypeOK
<1>2. \A i \in Jobs : phase'[i] # "idle" => platform[i] \in MarketPlatforms \ {platform[j]}
  BY <1>1, JobHasPlatform DEF MarketInv, OneFetch
<1>3. LocksHeld'
  BY <1>1, <1>2 DEF MarketInv, LocksHeld
<1>4. \A i \in Jobs : i # j => platform'[i] = platform[i]
  BY DEF Done, MarketInv, MarketTypeOK
<1>5. platform'[j] = NoPlatform
  BY DEF Done, MarketInv, MarketTypeOK
<1>6. OneFetch'
  <2> SUFFICES ASSUME NEW i \in Jobs, NEW h \in Jobs, phase'[i] # "idle", platform'[i] = platform'[h]
               PROVE  i = h
    BY DEF OneFetch
  <2>1. platform'[i] # NoPlatform
    BY <1>1, <1>2, MarketAssumption
  <2>2. h # j /\ i # j
    BY <1>1, <1>5, <2>1
  <2> QED BY <1>1, <1>4, <2>2 DEF MarketInv, OneFetch
<1> QED BY <1>3, <1>6

\* A step that writes what a job has fetched over what is known of its platform,
\* or writes nothing.
LEMMA WritingKeepsOrder ==
  ASSUME MarketInv, NEW j \in Jobs, phase[j] \in {"update", "config", "manifest"},
         UNCHANGED <<market, platform, fetched>>,
         \A i \in Jobs \ {j} : phase'[i] = phase[i],
         \A p \in MarketPlatforms \ {platform[j]} : Known(p)' = Known(p),
         Known(platform[j])' \subseteq Known(platform[j]) \cup {fetched[j]}
  PROVE  KnownIsCarried' /\ FetchedIsAhead'
<1>1. /\ platform[j] \in MarketPlatforms
      /\ fetched[j] <= market[platform[j]] /\ fetched[j] \in Nat
      /\ \A v \in Known(platform[j]) : v <= fetched[j]
  BY JobHasPlatform DEF MarketInv, FetchedIsAhead, MarketTypeOK, MarketVersions
<1>2. KnownIsCarried'
  <2> SUFFICES ASSUME NEW p \in MarketPlatforms, NEW v \in Known(p)' PROVE v <= market[p]
    BY DEF KnownIsCarried
  <2>1. CASE p = platform[j]
    BY <1>1, <2>1 DEF MarketInv, KnownIsCarried
  <2>2. CASE p # platform[j]
    BY <2>2 DEF MarketInv, KnownIsCarried
  <2> QED BY <2>1, <2>2
<1>3. FetchedIsAhead'
  <2> SUFFICES ASSUME NEW i \in Jobs, phase'[i] \in {"update", "config", "manifest"}
               PROVE  /\ fetched[i] <= market[platform[i]]
                      /\ \A v \in Known(platform[i])' : v <= fetched[i]
    BY DEF FetchedIsAhead
  <2>1. CASE i = j
    BY <1>1, <2>1
  <2>2. CASE i # j
    <3>1. phase[i] \in {"update", "config", "manifest"}
      BY <2>2
    <3>2. platform[i] \in MarketPlatforms /\ platform[i] # platform[j]
      BY <2>2, <3>1, JobHasPlatform DEF MarketInv, OneFetch
    <3>3. Known(platform[i])' = Known(platform[i])
      BY <3>2
    <3> QED BY <3>1, <3>3 DEF MarketInv, FetchedIsAhead
  <2> QED BY <2>1, <2>2
<1> QED BY <1>2, <1>3

\* Each step keeps the invariant.
LEMMA MarketStepInv ==
  ASSUME JobsEndInTime PROVE MarketInv /\ [MarketNext]_marketVars => MarketInv'
<1> SUFFICES ASSUME MarketInv, [MarketNext]_marketVars PROVE MarketInv'
  OBVIOUS
<1>0. MarketTypeOK /\ MarketTypeOK'
  BY MarketTypeStep DEF MarketInv
<1> SUFFICES LocksHeld' /\ OneFetch' /\ KnownIsCarried' /\ FetchedIsAhead'
  BY <1>0 DEF MarketInv
<1> DEFINE Goal == LocksHeld' /\ OneFetch' /\ KnownIsCarried' /\ FetchedIsAhead'
<1>2. ASSUME NEW p \in MarketPlatforms, MarketReleases(p) PROVE Goal
  <2>1. /\ \A q \in MarketPlatforms : market'[q] >= market[q]
        /\ \A q \in MarketPlatforms : market'[q] \in Nat /\ market[q] \in Nat
    BY <1>0, <1>2 DEF MarketReleases, MarketTypeOK, MarketVersions
  <2>2. UNCHANGED <<latest, locked, age, config, manifest, phase, platform, jobAge, fetched>>
    BY <1>2 DEF MarketReleases, row, files, jobs
  <2>3. \A q \in MarketPlatforms : Known(q)' = Known(q) /\ Known(q) \subseteq Nat
    BY <1>0, <2>2 DEF Known, MarketTypeOK, MarketVersions
  <2>4. \A j \in Jobs : fetched[j] \in Nat
    BY <1>0 DEF MarketTypeOK, MarketVersions
  <2>5. LocksHeld' /\ OneFetch'
    BY <2>2 DEF MarketInv, LocksHeld, OneFetch
  <2>6. KnownIsCarried'
    <3> SUFFICES ASSUME NEW q \in MarketPlatforms, NEW v \in Known(q) PROVE v <= market'[q]
      BY <2>3 DEF KnownIsCarried
    <3>1. v \in Nat /\ v <= market[q]
      BY <2>3 DEF MarketInv, KnownIsCarried
    <3> QED BY <2>1, <3>1
  <2>7. FetchedIsAhead'
    <3> SUFFICES ASSUME NEW j \in Jobs, phase[j] \in {"update", "config", "manifest"}
                 PROVE  /\ fetched[j] <= market'[platform[j]]
                        /\ \A v \in Known(platform[j])' : v <= fetched[j]
      BY <2>2 DEF FetchedIsAhead
    <3>1. platform[j] \in MarketPlatforms
      BY <1>0, JobHasPlatform
    <3>2. fetched[j] <= market[platform[j]] /\ \A v \in Known(platform[j]) : v <= fetched[j]
      BY DEF MarketInv, FetchedIsAhead
    <3>3. Known(platform[j])' = Known(platform[j]) /\ Known(platform[j]) \subseteq Nat
      BY <2>2, <2>3, <3>1 DEF Known
    <3>4. /\ fetched[j] \in Nat /\ market[platform[j]] \in Nat /\ market'[platform[j]] \in Nat
          /\ market'[platform[j]] >= market[platform[j]]
      BY <2>1, <2>4, <3>1
    <3> QED BY <3>2, <3>3, <3>4
  <2> QED BY <2>5, <2>6, <2>7
<1>3. ASSUME NEW p \in MarketPlatforms, NEW v \in MarketVersions, ClaimReplyLost(p, v)
      PROVE  Goal
  <2>1. Claimable(p, v) /\ TakeLock(p)
    BY <1>3 DEF ClaimReplyLost
  <2>2. UNCHANGED <<market, latest, config, manifest, phase, platform, jobAge, fetched>>
    BY <1>3 DEF ClaimReplyLost, TakeLock, files, jobs
  <2>3. \A q \in MarketPlatforms \ {p} : locked'[q] = locked[q] /\ age'[q] = age[q]
    BY <1>0, <2>1 DEF TakeLock, MarketTypeOK
  <2>4. \A j \in Jobs : phase[j] # "idle" => platform[j] \in MarketPlatforms \ {p}
    BY <1>0, <2>1, ClaimedIsFree, JobHasPlatform
  <2>5. LocksHeld' /\ OneFetch'
    BY <2>2, <2>3, <2>4 DEF MarketInv, LocksHeld, OneFetch
  <2> QED BY <2>2, <2>5 DEF MarketInv, KnownIsCarried, FetchedIsAhead, Known
<1>4. ASSUME NEW p \in MarketPlatforms, NEW v \in MarketVersions, NEW j \in Jobs, Report(p, v, j)
      PROVE  Goal
  <2>1. Claimable(p, v) /\ TakeLock(p) /\ phase[j] = "idle" /\ p # NoPlatform
    BY <1>4, MarketAssumption DEF Report
  <2>2. UNCHANGED <<market, latest, config, manifest, fetched>>
    BY <1>4 DEF Report, TakeLock, files
  <2>3. /\ \A q \in MarketPlatforms \ {p} : locked'[q] = locked[q] /\ age'[q] = age[q]
        /\ locked'[p] = TRUE /\ age'[p] = 0
    BY <1>0, <2>1 DEF TakeLock, MarketTypeOK
  <2>4. /\ \A i \in Jobs \ {j} : /\ phase'[i] = phase[i] /\ platform'[i] = platform[i]
                                 /\ jobAge'[i] = jobAge[i]
        /\ phase'[j] = "fetch" /\ platform'[j] = p /\ jobAge'[j] = 0
    BY <1>0, <1>4 DEF Report, MarketTypeOK
  <2>5. \A i \in Jobs : phase[i] # "idle" => platform[i] \in MarketPlatforms \ {p}
    BY <1>0, <2>1, ClaimedIsFree, JobHasPlatform
  <2>6. \A i \in Jobs \ {j} : platform[i] # p
    BY <1>0, <2>1, <2>5 DEF MarketTypeOK
  <2>7. LocksHeld'
    BY <2>3, <2>4, <2>5 DEF MarketInv, LocksHeld
  <2>8. OneFetch'
    BY <2>4, <2>6 DEF MarketInv, OneFetch
  <2>9. KnownIsCarried'
    BY <2>2 DEF MarketInv, KnownIsCarried, Known
  <2>10. FetchedIsAhead'
    <3> SUFFICES ASSUME NEW i \in Jobs, phase'[i] \in {"update", "config", "manifest"}
                 PROVE  /\ fetched'[i] <= market'[platform'[i]]
                        /\ \A w \in Known(platform[i])' : w <= fetched'[i]
      BY DEF FetchedIsAhead
    <3>1. i # j /\ phase[i] \in {"update", "config", "manifest"} /\ platform'[i] = platform[i]
      BY <2>4
    <3>3. fetched[i] <= market[platform[i]] /\ \A w \in Known(platform[i]) : w <= fetched[i]
      BY <3>1 DEF MarketInv, FetchedIsAhead
    <3>4. Known(platform[i])' = Known(platform[i])
      BY <2>2, <3>1 DEF Known
    <3> QED BY <2>2, <3>1, <3>3, <3>4
  <2> QED BY <2>7, <2>8, <2>9, <2>10
<1>5. ASSUME NEW j \in Jobs, FetchLatestVersion(j) PROVE Goal
  <2>1. /\ phase[j] # "idle" /\ Goto(j, "update") /\ platform[j] \in MarketPlatforms
        /\ UNCHANGED <<market, latest, locked, age, config, manifest, platform>>
        /\ fetched'[j] = market[platform[j]]
        /\ \A i \in Jobs \ {j} : fetched'[i] = fetched[i] /\ phase'[i] = phase[i]
    BY <1>0, <1>5, JobHasPlatform DEF FetchLatestVersion, Goto, row, files, MarketTypeOK
  <2>2. LocksHeld' /\ OneFetch'
    BY <2>1, GotoKeepsLocks
  <2>3. \A q : Known(q)' = Known(q)
    BY <2>1 DEF Known
  <2>4. KnownIsCarried'
    BY <2>1, <2>3 DEF MarketInv, KnownIsCarried
  <2>5. FetchedIsAhead'
    <3> SUFFICES ASSUME NEW i \in Jobs, phase'[i] \in {"update", "config", "manifest"}
                 PROVE  /\ fetched'[i] <= market[platform[i]]
                        /\ \A v \in Known(platform[i]) : v <= fetched'[i]
      BY <2>1, <2>3 DEF FetchedIsAhead
    <3>1. CASE i = j
      <4>1. market[platform[j]] \in Nat
        BY <1>0, <2>1 DEF MarketTypeOK, MarketVersions
      <4> QED BY <2>1, <3>1, <4>1 DEF MarketInv, KnownIsCarried
    <3>2. CASE i # j
      BY <2>1, <3>2 DEF MarketInv, FetchedIsAhead
    <3> QED BY <3>1, <3>2
  <2> QED BY <2>2, <2>4, <2>5
<1>6. ASSUME NEW j \in Jobs, UpdateAppMarketVersion(j) PROVE Goal
  <2>1. /\ phase[j] = "update" /\ Goto(j, "config")
        /\ UNCHANGED <<market, locked, age, config, manifest, platform, fetched>>
        /\ \A i \in Jobs \ {j} : phase'[i] = phase[i]
        /\ \A q \in MarketPlatforms \ {platform[j]} : latest'[q] = latest[q]
        /\ latest'[platform[j]] = fetched[j]
    BY <1>0, <1>6, JobHasPlatform DEF UpdateAppMarketVersion, Goto, files, MarketTypeOK
  <2>2. LocksHeld' /\ OneFetch'
    BY <2>1, GotoKeepsLocks
  <2>3. /\ \A q \in MarketPlatforms \ {platform[j]} : Known(q)' = Known(q)
        /\ Known(platform[j])' \subseteq Known(platform[j]) \cup {fetched[j]}
    BY <2>1 DEF Known
  <2> QED BY <2>1, <2>2, <2>3, WritingKeepsOrder
<1>7. ASSUME NEW j \in Jobs, PublishConfig(j) PROVE Goal
  <2>1. PICK label : Goto(j, label)
    BY <1>7 DEF PublishConfig
  <2>2. /\ phase[j] = "config"
        /\ UNCHANGED <<market, latest, locked, age, manifest, platform, fetched>>
        /\ \A i \in Jobs \ {j} : phase'[i] = phase[i]
        /\ \A q \in MarketPlatforms \ {platform[j]} : config'[q] = config[q]
        /\ config'[platform[j]] = fetched[j]
    BY <1>0, <1>7, <2>1, JobHasPlatform DEF PublishConfig, WriteConfig, Goto, row, MarketTypeOK
  <2>3. LocksHeld' /\ OneFetch'
    BY <2>1, <2>2, GotoKeepsLocks
  <2>4. /\ \A q \in MarketPlatforms \ {platform[j]} : Known(q)' = Known(q)
        /\ Known(platform[j])' \subseteq Known(platform[j]) \cup {fetched[j]}
    BY <2>2 DEF Known
  <2> QED BY <2>2, <2>3, <2>4, WritingKeepsOrder
<1>8. ASSUME NEW j \in Jobs, PublishManifest(j) PROVE Goal
  <2>1. /\ phase[j] = "manifest" /\ Goto(j, "release") /\ WriteManifest(j)
        /\ UNCHANGED <<market, latest, locked, age, config, platform, fetched>>
        /\ \A i \in Jobs \ {j} : phase'[i] = phase[i]
    BY <1>0, <1>8 DEF PublishManifest, Goto, row, MarketTypeOK
  <2>2. LocksHeld' /\ OneFetch'
    BY <2>1, GotoKeepsLocks
  <2>3. \A q \in ManifestPlatforms : manifest'[q] = manifest[q] \/ (q = platform[j] /\ manifest'[q] = fetched[j])
    BY <1>0, <2>1 DEF WriteManifest, MarketTypeOK
  <2>4. /\ \A q \in MarketPlatforms \ {platform[j]} : Known(q)' = Known(q)
        /\ Known(platform[j])' \subseteq Known(platform[j]) \cup {fetched[j]}
    BY <2>1, <2>3 DEF Known
  <2> QED BY <2>1, <2>2, <2>4, WritingKeepsOrder
<1>9. ASSUME NEW j \in Jobs, phase[j] = "release", Done(j),
             UNCHANGED <<market, latest, config, manifest>>,
             \A p \in MarketPlatforms \ {platform[j]} : locked'[p] = locked[p] /\ age'[p] = age[p]
      PROVE  Goal
  <2>1. LocksHeld' /\ OneFetch'
    BY <1>9, DoneKeepsLocks
  <2>2. /\ \A i \in Jobs \ {j} : /\ phase'[i] = phase[i] /\ platform'[i] = platform[i]
                                 /\ fetched'[i] = fetched[i]
        /\ phase'[j] = "idle"
    BY <1>0, <1>9 DEF Done, MarketTypeOK
  <2>3. \A q : Known(q)' = Known(q)
    BY <1>9 DEF Known
  <2>4. KnownIsCarried'
    BY <1>9, <2>3 DEF MarketInv, KnownIsCarried
  <2>5. FetchedIsAhead'
    <3> SUFFICES ASSUME NEW i \in Jobs, phase'[i] \in {"update", "config", "manifest"}
                 PROVE  /\ fetched'[i] <= market[platform'[i]]
                        /\ \A v \in Known(platform[i])' : v <= fetched'[i]
      BY <1>9 DEF FetchedIsAhead
    <3>1. /\ phase[i] \in {"update", "config", "manifest"}
          /\ platform'[i] = platform[i] /\ fetched'[i] = fetched[i]
      BY <2>2
    <3>2. Known(platform[i])' = Known(platform[i])
      BY <1>9, <3>1 DEF Known
    <3> QED BY <3>1, <3>2 DEF MarketInv, FetchedIsAhead
  <2> QED BY <2>1, <2>4, <2>5
<1>10. ASSUME NEW j \in Jobs, ReleaseFetch(j) PROVE Goal
  <2>1. /\ phase[j] = "release" /\ Done(j) /\ UNCHANGED <<market, latest, config, manifest>>
        /\ \A p \in MarketPlatforms \ {platform[j]} : locked'[p] = locked[p] /\ age'[p] = age[p]
    BY <1>0, <1>10 DEF ReleaseFetch, files, MarketTypeOK
  <2> QED BY <1>9, <2>1
<1>11. ASSUME NEW j \in Jobs, ReleaseFails(j) PROVE Goal
  <2>1. /\ phase[j] = "release" /\ Done(j) /\ UNCHANGED <<market, latest, config, manifest>>
        /\ UNCHANGED <<locked, age>>
    BY <1>11 DEF ReleaseFails, row, files
  <2> QED BY <1>9, <2>1
<1>12. ASSUME NEW j \in Jobs, CallFails(j) PROVE Goal
  <2>1. /\ phase[j] \in Working /\ Goto(j, "release")
        /\ UNCHANGED <<market, locked, age, platform, fetched>>
        /\ \A i \in Jobs \ {j} : phase'[i] = phase[i]
        /\ phase'[j] = "release"
    BY <1>0, <1>12 DEF CallFails, Goto, MarketTypeOK
  <2>2. LocksHeld' /\ OneFetch'
    BY <2>1, GotoKeepsLocks DEF Working
  <2>3. CASE UNCHANGED <<latest, config, manifest>>
    <3>1. \A q : Known(q)' = Known(q)
      BY <2>3 DEF Known
    <3>2. KnownIsCarried'
      BY <2>1, <3>1 DEF MarketInv, KnownIsCarried
    <3>3. FetchedIsAhead'
      <4> SUFFICES ASSUME NEW i \in Jobs, phase'[i] \in {"update", "config", "manifest"}
                   PROVE  /\ fetched[i] <= market[platform[i]]
                          /\ \A v \in Known(platform[i]) : v <= fetched[i]
        BY <2>1, <3>1 DEF FetchedIsAhead
      <4>1. phase[i] \in {"update", "config", "manifest"}
        BY <2>1
      <4> QED BY <4>1 DEF MarketInv, FetchedIsAhead
    <3> QED BY <2>2, <3>2, <3>3
  <2>4. CASE ~UNCHANGED <<latest, config, manifest>>
    <3>1. phase[j] \in {"update", "config", "manifest"} /\ platform[j] \in MarketPlatforms
      BY <1>0, <1>12, <2>4, JobHasPlatform DEF CallFails, files
    <3>2. /\ \A q \in MarketPlatforms \ {platform[j]} :
               latest'[q] = latest[q] /\ config'[q] = config[q]
          /\ latest'[platform[j]] \in {latest[platform[j]], fetched[j]}
          /\ config'[platform[j]] \in {config[platform[j]], fetched[j]}
          /\ \A q \in ManifestPlatforms :
               manifest'[q] = manifest[q] \/ (q = platform[j] /\ manifest'[q] = fetched[j])
      BY <1>0, <1>12, <3>1 DEF CallFails, files, WriteConfig, WriteManifest, MarketTypeOK
    <3>3. /\ \A q \in MarketPlatforms \ {platform[j]} : Known(q)' = Known(q)
          /\ Known(platform[j])' \subseteq Known(platform[j]) \cup {fetched[j]}
      BY <3>2, <2>1 DEF Known
    <3> QED BY <2>1, <2>2, <3>1, <3>3, WritingKeepsOrder
  <2> QED BY <2>3, <2>4
<1>13. ASSUME TimePasses PROVE Goal
  <2>1. UNCHANGED <<market, latest, locked, config, manifest, phase, platform, fetched>>
    BY <1>13 DEF TimePasses, files
  <2>2. ASSUME NEW j \in Jobs, phase[j] # "idle"
        PROVE  locked[platform[j]] /\ age'[platform[j]] = jobAge'[j]
    <3>1. platform[j] \in MarketPlatforms /\ locked[platform[j]] /\ age[platform[j]] = jobAge[j]
      BY <1>0, <2>2, JobHasPlatform DEF MarketInv, LocksHeld
    <3>2. jobAge[j] \in 0..MaxJob + MaxRelease
      BY <1>0 DEF MarketTypeOK
    <3>3. age[platform[j]] <= LockTTL
      BY <3>1, <3>2, MarketAssumption DEF JobsEndInTime
    <3> QED BY <1>13, <2>2, <3>1, <3>3 DEF TimePasses
  <2> QED BY <2>1, <2>2 DEF MarketInv, LocksHeld, OneFetch, KnownIsCarried, FetchedIsAhead, Known
<1>14. ASSUME Crash PROVE Goal
  <2>1. UNCHANGED <<market, latest, config, manifest>> /\ \A j \in Jobs : phase'[j] = "idle"
    BY <1>14 DEF Crash, row, files
  <2> QED BY <2>1 DEF MarketInv, LocksHeld, OneFetch, KnownIsCarried, FetchedIsAhead, Known
<1>15. ASSUME UNCHANGED marketVars PROVE Goal
  BY <1>15 DEF marketVars, row, files, jobs, jobBounds,
     MarketInv, LocksHeld, OneFetch, KnownIsCarried, FetchedIsAhead, Known
<1> QED
  BY <1>2, <1>3, <1>4, <1>5, <1>6, <1>7, <1>8, <1>10, <1>11, <1>12, <1>13, <1>14, <1>15
  DEF MarketNext, RefreshAppMarketVersion

LEMMA MarketInvariant ==
  ASSUME JobsEndInTime PROVE MarketSpec => []MarketInv
BY MarketInitInv, MarketStepInv, PTL DEF MarketSpec

\* What a step stores or publishes is a job's fetched version, and that is ahead.
LEMMA MarketStepForward ==
  ASSUME MarketInv, [MarketNext]_marketVars
  PROVE  /\ \A p \in MarketPlatforms : latest'[p] >= latest[p] /\ config'[p] >= config[p]
         /\ \A p \in ManifestPlatforms : manifest'[p] >= manifest[p]
<1>1. /\ MarketTypeOK
      /\ \A p \in MarketPlatforms : latest[p] \in Nat /\ config[p] \in Nat
      /\ \A p \in ManifestPlatforms : manifest[p] \in Nat
  BY DEF MarketInv, MarketTypeOK, MarketVersions
<1> DEFINE Written(j) ==
      /\ \A p \in MarketPlatforms :
           /\ latest'[p] = latest[p] \/ (p = platform[j] /\ latest'[p] = fetched[j])
           /\ config'[p] = config[p] \/ (p = platform[j] /\ config'[p] = fetched[j])
      /\ \A p \in ManifestPlatforms :
           manifest'[p] = manifest[p] \/ (p = platform[j] /\ manifest'[p] = fetched[j])
<1>2. CASE UNCHANGED <<latest, config, manifest>>
  BY <1>1, <1>2
<1>3. ASSUME NEW j \in Jobs, phase[j] \in {"update", "config", "manifest"}, Written(j)
      PROVE  /\ \A p \in MarketPlatforms : latest'[p] >= latest[p] /\ config'[p] >= config[p]
             /\ \A p \in ManifestPlatforms : manifest'[p] >= manifest[p]
  <2>1. \A v \in Known(platform[j]) : v <= fetched[j]
    BY <1>3 DEF MarketInv, FetchedIsAhead
  <2>2. fetched[j] \in Nat
    BY <1>1 DEF MarketTypeOK, MarketVersions
  <2>3. ASSUME NEW p \in MarketPlatforms PROVE latest'[p] >= latest[p] /\ config'[p] >= config[p]
    <3>1. p = platform[j] => latest[p] <= fetched[j] /\ config[p] <= fetched[j]
      BY <2>1 DEF Known
    <3> QED BY <1>1, <1>3, <2>2, <3>1
  <2>4. ASSUME NEW p \in ManifestPlatforms PROVE manifest'[p] >= manifest[p]
    <3>1. p = platform[j] => manifest[p] <= fetched[j]
      BY <2>1 DEF Known
    <3> QED BY <1>1, <1>3, <2>2, <3>1
  <2> QED BY <2>3, <2>4
<1>4. ASSUME NEW j \in Jobs,
             UpdateAppMarketVersion(j) \/ PublishConfig(j) \/ PublishManifest(j) \/ CallFails(j),
             ~UNCHANGED <<latest, config, manifest>>
      PROVE  phase[j] \in {"update", "config", "manifest"} /\ Written(j)
  <2>1. CASE UpdateAppMarketVersion(j)
    BY <1>1, <2>1 DEF UpdateAppMarketVersion, files, MarketTypeOK
  <2>2. CASE PublishConfig(j)
    BY <1>1, <2>2 DEF PublishConfig, WriteConfig, row, MarketTypeOK
  <2>3. CASE PublishManifest(j)
    BY <1>1, <2>3 DEF PublishManifest, WriteManifest, row, MarketTypeOK
  <2>4. CASE CallFails(j)
    BY <1>1, <1>4, <2>4 DEF CallFails, files, WriteConfig, WriteManifest, MarketTypeOK
  <2> QED BY <1>4, <2>1, <2>2, <2>3, <2>4
<1>5. ASSUME ~UNCHANGED <<latest, config, manifest>>
      PROVE  \E j \in Jobs : UpdateAppMarketVersion(j) \/ PublishConfig(j)
                             \/ PublishManifest(j) \/ CallFails(j)
  BY <1>5 DEF MarketNext, RefreshAppMarketVersion, MarketReleases, ClaimReplyLost, TakeLock, Report,
     FetchLatestVersion, ReleaseFetch, ReleaseFails, TimePasses, Crash, row, files, jobs, jobBounds,
     marketVars
<1>6. CASE ~UNCHANGED <<latest, config, manifest>>
  <2>1. PICK j \in Jobs : UpdateAppMarketVersion(j) \/ PublishConfig(j)
                          \/ PublishManifest(j) \/ CallFails(j)
    BY <1>5, <1>6
  <2> HIDE DEF Written
  <2> QED BY <1>3, <1>4, <1>6, <2>1
<1> QED BY <1>2, <1>6

\* For any platforms, jobs, versions and failures: if a job and its release end
\* before its lock is stale, neither the stored version nor a published one is ever
\* replaced by an older one, though no update compares them
\* (app_market_version.go:136-148, publisher.go:75-114).
THEOREM NothingGoesBackInTime ==
  ASSUME JobsEndInTime PROVE MarketSpec => NothingGoesBack
<1>1. MarketInv /\ [MarketNext]_marketVars =>
        [/\ \A p \in MarketPlatforms : latest'[p] >= latest[p] /\ config'[p] >= config[p]
         /\ \A p \in ManifestPlatforms : manifest'[p] >= manifest[p]]_marketVars
  BY MarketStepForward
<1>2. MarketSpec => []MarketInv
  BY MarketInvariant
<1> QED BY <1>1, <1>2, PTL DEF MarketSpec, NothingGoesBack
=============================================================================
