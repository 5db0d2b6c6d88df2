------------------------------ MODULE Versions ------------------------------
(***************************************************************************)
(* The two comparisons of version strings: the one of the API, which gates *)
(* clients (internal/api/app_version.go), and the one of the store, which  *)
(* orders the versions app markets carry                                   *)
(* (internal/store/app_market_version.go).                                 *)
(*                                                                         *)
(* A version is the sequence of its dotted parts, what follows a "+" cut   *)
(* off, as both do.  A part is a number with its form: the digits alone,   *)
(* with blanks around them, or digits (perhaps none, then the number is 0) *)
(* followed by anything else.  Numbers stay below the range of int.        *)
(***************************************************************************)
EXTENDS Integers, Sequences

CONSTANT Base   \* of the reference order below

ASSUME BaseAssumption == Base \in Nat \ {0}

Forms == {"number", "padded", "suffixed"}
Parts == [num : Nat, form : Forms]

Number(n) == [num |-> n, form |-> "number"]

Numbers(v) == [i \in DOMAIN v |-> v[i].num]

\* The API takes the digits a part starts with.
parseVersionSegments(v) == Numbers(v)

\* The store gives up on a version with a part that is no number.
parse(v) ==
  IF \E i \in DOMAIN v : v[i].form = "suffixed" THEN <<>> ELSE Numbers(v)

\* Variant: a missing number is larger than any.
AtOrEnd(s, i) == IF i \in DOMAIN s THEN s[i] ELSE 9

\* A missing number is 0.
At(s, i) == IF i \in DOMAIN s THEN s[i] ELSE 0

\* s is smaller at the first place where they differ.
Before(s, t) ==
  \E i \in DOMAIN s \cup DOMAIN t :
    /\ At(s, i) < At(t, i)
    /\ \A j \in 1..i - 1 : At(s, j) = At(t, j)

CompareNumbers(s, t) == CASE Before(s, t) -> -1
                          [] Before(t, s) -> 1
                          [] OTHER -> 0

compareSemanticVersions(a, b) ==
  CompareNumbers(parseVersionSegments(a), parseVersionSegments(b))

CompareSemanticVersions(a, b) == CompareNumbers(parse(a), parse(b))

IsSemanticVersion(v) ==
  /\ Len(v) \in 1..4
  /\ \A i \in DOMAIN v : v[i].form = "number"

-----------------------------------------------------------------------------
\* The reference: a version of at most four parts is one number in a base
\* larger than its parts.
Weight(v) == LET n(i) == IF i <= Len(v) THEN v[i].num ELSE 0
             IN  ((n(1) * Base + n(2)) * Base + n(3)) * Base + n(4)
Sign(x) == CASE x < 0 -> -1 [] x > 0 -> 1 [] OTHER -> 0

\* a and b compare as the numbers they stand for: always in the API, in the
\* store if it lets both in.
ComparedAsNumbers(a, b) ==
  LET order == Sign(Weight(a) - Weight(b)) IN
  /\ compareSemanticVersions(a, b) = order
  /\ IsSemanticVersion(a) /\ IsSemanticVersion(b) =>
       CompareSemanticVersions(a, b) = order
=============================================================================
