----------------------------- MODULE AdminLogin -----------------------------
(***************************************************************************)
(* Logging in to the administration: an address that gives wrong passwords *)
(* in a row is banned for good (handleAdminLogin in                        *)
(* internal/api/admin_handlers.go, internal/store/admin_login_guard.go).   *)
(*                                                                         *)
(* An attempt is up to three statements, each a transaction of its own: it *)
(* reads whether its address is banned, compares the password, then either *)
(* records a failure and reads the ban again, or resets the failures and   *)
(* gets its token.  Attempts of one address overlap.                       *)
(*                                                                         *)
(* Left out: attempts whose address is unknown, which are never limited;   *)
(* malformed bodies, which return after the first read; the token itself.  *)
(***************************************************************************)
EXTENDS Naturals, FiniteSets

CONSTANTS
  IPs,
  NoIP,
  Attempts,   \* login requests that may be in flight
  Limit,      \* AdminLoginMaxConsecutiveFailures
  MaxFaults   \* bound: failing statements

ASSUME AdminAssumption ==
  /\ NoIP \notin IPs /\ IsFiniteSet(Attempts) /\ Attempts # {}
  /\ Limit \in Nat /\ Limit > 2
  /\ MaxFaults \in Nat

VARIABLES
  known,     \* addresses with a row
  failures,  \* consecutive_failures
  banned,    \* banned_at is set
  pc, ip,    \* where each attempt is, and from where
  guesses,   \* ghost: wrong passwords of an address since its last reset
  faults

guard == <<known, failures, banned>>
attempts == <<pc, ip>>
vars == <<guard, attempts, guesses, faults>>

Labels == {"idle", "password", "reread"}

\* Bound: guesses are counted this far, more than there can be.
MaxGuesses == Limit + Cardinality(Attempts) + MaxFaults

TypeOK ==
  /\ known \subseteq IPs
  /\ failures \in [IPs -> 0..Limit]
  /\ \A a \in IPs \ known : failures[a] = 0 /\ ~banned[a]
  /\ banned \in [IPs -> BOOLEAN]
  /\ pc \in [Attempts -> Labels]
  /\ ip \in [Attempts -> IPs \cup {NoIP}]
  /\ \A r \in Attempts : pc[r] = "idle" <=> ip[r] = NoIP
  /\ guesses \in [IPs -> 0..MaxGuesses]
  /\ faults \in 0..MaxFaults

Init ==
  /\ known = {}
  /\ failures = [a \in IPs |-> 0]
  /\ banned = [a \in IPs |-> FALSE]
  /\ pc = [r \in Attempts |-> "idle"]
  /\ ip = [r \in Attempts |-> NoIP]
  /\ guesses = [a \in IPs |-> 0]
  /\ faults = 0

-----------------------------------------------------------------------------
\* Variant: nobody looks at the ban before the password.
IsNeverBanned(a) == FALSE

IsAdminIPBanned(a) == banned[a]

\* An attempt of a banned address returns at once and changes nothing.
Begin(r, a) ==
  /\ pc[r] = "idle" /\ ~IsAdminIPBanned(a)
  /\ pc' = [pc EXCEPT ![r] = "password"]
  /\ ip' = [ip EXCEPT ![r] = a]
  /\ UNCHANGED <<guard, guesses, faults>>

Return(r) ==
  /\ pc' = [pc EXCEPT ![r] = "idle"]
  /\ ip' = [ip EXCEPT ![r] = NoIP]

Guess(a) ==
  guesses' = [guesses EXCEPT ![a] = IF @ < MaxGuesses THEN @ + 1 ELSE @]

\* The upsert.  A new row has one failure.  Otherwise the assignments are
\* made from left to right, so the ban is computed from the count that was
\* incremented already.
Upsert(a) ==
  IF banned[a] THEN UNCHANGED guard
  ELSE /\ known' = known \cup {a}
       /\ failures' = [failures EXCEPT ![a] = @ + 1]
       /\ banned' = [banned EXCEPT ![a] = a \in known /\ failures'[a] + 1 >= Limit]

\* A wrong password.  A row that was banned and updated in the same
\* millisecond is not affected, and is not read again.
RecordAdminLoginFailure(r) ==
  /\ pc[r] = "password"
  /\ Upsert(ip[r]) /\ Guess(ip[r])
  /\ \/ pc' = [pc EXCEPT ![r] = "reread"] /\ UNCHANGED ip
     \/ banned[ip[r]] /\ Return(r)
  /\ UNCHANGED faults

\* Told that the address is banned, or that the password was wrong.
Reread(r) ==
  /\ pc[r] = "reread" /\ Return(r)
  /\ UNCHANGED <<guard, guesses, faults>>

\* Variant: a success leaves the count.
ResetNothing(a) == UNCHANGED failures

\* The failures of an address that is not banned are forgotten.
ResetAdminLoginFailures(a) ==
  failures' = IF banned[a] THEN failures ELSE [failures EXCEPT ![a] = 0]

Forgiven(a) == IF banned[a] THEN guesses ELSE [guesses EXCEPT ![a] = 0]

\* The right password: a token.
Login(r) ==
  /\ pc[r] = "password"
  /\ ResetAdminLoginFailures(ip[r]) /\ guesses' = Forgiven(ip[r])
  /\ Return(r)
  /\ UNCHANGED <<known, banned, faults>>

-----------------------------------------------------------------------------
(***************************************************************************)
(* Failures: the attempt answers db_failed.  A first read that fails       *)
(* changes nothing.                                                        *)
(***************************************************************************)
Fault(r) == faults < MaxFaults /\ faults' = faults + 1 /\ Return(r)

\* The failure is recorded, or not.
RecordFails(r) ==
  /\ pc[r] = "password" /\ Fault(r) /\ Guess(ip[r])
  /\ Upsert(ip[r]) \/ UNCHANGED guard

\* The failures are reset, or not; there is no token.
ResetFails(r) ==
  /\ pc[r] = "password" /\ Fault(r)
  /\ \/ ResetAdminLoginFailures(ip[r]) /\ guesses' = Forgiven(ip[r])
     \/ UNCHANGED <<failures, guesses>>
  /\ UNCHANGED <<known, banned>>

-----------------------------------------------------------------------------
HandleAdminLogin(r) ==
  \/ \E a \in IPs : Begin(r, a)
  \/ RecordAdminLoginFailure(r) \/ Reread(r) \/ Login(r)

Next == \E r \in Attempts : HandleAdminLogin(r) \/ RecordFails(r) \/ ResetFails(r)

Spec == Init /\ [][Next]_vars

-----------------------------------------------------------------------------
(***************************************************************************)
(* Properties.                                                             *)
(***************************************************************************)
\* However attempts overlap, an address has few wrong passwords: one less than
\* the limit, one for each other attempt that had passed the check when the ban
\* came, and the failures that could not be recorded (admin_handlers.go:42,
\* admin_login_guard.go:40).
GuessesAreBounded ==
  \A a \in IPs : guesses[a] <= (Limit - 1) + (Cardinality(Attempts) - 1) + faults

\* An address is banned only for that many wrong passwords since its last
\* right one, whatever order attempts of both kinds arrive in
\* (admin_login_guard.go:60, "consecutive").
BanIsEarned == \A a \in IPs : banned[a] => guesses[a] >= Limit - 1

\* A ban is for good: neither a success that was under way, nor a failure
\* counted later, lifts it (admin_login_guard.go:41-45, :68 "banned addresses
\* are not affected").
BanIsPermanent == [][\A a \in IPs : banned[a] => banned'[a]]_vars
=============================================================================
