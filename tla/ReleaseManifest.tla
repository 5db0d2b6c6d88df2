--------------------------- MODULE ReleaseManifest ---------------------------
(***************************************************************************)
(* The gate that turns away clients older than the version a platform's    *)
(* release manifest requires: a cache of the manifests, filled when the    *)
(* server starts and refreshed from the CDN by an hourly ticker, at most   *)
(* once a day and platform (internal/release/manifest.go), and the         *)
(* middleware that compares a client's version with it                     *)
(* (internal/api/app_version_guard.go).                                    *)
(*                                                                         *)
(* One goroutine a platform looks at the cache, asks the CDN and records   *)
(* the outcome; refreshAll waits for all.  Time is kept in hours, one a    *)
(* tick of the ticker, and only passes between refreshes, which end within *)
(* the client's ten seconds.  Whether a whole number of ticks is a little  *)
(* more or less than as many hours is open: at exactly TTL ticks a         *)
(* platform may be asked or not.                                           *)
(*                                                                         *)
(* Left out: the download address, recorded and read with the version.     *)
(***************************************************************************)
EXTENDS Versions

CONSTANTS
  Samples,      \* bound: versions the comparisons are checked on
  Platforms,    \* allManifestPlatforms
  Headers,      \* values of X-Platform
  Releases,     \* bound: versions a manifest may require
  First,        \* the one it requires at first
  NoVersion,
  TTL,          \* manifestCacheTTL, in ticks
  MaxFaults,    \* bound: fetches that fail
  MaxRestarts   \* bound: restarts of the server

ASSUME ReleaseAssumption ==
  /\ Samples \subseteq Seq(Parts)
  /\ \A v \in Samples : \A i \in DOMAIN v : v[i].num < Base
  /\ Releases \subseteq Seq(Parts) /\ First \in Releases
  /\ NoVersion \notin Releases
  /\ TTL \in Nat \ {0}
  /\ MaxFaults \in Nat /\ MaxRestarts \in Nat

VARIABLES
  cdn,      \* the version each manifest requires
  since,    \* ticks since it last changed, as far as it matters
  cache,    \* the server's entry of each platform
  pc,       \* where each platform's goroutine is
  asked,    \* ticks since this server last asked the CDN about a platform
  serving,  \* NewServer is done
  faults, restarts

world == <<cdn, since>>
bounds == <<faults, restarts>>
vars == <<world, cache, pc, asked, serving, bounds>>

\* MinVersion, the age of lastAttemptAt, and whether fetchedAt is the same.
Entries == [found : BOOLEAN, min : Releases \cup {NoVersion},
            age : 0..TTL + 1, fresh : BOOLEAN]
NoEntry == [found |-> FALSE, min |-> NoVersion, age |-> 0, fresh |-> FALSE]

Labels == {"check", "fetch", "done"}

TypeOK ==
  /\ cdn \in [Platforms -> Releases]
  /\ since \in [Platforms -> 0..TTL + 1]
  /\ cache \in [Platforms -> Entries]
  /\ pc \in [Platforms -> Labels]
  /\ asked \in [Platforms -> 0..TTL + 1]
  /\ serving \in BOOLEAN
  /\ faults \in Nat /\ restarts \in Nat

\* NewProvider, up to its refreshAll.
NewCache == [p \in Platforms |-> NoEntry]
AllCheck == [p \in Platforms |-> "check"]
NeverAsked == [p \in Platforms |-> TTL]

Init ==
  /\ cdn = [p \in Platforms |-> First]
  /\ since = [p \in Platforms |-> TTL + 1]
  /\ cache = NewCache /\ pc = AllCheck /\ asked = NeverAsked
  /\ serving = FALSE
  /\ faults = 0 /\ restarts = 0

-----------------------------------------------------------------------------
(***************************************************************************)
(* The gate.                                                               *)
(***************************************************************************)
NormalizePlatform(h) ==
  CASE h \in {"android", "harmony", "windows", "linux"} -> h
    [] h \in {"ios", "ipad", "iphone"} -> "ios"
    [] h \in {"macos", "mac"} -> "macos"
    [] OTHER -> ""

GateInfoForPlatform(h) ==
  LET p == NormalizePlatform(h)
  IN  IF p \in Platforms THEN cache[p].min ELSE NoVersion

\* Variant: only a newer version will do.
RefusesEqual(h, v) ==
  LET min == GateInfoForPlatform(h)
  IN  min # NoVersion /\ (v = NoVersion \/ compareSemanticVersions(v, min) # 1)

\* withMinAppVersion, on the paths it looks at: a client without a version, or
\* with an older one, is told to upgrade.
Refuses(h, v) ==
  LET min == GateInfoForPlatform(h)
  IN  min # NoVersion /\ (v = NoVersion \/ compareSemanticVersions(v, min) = -1)

-----------------------------------------------------------------------------
(***************************************************************************)
(* The cache.                                                              *)
(***************************************************************************)
\* A newer version is required from now on.
Release(p, v) ==
  /\ compareSemanticVersions(cdn[p], v) = -1
  /\ cdn' = [cdn EXCEPT ![p] = v]
  /\ since' = [since EXCEPT ![p] = 0]
  /\ UNCHANGED <<cache, pc, asked, serving, bounds>>

\* Variant: a skipped platform counts as attempted.
SkipStamps(p) ==
  /\ cache[p].found /\ cache[p].age <= TTL
  /\ cache' = [cache EXCEPT ![p].age = 0]

\* Variant: an entry is never too old.
SkipAnyAge(p) == cache[p].found /\ UNCHANGED cache

\* Within the TTL of the last attempt nothing is asked.
Skip(p) ==
  /\ cache[p].found /\ cache[p].age <= TTL
  /\ UNCHANGED cache

Ask(p) ==
  /\ cache[p].found => cache[p].age >= TTL
  /\ asked' = [asked EXCEPT ![p] = 0]

\* shouldSkipCDNFetch, and the request begins or not.
ShouldSkipCDNFetch(p) ==
  /\ pc[p] = "check"
  /\ \/ Skip(p) /\ UNCHANGED asked /\ pc' = [pc EXCEPT ![p] = "done"]
     \/ Ask(p) /\ UNCHANGED cache /\ pc' = [pc EXCEPT ![p] = "fetch"]
  /\ UNCHANGED <<world, serving, bounds>>

\* Variant: an attempt that failed leaves no trace.
RecordSuccess(p, success) ==
  cache' = IF success
           THEN [cache EXCEPT ![p] = [found |-> TRUE, min |-> cdn[p], age |-> 0, fresh |-> TRUE]]
           ELSE [cache EXCEPT ![p].found = TRUE]

\* An attempt is recorded either way; one that failed keeps the version.
RecordFetchAttempt(p, success) ==
  cache' = [cache EXCEPT ![p] = [found |-> TRUE, age |-> 0, fresh |-> success,
                                 min |-> IF success THEN cdn[p] ELSE @.min]]

FetchGateInfo(p) ==
  /\ pc[p] = "fetch"
  /\ RecordFetchAttempt(p, TRUE)
  /\ pc' = [pc EXCEPT ![p] = "done"]
  /\ UNCHANGED <<world, asked, serving, bounds>>

\* No answer, a wrong one, or a manifest without latestVersion.
FetchFails(p) ==
  /\ faults < MaxFaults /\ faults' = faults + 1
  /\ pc[p] = "fetch"
  /\ RecordFetchAttempt(p, FALSE)
  /\ pc' = [pc EXCEPT ![p] = "done"]
  /\ UNCHANGED <<world, asked, serving, restarts>>

\* wg.Wait
AllDone == \A p \in Platforms : pc[p] = "done"

Serve ==
  /\ ~serving /\ AllDone
  /\ serving' = TRUE
  /\ UNCHANGED <<world, cache, pc, asked, bounds>>

Older(n) == IF n <= TTL THEN n + 1 ELSE n

\* An hour has passed: refreshLoop's next round.
Tick ==
  /\ serving /\ AllDone
  /\ since' = [p \in Platforms |-> Older(since[p])]
  /\ cache' = [p \in Platforms |-> [cache[p] EXCEPT !.age = Older(@)]]
  /\ asked' = [p \in Platforms |-> Older(asked[p])]
  /\ pc' = AllCheck
  /\ UNCHANGED <<cdn, serving, bounds>>

\* The server dies and starts again.
Restart ==
  /\ restarts < MaxRestarts /\ restarts' = restarts + 1
  /\ cache' = NewCache /\ pc' = AllCheck /\ asked' = NeverAsked
  /\ serving' = FALSE
  /\ UNCHANGED <<world, faults>>

RefreshPlatform(p) == ShouldSkipCDNFetch(p) \/ FetchGateInfo(p)

Next ==
  \/ \E p \in Platforms :
       \/ RefreshPlatform(p) \/ FetchFails(p)
       \/ \E v \in Releases : Release(p, v)
  \/ Serve
  \/ Tick
  \/ Restart

Spec == Init /\ [][Next]_vars

\* Goroutines run and the ticker ticks.
FairSpec ==
  /\ Spec
  /\ WF_vars(Serve) /\ WF_vars(Tick)
  /\ \A p \in Platforms : WF_vars(RefreshPlatform(p))

-----------------------------------------------------------------------------
(***************************************************************************)
(* Properties.                                                             *)
(***************************************************************************)
\* The API and the store order versions alike, as the numbers they stand for:
\* client, gate and market agree on which is newer, and on which are the same
\* ("1.2" and "1.2.0", app_version.go:25, app_market_version.go:18).  About
\* constants, so it is looked at in the initial state alone.
ComparesAsNumbers ==
  Init => \A a, b \in {v \in Samples : Len(v) \in 1..4} : ComparedAsNumbers(a, b)

\* No request is answered before the CDN has been asked about every platform
\* (manifest.go:55, :135): a server that just started is not an open gate,
\* unless the CDN fails.
AskedBeforeServing == serving => \A p \in Platforms : cache[p].found

\* A new minimum is in force a little more than a day after it was published,
\* at the next tick after the entry's TTL, unless the last attempt failed
\* (manifest.go:161, :172); and a server that starts has the current one.
FreshUnlessFailed ==
  \A p \in Platforms :
    pc[p] = "done" /\ cache[p].fresh /\ since[p] > TTL => cache[p].min = cdn[p]

\* A server asks about a platform at most once in TTL ticks, whether the CDN
\* answers or not (manifest.go:16 "at most one HTTP request every 24 hours").
AttemptsAreSpaced ==
  [][\A p \in Platforms :
       pc[p] = "check" /\ pc'[p] = "fetch" => asked[p] >= TTL]_vars

\* Whoever installed the version the manifest now requires is let in, however
\* old the entry is, and however the platform's name is spelled
\* (app_version_guard.go:32).
UpgradeIsEnough ==
  \A h \in Headers :
    LET p == NormalizePlatform(h) IN p \in Platforms => ~Refuses(h, cdn[p])

\* Every older client is turned away in the end, once the minimum stays,
\* whichever fetches failed and whenever the server was restarted
\* (manifest.go:118).
ReleaseTakesEffect ==
  \A h \in Headers :
    LET p == NormalizePlatform(h) IN
    p \in Platforms =>
      <>[]\A v \in Releases \cup {NoVersion} :
            Refuses(h, v) <=> v = NoVersion \/ compareSemanticVersions(v, cdn[p]) = -1
=============================================================================
