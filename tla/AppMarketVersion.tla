-------------------------- MODULE AppMarketVersion --------------------------
(***************************************************************************)
(* How the server learns that an app market carries a new version and      *)
(* publishes it: a client reports the version it runs, a report that is    *)
(* not behind the stored one may claim the platform's fetch lock, and the  *)
(* claim starts a goroutine that asks the market, stores the answer,       *)
(* rewrites the published configuration and releases the lock              *)
(* (internal/api/app_market_handlers.go,                                   *)
(* internal/store/app_market_version.go, internal/appmarket/publisher.go). *)
(*                                                                         *)
(* The claim is one transaction under the lock of the platform's row, so   *)
(* it is one step.  Versions are numbers in the order                      *)
(* CompareSemanticVersions gives them; a market only ever moves forward.   *)
(* Time is kept as ages: of the lock, up to the moment it is stale, and of *)
(* each job, whose calls up to the last publication share a deadline; the  *)
(* release has none in the code, and is given MaxRelease here.             *)
(*                                                                         *)
(* Left out: the per-address limit of reports (app_market_guard.go), which *)
(* only refuses some.                                                      *)
(***************************************************************************)
EXTENDS Naturals

CONSTANTS
  MarketPlatforms,    \* "harmony" and "ios"
  ManifestPlatforms,  \* those whose release manifest is published too (ios)
  MaxVersion,         \* bound: the last version a market gets to
  Jobs,               \* goroutines that may be live at the same time
  NoPlatform,
  LockTTL,            \* appMarketFetchLockTTL
  MaxJob,             \* the deadline of a job's calls
  MaxRelease,         \* how long after it the release may take
  MaxFailures,        \* bound: failing calls
  MaxCrashes          \* bound: restarts of the server

ASSUME MarketAssumption ==
  /\ ManifestPlatforms \subseteq MarketPlatforms
  /\ NoPlatform \notin MarketPlatforms
  /\ MaxVersion \in Nat \ {0}
  /\ LockTTL \in Nat /\ MaxJob \in Nat /\ MaxRelease \in Nat
  /\ MaxFailures \in Nat /\ MaxCrashes \in Nat

VARIABLES
  market,          \* the version each market carries
  latest,          \* latest_version
  locked,          \* fetch_in_progress
  age,             \* time since fetch_started_at, as far as it matters
  config,          \* the version in the published configuration
  manifest,        \* and in the release manifest
  phase, platform, \* where each job is, and for which platform
  jobAge,          \* time since it started
  fetched,         \* the version it got from the market
  failures, crashes

row == <<latest, locked, age>>
files == <<config, manifest>>
jobs == <<phase, platform, jobAge, fetched>>
jobBounds == <<failures, crashes>>
marketVars == <<market, row, files, jobs, jobBounds>>

MarketVersions == 1..MaxVersion
Working == {"fetch", "update", "config", "manifest"}
Phases == Working \cup {"idle", "release"}

MarketTypeOK ==
  /\ market \in [MarketPlatforms -> MarketVersions]
  /\ latest \in [MarketPlatforms -> MarketVersions]
  /\ locked \in [MarketPlatforms -> BOOLEAN]
  /\ age \in [MarketPlatforms -> 0..LockTTL + 1]
  /\ config \in [MarketPlatforms -> MarketVersions]
  /\ manifest \in [ManifestPlatforms -> MarketVersions]
  /\ phase \in [Jobs -> Phases]
  /\ platform \in [Jobs -> MarketPlatforms \cup {NoPlatform}]
  /\ \A j \in Jobs : phase[j] = "idle" <=> platform[j] = NoPlatform
  /\ jobAge \in [Jobs -> 0..MaxJob + MaxRelease]
  /\ fetched \in [Jobs -> MarketVersions]
  /\ failures \in Nat /\ crashes \in Nat

MarketInit ==
  /\ market = [p \in MarketPlatforms |-> 1]
  /\ latest = [p \in MarketPlatforms |-> 1]
  /\ locked = [p \in MarketPlatforms |-> FALSE]
  /\ age = [p \in MarketPlatforms |-> 0]
  /\ config = [p \in MarketPlatforms |-> 1]
  /\ manifest = [p \in ManifestPlatforms |-> 1]
  /\ phase = [j \in Jobs |-> "idle"]
  /\ platform = [j \in Jobs |-> NoPlatform]
  /\ jobAge = [j \in Jobs |-> 0]
  /\ fetched = [j \in Jobs |-> 1]
  /\ failures = 0 /\ crashes = 0

-----------------------------------------------------------------------------
\* A new version passes the market's review.
MarketReleases(p) ==
  /\ market[p] < MaxVersion
  /\ market' = [market EXCEPT ![p] = @ + 1]
  /\ UNCHANGED <<row, files, jobs, jobBounds>>

\* Time passes for locks and jobs; no job outlives its bounds.
TimePasses ==
  /\ \A j \in Jobs :
       /\ phase[j] \in Working => jobAge[j] < MaxJob
       /\ phase[j] = "release" => jobAge[j] < MaxJob + MaxRelease
  /\ age' = [p \in MarketPlatforms |-> IF locked[p] /\ age[p] <= LockTTL
                                       THEN age[p] + 1 ELSE age[p]]
  /\ jobAge' = [j \in Jobs |-> IF phase[j] = "idle" THEN 0 ELSE jobAge[j] + 1]
  /\ UNCHANGED <<market, latest, locked, files, phase, platform, fetched, jobBounds>>

\* Variant: any lock may be taken over.
StaleAlways(p) == TRUE

\* Variant: a lock left behind stays for ever.
StaleNever(p) == FALSE

\* fetch_started_at < now - staleAfter
Stale(p) == age[p] > LockTTL

\* A reported version that is not behind, and no fetch in progress or a stale
\* one.
Claimable(p, v) == v >= latest[p] /\ (~locked[p] \/ Stale(p))

TakeLock(p) ==
  /\ locked' = [locked EXCEPT ![p] = TRUE]
  /\ age' = [age EXCEPT ![p] = 0]
  /\ UNCHANGED latest

\* A report that claims the lock starts a job; any other changes nothing.
Report(p, v, j) ==
  /\ phase[j] = "idle"
  /\ Claimable(p, v) /\ TakeLock(p)
  /\ phase' = [phase EXCEPT ![j] = "fetch"]
  /\ platform' = [platform EXCEPT ![j] = p]
  /\ jobAge' = [jobAge EXCEPT ![j] = 0]
  /\ UNCHANGED <<market, files, fetched, jobBounds>>

Goto(j, label) ==
  /\ phase' = [phase EXCEPT ![j] = label]
  /\ UNCHANGED <<platform, jobAge>>

FetchLatestVersion(j) ==
  /\ phase[j] = "fetch"
  /\ fetched' = [fetched EXCEPT ![j] = market[platform[j]]]
  /\ Goto(j, "update")
  /\ UNCHANGED <<market, row, files, jobBounds>>

UpdateAppMarketVersion(j) ==
  /\ phase[j] = "update"
  /\ latest' = [latest EXCEPT ![platform[j]] = fetched[j]]
  /\ Goto(j, "config")
  /\ UNCHANGED <<market, locked, age, files, fetched, jobBounds>>

WriteConfig(j) == config' = [config EXCEPT ![platform[j]] = fetched[j]]
WriteManifest(j) == manifest' = [manifest EXCEPT ![platform[j]] = fetched[j]]

\* PublishVersion: the configuration, and for ios the manifest after it.
PublishConfig(j) ==
  /\ phase[j] = "config" /\ WriteConfig(j)
  /\ \/ platform[j] \in ManifestPlatforms /\ Goto(j, "manifest")
     \/ platform[j] \notin ManifestPlatforms /\ Goto(j, "release")
  /\ UNCHANGED <<market, row, manifest, fetched, jobBounds>>

PublishManifest(j) ==
  /\ phase[j] = "manifest" /\ WriteManifest(j)
  /\ Goto(j, "release")
  /\ UNCHANGED <<market, row, config, fetched, jobBounds>>

Done(j) ==
  /\ phase' = [phase EXCEPT ![j] = "idle"]
  /\ platform' = [platform EXCEPT ![j] = NoPlatform]
  /\ jobAge' = [jobAge EXCEPT ![j] = 0]
  /\ fetched' = [fetched EXCEPT ![j] = 1]

\* Whoever holds the lock by now.
ReleaseFetch(j) ==
  /\ phase[j] = "release"
  /\ locked' = [locked EXCEPT ![platform[j]] = FALSE]
  /\ age' = [age EXCEPT ![platform[j]] = 0]
  /\ Done(j)
  /\ UNCHANGED <<market, latest, files, jobBounds>>

-----------------------------------------------------------------------------
(***************************************************************************)
(* Failures.                                                               *)
(***************************************************************************)
Fault == failures < MaxFailures /\ failures' = failures + 1 /\ UNCHANGED crashes

\* The claim commits but its reply is lost: a lock without a job.
ClaimReplyLost(p, v) ==
  /\ Fault
  /\ Claimable(p, v) /\ TakeLock(p)
  /\ UNCHANGED <<market, files, jobs>>

\* A call of a job fails or runs into the deadline, having done its work or
\* not: the job goes on to release the lock.
CallFails(j) ==
  /\ Fault
  /\ phase[j] \in Working
  /\ \/ UNCHANGED <<latest, files>>
     \/ /\ phase[j] = "update" /\ UNCHANGED files
        /\ latest' = [latest EXCEPT ![platform[j]] = fetched[j]]
     \/ phase[j] = "config" /\ WriteConfig(j) /\ UNCHANGED <<latest, manifest>>
     \/ phase[j] = "manifest" /\ WriteManifest(j) /\ UNCHANGED <<latest, config>>
  /\ Goto(j, "release")
  /\ UNCHANGED <<market, locked, age, fetched>>

\* The release fails: the lock stays until it is stale.
ReleaseFails(j) ==
  /\ Fault
  /\ phase[j] = "release" /\ Done(j)
  /\ UNCHANGED <<market, row, files>>

Crash ==
  /\ crashes < MaxCrashes /\ crashes' = crashes + 1
  /\ phase' = [j \in Jobs |-> "idle"]
  /\ platform' = [j \in Jobs |-> NoPlatform]
  /\ jobAge' = [j \in Jobs |-> 0]
  /\ fetched' = [j \in Jobs |-> 1]
  /\ UNCHANGED <<market, row, files, failures>>

-----------------------------------------------------------------------------
RefreshAppMarketVersion(j) ==
  \/ FetchLatestVersion(j) \/ UpdateAppMarketVersion(j)
  \/ PublishConfig(j) \/ PublishManifest(j) \/ ReleaseFetch(j)

MarketNext ==
  \/ \E p \in MarketPlatforms :
       \/ MarketReleases(p)
       \/ \E v \in MarketVersions : ClaimReplyLost(p, v) \/ \E j \in Jobs : Report(p, v, j)
  \/ \E j \in Jobs : RefreshAppMarketVersion(j) \/ CallFails(j) \/ ReleaseFails(j)
  \/ TimePasses
  \/ Crash

MarketSpec == MarketInit /\ [][MarketNext]_marketVars

\* Jobs and time go on, and somebody who runs the market's version keeps
\* reporting it.
FairMarketSpec ==
  /\ MarketSpec
  /\ WF_marketVars(TimePasses)
  /\ \A j \in Jobs : WF_marketVars(RefreshAppMarketVersion(j))
  /\ \A p \in MarketPlatforms : SF_marketVars(\E j \in Jobs : Report(p, market[p], j))

-----------------------------------------------------------------------------
(***************************************************************************)
(* Properties.                                                             *)
(***************************************************************************)
\* What was published or stored is never replaced by an older version: the
\* updates are unconditional (app_market_version.go:141, publisher.go:75-94),
\* so it takes one fetch of a platform at a time.
NothingGoesBack ==
  [][/\ \A p \in MarketPlatforms : latest'[p] >= latest[p] /\ config'[p] >= config[p]
     /\ \A p \in ManifestPlatforms : manifest'[p] >= manifest[p]]_marketVars

\* Every version of a market is published in the end, in the configuration
\* and in the manifest, whatever call fails, whichever of the two files was
\* written when one did, and even if a crash leaves the lock taken
\* (app_market_version.go:79, app_market_handlers.go:72-79).
MarketIsPublished ==
  \A p \in MarketPlatforms :
    <>[](config[p] = market[p] /\ (p \in ManifestPlatforms => manifest[p] = market[p]))

(***************************************************************************)
(* Why nothing goes back, if a job and its release end before its lock is  *)
(* stale: who works on a platform holds its lock, which is as old as the   *)
(* work, so nobody else does; and what a job has fetched is at least what  *)
(* is known of the platform.                                               *)
(***************************************************************************)
JobsEndInTime == MaxJob + MaxRelease <= LockTTL

LocksHeld ==
  \A j \in Jobs : phase[j] # "idle" => locked[platform[j]] /\ age[platform[j]] = jobAge[j]

OneFetch ==
  \A i, j \in Jobs : phase[i] # "idle" /\ platform[i] = platform[j] => i = j

Known(p) ==
  {latest[p], config[p]} \cup (IF p \in ManifestPlatforms THEN {manifest[p]} ELSE {})

KnownIsCarried == \A p \in MarketPlatforms : \A v \in Known(p) : v <= market[p]

FetchedIsAhead ==
  \A j \in Jobs : phase[j] \in {"update", "config", "manifest"} =>
    /\ fetched[j] <= market[platform[j]]
    /\ \A v \in Known(platform[j]) : v <= fetched[j]

MarketInv == MarketTypeOK /\ LocksHeld /\ OneFetch /\ KnownIsCarried /\ FetchedIsAhead
=============================================================================
