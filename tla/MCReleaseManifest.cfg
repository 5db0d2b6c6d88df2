SPECIFICATION FairSpec
CONSTANTS
  Base = 10
  Samples <- MCSamples
  Platforms <- MCPlatforms
  Headers <- MCHeaders
  Releases <- MCReleases
  First <- One
  NoVersion = NoVersion
  TTL = 2
  MaxFaults = 2
  MaxRestarts = 1
INVARIANTS ComparesAsNumbers FreshUnlessFailed UpgradeIsEnough
PROPERTIES AttemptsAreSpaced ReleaseTakesEffect
