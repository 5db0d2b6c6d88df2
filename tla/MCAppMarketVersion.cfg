SPECIFICATION FairMarketSpec
CONSTANTS
  MarketPlatforms <- BothPlatforms
  ManifestPlatforms <- MCManifestPlatforms
  MaxVersion = 2
  Jobs = {j1, j2}
  NoPlatform = NoPlatform
  LockTTL = 3
  MaxJob = 1
  MaxRelease = 1
  MaxFailures = 2
  MaxCrashes = 1
PROPERTIES NothingGoesBack MarketIsPublished
