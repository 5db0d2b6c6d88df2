SPECIFICATION FairSpec
CONSTANTS
  Plans <- MCPlans
  LifetimePlans = {}
  PlanLength <- MCPlanLength
  RewardLength <- MCRewardLength
  LifetimeFrom = 30
  LifetimeExpiry = 40
  Users = {alice}
  Images = {img1, img2}
  Monthly = "monthly"
  FirstRow <- MCFirstRow
  Today = 4
  Requests = {r1, r2}
  NoUser = NoUser
  NoImage = NoImage
  MaxFaults = 2
  MaxCrashes = 1
INVARIANTS OneReviewAtATime GiftsAreEarned
PROPERTY ReviewEndsUnlessFailed
