SPECIFICATION FairSpec
CONSTANTS
  Plans <- MCPlans
  LifetimePlans <- MCLifetimePlans
  PlanLength <- MCPlanLength
  RewardLength <- MCRewardLength
  LifetimeFrom = 30
  LifetimeExpiry = 40
  Users <- MCUsers
  Codes <- MCCodes
  CodePlan <- MCCodePlan
  FirstRow <- MCFirstRow
  Today = 4
  Requests = {r1, r2}
  Payments <- OnePayment
  PayerOf <- MCPayerOf
  PaidFor <- MCPaidFor
  NoUser = NoUser
  NoJob = NoJob
  NoRequest = NoRequest
  MaxDBErrors = 1
  MaxCrashes = 1
INVARIANTS RedeemedIffGiven NothingLostUnlessOverlapped RowIsEarned
PROPERTY RedemptionEnds
