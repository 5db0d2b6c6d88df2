SPECIFICATION Spec
CONSTANTS
  alice = alice
  bob = bob
  o1 = o1
  o2 = o2
  o3 = o3
  apple1 = apple1
  huawei1 = huawei1
  alipay1 = alipay1
  NoUser = NoUser
  NoTxn = NoTxn
  NoJob = NoJob
  Plans <- MCPlans
  LifetimePlans <- MCLifetimePlans
  PlanLength <- MCPlanLength
  RewardLength <- MCRewardLength
  LifetimeFrom = 50
  LifetimeExpiry = 60
  Users <- MCUsers
  InviterOf <- MCInviterOf
  Orders <- ThreeOrders
  OwnerOf <- ThreeOwnerOf
  PlanOf <- ThreePlanOf
  Txns <- AllTxns
  ChannelOf <- MCChannelOf
  PaidPlan <- MCPaidPlan
  PaidOrder <- MCPaidOrder
  Requests = {r1}
  MaxDay = 3
  MaxDBErrors = 0
  MaxCrashes = 1
CHECK_DEADLOCK FALSE
INVARIANT TxnPaysOneOrder
PROPERTIES MembershipNeverShrinks ImplementsLedger
