SPECIFICATION Spec
CONSTANTS
  Users = {i, a, b}
  Existing = {i, b}
  Inviters = {i}
  NoUser = NoUser
  Phones = {p, q}
  Registering = {p}
  NoPhone = NoPhone
  Claims = {c, d}
  NoClaim = NoClaim
  Requests = {r1, r2}
  DailyLimit = 1
  MaxFaults = 1
SYMMETRY Symmetry
CHECK_DEADLOCK FALSE
INVARIANTS DailyLimitHolds OneBondPerClaim RewardedOnce BondIsRewarded
PROPERTIES InvitedIsBonded
