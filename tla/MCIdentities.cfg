SPECIFICATION Spec
CONSTANTS
  Users = {u1, u2}
  NoUser = NoUser
  w1 = w1
  w2 = w2
  Identities <- MCIdentitySet
  Wechat <- MCIdentitySet
  NoIdentity = NoIdentity
  Requests = {r1, r2}
  MaxTickets = 1
  MaxFaults = 1
  MaxCrashes = 1
SYMMETRY Symmetry
INVARIANTS GoneIsRemembered OpenIDIsOwn
PROPERTIES NoSecondAccount RebindingWorks
CHECK_DEADLOCK FALSE
