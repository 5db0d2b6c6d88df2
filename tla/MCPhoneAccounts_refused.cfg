SPECIFICATION Spec
CONSTANTS
  Users = {u1, u2}
  NoUser = NoUser
  Phones = {p, q}
  NoPhone = NoPhone
  Requests = {r1, r2}
  MaxFaults = 0
SYMMETRY Symmetry
INVARIANT TakenIsGiven
CHECK_DEADLOCK FALSE
