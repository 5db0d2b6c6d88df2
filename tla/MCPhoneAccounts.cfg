SPECIFICATION Spec
CONSTANTS
  Users = {u1, u2}
  NoUser = NoUser
  Phones = {p, q}
  NoPhone = NoPhone
  Requests = {r1, r2}
  MaxFaults = 1
SYMMETRY Symmetry
INVARIANTS PhoneHasOneAccount TakenIsAccounted
PROPERTIES DeletedStaysOut PasswordReachesHolder
CHECK_DEADLOCK FALSE
