SPECIFICATION LimitsSpec
CONSTANTS
  IPs = {x, y}
  NoIP = NoIP
  Attempts = {a1, a2, a3}
  Limit = 5
  MaxFaults = 2
  Keys <- MCKeys
  Clients <- MCClients
  KeysOf <- MCKeysOf
  Requests = {r1, r2}
  NoClient = NoClient
  PerWindow = 2
  Window = 3
  MaxSend = 2
  MaxNow = 4
SYMMETRY Symmetry
CHECK_DEADLOCK FALSE
INVARIANTS GuessesAreBounded BanIsEarned ExceededByDroppedAlone AccountIsKept
