CONSTANTS
  a1 = a1
  i1 = i1
  i2 = i2
  p1 = p1
  p2 = p2
  Accounts = {a1}
  Issues = {i1, i2}
  AccountOf <- MCAccountOf
  Malformed <- MCMalformed
  Facts = {f1, f2}
  Pins = {p1}
  Declares <- MCDeclares
  NoPin = NoPin
  NoIssue = NoIssue
  MaxMoves = 0
  MaxGen = 2
  MaxFaults = 1
  Limit = 2
  PerAccount = 2
SPECIFICATION FairSpec
PROPERTIES
  EveryPendingFactSettles
CHECK_DEADLOCK FALSE
