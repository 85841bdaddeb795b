CONSTANTS
  a1 = a1
  i1 = i1
  i2 = i2
  p1 = p1
  p2 = p2
  Accounts = {a1}
  Issues = {i1}
  AccountOf <- MCAccountOf
  Malformed <- MCMalformed
  Facts = {f1}
  Pins = {p1, p2}
  Declares <- MCDeclares
  NoPin = NoPin
  NoIssue = NoIssue
  MaxMoves = 2
  MaxGen = 3
  MaxFaults = 2
  Limit = 2
  PerAccount = 1
SPECIFICATION Spec
INVARIANTS
  TypeOK
  DeliveredWasAccepted
  HeldNeverLeaves
  NewestAttemptHoldsRow
  SentUnderObservedPin
PROPERTIES
  RevocationClosesWindow
  ImplementsFactDelivery
CHECK_DEADLOCK FALSE
