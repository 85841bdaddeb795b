CONSTANTS
  a1 = a1
  i1 = i1
  p1 = p1
  p2 = p2
  Accounts = {a1}
  Issues = {i1}
  AccountOf <- MCAccountOf
  Facts = {f1, f2, f3, f4}
  Pins = {p1, p2}
  Declares <- MCDeclares
  NoPin = NoPin
  NoIssue = NoIssue
  MaxMoves = 3
SPECIFICATION CaptureSpec
SYMMETRY MCSymmetry
INVARIANTS
  FactsMatchIssue
  PinIsTheQualification
PROPERTIES
  FactsAreNews
CHECK_DEADLOCK FALSE
