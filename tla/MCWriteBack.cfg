SPECIFICATION Spec
CONSTANTS
  w1 = w1
  n1 = n1
  c1 = c1
  h1 = h1
  RouteWrites = {w1, n1}
  ClientWrites = {c1, h1}
  Held = {h1}
  Notes = {n1}
  Payload <- MCPayload
  NoWrite = NoWrite
  Requests = {r1, r2, r3}
  MaxMoves = 1
  MaxFaults = 1
SYMMETRY MCSymmetry
INVARIANTS
  IssueFollowsGateway
  AnswersAgree
CHECK_DEADLOCK FALSE
