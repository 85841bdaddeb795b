\* Two budgeted callers and a native session on a pool of two clients.
SPECIFICATION FairSpec
CONSTANTS
  Ops = {p1, p2}
  Natives = {n1}
  Conns = {c1, c2}
  Late = Late
  NoOne = NoOne
  MaxQueue = 3
INVARIANTS TypeOK NeverBehindRelease TransactionsStayPrivate
PROPERTIES CallNeedsNobody
