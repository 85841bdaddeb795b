SPECIFICATION FairSpec
CONSTANTS
  Issues = {i1}
  NoIssue = NoIssue
  MaxRefs = 2
  MaxWorks = 2
  MaxEvents = 2
  MaxVer = 1
  MaxGen = 2
  MaxMoves = 1
  MaxFaults = 1
INVARIANTS
  TypeOK
  RevisionsAreSettled
  WorkLinkIsStable
  OneOutcomePerIntake
PROPERTIES
  StaleRequestStaysDenied
  ImplementsFactDelivery
  RequestSettles
CHECK_DEADLOCK FALSE
