SPECIFICATION FairSpec
CONSTANTS
  Installs = {j1}
  MaxOwners = 2
  MaxTries = 2
  MaxFaults = 2
INVARIANTS
  TypeOK
  RevokedIsDisabled
  ReadyIsConnected
PROPERTIES
  TombstoneIsApplied
  PendingBecomesReady
CHECK_DEADLOCK FALSE
