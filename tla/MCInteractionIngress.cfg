\* One event that may expire, two relays, two attempts.
CONSTANTS
  Events = {e1}
  Relays = {w1, w2}
  NoEvent = NoEvent
  Expiring = {e1}
  Limit = 1
  MaxTries = 2
  MaxFaults = 3
SPECIFICATION FairSpec
INVARIANTS
  TypeOK
  CompletedIsDerived
  OneRelayPerEvent
PROPERTIES
  EveryEventSettles
CHECK_DEADLOCK FALSE
