\* Two events in one batch, one relay; the dispatch is lost and the relay dies.
CONSTANTS
  Events = {e1, e2}
  Relays = {w1}
  NoEvent = NoEvent
  Expiring = {}
  Limit = 2
  MaxTries = 1
  MaxFaults = 2
SPECIFICATION FairSpec
PROPERTIES
  EveryEventRecovered
CHECK_DEADLOCK FALSE
