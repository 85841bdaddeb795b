SPECIFICATION FairSpec
CONSTANTS
  support = support
  runtime = runtime
  Sources = {support, runtime}
  Guarded = {runtime}
  MaxEvents = 3
  SourceOf <- MCSourceOf
  Limit = 2
  MaxRuns = 2
  MaxFaults = 1
INVARIANTS
  UnhurtRepeatsNothing
PROPERTIES
  StopResolves
  EveryEventDelivered
CHECK_DEADLOCK FALSE
