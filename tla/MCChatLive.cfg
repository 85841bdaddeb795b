\* One page holds a single message, so two new ones after the cursor need two fetches; one
\* replay holds a single entry, and the view two messages.
SPECIFICATION FairSpec
CONSTANTS
  MaxMsg = 3
  MaxCommits = 2
  Page = 1
  Keep = 2
  ReplayMax = 1
  StreamMax = 2
  EarlyHeaders = TRUE
  MaxFaults = 1
INVARIANTS TypeOK ShownWithoutHoles 
PROPERTIES EveryMessageWakes
CHECK_DEADLOCK FALSE
