\* No faults, pages and replays that hold everything, and headers that wait for a frame.
SPECIFICATION FairSpec
CONSTANTS
  MaxMsg = 2
  MaxCommits = 1
  Page = 2
  Keep = 2
  ReplayMax = 2
  StreamMax = 2
  EarlyHeaders = FALSE
  MaxFaults = 0
PROPERTIES EveryMessageShown
CHECK_DEADLOCK FALSE
