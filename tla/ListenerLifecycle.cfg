SPECIFICATION FairSpec
CONSTANTS
  Channels = {1, 2, 3}
  Tags = {1, 2, 3, 4}
  Recoverers = {"rec1", "rec2"}
  MaxAttempts = 2
  MaxFaults = 2
  MaxWindows = 2
INVARIANTS ConsumesOnce StopIsFinal RebuildIsWhole
PROPERTY ConsumesAgain
CHECK_DEADLOCK FALSE
