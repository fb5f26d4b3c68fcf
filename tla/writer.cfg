CONSTANTS
  Sizes = {1, 2}
  MaxPendingBytes = 3
  MissedPongs = 1
  MaxFrames = 4
SPECIFICATION FairSpec
INVARIANTS TypeOK
PROPERTIES IsStream BacklogDrains SilentConnEnds CloseReleases
CHECK_DEADLOCK FALSE
