SPECIFICATION FairSpec
CONSTANTS
  FramesPerChunk = 2
  WireLen = 2
  QueueLen = 2
  MaxFaults = 2
  SeqMod = 4
PROPERTIES
  HearsHeads
  ResetHeals
CHECK_DEADLOCK FALSE
