SPECIFICATION FairSpec
CONSTANTS
  FramesPerChunk = 5
  WireLen = 2
  QueueLen = 4
  MaxFaults = 1
  SeqMod = 4
PROPERTIES
  DroppedChunkIsRecoverable
CHECK_DEADLOCK FALSE
