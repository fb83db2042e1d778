SPECIFICATION FairSpec
CONSTANTS
  FileChunks = 2
  StreamIds = 2
  SeqMod = 3
PROPERTIES
  DeadDeviceIsRetried
CHECK_DEADLOCK FALSE
