SPECIFICATION FairSpec
CONSTANTS
  Streams = {s1, s2}
  NoStream = NoStream
  MaxUtterance = 3
  BlockLen = 2
  Timeout = 1
  MaxRequests = 5
  Chunks <- MCChunks
INVARIANTS
  TypeOK
  BufferIsUtteranceHead
  RobotPlaysWholeUtterances
  RobotFollowsUpload
  CompletedMeansReceived
PROPERTIES
  IsFailClosedClient
  UploadMovesOn
CHECK_DEADLOCK FALSE
