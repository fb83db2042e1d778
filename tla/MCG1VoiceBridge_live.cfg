SPECIFICATION FairSpec
CONSTANTS
  Streams = {s1, s2}
  NoStream = NoStream
  MaxAge = 3
  Timeout = 2
  MaxRequests = 3
  PlayRate = 3
  SourceRate = 4
  PlaybackLimits <- MCPlaybackLimits
  SourceLimits <- MCSourceLimits
  Chunks <- PlainChunks
PROPERTIES
  AnswerOrFault
  BufferDrains
CHECK_DEADLOCK FALSE
