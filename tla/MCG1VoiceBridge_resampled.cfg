SPECIFICATION Spec
CONSTANTS
  Streams = {s1, s2}
  NoStream = NoStream
  MaxAge = 2
  Timeout = 1
  MaxRequests = 2
  PlayRate = 3
  SourceRate = 4
  PlaybackLimits <- MCPlaybackLimits
  SourceLimits <- MCSourceLimits
  Chunks <- ResampledChunks
INVARIANTS
  StreamsAgree
SYMMETRY StreamSymmetry
CHECK_DEADLOCK FALSE
