SPECIFICATION GatewaysSpec
CONSTANTS
  Streams = {s1, s2}
  NoStream = NoStream
  Chunks <- MCChunks
  G1Chunks <- MCG1Chunks
  Limits <- MCLimits
  QueueSize = 2
  G1QueueSize = 1
  MaxDiagnostics = 2
  MaxAge = 2
  FirstStream = s1
  MaxStamp = 2
INVARIANTS
  ReplacementSucceeds
PROPERTIES
  RelaysWithoutHoles
  RelaysWithoutHolesG1
  TakenIsPublished
  NewestIsShown
CHECK_DEADLOCK FALSE
