SPECIFICATION MCSpec
CONSTANTS
  FileChunks = 3
  StreamIds = 3
  SeqMod = 4
  Streams = {s1, s2}
  NoStream = NoStream
  Formats = {f1, f2}
  NoFormat = NoFormat
  Chunks <- SpeakerChunks
INVARIANTS
  BothTypesOK
  PublishedObeysContract
  PlayedUpToGuard
PROPERTIES
  MicStaysAlive
  PlaysHeads
CHECK_DEADLOCK FALSE
