SPECIFICATION MCSpec
CONSTANTS
  LastTick = 3
  Duration = 2
  Runs = {1, 2}
  Requests = 2
  Original = 2
  Target = 1
  Writers = {"a", "b", "c"}
  Period = 4
  Jitter = 2
  Packets = 104
  MaxLate = 2
  MaxLost = 1
  MaxCount = 5
  MaxTiming = 5
  FrameTicks = 4
  ListenTicks = 212
  MinDuration = 200
  MinFrames = 40
  Heads = {0, 4, 8}
  Delays = {0, 1, 21}
  MaxDelay = 21
  MaxDelayed = 1
  MaxDropped = 1
  Robots = {"go2_01", "go2_02"}
  Firmwares = {"f1", "f2"}
  CodecOf <- MCCodecOf
  Captures = {first, second}
SYMMETRY MCSymmetry
INVARIANTS
  CertifiedIsWhole
  StrictIsWhole
  CompletedIsCertifiable
  OneUploadPerJournal
  JournalIsTrue
  SuccessMeansRestored
  KnownChangeIsUndone
  VouchedDataIsThere
  ContinuousBoundsLoss
  NoPhantomLoss
  BuiltReportsPass
  QualifiedCaptureIsWhole
PROPERTY StartsWithTheRightCodec
CHECK_DEADLOCK FALSE
