SPECIFICATION AudioSpec
CONSTANTS
  BytesPerMs = 4
  SizeMs = 3
  PreRollMs = 1
  MaxFrameMs = 3
  Frames <- MCFrames
  MaxBytes = 27
  Before = 1
  Middle = 2
  After = 1
  FrameSamples = 2
  MaxFailed = 1
  Threshold = 5
  TailWeight = 2
  Weight <- MCWeight
INVARIANTS
  TypeOK
  TailKept
  RangeFaithful
  HeardOnce
  SentenceWhole
