SPECIFICATION Spec
CONSTANTS
  MaxSpeech = 3
  CommitWindow = 3
  EndWindow = 3
  WatchdogEnabled = TRUE
  WatchdogMinChars = 2
  WatchdogSpan = 3
  WatchdogLimit = 1
  Hour = 1
  Results <- MCResults
  ChunkLengths <- MCChunkLengths
  Gaps <- MCGaps
  MaxConfirm = 2
  VadMayFail = TRUE
  VadLookback = 1
  MaxNow = 4
  MaxWall = 3
  MaxTokens = 4
INVARIANTS
  TypeOK
  SentencesOrdered
  OneUtteranceOpen
  TextConserved
  NoTextLostAtStop
  AccumulationBounded
  WatchdogRateLimited
PROPERTIES
  ImplementsLog
