SPECIFICATION Spec
CONSTANTS
  MaxConns = 2
  MaxSentences = 2
  MaxReplies = 2
  Cap = 2
INVARIANTS
  TypeOK
  InOrder
  FinalsInTranscript
PROPERTIES
  LossNoticed
  StopAnswered
