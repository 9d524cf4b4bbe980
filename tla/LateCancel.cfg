SPECIFICATION Spec
CONSTANTS
  None = None
  Replies <- ShortReplies
  MaxPrompts = 1
  MaxReplies = 4
  MaxDeltas = 0
  MaxQueue = 1
  MaxBatch = 1
  MaxRounds = 1
  MaxRepairs = 1
  Retained = 1
  ContinueOnFailure = TRUE
  Env = {"lateCancel"}
PROPERTY CompletedHistoryKept
CHECK_DEADLOCK FALSE
