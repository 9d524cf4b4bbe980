SPECIFICATION Spec
CONSTANTS
  None = None
  Replies <- DegradedReplies
  MaxPrompts = 2
  MaxReplies = 4
  MaxDeltas = 0
  MaxQueue = 1
  MaxBatch = 1
  MaxRounds = 3
  MaxRepairs = 1
  Retained = 1
  ContinueOnFailure = FALSE
  Env = {"imageLost", "compact"}
INVARIANTS RequestsWellFormed LoopGuards
CHECK_DEADLOCK FALSE
