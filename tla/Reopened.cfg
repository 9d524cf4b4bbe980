SPECIFICATION Spec
CONSTANTS
  None = None
  Replies <- ShortReplies
  MaxPrompts = 2
  MaxReplies = 3
  MaxDeltas = 1
  MaxQueue = 1
  MaxBatch = 1
  MaxRounds = 1
  MaxRepairs = 1
  Retained = 1
  ContinueOnFailure = TRUE
  Env = {"clear", "load", "compact"}
INVARIANT StreamingOwn
PROPERTY NoRunAfterCancel
