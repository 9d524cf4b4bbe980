SPECIFICATION FairSpec
CONSTANTS
  None = None
  Replies <- ApprovalReplies
  MaxPrompts = 3
  MaxReplies = 2
  MaxDeltas = 0
  MaxQueue = 1
  MaxBatch = 2
  MaxRounds = 2
  MaxRepairs = 1
  Retained = 1
  ContinueOnFailure = FALSE
  Env = {"lateCancel"}
INVARIANTS TypeOK ConsentForGated RunsOnce OneOwner ProviderExclusive DecisionAnswerable NextPromptStarts NoIllegalTransition
PROPERTIES CancelTakesBackTurn TurnEnds QueueDrains
