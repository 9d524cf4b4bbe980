SPECIFICATION FairSpec
CONSTANTS
  None = None
  MaxEvent = 9
  Meaning <- MCMeaning
  Loads <- MCLoads
  Replies <- MCReplies
  ReadSizes = {1, 5}
  MaxRequests = 2
  MaxSwaps = 1
INVARIANTS RepliesAsSent OneOutcome
PROPERTIES RequestSettles CancelFreesWorker
CHECK_DEADLOCK FALSE
