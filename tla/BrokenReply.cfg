SPECIFICATION Spec
CONSTANTS
  None = None
  MaxEvent = 9
  Meaning <- MCMeaning
  Loads <- MCLoads
  Replies <- BrokenReplies
  ReadSizes = {1, 5}
  MaxRequests = 1
  MaxSwaps = 0
INVARIANT OnlyWholeReplies
CHECK_DEADLOCK FALSE
