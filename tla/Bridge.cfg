SPECIFICATION FairSpec
CONSTANTS
  r1 = r1
  r2 = r2
  r3 = r3
  Requests <- BridgeRequests
  Kind <- BridgeKind
  Envs <- BridgeEnvs
  MaxItems = 1
  MaxRestarts = 1
INVARIANTS
  TypeOK
  ChoicesKept
PROPERTIES
  NothingRunsStopped
  AbandonedNeverRuns
  EveryRequestAnswered
  QueueMoves
  ImplementsService
