SPECIFICATION Spec
CONSTANTS
  Scenes <- MCScenes
  Snapshot <- MCSnapshot
  UndoLimit = 3
  MaxSteps = 2
  MaxPushed = 2
INVARIANT CounterAgrees
PROPERTY RollbackRestores
