SPECIFICATION TaskSpec
CONSTANTS
  Names = {"a", "b", "c", "d", "e", "f"}
  Scenes <- MCScenes
  Snapshot <- Visible
  UndoLimit = 32
  MaxSteps = 0
  MaxPushed = 31
  MaxCalls = 2
INVARIANT SceneSound
PROPERTIES SharedDataKept OneStepEach LossNeedsConsent TaskRollsBack
CHECK_DEADLOCK FALSE
