SPECIFICATION Spec
CONSTANTS
  cube = cube
  part = part
  stem = stem
  blot = blot
  Objects <- MCObjects
  Names <- MCNames
  Reread <- MCReread
  Redacted <- MCRedacted
  NotAnObject = NotAnObject
  None = None
  Retained = 1
  MaxPrompts = 4
  MaxResults = 1
INVARIANTS SummaryTrue FactsKept
