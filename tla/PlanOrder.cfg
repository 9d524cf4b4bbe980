SPECIFICATION FairSpec
CONSTANTS
  a = a
  b = b
  c = c
  d = d
  missing = missing
  StepIds <- Names
  Goals <- Mixed
  MaxSteps = 4
  AutoApprove = TRUE
\* A plan that has ended or waits for ever does nothing more.
CHECK_DEADLOCK FALSE
INVARIANTS
  TypeOK
  ReviewedOrderKept
  ConsentForPlans
PROPERTIES
  PlanSettles
  ImplementsContract
