\* Every trace of up to five events: two calls that are harmless together, the
\* third that is not, and two events around them.  A full trace stops.
SPECIFICATION Spec
CONSTANTS
  None = None
  Event <- MCEvent
  WholeRun <- MCWholeRun
  MaxTrace = 5
INVARIANTS
  TypeOK
  RiskIsComplete
  RiskIsEarliest
  LimitIsEarliest
CHECK_DEADLOCK FALSE
