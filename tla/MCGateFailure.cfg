\* One verification of one target, as the document describes it.
SPECIFICATION Spec
CONSTANTS
  None = None
  Verifiers = {v1}
  Commits = {c1, c2}
  SourceNames <- MCSourceNames
  MaxEdits = 0
  MaxRuns = 1
INVARIANT
  GateFailureIsRecorded
CHECK_DEADLOCK FALSE
