\* Eight scenarios; traces of up to five events, of which a call takes at most
\* four, so that the refusal of a long trace, the limits and the end of a
\* window are all reached.  A host whose trace is full can still call.
SPECIFICATION Spec
CONSTANTS
  None = None
  Scenarios <- MCScenarios
  MaxItems = 4
  MaxEvidence = 3
  MaxRejected = 1
  MaxTrace = 5
INVARIANTS
  AnswerSpeaksOfCopy
  HardStopDominates
  InterventionIsGrounded
  SemanticOnlyRaises
  DegradationIsHarmless
  ReheatIsExecutable
  HardStopIsRecorded
PROPERTIES
  HardStopPersists
