\* Two calls of a risky action are enough, with an optional semantic detector.
SPECIFICATION Spec
CONSTANTS
  None = None
  Scenarios <- OptionalScenario
  MaxItems = 4
  MaxEvidence = 4
  MaxRejected = 1
  MaxTrace = 3
INVARIANTS
  HardStopPrecedesOptional
