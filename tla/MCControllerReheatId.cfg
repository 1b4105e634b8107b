\* The gate passes after three events; the fourth is a plan.
SPECIFICATION Spec
CONSTANTS
  None = None
  Scenarios <- ReheatScenario
  MaxItems = 4
  MaxEvidence = 4
  MaxRejected = 1
  MaxTrace = 4
PROPERTIES
  ReheatIdNeedsNewSupport
