\* Every window of up to five events over each alphabet.
SPECIFICATION Spec
CONSTANTS
  None = None
  Alphabets <- MCAlphabets
  MaxWindow = 5
INVARIANTS
  TypeOK
  ReasonsAreWitnessed
  SupportIsEarliest
CHECK_DEADLOCK FALSE
