\* Every window of up to six events over each alphabet: six observations close
\* the longest cycle the detector looks for.  A window that is full stops.
SPECIFICATION Spec
CONSTANTS
  None = None
  Alphabets <- MCAlphabets
  MaxWindow = 6
INVARIANTS
  TypeOK
  ExactRepetitionDecides
  RepeatedErrorDecides
  CycleDecides
  WindowingInventsNothing
CHECK_DEADLOCK FALSE
