\* Every window of up to six events over each alphabet.  A window that is full
\* stops.
SPECIFICATION Spec
CONSTANTS
  None = None
  Alphabets <- MCAlphabets
  MaxWindow = 6
INVARIANTS
  TypeOK
  UnchangedStateDecides
  StallIsGenuine
  StallIsComplete
  BurnIsGenuine
  BurnIsComplete
CHECK_DEADLOCK FALSE
