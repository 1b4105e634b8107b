\* Three polls are enough: the second moves away from the target, the third
\* comes back part of the way.
SPECIFICATION Spec
CONSTANTS
  None = None
  Alphabets <- PollAlphabet
  MaxWindow = 3
INVARIANTS
  PollBaselineIsFirst
CHECK_DEADLOCK FALSE
