\* Two scenarios, so that one runs after another; two attempts, so that the
\* second finds what the first left; one byte of capture and two written, so
\* that output is lost or refused.  The attempts end: the system stops.
SPECIFICATION Spec
CONSTANTS
  Maximum = 1
  MaxWritten = 2
  Positions = 2
  Cap = 2
  MaxUsage = 3
  MaxAttempts = 2
INVARIANTS
  TypeOK
  TermStaysHome
  NoUnitOutlives
  RunsOnce
  SummaryIsComplete
PROPERTIES
  Bounded
  AttemptEnds
CHECK_DEADLOCK FALSE
