\* Two runs: of two verifiers, so that one replaces the receipt of the other, or of
\* one, so that it starts again over what it left; one write to the sources.  The
\* verifications end: the system stops.
SPECIFICATION Spec
CONSTANTS
  None = None
  Verifiers = {v1, v2}
  Commits = {c1, c2}
  SourceNames <- MCSourceNames
  MaxEdits = 1
  MaxRuns = 2
INVARIANTS
  PassIsEarned
  ReceiptIsWhole
  ReplayIsAudited
SYMMETRY Symmetry
CHECK_DEADLOCK FALSE
