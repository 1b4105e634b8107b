\* Three cells under a cap the third one may meet; a second campaign finds the
\* sandboxes of the first; two pairs of files, so that one is written over
\* what a crash left.  The campaigns end: the system stops.
SPECIFICATION Spec
CONSTANTS
  None = None
  Cells = 3
  Limits <- MCLimits
  RunCaps <- MCRunCaps
  CampaignCap = 4
  EventUsages <- MCEventUsages
  MaxEvents = 2
  MaxAttempts = 2
  Declarations = {1, 2}
  Reasons = {authorization, stack}
  MaxWrites = 2
INVARIANTS
  OvershootIsOneStep
  DeliveryIsHonest
  ResultsAreOfOneCampaign
  AcceptedPairIsBound
CHECK_DEADLOCK FALSE
