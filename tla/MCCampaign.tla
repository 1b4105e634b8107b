----------------------------- MODULE MCCampaign -----------------------------
(***************************************************************************)
(* Three cells; an event may meet a cap exactly, pass it, or report        *)
(* nothing; turns and tokens reach their caps separately.                  *)
(***************************************************************************)
EXTENDS CampaignArtifacts

Use(turns, tokens) == [turns |-> turns, tokens |-> tokens]

MCRunCaps == Use(2, 3)
MCEventUsages == {Use(0, 1), Use(1, 2), Use(2, 0)}
MCLimits == {0, 2, 3}
=============================================================================
