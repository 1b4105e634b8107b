--------------------------- MODULE RecoveryPolicy ---------------------------
(***************************************************************************)
(* policies.select_recovery_policy: the least-cost permitted response to a *)
(* diagnosis and its matched findings, under the closed safety gates.      *)
(*                                                                         *)
(* A policy is a record with, of the RunPolicy fields:                     *)
(*   permitted           the ladder stages it permits                      *)
(*   host_action         the ladder stages that require host action        *)
(*   max_recovery_episodes                                                 *)
(***************************************************************************)
EXTENDS Diagnosis

Stage == {"nudge", "diagnose", "reheat", "restart", "escalate", "stop"}
Decision == Stage \cup {"continue"}

\* What _run_policy_is_safe demands of the ladder.
IsSafeLadder(policy) ==
  /\ policy.permitted \subseteq Stage /\ policy.host_action \subseteq Stage
  /\ {"escalate", "stop"} \subseteq policy.permitted
  /\ {"restart", "escalate"} \subseteq policy.host_action
  /\ "reheat" \in policy.permitted => policy.max_recovery_episodes > 0

Observed(findings) == {f.class : f \in findings}

\* A finding of another class may carry the reason of a hard stop.
IsRiskObserved(findings) ==
  \E f \in findings : f.class = "risk" \/ f.reason = "risk_detected"
IsBudgetObserved(findings) ==
  \E f \in findings : f.class = "budget" \/ f.reason = "budget_limit_reached"

\* Mutant: a repetition alone passes the gate.
RepetitionIsEnough(findings) == "repetition" \in Observed(findings)

\* The gate: two independent classes, for which a budget never substitutes.
SignalsAgree(findings) == {"repetition", "no_progress"} \subseteq Observed(findings)

\* RunPolicy.allows_reheat, for the two classes of the gate.
AllowsReheat(policy) == "reheat" \in policy.permitted /\ policy.max_recovery_episodes > 0

MustStop(diagnosis, findings) ==
  \/ IsRiskObserved(findings) \/ IsBudgetObserved(findings)
  \/ diagnosis.causes \cap {"unsafe_side_effect", "exhausted_budget"} # {}

\* Nobody but a human can answer: the least a valid policy permits here.
Escalation(policy) == IF "escalate" \in policy.permitted THEN "escalate" ELSE "stop"

LowestStage(policy) ==
  IF "nudge" \in policy.permitted THEN "nudge"
  ELSE IF "diagnose" \in policy.permitted THEN "diagnose"
  ELSE IF AllowsReheat(policy) THEN "reheat"
  ELSE IF "restart" \in policy.permitted THEN "restart"
  ELSE Escalation(policy)

\* Mutant: the gate is tried before the hard stops.
SelectGateFirst(diagnosis, findings, policy) ==
  IF SignalsAgree(findings) THEN LowestStage(policy)
  ELSE IF MustStop(diagnosis, findings) THEN "stop"
  ELSE IF "missing_authority" \in diagnosis.causes THEN Escalation(policy)
  ELSE "continue"

SelectDecision(diagnosis, findings, policy) ==
  IF MustStop(diagnosis, findings) THEN "stop"
  ELSE IF "missing_authority" \in diagnosis.causes THEN Escalation(policy)
  ELSE IF SignalsAgree(findings) THEN LowestStage(policy)
  ELSE "continue"

-----------------------------------------------------------------------------
(* The rest of the selection.                                              *)

\* _recovery_policy, by the first cause in the order of CauseClass.
SelectRecovery(decision, causes) ==
  IF decision \notin {"reheat", "restart"} THEN None
  ELSE IF "missing_knowledge" \in causes THEN "research"
  ELSE IF "incorrect_plan" \in causes THEN "branch"
  ELSE IF causes \cap {"unsuitable_tool", "runtime_defect"} # {} THEN "model_switch"
  ELSE "branch"

RequiresHostAction(decision, policy) ==
  decision # "continue" /\ (decision = "escalate" \/ decision \in policy.host_action)

\* _reason_codes; a continue has none, whatever was observed.
ReasonCodes(decision, findings, policy) ==
  IF decision = "continue" THEN {}
  ELSE {r \in {"signals_agree", "repetition_detected", "no_progress_detected",
               "risk_detected", "budget_limit_reached", "host_action_required"} :
          \/ r = "signals_agree" /\ SignalsAgree(findings)
          \/ r = "repetition_detected" /\ "repetition" \in Observed(findings)
          \/ r = "no_progress_detected" /\ "no_progress" \in Observed(findings)
          \/ r = "risk_detected" /\ IsRiskObserved(findings)
          \/ r = "budget_limit_reached" /\ IsBudgetObserved(findings)
          \/ r = "host_action_required" /\ RequiresHostAction(decision, policy)}

\* _collect_evidence; more of it than maxEvidence raises before any decision.
CollectedEvidence(diagnosis, findings) ==
  diagnosis.evidence \cup UNION {f.events : f \in findings}

Select(diagnosis, findings, policy) ==
  LET decision == SelectDecision(diagnosis, findings, policy)
  IN  [decision    |-> decision,
       recovery    |-> SelectRecovery(decision, diagnosis.causes),
       reasons     |-> ReasonCodes(decision, findings, policy),
       evidence    |-> CollectedEvidence(diagnosis, findings),
       host_action |-> RequiresHostAction(decision, policy)]
=============================================================================
