------------------------ MODULE RecoveryInstruction ------------------------
(***************************************************************************)
(* The instruction a host may hand to its agent for a reheat, which two    *)
(* functions build: build_recovery_instruction from a decision envelope,   *)
(* which it audits first, and construct_recovery_instruction from the      *)
(* diagnosis, the findings and the policy behind it.                       *)
(*                                                                         *)
(* An instruction keeps what varies between reheats: the gaps, the         *)
(* evidence and the rejected hypotheses.  The prompt, the tools, the stop  *)
(* conditions and the digest that names it follow from them and the        *)
(* policy.  An envelope is the record Controller makes; its decision_id, a *)
(* digest of the rest, always fits, for no envelope is forged here.        *)
(***************************************************************************)
EXTENDS RecoveryPolicy, FiniteSetsExt

Refused(code) == [error |-> code]

\* recovery_instruction_source.
Instruction(gaps, evidence, rejected) ==
  [error |-> None, gaps |-> gaps, evidence |-> evidence, rejected |-> rejected]

ExpectedReasons(hostAction) ==
  {"signals_agree", "repetition_detected", "no_progress_detected"}
    \cup (IF hostAction THEN {"host_action_required"} ELSE {})

\* The highest weighted score of a class among the contributions of an envelope.
Maximum(envelope, class) ==
  Max({0} \cup {x.weighted_score :
                  x \in {c \in envelope.confidence.weighted : c.class = class}})

\* Mutant: the contributions are not looked at.
IsRecoveryDecisionByReasons(envelope) ==
  /\ envelope.recovery \in {"research", "branch", "model_switch"}
  /\ envelope.reasons = ExpectedReasons(envelope.host_action)
  /\ "read_only" \in envelope.allowed

\* _validate_recovery_decision.
IsRecoveryDecision(envelope) ==
  /\ envelope.recovery \in {"research", "branch", "model_switch"}
  /\ envelope.reasons = ExpectedReasons(envelope.host_action)
  /\ "read_only" \in envelope.allowed
  /\ \A c \in envelope.confidence.weighted : c.class \in {"repetition", "no_progress"}
  /\ LET repetition == Maximum(envelope, "repetition")
         noProgress == Maximum(envelope, "no_progress")
     IN  /\ repetition > 0 /\ noProgress > 0
         /\ envelope.confidence.score = Min({repetition, noProgress})

BuildInstruction(envelope) ==
  IF envelope.decision # "reheat" THEN None
  ELSE IF IsRecoveryDecision(envelope)
       THEN Instruction(envelope.gaps, envelope.evidence, envelope.rejected)
       ELSE Refused("invalid_recovery_decision")

\* _validate_reheat_selection.
IsReheatSelection(selection, diagnosis, policy) ==
  /\ diagnosis.causes \cap {"missing_authority", "unsafe_side_effect", "exhausted_budget"} = {}
  /\ {"nudge", "diagnose"} \cap policy.permitted = {}
  /\ AllowsReheat(policy)
  /\ selection.recovery = SelectRecovery("reheat", diagnosis.causes)
  /\ selection.host_action = ("reheat" \in policy.host_action)
  /\ selection.reasons = ExpectedReasons("reheat" \in policy.host_action)
  /\ diagnosis.evidence \subseteq selection.evidence

\* construct_recovery_instruction, of the selection it makes again itself.
ConstructInstruction(diagnosis, findings, policy) ==
  LET selection == Select(diagnosis, findings, policy)
  IN  IF selection.decision # "reheat" THEN None
      ELSE IF IsReheatSelection(selection, diagnosis, policy)
           THEN Instruction(diagnosis.causes, selection.evidence, diagnosis.rejected)
           ELSE Refused("invalid_reheat_selection")
=============================================================================
