------------------------------ MODULE Evidence ------------------------------
(***************************************************************************)
(* evidence.record_outcome: what is kept of a decision and of the outcome  *)
(* the host reports for it.  The two belong together if their run does;    *)
(* there is one run here, so an outcome may be paired with any decision.   *)
(*                                                                         *)
(* An outcome is a record of the host's status, the change of acceptance,  *)
(* whether the host denied the action and whether a human took over.  The  *)
(* counters and the new evidence are copied and left out.                  *)
(***************************************************************************)
EXTENDS TraceEvents

Outcomes ==
  [status     : {"completed", "partial", "failed", "denied", "escalated"},
   acceptance : {"improved", "unchanged"},
   denied     : BOOLEAN,
   escalation : BOOLEAN]

MatchedClasses(envelope) == {c.class : c \in envelope.confidence.weighted}

\* _trigger, of a decision that has a finding.
TriggerReason(envelope) ==
  LET classes == MatchedClasses(envelope)
  IN  IF "budget" \in classes THEN "budget_limit_reached"
      ELSE IF "risk" \in classes THEN "risk_detected"
      ELSE IF {"repetition", "no_progress"} \subseteq classes THEN "signals_agree"
      ELSE "host_request"

IsRecovered(outcome) == outcome.status = "completed" /\ outcome.acceptance = "improved"

\* Mutant: what the host achieved is looked at before what was decided.
FinalStatusByOutcome(envelope, outcome) ==
  IF outcome.escalation \/ outcome.status = "escalated" THEN "escalated"
  ELSE IF outcome.denied \/ outcome.status = "denied" THEN "blocked"
  ELSE IF IsRecovered(outcome) THEN "recovered"
  ELSE IF envelope.decision = "stop" \/ outcome.status = "failed" THEN "stopped"
  ELSE "continued"

\* _final_status.
FinalStatus(envelope, outcome) ==
  IF outcome.escalation \/ outcome.status = "escalated" THEN "escalated"
  ELSE IF outcome.denied \/ outcome.status = "denied" THEN "blocked"
  ELSE IF envelope.decision = "stop" \/ outcome.status = "failed" THEN "stopped"
  ELSE IF IsRecovered(outcome) THEN "recovered"
  ELSE "continued"

\* A decision without a matched finding, such as one that rests on the markers of
\* causes alone, has no trigger and cannot be recorded.
RecordOutcome(envelope, outcome) ==
  IF envelope.confidence.weighted = {}
  THEN [error |-> "missing_trigger_findings"]
  ELSE [error    |-> None,
        reason   |-> TriggerReason(envelope),
        findings |-> {c.id : c \in envelope.confidence.weighted},
        chosen   |-> envelope.recovery,
        avoided  |-> \/ envelope.decision = "stop" /\ "risk" \in MatchedClasses(envelope)
                     \/ outcome.denied,
        final    |-> FinalStatus(envelope, outcome)]
=============================================================================
