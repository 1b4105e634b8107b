-------------------------- MODULE ControllerRecords --------------------------
(***************************************************************************)
(* What a host makes of the controller's answers: the instruction it hands *)
(* on and the evidence record it keeps.                                    *)
(***************************************************************************)
EXTENDS Controller, RecoveryInstruction, Evidence

\* The instruction the policy layer constructs for the latest answer, had there
\* been no semantic detector.
Constructed ==
  LET findings == DeterministicFindings(snapshot, policy)
  IN  ConstructInstruction(Diagnose(snapshot, findings), findings, policy)

\* No instruction is built while the trace holds a hard stop, and one that is built
\* is the one the policy layer constructs from the diagnosis.  A reheat whose
\* confidence is positive, under a policy that lets reads be repeated, has its
\* instruction; a detector weighted zero leads to a reheat that has none.
ReheatIsExecutable ==
  Concluded =>
    LET built == BuildInstruction(answer)
    IN  /\ HardStopsOf(snapshot) # {} => built = None
        /\ answer.decision # "reheat" => built = None
        /\ answer.decision = "reheat" =>
             (built.error = None
                <=> answer.confidence.score > 0 /\ "read_only" \in policy.repeatable)
        /\ policy.semantic = "disabled" /\ built \notin {None, Refused("invalid_recovery_decision")}
             => built = Constructed

\* Whatever the host reports of a decision about a trace with a hard stop, the
\* record is made, names the hard stop as its trigger, and never reads as a recovery
\* or as something to go on with; a stop on a risk counts as a repeat avoided.
HardStopIsRecorded ==
  Concluded /\ HardStopsOf(snapshot) # {} =>
    \A outcome \in Outcomes :
      LET record == RecordOutcome(answer, outcome)
      IN  /\ record.error = None
          /\ record.reason \in {"budget_limit_reached", "risk_detected"}
          /\ record.reason = "risk_detected" => record.avoided
          /\ record.final \in {"stopped", "blocked", "escalated"}
=============================================================================
