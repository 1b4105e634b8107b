----------------------------- MODULE Diagnosis -----------------------------
(***************************************************************************)
(* diagnosis.diagnose: the causes that exact markers and matched findings  *)
(* name, the events that support them and the hypotheses already rejected. *)
(***************************************************************************)
EXTENDS TraceEvents, FiniteSets

CauseClass ==
  {"missing_knowledge", "incorrect_plan", "unsuitable_tool", "runtime_defect",
   "missing_authority", "unsafe_side_effect", "ambiguous_completion",
   "exhausted_budget"}

\* _event_marker: only plans and errors carry a diagnostic_cause.
IsMarked(e) == e.kind \in {"plan", "error"} /\ e.marker \in CauseClass

\* _finding_cause, on a matched finding; None when it names no cause.
FindingCause(f) ==
  IF f.class = "risk" /\ f.reason = "risk_detected" THEN "unsafe_side_effect"
  ELSE IF f.class = "budget" /\ f.reason = "budget_limit_reached" THEN "exhausted_budget"
  ELSE None

MarkedEvents(trace) == {p \in 1 .. Len(trace) : IsMarked(trace[p])}
Eliminations(trace) ==
  {p \in 1 .. Len(trace) : trace[p].kind = "plan" /\ trace[p].eliminated # {}}

Causes(trace, findings) ==
  {trace[p].marker : p \in MarkedEvents(trace)}
    \cup {FindingCause(f) : f \in {g \in findings : FindingCause(g) # None}}

\* A plan that only repeats a rejected hypothesis supports the diagnosis too.
DiagnosisEvidence(trace, findings) ==
  MarkedEvents(trace) \cup Eliminations(trace)
    \cup UNION {f.events : f \in {g \in findings : FindingCause(g) # None}}

RejectedHypotheses(trace) == UNION {trace[p].eliminated : p \in Eliminations(trace)}

Diagnose(trace, findings) ==
  [causes   |-> Causes(trace, findings),
   evidence |-> DiagnosisEvidence(trace, findings),
   rejected |-> RejectedHypotheses(trace)]

\* diagnose raises instead of returning more than its limits.
WithinLimits(diagnosis, maxEvidence, maxRejected) ==
  /\ Cardinality(diagnosis.evidence) <= maxEvidence
  /\ Cardinality(diagnosis.rejected) <= maxRejected
=============================================================================
