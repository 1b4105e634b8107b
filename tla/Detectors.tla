----------------------------- MODULE Detectors -----------------------------
(***************************************************************************)
(* The six deterministic detectors as functions of a trace, each over the  *)
(* window its class looks back on, and the findings they report.           *)
(*                                                                         *)
(* A finding keeps the fields a decision depends on.  A matched candidate  *)
(* scores 1, and no valid policy has a threshold above 1, so a candidate   *)
(* is a match whatever the thresholds are.  A finding's id is the digest   *)
(* of its detector and events: equal exactly when those are.               *)
(***************************************************************************)
EXTENDS ExactRepetition, RepeatedError, Cycle, UnchangedState, AcceptanceStall, BudgetBurn

FindingClass == {"repetition", "no_progress", "risk", "budget"}

Finding(detector, class, reason, events) ==
  [id |-> <<detector, events>>, class |-> class, reason |-> reason, events |-> events]

\* The events one detector's loop supports a match with in window w.
Scan(step(_, _, _), start, w) ==
  FoldLeftDomain(LAMBDA s, p : step(s, w, p), start, w).match

RepetitionWindow(trace, policy) == LastEvents(trace, policy.repetition_events)
NoProgressWindow(trace, policy) == LastEvents(trace, policy.no_progress_events)

\* What each detector of _DETECTORS returns; {} is an unmatched finding.
Matches(trace, policy) ==
  LET r == RepetitionWindow(trace, policy)
      n == NoProgressWindow(trace, policy)
  IN  {<<"exact_repetition", "repetition", Scan(ExactStep, ExactStart, r)>>,
       <<"cycle", "repetition", Scan(CycleStep, CycleStart, r)>>,
       <<"repeated_error", "repetition", Scan(ErrorStep, ErrorStart, r)>>,
       <<"unchanged_state", "no_progress", Scan(UnchangedStep, UnchangedStart, n)>>,
       <<"acceptance_stall", "no_progress", Scan(StallStep, StallStart, n)>>,
       <<"budget_burn", "budget", Scan(BurnStep, BurnStart, n)>>}

ReasonByClass ==
  [repetition |-> "repetition_detected", no_progress |-> "no_progress_detected",
   risk |-> "risk_detected", budget |-> "budget_limit_reached"]

\* The matched findings of the six detectors; nothing later reads the others.
DetectorFindings(trace, policy) ==
  {Finding(m[1], m[2], ReasonByClass[m[2]], m[3]) :
     m \in {x \in Matches(trace, policy) : x[3] # {}}}
=============================================================================
