---------------------------- MODULE MCController ----------------------------
(***************************************************************************)
(* Policies and the events their hosts report.  Two Stuck events and an    *)
(* observation of the same state are a repeated error and an unmet         *)
(* expectation: three events that pass the reheat gate.                    *)
(***************************************************************************)
EXTENDS ControllerRecords

Spent(turns) == [c \in CounterNames |-> IF c = "turns" THEN turns ELSE 0]

Policy(permitted, semantic) ==
  [repetition_events |-> 3, no_progress_events |-> 3, whole_run |-> [c \in CounterNames |-> 2],
   permitted |-> permitted \cup {"escalate", "stop"}, host_action |-> {"restart", "escalate"},
   max_recovery_episodes |-> 1,
   weights |-> [class \in FindingClass |-> 1], semantic |-> semantic, semantic_weight |-> 2,
   repeatable |-> {"read_only", "idempotent_write"}]

AllStages == {"nudge", "diagnose", "reheat", "restart"}

Stuck == [Blank EXCEPT !.kind = "error", !.error = "x", !.fp = "s", !.expects = TRUE]
Observe(s) == [Blank EXCEPT !.kind = "state_observation", !.fp = s]
CallWith(effect) ==
  [Blank EXCEPT !.kind = "tool_call", !.source = "payload_digest", !.action = "a", !.effect = effect]
Budget(turns) == [Blank EXCEPT !.kind = "budget", !.counters = Spent(turns)]
Plan(cause, hs) == [Blank EXCEPT !.kind = "plan", !.marker = cause, !.eliminated = hs]

RiskEvents ==
  {Stuck, Observe("s"), [CallWith("read_only") EXCEPT !.fp = "s", !.expects = TRUE],
   CallWith("unknown")}
BudgetEvents == {Stuck, Observe("s"), Budget(1), Budget(2)}
StallEvents == {Stuck, Observe("s"), Plan("incorrect_plan", {"h"})}
CauseEvents ==
  {Stuck, Observe("s"), Plan("missing_knowledge", {"h"}), Plan("missing_authority", {"h", "k"})}

\* A semantic finding cites the first event, or one the trace does not hold.
SemanticMatch(class, reason, duplicate) ==
  [status |-> "available", class |-> class, reason |-> reason,
   events |-> IF class = "repetition" THEN {1} ELSE {0},
   matched |-> TRUE, duplicate |-> duplicate]
Statuses(names) == {[status |-> name] : name \in names}

Failures == Statuses({"missing", "raises", "malformed", "degraded"})
Findings ==
  {SemanticMatch("repetition", "repetition_detected", FALSE),
   SemanticMatch("no_progress", "no_progress_detected", FALSE),
   SemanticMatch("repetition", "risk_detected", FALSE),
   SemanticMatch("repetition", "repetition_detected", TRUE)}

Scenario(policy_, events, results) == [policy |-> policy_, events |-> events, results |-> results]

MCScenarios ==
  {Scenario(Policy(AllStages, "optional"), RiskEvents, Failures \cup Findings),
   Scenario(Policy({"reheat"}, "required"), CauseEvents, Statuses({"raises"}) \cup Findings),
   Scenario(Policy(AllStages, "disabled"), BudgetEvents, Statuses({"missing"})),
   Scenario(Policy({}, "disabled"), BudgetEvents, Statuses({"missing"})),
   Scenario(Policy({"reheat"}, "disabled"), CauseEvents, Statuses({"missing"})),
   Scenario([Policy({"reheat"}, "disabled") EXCEPT !.weights["repetition"] = 0, !.host_action = {"reheat", "restart", "escalate"}],
            StallEvents, Statuses({"missing"})),
   Scenario([Policy({"reheat"}, "disabled") EXCEPT !.repeatable = {"idempotent_write"}],
            StallEvents, Statuses({"missing"})),
   Scenario([Policy({"reheat"}, "disabled") EXCEPT !.host_action = {"reheat", "restart", "escalate"}],
            StallEvents, Statuses({"missing"}))}

OptionalScenario ==
  {Scenario(Policy(AllStages, "optional"), RiskEvents, Failures \cup Findings)}
ReheatScenario ==
  {Scenario([Policy({"reheat"}, "disabled") EXCEPT !.repetition_events = 4, !.no_progress_events = 4],
            CauseEvents, Statuses({"missing"}))}
=============================================================================
