----------------------------- MODULE HardStops -----------------------------
(***************************************************************************)
(* The two hard stops of the controller, _hard_budget_finding and          *)
(* _hard_risk_finding.  Unlike the detectors they pass over the WHOLE      *)
(* trace, so a position of w is an event id.  RiskStep and LimitStep are   *)
(* the loop bodies at position p of trace w; an iteration after the return *)
(* leaves the state alone.                                                 *)
(*                                                                         *)
(* The rule automatic_unconfirmed_non_idempotent_repeat, which would       *)
(* excuse a non-idempotent repeat, does not appear: policy validation      *)
(* accepts only FALSE for it.                                              *)
(***************************************************************************)
EXTENDS TraceEvents

-----------------------------------------------------------------------------
(* Repeated risky calls.                                                   *)
(*   seen    identity -> the FIRST call that had it                        *)
(*   match   the two calls of the finding, {} for none                     *)

RiskStart == [seen |-> << >>, match |-> {}]

\* A call the pass can recognise again.
IsIdentifiedCall(e) == e.kind = "tool_call" /\ Identity(e) # None

IsRisky(e) == e.effect \in {"unknown", "non_idempotent_write"}

\* Mutant: only the effect the repeat declares counts.
RisksRepeatNow(previous, e) == IsRisky(e)

\* The effects of both calls count: a call declared harmless the second time
\* is still the call that was risky the first time.
RisksRepeat(previous, e) == IsRisky(previous) \/ IsRisky(e)

\* Mutant: the latest call of an identity replaces the first.
RememberLatest(seen, e, p) ==
  [i \in DOMAIN seen \cup {Identity(e)} |-> IF i = Identity(e) THEN p ELSE seen[i]]

\* Mutant: the position recorded is counted from zero.
RememberIndex(seen, e, p) ==
  [i \in DOMAIN seen \cup {Identity(e)} |-> IF i \in DOMAIN seen THEN seen[i] ELSE p - 1]

\* seen with a call at p; only an identity not seen before is added.
Remember(seen, e, p) ==
  [i \in DOMAIN seen \cup {Identity(e)} |-> IF i \in DOMAIN seen THEN seen[i] ELSE p]

RiskStep(s, w, p) ==
  IF s.match # {} \/ ~IsIdentifiedCall(w[p]) THEN s
  ELSE IF Identity(w[p]) \in DOMAIN s.seen /\ RisksRepeat(w[s.seen[Identity(w[p])]], w[p])
  THEN [seen |-> s.seen, match |-> {s.seen[Identity(w[p])], p}]
  ELSE [seen |-> Remember(s.seen, w[p], p), match |-> s.match]

-----------------------------------------------------------------------------
(* The whole-run budget: 0, or the position of the returned event.         *)

\* Some counter has reached its whole_run limit, whatever the event's kind.
ReachesLimit(e, limit) ==
  e.counters # None /\ \E c \in CounterNames : e.counters[c] >= limit[c]

\* Mutant: a later event at the limit replaces the first.
LimitStepLatest(s, w, p, limit) == IF ReachesLimit(w[p], limit) THEN p ELSE s

LimitStep(s, w, p, limit) == IF s = 0 /\ ReachesLimit(w[p], limit) THEN p ELSE s
=============================================================================
