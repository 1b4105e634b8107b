----------------------------- MODULE BudgetBurn -----------------------------
(***************************************************************************)
(* detect_budget_burn: cumulative counters rose since the baseline without *)
(* a reset and without progress.                                           *)
(*   baseline   position of the baseline budget event, 0 before the first  *)
(*   prior      position of the latest budget event, 0 before the first    *)
(*   match      the supporting events of the finding, {} for none          *)
(***************************************************************************)
EXTENDS Progress

BurnStart == [baseline |-> 0, prior |-> 0, match |-> {}]

IsBudget(e) == e.kind = "budget" /\ e.counters # None

\* Mutant: a reset is a decline of every counter.
IsFullReset(current, prior) == \A c \in CounterNames : current[c] < prior[c]

\* _is_reset: some counter declined.
IsReset(current, prior) == \E c \in CounterNames : current[c] < prior[c]

\* Mutant: every counter has to rise.
IsBurnOfAll(current, baseline) == \A c \in CounterNames : current[c] > baseline[c]

\* _is_burn_candidate
IsBurn(current, baseline) ==
  /\ \A c \in CounterNames : current[c] >= baseline[c]
  /\ \E c \in CounterNames : current[c] > baseline[c]

BurnStep(s, w, p) ==
  LET counters == w[p].counters
  IN  IF s.match # {} \/ ~IsBudget(w[p]) THEN s
      ELSE IF s.baseline = 0 \/ IsReset(counters, w[s.prior].counters)
      THEN [s EXCEPT !.baseline = p, !.prior = p]
      ELSE IF ~IsBurn(counters, w[s.baseline].counters) THEN [s EXCEPT !.prior = p]
      ELSE IF MadeProgress(SubSeq(w, s.baseline, p))
      THEN [s EXCEPT !.baseline = p, !.prior = p]
      ELSE [s EXCEPT !.prior = p, !.match = {w[s.baseline].id, w[p].id}]
=============================================================================
