---------------------------- MODULE HardStopScan ----------------------------
(***************************************************************************)
(* The two hard-stop passes over a growing trace, one event per step: in   *)
(* every state each pass has evaluated exactly `trace`.                    *)
(***************************************************************************)
EXTENDS HardStops

CONSTANTS
  Event,       \* the events a trace is made of
  WholeRun,    \* policy.budgets.whole_run, a function on CounterNames
  MaxTrace     \* bound on the length of the trace

ASSUME TraceBound == MaxTrace \in Nat

VARIABLES
  trace,       \* the events reported so far
  risk,        \* local state of _hard_risk_finding
  limitAt      \* result of _hard_budget_finding

vars == <<trace, risk, limitAt>>

Init ==
  /\ trace = << >>
  /\ risk = RiskStart
  /\ limitAt = 0

Pass(e) ==
  /\ Len(trace) < MaxTrace
  /\ trace' = Append(trace, e)
  /\ risk' = RiskStep(risk, trace', Len(trace'))
  /\ limitAt' = LimitStep(limitAt, trace', Len(trace'), WholeRun)

Next == \E e \in Event : Pass(e)

Spec == Init /\ [][Next]_vars

-----------------------------------------------------------------------------
(* The hard stops of a trace, defined on pairs of events.                  *)

Positions == 1 .. Len(trace)

SameCall(i, j) ==
  /\ IsIdentifiedCall(trace[i]) /\ IsIdentifiedCall(trace[j])
  /\ Identity(trace[i]) = Identity(trace[j])

\* One action was called at i and again at j, risky at either time.
RiskyRepeat(i, j) ==
  /\ i < j
  /\ SameCall(i, j)
  /\ IsRisky(trace[i]) \/ IsRisky(trace[j])

-----------------------------------------------------------------------------
(* Properties.                                                             *)

\* What a pass remembers and returns are positions of the trace; a finding
\* names two calls.
TypeOK ==
  /\ trace \in Seq(Event)
  /\ DOMAIN risk = {"seen", "match"}
  /\ \A i \in DOMAIN risk.seen : risk.seen[i] \in Positions
  /\ risk.match # {} => \E i, j \in Positions : i < j /\ risk.match = {i, j}
  /\ limitAt \in Positions \cup {0}

\* The controller reports a risk exactly when some action was called twice and
\* one of ALL its calls is unsafe to repeat.  The pass compares each call with
\* the first call of its identity only, and still misses no pair of later ones.
RiskIsComplete ==
  (\E i, j \in Positions : RiskyRepeat(i, j)) <=> risk.match # {}

\* The reported pair is the repeat that was reached first, with the first call
\* of its identity: the finding a later analysis of a longer trace reports is
\* the same one, so its finding id is too.
RiskIsEarliest ==
  risk.match # {} =>
    \E i, j \in Positions :
      /\ risk.match = {i, j}
      /\ RiskyRepeat(i, j)
      /\ \A k \in 1 .. i - 1 : ~SameCall(k, j)
      /\ \A k \in 1 .. j - 1, l \in 1 .. j - 1 : ~RiskyRepeat(k, l)

\* The budget stop names the first event of the whole trace whose counters
\* reach a limit, also when the counters are lower again later.
LimitIsEarliest ==
  IF limitAt = 0
  THEN \A k \in Positions : ~ReachesLimit(trace[k], WholeRun)
  ELSE /\ ReachesLimit(trace[limitAt], WholeRun)
       /\ \A k \in 1 .. limitAt - 1 : ~ReachesLimit(trace[k], WholeRun)
=============================================================================
