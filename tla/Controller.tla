----------------------------- MODULE Controller -----------------------------
(***************************************************************************)
(* controller.analyze and the host that calls it.  The host reports events *)
(* and asks for a decision whenever it likes; analyze copies the trace,    *)
(* calls the injected semantic detector (the only code that is not its     *)
(* own, during which the host may report more), and answers from the copy  *)
(* with a decision envelope or an error.  It keeps nothing between calls.  *)
(*                                                                         *)
(* A policy is a record with the fields RecoveryPolicy names and           *)
(*   repetition_events, no_progress_events   the two detector windows      *)
(*   whole_run           the limits of the five counters                   *)
(*   weights             class -> weight, in halves                        *)
(*   semantic            "disabled", "optional" or "required"              *)
(*   semantic_weight     its weight, in halves                             *)
(*   repeatable          the effect classes that may be repeated           *)
(* The limits of the code (10,000 events, 1,000 evidence ids, 100 rejected *)
(* hypotheses) are the constants MaxItems, MaxEvidence and MaxRejected.    *)
(***************************************************************************)
EXTENDS Detectors, HardStops, RecoveryPolicy

CONSTANTS
  Scenarios,         \* records of a policy, the events its host reports and
                     \* the results its semantic detector may produce
  MaxItems, MaxEvidence, MaxRejected,
  MaxTrace           \* bound on the length of the trace

ASSUME LimitsAssumption == {MaxItems, MaxEvidence, MaxRejected, MaxTrace} \subseteq Nat
\* What validation demands of a policy; an event is a record as Blank is one;
\* a semantic finding of another class is malformed.
ASSUME PoliciesAreSafe ==
  \A s \in Scenarios :
    /\ DOMAIN s.policy = {"permitted", "host_action", "max_recovery_episodes",
         "repetition_events", "no_progress_events", "whole_run", "weights",
         "semantic", "semantic_weight", "repeatable"}
    /\ IsSafeLadder(s.policy)
    /\ {s.policy.repetition_events, s.policy.no_progress_events} \subseteq Nat \ {0}
    /\ s.policy.weights \in [FindingClass -> Nat] /\ s.policy.semantic_weight \in Nat
ASSUME EventsAssumption ==
  \A s \in Scenarios : \A e \in s.events : DOMAIN e = DOMAIN Blank
ASSUME ResultsAssumption ==
  \A s \in Scenarios : \A r \in s.results : r.status = "available" =>
    r.class \in {"repetition", "no_progress"} /\ IsFiniteSet(r.events)

\* An answer without an error has None for one.
ASSUME NoneIsNoCode ==
  None \notin {"empty_trace", "trace_item_limit", "required_detector_unavailable",
               "invalid_semantic_detector_finding", "duplicate_finding_id",
               "invalid_controller_assembly", "invalid_recovery_decision"}

VARIABLES
  scenario,     \* the policy, events and semantic results of this run
  trace,        \* what the host has reported
  pc,           \* "host", or "semantic" while the injected detector runs
  snapshot,     \* the copy of the trace the current or latest call works on
  answer        \* what the latest finished call answered, None before

vars == <<scenario, trace, pc, snapshot, answer>>

policy == scenario.policy

-----------------------------------------------------------------------------
(* The findings of one analysis.                                           *)

\* Mutant: the limits are checked on the detectors' window.
HardBudgetFindingInWindow(t, p) ==
  LET w == NoProgressWindow(t, p)
      limitAt == FoldLeftDomain(LAMBDA s, i : LimitStep(s, w, i, p.whole_run), 0, w)
  IN  {Finding("hard_budget", "budget", "budget_limit_reached", {w[i].id}) :
         i \in {n \in {limitAt} : n # 0}}

HardBudgetFinding(t, p) ==
  LET limitAt == FoldLeftDomain(LAMBDA s, i : LimitStep(s, t, i, p.whole_run), 0, t)
  IN  {Finding("hard_budget", "budget", "budget_limit_reached", {limitAt}) :
         i \in {n \in {limitAt} : n # 0}}

HardRiskFinding(t) ==
  LET match == Scan(RiskStep, RiskStart, t)
  IN  {Finding("repeated_risky_call", "risk", "risk_detected", match) :
         m \in {n \in {match} : n # {}}}

DeterministicFindings(t, p) ==
  DetectorFindings(t, p) \cup HardBudgetFinding(t, p) \cup HardRiskFinding(t)

\* A semantic result becomes a finding, a notice or an error, by its status:
\*   "missing"      no detector was injected
\*   "raises"       the detector raised
\*   "malformed"    its result is no finding of this run, or of another class
\*   "degraded", "unavailable"    its finding declares that availability
\*   "available"    it is a finding with the given class, reason and events,
\*                  which matched or not and whose id is one of ours or not
IsAvailable(r) == r.status = "available"

Notice(r) ==
  IF r.status \in {"raises", "degraded"} THEN "degraded"
  ELSE IF r.status \in {"missing", "unavailable"} THEN "unavailable"
  ELSE None

\* Mutant: any failure of the detector fails the analysis.
SemanticErrorOfAny(p, r) ==
  IF p.semantic = "disabled" \/ IsAvailable(r) THEN None
  ELSE "required_detector_unavailable"

SemanticError(p, r) ==
  IF p.semantic = "disabled" \/ IsAvailable(r) THEN None
  ELSE IF r.status = "malformed" THEN "invalid_semantic_detector_finding"
  ELSE IF p.semantic = "required" THEN "required_detector_unavailable"
  ELSE None

SemanticFinding(p, r) ==
  {Finding("semantic", x.class, x.reason, x.events) :
     x \in {y \in {r} : p.semantic # "disabled" /\ IsAvailable(r) /\ y.matched}}

DuplicatesId(p, r) == p.semantic # "disabled" /\ IsAvailable(r) /\ r.duplicate

-----------------------------------------------------------------------------
(* The answer.                                                             *)

\* Scores are counted in halves, so the product of a weight and score 1 is
\* the weight.
Weight(f, p) == IF f.id[1] = "semantic" THEN p.semantic_weight ELSE p.weights[f.class]

\* _weighted_contributions.
Weighted(findings, p) ==
  {[id |-> f.id, class |-> f.class, weighted_score |-> Weight(f, p)] : f \in findings}

ClassScore(class, findings, p) ==
  Max({0} \cup {Weight(f, p) : f \in {g \in findings : g.class = class}})

Confidence(decision, findings, p) ==
  IF decision = "stop" /\ {"risk", "budget"} \cap Observed(findings) # {} THEN 2
  ELSE Min({ClassScore("repetition", findings, p), ClassScore("no_progress", findings, p)})

Failure(code) == [error |-> code]

Envelope(t, findings, p, notice) ==
  LET diagnosis == Diagnose(t, findings)
      selection == Select(diagnosis, findings, p)
  IN  [error       |-> None,
       decision    |-> selection.decision,
       recovery    |-> selection.recovery,
       reasons     |-> selection.reasons,
       evidence    |-> selection.evidence,
       gaps        |-> diagnosis.causes,
       rejected    |-> diagnosis.rejected,
       notice      |-> notice,
       host_action |-> selection.host_action,
       allowed     |-> p.repeatable,
       confidence  |-> [score |-> Confidence(selection.decision, findings, p),
                        contributing |-> {f.id : f \in findings},
                        weighted     |-> Weighted(findings, p)]]

\* _envelope_source: exceeding a limit of the diagnosis or of the selection
\* fails the assembly, whatever would have been decided.
Assemble(t, findings, p, notice) ==
  IF /\ WithinLimits(Diagnose(t, findings), MaxEvidence, MaxRejected)
     /\ Cardinality(CollectedEvidence(Diagnose(t, findings), findings)) <= MaxEvidence
  THEN Envelope(t, findings, p, notice)
  ELSE Failure("invalid_controller_assembly")

\* analyze, after its inputs are copied: the semantic detector's error comes
\* first, then its finding joins the deterministic ones.
Answer(t, p, r) ==
  IF SemanticError(p, r) # None THEN Failure(SemanticError(p, r))
  ELSE IF DuplicatesId(p, r) THEN Failure("duplicate_finding_id")
  ELSE Assemble(t, DeterministicFindings(t, p) \cup SemanticFinding(p, r), p,
                IF p.semantic = "disabled" THEN None ELSE Notice(r))

-----------------------------------------------------------------------------
(* The steps.                                                              *)

Init ==
  /\ scenario \in Scenarios
  /\ trace = << >>
  /\ pc = "host"
  /\ snapshot = << >>
  /\ answer = None

\* The host reports an event, also while the semantic detector runs.
Report(e) ==
  /\ Len(trace) < MaxTrace
  /\ trace' = Record(trace, e)
  /\ UNCHANGED <<scenario, pc, snapshot, answer>>

\* _validated_inputs refuses an empty or an oversized trace.
Refuse ==
  /\ pc = "host"
  /\ Len(trace) \notin 1 .. MaxItems
  /\ snapshot' = trace
  /\ answer' = Failure(IF trace = << >> THEN "empty_trace" ELSE "trace_item_limit")
  /\ UNCHANGED <<scenario, trace, pc>>

\* The inputs are copied; the semantic detector is called with the copy.
Call ==
  /\ pc = "host"
  /\ Len(trace) \in 1 .. MaxItems
  /\ snapshot' = trace
  /\ pc' = "semantic"
  /\ UNCHANGED <<scenario, trace, answer>>

\* Mutant: the findings are computed from what the host has reported by now.
ReturnLive(r) ==
  /\ pc = "semantic"
  /\ answer' = Answer(trace, policy, r)
  /\ pc' = "host"
  /\ UNCHANGED <<scenario, trace, snapshot>>

\* The detector is done with result r, and analyze runs to its end.
Return(r) ==
  /\ pc = "semantic"
  /\ answer' = Answer(snapshot, policy, r)
  /\ pc' = "host"
  /\ UNCHANGED <<scenario, trace, snapshot>>

Next ==
  \/ \E e \in scenario.events : Report(e)
  \/ Refuse
  \/ Call
  \/ \E r \in scenario.results : Return(r)

Spec == Init /\ [][Next]_vars

-----------------------------------------------------------------------------
(* What a decision has to answer to, defined on the trace itself.          *)

\* The latest answer is a decision, and it is the one about snapshot.
Decided == answer # None /\ answer.error = None
Concluded == pc = "host" /\ Decided

Interventions == {"nudge", "diagnose", "reheat", "restart"}

\* The events of a hard stop in t: a risky repeat, or a limit reached.
HardStopsOf(t) ==
  {{c[1], c[2]} : c \in
     {x \in (1 .. Len(t)) \X (1 .. Len(t)) :
        /\ x[1] < x[2]
        /\ t[x[1]].kind = "tool_call" /\ t[x[2]].kind = "tool_call"
        /\ Identity(t[x[1]]) # None /\ Identity(t[x[1]]) = Identity(t[x[2]])
        /\ IsRisky(t[x[1]]) \/ IsRisky(t[x[2]])}}
  \cup {{k} : k \in {x \in 1 .. Len(t) : ReachesLimit(t[x], policy.whole_run)}}

\* The two ends of a stretch that stood still: an observation met an
\* expectation unchanged, or a check repeated its delta.
StandsStill(i, j) ==
  /\ ~MadeProgress(SubSeq(snapshot, i, j))
  /\ \/ /\ IsFingerprintedObservation(snapshot[j])
        /\ snapshot[i].fp = snapshot[j].fp
        /\ \E k \in i .. j - 1 : snapshot[k].expects
     \/ /\ snapshot[i].kind = "acceptance_check" /\ snapshot[j].kind = "acceptance_check"
        /\ Identity(snapshot[i]) = Identity(snapshot[j])
        /\ snapshot[i].delta = snapshot[j].delta

\* Two events of one kind that show the same thing.
Repeats(i, j) ==
  /\ snapshot[i].kind = snapshot[j].kind
  /\ CASE snapshot[i].kind = "tool_call" -> Identity(snapshot[i]) = Identity(snapshot[j])
       [] snapshot[i].kind = "error" -> snapshot[i].error = snapshot[j].error
       [] snapshot[i].kind = "state_observation" -> snapshot[i].fp = snapshot[j].fp
       [] OTHER -> FALSE

Lookback(n) == {k \in 1 .. Len(snapshot) : k + n > Len(snapshot)}

Rank(decision) ==
  CHOOSE n \in 1 .. 7 :
    <<"continue", "nudge", "diagnose", "reheat", "restart", "escalate", "stop">>[n] = decision

\* What the findings of the semantic detector cite.
SemanticEvents ==
  IF policy.semantic = "disabled" THEN {}
  ELSE UNION {r.events : r \in {x \in scenario.results : IsAvailable(x)}}

\* The answer had there been no semantic detector.
DeterministicAnswer == Answer(snapshot, [policy EXCEPT !.semantic = "disabled"], [status |-> "missing"])

-----------------------------------------------------------------------------
(* Properties.                                                             *)

TypeOK ==
  /\ scenario \in Scenarios
  /\ pc \in {"host", "semantic"}
  /\ Len(trace) <= MaxTrace /\ Len(snapshot) <= Len(trace)

\* An answer speaks of the trace that was copied when it was asked for, whatever
\* the host reports while the semantic detector runs or after: the copy is what
\* the trace began with, and a decision cites events of the copy only, and what a
\* semantic finding cites, which nobody looks up in the trace.
AnswerSpeaksOfCopy ==
  /\ TypeOK
  /\ snapshot = SubSeq(trace, 1, Len(snapshot))
  /\ Concluded =>
       /\ answer.decision \in Decision
       /\ answer.evidence \subseteq (1 .. Len(snapshot)) \cup SemanticEvents
       /\ Cardinality(answer.evidence) <= MaxEvidence

\* Whenever the whole trace holds a hard stop, however long ago, a decision is
\* a stop of full confidence that cites the events of a hard stop: no policy
\* ladder, cause marker, detector window or semantic result changes that.
HardStopDominates ==
  Concluded /\ HardStopsOf(snapshot) # {} =>
    /\ answer.decision = "stop"
    /\ answer.confidence.score = 2
    /\ \E events \in HardStopsOf(snapshot) : events \subseteq answer.evidence

\* Without a semantic detector an intervention cites both a repetition within
\* the repetition window and a stretch without progress within the
\* no-progress window.
InterventionIsGrounded ==
  Concluded /\ policy.semantic = "disabled" /\ answer.decision \in Interventions =>
    /\ \E i, j \in Lookback(policy.repetition_events) \cap answer.evidence :
         i < j /\ Repeats(i, j)
    /\ \E i, j \in Lookback(policy.no_progress_events) \cap answer.evidence :
         i < j /\ StandsStill(i, j)

\* A semantic finding can only make the response stronger: what the
\* deterministic detectors alone lead to is a lower bound.
SemanticOnlyRaises ==
  Concluded /\ policy.semantic # "disabled" =>
    Rank(answer.decision) >= Rank(DeterministicAnswer.decision)

\* An optional detector that is missing, raises, or declares itself degraded
\* or unavailable leaves a notice and otherwise the deterministic answer.
DegradationIsHarmless ==
  pc = "semantic" /\ policy.semantic = "optional" =>
    \A r \in {x \in scenario.results : Notice(x) # None} :
      LET a == Answer(snapshot, policy, r)
      IN  IF a.error # None THEN a = DeterministicAnswer
          ELSE a.notice = Notice(r) /\ [a EXCEPT !.notice = None] = DeterministicAnswer

\* Once a decision rests on a hard stop, the next decision rests on the same
\* one, although the detector windows have moved on: reporting more events
\* never talks the controller out of a stop.
HardFindings(a) == {id \in a.confidence.contributing : id[1] \in {"hard_budget", "repeated_risky_call"}}
HardStopPersists ==
  [][Decided /\ HardFindings(answer) # {} /\ answer' # answer =>
       \/ answer'.error # None
       \/ answer'.decision = "stop" /\ HardFindings(answer) \subseteq HardFindings(answer')]_vars

-----------------------------------------------------------------------------
(* What the repository says of analyze.                                    *)

\* docs/detectors.md: a hard risk or hard budget finding produces a stop
\* before an optional recommendation can matter.
HardStopPrecedesOptional ==
  pc = "host" /\ Len(snapshot) \in 1 .. MaxItems /\ answer # None
    /\ policy.semantic = "optional" /\ HardStopsOf(snapshot) # {} =>
    answer.error = None /\ answer.decision = "stop"

\* The docstring of analyze: a different reheat decision id needs independent
\* detector support ids.  The id is a digest of the answer.
ReheatIdNeedsNewSupport ==
  [][/\ Decided /\ answer.decision = "reheat"
     /\ answer'.error = None /\ answer'.decision = "reheat" /\ answer' # answer
     => answer'.confidence.contributing # answer.confidence.contributing]_vars
=============================================================================
