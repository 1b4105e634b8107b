------------------------------ MODULE Progress ------------------------------
(***************************************************************************)
(* progress.classify_progress: one pass over a contiguous window that      *)
(* collects the reasons, out of eleven, why the window shows progress.     *)
(* The pass is the operator Classify, one event at a time, so that the     *)
(* detectors can fold it over any sub-window; the specification below runs *)
(* it over a growing window.                                               *)
(***************************************************************************)
EXTENDS TraceEvents, Integers, FiniteSets, SequencesExt

ProgressReason ==
  {"pagination_advanced", "batch_item_changed", "hypothesis_input_changed",
   "error_changed", "stack_frame_added", "evidence_added",
   "hypothesis_eliminated", "required_acceptance_verified",
   "productive_handoff", "expected_state_change_observed", "poll_converging"}

\* What the pass remembers.  found maps each reason to the event that
\* established it, the first one to do so.
NoProgressYet ==
  [cursors |-> {}, items |-> {}, inputs |-> {}, errors |-> {}, frames |-> {},
   errorSeen |-> FALSE, refs |-> {}, hypotheses |-> {}, planSeen |-> FALSE,
   requiredSeen |-> FALSE, priorEvent |-> FALSE, lastFp |-> None,
   pending |-> {}, polls |-> << >>, found |-> << >>]

-----------------------------------------------------------------------------
(* Which later evidence establishes a reason.                              *)

\* Mutant: an observation of one pending baseline hides a change from another.
ObservesNoBaseline(s, e) ==
  IsFingerprintedObservation(e) /\ s.pending # {} /\ e.fp \notin s.pending

\* _PendingStateExpectations.observe: the observation differs from some
\* pending baseline (more than one pending, or the only one is another).
ObservesChange(s, e) ==
  /\ IsFingerprintedObservation(e)
  /\ \E baseline \in s.pending : baseline # e.fp

VerifiesAcceptance(s, e) ==
  /\ e.kind = "acceptance_check" /\ e.required
  /\ s.requiredSeen
  /\ e.delta \notin {None, ""}

HandsOff(e) == e.kind = "handoff" /\ e.productive

AddsEvidence(s, e) == s.priorEvent /\ ~(e.refs \subseteq s.refs)

EliminatesHypothesis(s, e) ==
  e.kind = "plan" /\ s.planSeen /\ ~(e.eliminated \subseteq s.hypotheses)

ChangesError(s, e) ==
  e.kind = "error" /\ e.error # None /\ s.errors # {} /\ e.error \notin s.errors

AddsFrame(s, e) ==
  e.kind = "error" /\ s.errorSeen /\ ~(e.frames \subseteq s.frames)

CarriesResult(e) == e.kind \in {"tool_result", "state_observation"}

AdvancesPage(s, e) ==
  CarriesResult(e) /\ e.cursor # None /\ s.cursors # {} /\ e.cursor \notin s.cursors

ChangesItem(s, e) ==
  CarriesResult(e) /\ e.item # None /\ s.items # {} /\ e.item \notin s.items

IsPoll(e) == e.kind = "state_observation" /\ e.poll # None
PollKey(e) == <<e.poll.id, e.poll.target>>
PollDistance(e) ==
  IF e.poll.value < e.poll.target
  THEN e.poll.target - e.poll.value
  ELSE e.poll.value - e.poll.target

\* The baseline of a poll is the latest distance recorded for its key.
ConvergesFrom(polls, e) ==
  /\ IsPoll(e)
  /\ PollKey(e) \in DOMAIN polls
  /\ PollDistance(e) < polls[PollKey(e)]

TestsHypothesis(e) == e.kind = "tool_call" /\ e.hypothesis # None

\* A hypothesis marker is a pair of the hypothesis and its test input.
ChangesInput(s, e) ==
  /\ TestsHypothesis(e)
  /\ \E prior \in s.inputs : prior[1] = e.hypothesis[1]
  /\ e.hypothesis \notin s.inputs

Established(s, e) ==
  {r \in ProgressReason :
     \/ r = "expected_state_change_observed" /\ ObservesChange(s, e)
     \/ r = "required_acceptance_verified" /\ VerifiesAcceptance(s, e)
     \/ r = "productive_handoff" /\ HandsOff(e)
     \/ r = "evidence_added" /\ AddsEvidence(s, e)
     \/ r = "hypothesis_eliminated" /\ EliminatesHypothesis(s, e)
     \/ r = "error_changed" /\ ChangesError(s, e)
     \/ r = "stack_frame_added" /\ AddsFrame(s, e)
     \/ r = "pagination_advanced" /\ AdvancesPage(s, e)
     \/ r = "batch_item_changed" /\ ChangesItem(s, e)
     \/ r = "poll_converging" /\ ConvergesFrom(s.polls, e)
     \/ r = "hypothesis_input_changed" /\ ChangesInput(s, e)}

-----------------------------------------------------------------------------
(* What the pass remembers of the event.                                   *)

\* The state an expectation is measured against: the event's own
\* fingerprint, or the latest one before it.
ExpectationBaseline(s, e) == IF e.fp # None THEN e.fp ELSE s.lastFp

\* A change consumes every pending baseline; the event's own expectation is
\* added after that.
PendingAfter(s, e) ==
  (IF ObservesChange(s, e) THEN {} ELSE s.pending)
    \cup {b \in {ExpectationBaseline(s, e)} : e.expects /\ b # None}

PollsAfter(s, e) ==
  IF IsPoll(e)
  THEN [k \in DOMAIN s.polls \cup {PollKey(e)} |->
          IF k = PollKey(e) THEN PollDistance(e) ELSE s.polls[k]]
  ELSE s.polls

\* Mutant: an absent marker is remembered as a value.
PresentOrAbsent(condition, value) == {v \in {value} : condition}

Present(condition, value) == {v \in {value} : condition /\ v # None}

\* Mutant: later evidence replaces the support of a reason.
FoundLatest(s, e) ==
  [r \in DOMAIN s.found \cup Established(s, e) |->
     IF r \in Established(s, e) THEN e.id ELSE s.found[r]]

FoundAfter(s, e) ==
  [r \in DOMAIN s.found \cup Established(s, e) |->
     IF r \in DOMAIN s.found THEN s.found[r] ELSE e.id]

\* The loop body of classify_progress.
Classify(s, e) ==
  [cursors      |-> s.cursors \cup Present(CarriesResult(e), e.cursor),
   items        |-> s.items \cup Present(CarriesResult(e), e.item),
   inputs       |-> s.inputs \cup Present(TestsHypothesis(e), e.hypothesis),
   errors       |-> s.errors \cup Present(e.kind = "error", e.error),
   frames       |-> s.frames \cup (IF e.kind = "error" THEN e.frames ELSE {}),
   errorSeen    |-> s.errorSeen \/ e.kind = "error",
   refs         |-> s.refs \cup e.refs,
   hypotheses   |-> s.hypotheses \cup (IF e.kind = "plan" THEN e.eliminated ELSE {}),
   planSeen     |-> s.planSeen \/ (e.kind = "plan" /\ e.eliminated # {}),
   requiredSeen |-> s.requiredSeen \/ (e.kind = "acceptance_check" /\ e.required),
   priorEvent   |-> TRUE,
   lastFp       |-> IF e.fp # None THEN e.fp ELSE s.lastFp,
   pending      |-> PendingAfter(s, e),
   polls        |-> PollsAfter(s, e),
   found        |-> FoundAfter(s, e)]

\* classify_progress(window).made_progress
MadeProgress(window) ==
  DOMAIN FoldLeft(Classify, NoProgressYet, window).found # {}
=============================================================================
