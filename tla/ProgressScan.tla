---------------------------- MODULE ProgressScan ----------------------------
(***************************************************************************)
(* The progress pass over a window, one event per step.  Every window the  *)
(* alphabet can spell is reached, and in each state `progress` is what     *)
(* classify_progress has collected for exactly that window, so a property  *)
(* of (window, progress) is a property of the function on every window.    *)
(***************************************************************************)
EXTENDS Progress

CONSTANTS
  Alphabets,   \* sets of events; a run draws its window from one of them
  MaxWindow    \* bound on the length of the window

ASSUME WindowBound == MaxWindow \in Nat

\* An event is a record as Blank is one; a poll has a distance.
ASSUME EventAssumption ==
  \A a \in Alphabets : \A e \in a :
    /\ DOMAIN e = DOMAIN Blank
    /\ e.poll # None => e.poll.value \in Int /\ e.poll.target \in Int

VARIABLES
  alphabet,    \* the events this window is drawn from
  window,      \* the events passed over so far
  progress     \* the local state of the pass

vars == <<alphabet, window, progress>>

Init ==
  /\ alphabet \in Alphabets
  /\ window = << >>
  /\ progress = NoProgressYet

\* One iteration of the loop, on any next event.
Pass(e) ==
  /\ Len(window) < MaxWindow
  /\ window' = Record(window, e)
  /\ progress' = Classify(progress, window'[Len(window')])
  /\ UNCHANGED alphabet

Next == \E e \in alphabet : Pass(e)

Spec == Init /\ [][Next]_vars

-----------------------------------------------------------------------------
(* A reason defined without the pass: a pair of events of the window, the  *)
(* second of which is evidence against the first.                          *)

Positions(w) == 1 .. Len(w)

Before(j) == 1 .. (j - 1)

\* Two events that carry a marker disagree on it.
Differ(carried, value, other) == carried /\ value # None /\ other # None /\ value # other

IsError(e) == e.kind = "error"
IsElimination(e) == e.kind = "plan" /\ e.eliminated # {}
IsRequiredCheck(e) == e.kind = "acceptance_check" /\ e.required

\* The state known at position i: the last fingerprint up to it.
StateAt(w, i) ==
  LET known == {k \in 1 .. i : w[k].fp # None}
  IN  IF known = {} THEN None ELSE w[Max(known)].fp

\* The event brings something that none of its kind had before.
AddsRef(w, j) == \E ref \in w[j].refs : \A k \in Before(j) : ref \notin w[k].refs
Eliminates(w, j) ==
  \E h \in w[j].eliminated : \A k \in Before(j) : IsElimination(w[k]) => h \notin w[k].eliminated
DeepensStack(w, j) ==
  \E f \in w[j].frames : \A k \in Before(j) : IsError(w[k]) => f \notin w[k].frames

Witnessed(w, r, i, j) ==
  \/ /\ r = "expected_state_change_observed"
     /\ w[i].expects /\ StateAt(w, i) # None
     /\ IsFingerprintedObservation(w[j]) /\ w[j].fp # StateAt(w, i)
  \/ /\ r = "required_acceptance_verified"
     /\ IsRequiredCheck(w[i]) /\ IsRequiredCheck(w[j])
     /\ w[j].delta \notin {None, ""}
  \/ r = "evidence_added" /\ AddsRef(w, j)
  \/ /\ r = "hypothesis_eliminated"
     /\ IsElimination(w[i]) /\ IsElimination(w[j])
     /\ Eliminates(w, j)
  \/ /\ r = "stack_frame_added"
     /\ IsError(w[i]) /\ IsError(w[j])
     /\ DeepensStack(w, j)
  \/ /\ r = "error_changed"
     /\ Differ(IsError(w[i]) /\ IsError(w[j]), w[i].error, w[j].error)
  \/ /\ r = "pagination_advanced"
     /\ Differ(CarriesResult(w[i]) /\ CarriesResult(w[j]), w[i].cursor, w[j].cursor)
  \/ /\ r = "batch_item_changed"
     /\ Differ(CarriesResult(w[i]) /\ CarriesResult(w[j]), w[i].item, w[j].item)
  \/ /\ r = "hypothesis_input_changed"
     /\ TestsHypothesis(w[i]) /\ TestsHypothesis(w[j])
     /\ w[i].hypothesis[1] = w[j].hypothesis[1] /\ w[i].hypothesis # w[j].hypothesis
  \/ /\ r = "poll_converging"
     /\ IsPoll(w[i]) /\ IsPoll(w[j]) /\ PollKey(w[i]) = PollKey(w[j])
     /\ PollDistance(w[j]) < PollDistance(w[i])

HasWitness(w, r, j) ==
  IF r = "productive_handoff"
  THEN HandsOff(w[j])
  ELSE \E i \in Before(j) : Witnessed(w, r, i, j)

-----------------------------------------------------------------------------
(* Properties.                                                             *)

\* The local state keeps its shape; a found reason is one of the eleven and
\* names an event of the window.
TypeOK ==
  /\ alphabet \in Alphabets
  /\ Len(window) <= MaxWindow
  /\ DOMAIN progress = DOMAIN NoProgressYet
  /\ DOMAIN progress.found \subseteq ProgressReason
  /\ \A r \in DOMAIN progress.found : progress.found[r] \in Positions(window)
  /\ None \notin progress.cursors \cup progress.items \cup progress.errors
                   \cup progress.pending \cup progress.inputs

\* classify_progress finds a reason exactly when two events of the window
\* witness it.  The pass keeps summaries instead of events (a set of pending
\* baselines that is emptied on a change, one distance per poll, sets of what
\* was seen), and none of those summaries loses or invents a reason.
ReasonsAreWitnessed ==
  DOMAIN progress.found = {r \in ProgressReason : \E j \in Positions(window) : HasWitness(window, r, j)}

\* The supporting event of a reason is the first event that completes a
\* witness: later evidence never replaces it, and it is never the baseline, so
\* a first event establishes nothing but a productive handoff.
SupportIsEarliest ==
  \A r \in DOMAIN progress.found :
    /\ HasWitness(window, r, progress.found[r])
    /\ \A j \in Before(progress.found[r]) : ~HasWitness(window, r, j)

\* The module docstring says that the FIRST poll value of a poll/target pair
\* is the baseline that a converging poll must beat.
PollBaselineIsFirst ==
  "poll_converging" \in DOMAIN progress.found =>
    \E i, j \in Positions(window) :
      /\ Witnessed(window, "poll_converging", i, j)
      /\ \A k \in Before(i) : ~(IsPoll(window[k]) /\ PollKey(window[k]) = PollKey(window[i]))
=============================================================================
