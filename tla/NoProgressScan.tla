--------------------------- MODULE NoProgressScan ---------------------------
(***************************************************************************)
(* The detectors of the no-progress class and the budget detector over one *)
(* growing window, one event per step: in every state each detector has    *)
(* evaluated exactly `window`.                                             *)
(***************************************************************************)
EXTENDS UnchangedState, AcceptanceStall, BudgetBurn

CONSTANTS
  Alphabets,   \* sets of events; a run draws its window from one of them
  MaxWindow    \* bound on the length of the window

ASSUME WindowBound == MaxWindow \in Nat

\* An event is a record as Blank is one, its counters are all there when they
\* are, and None is no pair of a fingerprint and a position.
ASSUME EventAssumption ==
  /\ \A a \in Alphabets : \A e \in a :
       /\ DOMAIN e = DOMAIN Blank
       /\ e.counters = None \/ e.counters \in [CounterNames -> Nat]
       /\ \A p \in 1 .. MaxWindow : None # <<e.fp, p>>

VARIABLES alphabet, window, unchanged, stall, burn

vars == <<alphabet, window, unchanged, stall, burn>>

Init ==
  /\ alphabet \in Alphabets
  /\ window = << >>
  /\ unchanged = UnchangedStart
  /\ stall = StallStart
  /\ burn = BurnStart

\* Each detector's loop passes the next event.
Pass(e) ==
  /\ Len(window) < MaxWindow
  /\ window' = Record(window, e)
  /\ unchanged' = UnchangedStep(unchanged, window', Len(window'))
  /\ stall' = StallStep(stall, window', Len(window'))
  /\ burn' = BurnStep(burn, window', Len(window'))
  /\ UNCHANGED alphabet

Next == \E e \in alphabet : Pass(e)

Spec == Init /\ [][Next]_vars

-----------------------------------------------------------------------------
(* What counts as standing still, defined without the detectors.           *)

Positions(w) == 1 .. Len(w)
NoProgress(w, from, to) == ~MadeProgress(SubSeq(w, from, to))
Decides(match, findings) == IF findings = {} THEN match = {} ELSE match \in findings

\* The position whose fingerprint is the state known at e, 0 for none.
StateFrom(w, e) == LET known == {k \in 1 .. e : w[k].fp # None}
                   IN  IF known = {} THEN 0 ELSE Max(known)

\* The expectations that started from a state and are still open after the
\* first n events: no observation followed.
OpenExpectations(w, state, n) ==
  {e \in 1 .. n :
     /\ w[e].expects
     /\ StateFrom(w, e) # 0 /\ w[StateFrom(w, e)].fp = state
     /\ \A k \in e + 1 .. n : ~IsFingerprintedObservation(w[k])}

\* The oldest expectation open at an observation of the state it started from.
UnmetExpectations(w) ==
  {{StateFrom(w, c[1]), c[1], c[2]} : c \in
     {x \in Positions(w) \X Positions(w) :
        LET open == OpenExpectations(w, w[x[2]].fp, x[2] - 1)
        IN  /\ IsFingerprintedObservation(w[x[2]])
            /\ open # {} /\ x[1] = Min(open)
            /\ NoProgress(w, StateFrom(w, x[1]), x[2])}}

SameCheck(w, i, j) ==
  /\ IsComparableCheck(w[i]) /\ IsComparableCheck(w[j])
  /\ Identity(w[i]) = Identity(w[j])

\* Two consecutive checks of one identity with one delta.
Stalls(w) ==
  {{c[1], c[2]} : c \in
     {x \in Positions(w) \X Positions(w) :
        /\ x[1] < x[2] /\ SameCheck(w, x[1], x[2])
        /\ w[x[1]].delta = w[x[2]].delta
        /\ \A k \in x[1] + 1 .. x[2] - 1 : ~SameCheck(w, x[1], k)
        /\ NoProgress(w, x[1], x[2])}}

\* Two budget events of one cumulative run (no counter declined between
\* consecutive budget events) with a rise and no progress.
Budgets(w) == {k \in Positions(w) : IsBudget(w[k])}
SameCumulativeRun(w, i, j) ==
  \A k, l \in {n \in Budgets(w) : i <= n /\ n <= j} :
    k <= l => \A c \in CounterNames : w[k].counters[c] <= w[l].counters[c]
Burns(w) ==
  {{c[1], c[2]} : c \in
     {x \in Budgets(w) \X Budgets(w) :
        /\ x[1] < x[2] /\ SameCumulativeRun(w, x[1], x[2])
        /\ \E c \in CounterNames : w[x[1]].counters[c] < w[x[2]].counters[c]
        /\ NoProgress(w, x[1], x[2])}}

\* No stretch of the window shows progress.  The whole window is not enough: a
\* stretch that starts later has forgotten some evidence, stack frames and
\* eliminated hypotheses, and takes them for new ones.
ProgressFree(w) == \A i \in Positions(w) : NoProgress(w, i, Len(w))

-----------------------------------------------------------------------------
(* Properties.                                                             *)

\* Every detector state is the one of its loop over this window.
TypeOK ==
  /\ alphabet \in Alphabets
  /\ Len(window) <= MaxWindow
  /\ unchanged.latest # None => unchanged.latest[2] \in Positions(window)
  /\ \A f \in DOMAIN unchanged.pending : unchanged.pending[f] \in Positions(window) \X Positions(window)
  /\ \A i \in DOMAIN stall.baselines : stall.baselines[i][2] \in Positions(window)
  /\ {burn.baseline, burn.prior} \subseteq Budgets(window) \cup {0}
  /\ unchanged.match \cup stall.match \cup burn.match \subseteq Positions(window)

\* unchanged_state matches exactly when the first fingerprinted observation
\* after an expectation shows the state the oldest open expectation started
\* from, and nothing since that baseline is progress.
UnchangedStateDecides == Decides(unchanged.match, UnmetExpectations(window))

\* acceptance_stall only ever reports two consecutive checks of one identity
\* with one delta and no progress between them, although a baseline may be
\* older than the latest check of another identity.
StallIsGenuine == stall.match \in Stalls(window) \cup {{}}

\* Dropping every baseline when one check progressed can lose a stall of
\* another identity, and nothing else can: with one check identity, or in a
\* window without progress, no stall is missed.
StallIsComplete ==
  \/ \E i, j \in Positions(window) :
       /\ IsComparableCheck(window[i]) /\ IsComparableCheck(window[j])
       /\ Identity(window[i]) # Identity(window[j])
       /\ ~ProgressFree(window)
  \/ Decides(stall.match, Stalls(window))

\* budget_burn never compares counters across a reset, of any one counter,
\* and never across progress.
BurnIsGenuine == burn.match \in Burns(window) \cup {{}}

\* In a window without progress every rise of the cumulative counters is
\* reported, wherever the resets fall.
BurnIsComplete == ProgressFree(window) => Decides(burn.match, Burns(window))
=============================================================================
