--------------------------- MODULE ProgressProofs ---------------------------
(***************************************************************************)
(* Proofs about the progress pass, for windows of any length over any      *)
(* events.  The pass keeps sets, one distance per poll and a set of open   *)
(* baselines; the invariant says which events of the window each of them   *)
(* stands for, those of a reason only as long as it was not found.         *)
(***************************************************************************)
EXTENDS ProgressScan, SequenceTheorems, WellFoundedInduction, TLAPS

-----------------------------------------------------------------------------
(* The window.                                                             *)

Recordings == {[e EXCEPT !.id = p] : e \in UNION Alphabets, p \in 1 .. MaxWindow}

\* Every event of the window has its position for an id.
Recorded ==
  /\ alphabet \in Alphabets
  /\ window \in Seq(Recordings)
  /\ Len(window) <= MaxWindow
  /\ \A p \in 1 .. Len(window) : window[p].id = p

\* The events passed keep their positions, and the new one is last.
LEMMA PassAppends ==
  ASSUME Recorded, NEW e \in alphabet, Pass(e)
  PROVE  /\ Recorded'
         /\ Len(window) \in Nat /\ Len(window') = Len(window) + 1
         /\ \A p \in 1 .. Len(window) : window'[p] = window[p]
<1> DEFINE n == Len(window)
           new == [e EXCEPT !.id = n + 1]
<1>1. n \in Nat /\ n + 1 \in 1 .. MaxWindow
  BY WindowBound DEF Recorded, Pass
<1>2. e \in UNION Alphabets /\ DOMAIN e = DOMAIN Blank
  BY EventAssumption DEF Recorded
<1>3. new \in Recordings
  BY <1>1, <1>2 DEF Recordings
<1>4. new.id = n + 1
  BY <1>2 DEF Blank
<1>5. window' = Append(window, new)
  BY DEF Pass, Record
<1> HIDE DEF new
<1>6. /\ window' \in Seq(Recordings) /\ Len(window') = n + 1
      /\ \A p \in 1 .. n : window'[p] = window[p]
      /\ window'[n + 1] = new
  BY <1>3, <1>5 DEF Recorded
<1>7. \A p \in 1 .. Len(window') : window'[p].id = p
  BY <1>1, <1>4, <1>6 DEF Recorded
<1>8. QED
  BY <1>1, <1>6, <1>7 DEF Recorded, Pass

\* What the pass may assume of a window.
Usable(w) ==
  /\ Len(w) \in Nat
  /\ \A p \in 1 .. Len(w) :
       /\ w[p].id = p
       /\ w[p].poll # None => w[p].poll.value \in Int /\ w[p].poll.target \in Int

LEMMA RecordedIsUsable ==
  ASSUME NEW w \in Seq(Recordings), Len(w) <= MaxWindow, \A p \in 1 .. Len(w) : w[p].id = p
  PROVE  Usable(w)
<1>1. Len(w) \in Nat
  OBVIOUS
<1>2. ASSUME NEW p \in 1 .. Len(w)
      PROVE  /\ w[p].id = p
             /\ w[p].poll # None => w[p].poll.value \in Int /\ w[p].poll.target \in Int
  <2>1. w[p] \in Recordings /\ w[p].id = p
    OBVIOUS
  <2>2. PICK e \in UNION Alphabets, q \in 1 .. MaxWindow : w[p] = [e EXCEPT !.id = q]
    BY <2>1 DEF Recordings
  <2>3. /\ e.poll # None => e.poll.value \in Int /\ e.poll.target \in Int
        /\ "poll" \in DOMAIN e
    BY EventAssumption DEF Blank
  <2>4. w[p].poll = e.poll
    BY <2>2, <2>3
  <2>5. QED
    BY <2>1, <2>3, <2>4
<1>3. QED
  BY <1>1, <1>2 DEF Usable

-----------------------------------------------------------------------------
(* The state known at a position.                                          *)

\* The order of the naturals is well-founded.
LEMMA LeastExists ==
  ASSUME NEW T \in SUBSET Nat, T # {}
  PROVE  \E m \in T : \A k \in T : m <= k
<1> DEFINE R == OpToRel(<, Nat)
<1>1. IsWellFoundedOn(R, Nat)
  BY NatLessThanWellFounded
<1>2. \A x, y \in Nat : <<y, x>> \in R <=> y < x
  BY DEF OpToRel
<1> HIDE DEF R
<1>3. PICK m \in T : \A k \in T : ~(<<k, m>> \in R)
  BY <1>1, WFMin
<1>4. ASSUME NEW k \in T
      PROVE  m <= k
  <2>1. ~(k < m) /\ k \in Nat /\ m \in Nat
    BY <1>2, <1>3
  <2>2. QED
    BY <2>1
<1>5. QED
  BY <1>4

LEMMA GreatestExists ==
  ASSUME NEW n \in Nat, NEW T \in SUBSET (1 .. n), T # {}
  PROVE  \E m \in T : \A k \in T : k <= m
<1> DEFINE U == {n - k : k \in T}
<1>1. U \in SUBSET Nat /\ U # {}
  <2>1. \A k \in T : n - k \in Nat
    OBVIOUS
  <2>2. PICK k \in T : TRUE
    OBVIOUS
  <2>3. n - k \in U
    BY <2>2
  <2>4. QED
    BY <2>1, <2>3
<1>2. PICK u \in U : \A v \in U : u <= v
  <2> HIDE DEF U
  <2>1. QED
    BY <1>1, LeastExists
<1>3. PICK m \in T : u = n - m
  BY <1>2
<1>4. ASSUME NEW k \in T
      PROVE  k <= m
  <2>1. n - k \in U
    OBVIOUS
  <2>2. n - m <= n - k
    BY <1>2, <1>3, <2>1
  <2>3. QED
    BY <2>2
<1>5. QED
  BY <1>4

\* Max of the community modules, where there is one.
LEMMA MaxIs ==
  ASSUME NEW n \in Nat, NEW T \in SUBSET (1 .. n), T # {}
  PROVE  Max(T) \in T /\ \A k \in T : k <= Max(T)
<1>1. \E m \in T : \A k \in T : k <= m
  BY GreatestExists
<1>2. \E m \in T : \A k \in T : m >= k
  BY <1>1
<1>3. QED
  BY <1>2 DEF Max

\* The state known at a position is the last fingerprint up to it.
LEMMA StateAtIs ==
  ASSUME NEW w, NEW e \in Nat
  PROVE  \/ StateAt(w, e) = None /\ \A i \in 1 .. e : w[i].fp = None
         \/ \E k \in 1 .. e : /\ w[k].fp # None /\ StateAt(w, e) = w[k].fp
                            /\ \A i \in k + 1 .. e : w[i].fp = None
<1> DEFINE known == {k \in 1 .. e : w[k].fp # None}
<1>1. CASE known = {}
  BY <1>1 DEF StateAt
<1>2. CASE known # {}
  <2> DEFINE m == Max(known)
  <2>1. StateAt(w, e) = w[m].fp
    BY <1>2 DEF StateAt
  <2>2. m \in known /\ \A k \in known : k <= m
    <3>1. known \in SUBSET (1 .. e)
      OBVIOUS
    <3> HIDE DEF known
    <3>2. QED
      BY <1>2, <3>1, MaxIs
  <2>3. m \in 1 .. e /\ w[m].fp # None /\ \A i \in 1 .. e : w[i].fp # None => i <= m
    BY <2>2
  <2> HIDE DEF m
  <2>4. \A i \in m + 1 .. e : w[i].fp = None
    BY <2>3
  <2>5. QED
    BY <2>1, <2>3, <2>4
<1>3. QED
  BY <1>1, <1>2

LEMMA StateAtReads ==
  ASSUME NEW w, NEW v, NEW e \in Nat, \A p \in 1 .. e : v[p] = w[p]
  PROVE  StateAt(v, e) = StateAt(w, e)
<1> DEFINE known == {k \in 1 .. e : w[k].fp # None}
<1>1. {k \in 1 .. e : v[k].fp # None} = known
  OBVIOUS
<1>2. CASE known = {}
  BY <1>1, <1>2 DEF StateAt
<1>3. CASE known # {}
  <2>1. Max(known) \in 1 .. e
    <3>1. known \in SUBSET (1 .. e)
      OBVIOUS
    <3> HIDE DEF known
    <3>2. QED
      BY <1>3, <3>1, MaxIs
  <2>2. QED
    BY <1>1, <1>3, <2>1 DEF StateAt
<1>4. QED
  BY <1>2, <1>3

LEMMA NextStateAt ==
  ASSUME NEW w, NEW n \in Nat
  PROVE  StateAt(w, n + 1) = IF w[n + 1].fp # None THEN w[n + 1].fp ELSE StateAt(w, n)
<1>1. \/ StateAt(w, n) = None /\ \A i \in 1 .. n : w[i].fp = None
      \/ \E k \in 1 .. n : /\ w[k].fp # None /\ StateAt(w, n) = w[k].fp
                         /\ \A i \in k + 1 .. n : w[i].fp = None
  BY StateAtIs
<1>2. \/ StateAt(w, n + 1) = None /\ \A i \in 1 .. n + 1 : w[i].fp = None
      \/ \E k \in 1 .. n + 1 : /\ w[k].fp # None /\ StateAt(w, n + 1) = w[k].fp
                             /\ \A i \in k + 1 .. n + 1 : w[i].fp = None
  <2>1. n + 1 \in Nat
    OBVIOUS
  <2>2. QED
    BY <2>1, StateAtIs
<1>3. CASE w[n + 1].fp # None
  BY <1>2, <1>3
<1>4. CASE w[n + 1].fp = None
  <2>1. CASE \A i \in 1 .. n : w[i].fp = None
    BY <1>1, <1>2, <1>4, <2>1
  <2>2. CASE ~ \A i \in 1 .. n : w[i].fp = None
    <3>1. PICK k \in 1 .. n : /\ w[k].fp # None /\ StateAt(w, n) = w[k].fp
                             /\ \A i \in k + 1 .. n : w[i].fp = None
      BY <1>1, <2>2
    <3>2. PICK l \in 1 .. n + 1 : /\ w[l].fp # None /\ StateAt(w, n + 1) = w[l].fp
                                 /\ \A i \in l + 1 .. n + 1 : w[i].fp = None
      BY <1>2, <2>2
    <3>3. l = k
      BY <1>4, <3>1, <3>2
    <3>4. QED
      BY <1>4, <3>1, <3>2, <3>3
  <2>3. QED
    BY <2>1, <2>2
<1>5. QED
  BY <1>3, <1>4

-----------------------------------------------------------------------------
(* What the pass remembers of the first n events.                          *)

\* The sets of what was seen are exact.
Seen(s, w, n) ==
  /\ \A x : x \in s.cursors <=>
       \E k \in 1 .. n : CarriesResult(w[k]) /\ w[k].cursor # None /\ w[k].cursor = x
  /\ \A x : x \in s.items <=>
       \E k \in 1 .. n : CarriesResult(w[k]) /\ w[k].item # None /\ w[k].item = x
  /\ \A x : x \in s.inputs <=>
       \E k \in 1 .. n : TestsHypothesis(w[k]) /\ w[k].hypothesis = x
  /\ \A x : x \in s.errors <=>
       \E k \in 1 .. n : IsError(w[k]) /\ w[k].error # None /\ w[k].error = x
  /\ \A x : x \in s.frames <=> \E k \in 1 .. n : IsError(w[k]) /\ x \in w[k].frames
  /\ \A x : x \in s.refs <=> \E k \in 1 .. n : x \in w[k].refs
  /\ \A x : x \in s.hypotheses <=> \E k \in 1 .. n : w[k].kind = "plan" /\ x \in w[k].eliminated

\* So are the flags and the state known.
Known(s, w, n) ==
  /\ s.errorSeen <=> \E k \in 1 .. n : IsError(w[k])
  /\ s.planSeen <=> \E k \in 1 .. n : IsElimination(w[k])
  /\ s.requiredSeen <=> \E k \in 1 .. n : IsRequiredCheck(w[k])
  /\ s.priorEvent <=> n > 0
  /\ s.lastFp = StateAt(w, n)

\* Every expectation is open as long as no change was observed.
Open(s, w, n) ==
  /\ None \notin s.pending
  /\ "expected_state_change_observed" \notin DOMAIN s.found =>
       \A b : b \in s.pending <=>
         \E k \in 1 .. n : w[k].expects /\ StateAt(w, k) # None /\ b = StateAt(w, k)

\* The distance kept of a poll is the latest one, and the largest as long as
\* no poll converged.
Polled(s, w, n) ==
  "poll_converging" \notin DOMAIN s.found =>
    /\ \A k \in 1 .. n : IsPoll(w[k]) =>
         /\ PollKey(w[k]) \in DOMAIN s.polls
         /\ PollDistance(w[k]) <= s.polls[PollKey(w[k])]
    /\ \A key \in DOMAIN s.polls :
         \E k \in 1 .. n : IsPoll(w[k]) /\ PollKey(w[k]) = key /\ s.polls[key] = PollDistance(w[k])

\* A reason is found with the first event that completes a witness of it.
Found(s, w, n) ==
  /\ DOMAIN s.found \subseteq ProgressReason
  /\ \A r \in DOMAIN s.found :
       /\ s.found[r] \in 1 .. n /\ HasWitness(w, r, s.found[r])
       /\ \A j \in 1 .. s.found[r] - 1 : ~HasWitness(w, r, j)
  /\ \A r \in ProgressReason \ DOMAIN s.found : \A j \in 1 .. n : ~HasWitness(w, r, j)

Fields ==
  {"cursors", "items", "inputs", "errors", "frames", "errorSeen", "refs", "hypotheses",
   "planSeen", "requiredSeen", "priorEvent", "lastFp", "pending", "polls", "found"}

ProgressOf(s, w, n) ==
  /\ DOMAIN s = Fields
  /\ Seen(s, w, n) /\ Known(s, w, n) /\ Open(s, w, n) /\ Polled(s, w, n) /\ Found(s, w, n)

\* The witnesses of each reason.
LEMMA WitnessIs ==
  ASSUME NEW w, NEW i, NEW j
  PROVE  /\ Witnessed(w, "expected_state_change_observed", i, j) <=>
             w[i].expects /\ StateAt(w, i) # None
             /\ IsFingerprintedObservation(w[j]) /\ w[j].fp # StateAt(w, i)
         /\ Witnessed(w, "required_acceptance_verified", i, j) <=>
             IsRequiredCheck(w[i]) /\ IsRequiredCheck(w[j]) /\ w[j].delta \notin {None, ""}
         /\ Witnessed(w, "evidence_added", i, j) <=>
             AddsRef(w, j)
         /\ Witnessed(w, "hypothesis_eliminated", i, j) <=>
             IsElimination(w[i]) /\ IsElimination(w[j]) /\ Eliminates(w, j)
         /\ Witnessed(w, "stack_frame_added", i, j) <=>
             IsError(w[i]) /\ IsError(w[j]) /\ DeepensStack(w, j)
         /\ Witnessed(w, "error_changed", i, j) <=>
             Differ(IsError(w[i]) /\ IsError(w[j]), w[i].error, w[j].error)
         /\ Witnessed(w, "pagination_advanced", i, j) <=>
             Differ(CarriesResult(w[i]) /\ CarriesResult(w[j]), w[i].cursor, w[j].cursor)
         /\ Witnessed(w, "batch_item_changed", i, j) <=>
             Differ(CarriesResult(w[i]) /\ CarriesResult(w[j]), w[i].item, w[j].item)
         /\ Witnessed(w, "hypothesis_input_changed", i, j) <=>
             TestsHypothesis(w[i]) /\ TestsHypothesis(w[j])
             /\ w[i].hypothesis[1] = w[j].hypothesis[1] /\ w[i].hypothesis # w[j].hypothesis
         /\ Witnessed(w, "poll_converging", i, j) <=>
             IsPoll(w[i]) /\ IsPoll(w[j]) /\ PollKey(w[i]) = PollKey(w[j])
             /\ PollDistance(w[j]) < PollDistance(w[i])
         /\ \A r : Witnessed(w, r, i, j) => r \in ProgressReason \ {"productive_handoff"}
<1>1. Witnessed(w, "expected_state_change_observed", i, j) <=>
        w[i].expects /\ StateAt(w, i) # None
        /\ IsFingerprintedObservation(w[j]) /\ w[j].fp # StateAt(w, i)
  BY DEF Witnessed
<1>2. Witnessed(w, "required_acceptance_verified", i, j) <=>
        IsRequiredCheck(w[i]) /\ IsRequiredCheck(w[j]) /\ w[j].delta \notin {None, ""}
  BY DEF Witnessed
<1>3. Witnessed(w, "evidence_added", i, j) <=>
        AddsRef(w, j)
  BY DEF Witnessed
<1>4. Witnessed(w, "hypothesis_eliminated", i, j) <=>
        IsElimination(w[i]) /\ IsElimination(w[j]) /\ Eliminates(w, j)
  BY DEF Witnessed
<1>5. Witnessed(w, "stack_frame_added", i, j) <=>
        IsError(w[i]) /\ IsError(w[j]) /\ DeepensStack(w, j)
  BY DEF Witnessed
<1>6. Witnessed(w, "error_changed", i, j) <=>
        Differ(IsError(w[i]) /\ IsError(w[j]), w[i].error, w[j].error)
  BY DEF Witnessed
<1>7. Witnessed(w, "pagination_advanced", i, j) <=>
        Differ(CarriesResult(w[i]) /\ CarriesResult(w[j]), w[i].cursor, w[j].cursor)
  BY DEF Witnessed
<1>8. Witnessed(w, "batch_item_changed", i, j) <=>
        Differ(CarriesResult(w[i]) /\ CarriesResult(w[j]), w[i].item, w[j].item)
  BY DEF Witnessed
<1>9. Witnessed(w, "hypothesis_input_changed", i, j) <=>
        TestsHypothesis(w[i]) /\ TestsHypothesis(w[j])
        /\ w[i].hypothesis[1] = w[j].hypothesis[1] /\ w[i].hypothesis # w[j].hypothesis
  BY DEF Witnessed
<1>10. Witnessed(w, "poll_converging", i, j) <=>
        IsPoll(w[i]) /\ IsPoll(w[j]) /\ PollKey(w[i]) = PollKey(w[j])
        /\ PollDistance(w[j]) < PollDistance(w[i])
  BY DEF Witnessed
<1>11. \A r : Witnessed(w, r, i, j) => r \in ProgressReason \ {"productive_handoff"}
  BY DEF Witnessed, ProgressReason
<1>12. QED
  BY <1>1, <1>2, <1>3, <1>4, <1>5, <1>6, <1>7, <1>8, <1>9, <1>10, <1>11

\* A witness depends on the two events, the state at the first, and what the
\* second brings.
LEMMA WitnessOfTwo ==
  ASSUME NEW v, NEW w, NEW i, NEW j, NEW r,
         v[i] = w[i], v[j] = w[j], StateAt(v, i) = StateAt(w, i),
         AddsRef(v, j) <=> AddsRef(w, j), Eliminates(v, j) <=> Eliminates(w, j),
         DeepensStack(v, j) <=> DeepensStack(w, j)
  PROVE  Witnessed(v, r, i, j) <=> Witnessed(w, r, i, j)
<1>1. CASE r = "expected_state_change_observed"
  BY <1>1 DEF Witnessed
<1>2. CASE r = "required_acceptance_verified"
  BY <1>2 DEF Witnessed
<1>3. CASE r = "evidence_added"
  BY <1>3 DEF Witnessed
<1>4. CASE r = "hypothesis_eliminated"
  BY <1>4 DEF Witnessed
<1>5. CASE r = "stack_frame_added"
  BY <1>5 DEF Witnessed
<1>6. CASE r = "error_changed"
  BY <1>6 DEF Witnessed
<1>7. CASE r = "pagination_advanced"
  BY <1>7 DEF Witnessed
<1>8. CASE r = "batch_item_changed"
  BY <1>8 DEF Witnessed
<1>9. CASE r = "hypothesis_input_changed"
  BY <1>9 DEF Witnessed
<1>10. CASE r = "poll_converging"
  BY <1>10 DEF Witnessed
<1>11. CASE r \notin ProgressReason \ {"productive_handoff"}
  BY <1>11, WitnessIs
<1>12. QED
  BY <1>1, <1>2, <1>3, <1>4, <1>5, <1>6, <1>7, <1>8, <1>9, <1>10, <1>11 DEF ProgressReason

\* A longer window with the same events so far has the same witnesses so far.
LEMMA WitnessReads ==
  ASSUME NEW w, NEW v, NEW n \in Nat, \A p \in 1 .. n : v[p] = w[p],
         NEW j \in 1 .. n, NEW r
  PROVE  HasWitness(v, r, j) <=> HasWitness(w, r, j)
<1>1. \A i \in 1 .. n : StateAt(v, i) = StateAt(w, i)
  <2> TAKE i \in 1 .. n
  <2>1. i \in Nat /\ \A p \in 1 .. i : v[p] = w[p]
    OBVIOUS
  <2>2. QED
    BY <2>1, StateAtReads
<1>2. v[j] = w[j] /\ Before(j) \subseteq 1 .. n
  BY DEF Before
<1>3. ASSUME NEW i \in Before(j)
      PROVE  Witnessed(v, r, i, j) <=> Witnessed(w, r, i, j)
  <2>1. v[i] = w[i] /\ StateAt(v, i) = StateAt(w, i)
    BY <1>1, <1>2
  <2>2. \A k \in Before(j) : v[k] = w[k]
    BY <1>2
  <2>3. AddsRef(v, j) <=> AddsRef(w, j)
    BY <1>2, <2>2 DEF AddsRef
  <2>4. Eliminates(v, j) <=> Eliminates(w, j)
    BY <1>2, <2>2 DEF Eliminates
  <2>5. DeepensStack(v, j) <=> DeepensStack(w, j)
    BY <1>2, <2>2 DEF DeepensStack
  <2>6. QED
    BY <1>2, <2>1, <2>3, <2>4, <2>5, WitnessOfTwo
<1>4. QED
  BY <1>2, <1>3 DEF HasWitness

LEMMA ProgressReads ==
  ASSUME NEW s, NEW w, NEW v, NEW n \in Nat, \A p \in 1 .. n : v[p] = w[p],
         ProgressOf(s, w, n)
  PROVE  ProgressOf(s, v, n)
<1>1. \A i \in 1 .. n : StateAt(v, i) = StateAt(w, i)
  <2> TAKE i \in 1 .. n
  <2>1. i \in Nat /\ \A p \in 1 .. i : v[p] = w[p]
    OBVIOUS
  <2>2. QED
    BY <2>1, StateAtReads
<1>2. StateAt(v, n) = StateAt(w, n)
  BY StateAtReads
<1>3. Seen(s, v, n)
  BY DEF ProgressOf, Seen
<1>4. Known(s, v, n)
  BY <1>2 DEF ProgressOf, Known
<1>5. Open(s, v, n)
  BY <1>1 DEF ProgressOf, Open
<1>6. Polled(s, v, n)
  BY DEF ProgressOf, Polled
<1>7. Found(s, v, n)
  <2>1. \A r : \A j \in 1 .. n : HasWitness(v, r, j) <=> HasWitness(w, r, j)
    BY WitnessReads
  <2>2. QED
    BY <2>1 DEF ProgressOf, Found
<1>8. QED
  BY <1>3, <1>4, <1>5, <1>6, <1>7 DEF ProgressOf

LEMMA SeenGrows ==
  ASSUME NEW s, NEW w, NEW n \in Nat, Seen(s, w, n)
  PROVE  Seen(Classify(s, w[n + 1]), w, n + 1)
<1> DEFINE t == Classify(s, w[n + 1])
           e == w[n + 1]
<1>1. /\ t.cursors = s.cursors \cup Present(CarriesResult(e), e.cursor)
      /\ t.items = s.items \cup Present(CarriesResult(e), e.item)
      /\ t.inputs = s.inputs \cup Present(TestsHypothesis(e), e.hypothesis)
      /\ t.errors = s.errors \cup Present(IsError(e), e.error)
      /\ t.frames = s.frames \cup (IF IsError(e) THEN e.frames ELSE {})
      /\ t.refs = s.refs \cup e.refs
      /\ t.hypotheses = s.hypotheses \cup (IF e.kind = "plan" THEN e.eliminated ELSE {})
  BY DEF Classify, IsError
<1>2. \A x, c : x \in Present(c, x) <=> c /\ x # None
  BY DEF Present
<1>3. \A k : k \in 1 .. n + 1 <=> k \in 1 .. n \/ k = n + 1
  OBVIOUS
<1> HIDE DEF t
<1>4. /\ \A x : x \in t.cursors <=>
           \E k \in 1 .. n + 1 : CarriesResult(w[k]) /\ w[k].cursor # None /\ w[k].cursor = x
      /\ \A x : x \in t.items <=>
           \E k \in 1 .. n + 1 : CarriesResult(w[k]) /\ w[k].item # None /\ w[k].item = x
  BY <1>1, <1>3 DEF Seen, Present
<1>5. \A x : x \in t.inputs <=>
        \E k \in 1 .. n + 1 : TestsHypothesis(w[k]) /\ w[k].hypothesis = x
  BY <1>1, <1>3 DEF Seen, Present, TestsHypothesis
<1>6. \A x : x \in t.errors <=>
        \E k \in 1 .. n + 1 : IsError(w[k]) /\ w[k].error # None /\ w[k].error = x
  BY <1>1, <1>3 DEF Seen, Present
<1>7. \A x : x \in t.frames <=> \E k \in 1 .. n + 1 : IsError(w[k]) /\ x \in w[k].frames
  BY <1>1, <1>3 DEF Seen
<1>8. \A x : x \in t.refs <=> \E k \in 1 .. n + 1 : x \in w[k].refs
  BY <1>1, <1>3 DEF Seen
<1>9. \A x : x \in t.hypotheses <=>
        \E k \in 1 .. n + 1 : w[k].kind = "plan" /\ x \in w[k].eliminated
  BY <1>1, <1>3 DEF Seen
<1>10. Seen(t, w, n + 1)
  BY <1>4, <1>5, <1>6, <1>7, <1>8, <1>9 DEF Seen
<1>11. QED
  BY <1>10 DEF t

LEMMA KnownGrows ==
  ASSUME NEW s, NEW w, NEW n \in Nat, Known(s, w, n)
  PROVE  Known(Classify(s, w[n + 1]), w, n + 1)
<1> DEFINE t == Classify(s, w[n + 1])
           e == w[n + 1]
<1>1. /\ t.errorSeen = (s.errorSeen \/ IsError(e))
      /\ t.planSeen = (s.planSeen \/ IsElimination(e))
      /\ t.requiredSeen = (s.requiredSeen \/ IsRequiredCheck(e))
      /\ t.priorEvent = TRUE
      /\ t.lastFp = IF e.fp # None THEN e.fp ELSE s.lastFp
  BY DEF Classify, IsError, IsElimination, IsRequiredCheck
<1>2. \A k : k \in 1 .. n + 1 <=> k \in 1 .. n \/ k = n + 1
  OBVIOUS
<1>3. StateAt(w, n + 1) = IF e.fp # None THEN e.fp ELSE StateAt(w, n)
  BY NextStateAt
<1> HIDE DEF t
<1>4. t.errorSeen <=> \E k \in 1 .. n + 1 : IsError(w[k])
  BY <1>1, <1>2 DEF Known
<1>5. t.planSeen <=> \E k \in 1 .. n + 1 : IsElimination(w[k])
  BY <1>1, <1>2 DEF Known
<1>6. t.requiredSeen <=> \E k \in 1 .. n + 1 : IsRequiredCheck(w[k])
  BY <1>1, <1>2 DEF Known
<1>7. t.priorEvent <=> n + 1 > 0
  BY <1>1
<1>8. t.lastFp = StateAt(w, n + 1)
  BY <1>1, <1>3 DEF Known
<1>9. Known(t, w, n + 1)
  BY <1>4, <1>5, <1>6, <1>7, <1>8 DEF Known
<1>10. QED
  BY <1>9 DEF t

\* What establishes each reason.
LEMMA EstablishedIs ==
  ASSUME NEW s, NEW e
  PROVE  /\ "expected_state_change_observed" \in Established(s, e) <=> ObservesChange(s, e)
         /\ "required_acceptance_verified" \in Established(s, e) <=> VerifiesAcceptance(s, e)
         /\ "productive_handoff" \in Established(s, e) <=> HandsOff(e)
         /\ "evidence_added" \in Established(s, e) <=> AddsEvidence(s, e)
         /\ "hypothesis_eliminated" \in Established(s, e) <=> EliminatesHypothesis(s, e)
         /\ "error_changed" \in Established(s, e) <=> ChangesError(s, e)
         /\ "stack_frame_added" \in Established(s, e) <=> AddsFrame(s, e)
         /\ "pagination_advanced" \in Established(s, e) <=> AdvancesPage(s, e)
         /\ "batch_item_changed" \in Established(s, e) <=> ChangesItem(s, e)
         /\ "poll_converging" \in Established(s, e) <=> ConvergesFrom(s.polls, e)
         /\ "hypothesis_input_changed" \in Established(s, e) <=> ChangesInput(s, e)
         /\ Established(s, e) \subseteq ProgressReason
<1>1. "expected_state_change_observed" \in Established(s, e) <=> ObservesChange(s, e)
  BY DEF Established, ProgressReason
<1>2. "required_acceptance_verified" \in Established(s, e) <=> VerifiesAcceptance(s, e)
  BY DEF Established, ProgressReason
<1>3. "productive_handoff" \in Established(s, e) <=> HandsOff(e)
  BY DEF Established, ProgressReason
<1>4. "evidence_added" \in Established(s, e) <=> AddsEvidence(s, e)
  BY DEF Established, ProgressReason
<1>5. "hypothesis_eliminated" \in Established(s, e) <=> EliminatesHypothesis(s, e)
  BY DEF Established, ProgressReason
<1>6. "error_changed" \in Established(s, e) <=> ChangesError(s, e)
  BY DEF Established, ProgressReason
<1>7. "stack_frame_added" \in Established(s, e) <=> AddsFrame(s, e)
  BY DEF Established, ProgressReason
<1>8. "pagination_advanced" \in Established(s, e) <=> AdvancesPage(s, e)
  BY DEF Established, ProgressReason
<1>9. "batch_item_changed" \in Established(s, e) <=> ChangesItem(s, e)
  BY DEF Established, ProgressReason
<1>10. "poll_converging" \in Established(s, e) <=> ConvergesFrom(s.polls, e)
  BY DEF Established, ProgressReason
<1>11. "hypothesis_input_changed" \in Established(s, e) <=> ChangesInput(s, e)
  BY DEF Established, ProgressReason
<1>12. Established(s, e) \subseteq ProgressReason
  BY DEF Established
<1>13. QED
  BY <1>1, <1>2, <1>3, <1>4, <1>5, <1>6, <1>7, <1>8, <1>9, <1>10, <1>11, <1>12

LEMMA OpenGrows ==
  ASSUME NEW s, NEW w, NEW n \in Nat, Known(s, w, n), Open(s, w, n)
  PROVE  Open(Classify(s, w[n + 1]), w, n + 1)
<1> DEFINE t == Classify(s, w[n + 1])
           e == w[n + 1]
           b0 == StateAt(w, n + 1)
<1>1. t.pending = PendingAfter(s, e) /\ DOMAIN t.found = DOMAIN s.found \cup Established(s, e)
  BY DEF Classify, FoundAfter
<1>2. ExpectationBaseline(s, e) = b0
  BY NextStateAt DEF ExpectationBaseline, Known
<1>3. "expected_state_change_observed" \in Established(s, e) <=> ObservesChange(s, e)
  BY EstablishedIs
<1>4. \A b : b \in t.pending <=>
              (~ObservesChange(s, e) /\ b \in s.pending) \/ (e.expects /\ b0 # None /\ b = b0)
  BY <1>1, <1>2 DEF PendingAfter
<1>5. \A k : k \in 1 .. n + 1 <=> k \in 1 .. n \/ k = n + 1
  OBVIOUS
<1> HIDE DEF t
<1>6. None \notin t.pending
  BY <1>4 DEF Open
<1>7. ASSUME "expected_state_change_observed" \notin DOMAIN t.found
      PROVE  \A b : b \in t.pending <=>
               \E k \in 1 .. n + 1 : w[k].expects /\ StateAt(w, k) # None /\ b = StateAt(w, k)
  <2>1. ~ObservesChange(s, e) /\ "expected_state_change_observed" \notin DOMAIN s.found
    BY <1>1, <1>3, <1>7
  <2>2. \A b : b \in s.pending <=>
          \E k \in 1 .. n : w[k].expects /\ StateAt(w, k) # None /\ b = StateAt(w, k)
    BY <2>1 DEF Open
  <2>3. QED
    BY <1>4, <1>5, <2>1, <2>2
<1>8. Open(t, w, n + 1)
  BY <1>6, <1>7 DEF Open
<1>9. QED
  BY <1>8 DEF t

\* Distances are integers.
LEMMA DistanceIs ==
  ASSUME NEW w, Usable(w), NEW k \in 1 .. Len(w), IsPoll(w[k])
  PROVE  PollDistance(w[k]) \in Int
BY DEF Usable, IsPoll, PollDistance

LEMMA PolledGrows ==
  ASSUME NEW s, NEW w, NEW n \in Nat, Usable(w), n + 1 \in 1 .. Len(w), Polled(s, w, n)
  PROVE  Polled(Classify(s, w[n + 1]), w, n + 1)
<1> DEFINE t == Classify(s, w[n + 1])
           e == w[n + 1]
           key0 == PollKey(e)
<1>1. t.polls = PollsAfter(s, e) /\ DOMAIN t.found = DOMAIN s.found \cup Established(s, e)
  BY DEF Classify, FoundAfter
<1>2. "poll_converging" \in Established(s, e) <=> ConvergesFrom(s.polls, e)
  BY EstablishedIs
<1>3. \A k : k \in 1 .. n + 1 <=> k \in 1 .. n \/ k = n + 1
  OBVIOUS
<1>4. \A k \in 1 .. n + 1 : IsPoll(w[k]) => PollDistance(w[k]) \in Int
  <2>1. Len(w) \in Nat
    BY DEF Usable
  <2>2. \A k \in 1 .. n + 1 : k \in 1 .. Len(w)
    BY <2>1
  <2>3. QED
    BY <2>2, DistanceIs
<1> HIDE DEF t
<1>5. SUFFICES ASSUME "poll_converging" \notin DOMAIN t.found
               PROVE  /\ \A k \in 1 .. n + 1 : IsPoll(w[k]) =>
                           /\ PollKey(w[k]) \in DOMAIN t.polls
                           /\ PollDistance(w[k]) <= t.polls[PollKey(w[k])]
                      /\ \A key \in DOMAIN t.polls :
                           \E k \in 1 .. n + 1 :
                             IsPoll(w[k]) /\ PollKey(w[k]) = key /\ t.polls[key] = PollDistance(w[k])
  BY DEF Polled, t
<1>6. ~ConvergesFrom(s.polls, e) /\ "poll_converging" \notin DOMAIN s.found
  BY <1>1, <1>2, <1>5
<1>7. /\ \A k \in 1 .. n : IsPoll(w[k]) =>
           /\ PollKey(w[k]) \in DOMAIN s.polls
           /\ PollDistance(w[k]) <= s.polls[PollKey(w[k])]
      /\ \A key \in DOMAIN s.polls :
           \E k \in 1 .. n : IsPoll(w[k]) /\ PollKey(w[k]) = key /\ s.polls[key] = PollDistance(w[k])
  BY <1>6 DEF Polled
<1>8. CASE ~IsPoll(e)
  <2>1. t.polls = s.polls
    BY <1>1, <1>8 DEF PollsAfter
  <2>2. QED
    BY <1>3, <1>7, <1>8, <2>1
<1>9. CASE IsPoll(e)
  <2>1. /\ DOMAIN t.polls = DOMAIN s.polls \cup {key0}
        /\ t.polls[key0] = PollDistance(e)
        /\ \A key \in DOMAIN s.polls : key # key0 => t.polls[key] = s.polls[key]
    BY <1>1, <1>9 DEF PollsAfter
  <2>2. \A k \in 1 .. n : IsPoll(w[k]) /\ PollKey(w[k]) = key0 => PollDistance(w[k]) <= PollDistance(e)
    <3> TAKE k \in 1 .. n
    <3> HAVE IsPoll(w[k]) /\ PollKey(w[k]) = key0
    <3>1. key0 \in DOMAIN s.polls /\ PollDistance(w[k]) <= s.polls[key0]
      BY <1>7
    <3>2. ~(PollDistance(e) < s.polls[key0])
      BY <1>6, <1>9, <3>1 DEF ConvergesFrom
    <3>3. PICK l \in 1 .. n : IsPoll(w[l]) /\ s.polls[key0] = PollDistance(w[l])
      BY <1>7, <3>1
    <3>4. PollDistance(w[k]) \in Int /\ PollDistance(w[l]) \in Int /\ PollDistance(e) \in Int
      BY <1>3, <1>4, <1>9, <3>3
    <3>5. QED
      BY <3>1, <3>2, <3>3, <3>4
  <2>3. PollDistance(e) <= PollDistance(e)
    BY <1>3, <1>4, <1>9
  <2>4. ASSUME NEW k \in 1 .. n + 1, IsPoll(w[k])
        PROVE  PollKey(w[k]) \in DOMAIN t.polls /\ PollDistance(w[k]) <= t.polls[PollKey(w[k])]
    <3>1. CASE PollKey(w[k]) = key0
      BY <1>3, <2>1, <2>2, <2>3, <2>4, <3>1
    <3>2. CASE PollKey(w[k]) # key0
      BY <1>3, <1>7, <2>1, <2>4, <3>2
    <3>3. QED
      BY <3>1, <3>2
  <2>5. ASSUME NEW key \in DOMAIN t.polls
        PROVE  \E k \in 1 .. n + 1 :
                 IsPoll(w[k]) /\ PollKey(w[k]) = key /\ t.polls[key] = PollDistance(w[k])
    BY <1>3, <1>7, <1>9, <2>1
  <2>6. QED
    BY <2>4, <2>5
<1>10. QED
  BY <1>8, <1>9

-----------------------------------------------------------------------------
(* A reason that was not found before is established by an event exactly when *)
(* the event completes a witness.                                             *)

\* Nothing but a productive handoff is evidence on its own.
LEMMA NeedsPair ==
  ASSUME NEW w, NEW n \in Nat, NEW r, r # "productive_handoff"
  PROVE  HasWitness(w, r, n + 1) <=> \E i \in 1 .. n : Witnessed(w, r, i, n + 1)
<1>1. Before(n + 1) = 1 .. n
  BY DEF Before
<1>2. QED
  BY <1>1 DEF HasWitness

\* Of two positions without a witness, neither is the later half of one.
LEMMA NoPair ==
  ASSUME NEW w, NEW n \in Nat, NEW r, r # "productive_handoff",
         \A j \in 1 .. n : ~HasWitness(w, r, j),
         NEW i \in 1 .. n, NEW k \in 1 .. n, i # k
  PROVE  ~Witnessed(w, r, i, k) \/ ~Witnessed(w, r, k, i)
<1>1. i \in Before(k) \/ k \in Before(i)
  BY DEF Before
<1>2. QED
  BY <1>1 DEF HasWitness

LEMMA NewExpectation ==
  ASSUME NEW s, NEW w, NEW n \in Nat, Open(s, w, n),
         "expected_state_change_observed" \notin DOMAIN s.found
  PROVE  "expected_state_change_observed" \in Established(s, w[n + 1])
           <=> HasWitness(w, "expected_state_change_observed", n + 1)
<1>1. \A b : b \in s.pending <=>
        \E k \in 1 .. n : w[k].expects /\ StateAt(w, k) # None /\ b = StateAt(w, k)
  BY DEF Open
<1>2. ObservesChange(s, w[n + 1]) <=>
        \E i \in 1 .. n : /\ w[i].expects /\ StateAt(w, i) # None
                          /\ IsFingerprintedObservation(w[n + 1]) /\ w[n + 1].fp # StateAt(w, i)
  BY <1>1 DEF ObservesChange
<1>3. \A i : Witnessed(w, "expected_state_change_observed", i, n + 1) <=>
        /\ w[i].expects /\ StateAt(w, i) # None
        /\ IsFingerprintedObservation(w[n + 1]) /\ w[n + 1].fp # StateAt(w, i)
  BY WitnessIs
<1>4. HasWitness(w, "expected_state_change_observed", n + 1)
        <=> \E i \in 1 .. n : Witnessed(w, "expected_state_change_observed", i, n + 1)
  BY NeedsPair
<1>5. "expected_state_change_observed" \in Established(s, w[n + 1]) <=> ObservesChange(s, w[n + 1])
  BY EstablishedIs
<1>6. QED
  BY <1>2, <1>3, <1>4, <1>5

LEMMA NewVerification ==
  ASSUME NEW s, NEW w, NEW n \in Nat, Known(s, w, n)
  PROVE  "required_acceptance_verified" \in Established(s, w[n + 1])
           <=> HasWitness(w, "required_acceptance_verified", n + 1)
<1>1. VerifiesAcceptance(s, w[n + 1]) <=>
        \E i \in 1 .. n : /\ IsRequiredCheck(w[i]) /\ IsRequiredCheck(w[n + 1])
                          /\ w[n + 1].delta \notin {None, ""}
  BY DEF VerifiesAcceptance, IsRequiredCheck, Known
<1>2. \A i : Witnessed(w, "required_acceptance_verified", i, n + 1) <=>
        /\ IsRequiredCheck(w[i]) /\ IsRequiredCheck(w[n + 1]) /\ w[n + 1].delta \notin {None, ""}
  BY WitnessIs
<1>3. HasWitness(w, "required_acceptance_verified", n + 1)
        <=> \E i \in 1 .. n : Witnessed(w, "required_acceptance_verified", i, n + 1)
  BY NeedsPair
<1>4. "required_acceptance_verified" \in Established(s, w[n + 1]) <=> VerifiesAcceptance(s, w[n + 1])
  BY EstablishedIs
<1>5. QED
  BY <1>1, <1>2, <1>3, <1>4

LEMMA NewHandoff ==
  ASSUME NEW s, NEW w, NEW n \in Nat
  PROVE  "productive_handoff" \in Established(s, w[n + 1])
           <=> HasWitness(w, "productive_handoff", n + 1)
BY EstablishedIs DEF HasWitness

LEMMA NewEvidence ==
  ASSUME NEW s, NEW w, NEW n \in Nat, Seen(s, w, n), Known(s, w, n)
  PROVE  "evidence_added" \in Established(s, w[n + 1])
           <=> HasWitness(w, "evidence_added", n + 1)
<1>1. Before(n + 1) = 1 .. n
  BY DEF Before
<1>2. \A x : x \in s.refs <=> \E k \in 1 .. n : x \in w[k].refs
  BY DEF Seen
<1>3. ~(w[n + 1].refs \subseteq s.refs) <=> AddsRef(w, n + 1)
  BY <1>1, <1>2 DEF AddsRef
<1>4. s.priorEvent <=> \E i \in 1 .. n : TRUE
  BY DEF Known
<1>5. \A i : Witnessed(w, "evidence_added", i, n + 1) <=> AddsRef(w, n + 1)
  BY WitnessIs
<1>6. HasWitness(w, "evidence_added", n + 1)
        <=> \E i \in 1 .. n : Witnessed(w, "evidence_added", i, n + 1)
  BY NeedsPair
<1>7. "evidence_added" \in Established(s, w[n + 1]) <=> AddsEvidence(s, w[n + 1])
  BY EstablishedIs
<1>8. QED
  BY <1>3, <1>4, <1>5, <1>6, <1>7 DEF AddsEvidence

LEMMA NewElimination ==
  ASSUME NEW s, NEW w, NEW n \in Nat, Seen(s, w, n), Known(s, w, n)
  PROVE  "hypothesis_eliminated" \in Established(s, w[n + 1])
           <=> HasWitness(w, "hypothesis_eliminated", n + 1)
<1>1. Before(n + 1) = 1 .. n
  BY DEF Before
<1>2. \A x : x \in s.hypotheses <=> \E k \in 1 .. n : IsElimination(w[k]) /\ x \in w[k].eliminated
  BY DEF Seen, IsElimination
<1>3. ~(w[n + 1].eliminated \subseteq s.hypotheses) <=> Eliminates(w, n + 1)
  BY <1>1, <1>2 DEF Eliminates
<1>4. Eliminates(w, n + 1) => w[n + 1].eliminated # {}
  BY DEF Eliminates
<1>5. s.planSeen <=> \E i \in 1 .. n : IsElimination(w[i])
  BY DEF Known
<1>6. \A i : Witnessed(w, "hypothesis_eliminated", i, n + 1) <=>
        IsElimination(w[i]) /\ IsElimination(w[n + 1]) /\ Eliminates(w, n + 1)
  BY WitnessIs
<1>7. HasWitness(w, "hypothesis_eliminated", n + 1)
        <=> \E i \in 1 .. n : Witnessed(w, "hypothesis_eliminated", i, n + 1)
  BY NeedsPair
<1>8. "hypothesis_eliminated" \in Established(s, w[n + 1]) <=> EliminatesHypothesis(s, w[n + 1])
  BY EstablishedIs
<1>9. EliminatesHypothesis(s, w[n + 1]) <=>
        s.planSeen /\ IsElimination(w[n + 1]) /\ Eliminates(w, n + 1)
  BY <1>3, <1>4 DEF EliminatesHypothesis, IsElimination
<1>10. QED
  BY <1>5, <1>6, <1>7, <1>8, <1>9

LEMMA NewFrame ==
  ASSUME NEW s, NEW w, NEW n \in Nat, Seen(s, w, n), Known(s, w, n)
  PROVE  "stack_frame_added" \in Established(s, w[n + 1])
           <=> HasWitness(w, "stack_frame_added", n + 1)
<1>1. Before(n + 1) = 1 .. n
  BY DEF Before
<1>2. \A x : x \in s.frames <=> \E k \in 1 .. n : IsError(w[k]) /\ x \in w[k].frames
  BY DEF Seen
<1>3. ~(w[n + 1].frames \subseteq s.frames) <=> DeepensStack(w, n + 1)
  BY <1>1, <1>2 DEF DeepensStack
<1>4. s.errorSeen <=> \E i \in 1 .. n : IsError(w[i])
  BY DEF Known
<1>5. \A i : Witnessed(w, "stack_frame_added", i, n + 1) <=>
        IsError(w[i]) /\ IsError(w[n + 1]) /\ DeepensStack(w, n + 1)
  BY WitnessIs
<1>6. HasWitness(w, "stack_frame_added", n + 1)
        <=> \E i \in 1 .. n : Witnessed(w, "stack_frame_added", i, n + 1)
  BY NeedsPair
<1>7. "stack_frame_added" \in Established(s, w[n + 1]) <=> AddsFrame(s, w[n + 1])
  BY EstablishedIs
<1>8. AddsFrame(s, w[n + 1]) <=> s.errorSeen /\ IsError(w[n + 1]) /\ DeepensStack(w, n + 1)
  BY <1>3 DEF AddsFrame, IsError
<1>9. QED
  BY <1>4, <1>5, <1>6, <1>7, <1>8

\* As long as no error changed all errors are one, so the set of those seen
\* says whether the next one is another.
LEMMA NewError ==
  ASSUME NEW s, NEW w, NEW n \in Nat, Seen(s, w, n),
         \A j \in 1 .. n : ~HasWitness(w, "error_changed", j)
  PROVE  "error_changed" \in Established(s, w[n + 1])
           <=> HasWitness(w, "error_changed", n + 1)
<1> DEFINE e == w[n + 1]
<1>1. \A x : x \in s.errors <=>
        \E k \in 1 .. n : IsError(w[k]) /\ w[k].error # None /\ w[k].error = x
  BY DEF Seen
<1>2. \A i, j : Witnessed(w, "error_changed", i, j) <=>
        /\ IsError(w[i]) /\ IsError(w[j])
        /\ w[i].error # None /\ w[j].error # None /\ w[i].error # w[j].error
  BY DEF Witnessed, Differ
<1>3. ASSUME NEW i \in 1 .. n, NEW k \in 1 .. n,
             IsError(w[i]), IsError(w[k]), w[i].error # None, w[k].error # None
      PROVE  w[i].error = w[k].error
  <2>1. i # k => ~Witnessed(w, "error_changed", i, k) \/ ~Witnessed(w, "error_changed", k, i)
    BY NoPair
  <2>2. QED
    BY <1>2, <1>3, <2>1
<1>4. ChangesError(s, e) <=>
        IsError(e) /\ e.error # None /\ s.errors # {} /\ e.error \notin s.errors
  BY DEF ChangesError, IsError
<1>5. HasWitness(w, "error_changed", n + 1)
        <=> \E i \in 1 .. n : Witnessed(w, "error_changed", i, n + 1)
  BY NeedsPair
<1>6. "error_changed" \in Established(s, e) <=> ChangesError(s, e)
  BY EstablishedIs
<1>7. ASSUME ChangesError(s, e)
      PROVE  \E i \in 1 .. n : Witnessed(w, "error_changed", i, n + 1)
  <2>1. PICK x : x \in s.errors
    BY <1>4, <1>7
  <2>2. PICK i \in 1 .. n : IsError(w[i]) /\ w[i].error # None /\ w[i].error = x
    BY <1>1, <2>1
  <2>3. QED
    BY <1>2, <1>4, <1>7, <2>1, <2>2
<1>8. ASSUME NEW i \in 1 .. n, Witnessed(w, "error_changed", i, n + 1)
      PROVE  ChangesError(s, e)
  <2>1. /\ IsError(w[i]) /\ IsError(e)
        /\ w[i].error # None /\ e.error # None /\ w[i].error # e.error
    BY <1>2, <1>8
  <2>2. w[i].error \in s.errors
    BY <1>1, <2>1
  <2>3. e.error \notin s.errors
    BY <1>1, <1>3, <2>1
  <2>4. QED
    BY <1>4, <2>1, <2>2, <2>3
<1>9. QED
  BY <1>5, <1>6, <1>7, <1>8

LEMMA NewPage ==
  ASSUME NEW s, NEW w, NEW n \in Nat, Seen(s, w, n),
         \A j \in 1 .. n : ~HasWitness(w, "pagination_advanced", j)
  PROVE  "pagination_advanced" \in Established(s, w[n + 1])
           <=> HasWitness(w, "pagination_advanced", n + 1)
<1> DEFINE e == w[n + 1]
<1>1. \A x : x \in s.cursors <=>
        \E k \in 1 .. n : CarriesResult(w[k]) /\ w[k].cursor # None /\ w[k].cursor = x
  BY DEF Seen
<1>2. \A i, j : Witnessed(w, "pagination_advanced", i, j) <=>
        /\ CarriesResult(w[i]) /\ CarriesResult(w[j])
        /\ w[i].cursor # None /\ w[j].cursor # None /\ w[i].cursor # w[j].cursor
  BY DEF Witnessed, Differ
<1>3. ASSUME NEW i \in 1 .. n, NEW k \in 1 .. n,
             CarriesResult(w[i]), CarriesResult(w[k]), w[i].cursor # None, w[k].cursor # None
      PROVE  w[i].cursor = w[k].cursor
  <2>1. i # k => ~Witnessed(w, "pagination_advanced", i, k) \/ ~Witnessed(w, "pagination_advanced", k, i)
    BY NoPair
  <2>2. QED
    BY <1>2, <1>3, <2>1
<1>4. AdvancesPage(s, e) <=>
        CarriesResult(e) /\ e.cursor # None /\ s.cursors # {} /\ e.cursor \notin s.cursors
  BY DEF AdvancesPage
<1>5. HasWitness(w, "pagination_advanced", n + 1)
        <=> \E i \in 1 .. n : Witnessed(w, "pagination_advanced", i, n + 1)
  BY NeedsPair
<1>6. "pagination_advanced" \in Established(s, e) <=> AdvancesPage(s, e)
  BY EstablishedIs
<1>7. ASSUME AdvancesPage(s, e)
      PROVE  \E i \in 1 .. n : Witnessed(w, "pagination_advanced", i, n + 1)
  <2>1. PICK x : x \in s.cursors
    BY <1>4, <1>7
  <2>2. PICK i \in 1 .. n : CarriesResult(w[i]) /\ w[i].cursor # None /\ w[i].cursor = x
    BY <1>1, <2>1
  <2>3. QED
    BY <1>2, <1>4, <1>7, <2>1, <2>2
<1>8. ASSUME NEW i \in 1 .. n, Witnessed(w, "pagination_advanced", i, n + 1)
      PROVE  AdvancesPage(s, e)
  <2>1. /\ CarriesResult(w[i]) /\ CarriesResult(e)
        /\ w[i].cursor # None /\ e.cursor # None /\ w[i].cursor # e.cursor
    BY <1>2, <1>8
  <2>2. w[i].cursor \in s.cursors
    BY <1>1, <2>1
  <2>3. e.cursor \notin s.cursors
    BY <1>1, <1>3, <2>1
  <2>4. QED
    BY <1>4, <2>1, <2>2, <2>3
<1>9. QED
  BY <1>5, <1>6, <1>7, <1>8

LEMMA NewItem ==
  ASSUME NEW s, NEW w, NEW n \in Nat, Seen(s, w, n),
         \A j \in 1 .. n : ~HasWitness(w, "batch_item_changed", j)
  PROVE  "batch_item_changed" \in Established(s, w[n + 1])
           <=> HasWitness(w, "batch_item_changed", n + 1)
<1> DEFINE e == w[n + 1]
<1>1. \A x : x \in s.items <=>
        \E k \in 1 .. n : CarriesResult(w[k]) /\ w[k].item # None /\ w[k].item = x
  BY DEF Seen
<1>2. \A i, j : Witnessed(w, "batch_item_changed", i, j) <=>
        /\ CarriesResult(w[i]) /\ CarriesResult(w[j])
        /\ w[i].item # None /\ w[j].item # None /\ w[i].item # w[j].item
  BY DEF Witnessed, Differ
<1>3. ASSUME NEW i \in 1 .. n, NEW k \in 1 .. n,
             CarriesResult(w[i]), CarriesResult(w[k]), w[i].item # None, w[k].item # None
      PROVE  w[i].item = w[k].item
  <2>1. i # k => ~Witnessed(w, "batch_item_changed", i, k) \/ ~Witnessed(w, "batch_item_changed", k, i)
    BY NoPair
  <2>2. QED
    BY <1>2, <1>3, <2>1
<1>4. ChangesItem(s, e) <=>
        CarriesResult(e) /\ e.item # None /\ s.items # {} /\ e.item \notin s.items
  BY DEF ChangesItem
<1>5. HasWitness(w, "batch_item_changed", n + 1)
        <=> \E i \in 1 .. n : Witnessed(w, "batch_item_changed", i, n + 1)
  BY NeedsPair
<1>6. "batch_item_changed" \in Established(s, e) <=> ChangesItem(s, e)
  BY EstablishedIs
<1>7. ASSUME ChangesItem(s, e)
      PROVE  \E i \in 1 .. n : Witnessed(w, "batch_item_changed", i, n + 1)
  <2>1. PICK x : x \in s.items
    BY <1>4, <1>7
  <2>2. PICK i \in 1 .. n : CarriesResult(w[i]) /\ w[i].item # None /\ w[i].item = x
    BY <1>1, <2>1
  <2>3. QED
    BY <1>2, <1>4, <1>7, <2>1, <2>2
<1>8. ASSUME NEW i \in 1 .. n, Witnessed(w, "batch_item_changed", i, n + 1)
      PROVE  ChangesItem(s, e)
  <2>1. /\ CarriesResult(w[i]) /\ CarriesResult(e)
        /\ w[i].item # None /\ e.item # None /\ w[i].item # e.item
    BY <1>2, <1>8
  <2>2. w[i].item \in s.items
    BY <1>1, <2>1
  <2>3. e.item \notin s.items
    BY <1>1, <1>3, <2>1
  <2>4. QED
    BY <1>4, <2>1, <2>2, <2>3
<1>9. QED
  BY <1>5, <1>6, <1>7, <1>8

LEMMA NewInput ==
  ASSUME NEW s, NEW w, NEW n \in Nat, Seen(s, w, n),
         \A j \in 1 .. n : ~HasWitness(w, "hypothesis_input_changed", j)
  PROVE  "hypothesis_input_changed" \in Established(s, w[n + 1])
           <=> HasWitness(w, "hypothesis_input_changed", n + 1)
<1> DEFINE e == w[n + 1]
<1>1. \A x : x \in s.inputs <=> \E k \in 1 .. n : TestsHypothesis(w[k]) /\ w[k].hypothesis = x
  BY DEF Seen
<1>2. \A i, j : Witnessed(w, "hypothesis_input_changed", i, j) <=>
        /\ TestsHypothesis(w[i]) /\ TestsHypothesis(w[j])
        /\ w[i].hypothesis[1] = w[j].hypothesis[1] /\ w[i].hypothesis # w[j].hypothesis
  BY DEF Witnessed
<1>3. ASSUME NEW i \in 1 .. n, NEW k \in 1 .. n, TestsHypothesis(w[i]), TestsHypothesis(w[k]),
             w[i].hypothesis[1] = w[k].hypothesis[1]
      PROVE  w[i].hypothesis = w[k].hypothesis
  <2>1. i # k => \/ ~Witnessed(w, "hypothesis_input_changed", i, k)
                 \/ ~Witnessed(w, "hypothesis_input_changed", k, i)
    BY NoPair
  <2>2. QED
    BY <1>2, <1>3, <2>1
<1>4. ChangesInput(s, e) <=>
        /\ TestsHypothesis(e) /\ e.hypothesis \notin s.inputs
        /\ \E prior \in s.inputs : prior[1] = e.hypothesis[1]
  BY DEF ChangesInput
<1>5. HasWitness(w, "hypothesis_input_changed", n + 1)
        <=> \E i \in 1 .. n : Witnessed(w, "hypothesis_input_changed", i, n + 1)
  BY NeedsPair
<1>6. "hypothesis_input_changed" \in Established(s, e) <=> ChangesInput(s, e)
  BY EstablishedIs
<1>7. ASSUME ChangesInput(s, e)
      PROVE  \E i \in 1 .. n : Witnessed(w, "hypothesis_input_changed", i, n + 1)
  <2>1. PICK x \in s.inputs : x[1] = e.hypothesis[1]
    BY <1>4, <1>7
  <2>2. PICK i \in 1 .. n : TestsHypothesis(w[i]) /\ w[i].hypothesis = x
    BY <1>1, <2>1
  <2>3. QED
    BY <1>2, <1>4, <1>7, <2>1, <2>2
<1>8. ASSUME NEW i \in 1 .. n, Witnessed(w, "hypothesis_input_changed", i, n + 1)
      PROVE  ChangesInput(s, e)
  <2>1. /\ TestsHypothesis(w[i]) /\ TestsHypothesis(e)
        /\ w[i].hypothesis[1] = e.hypothesis[1] /\ w[i].hypothesis # e.hypothesis
    BY <1>2, <1>8
  <2>2. w[i].hypothesis \in s.inputs
    BY <1>1, <2>1
  <2>3. e.hypothesis \notin s.inputs
    <3> SUFFICES ASSUME e.hypothesis \in s.inputs
                 PROVE  FALSE
      OBVIOUS
    <3>1. PICK k \in 1 .. n : TestsHypothesis(w[k]) /\ w[k].hypothesis = e.hypothesis
      BY <1>1
    <3>2. w[i].hypothesis = w[k].hypothesis
      BY <1>3, <2>1, <3>1
    <3>3. QED
      BY <2>1, <3>1, <3>2
  <2>4. QED
    BY <1>4, <2>1, <2>2, <2>3
<1>9. QED
  BY <1>5, <1>6, <1>7, <1>8

\* The latest distance of a poll that never converged is its largest.
LEMMA NewConvergence ==
  ASSUME NEW s, NEW w, NEW n \in Nat, Usable(w), n + 1 \in 1 .. Len(w), Polled(s, w, n),
         "poll_converging" \notin DOMAIN s.found
  PROVE  "poll_converging" \in Established(s, w[n + 1])
           <=> HasWitness(w, "poll_converging", n + 1)
<1> DEFINE e == w[n + 1]
<1>1. /\ \A k \in 1 .. n : IsPoll(w[k]) =>
           /\ PollKey(w[k]) \in DOMAIN s.polls
           /\ PollDistance(w[k]) <= s.polls[PollKey(w[k])]
      /\ \A key \in DOMAIN s.polls :
           \E k \in 1 .. n : IsPoll(w[k]) /\ PollKey(w[k]) = key /\ s.polls[key] = PollDistance(w[k])
  BY DEF Polled
<1>2. \A i : Witnessed(w, "poll_converging", i, n + 1) <=>
        /\ IsPoll(w[i]) /\ IsPoll(e) /\ PollKey(w[i]) = PollKey(e)
        /\ PollDistance(e) < PollDistance(w[i])
  BY WitnessIs
<1>3. \A k \in 1 .. n + 1 : IsPoll(w[k]) => PollDistance(w[k]) \in Int
  <2>1. Len(w) \in Nat
    BY DEF Usable
  <2>2. \A k \in 1 .. n + 1 : k \in 1 .. Len(w)
    BY <2>1
  <2>3. QED
    BY <2>2, DistanceIs
<1>4. HasWitness(w, "poll_converging", n + 1)
        <=> \E i \in 1 .. n : Witnessed(w, "poll_converging", i, n + 1)
  BY NeedsPair
<1>5. "poll_converging" \in Established(s, e) <=> ConvergesFrom(s.polls, e)
  BY EstablishedIs
<1>6. ASSUME ConvergesFrom(s.polls, e)
      PROVE  \E i \in 1 .. n : Witnessed(w, "poll_converging", i, n + 1)
  <2>1. IsPoll(e) /\ PollKey(e) \in DOMAIN s.polls /\ PollDistance(e) < s.polls[PollKey(e)]
    BY <1>6 DEF ConvergesFrom
  <2>2. PICK i \in 1 .. n : /\ IsPoll(w[i]) /\ PollKey(w[i]) = PollKey(e)
                            /\ s.polls[PollKey(e)] = PollDistance(w[i])
    BY <1>1, <2>1
  <2>3. QED
    BY <1>2, <2>1, <2>2
<1>7. ASSUME NEW i \in 1 .. n, Witnessed(w, "poll_converging", i, n + 1)
      PROVE  ConvergesFrom(s.polls, e)
  <2>1. /\ IsPoll(w[i]) /\ IsPoll(e) /\ PollKey(w[i]) = PollKey(e)
        /\ PollDistance(e) < PollDistance(w[i])
    BY <1>2, <1>7
  <2>2. PollKey(e) \in DOMAIN s.polls /\ PollDistance(w[i]) <= s.polls[PollKey(e)]
    BY <1>1, <2>1
  <2>3. PICK k \in 1 .. n : IsPoll(w[k]) /\ s.polls[PollKey(e)] = PollDistance(w[k])
    BY <1>1, <2>2
  <2>4. PollDistance(e) \in Int /\ PollDistance(w[i]) \in Int /\ PollDistance(w[k]) \in Int
    BY <1>3, <2>1, <2>3
  <2>5. PollDistance(e) < s.polls[PollKey(e)]
    BY <2>1, <2>2, <2>3, <2>4
  <2>6. QED
    BY <2>1, <2>2, <2>5 DEF ConvergesFrom
<1>8. QED
  BY <1>4, <1>5, <1>6, <1>7

LEMMA EstablishedWitness ==
  ASSUME NEW s, NEW w, NEW n \in Nat, Usable(w), n + 1 \in 1 .. Len(w), ProgressOf(s, w, n),
         NEW r \in ProgressReason \ DOMAIN s.found
  PROVE  r \in Established(s, w[n + 1]) <=> HasWitness(w, r, n + 1)
<1>1. Seen(s, w, n) /\ Known(s, w, n) /\ Open(s, w, n) /\ Polled(s, w, n)
  BY DEF ProgressOf
<1>2. \A j \in 1 .. n : ~HasWitness(w, r, j)
  BY DEF ProgressOf, Found
<1>3. CASE r = "expected_state_change_observed"
  BY <1>1, <1>3, NewExpectation
<1>4. CASE r = "required_acceptance_verified"
  BY <1>1, <1>4, NewVerification
<1>5. CASE r = "productive_handoff"
  BY <1>5, NewHandoff
<1>6. CASE r = "evidence_added"
  BY <1>1, <1>6, NewEvidence
<1>7. CASE r = "hypothesis_eliminated"
  BY <1>1, <1>7, NewElimination
<1>8. CASE r = "stack_frame_added"
  BY <1>1, <1>8, NewFrame
<1>9. CASE r = "error_changed"
  BY <1>1, <1>2, <1>9, NewError
<1>10. CASE r = "pagination_advanced"
  BY <1>1, <1>2, <1>10, NewPage
<1>11. CASE r = "batch_item_changed"
  BY <1>1, <1>2, <1>11, NewItem
<1>12. CASE r = "hypothesis_input_changed"
  BY <1>1, <1>2, <1>12, NewInput
<1>13. CASE r = "poll_converging"
  BY <1>1, <1>13, NewConvergence
<1>14. QED
  BY <1>3, <1>4, <1>5, <1>6, <1>7, <1>8, <1>9, <1>10, <1>11, <1>12, <1>13 DEF ProgressReason

-----------------------------------------------------------------------------
(* One iteration of the loop.                                              *)

LEMMA FoundGrows ==
  ASSUME NEW s, NEW w, NEW n \in Nat, Usable(w), n + 1 \in 1 .. Len(w), ProgressOf(s, w, n)
  PROVE  Found(Classify(s, w[n + 1]), w, n + 1)
<1> DEFINE t == Classify(s, w[n + 1])
           e == w[n + 1]
<1>1. /\ DOMAIN t.found = DOMAIN s.found \cup Established(s, e)
      /\ \A r \in DOMAIN s.found : t.found[r] = s.found[r]
      /\ \A r \in Established(s, e) \ DOMAIN s.found : t.found[r] = e.id
  BY DEF Classify, FoundAfter
<1>2. e.id = n + 1
  BY DEF Usable
<1>3. /\ DOMAIN s.found \subseteq ProgressReason
      /\ \A r \in DOMAIN s.found :
           /\ s.found[r] \in 1 .. n /\ HasWitness(w, r, s.found[r])
           /\ \A j \in 1 .. s.found[r] - 1 : ~HasWitness(w, r, j)
      /\ \A r \in ProgressReason \ DOMAIN s.found : \A j \in 1 .. n : ~HasWitness(w, r, j)
  BY DEF ProgressOf, Found
<1>4. Established(s, e) \subseteq ProgressReason
  BY EstablishedIs
<1>5. \A r \in ProgressReason \ DOMAIN s.found : r \in Established(s, e) <=> HasWitness(w, r, n + 1)
  BY EstablishedWitness
<1> HIDE DEF t
<1>6. DOMAIN t.found \subseteq ProgressReason
  BY <1>1, <1>3, <1>4
<1>7. ASSUME NEW r \in DOMAIN t.found
      PROVE  /\ t.found[r] \in 1 .. n + 1 /\ HasWitness(w, r, t.found[r])
             /\ \A j \in 1 .. t.found[r] - 1 : ~HasWitness(w, r, j)
  <2>1. CASE r \in DOMAIN s.found
    <3>1. t.found[r] = s.found[r] /\ s.found[r] \in 1 .. n
      BY <1>1, <1>3, <2>1
    <3>2. t.found[r] \in 1 .. n + 1
      BY <3>1
    <3>3. QED
      BY <1>3, <2>1, <3>1, <3>2
  <2>2. CASE r \notin DOMAIN s.found
    <3>1. r \in Established(s, e) /\ r \in ProgressReason \ DOMAIN s.found
      BY <1>1, <1>4, <2>2
    <3>2. t.found[r] = n + 1
      BY <1>1, <1>2, <2>2, <3>1
    <3>3. HasWitness(w, r, n + 1) /\ \A j \in 1 .. n : ~HasWitness(w, r, j)
      BY <1>3, <1>5, <3>1
    <3>4. t.found[r] \in 1 .. n + 1 /\ t.found[r] - 1 = n
      BY <3>2
    <3>5. QED
      BY <3>2, <3>3, <3>4
  <2>3. QED
    BY <2>1, <2>2
<1>8. ASSUME NEW r \in ProgressReason \ DOMAIN t.found, NEW j \in 1 .. n + 1
      PROVE  ~HasWitness(w, r, j)
  <2>1. r \in ProgressReason \ DOMAIN s.found /\ r \notin Established(s, e)
    BY <1>1
  <2>2. CASE j = n + 1
    BY <1>5, <2>1, <2>2
  <2>3. CASE j \in 1 .. n
    BY <1>3, <2>1, <2>3
  <2>4. QED
    BY <2>2, <2>3
<1>9. Found(t, w, n + 1)
  BY <1>6, <1>7, <1>8 DEF Found
<1>10. QED
  BY <1>9 DEF t

LEMMA ProgressGrows ==
  ASSUME NEW s, NEW w, NEW n \in Nat, Usable(w), n + 1 \in 1 .. Len(w), ProgressOf(s, w, n)
  PROVE  ProgressOf(Classify(s, w[n + 1]), w, n + 1)
<1>1. Seen(s, w, n) /\ Known(s, w, n) /\ Open(s, w, n) /\ Polled(s, w, n)
  BY DEF ProgressOf
<1> DEFINE t == Classify(s, w[n + 1])
<1>2. DOMAIN t = Fields
  BY DEF Classify, Fields
<1>3. Seen(t, w, n + 1)
  BY <1>1, SeenGrows
<1>4. Known(t, w, n + 1)
  BY <1>1, KnownGrows
<1>5. Open(t, w, n + 1)
  BY <1>1, OpenGrows
<1>6. Polled(t, w, n + 1)
  BY <1>1, PolledGrows
<1>7. Found(t, w, n + 1)
  BY FoundGrows
<1> HIDE DEF t
<1>8. ProgressOf(t, w, n + 1)
  BY <1>2, <1>3, <1>4, <1>5, <1>6, <1>7 DEF ProgressOf
<1>9. QED
  BY <1>8 DEF t

LEMMA ProgressStarts ==
  ASSUME NEW w
  PROVE  ProgressOf(NoProgressYet, w, 0)
<1> DEFINE s == NoProgressYet
<1>1. /\ s.cursors = {} /\ s.items = {} /\ s.inputs = {} /\ s.errors = {} /\ s.frames = {}
      /\ s.refs = {} /\ s.hypotheses = {} /\ s.pending = {} /\ s.polls = << >>
      /\ s.errorSeen = FALSE /\ s.planSeen = FALSE /\ s.requiredSeen = FALSE
      /\ s.priorEvent = FALSE /\ s.lastFp = None /\ s.found = << >>
      /\ DOMAIN s = Fields
  BY DEF NoProgressYet, Fields
<1>2. 1 .. 0 = {} /\ DOMAIN s.polls = {} /\ DOMAIN s.found = {}
  BY <1>1
<1>3. StateAt(w, 0) = None
  BY <1>2 DEF StateAt
<1> HIDE DEF s
<1>4. Seen(s, w, 0)
  BY <1>1, <1>2 DEF Seen
<1>5. Known(s, w, 0)
  BY <1>1, <1>2, <1>3 DEF Known
<1>6. Open(s, w, 0)
  BY <1>1, <1>2 DEF Open
<1>7. Polled(s, w, 0)
  BY <1>2 DEF Polled
<1>8. Found(s, w, 0)
  BY <1>2 DEF Found
<1>9. ProgressOf(s, w, 0)
  BY <1>1, <1>4, <1>5, <1>6, <1>7, <1>8 DEF ProgressOf
<1>10. QED
  BY <1>9 DEF s

-----------------------------------------------------------------------------
(* The pass over the growing window.                                       *)

IInv == Recorded /\ ProgressOf(progress, window, Len(window))

LEMMA InitHolds == Init => IInv
<1> SUFFICES ASSUME Init
             PROVE  IInv
  OBVIOUS
<1>1. window = << >> /\ Len(window) = 0 /\ alphabet \in Alphabets
  BY DEF Init
<1>2. Recorded
  BY <1>1, WindowBound DEF Recorded
<1>3. ProgressOf(progress, window, Len(window))
  BY <1>1, ProgressStarts DEF Init
<1>4. QED
  BY <1>2, <1>3 DEF IInv

LEMMA PassHolds ==
  ASSUME IInv, NEW e \in alphabet, Pass(e)
  PROVE  IInv'
<1> DEFINE n == Len(window)
           w == window'
<1>1. /\ Recorded' /\ n \in Nat /\ Len(w) = n + 1
      /\ \A p \in 1 .. n : w[p] = window[p]
  BY PassAppends DEF IInv
<1>2. Usable(w)
  <2>1. w \in Seq(Recordings) /\ Len(w) <= MaxWindow /\ \A p \in 1 .. Len(w) : w[p].id = p
    BY <1>1 DEF Recorded
  <2> HIDE DEF w
  <2>2. QED
    BY <2>1, RecordedIsUsable
<1>3. progress' = Classify(progress, w[n + 1])
  BY <1>1 DEF Pass
<1>4. ProgressOf(progress, window, n)
  BY DEF IInv
<1> HIDE DEF n, w
<1>5. ProgressOf(progress, w, n)
  BY <1>1, <1>4, ProgressReads
<1>6. n + 1 \in 1 .. Len(w)
  BY <1>1
<1>7. ProgressOf(progress', w, n + 1)
  BY <1>1, <1>2, <1>3, <1>5, <1>6, ProgressGrows
<1>8. QED
  BY <1>1, <1>7 DEF IInv, w

LEMMA StutterHolds == IInv /\ UNCHANGED vars => IInv'
BY DEF IInv, Recorded, vars

\* What the pass remembers stands for the events of the window it passed: the
\* inductive invariant.
THEOREM Invariance == Spec => []IInv
<1>1. IInv /\ [Next]_vars => IInv'
  BY PassHolds, StutterHolds DEF Next
<1>2. QED
  BY InitHolds, <1>1, PTL DEF Spec

\* classify_progress names only its eleven reasons, supports each by an event
\* of the window, and remembers no absent marker as a value.
THEOREM TypeCorrect == Spec => []TypeOK
<1>1. IInv => TypeOK
  <2> SUFFICES ASSUME IInv
               PROVE  TypeOK
    OBVIOUS
  <2>1. alphabet \in Alphabets /\ Len(window) <= MaxWindow
    BY DEF IInv, Recorded
  <2>2. DOMAIN progress = DOMAIN NoProgressYet
    <3>1. DOMAIN NoProgressYet = Fields
      BY DEF NoProgressYet, Fields
    <3>2. QED
      BY <3>1 DEF IInv, ProgressOf
  <2>3. /\ DOMAIN progress.found \subseteq ProgressReason
        /\ \A r \in DOMAIN progress.found : progress.found[r] \in Positions(window)
    BY DEF IInv, ProgressOf, Found, Positions
  <2>4. None \notin progress.cursors \cup progress.items
    BY DEF IInv, ProgressOf, Seen
  <2>5. None \notin progress.errors \cup progress.inputs
    BY DEF IInv, ProgressOf, Seen, TestsHypothesis
  <2>6. None \notin progress.pending
    BY DEF IInv, ProgressOf, Open
  <2>7. QED
    BY <2>1, <2>2, <2>3, <2>4, <2>5, <2>6 DEF TypeOK
<1>2. QED
  BY Invariance, <1>1, PTL

\* classify_progress finds a reason exactly when events of the window witness
\* it: none of the summaries it keeps loses or invents one.
THEOREM ReasonsWitnessed == Spec => []ReasonsAreWitnessed
<1>1. IInv => ReasonsAreWitnessed
  <2> SUFFICES ASSUME IInv
               PROVE  DOMAIN progress.found =
                        {r \in ProgressReason : \E j \in Positions(window) : HasWitness(window, r, j)}
    BY DEF ReasonsAreWitnessed
  <2> DEFINE n == Len(window)
  <2>1. Found(progress, window, n)
    BY DEF IInv, ProgressOf
  <2>2. ASSUME NEW r \in DOMAIN progress.found
        PROVE  r \in ProgressReason /\ \E j \in 1 .. n : HasWitness(window, r, j)
    BY <2>1 DEF Found
  <2>3. ASSUME NEW r \in ProgressReason, NEW j \in 1 .. n, HasWitness(window, r, j)
        PROVE  r \in DOMAIN progress.found
    BY <2>1, <2>3 DEF Found
  <2>4. QED
    BY <2>2, <2>3 DEF Positions
<1>2. QED
  BY Invariance, <1>1, PTL

\* The event that supports a reason is the first one that completes a witness;
\* later evidence never replaces it.
THEOREM SupportEarliest == Spec => []SupportIsEarliest
<1>1. IInv => SupportIsEarliest
  BY DEF IInv, ProgressOf, Found, SupportIsEarliest, Before
<1>2. QED
  BY Invariance, <1>1, PTL

=============================================================================
