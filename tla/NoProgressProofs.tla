--------------------------- MODULE NoProgressProofs ---------------------------
(***************************************************************************)
(* Proofs about the detectors of the no-progress class and the budget      *)
(* detector, for windows of any length over any events.  For each detector *)
(* there is a predicate of its state, a window and the number of events    *)
(* passed, kept by one iteration of the loop.  Whether a stretch shows     *)
(* progress is a fold; all that is used of it is that a longer stretch     *)
(* with the same start shows progress when a shorter one does.             *)
(***************************************************************************)
EXTENDS NoProgressScan, SequenceTheorems, WellFoundedInduction, TLAPS

-----------------------------------------------------------------------------
(* The window.                                                             *)

Recordings == {[e EXCEPT !.id = p] : e \in UNION Alphabets, p \in 1 .. MaxWindow}

\* Every event of the window has its position for an id.
Recorded ==
  /\ alphabet \in Alphabets
  /\ window \in Seq(Recordings)
  /\ Len(window) <= MaxWindow
  /\ \A p \in 1 .. Len(window) : window[p].id = p

\* The events passed keep their positions, and the new one is last.
LEMMA PassAppends ==
  ASSUME Recorded, NEW e \in alphabet, Pass(e)
  PROVE  /\ Recorded'
         /\ Len(window) \in Nat /\ Len(window') = Len(window) + 1
         /\ \A p \in 1 .. Len(window) : window'[p] = window[p]
<1> DEFINE n == Len(window)
           new == [e EXCEPT !.id = n + 1]
<1>1. n \in Nat /\ n + 1 \in 1 .. MaxWindow
  BY WindowBound DEF Recorded, Pass
<1>2. e \in UNION Alphabets /\ DOMAIN e = DOMAIN Blank
  BY EventAssumption DEF Recorded
<1>3. new \in Recordings
  BY <1>1, <1>2 DEF Recordings
<1>4. new.id = n + 1
  BY <1>2 DEF Blank
<1>5. window' = Append(window, new)
  BY DEF Pass, Record
<1> HIDE DEF new
<1>6. /\ window' \in Seq(Recordings) /\ Len(window') = n + 1
      /\ \A p \in 1 .. n : window'[p] = window[p]
      /\ window'[n + 1] = new
  BY <1>3, <1>5 DEF Recorded
<1>7. \A p \in 1 .. Len(window') : window'[p].id = p
  BY <1>1, <1>4, <1>6 DEF Recorded
<1>8. QED
  BY <1>1, <1>6, <1>7 DEF Recorded, Pass

\* What the detectors may assume of a window: an event's id is its position,
\* counters are all there when they are, and None is no pair.
Usable(w) ==
  /\ Len(w) \in Nat
  /\ \A p \in 1 .. Len(w) :
       /\ w[p].id = p
       /\ w[p].counters = None \/ w[p].counters \in [CounterNames -> Nat]
       /\ None # <<w[p].fp, p>>

LEMMA RecordedIsUsable ==
  ASSUME NEW w \in Seq(Recordings), Len(w) <= MaxWindow, \A p \in 1 .. Len(w) : w[p].id = p
  PROVE  Usable(w)
<1>1. Len(w) \in Nat
  OBVIOUS
<1>2. ASSUME NEW p \in 1 .. Len(w)
      PROVE  /\ w[p].id = p
             /\ w[p].counters = None \/ w[p].counters \in [CounterNames -> Nat]
             /\ None # <<w[p].fp, p>>
  <2>1. w[p] \in Recordings /\ w[p].id = p /\ p \in 1 .. MaxWindow
    BY WindowBound
  <2>2. PICK e \in UNION Alphabets, q \in 1 .. MaxWindow : w[p] = [e EXCEPT !.id = q]
    BY <2>1 DEF Recordings
  <2>3. /\ e.counters = None \/ e.counters \in [CounterNames -> Nat]
        /\ None # <<e.fp, p>>
        /\ "fp" \in DOMAIN e /\ "counters" \in DOMAIN e
    BY <2>1, EventAssumption DEF Blank
  <2>4. w[p].fp = e.fp /\ w[p].counters = e.counters
    BY <2>2, <2>3
  <2>5. QED
    BY <2>1, <2>3, <2>4
<1>3. QED
  BY <1>1, <1>2 DEF Usable

-----------------------------------------------------------------------------
(* Induction, and least and greatest positions.                            *)

\* The order of the naturals is well-founded.
LEMMA LeastExists ==
  ASSUME NEW T \in SUBSET Nat, T # {}
  PROVE  \E m \in T : \A k \in T : m <= k
<1> DEFINE R == OpToRel(<, Nat)
<1>1. IsWellFoundedOn(R, Nat)
  BY NatLessThanWellFounded
<1>2. \A x, y \in Nat : <<y, x>> \in R <=> y < x
  BY DEF OpToRel
<1> HIDE DEF R
<1>3. PICK m \in T : \A k \in T : ~(<<k, m>> \in R)
  BY <1>1, WFMin
<1>4. ASSUME NEW k \in T
      PROVE  m <= k
  <2>1. ~(k < m) /\ k \in Nat /\ m \in Nat
    BY <1>2, <1>3
  <2>2. QED
    BY <2>1
<1>5. QED
  BY <1>4

\* Induction on the naturals over a set.
LEMMA SetInduction ==
  ASSUME NEW S, 0 \in S, \A n \in Nat : n \in S => n + 1 \in S
  PROVE  Nat \subseteq S
<1> DEFINE T == {n \in Nat : n \notin S}
<1> SUFFICES ASSUME T # {}
             PROVE  FALSE
  OBVIOUS
<1>1. PICK m \in T : \A k \in T : m <= k
  <2>1. T \in SUBSET Nat
    OBVIOUS
  <2> HIDE DEF T
  <2>2. QED
    BY <2>1, LeastExists
<1>2. m # 0 /\ m - 1 \in Nat /\ m - 1 \in S
  BY <1>1
<1>3. QED
  BY <1>1, <1>2

LEMMA GreatestExists ==
  ASSUME NEW n \in Nat, NEW T \in SUBSET (1 .. n), T # {}
  PROVE  \E m \in T : \A k \in T : k <= m
<1> DEFINE U == {n - k : k \in T}
<1>1. U \in SUBSET Nat /\ U # {}
  <2>1. \A k \in T : n - k \in Nat
    OBVIOUS
  <2>2. PICK k \in T : TRUE
    OBVIOUS
  <2>3. n - k \in U
    BY <2>2
  <2>4. QED
    BY <2>1, <2>3
<1>2. PICK u \in U : \A v \in U : u <= v
  <2> HIDE DEF U
  <2>1. QED
    BY <1>1, LeastExists
<1>3. PICK m \in T : u = n - m
  BY <1>2
<1>4. ASSUME NEW k \in T
      PROVE  k <= m
  <2>1. n - k \in U
    OBVIOUS
  <2>2. n - m <= n - k
    BY <1>2, <1>3, <2>1
  <2>3. QED
    BY <2>2
<1>5. QED
  BY <1>4

\* Min and Max of the community modules, where there is one.
LEMMA MaxIs ==
  ASSUME NEW n \in Nat, NEW T \in SUBSET (1 .. n), T # {}
  PROVE  Max(T) \in T /\ \A k \in T : k <= Max(T)
<1>1. \E m \in T : \A k \in T : k <= m
  BY GreatestExists
<1>2. \E m \in T : \A k \in T : m >= k
  BY <1>1
<1>3. QED
  BY <1>2 DEF Max

LEMMA MinIs ==
  ASSUME NEW T \in SUBSET Nat, T # {}
  PROVE  Min(T) \in T /\ \A k \in T : Min(T) <= k
<1>1. \E m \in T : \A k \in T : m <= k
  BY LeastExists
<1>2. QED
  BY <1>1 DEF Min

-----------------------------------------------------------------------------
(* Progress of a longer stretch.                                           *)

\* f gives every set of positions what the pass remembers of their events.
Runs(f, w, n) ==
  f = [T \in SUBSET (1 .. n) |->
         IF T = {} THEN NoProgressYet ELSE Classify(f[T \ {Max(T)}], w[Max(T)])]

LEMMA MaxOfPrefix ==
  ASSUME NEW n \in Nat, NEW T \in SUBSET (1 .. n + 1), n + 1 \in T
  PROVE  Max(T) = n + 1
<1>1. n + 1 \in Nat /\ T # {}
  OBVIOUS
<1>2. Max(T) \in T /\ \A k \in T : k <= Max(T)
  BY <1>1, MaxIs
<1>3. Max(T) \in 1 .. n + 1 /\ n + 1 <= Max(T)
  BY <1>2
<1>4. QED
  BY <1>3

LEMMA RunExists ==
  ASSUME NEW w
  PROVE  \A n \in Nat : \E f : Runs(f, w, n)
<1> DEFINE S == {n \in Nat : \E f : Runs(f, w, n)}
<1>1. 0 \in S
  <2> DEFINE f == [T \in SUBSET (1 .. 0) |-> NoProgressYet]
  <2>1. \A T \in SUBSET (1 .. 0) : T = {}
    OBVIOUS
  <2>2. Runs(f, w, 0)
    BY <2>1 DEF Runs
  <2>3. QED
    BY <2>2
<1>2. ASSUME NEW n \in Nat, n \in S
      PROVE  n + 1 \in S
  <2>1. PICK f : Runs(f, w, n)
    BY <1>2
  <2> DEFINE p == n + 1
             g == [T \in SUBSET (1 .. p) |->
                     IF p \in T THEN Classify(f[T \ {p}], w[p]) ELSE f[T]]
             h(T) == IF T = {} THEN NoProgressYet ELSE Classify(g[T \ {Max(T)}], w[Max(T)])
  <2>2. \A T \in SUBSET (1 .. n) :
          f[T] = IF T = {} THEN NoProgressYet ELSE Classify(f[T \ {Max(T)}], w[Max(T)])
    BY <2>1 DEF Runs
  <2>3. \A T \in SUBSET (1 .. n) : T \in SUBSET (1 .. p) /\ p \notin T /\ g[T] = f[T]
    OBVIOUS
  <2>4. ASSUME NEW T \in SUBSET (1 .. p)
        PROVE  g[T] = h(T)
    <3>1. CASE p \in T
      <4>1. Max(T) = p
        BY <3>1, MaxOfPrefix
      <4>2. T \ {p} \in SUBSET (1 .. n)
        OBVIOUS
      <4>3. g[T] = Classify(f[T \ {p}], w[p]) /\ g[T \ {p}] = f[T \ {p}] /\ T # {}
        BY <2>3, <3>1, <4>2
      <4>4. QED
        BY <4>1, <4>3
    <3>2. CASE p \notin T
      <4>1. T \in SUBSET (1 .. n) /\ g[T] = f[T]
        BY <3>2
      <4>2. T \ {Max(T)} \in SUBSET (1 .. n)
        BY <4>1
      <4>3. g[T \ {Max(T)}] = f[T \ {Max(T)}]
        BY <2>3, <4>2
      <4>4. QED
        BY <2>2, <4>1, <4>3
    <3>3. QED
      BY <3>1, <3>2
  <2>5. g = [T \in SUBSET (1 .. p) |-> g[T]]
    OBVIOUS
  <2>6. g = [T \in SUBSET (1 .. p) |-> h(T)]
    <3> HIDE DEF g, h
    <3>1. QED
      BY <2>4, <2>5
  <2>7. Runs(g, w, p)
    BY <2>6 DEF Runs
  <2>8. p \in Nat /\ \E k : Runs(k, w, p)
    BY <2>7
  <2>9. QED
    BY <2>8
<1>3. Nat \subseteq S
  <2> HIDE DEF S
  <2>1. QED
    BY <1>1, <1>2, SetInduction
<1>4. QED
  BY <1>3

RunOf(w) == CHOOSE f : Runs(f, w, Len(w))

StateAfter(w, n) == RunOf(w)[1 .. n]

\* The states between the loop's iterations.
LEMMA RunSteps ==
  ASSUME NEW w, Len(w) \in Nat
  PROVE  /\ StateAfter(w, 0) = NoProgressYet
         /\ \A n \in 0 .. Len(w) - 1 :
              StateAfter(w, n + 1) = Classify(StateAfter(w, n), w[n + 1])
<1> DEFINE f == RunOf(w)
<1>1. Runs(f, w, Len(w))
  <2>1. \E g : Runs(g, w, Len(w))
    BY RunExists
  <2>2. QED
    BY <2>1 DEF RunOf
<1>2. \A T \in SUBSET (1 .. Len(w)) :
        f[T] = IF T = {} THEN NoProgressYet ELSE Classify(f[T \ {Max(T)}], w[Max(T)])
  BY <1>1 DEF Runs
<1> HIDE DEF f
<1>3. f[1 .. 0] = NoProgressYet
  <2>1. 1 .. 0 = {} /\ 1 .. 0 \in SUBSET (1 .. Len(w))
    OBVIOUS
  <2>2. QED
    BY <1>2, <2>1
<1>4. ASSUME NEW n \in 0 .. Len(w) - 1
      PROVE  f[1 .. n + 1] = Classify(f[1 .. n], w[n + 1])
  <2> DEFINE T == 1 .. n + 1
  <2>1. /\ n \in Nat /\ T \in SUBSET (1 .. Len(w)) /\ n + 1 \in T /\ T # {}
        /\ T \ {n + 1} = 1 .. n
    <3>1. n \in Nat /\ \A i \in T : i \in 1 .. Len(w)
      OBVIOUS
    <3>2. n + 1 \in T
      OBVIOUS
    <3>3. T \ {n + 1} = 1 .. n
      OBVIOUS
    <3> HIDE DEF T
    <3>4. QED
      BY <3>1, <3>2, <3>3
  <2>2. Max(T) = n + 1
    BY <2>1, MaxOfPrefix
  <2> HIDE DEF T
  <2>3. QED
    BY <1>2, <2>1, <2>2 DEF T
<1>5. QED
  BY <1>3, <1>4 DEF StateAfter, f

LEMMA ProgressIsRun ==
  ASSUME NEW S, NEW w \in Seq(S)
  PROVE  MadeProgress(w) <=> DOMAIN StateAfter(w, Len(w)).found # {}
<1>1. DOMAIN w = 1 .. Len(w) /\ Len(w) \in Nat
  OBVIOUS
<1>2. \A f : f = [T \in SUBSET DOMAIN w |->
                    IF T = {} THEN NoProgressYet ELSE Classify(f[T \ {Max(T)}], w[Max(T)])]
               <=> Runs(f, w, Len(w))
  BY <1>1 DEF Runs
<1>3. (CHOOSE f : f = [T \in SUBSET DOMAIN w |->
                    IF T = {} THEN NoProgressYet ELSE Classify(f[T \ {Max(T)}], w[Max(T)])])
      = RunOf(w)
  BY <1>2 DEF RunOf
<1>4. QED
  BY <1>1, <1>3 DEF MadeProgress, FoldLeft, MapThenFoldSet, StateAfter

\* A stretch that goes on shows the progress it already showed.
LEMMA ProgressGrows ==
  ASSUME NEW S, NEW w \in Seq(S), NEW v \in Seq(S), Len(w) <= Len(v),
         \A p \in 1 .. Len(w) : v[p] = w[p], MadeProgress(w)
  PROVE  MadeProgress(v)
<1> DEFINE n == Len(w)
           m == Len(v)
           P == {k \in Nat : k <= n => StateAfter(v, k) = StateAfter(w, k)}
           Q == {k \in Nat : n + k <= m => DOMAIN StateAfter(v, n + k).found # {}}
<1>1. n \in Nat /\ m \in Nat
  OBVIOUS
<1>2. /\ StateAfter(w, 0) = NoProgressYet /\ StateAfter(v, 0) = NoProgressYet
      /\ \A k \in 0 .. n - 1 : StateAfter(w, k + 1) = Classify(StateAfter(w, k), w[k + 1])
      /\ \A k \in 0 .. m - 1 : StateAfter(v, k + 1) = Classify(StateAfter(v, k), v[k + 1])
  BY <1>1, RunSteps
<1>3. Nat \subseteq P
  <2>1. 0 \in P
    BY <1>2
  <2>2. ASSUME NEW k \in Nat, k \in P
        PROVE  k + 1 \in P
    <3> SUFFICES ASSUME k + 1 <= n
                 PROVE  StateAfter(v, k + 1) = StateAfter(w, k + 1)
      OBVIOUS
    <3>1. k \in 0 .. n - 1 /\ k \in 0 .. m - 1 /\ k <= n /\ v[k + 1] = w[k + 1]
      BY <1>1
    <3>2. QED
      BY <1>2, <2>2, <3>1
  <2> HIDE DEF P
  <2>3. QED
    BY <2>1, <2>2, SetInduction
<1>4. Nat \subseteq Q
  <2>1. 0 \in Q
    <3>1. n \in P /\ n + 0 = n
      BY <1>1, <1>3
    <3>2. QED
      BY <1>1, <3>1, ProgressIsRun
  <2>2. ASSUME NEW k \in Nat, k \in Q
        PROVE  k + 1 \in Q
    <3> SUFFICES ASSUME n + (k + 1) <= m
                 PROVE  DOMAIN StateAfter(v, n + (k + 1)).found # {}
      OBVIOUS
    <3>1. n + k \in 0 .. m - 1 /\ n + k <= m /\ n + (k + 1) = (n + k) + 1
      BY <1>1
    <3> DEFINE s == StateAfter(v, n + k)
               e == v[(n + k) + 1]
    <3>2. StateAfter(v, (n + k) + 1) = Classify(s, e)
      BY <1>2, <3>1
    <3>3. DOMAIN s.found # {}
      BY <2>2, <3>1
    <3> HIDE DEF s, e
    <3>4. Classify(s, e).found = FoundAfter(s, e)
      BY DEF Classify
    <3>5. DOMAIN FoundAfter(s, e) = DOMAIN s.found \cup Established(s, e)
      BY DEF FoundAfter
    <3>6. QED
      BY <3>1, <3>2, <3>3, <3>4, <3>5
  <2> HIDE DEF Q
  <2>3. QED
    BY <2>1, <2>2, SetInduction
<1>5. m - n \in Nat /\ n + (m - n) = m
  BY <1>1
<1>6. DOMAIN StateAfter(v, m).found # {}
  <2> DEFINE k == m - n
  <2>1. k \in Q
    <3> HIDE DEF Q
    <3>1. QED
      BY <1>4, <1>5
  <2>2. n + k = m /\ n + k <= m
    BY <1>1, <1>5
  <2>3. DOMAIN StateAfter(v, n + k).found # {}
    BY <2>1, <2>2
  <2>4. QED
    BY <2>2, <2>3
<1>7. QED
  BY <1>6, ProgressIsRun

\* Only the events of a stretch decide about it.
LEMMA StretchReads ==
  ASSUME NEW S, NEW T, NEW w \in Seq(S), NEW v \in Seq(T), NEW n \in Nat,
         \A p \in 1 .. n : v[p] = w[p], NEW i \in 1 .. n, NEW j \in 1 .. n
  PROVE  NoProgress(v, i, j) <=> NoProgress(w, i, j)
<1>1. SubSeq(v, i, j) = SubSeq(w, i, j)
  OBVIOUS
<1>2. QED
  BY <1>1 DEF NoProgress

\* A window with progress in some stretch is not free of progress.
LEMMA ProgressStays ==
  ASSUME NEW S, NEW w \in Seq(S), NEW i \in 1 .. Len(w), NEW j \in 1 .. Len(w), i <= j,
         ~NoProgress(w, i, j)
  PROVE  ~ProgressFree(w)
<1> DEFINE short == SubSeq(w, i, j)
           long == SubSeq(w, i, Len(w))
<1>1. i \in Int /\ j \in Int /\ Len(w) \in Nat /\ \A k \in i .. Len(w) : w[k] \in S
  OBVIOUS
<1>2. /\ short \in Seq(S) /\ Len(short) = j - i + 1
      /\ \A k \in 1 .. j - i + 1 : short[k] = w[i + k - 1]
  BY <1>1, SubSeqProperties
<1>3. /\ long \in Seq(S) /\ Len(long) = Len(w) - i + 1
      /\ \A k \in 1 .. Len(w) - i + 1 : long[k] = w[i + k - 1]
  BY <1>1, SubSeqProperties
<1>4. MadeProgress(short)
  BY DEF NoProgress
<1> HIDE DEF short, long
<1>5. Len(short) <= Len(long) /\ \A k \in 1 .. Len(short) : long[k] = short[k]
  BY <1>1, <1>2, <1>3
<1>6. MadeProgress(long)
  BY <1>2, <1>3, <1>4, <1>5, ProgressGrows
<1>7. QED
  BY <1>6 DEF long, ProgressFree, NoProgress, Positions

-----------------------------------------------------------------------------
(* unchanged_state.                                                        *)

\* The latest fingerprint known after n events and its position.
LatestAt(w, n) ==
  IF StateFrom(w, n) = 0 THEN None ELSE <<w[StateFrom(w, n)].fp, StateFrom(w, n)>>

Oldest(w, f, n) == Min(OpenExpectations(w, f, n))

\* The oldest expectation open at an observation of its state.
OldestAt(w, o) == Oldest(w, w[o].fp, o - 1)

\* The observation at o shows the state its oldest open expectation started
\* from, with no progress since.
UnmetAt(w, o) ==
  LET f == w[o].fp
  IN  /\ IsFingerprintedObservation(w[o])
      /\ OpenExpectations(w, f, o - 1) # {}
      /\ NoProgress(w, StateFrom(w, OldestAt(w, o)), o)

SearchingUnmet(s, w, n) ==
  /\ s.latest = LatestAt(w, n)
  /\ \A f : f \in DOMAIN s.pending <=> OpenExpectations(w, f, n) # {}
  /\ \A f \in DOMAIN s.pending :
       s.pending[f] = <<StateFrom(w, Oldest(w, f, n)), Oldest(w, f, n)>>
  /\ \A o \in 1 .. n : ~UnmetAt(w, o)

FoundUnmet(match, w, n) ==
  \E o \in 1 .. n :
    UnmetAt(w, o) /\ match = {StateFrom(w, OldestAt(w, o)), OldestAt(w, o), o}

UnchangedScan(s, w, n) ==
  /\ DOMAIN s = {"latest", "pending", "match"}
  /\ s.match = {} => SearchingUnmet(s, w, n)
  /\ s.match # {} => FoundUnmet(s.match, w, n)

\* The state known at a position is the last fingerprint up to it.
LEMMA StateFromIs ==
  ASSUME NEW w, NEW e \in Nat
  PROVE  LET k == StateFrom(w, e)
         IN  \/ k = 0 /\ \A i \in 1 .. e : w[i].fp = None
             \/ k \in 1 .. e /\ w[k].fp # None /\ \A i \in k + 1 .. e : w[i].fp = None
<1> DEFINE known == {k \in 1 .. e : w[k].fp # None}
<1>1. CASE known = {}
  BY <1>1 DEF StateFrom
<1>2. CASE known # {}
  <2>1. StateFrom(w, e) = Max(known)
    BY <1>2 DEF StateFrom
  <2>2. Max(known) \in known /\ \A k \in known : k <= Max(known)
    <3>1. known \in SUBSET (1 .. e)
      OBVIOUS
    <3> HIDE DEF known
    <3>2. QED
      BY <1>2, <3>1, MaxIs
  <2> DEFINE m == Max(known)
  <2>3. m \in 1 .. e /\ w[m].fp # None /\ \A i \in 1 .. e : w[i].fp # None => i <= m
    BY <2>2
  <2> HIDE DEF m
  <2>4. \A i \in m + 1 .. e : w[i].fp = None
    BY <2>3
  <2>5. QED
    BY <2>1, <2>3, <2>4 DEF m
<1>3. QED
  BY <1>1, <1>2

LEMMA StateFromReads ==
  ASSUME NEW w, NEW v, NEW e \in Nat, \A p \in 1 .. e : v[p] = w[p]
  PROVE  StateFrom(v, e) = StateFrom(w, e)
<1>1. {k \in 1 .. e : v[k].fp # None} = {k \in 1 .. e : w[k].fp # None}
  OBVIOUS
<1>2. QED
  BY <1>1 DEF StateFrom

LEMMA NextStateFrom ==
  ASSUME NEW w, NEW n \in Nat
  PROVE  StateFrom(w, n + 1) = IF w[n + 1].fp # None THEN n + 1 ELSE StateFrom(w, n)
<1> DEFINE k == StateFrom(w, n)
           l == StateFrom(w, n + 1)
<1>1. \/ k = 0 /\ \A i \in 1 .. n : w[i].fp = None
      \/ k \in 1 .. n /\ w[k].fp # None /\ \A i \in k + 1 .. n : w[i].fp = None
  BY StateFromIs
<1>2. n + 1 \in Nat
  OBVIOUS
<1>3. \/ l = 0 /\ \A i \in 1 .. n + 1 : w[i].fp = None
      \/ l \in 1 .. n + 1 /\ w[l].fp # None /\ \A i \in l + 1 .. n + 1 : w[i].fp = None
  BY <1>2, StateFromIs
<1> HIDE DEF k, l
<1>4. l = IF w[n + 1].fp # None THEN n + 1 ELSE k
  BY <1>1, <1>3
<1>5. QED
  BY <1>4 DEF k, l

LEMMA OpenReads ==
  ASSUME NEW w, NEW v, NEW n \in Nat, \A p \in 1 .. n : v[p] = w[p], NEW f
  PROVE  OpenExpectations(v, f, n) = OpenExpectations(w, f, n)
<1>1. \A e \in 1 .. n : StateFrom(v, e) = StateFrom(w, e)
  BY StateFromReads
<1>2. \A e \in 1 .. n : StateFrom(w, e) = 0 \/ StateFrom(w, e) \in 1 .. n
  <2> TAKE e \in 1 .. n
  <2>1. StateFrom(w, e) = 0 \/ StateFrom(w, e) \in 1 .. e
    BY StateFromIs
  <2>2. QED
    BY <2>1
<1>3. \A e \in 1 .. n : StateFrom(w, e) # 0 => v[StateFrom(v, e)].fp = w[StateFrom(w, e)].fp
  BY <1>1, <1>2
<1>4. \A k \in 1 .. n : IsFingerprintedObservation(v[k]) <=> IsFingerprintedObservation(w[k])
  BY DEF IsFingerprintedObservation
<1>5. ASSUME NEW e \in 1 .. n
      PROVE  e \in OpenExpectations(v, f, n) <=> e \in OpenExpectations(w, f, n)
  <2>1. \A k \in e + 1 .. n : k \in 1 .. n
    OBVIOUS
  <2>2. QED
    BY <1>1, <1>3, <1>4, <2>1 DEF OpenExpectations
<1>6. OpenExpectations(v, f, n) \subseteq 1 .. n /\ OpenExpectations(w, f, n) \subseteq 1 .. n
  BY DEF OpenExpectations
<1>7. QED
  BY <1>5, <1>6

\* What is open after one more event: an observation closes everything, and
\* the event may open an expectation of its own.
LEMMA NextOpen ==
  ASSUME NEW w, NEW n \in Nat, NEW f
  PROVE  OpenExpectations(w, f, n + 1) =
           (IF IsFingerprintedObservation(w[n + 1]) THEN {} ELSE OpenExpectations(w, f, n))
             \cup {e \in {n + 1} : /\ w[n + 1].expects /\ StateFrom(w, n + 1) # 0
                                   /\ w[StateFrom(w, n + 1)].fp = f}
<1>1. n + 1 \in OpenExpectations(w, f, n + 1) <=>
        w[n + 1].expects /\ StateFrom(w, n + 1) # 0 /\ w[StateFrom(w, n + 1)].fp = f
  BY DEF OpenExpectations
<1>2. ASSUME NEW e \in 1 .. n
      PROVE  e \in OpenExpectations(w, f, n + 1) <=>
               e \in OpenExpectations(w, f, n) /\ ~IsFingerprintedObservation(w[n + 1])
  <2>1. e + 1 .. n + 1 = (e + 1 .. n) \cup {n + 1} /\ e \in 1 .. n + 1
    OBVIOUS
  <2>2. QED
    BY <2>1 DEF OpenExpectations
<1>3. OpenExpectations(w, f, n + 1) \subseteq 1 .. n + 1 /\ OpenExpectations(w, f, n) \subseteq 1 .. n
  BY DEF OpenExpectations
<1>4. \A e \in 1 .. n + 1 : e \in 1 .. n \/ e = n + 1
  OBVIOUS
<1>5. n + 1 \notin 1 .. n
  OBVIOUS
<1>6. QED
  BY <1>1, <1>2, <1>3, <1>4, <1>5

LEMMA OldestIs ==
  ASSUME NEW w, NEW n \in Nat, NEW f, OpenExpectations(w, f, n) # {}
  PROVE  LET e == Oldest(w, f, n)
         IN  /\ e \in OpenExpectations(w, f, n) /\ e \in 1 .. n
             /\ StateFrom(w, e) \in 1 .. e /\ StateFrom(w, e) \in 1 .. n
<1> DEFINE e == Oldest(w, f, n)
<1>1. OpenExpectations(w, f, n) \in SUBSET Nat /\ OpenExpectations(w, f, n) \subseteq 1 .. n
  BY DEF OpenExpectations
<1>2. e \in OpenExpectations(w, f, n)
  BY <1>1, MinIs DEF Oldest
<1>3. e \in 1 .. n /\ StateFrom(w, e) # 0
  BY <1>1, <1>2 DEF OpenExpectations
<1> HIDE DEF e
<1>4. StateFrom(w, e) = 0 \/ StateFrom(w, e) \in 1 .. e
  BY <1>3, StateFromIs
<1>5. QED
  BY <1>2, <1>3, <1>4 DEF e

\* A later position does not change the least one.
LEMMA MinStays ==
  ASSUME NEW n \in Nat, NEW T \in SUBSET (1 .. n), T # {}, NEW U \in SUBSET {n + 1}
  PROVE  Min(T \cup U) = Min(T)
<1> DEFINE V == T \cup U
           a == Min(T)
           b == Min(V)
<1>1. T \in SUBSET Nat /\ V \in SUBSET Nat /\ V # {}
  OBVIOUS
<1>2. a \in T /\ \A k \in T : a <= k
  BY <1>1, MinIs
<1>3. b \in V /\ \A k \in V : b <= k
  <2> HIDE DEF V
  <2>1. QED
    BY <1>1, MinIs
<1> HIDE DEF a, b
<1>4. b <= a /\ a \in 1 .. n /\ (b \in T \/ b = n + 1)
  BY <1>2, <1>3
<1>5. b \in T
  BY <1>4
<1>6. a = b
  BY <1>2, <1>4, <1>5
<1>7. QED
  BY <1>6 DEF a, b

LEMMA MinOfOne ==
  ASSUME NEW k \in Nat
  PROVE  Min({k}) = k
<1>1. {k} \in SUBSET Nat /\ {k} # {}
  OBVIOUS
<1>2. QED
  BY <1>1, MinIs

LEMMA UnmetReads ==
  ASSUME NEW S, NEW T, NEW w \in Seq(S), NEW v \in Seq(T), NEW n \in Nat,
         \A p \in 1 .. n : v[p] = w[p], NEW o \in 1 .. n
  PROVE  /\ UnmetAt(v, o) <=> UnmetAt(w, o)
         /\ OldestAt(v, o) = OldestAt(w, o)
         /\ UnmetAt(w, o) => StateFrom(v, OldestAt(w, o)) = StateFrom(w, OldestAt(w, o))
<1> DEFINE f == w[o].fp
           e == OldestAt(w, o)
<1>1. o - 1 \in Nat /\ v[o] = w[o] /\ \A p \in 1 .. o - 1 : v[p] = w[p]
  OBVIOUS
<1>2. OpenExpectations(v, f, o - 1) = OpenExpectations(w, f, o - 1)
  BY <1>1, OpenReads
<1>3. OldestAt(v, o) = e
  BY <1>1, <1>2 DEF OldestAt, Oldest
<1>4. ASSUME OpenExpectations(w, f, o - 1) # {}
      PROVE  /\ StateFrom(v, e) = StateFrom(w, e)
             /\ NoProgress(v, StateFrom(w, e), o) <=> NoProgress(w, StateFrom(w, e), o)
  <2>1. e \in 1 .. o - 1 /\ StateFrom(w, e) \in 1 .. o - 1
    BY <1>1, <1>4, OldestIs DEF OldestAt
  <2>2. e \in Nat /\ \A p \in 1 .. e : v[p] = w[p]
    BY <1>1, <2>1
  <2> HIDE DEF e
  <2>3. StateFrom(v, e) = StateFrom(w, e)
    BY <2>2, StateFromReads
  <2>4. StateFrom(w, e) \in 1 .. n
    BY <2>1
  <2>5. QED
    BY <2>3, <2>4, StretchReads
<1>5. IsFingerprintedObservation(v[o]) <=> IsFingerprintedObservation(w[o])
  BY <1>1
<1>6. UnmetAt(v, o) <=> UnmetAt(w, o)
  BY <1>1, <1>2, <1>3, <1>4, <1>5 DEF UnmetAt
<1>7. QED
  BY <1>3, <1>4, <1>6 DEF UnmetAt

LEMMA UnchangedScanReads ==
  ASSUME NEW S, NEW T, NEW w \in Seq(S), NEW v \in Seq(T), NEW n \in Nat, NEW s,
         \A p \in 1 .. n : v[p] = w[p], UnchangedScan(s, w, n)
  PROVE  UnchangedScan(s, v, n)
<1>1. ASSUME s.match = {}
      PROVE  SearchingUnmet(s, v, n)
  <2>1. SearchingUnmet(s, w, n)
    BY <1>1 DEF UnchangedScan
  <2>2. StateFrom(v, n) = StateFrom(w, n) /\ (StateFrom(w, n) = 0 \/ StateFrom(w, n) \in 1 .. n)
    BY StateFromReads, StateFromIs
  <2>3. s.latest = LatestAt(v, n)
    BY <2>1, <2>2 DEF SearchingUnmet, LatestAt
  <2>4. \A f : OpenExpectations(v, f, n) = OpenExpectations(w, f, n)
    BY OpenReads
  <2>5. \A f : f \in DOMAIN s.pending <=> OpenExpectations(v, f, n) # {}
    BY <2>1, <2>4 DEF SearchingUnmet
  <2>6. ASSUME NEW f \in DOMAIN s.pending
        PROVE  s.pending[f] = <<StateFrom(v, Oldest(v, f, n)), Oldest(v, f, n)>>
    <3> DEFINE e == Oldest(w, f, n)
    <3>1. s.pending[f] = <<StateFrom(w, e), e>> /\ OpenExpectations(w, f, n) # {}
      BY <2>1 DEF SearchingUnmet
    <3>2. e \in 1 .. n
      BY <3>1, OldestIs
    <3>3. Oldest(v, f, n) = e
      BY <2>4 DEF Oldest
    <3> HIDE DEF e
    <3>4. StateFrom(v, e) = StateFrom(w, e)
      <4>1. e \in Nat /\ \A p \in 1 .. e : v[p] = w[p]
        BY <3>2
      <4>2. QED
        BY <4>1, StateFromReads
    <3>5. QED
      BY <3>1, <3>3, <3>4
  <2>7. \A o \in 1 .. n : ~UnmetAt(v, o)
    BY <2>1, UnmetReads DEF SearchingUnmet
  <2>8. QED
    BY <2>3, <2>5, <2>6, <2>7 DEF SearchingUnmet
<1>2. ASSUME s.match # {}
      PROVE  FoundUnmet(s.match, v, n)
  <2>1. PICK o \in 1 .. n :
          UnmetAt(w, o) /\ s.match = {StateFrom(w, OldestAt(w, o)), OldestAt(w, o), o}
    BY <1>2 DEF UnchangedScan, FoundUnmet
  <2>2. /\ UnmetAt(v, o) /\ OldestAt(v, o) = OldestAt(w, o)
        /\ StateFrom(v, OldestAt(w, o)) = StateFrom(w, OldestAt(w, o))
    BY <2>1, UnmetReads
  <2>3. QED
    BY <2>1, <2>2 DEF FoundUnmet
<1>3. QED
  BY <1>1, <1>2 DEF UnchangedScan

\* The detector tests for exactly what UnmetAt says.
LEMMA UnmetIs ==
  ASSUME NEW s, NEW w, NEW n \in Nat, SearchingUnmet(s, w, n)
  PROVE  Unmet(s, w, n + 1) <=> UnmetAt(w, n + 1)
<1> DEFINE p == n + 1
           f == w[p].fp
           e == Oldest(w, f, n)
<1>1. f \in DOMAIN s.pending <=> OpenExpectations(w, f, n) # {}
  BY DEF SearchingUnmet
<1>2. p - 1 = n /\ OldestAt(w, p) = e
  BY DEF OldestAt
<1>3. CASE OpenExpectations(w, f, n) = {}
  BY <1>1, <1>2, <1>3 DEF Unmet, UnmetAt
<1>4. CASE OpenExpectations(w, f, n) # {}
  <2>1. s.pending[f] = <<StateFrom(w, e), e>>
    BY <1>1, <1>4 DEF SearchingUnmet
  <2>2. e \in 1 .. n /\ StateFrom(w, e) \in 1 .. e
    BY <1>4, OldestIs
  <2>3. ExpectationWindow(w, s.pending[f], p) = SubSeq(w, StateFrom(w, e), p)
    <3>1. (IF StateFrom(w, e) < e THEN StateFrom(w, e) ELSE e) = StateFrom(w, e)
      BY <2>2
    <3>2. s.pending[f][1] = StateFrom(w, e) /\ s.pending[f][2] = e
      BY <2>1
    <3> HIDE DEF e, f, p
    <3>3. QED
      BY <3>1, <3>2 DEF ExpectationWindow
  <2>4. QED
    BY <1>1, <1>2, <1>4, <2>3 DEF Unmet, UnmetAt, NoProgress
<1>5. QED
  BY <1>3, <1>4

\* What the loop keeps when the event is no unmet observation.
LEMMA PendingGrows ==
  ASSUME NEW s, NEW w, NEW n \in Nat, Usable(w), n + 1 <= Len(w), SearchingUnmet(s, w, n),
         ~UnmetAt(w, n + 1),
         NEW t, t.latest = LatestAfter(s, w[n + 1], n + 1),
         t.pending = IF w[n + 1].expects
                     THEN Expect(Unsettled(s, w[n + 1]), LatestAfter(s, w[n + 1], n + 1), n + 1)
                     ELSE Unsettled(s, w[n + 1])
  PROVE  SearchingUnmet(t, w, n + 1)
<1> DEFINE p == n + 1
           e == w[p]
           kept == Unsettled(s, e)
           baseline == LatestAt(w, p)
           from == StateFrom(w, p)
           K(f) == IF IsFingerprintedObservation(e) THEN {} ELSE OpenExpectations(w, f, n)
           U(f) == {x \in {p} : e.expects /\ from # 0 /\ w[from].fp = f}
<1>1. LatestAfter(s, e, p) = baseline
  <2>1. from = IF e.fp # None THEN p ELSE StateFrom(w, n)
    BY NextStateFrom
  <2>2. s.latest = LatestAt(w, n)
    BY DEF SearchingUnmet
  <2>3. QED
    BY <2>1, <2>2 DEF LatestAfter, LatestAt
<1>2. t.latest = baseline /\ t.pending = IF e.expects THEN Expect(kept, baseline, p) ELSE kept
  BY <1>1
<1>3. \A f : /\ f \in DOMAIN kept <=> K(f) # {}
             /\ K(f) # {} => kept[f] = <<StateFrom(w, Min(K(f))), Min(K(f))>>
  <2>1. \A f : f \in DOMAIN s.pending <=> OpenExpectations(w, f, n) # {}
    BY DEF SearchingUnmet
  <2>2. \A f \in DOMAIN s.pending :
          s.pending[f] = <<StateFrom(w, Oldest(w, f, n)), Oldest(w, f, n)>>
    BY DEF SearchingUnmet
  <2>3. CASE IsFingerprintedObservation(e)
    BY <2>3 DEF Unsettled
  <2>4. CASE ~IsFingerprintedObservation(e)
    BY <2>1, <2>2, <2>4 DEF Unsettled, Oldest
  <2>5. QED
    BY <2>3, <2>4
<1>4. \A f : OpenExpectations(w, f, p) = K(f) \cup U(f)
  BY NextOpen
<1>5. \A f : K(f) \in SUBSET (1 .. n) /\ U(f) \in SUBSET {p}
  BY DEF OpenExpectations
<1>6. from = 0 \/ from \in 1 .. p
  BY StateFromIs
<1>7. /\ baseline = None <=> from = 0
      /\ from # 0 => baseline = <<w[from].fp, from>>
  <2>1. from # 0 => None # <<w[from].fp, from>>
    BY <1>6 DEF Usable
  <2>2. QED
    BY <2>1 DEF LatestAt
<1>8. \A f : U(f) # {} <=> e.expects /\ from # 0 /\ w[from].fp = f
  OBVIOUS
<1> HIDE DEF K, U, kept, baseline, from, e
<1>9. \A f : f \in DOMAIN t.pending <=> K(f) # {} \/ U(f) # {}
  <2>1. CASE e.expects /\ from # 0
    <3> DEFINE g == w[from].fp
    <3>1. baseline[1] = g /\ baseline # None /\ t.pending = Expect(kept, baseline, p)
      BY <1>2, <1>7, <2>1
    <3>2. DOMAIN t.pending = DOMAIN kept \cup {g}
      BY <3>1 DEF Expect
    <3>3. \A f : U(f) # {} <=> f = g
      BY <1>8, <2>1
    <3> HIDE DEF g
    <3>4. QED
      BY <1>3, <3>2, <3>3
  <2>2. CASE ~(e.expects /\ from # 0)
    BY <1>2, <1>3, <1>7, <1>8, <2>2 DEF Expect
  <2>3. QED
    BY <2>1, <2>2
<1>10. \A f : K(f) # {} => t.pending[f] = kept[f]
  <2>1. CASE e.expects /\ from # 0
    BY <1>2, <1>3, <1>7, <2>1 DEF Expect
  <2>2. CASE ~(e.expects /\ from # 0)
    BY <1>2, <1>7, <2>2 DEF Expect
  <2>3. QED
    BY <2>1, <2>2
<1>11. \A f : K(f) = {} /\ U(f) # {} => t.pending[f] = <<from, p>>
  <2> SUFFICES ASSUME NEW f, K(f) = {}, U(f) # {}
               PROVE  t.pending[f] = <<from, p>>
    OBVIOUS
  <2>1. e.expects /\ from # 0 /\ baseline = <<f, from>> /\ baseline # None
    BY <1>7, <1>8
  <2>2. f \notin DOMAIN kept
    BY <1>3
  <2>3. QED
    BY <1>2, <2>1, <2>2 DEF Expect
<1>12. ASSUME NEW f \in DOMAIN t.pending
       PROVE  t.pending[f] = <<StateFrom(w, Oldest(w, f, p)), Oldest(w, f, p)>>
  <2>1. Oldest(w, f, p) = Min(K(f) \cup U(f))
    BY <1>4 DEF Oldest
  <2>2. CASE K(f) # {}
    <3>1. Min(K(f) \cup U(f)) = Min(K(f))
      BY <1>5, <2>2, MinStays
    <3>2. QED
      BY <1>3, <1>10, <2>1, <2>2, <3>1
  <2>3. CASE K(f) = {}
    <3>1. U(f) = {p}
      BY <1>5, <1>9, <2>3
    <3>2. Min(K(f) \cup U(f)) = p
      <4>1. K(f) \cup U(f) = {p} /\ p \in Nat
        BY <2>3, <3>1
      <4>2. QED
        BY <4>1, MinOfOne
    <3>3. t.pending[f] = <<from, p>>
      BY <1>11, <2>3, <3>1
    <3>4. QED
      BY <2>1, <3>2, <3>3 DEF from
  <2>4. QED
    BY <2>2, <2>3
<1>13. \A o \in 1 .. p : ~UnmetAt(w, o)
  BY DEF SearchingUnmet
<1>14. \A f : f \in DOMAIN t.pending <=> OpenExpectations(w, f, p) # {}
  BY <1>4, <1>9
<1>15. QED
  BY <1>2, <1>12, <1>13, <1>14 DEF SearchingUnmet, baseline

\* One iteration of the loop.
LEMMA UnchangedStepScans ==
  ASSUME NEW s, NEW w, NEW n \in Nat, Usable(w), n + 1 <= Len(w), UnchangedScan(s, w, n)
  PROVE  UnchangedScan(UnchangedStep(s, w, n + 1), w, n + 1)
<1> DEFINE p == n + 1
           t == UnchangedStep(s, w, p)
<1> SUFFICES UnchangedScan(t, w, p)
  OBVIOUS
<1>1. CASE s.match # {}
  <2>1. t = s
    BY <1>1 DEF UnchangedStep
  <2>2. PICK o \in 1 .. n :
          UnmetAt(w, o) /\ s.match = {StateFrom(w, OldestAt(w, o)), OldestAt(w, o), o}
    BY <1>1 DEF UnchangedScan, FoundUnmet
  <2>3. o \in 1 .. p
    OBVIOUS
  <2>4. QED
    BY <1>1, <2>1, <2>2, <2>3 DEF UnchangedScan, FoundUnmet
<1>2. CASE s.match = {} /\ UnmetAt(w, p)
  <2>1. SearchingUnmet(s, w, n)
    BY <1>2 DEF UnchangedScan
  <2> DEFINE f == w[p].fp
             e == OldestAt(w, p)
  <2>2. t = [s EXCEPT !.match = {w[s.pending[f][1]].id, w[s.pending[f][2]].id, w[p].id}]
    BY <1>2, <2>1, UnmetIs DEF UnchangedStep
  <2>3. OpenExpectations(w, f, n) # {} /\ e = Oldest(w, f, n)
    BY <1>2 DEF UnmetAt, OldestAt
  <2>4. s.pending[f] = <<StateFrom(w, e), e>>
    BY <2>1, <2>3 DEF SearchingUnmet
  <2>5. e \in 1 .. n /\ StateFrom(w, e) \in 1 .. n
    BY <2>3, OldestIs
  <2>6. w[StateFrom(w, e)].id = StateFrom(w, e) /\ w[e].id = e /\ w[p].id = p
    <3>1. \A k \in 1 .. p : w[k].id = k
      BY DEF Usable
    <3>2. e \in 1 .. p /\ StateFrom(w, e) \in 1 .. p /\ p \in 1 .. p
      BY <2>5
    <3>3. QED
      BY <3>1, <3>2
  <2>7. /\ DOMAIN t = {"latest", "pending", "match"}
        /\ t.match = {StateFrom(w, e), e, p}
    <3>1. DOMAIN s = {"latest", "pending", "match"}
      BY DEF UnchangedScan
    <3>2. s.pending[f][1] = StateFrom(w, e) /\ s.pending[f][2] = e
      BY <2>4
    <3> HIDE DEF e, f, t
    <3>3. QED
      BY <2>2, <2>6, <3>1, <3>2
  <2>8. FoundUnmet(t.match, w, p)
    BY <1>2, <2>7 DEF FoundUnmet
  <2>9. QED
    BY <2>7, <2>8 DEF UnchangedScan
<1>3. CASE s.match = {} /\ ~UnmetAt(w, p)
  <2>1. SearchingUnmet(s, w, n) /\ DOMAIN s = {"latest", "pending", "match"}
    BY <1>3 DEF UnchangedScan
  <2>2. t = [s EXCEPT !.latest = LatestAfter(s, w[p], p),
                      !.pending = IF w[p].expects
                                  THEN Expect(Unsettled(s, w[p]), LatestAfter(s, w[p], p), p)
                                  ELSE Unsettled(s, w[p])]
    BY <1>3, <2>1, UnmetIs DEF UnchangedStep
  <2>3. /\ DOMAIN t = {"latest", "pending", "match"} /\ t.match = {}
        /\ t.latest = LatestAfter(s, w[p], p)
        /\ t.pending = IF w[p].expects
                       THEN Expect(Unsettled(s, w[p]), LatestAfter(s, w[p], p), p)
                       ELSE Unsettled(s, w[p])
    BY <1>3, <2>1, <2>2
  <2> HIDE DEF t
  <2>4. SearchingUnmet(t, w, p)
    BY <1>3, <2>1, <2>3, PendingGrows
  <2>5. QED
    BY <2>3, <2>4 DEF UnchangedScan
<1>4. QED
  BY <1>1, <1>2, <1>3

LEMMA UnchangedStarts ==
  ASSUME NEW w
  PROVE  UnchangedScan(UnchangedStart, w, 0)
<1>1. StateFrom(w, 0) = 0 /\ \A f : OpenExpectations(w, f, 0) = {}
  BY DEF StateFrom, OpenExpectations
<1>2. QED
  BY <1>1 DEF UnchangedScan, UnchangedStart, SearchingUnmet, LatestAt

\* What the detector returns after the last event.
LEMMA UnchangedDecides ==
  ASSUME NEW s, NEW w, Len(w) \in Nat, UnchangedScan(s, w, Len(w))
  PROVE  Decides(s.match, UnmetExpectations(w))
<1> DEFINE P == 1 .. Len(w)
           unmet == {x \in P \X P :
                       LET open == OpenExpectations(w, w[x[2]].fp, x[2] - 1)
                       IN  /\ IsFingerprintedObservation(w[x[2]])
                           /\ open # {} /\ x[1] = Min(open)
                           /\ NoProgress(w, StateFrom(w, x[1]), x[2])}
<1>1. UnmetExpectations(w) = {{StateFrom(w, c[1]), c[1], c[2]} : c \in unmet}
  BY DEF UnmetExpectations, Positions
<1>2. \A e, o \in P : <<e, o>> \in unmet <=> UnmetAt(w, o) /\ e = OldestAt(w, o)
  BY DEF UnmetAt, OldestAt, Oldest
<1>3. \A c \in unmet : c[1] \in P /\ c[2] \in P /\ c = <<c[1], c[2]>>
  OBVIOUS
<1>4. \A o \in P : UnmetAt(w, o) => OldestAt(w, o) \in P
  <2> SUFFICES ASSUME NEW o \in P, UnmetAt(w, o)
               PROVE  OldestAt(w, o) \in P
    OBVIOUS
  <2>1. OpenExpectations(w, w[o].fp, o - 1) # {} /\ o - 1 \in Nat
    BY DEF UnmetAt
  <2>2. OldestAt(w, o) \in 1 .. o - 1
    BY <2>1, OldestIs DEF OldestAt
  <2>3. QED
    BY <2>2
<1> HIDE DEF unmet
<1>5. CASE s.match = {}
  <2>1. \A o \in P : ~UnmetAt(w, o)
    BY <1>5 DEF UnchangedScan, SearchingUnmet
  <2>2. unmet = {}
    BY <1>2, <1>3, <2>1
  <2>3. QED
    BY <1>1, <1>5, <2>2 DEF Decides
<1>6. CASE s.match # {}
  <2>1. PICK o \in P : UnmetAt(w, o) /\ s.match = {StateFrom(w, OldestAt(w, o)), OldestAt(w, o), o}
    BY <1>6 DEF UnchangedScan, FoundUnmet
  <2> DEFINE c == <<OldestAt(w, o), o>>
  <2>2. c \in unmet /\ s.match = {StateFrom(w, c[1]), c[1], c[2]}
    BY <1>2, <1>4, <2>1
  <2> HIDE DEF c
  <2>3. s.match \in UnmetExpectations(w)
    BY <1>1, <2>2
  <2>4. QED
    BY <2>3 DEF Decides
<1>7. QED
  BY <1>5, <1>6

-----------------------------------------------------------------------------
(* acceptance_stall.                                                       *)

StallAt(w, i, j) ==
  /\ i < j /\ SameCheck(w, i, j)
  /\ w[i].delta = w[j].delta
  /\ \A k \in i + 1 .. j - 1 : ~SameCheck(w, i, k)
  /\ NoProgress(w, i, j)

ChecksOf(w, id, n) == {k \in 1 .. n : IsComparableCheck(w[k]) /\ Identity(w[k]) = id}

\* i is the latest check of an identity.
LatestCheck(w, id, n, i) ==
  i \in ChecksOf(w, id, n) /\ \A k \in ChecksOf(w, id, n) : k <= i

ProgressIn(w, n) == \E i, j \in 1 .. n : i <= j /\ ~NoProgress(w, i, j)

TwoChecks(w, n) ==
  \E i, j \in 1 .. n :
    /\ IsComparableCheck(w[i]) /\ IsComparableCheck(w[j])
    /\ Identity(w[i]) # Identity(w[j])

\* Every baseline is a latest check; either a check progressed beside the
\* check of another identity, or no baseline was ever lost.
SearchingStall(s, w, n) ==
  /\ \A id \in DOMAIN s.baselines :
       \E i \in 1 .. n : s.baselines[id] = <<w[i].delta, i>> /\ LatestCheck(w, id, n, i)
  /\ \/ TwoChecks(w, n) /\ ProgressIn(w, n)
     \/ /\ \A i \in 1 .. n : IsComparableCheck(w[i]) => Identity(w[i]) \in DOMAIN s.baselines
        /\ \A i, j \in 1 .. n : ~StallAt(w, i, j)

FoundStall(match, w, n) == \E i, j \in 1 .. n : StallAt(w, i, j) /\ match = {i, j}

StallScan(s, w, n) ==
  /\ DOMAIN s = {"baselines", "match"}
  /\ s.match = {} => SearchingStall(s, w, n)
  /\ s.match # {} => FoundStall(s.match, w, n)

\* The first of two consecutive checks is the latest check before the second.
LEMMA StallStartsAtLatest ==
  ASSUME NEW w, NEW n \in Nat, NEW id, NEW i, LatestCheck(w, id, n, i),
         NEW k \in 1 .. n, StallAt(w, k, n + 1), id = Identity(w[n + 1])
  PROVE  k = i
<1>1. k \in ChecksOf(w, id, n) /\ i \in ChecksOf(w, id, n) /\ k <= i
  BY DEF StallAt, SameCheck, ChecksOf, LatestCheck
<1>2. SameCheck(w, k, i)
  BY <1>1 DEF ChecksOf, SameCheck
<1>3. ~(i \in k + 1 .. (n + 1) - 1)
  BY <1>2 DEF StallAt
<1>4. i \in 1 .. n
  BY <1>1 DEF ChecksOf
<1>5. QED
  BY <1>1, <1>3, <1>4

LEMMA StallReads ==
  ASSUME NEW S, NEW T, NEW w \in Seq(S), NEW v \in Seq(T), NEW n \in Nat,
         \A p \in 1 .. n : v[p] = w[p], NEW i \in 1 .. n, NEW j \in 1 .. n
  PROVE  StallAt(v, i, j) <=> StallAt(w, i, j)
<1>1. NoProgress(v, i, j) <=> NoProgress(w, i, j)
  BY StretchReads
<1>2. \A k \in 1 .. n : SameCheck(v, i, k) <=> SameCheck(w, i, k)
  BY DEF SameCheck
<1>3. \A k \in i + 1 .. j - 1 : k \in 1 .. n
  OBVIOUS
<1>4. v[i].delta = w[i].delta /\ v[j].delta = w[j].delta
  OBVIOUS
<1>5. QED
  BY <1>1, <1>2, <1>3, <1>4 DEF StallAt

LEMMA LatestCheckReads ==
  ASSUME NEW w, NEW v, NEW n \in Nat, \A p \in 1 .. n : v[p] = w[p], NEW id, NEW i
  PROVE  LatestCheck(v, id, n, i) <=> LatestCheck(w, id, n, i)
<1>1. ChecksOf(v, id, n) = ChecksOf(w, id, n)
  BY DEF ChecksOf
<1>2. QED
  BY <1>1 DEF LatestCheck

LEMMA ProgressInReads ==
  ASSUME NEW S, NEW T, NEW w \in Seq(S), NEW v \in Seq(T), NEW n \in Nat,
         \A p \in 1 .. n : v[p] = w[p]
  PROVE  ProgressIn(v, n) <=> ProgressIn(w, n)
<1>1. \A i, j \in 1 .. n : NoProgress(v, i, j) <=> NoProgress(w, i, j)
  BY StretchReads
<1>2. QED
  BY <1>1 DEF ProgressIn

LEMMA StallScanReads ==
  ASSUME NEW S, NEW T, NEW w \in Seq(S), NEW v \in Seq(T), NEW n \in Nat, NEW s,
         \A p \in 1 .. n : v[p] = w[p], StallScan(s, w, n)
  PROVE  StallScan(s, v, n)
<1>1. \A i, j \in 1 .. n : StallAt(v, i, j) <=> StallAt(w, i, j)
  BY StallReads
<1>2. ASSUME s.match = {}
      PROVE  SearchingStall(s, v, n)
  <2>1. SearchingStall(s, w, n)
    BY <1>2 DEF StallScan
  <2>2. \A id \in DOMAIN s.baselines :
          \E i \in 1 .. n : s.baselines[id] = <<v[i].delta, i>> /\ LatestCheck(v, id, n, i)
    <3>1. ASSUME NEW id \in DOMAIN s.baselines
          PROVE  \E i \in 1 .. n : s.baselines[id] = <<v[i].delta, i>> /\ LatestCheck(v, id, n, i)
      <4>1. PICK i \in 1 .. n : s.baselines[id] = <<w[i].delta, i>> /\ LatestCheck(w, id, n, i)
        BY <2>1 DEF SearchingStall
      <4>2. LatestCheck(v, id, n, i)
        BY <4>1, LatestCheckReads
      <4>3. v[i] = w[i]
        OBVIOUS
      <4>4. QED
        BY <4>1, <4>2, <4>3
    <3>2. QED
      BY <3>1
  <2>3. ProgressIn(v, n) <=> ProgressIn(w, n)
    BY ProgressInReads
  <2>4. TwoChecks(v, n) <=> TwoChecks(w, n)
    BY DEF TwoChecks
  <2>5. QED
    BY <1>1, <2>1, <2>2, <2>3, <2>4 DEF SearchingStall
<1>3. ASSUME s.match # {}
      PROVE  FoundStall(s.match, v, n)
  BY <1>1, <1>3 DEF StallScan, FoundStall
<1>4. QED
  BY <1>2, <1>3 DEF StallScan

\* A check becomes the latest of its identity and leaves the others' latest.
LEMMA NextLatest ==
  ASSUME NEW w, NEW n \in Nat, NEW id,
         ~(IsComparableCheck(w[n + 1]) /\ Identity(w[n + 1]) = id)
  PROVE  \A i : LatestCheck(w, id, n, i) => LatestCheck(w, id, n + 1, i)
<1>1. ChecksOf(w, id, n + 1) = ChecksOf(w, id, n)
  <2>1. 1 .. n + 1 = (1 .. n) \cup {n + 1}
    OBVIOUS
  <2>2. QED
    BY <2>1 DEF ChecksOf
<1>2. QED
  BY <1>1 DEF LatestCheck

LEMMA NewLatest ==
  ASSUME NEW w, NEW n \in Nat, IsComparableCheck(w[n + 1])
  PROVE  LatestCheck(w, Identity(w[n + 1]), n + 1, n + 1)
<1>1. n + 1 \in 1 .. n + 1 /\ \A k \in 1 .. n + 1 : k <= n + 1
  OBVIOUS
<1>2. QED
  BY <1>1 DEF LatestCheck, ChecksOf

LEMMA LossStays ==
  ASSUME NEW w, NEW n \in Nat, TwoChecks(w, n) /\ ProgressIn(w, n)
  PROVE  TwoChecks(w, n + 1) /\ ProgressIn(w, n + 1)
<1>1. \A i \in 1 .. n : i \in 1 .. n + 1
  OBVIOUS
<1>2. QED
  BY <1>1 DEF TwoChecks, ProgressIn

LEMMA NoLaterStall ==
  ASSUME NEW w, NEW n \in Nat, \A i, j \in 1 .. n : ~StallAt(w, i, j),
         \A i \in 1 .. n : ~StallAt(w, i, n + 1)
  PROVE  \A i, j \in 1 .. n + 1 : ~StallAt(w, i, j)
<1> SUFFICES ASSUME NEW i \in 1 .. n + 1, NEW j \in 1 .. n + 1, StallAt(w, i, j)
             PROVE  FALSE
  OBVIOUS
<1>1. i < j
  BY DEF StallAt
<1>2. i \in 1 .. n /\ (j = n + 1 \/ j \in 1 .. n)
  BY <1>1
<1>3. QED
  BY <1>2

\* An event that cannot be compared changes nothing.
LEMMA StallPasses ==
  ASSUME NEW s, NEW w, NEW n \in Nat, SearchingStall(s, w, n), ~IsComparableCheck(w[n + 1])
  PROVE  SearchingStall(s, w, n + 1)
<1> DEFINE p == n + 1
<1>1. \A i \in 1 .. p : i = p \/ i \in 1 .. n
  OBVIOUS
<1>2. \A id \in DOMAIN s.baselines :
        \E i \in 1 .. p : s.baselines[id] = <<w[i].delta, i>> /\ LatestCheck(w, id, p, i)
  <2>1. ASSUME NEW id \in DOMAIN s.baselines
        PROVE  \E i \in 1 .. p : s.baselines[id] = <<w[i].delta, i>> /\ LatestCheck(w, id, p, i)
    <3>1. PICK i \in 1 .. n : s.baselines[id] = <<w[i].delta, i>> /\ LatestCheck(w, id, n, i)
      BY DEF SearchingStall
    <3>2. i \in 1 .. p /\ LatestCheck(w, id, p, i)
      BY <3>1, NextLatest
    <3>3. QED
      BY <3>1, <3>2
  <2>2. QED
    BY <2>1
<1>3. CASE TwoChecks(w, n) /\ ProgressIn(w, n)
  BY <1>2, <1>3, LossStays DEF SearchingStall
<1>4. CASE ~(TwoChecks(w, n) /\ ProgressIn(w, n))
  <2>1. /\ \A i \in 1 .. n : IsComparableCheck(w[i]) => Identity(w[i]) \in DOMAIN s.baselines
        /\ \A i, j \in 1 .. n : ~StallAt(w, i, j)
    BY <1>4 DEF SearchingStall
  <2>2. \A i \in 1 .. n : ~StallAt(w, i, p)
    BY DEF StallAt, SameCheck
  <2>3. \A i, j \in 1 .. p : ~StallAt(w, i, j)
    BY <2>1, <2>2, NoLaterStall
  <2>4. QED
    BY <1>1, <1>2, <2>1, <2>3 DEF SearchingStall
<1>5. QED
  BY <1>3, <1>4

\* The check becomes a baseline: it did not repeat the delta.
LEMMA StallRebases ==
  ASSUME NEW s, NEW w, NEW n \in Nat, SearchingStall(s, w, n), IsComparableCheck(w[n + 1]),
         ~RepeatsDelta(s, w[n + 1]),
         NEW t, t.baselines = Rebase(s.baselines, w[n + 1], n + 1)
  PROVE  SearchingStall(t, w, n + 1)
<1> DEFINE p == n + 1
           own == Identity(w[p])
<1>1. /\ DOMAIN t.baselines = DOMAIN s.baselines \cup {own}
      /\ t.baselines[own] = <<w[p].delta, p>>
      /\ \A id \in DOMAIN s.baselines : id # own => t.baselines[id] = s.baselines[id]
  BY DEF Rebase
<1>2. \A id \in DOMAIN t.baselines :
        \E i \in 1 .. p : t.baselines[id] = <<w[i].delta, i>> /\ LatestCheck(w, id, p, i)
  <2>1. ASSUME NEW id \in DOMAIN t.baselines
        PROVE  \E i \in 1 .. p : t.baselines[id] = <<w[i].delta, i>> /\ LatestCheck(w, id, p, i)
    <3>1. CASE id = own
      <4>1. p \in 1 .. p /\ LatestCheck(w, own, p, p)
        BY NewLatest
      <4>2. QED
        BY <1>1, <3>1, <4>1
    <3>2. CASE id # own
      <4>1. PICK i \in 1 .. n : s.baselines[id] = <<w[i].delta, i>> /\ LatestCheck(w, id, n, i)
        BY <1>1, <3>2 DEF SearchingStall
      <4>2. i \in 1 .. p /\ LatestCheck(w, id, p, i)
        BY <3>2, <4>1, NextLatest
      <4>3. QED
        BY <1>1, <3>2, <4>1, <4>2
    <3>3. QED
      BY <3>1, <3>2
  <2>2. QED
    BY <2>1
<1>3. CASE TwoChecks(w, n) /\ ProgressIn(w, n)
  BY <1>2, <1>3, LossStays DEF SearchingStall
<1>4. CASE ~(TwoChecks(w, n) /\ ProgressIn(w, n))
  <2>1. /\ \A i \in 1 .. n : IsComparableCheck(w[i]) => Identity(w[i]) \in DOMAIN s.baselines
        /\ \A i, j \in 1 .. n : ~StallAt(w, i, j)
    BY <1>4 DEF SearchingStall
  <2>2. ASSUME NEW k \in 1 .. n, StallAt(w, k, p)
        PROVE  FALSE
    <3>1. IsComparableCheck(w[k]) /\ Identity(w[k]) = own /\ w[k].delta = w[p].delta
      BY <2>2 DEF StallAt, SameCheck
    <3>2. own \in DOMAIN s.baselines
      BY <2>1, <3>1
    <3>3. PICK i \in 1 .. n : s.baselines[own] = <<w[i].delta, i>> /\ LatestCheck(w, own, n, i)
      BY <3>2 DEF SearchingStall
    <3>4. k = i
      BY <2>2, <3>3, StallStartsAtLatest
    <3>5. QED
      BY <3>1, <3>2, <3>3, <3>4 DEF RepeatsDelta
  <2>3. \A i, j \in 1 .. p : ~StallAt(w, i, j)
    BY <2>1, <2>2, NoLaterStall
  <2>4. \A i \in 1 .. p : IsComparableCheck(w[i]) => Identity(w[i]) \in DOMAIN t.baselines
    <3>1. \A i \in 1 .. p : i = p \/ i \in 1 .. n
      OBVIOUS
    <3>2. QED
      BY <1>1, <2>1, <3>1
  <2>5. QED
    BY <1>2, <2>3, <2>4 DEF SearchingStall
<1>5. QED
  BY <1>3, <1>4

\* A check progressed: only its own baseline survives, and a check of another
\* identity, if there was one, is lost with progress in the window.
LEMMA StallForgets ==
  ASSUME NEW s, NEW w, NEW n \in Nat, SearchingStall(s, w, n), IsComparableCheck(w[n + 1]),
         RepeatsDelta(s, w[n + 1]),
         ProgressSince(w, s.baselines[Identity(w[n + 1])][2], n + 1),
         NEW t, t.baselines = Rebase(<< >>, w[n + 1], n + 1)
  PROVE  SearchingStall(t, w, n + 1)
<1> DEFINE p == n + 1
           own == Identity(w[p])
<1>1. DOMAIN t.baselines = {own} /\ t.baselines[own] = <<w[p].delta, p>>
  BY DEF Rebase
<1>2. \A id \in DOMAIN t.baselines :
        \E i \in 1 .. p : t.baselines[id] = <<w[i].delta, i>> /\ LatestCheck(w, id, p, i)
  <2>1. p \in 1 .. p /\ LatestCheck(w, own, p, p)
    BY NewLatest
  <2>2. QED
    BY <1>1, <2>1
<1>3. PICK i \in 1 .. n : s.baselines[own] = <<w[i].delta, i>> /\ LatestCheck(w, own, n, i)
  BY DEF RepeatsDelta, SearchingStall
<1>4. ~NoProgress(w, i, p)
  BY <1>3 DEF ProgressSince, NoProgress
<1>5. CASE \E k \in 1 .. n : IsComparableCheck(w[k]) /\ Identity(w[k]) # own
  <2>1. TwoChecks(w, p)
    <3>1. \A k \in 1 .. n : k \in 1 .. p
      OBVIOUS
    <3>2. p \in 1 .. p
      OBVIOUS
    <3>3. QED
      BY <1>5, <3>1, <3>2 DEF TwoChecks
  <2>2. ProgressIn(w, p)
    <3>1. i \in 1 .. p /\ p \in 1 .. p /\ i <= p
      OBVIOUS
    <3>2. QED
      BY <1>4, <3>1 DEF ProgressIn
  <2>3. QED
    BY <1>2, <2>1, <2>2 DEF SearchingStall
<1>6. CASE \A k \in 1 .. n : IsComparableCheck(w[k]) => Identity(w[k]) = own
  <2>1. \A k \in 1 .. p : IsComparableCheck(w[k]) => Identity(w[k]) \in DOMAIN t.baselines
    <3>1. \A k \in 1 .. p : k = p \/ k \in 1 .. n
      OBVIOUS
    <3>2. QED
      BY <1>1, <1>6, <3>1
  <2>2. CASE TwoChecks(w, n) /\ ProgressIn(w, n)
    BY <1>2, <2>2, LossStays DEF SearchingStall
  <2>3. CASE ~(TwoChecks(w, n) /\ ProgressIn(w, n))
    <3>1. \A k, l \in 1 .. n : ~StallAt(w, k, l)
      BY <2>3 DEF SearchingStall
    <3>2. ASSUME NEW k \in 1 .. n, StallAt(w, k, p)
          PROVE  FALSE
      <4>1. k = i
        BY <1>3, <3>2, StallStartsAtLatest
      <4>2. QED
        BY <1>4, <3>2, <4>1 DEF StallAt
    <3>3. \A k, l \in 1 .. p : ~StallAt(w, k, l)
      BY <3>1, <3>2, NoLaterStall
    <3>4. QED
      BY <1>2, <2>1, <3>3 DEF SearchingStall
  <2>4. QED
    BY <2>2, <2>3
<1>7. QED
  BY <1>5, <1>6

\* One iteration of the loop.
LEMMA StallStepScans ==
  ASSUME NEW s, NEW w, NEW n \in Nat, Usable(w), n + 1 <= Len(w), StallScan(s, w, n)
  PROVE  StallScan(StallStep(s, w, n + 1), w, n + 1)
<1> DEFINE p == n + 1
           t == StallStep(s, w, p)
           own == Identity(w[p])
<1> SUFFICES StallScan(t, w, p)
  OBVIOUS
<1>1. DOMAIN s = {"baselines", "match"}
  BY DEF StallScan
<1>2. CASE s.match # {}
  <2>1. t = s
    BY <1>2 DEF StallStep
  <2>2. PICK i, j \in 1 .. n : StallAt(w, i, j) /\ s.match = {i, j}
    BY <1>2 DEF StallScan, FoundStall
  <2>3. i \in 1 .. p /\ j \in 1 .. p
    OBVIOUS
  <2>4. QED
    BY <1>1, <1>2, <2>1, <2>2, <2>3 DEF StallScan, FoundStall
<1>3. CASE s.match = {} /\ ~IsComparableCheck(w[p])
  <2>1. t = s
    BY <1>3 DEF StallStep
  <2>2. SearchingStall(s, w, n)
    BY <1>3 DEF StallScan
  <2>3. SearchingStall(s, w, p)
    BY <1>3, <2>2, StallPasses
  <2>4. QED
    BY <1>1, <1>3, <2>1, <2>3 DEF StallScan
<1>4. CASE s.match = {} /\ IsComparableCheck(w[p]) /\ ~RepeatsDelta(s, w[p])
  <2>1. t = [s EXCEPT !.baselines = Rebase(s.baselines, w[p], p)]
    BY <1>4 DEF StallStep
  <2>2. /\ DOMAIN t = {"baselines", "match"} /\ t.match = {}
        /\ t.baselines = Rebase(s.baselines, w[p], p)
    BY <1>1, <1>4, <2>1
  <2>3. SearchingStall(s, w, n)
    BY <1>4 DEF StallScan
  <2> HIDE DEF t
  <2>4. SearchingStall(t, w, p)
    BY <1>4, <2>2, <2>3, StallRebases
  <2>5. QED
    BY <2>2, <2>4 DEF StallScan
<1>5. CASE s.match = {} /\ IsComparableCheck(w[p]) /\ RepeatsDelta(s, w[p])
  <2>1. SearchingStall(s, w, n)
    BY <1>5 DEF StallScan
  <2>2. PICK i \in 1 .. n : s.baselines[own] = <<w[i].delta, i>> /\ LatestCheck(w, own, n, i)
    BY <1>5, <2>1 DEF RepeatsDelta, SearchingStall
  <2>3. s.baselines[own][1] = w[i].delta /\ s.baselines[own][2] = i
    BY <2>2
  <2>4. CASE ProgressSince(w, s.baselines[own][2], p)
    <3>1. t = [s EXCEPT !.baselines = Rebase(<< >>, w[p], p)]
      BY <1>5, <2>4 DEF StallStep
    <3>2. /\ DOMAIN t = {"baselines", "match"} /\ t.match = {}
          /\ t.baselines = Rebase(<< >>, w[p], p)
      BY <1>1, <1>5, <3>1
    <3> HIDE DEF t
    <3>3. SearchingStall(t, w, p)
      BY <1>5, <2>1, <2>4, <3>2, StallForgets
    <3>4. QED
      BY <3>2, <3>3 DEF StallScan
  <2>5. CASE ~ProgressSince(w, s.baselines[own][2], p)
    <3>1. t = [s EXCEPT !.match = {w[s.baselines[own][2]].id, w[p].id}]
      BY <1>5, <2>5 DEF StallStep
    <3>2. w[i].id = i /\ w[p].id = p
      <4>1. i \in 1 .. Len(w) /\ p \in 1 .. Len(w)
        BY DEF Usable
      <4>2. QED
        BY <4>1 DEF Usable
    <3>3. DOMAIN t = {"baselines", "match"} /\ t.match = {i, p}
      BY <1>1, <2>3, <3>1, <3>2
    <3>4. StallAt(w, i, p)
      <4>1. IsComparableCheck(w[i]) /\ Identity(w[i]) = own /\ \A k \in ChecksOf(w, own, n) : k <= i
        BY <2>2 DEF LatestCheck, ChecksOf
      <4>2. i < p /\ SameCheck(w, i, p)
        BY <1>5, <4>1 DEF SameCheck
      <4>3. w[i].delta = w[p].delta
        BY <1>5, <2>3 DEF RepeatsDelta
      <4>4. ASSUME NEW k \in i + 1 .. p - 1, SameCheck(w, i, k)
            PROVE  FALSE
        <5>1. k \in 1 .. n /\ ~(k <= i)
          OBVIOUS
        <5>2. k \in ChecksOf(w, own, n)
          BY <4>1, <4>4, <5>1 DEF SameCheck, ChecksOf
        <5>3. QED
          BY <4>1, <5>1, <5>2
      <4>5. NoProgress(w, i, p)
        BY <2>3, <2>5 DEF ProgressSince, NoProgress
      <4>6. QED
        BY <4>2, <4>3, <4>4, <4>5 DEF StallAt
    <3>5. i \in 1 .. p /\ p \in 1 .. p
      OBVIOUS
    <3> HIDE DEF t
    <3>6. FoundStall(t.match, w, p)
      BY <3>3, <3>4, <3>5 DEF FoundStall
    <3>7. QED
      BY <3>3, <3>6 DEF StallScan
  <2>6. QED
    BY <2>4, <2>5
<1>6. QED
  BY <1>2, <1>3, <1>4, <1>5

LEMMA StallStarts ==
  ASSUME NEW w
  PROVE  StallScan(StallStart, w, 0)
BY DEF StallScan, StallStart, SearchingStall

\* What the detector returns after the last event.
LEMMA StallDecides ==
  ASSUME NEW S, NEW w \in Seq(S), NEW s, StallScan(s, w, Len(w))
  PROVE  /\ s.match \in Stalls(w) \cup {{}}
         /\ \/ TwoChecks(w, Len(w)) /\ ~ProgressFree(w)
            \/ Decides(s.match, Stalls(w))
<1> DEFINE P == 1 .. Len(w)
           stalls == {x \in P \X P :
                        /\ x[1] < x[2] /\ SameCheck(w, x[1], x[2])
                        /\ w[x[1]].delta = w[x[2]].delta
                        /\ \A k \in x[1] + 1 .. x[2] - 1 : ~SameCheck(w, x[1], k)
                        /\ NoProgress(w, x[1], x[2])}
<1>1. Stalls(w) = {{c[1], c[2]} : c \in stalls}
  BY DEF Stalls, Positions
<1>2. \A i, j \in P : <<i, j>> \in stalls <=> StallAt(w, i, j)
  BY DEF StallAt
<1>3. \A c \in stalls : c[1] \in P /\ c[2] \in P /\ c = <<c[1], c[2]>>
  OBVIOUS
<1> HIDE DEF stalls
<1>4. CASE s.match # {}
  <2>1. PICK i \in P, j \in P : StallAt(w, i, j) /\ s.match = {i, j}
    BY <1>4 DEF StallScan, FoundStall
  <2> DEFINE c == <<i, j>>
  <2>2. c \in stalls /\ s.match = {c[1], c[2]}
    BY <1>2, <2>1
  <2> HIDE DEF c
  <2>3. s.match \in Stalls(w)
    BY <1>1, <2>2
  <2>4. QED
    BY <2>3 DEF Decides
<1>5. CASE s.match = {}
  <2>1. CASE TwoChecks(w, Len(w)) /\ ProgressIn(w, Len(w))
    <3>1. PICK i \in P, j \in P : i <= j /\ ~NoProgress(w, i, j)
      BY <2>1 DEF ProgressIn
    <3>2. ~ProgressFree(w)
      BY <3>1, ProgressStays
    <3>3. QED
      BY <1>5, <2>1, <3>2
  <2>2. CASE ~(TwoChecks(w, Len(w)) /\ ProgressIn(w, Len(w)))
    <3>1. \A i, j \in P : ~StallAt(w, i, j)
      BY <1>5, <2>2 DEF StallScan, SearchingStall
    <3>2. stalls = {}
      BY <1>2, <1>3, <3>1
    <3>3. QED
      BY <1>1, <1>5, <3>2 DEF Decides
  <2>3. QED
    BY <2>1, <2>2
<1>6. QED
  BY <1>4, <1>5

-----------------------------------------------------------------------------
(* budget_burn.                                                            *)

\* No counter declined from one budget event of a stretch to a later one.
Cumulative(w, i, j) ==
  \A k, l \in i .. j :
    IsBudget(w[k]) /\ IsBudget(w[l]) /\ k <= l =>
      \A c \in CounterNames : w[k].counters[c] <= w[l].counters[c]

BurnAt(w, i, j) ==
  /\ IsBudget(w[i]) /\ IsBudget(w[j]) /\ i < j
  /\ Cumulative(w, i, j)
  /\ \E c \in CounterNames : w[i].counters[c] < w[j].counters[c]
  /\ NoProgress(w, i, j)

NoBudgetYet(s, w, n) ==
  s.baseline = 0 /\ s.prior = 0 /\ \A k \in 1 .. n : ~IsBudget(w[k])

\* The counters have stood still since the baseline.
BudgetsStand(s, w, n) ==
  /\ s.baseline \in 1 .. n /\ s.prior \in s.baseline .. n
  /\ IsBudget(w[s.baseline]) /\ IsBudget(w[s.prior])
  /\ \A k \in s.prior + 1 .. n : ~IsBudget(w[k])
  /\ \A k \in s.baseline .. n :
       IsBudget(w[k]) => w[k].counters = w[s.baseline].counters

\* Either a stretch progressed, or no earlier budget event reaches the
\* baseline without a reset and none burned.
SearchingBurn(s, w, n) ==
  /\ NoBudgetYet(s, w, n) \/ BudgetsStand(s, w, n)
  /\ \/ ProgressIn(w, n)
     \/ /\ \A k \in 1 .. s.baseline - 1 : IsBudget(w[k]) => ~Cumulative(w, k, s.baseline)
        /\ \A i, j \in 1 .. n : ~BurnAt(w, i, j)

FoundBurn(match, w, n) == \E i, j \in 1 .. n : BurnAt(w, i, j) /\ match = {i, j}

BurnScan(s, w, n) ==
  /\ DOMAIN s = {"baseline", "prior", "match"}
  /\ s.match = {} => SearchingBurn(s, w, n)
  /\ s.match # {} => FoundBurn(s.match, w, n)

LEMMA CumulativeReads ==
  ASSUME NEW w, NEW v, NEW n \in Nat, \A p \in 1 .. n : v[p] = w[p],
         NEW i \in 1 .. n, NEW j \in 0 .. n
  PROVE  Cumulative(v, i, j) <=> Cumulative(w, i, j)
<1>1. \A k \in i .. j : v[k] = w[k]
  OBVIOUS
<1>2. QED
  BY <1>1 DEF Cumulative

LEMMA BurnReads ==
  ASSUME NEW S, NEW T, NEW w \in Seq(S), NEW v \in Seq(T), NEW n \in Nat,
         \A p \in 1 .. n : v[p] = w[p], NEW i \in 1 .. n, NEW j \in 1 .. n
  PROVE  BurnAt(v, i, j) <=> BurnAt(w, i, j)
<1>1. NoProgress(v, i, j) <=> NoProgress(w, i, j)
  BY StretchReads
<1>2. Cumulative(v, i, j) <=> Cumulative(w, i, j)
  <2>1. j \in 0 .. n
    OBVIOUS
  <2>2. QED
    BY <2>1, CumulativeReads
<1>3. v[i] = w[i] /\ v[j] = w[j]
  OBVIOUS
<1>4. QED
  BY <1>1, <1>2, <1>3 DEF BurnAt

LEMMA BurnScanReads ==
  ASSUME NEW S, NEW T, NEW w \in Seq(S), NEW v \in Seq(T), NEW n \in Nat, NEW s,
         \A p \in 1 .. n : v[p] = w[p], BurnScan(s, w, n)
  PROVE  BurnScan(s, v, n)
<1>1. \A i, j \in 1 .. n : BurnAt(v, i, j) <=> BurnAt(w, i, j)
  BY BurnReads
<1>2. ASSUME s.match = {}
      PROVE  SearchingBurn(s, v, n)
  <2>1. SearchingBurn(s, w, n)
    BY <1>2 DEF BurnScan
  <2>2. CASE NoBudgetYet(s, w, n)
    <3>1. NoBudgetYet(s, v, n)
      BY <2>2 DEF NoBudgetYet
    <3>2. ProgressIn(v, n) <=> ProgressIn(w, n)
      BY ProgressInReads
    <3>3. 1 .. s.baseline - 1 = {}
      BY <2>2 DEF NoBudgetYet
    <3>4. QED
      BY <1>1, <2>1, <3>1, <3>2, <3>3 DEF SearchingBurn
  <2>3. CASE BudgetsStand(s, w, n)
    <3>1. s.baseline \in 1 .. n /\ s.prior \in 1 .. n
      BY <2>3 DEF BudgetsStand
    <3>2. /\ \A k \in s.prior + 1 .. n : v[k] = w[k]
          /\ \A k \in s.baseline .. n : v[k] = w[k]
      BY <3>1
    <3>3. BudgetsStand(s, v, n)
      BY <2>3, <3>1, <3>2 DEF BudgetsStand
    <3>4. ProgressIn(v, n) <=> ProgressIn(w, n)
      BY ProgressInReads
    <3>5. \A k \in 1 .. s.baseline - 1 :
            k \in 1 .. n /\ (Cumulative(v, k, s.baseline) <=> Cumulative(w, k, s.baseline))
      <4>1. s.baseline \in 0 .. n /\ \A k \in 1 .. s.baseline - 1 : k \in 1 .. n
        BY <3>1
      <4>2. QED
        BY <4>1, CumulativeReads
    <3>6. QED
      BY <1>1, <2>1, <3>3, <3>4, <3>5 DEF SearchingBurn
  <2>4. QED
    BY <2>1, <2>2, <2>3 DEF SearchingBurn
<1>3. ASSUME s.match # {}
      PROVE  FoundBurn(s.match, v, n)
  BY <1>1, <1>3 DEF BurnScan, FoundBurn
<1>4. QED
  BY <1>2, <1>3 DEF BurnScan

LEMMA ProgressInStays ==
  ASSUME NEW w, NEW n \in Nat, ProgressIn(w, n)
  PROVE  ProgressIn(w, n + 1)
<1>1. \A i \in 1 .. n : i \in 1 .. n + 1
  OBVIOUS
<1>2. QED
  BY <1>1 DEF ProgressIn

LEMMA NoLaterBurn ==
  ASSUME NEW w, NEW n \in Nat, \A i, j \in 1 .. n : ~BurnAt(w, i, j),
         \A i \in 1 .. n : ~BurnAt(w, i, n + 1)
  PROVE  \A i, j \in 1 .. n + 1 : ~BurnAt(w, i, j)
<1> SUFFICES ASSUME NEW i \in 1 .. n + 1, NEW j \in 1 .. n + 1, BurnAt(w, i, j)
             PROVE  FALSE
  OBVIOUS
<1>1. i < j
  BY DEF BurnAt
<1>2. i \in 1 .. n /\ (j = n + 1 \/ j \in 1 .. n)
  BY <1>1
<1>3. QED
  BY <1>2

\* A cumulative stretch is cumulative up to every position in it.
LEMMA CumulativeShrinks ==
  ASSUME NEW w, NEW i \in Nat, NEW j \in Nat, NEW k \in Nat, j <= k, Cumulative(w, i, k)
  PROVE  Cumulative(w, i, j)
<1>1. \A x \in i .. j : x \in i .. k
  OBVIOUS
<1>2. QED
  BY <1>1 DEF Cumulative

\* An event without a budget changes nothing.
LEMMA BurnPasses ==
  ASSUME NEW s, NEW w, NEW n \in Nat, SearchingBurn(s, w, n), ~IsBudget(w[n + 1])
  PROVE  SearchingBurn(s, w, n + 1)
<1> DEFINE p == n + 1
<1>1. NoBudgetYet(s, w, n) => NoBudgetYet(s, w, p)
  BY DEF NoBudgetYet
<1>2. BudgetsStand(s, w, n) => BudgetsStand(s, w, p)
  <2> SUFFICES ASSUME BudgetsStand(s, w, n)
               PROVE  BudgetsStand(s, w, p)
    OBVIOUS
  <2>1. s.baseline \in 1 .. n /\ s.prior \in s.baseline .. n
    BY DEF BudgetsStand
  <2>2. s.baseline \in 1 .. p /\ s.prior \in s.baseline .. p
    BY <2>1
  <2>3. /\ \A k \in s.prior + 1 .. p : k \in s.prior + 1 .. n \/ k = p
        /\ \A k \in s.baseline .. p : k \in s.baseline .. n \/ k = p
    BY <2>1
  <2>4. QED
    BY <2>2, <2>3 DEF BudgetsStand
<1>3. CASE ProgressIn(w, n)
  BY <1>1, <1>2, <1>3, ProgressInStays DEF SearchingBurn
<1>4. CASE ~ProgressIn(w, n)
  <2>1. \A i, j \in 1 .. n : ~BurnAt(w, i, j)
    BY <1>4 DEF SearchingBurn
  <2>2. \A i \in 1 .. n : ~BurnAt(w, i, p)
    BY DEF BurnAt
  <2>3. \A i, j \in 1 .. p : ~BurnAt(w, i, j)
    BY <2>1, <2>2, NoLaterBurn
  <2>4. QED
    BY <1>1, <1>2, <1>4, <2>3 DEF SearchingBurn
<1>5. QED
  BY <1>3, <1>4

\* A budget event that is the baseline and the latest.
LEMMA Rebaselined ==
  ASSUME NEW t, NEW w, NEW n \in Nat, IsBudget(w[n + 1]),
         t.baseline = n + 1, t.prior = n + 1
  PROVE  BudgetsStand(t, w, n + 1)
<1>1. /\ n + 1 \in 1 .. n + 1 /\ n + 1 \in n + 1 .. n + 1
      /\ (n + 1) + 1 .. n + 1 = {}
      /\ \A k \in n + 1 .. n + 1 : k = n + 1
  OBVIOUS
<1>2. QED
  BY <1>1 DEF BudgetsStand

\* The first budget event.
LEMMA BurnBegins ==
  ASSUME NEW s, NEW w, NEW n \in Nat, SearchingBurn(s, w, n), IsBudget(w[n + 1]),
         s.baseline = 0, NEW t, t.baseline = n + 1, t.prior = n + 1
  PROVE  SearchingBurn(t, w, n + 1)
<1> DEFINE p == n + 1
<1>1. \A k \in 1 .. n : ~IsBudget(w[k])
  BY DEF SearchingBurn, NoBudgetYet, BudgetsStand
<1>2. \A i, j \in 1 .. p : ~BurnAt(w, i, j)
  <2>1. \A i, j \in 1 .. n : ~BurnAt(w, i, j)
    BY <1>1 DEF BurnAt
  <2>2. \A i \in 1 .. n : ~BurnAt(w, i, p)
    BY <1>1 DEF BurnAt
  <2>3. QED
    BY <2>1, <2>2, NoLaterBurn
<1>3. \A k \in 1 .. t.baseline - 1 : k \in 1 .. n
  OBVIOUS
<1>4. BudgetsStand(t, w, p)
  BY Rebaselined
<1>5. QED
  BY <1>1, <1>2, <1>3, <1>4 DEF SearchingBurn

\* Some counter declined.
LEMMA BurnResets ==
  ASSUME NEW s, NEW w, NEW n \in Nat, Usable(w), n + 1 <= Len(w),
         SearchingBurn(s, w, n), IsBudget(w[n + 1]), s.baseline # 0,
         IsReset(w[n + 1].counters, w[s.prior].counters),
         NEW t, t.baseline = n + 1, t.prior = n + 1
  PROVE  SearchingBurn(t, w, n + 1)
<1> DEFINE p == n + 1
<1>1. BudgetsStand(s, w, n)
  BY DEF SearchingBurn, NoBudgetYet
<1>2. /\ s.prior \in 1 .. n /\ IsBudget(w[s.prior])
      /\ \A k \in 1 .. n : IsBudget(w[k]) => k <= s.prior
  BY <1>1 DEF BudgetsStand
<1>3. ASSUME NEW k \in 1 .. n, IsBudget(w[k]), Cumulative(w, k, p)
      PROVE  FALSE
  <2>1. s.prior \in k .. p /\ p \in k .. p /\ s.prior <= p
    BY <1>2, <1>3
  <2>2. \A c \in CounterNames : w[s.prior].counters[c] <= w[p].counters[c]
    BY <1>2, <1>3, <2>1 DEF Cumulative
  <2>3. PICK c \in CounterNames : w[p].counters[c] < w[s.prior].counters[c]
    BY DEF IsReset
  <2>4. w[p].counters[c] \in Nat /\ w[s.prior].counters[c] \in Nat
    <3>1. p \in 1 .. Len(w) /\ s.prior \in 1 .. Len(w)
      BY <1>2 DEF Usable
    <3>2. QED
      BY <1>2, <3>1 DEF Usable, IsBudget
  <2>5. QED
    BY <2>2, <2>3, <2>4
<1>4. BudgetsStand(t, w, p)
  BY Rebaselined
<1>5. CASE ProgressIn(w, n)
  BY <1>4, <1>5, ProgressInStays DEF SearchingBurn
<1>6. CASE ~ProgressIn(w, n)
  <2>1. \A i, j \in 1 .. n : ~BurnAt(w, i, j)
    BY <1>6 DEF SearchingBurn
  <2>2. \A i \in 1 .. n : ~BurnAt(w, i, p)
    BY <1>3 DEF BurnAt
  <2>3. \A i, j \in 1 .. p : ~BurnAt(w, i, j)
    BY <2>1, <2>2, NoLaterBurn
  <2>4. \A k \in 1 .. t.baseline - 1 : k \in 1 .. n
    OBVIOUS
  <2>5. QED
    BY <1>3, <1>4, <2>3, <2>4 DEF SearchingBurn
<1>7. QED
  BY <1>5, <1>6

\* The counters stand where they stood.
LEMMA BurnStands ==
  ASSUME NEW s, NEW w, NEW n \in Nat, Usable(w), n + 1 <= Len(w),
         SearchingBurn(s, w, n), IsBudget(w[n + 1]), s.baseline # 0,
         ~IsReset(w[n + 1].counters, w[s.prior].counters),
         ~IsBurn(w[n + 1].counters, w[s.baseline].counters),
         NEW t, t.baseline = s.baseline, t.prior = n + 1
  PROVE  SearchingBurn(t, w, n + 1)
<1> DEFINE p == n + 1
           b == s.baseline
<1>1. BudgetsStand(s, w, n)
  BY DEF SearchingBurn, NoBudgetYet
<1>2. /\ b \in 1 .. n /\ IsBudget(w[b])
      /\ \A k \in b .. n : IsBudget(w[k]) => w[k].counters = w[b].counters
  BY <1>1 DEF BudgetsStand
<1>3. w[s.prior].counters = w[b].counters
  BY <1>1 DEF BudgetsStand
<1>4. w[p].counters \in [CounterNames -> Nat] /\ w[b].counters \in [CounterNames -> Nat]
  <2>1. p \in 1 .. Len(w) /\ b \in 1 .. Len(w)
    BY <1>2 DEF Usable
  <2>2. QED
    BY <1>2, <2>1 DEF Usable, IsBudget
<1>5. w[p].counters = w[b].counters
  <2>1. \A c \in CounterNames : w[p].counters[c] \in Nat /\ w[b].counters[c] \in Nat
    BY <1>4
  <2>2. \A c \in CounterNames : w[p].counters[c] >= w[b].counters[c]
    BY <1>3, <2>1 DEF IsReset
  <2>3. \A c \in CounterNames : ~(w[p].counters[c] > w[b].counters[c])
    BY <2>2 DEF IsBurn
  <2>4. \A c \in CounterNames : w[p].counters[c] = w[b].counters[c]
    BY <2>1, <2>2, <2>3
  <2>5. QED
    <3> DEFINE x == w[p].counters
               y == w[b].counters
    <3>1. x \in [CounterNames -> Nat] /\ y \in [CounterNames -> Nat]
      BY <1>4
    <3>2. \A c \in CounterNames : x[c] = y[c]
      BY <2>4
    <3> HIDE DEF x, y
    <3>3. x = y
      BY <3>1, <3>2
    <3>4. QED
      BY <3>3 DEF x, y
<1>6. \A k \in b .. p : k \in b .. n \/ k = p
  BY <1>2
<1>7. BudgetsStand(t, w, p)
  <2>1. b \in 1 .. p /\ p \in b .. p /\ p + 1 .. p = {}
    BY <1>2
  <2>2. \A k \in b .. p : IsBudget(w[k]) => w[k].counters = w[b].counters
    BY <1>2, <1>5, <1>6
  <2>3. QED
    BY <1>2, <2>1, <2>2 DEF BudgetsStand
<1>8. CASE ProgressIn(w, n)
  BY <1>7, <1>8, ProgressInStays DEF SearchingBurn
<1>9. CASE ~ProgressIn(w, n)
  <2>1. /\ \A k \in 1 .. b - 1 : IsBudget(w[k]) => ~Cumulative(w, k, b)
        /\ \A i, j \in 1 .. n : ~BurnAt(w, i, j)
    BY <1>9 DEF SearchingBurn
  <2>2. ASSUME NEW i \in 1 .. n, BurnAt(w, i, p)
        PROVE  FALSE
    <3>1. CASE i < b
      <4>1. i \in 1 .. b - 1 /\ i \in Nat /\ b \in Nat /\ p \in Nat /\ b <= p
        BY <1>2, <3>1
      <4>2. Cumulative(w, i, p) /\ IsBudget(w[i])
        BY <2>2 DEF BurnAt
      <4>3. Cumulative(w, i, b)
        BY <4>1, <4>2, CumulativeShrinks
      <4>4. QED
        BY <2>1, <4>1, <4>2, <4>3
    <3>2. CASE ~(i < b)
      <4>1. i \in b .. n /\ IsBudget(w[i])
        BY <1>2, <2>2, <3>2 DEF BurnAt
      <4>2. w[i].counters = w[p].counters
        BY <1>2, <1>5, <4>1
      <4>3. PICK c \in CounterNames : w[i].counters[c] < w[p].counters[c]
        BY <2>2 DEF BurnAt
      <4>4. w[p].counters[c] \in Nat
        BY <1>4
      <4>5. QED
        BY <4>2, <4>3, <4>4
    <3>3. QED
      BY <3>1, <3>2
  <2>3. \A i, j \in 1 .. p : ~BurnAt(w, i, j)
    BY <2>1, <2>2, NoLaterBurn
  <2>4. QED
    BY <1>7, <2>1, <2>3 DEF SearchingBurn
<1>10. QED
  BY <1>8, <1>9

\* One iteration of the loop.
LEMMA BurnStepScans ==
  ASSUME NEW s, NEW w, NEW n \in Nat, Usable(w), n + 1 <= Len(w), BurnScan(s, w, n)
  PROVE  BurnScan(BurnStep(s, w, n + 1), w, n + 1)
<1> DEFINE p == n + 1
           t == BurnStep(s, w, p)
<1> SUFFICES BurnScan(t, w, p)
  OBVIOUS
<1>1. DOMAIN s = {"baseline", "prior", "match"}
  BY DEF BurnScan
<1>2. CASE s.match # {}
  <2>1. t = s
    BY <1>2 DEF BurnStep
  <2>2. PICK i, j \in 1 .. n : BurnAt(w, i, j) /\ s.match = {i, j}
    BY <1>2 DEF BurnScan, FoundBurn
  <2>3. i \in 1 .. p /\ j \in 1 .. p
    OBVIOUS
  <2>4. QED
    BY <1>1, <1>2, <2>1, <2>2, <2>3 DEF BurnScan, FoundBurn
<1>3. CASE s.match = {} /\ ~IsBudget(w[p])
  <2>1. t = s
    BY <1>3 DEF BurnStep
  <2>2. SearchingBurn(s, w, n)
    BY <1>3 DEF BurnScan
  <2>3. SearchingBurn(s, w, p)
    BY <1>3, <2>2, BurnPasses
  <2>4. QED
    BY <1>1, <1>3, <2>1, <2>3 DEF BurnScan
<1>4. CASE s.match = {} /\ IsBudget(w[p])
  <2> DEFINE counters == w[p].counters
             reset == IsReset(counters, w[s.prior].counters)
             burns == IsBurn(counters, w[s.baseline].counters)
             progressed == MadeProgress(SubSeq(w, s.baseline, p))
  <2>1. SearchingBurn(s, w, n)
    BY <1>4 DEF BurnScan
  <2>2. CASE s.baseline = 0 \/ reset
    <3>1. t = [s EXCEPT !.baseline = p, !.prior = p]
      BY <1>4, <2>2 DEF BurnStep
    <3>2. /\ DOMAIN t = {"baseline", "prior", "match"} /\ t.match = {}
          /\ t.baseline = p /\ t.prior = p
      BY <1>1, <1>4, <3>1
    <3> HIDE DEF t
    <3>3. CASE s.baseline = 0
      <4>1. SearchingBurn(t, w, p)
        BY <1>4, <2>1, <3>2, <3>3, BurnBegins
      <4>2. QED
        BY <3>2, <4>1 DEF BurnScan
    <3>4. CASE s.baseline # 0
      <4>1. SearchingBurn(t, w, p)
        BY <1>4, <2>1, <2>2, <3>2, <3>4, BurnResets
      <4>2. QED
        BY <3>2, <4>1 DEF BurnScan
    <3>5. QED
      BY <3>3, <3>4
  <2>3. CASE s.baseline # 0 /\ ~reset /\ ~burns
    <3>1. t = [s EXCEPT !.prior = p]
      BY <1>4, <2>3 DEF BurnStep
    <3>2. /\ DOMAIN t = {"baseline", "prior", "match"} /\ t.match = {}
          /\ t.baseline = s.baseline /\ t.prior = p
      BY <1>1, <1>4, <3>1
    <3> HIDE DEF t
    <3>3. SearchingBurn(t, w, p)
      BY <1>4, <2>1, <2>3, <3>2, BurnStands
    <3>4. QED
      BY <3>2, <3>3 DEF BurnScan
  <2>4. CASE s.baseline # 0 /\ ~reset /\ burns
    <3> DEFINE b == s.baseline
    <3>1. BudgetsStand(s, w, n)
      BY <2>1, <2>4 DEF SearchingBurn, NoBudgetYet
    <3>2. /\ b \in 1 .. n /\ IsBudget(w[b])
          /\ \A k \in b .. n : IsBudget(w[k]) => w[k].counters = w[b].counters
          /\ w[s.prior].counters = w[b].counters
      BY <3>1 DEF BudgetsStand
    <3>3. CASE progressed
      <4>1. t = [s EXCEPT !.baseline = p, !.prior = p]
        BY <1>4, <2>4, <3>3 DEF BurnStep
      <4>2. /\ DOMAIN t = {"baseline", "prior", "match"} /\ t.match = {}
            /\ t.baseline = p /\ t.prior = p
        BY <1>1, <1>4, <4>1
      <4> HIDE DEF t
      <4>3. BudgetsStand(t, w, p)
        BY <1>4, <4>2, Rebaselined
      <4>4. ProgressIn(w, p)
        <5>1. b \in 1 .. p /\ p \in 1 .. p /\ b <= p
          BY <3>2
        <5>2. ~NoProgress(w, b, p)
          BY <3>3 DEF NoProgress
        <5>3. QED
          BY <5>1, <5>2 DEF ProgressIn
      <4>5. QED
        BY <4>2, <4>3, <4>4 DEF BurnScan, SearchingBurn
    <3>4. CASE ~progressed
      <4>1. t = [s EXCEPT !.prior = p, !.match = {w[b].id, w[p].id}]
        BY <1>4, <2>4, <3>4 DEF BurnStep
      <4>2. w[b].id = b /\ w[p].id = p
        <5>1. b \in 1 .. Len(w) /\ p \in 1 .. Len(w)
          BY <3>2 DEF Usable
        <5>2. QED
          BY <5>1 DEF Usable
      <4>3. DOMAIN t = {"baseline", "prior", "match"} /\ t.match = {b, p}
        BY <1>1, <4>1, <4>2
      <4>4. /\ w[p].counters \in [CounterNames -> Nat]
            /\ w[b].counters \in [CounterNames -> Nat]
        <5>1. b \in 1 .. Len(w) /\ p \in 1 .. Len(w)
          BY <3>2 DEF Usable
        <5>2. QED
          BY <1>4, <3>2, <5>1 DEF Usable, IsBudget
      <4>5. /\ \A c \in CounterNames : w[b].counters[c] <= w[p].counters[c]
            /\ \E c \in CounterNames : w[b].counters[c] < w[p].counters[c]
        BY <2>4, <4>4 DEF IsBurn
      <4>6. Cumulative(w, b, p)
        <5> SUFFICES ASSUME NEW k \in b .. p, NEW l \in b .. p,
                            IsBudget(w[k]), IsBudget(w[l]), k <= l, NEW c \in CounterNames
                     PROVE  w[k].counters[c] <= w[l].counters[c]
          BY DEF Cumulative
        <5>1. (k = p \/ k \in b .. n) /\ (l = p \/ l \in b .. n) /\ (k = p => l = p)
          BY <3>2
        <5>2. w[b].counters[c] \in Nat /\ w[p].counters[c] \in Nat
          BY <4>4
        <5>3. CASE k = p
          <6>1. w[k].counters[c] = w[l].counters[c] /\ w[k].counters[c] \in Nat
            BY <5>1, <5>2, <5>3
          <6>2. QED
            BY <6>1
        <5>4. CASE k \in b .. n /\ l = p
          <6>1. w[k].counters = w[b].counters
            BY <3>2, <5>4
          <6>2. QED
            BY <4>5, <5>4, <6>1
        <5>5. CASE k \in b .. n /\ l \in b .. n
          <6>1. w[k].counters[c] = w[l].counters[c] /\ w[k].counters[c] \in Nat
            BY <3>2, <5>2, <5>5
          <6>2. QED
            BY <6>1
        <5>6. QED
          BY <5>1, <5>3, <5>4, <5>5
      <4>7. BurnAt(w, b, p)
        BY <1>4, <3>2, <3>4, <4>5, <4>6 DEF BurnAt, NoProgress
      <4>8. b \in 1 .. p /\ p \in 1 .. p
        BY <3>2
      <4> HIDE DEF t, b
      <4>9. FoundBurn(t.match, w, p)
        BY <4>3, <4>7, <4>8 DEF FoundBurn
      <4>10. QED
        BY <4>3, <4>9 DEF BurnScan
    <3>5. QED
      BY <3>3, <3>4
  <2>5. QED
    BY <2>2, <2>3, <2>4
<1>5. QED
  BY <1>2, <1>3, <1>4

LEMMA BurnStarts ==
  ASSUME NEW w
  PROVE  BurnScan(BurnStart, w, 0)
BY DEF BurnScan, BurnStart, SearchingBurn, NoBudgetYet

LEMMA CumulativeIs ==
  ASSUME NEW w, Len(w) \in Nat, NEW i \in 1 .. Len(w), NEW j \in 1 .. Len(w)
  PROVE  SameCumulativeRun(w, i, j) <=> Cumulative(w, i, j)
<1> DEFINE B == {n \in Budgets(w) : i <= n /\ n <= j}
<1>1. \A k : k \in B <=> k \in i .. j /\ IsBudget(w[k])
  BY DEF Budgets, Positions
<1>2. SameCumulativeRun(w, i, j) <=>
        \A k, l \in B : k <= l => \A c \in CounterNames : w[k].counters[c] <= w[l].counters[c]
  BY DEF SameCumulativeRun
<1> HIDE DEF B
<1>3. QED
  BY <1>1, <1>2 DEF Cumulative

\* What the detector returns after the last event.
LEMMA BurnDecides ==
  ASSUME NEW S, NEW w \in Seq(S), NEW s, BurnScan(s, w, Len(w))
  PROVE  /\ s.match \in Burns(w) \cup {{}}
         /\ ProgressFree(w) => Decides(s.match, Burns(w))
<1> DEFINE P == 1 .. Len(w)
           burns == {x \in Budgets(w) \X Budgets(w) :
                       /\ x[1] < x[2] /\ SameCumulativeRun(w, x[1], x[2])
                       /\ \E c \in CounterNames : w[x[1]].counters[c] < w[x[2]].counters[c]
                       /\ NoProgress(w, x[1], x[2])}
<1>1. Burns(w) = {{c[1], c[2]} : c \in burns}
  BY DEF Burns
<1>2. \A i, j \in P : <<i, j>> \in burns <=> BurnAt(w, i, j)
  <2> SUFFICES ASSUME NEW i \in P, NEW j \in P
               PROVE  <<i, j>> \in burns <=> BurnAt(w, i, j)
    OBVIOUS
  <2>1. SameCumulativeRun(w, i, j) <=> Cumulative(w, i, j)
    BY CumulativeIs
  <2>2. (i \in Budgets(w) <=> IsBudget(w[i])) /\ (j \in Budgets(w) <=> IsBudget(w[j]))
    BY DEF Budgets, Positions
  <2>3. QED
    BY <2>1, <2>2 DEF BurnAt
<1>3. \A c \in burns : c[1] \in P /\ c[2] \in P /\ c = <<c[1], c[2]>>
  BY DEF Budgets, Positions
<1> HIDE DEF burns
<1>4. CASE s.match # {}
  <2>1. PICK i \in P, j \in P : BurnAt(w, i, j) /\ s.match = {i, j}
    BY <1>4 DEF BurnScan, FoundBurn
  <2> DEFINE c == <<i, j>>
  <2>2. c \in burns /\ s.match = {c[1], c[2]}
    BY <1>2, <2>1
  <2> HIDE DEF c
  <2>3. s.match \in Burns(w)
    BY <1>1, <2>2
  <2>4. QED
    BY <2>3 DEF Decides
<1>5. CASE s.match = {}
  <2>1. CASE ProgressIn(w, Len(w))
    <3>1. PICK i \in P, j \in P : i <= j /\ ~NoProgress(w, i, j)
      BY <2>1 DEF ProgressIn
    <3>2. ~ProgressFree(w)
      BY <3>1, ProgressStays
    <3>3. QED
      BY <1>5, <3>2
  <2>2. CASE ~ProgressIn(w, Len(w))
    <3>1. \A i, j \in P : ~BurnAt(w, i, j)
      BY <1>5, <2>2 DEF BurnScan, SearchingBurn
    <3>2. burns = {}
      BY <1>2, <1>3, <3>1
    <3>3. QED
      BY <1>1, <1>5, <3>2 DEF Decides
  <2>3. QED
    BY <2>1, <2>2
<1>6. QED
  BY <1>4, <1>5

-----------------------------------------------------------------------------
(* The growing window.                                                     *)

IInv ==
  /\ Recorded
  /\ UnchangedScan(unchanged, window, Len(window))
  /\ StallScan(stall, window, Len(window))
  /\ BurnScan(burn, window, Len(window))
  /\ TypeOK

LEMMA InitHolds == Init => IInv
<1> SUFFICES ASSUME Init
             PROVE  IInv
  OBVIOUS
<1>1. window = << >> /\ Len(window) = 0 /\ alphabet \in Alphabets
  BY DEF Init
<1>2. Recorded
  BY <1>1, WindowBound DEF Recorded
<1>3. /\ UnchangedScan(unchanged, window, Len(window))
      /\ StallScan(stall, window, Len(window))
      /\ BurnScan(burn, window, Len(window))
  BY <1>1, UnchangedStarts, StallStarts, BurnStarts DEF Init
<1>4. TypeOK
  BY <1>1, WindowBound DEF Init, TypeOK, UnchangedStart, StallStart, BurnStart
<1>5. QED
  BY <1>2, <1>3, <1>4 DEF IInv

\* The detectors' states after the new event.
LEMMA PassScans ==
  ASSUME IInv, NEW e \in alphabet, Pass(e)
  PROVE  /\ UnchangedScan(unchanged', window', Len(window'))
         /\ StallScan(stall', window', Len(window'))
         /\ BurnScan(burn', window', Len(window'))
<1> DEFINE n == Len(window)
           w == window'
<1>1. /\ Recorded' /\ n \in Nat /\ Len(w) = n + 1
      /\ \A p \in 1 .. n : w[p] = window[p]
      /\ window \in Seq(Recordings) /\ w \in Seq(Recordings)
  BY PassAppends DEF IInv, Recorded
<1>2. Usable(w)
  <2>1. Len(w) <= MaxWindow /\ \A p \in 1 .. Len(w) : w[p].id = p
    BY <1>1 DEF Recorded
  <2> HIDE DEF w
  <2>2. QED
    BY <1>1, <2>1, RecordedIsUsable
<1>3. /\ unchanged' = UnchangedStep(unchanged, w, n + 1)
      /\ stall' = StallStep(stall, w, n + 1)
      /\ burn' = BurnStep(burn, w, n + 1)
  BY <1>1 DEF Pass
<1>4. /\ UnchangedScan(unchanged, window, n)
      /\ StallScan(stall, window, n)
      /\ BurnScan(burn, window, n)
  BY DEF IInv
<1> HIDE DEF n, w
<1>5. UnchangedScan(unchanged, w, n) /\ StallScan(stall, w, n) /\ BurnScan(burn, w, n)
  BY <1>1, <1>4, UnchangedScanReads, StallScanReads, BurnScanReads
<1>6. UnchangedScan(unchanged', w, n + 1)
  BY <1>1, <1>2, <1>3, <1>5, UnchangedStepScans
<1>7. StallScan(stall', w, n + 1)
  BY <1>1, <1>2, <1>3, <1>5, StallStepScans
<1>8. BurnScan(burn', w, n + 1)
  BY <1>1, <1>2, <1>3, <1>5, BurnStepScans
<1>9. QED
  BY <1>1, <1>6, <1>7, <1>8 DEF w

\* What the detectors remember are positions of the window, also once they
\* have matched and remember nothing more.
LEMMA PassKeepsTypes ==
  ASSUME IInv, NEW e \in alphabet, Pass(e), Recorded',
         UnchangedScan(unchanged', window', Len(window')),
         StallScan(stall', window', Len(window')),
         BurnScan(burn', window', Len(window'))
  PROVE  TypeOK'
<1> DEFINE n == Len(window)
           P == 1 .. n + 1
<1>1. /\ n \in Nat /\ Len(window') = n + 1 /\ 1 .. n \subseteq P
      /\ \A p \in 1 .. n : window'[p] = window[p]
  <2>1. /\ n \in Nat /\ Len(window') = n + 1
        /\ \A p \in 1 .. n : window'[p] = window[p]
    BY PassAppends DEF IInv
  <2>2. QED
    BY <2>1
<1>2. /\ unchanged' = UnchangedStep(unchanged, window', n + 1)
      /\ stall' = StallStep(stall, window', n + 1)
      /\ burn' = BurnStep(burn, window', n + 1)
  BY <1>1 DEF Pass
<1>3. /\ unchanged'.latest # None => unchanged'.latest[2] \in P
      /\ \A f \in DOMAIN unchanged'.pending : unchanged'.pending[f] \in P \X P
      /\ unchanged'.match \subseteq P
  <2>1. CASE unchanged'.match = {}
    <3>1. SearchingUnmet(unchanged', window', n + 1)
      BY <1>1, <2>1 DEF UnchangedScan
    <3>2. unchanged'.latest # None => unchanged'.latest[2] \in P
      <4> DEFINE k == StateFrom(window', n + 1)
      <4>1. k = 0 \/ k \in P
        BY <1>1, StateFromIs
      <4>2. unchanged'.latest = IF k = 0 THEN None ELSE <<window'[k].fp, k>>
        BY <3>1 DEF SearchingUnmet, LatestAt
      <4> HIDE DEF k
      <4>3. QED
        BY <4>1, <4>2
    <3>3. ASSUME NEW f \in DOMAIN unchanged'.pending
          PROVE  unchanged'.pending[f] \in P \X P
      <4> DEFINE x == Oldest(window', f, n + 1)
      <4>1. /\ OpenExpectations(window', f, n + 1) # {}
            /\ unchanged'.pending[f] = <<StateFrom(window', x), x>>
        BY <3>1 DEF SearchingUnmet
      <4>2. x \in P /\ StateFrom(window', x) \in P
        <5>1. n + 1 \in Nat
          BY <1>1
        <5>2. QED
          BY <4>1, <5>1, OldestIs
      <4>3. QED
        BY <4>1, <4>2
    <3>4. QED
      BY <2>1, <3>2, <3>3
  <2>2. CASE unchanged'.match # {}
    <3>1. unchanged'.latest = unchanged.latest /\ unchanged'.pending = unchanged.pending
      <4>1. DOMAIN unchanged = {"latest", "pending", "match"}
        BY DEF IInv, UnchangedScan
      <4>2. CASE unchanged.match # {}
        BY <1>2, <4>2 DEF UnchangedStep
      <4>3. CASE unchanged.match = {} /\ Unmet(unchanged, window', n + 1)
        BY <1>2, <4>1, <4>3 DEF UnchangedStep
      <4>4. CASE unchanged.match = {} /\ ~Unmet(unchanged, window', n + 1)
        BY <1>2, <2>2, <4>1, <4>4 DEF UnchangedStep
      <4>5. QED
        BY <4>2, <4>3, <4>4
    <3>2. unchanged'.match \subseteq P
      <4>1. PICK o \in P :
              /\ UnmetAt(window', o)
              /\ unchanged'.match = {StateFrom(window', OldestAt(window', o)), OldestAt(window', o), o}
        BY <1>1, <2>2 DEF UnchangedScan, FoundUnmet
      <4>2. OldestAt(window', o) \in 1 .. o - 1 /\ StateFrom(window', OldestAt(window', o)) \in 1 .. o - 1
        <5>1. o - 1 \in Nat /\ OpenExpectations(window', window'[o].fp, o - 1) # {}
          BY <1>1, <4>1 DEF UnmetAt
        <5>2. QED
          BY <5>1, OldestIs DEF OldestAt
      <4>3. QED
        BY <1>1, <4>1, <4>2
    <3>3. QED
      BY <1>1, <3>1, <3>2 DEF IInv, TypeOK, Positions
  <2>3. QED
    BY <2>1, <2>2
<1>4. /\ \A i \in DOMAIN stall'.baselines : stall'.baselines[i][2] \in P
      /\ stall'.match \subseteq P
  <2>1. CASE stall'.match = {}
    <3>1. SearchingStall(stall', window', n + 1)
      BY <1>1, <2>1 DEF StallScan
    <3>2. \A i \in DOMAIN stall'.baselines : stall'.baselines[i][2] \in P
      BY <3>1 DEF SearchingStall
    <3>3. QED
      BY <2>1, <3>2
  <2>2. CASE stall'.match # {}
    <3> DEFINE x == window'[n + 1]
               repeats == RepeatsDelta(stall, x)
    <3>1. stall'.baselines = stall.baselines
      <4>1. DOMAIN stall = {"baselines", "match"}
        BY DEF IInv, StallScan
      <4>2. CASE stall.match # {}
        BY <1>2, <4>2 DEF StallStep
      <4>3. CASE stall.match = {}
        BY <1>2, <2>2, <4>1, <4>3 DEF StallStep
      <4>4. QED
        BY <4>2, <4>3
    <3>2. stall'.match \subseteq P
      BY <1>1, <2>2 DEF StallScan, FoundStall
    <3>3. QED
      BY <1>1, <3>1, <3>2 DEF IInv, TypeOK, Positions
  <2>3. QED
    BY <2>1, <2>2
<1>5. {burn'.baseline, burn'.prior} \subseteq Budgets(window') \cup {0} /\ burn'.match \subseteq P
  <2>1. {burn.baseline, burn.prior} \subseteq Budgets(window') \cup {0}
    <3>1. {burn.baseline, burn.prior} \subseteq Budgets(window) \cup {0}
      BY DEF IInv, TypeOK
    <3>2. Budgets(window) \subseteq Budgets(window')
      BY <1>1 DEF Budgets, Positions
    <3>3. QED
      BY <3>1, <3>2
  <2>2. IsBudget(window'[n + 1]) => n + 1 \in Budgets(window')
    BY <1>1 DEF Budgets, Positions
  <2>3. DOMAIN burn = {"baseline", "prior", "match"}
    BY DEF IInv, BurnScan
  <2>4. {burn'.baseline, burn'.prior} \subseteq Budgets(window') \cup {0}
    <3>1. CASE ~IsBudget(window'[n + 1])
      BY <1>2, <2>1, <3>1 DEF BurnStep
    <3>2. CASE IsBudget(window'[n + 1])
      <4>1. /\ burn'.baseline \in {burn.baseline, n + 1}
            /\ burn'.prior \in {burn.prior, n + 1}
        BY <1>2, <2>3 DEF BurnStep
      <4>2. QED
        BY <2>1, <2>2, <3>2, <4>1
    <3>3. QED
      BY <3>1, <3>2
  <2>5. burn'.match \subseteq P
    BY <1>1 DEF BurnScan, FoundBurn
  <2>6. QED
    BY <2>4, <2>5
<1>6. alphabet' \in Alphabets /\ Len(window') <= MaxWindow
  BY DEF Recorded
<1>7. QED
  BY <1>1, <1>3, <1>4, <1>5, <1>6 DEF TypeOK, Positions

LEMMA PassHolds ==
  ASSUME IInv, NEW e \in alphabet, Pass(e)
  PROVE  IInv'
<1>1. Recorded'
  BY PassAppends DEF IInv
<1>2. /\ UnchangedScan(unchanged', window', Len(window'))
      /\ StallScan(stall', window', Len(window'))
      /\ BurnScan(burn', window', Len(window'))
  BY PassScans
<1>3. TypeOK'
  BY <1>1, <1>2, PassKeepsTypes
<1>4. QED
  BY <1>1, <1>2, <1>3 DEF IInv

LEMMA StutterHolds == IInv /\ UNCHANGED vars => IInv'
BY DEF IInv, Recorded, TypeOK, vars

\* What each detector remembers is what its loop needs: the inductive
\* invariant.
THEOREM Invariance == Spec => []IInv
<1>1. IInv /\ [Next]_vars => IInv'
  BY PassHolds, StutterHolds DEF Next
<1>2. QED
  BY InitHolds, <1>1, PTL DEF Spec

\* The detectors remember positions of the window, budget_burn only those of
\* budget events (detectors.py's baselines and dictionaries).
THEOREM TypeCorrect == Spec => []TypeOK
<1>1. IInv => TypeOK
  BY DEF IInv
<1>2. QED
  BY Invariance, <1>1, PTL

\* detect_unchanged_state matches exactly the windows in which the first
\* fingerprinted observation after an expectation shows the state the oldest
\* open expectation started from, with no progress since that baseline.
THEOREM UnchangedDecided == Spec => []UnchangedStateDecides
<1>1. IInv => UnchangedStateDecides
  BY UnchangedDecides DEF IInv, Recorded, UnchangedStateDecides
<1>2. QED
  BY Invariance, <1>1, PTL

\* detect_acceptance_stall reports only two consecutive checks of one
\* identity with one delta and no progress between them.
THEOREM StallGenuine == Spec => []StallIsGenuine
<1>1. IInv => StallIsGenuine
  BY StallDecides DEF IInv, Recorded, StallIsGenuine
<1>2. QED
  BY Invariance, <1>1, PTL

\* detect_acceptance_stall misses a stall only in a window that holds checks
\* of two identities and progress: what dropping every baseline costs.
THEOREM StallComplete == Spec => []StallIsComplete
<1>1. IInv => StallIsComplete
  BY StallDecides DEF IInv, Recorded, StallIsComplete, TwoChecks, Positions
<1>2. QED
  BY Invariance, <1>1, PTL

\* detect_budget_burn never compares counters across a reset of any one of
\* them, and never across progress.
THEOREM BurnGenuine == Spec => []BurnIsGenuine
<1>1. IInv => BurnIsGenuine
  BY BurnDecides DEF IInv, Recorded, BurnIsGenuine
<1>2. QED
  BY Invariance, <1>1, PTL

\* In a window without progress detect_budget_burn reports a rise of the
\* cumulative counters wherever the resets fall.
THEOREM BurnComplete == Spec => []BurnIsComplete
<1>1. IInv => BurnIsComplete
  BY BurnDecides DEF IInv, Recorded, BurnIsComplete
<1>2. QED
  BY Invariance, <1>1, PTL

=============================================================================
