-------------------------- MODULE RepetitionProofs --------------------------
(***************************************************************************)
(* Proofs about the three detectors of the repetition class, for windows   *)
(* of any length over any events.  For each detector there is a predicate  *)
(* of its state, a window and the number of events passed; one iteration   *)
(* of the loop keeps it, and after the last event it says that the         *)
(* detector decides.                                                       *)
(***************************************************************************)
EXTENDS RepetitionScan, SequenceTheorems, FunctionTheorems, FiniteSetTheorems, WellFoundedInduction, TLAPS

-----------------------------------------------------------------------------
(* The window.                                                             *)

Recordings == {[e EXCEPT !.id = p] : e \in UNION Alphabets, p \in 1 .. MaxWindow}

\* Every event of the window has its position for an id.
Recorded ==
  /\ alphabet \in Alphabets
  /\ window \in Seq(Recordings)
  /\ Len(window) <= MaxWindow
  /\ \A p \in 1 .. Len(window) : window[p].id = p

\* No two events of a window share an id.
Distinct(w) == \A i, j \in 1 .. Len(w) : w[i].id = w[j].id => i = j

\* The events passed keep their positions, and the new one is last.
LEMMA PassAppends ==
  ASSUME Recorded, NEW e \in alphabet, Pass(e)
  PROVE  /\ Recorded'
         /\ Len(window) \in Nat /\ Len(window') = Len(window) + 1
         /\ \A p \in 1 .. Len(window) : window'[p] = window[p]
<1> DEFINE n == Len(window)
           new == [e EXCEPT !.id = n + 1]
<1>1. n \in Nat /\ n + 1 \in 1 .. MaxWindow
  BY WindowBound DEF Recorded, Pass
<1>2. e \in UNION Alphabets /\ DOMAIN e = DOMAIN Blank
  BY EventAssumption DEF Recorded
<1>3. new \in Recordings
  BY <1>1, <1>2 DEF Recordings
<1>4. new.id = n + 1
  BY <1>2 DEF Blank
<1>5. window' = Append(window, new)
  BY DEF Pass, Record
<1> HIDE DEF new
<1>6. /\ window' \in Seq(Recordings) /\ Len(window') = n + 1
      /\ \A p \in 1 .. n : window'[p] = window[p]
      /\ window'[n + 1] = new
  BY <1>3, <1>5 DEF Recorded
<1>7. \A p \in 1 .. Len(window') : window'[p].id = p
  BY <1>1, <1>4, <1>6 DEF Recorded
<1>8. QED
  BY <1>1, <1>6, <1>7 DEF Recorded, Pass

LEMMA RecordedIsDistinct == Recorded => Distinct(window)
BY DEF Recorded, Distinct

-----------------------------------------------------------------------------
(* exact_repetition.                                                       *)

IsIdentified(w, c) == IsCall(w[c]) /\ Identity(w[c]) # None

\* r is a result that answers the call c.
Answered(w, c, r) ==
  /\ c < r /\ IsIdentified(w, c)
  /\ w[r].kind = "tool_result" /\ Identity(w[r]) # None
  /\ w[r].parent = w[c].id

PairAt(w, c, r) == <<Identity(w[c]), Identity(w[r])>>

\* No pair was answered for two calls: the calls of the window are known, and
\* so is for every pair the one call that had it.
SearchingPairs(s, w, n) ==
  /\ \A c \in 1 .. n : IsIdentified(w, c) =>
       w[c].id \in DOMAIN s.calls /\ s.calls[w[c].id] = Identity(w[c])
  /\ \A i \in DOMAIN s.calls : \E c \in 1 .. n : IsIdentified(w, c) /\ w[c].id = i
  /\ \A c, r \in 1 .. n : Answered(w, c, r) =>
       PairAt(w, c, r) \in DOMAIN s.pairs /\ s.pairs[PairAt(w, c, r)][1] = w[c].id
  /\ \A pair \in DOMAIN s.pairs : \E c, r \in 1 .. n :
       Answered(w, c, r) /\ PairAt(w, c, r) = pair /\ s.pairs[pair] = <<w[c].id, w[r].id>>

FoundPair(match, w, n) ==
  \E c, r, d, q \in 1 .. n :
    /\ Answered(w, c, r) /\ Answered(w, d, q) /\ c # d /\ PairAt(w, c, r) = PairAt(w, d, q)
    /\ match = {w[c].id, w[r].id, w[d].id, w[q].id}

ExactScan(s, w, n) ==
  /\ DOMAIN s = {"calls", "pairs", "match"}
  /\ s.match = {} => SearchingPairs(s, w, n)
  /\ s.match # {} => FoundPair(s.match, w, n)

\* A longer window with the same events so far is scanned alike so far.
LEMMA ExactScanReads ==
  ASSUME NEW s, NEW w, NEW v, NEW n \in Nat, \A p \in 1 .. n : v[p] = w[p], ExactScan(s, w, n)
  PROVE  ExactScan(s, v, n)
<1>1. \A c \in 1 .. n : IsIdentified(v, c) <=> IsIdentified(w, c)
  BY DEF IsIdentified
<1>2. \A c, r \in 1 .. n : /\ Answered(v, c, r) <=> Answered(w, c, r)
                          /\ PairAt(v, c, r) = PairAt(w, c, r)
  BY <1>1 DEF Answered, PairAt
<1>3. s.match = {} => SearchingPairs(s, v, n)
  BY <1>1, <1>2 DEF ExactScan, SearchingPairs
<1>4. ASSUME s.match # {}
      PROVE  FoundPair(s.match, v, n)
  <2>1. PICK c \in 1 .. n, r \in 1 .. n, d \in 1 .. n, q \in 1 .. n :
          /\ Answered(w, c, r) /\ Answered(w, d, q) /\ c # d /\ PairAt(w, c, r) = PairAt(w, d, q)
          /\ s.match = {w[c].id, w[r].id, w[d].id, w[q].id}
    BY <1>4 DEF ExactScan, FoundPair
  <2>2. s.match = {v[c].id, v[r].id, v[d].id, v[q].id}
    BY <2>1
  <2>3. QED
    BY <1>2, <2>1, <2>2 DEF FoundPair
<1>5. QED
  BY <1>3, <1>4 DEF ExactScan

LEMMA FoundPairStays ==
  ASSUME NEW match, NEW w, NEW n \in Nat, FoundPair(match, w, n)
  PROVE  FoundPair(match, w, n + 1)
<1>1. PICK c \in 1 .. n, r \in 1 .. n, d \in 1 .. n, q \in 1 .. n :
        /\ Answered(w, c, r) /\ Answered(w, d, q) /\ c # d /\ PairAt(w, c, r) = PairAt(w, d, q)
        /\ match = {w[c].id, w[r].id, w[d].id, w[q].id}
  BY DEF FoundPair
<1>2. c \in 1 .. n + 1 /\ r \in 1 .. n + 1 /\ d \in 1 .. n + 1 /\ q \in 1 .. n + 1
  OBVIOUS
<1>3. QED
  BY <1>1, <1>2 DEF FoundPair

\* One iteration of the loop.
LEMMA ExactStepScans ==
  ASSUME NEW s, NEW w, NEW n \in Nat, n + 1 <= Len(w), Len(w) \in Nat, Distinct(w),
         ExactScan(s, w, n)
  PROVE  ExactScan(ExactStep(s, w, n + 1), w, n + 1)
<1> DEFINE p == n + 1
           e == w[p]
           t == ExactStep(s, w, p)
<1> SUFFICES ExactScan(t, w, p)
  OBVIOUS
<1>1. CASE s.match # {}
  <2>1. t = s
    BY <1>1 DEF ExactStep
  <2>2. QED
    BY <1>1, <2>1, FoundPairStays DEF ExactScan
<1>2. CASE s.match = {} /\ IsIdentified(w, p)
  <2>1. t = [s EXCEPT !.calls = With(s.calls, e.id, Identity(e))]
    BY <1>2 DEF ExactStep, IsIdentified, IsCall
  <2>2. /\ DOMAIN t = {"calls", "pairs", "match"} /\ t.match = {} /\ t.pairs = s.pairs
        /\ t.calls = With(s.calls, e.id, Identity(e))
    BY <1>2, <2>1 DEF ExactScan
  <2> HIDE DEF t
  <2>3. \A c, r \in 1 .. p : Answered(w, c, r) => c \in 1 .. n /\ r \in 1 .. n
    BY <1>2 DEF Answered, IsIdentified, IsCall
  <2>4. \A c \in 1 .. p : c = p \/ (c \in 1 .. n /\ w[c].id # e.id)
    BY DEF Distinct
  <2>5. SearchingPairs(s, w, n)
    BY <1>2 DEF ExactScan
  <2>6. \A c \in 1 .. p : IsIdentified(w, c) =>
          w[c].id \in DOMAIN t.calls /\ t.calls[w[c].id] = Identity(w[c])
    BY <2>2, <2>4, <2>5 DEF SearchingPairs, With
  <2>7. \A i \in DOMAIN t.calls : \E c \in 1 .. p : IsIdentified(w, c) /\ w[c].id = i
    BY <1>2, <2>2, <2>5 DEF SearchingPairs, With
  <2>8. SearchingPairs(t, w, p)
    BY <2>2, <2>3, <2>5, <2>6, <2>7 DEF SearchingPairs
  <2>9. QED
    BY <2>2, <2>8 DEF ExactScan
<1>3. CASE s.match = {} /\ ~IsIdentified(w, p) /\ ~ClosesCall(s, e)
  <2>1. t = s
    BY <1>3 DEF ExactStep, IsIdentified, IsCall
  <2>2. SearchingPairs(s, w, n)
    BY <1>3 DEF ExactScan
  <2>3. \A c, r \in 1 .. p : Answered(w, c, r) => c \in 1 .. n /\ r \in 1 .. n
    BY <1>3, <2>2 DEF Answered, ClosesCall, SearchingPairs
  <2>4. \A c \in 1 .. p : IsIdentified(w, c) => c \in 1 .. n
    BY <1>3
  <2>5. SearchingPairs(s, w, p)
    BY <2>2, <2>3, <2>4 DEF SearchingPairs
  <2>6. QED
    BY <1>3, <2>1, <2>5 DEF ExactScan
<1>4. CASE s.match = {} /\ ~IsIdentified(w, p) /\ ClosesCall(s, e)
  <2>1. SearchingPairs(s, w, n)
    BY <1>4 DEF ExactScan
  <2>2. PICK a \in 1 .. n : IsIdentified(w, a) /\ w[a].id = e.parent
    BY <1>4, <2>1 DEF ClosesCall, SearchingPairs
  <2>3. Answered(w, a, p) /\ PairOf(s, e) = PairAt(w, a, p) /\ a # p
    BY <1>4, <2>1, <2>2 DEF Answered, ClosesCall, SearchingPairs, PairOf, PairAt
  <2>4. \A c, r \in 1 .. p : Answered(w, c, r) =>
          c \in 1 .. n /\ (r \in 1 .. n \/ (r = p /\ c = a))
    BY <2>2 DEF Answered, Distinct
  <2>5. CASE RepeatsPair(s, e)
    <3>1. t = [s EXCEPT !.match = {s.pairs[PairOf(s, e)][1], s.pairs[PairOf(s, e)][2], e.parent, e.id}]
      BY <1>4, <2>5 DEF ExactStep, IsIdentified, IsCall
    <3>2. PICK c \in 1 .. n, r \in 1 .. n :
            /\ Answered(w, c, r) /\ PairAt(w, c, r) = PairOf(s, e)
            /\ s.pairs[PairOf(s, e)] = <<w[c].id, w[r].id>>
      BY <2>1, <2>5 DEF RepeatsPair, SearchingPairs
    <3>3. c # a
      BY <2>2, <2>5, <3>2 DEF RepeatsPair
    <3>4. /\ DOMAIN t = {"calls", "pairs", "match"}
          /\ t.match = {w[c].id, w[r].id, w[a].id, w[p].id}
      BY <2>2, <3>1, <3>2 DEF ExactScan
    <3>5. FoundPair(t.match, w, p)
      BY <2>3, <3>2, <3>3, <3>4 DEF FoundPair
    <3>6. QED
      BY <3>4, <3>5 DEF ExactScan
  <2>6. CASE ~RepeatsPair(s, e)
    <3>1. t = [s EXCEPT !.pairs = KeepFirst(s, e)]
      BY <1>4, <2>6 DEF ExactStep, IsIdentified, IsCall
    <3>2. /\ DOMAIN t = {"calls", "pairs", "match"} /\ t.match = {} /\ t.calls = s.calls
          /\ t.pairs = KeepFirst(s, e)
      BY <1>4, <3>1 DEF ExactScan
    <3> HIDE DEF t
    <3>3. /\ DOMAIN t.pairs = DOMAIN s.pairs \cup {PairAt(w, a, p)}
          /\ \A pair \in DOMAIN s.pairs : t.pairs[pair] = s.pairs[pair]
          /\ PairAt(w, a, p) \notin DOMAIN s.pairs => t.pairs[PairAt(w, a, p)] = <<w[a].id, e.id>>
          /\ t.pairs[PairAt(w, a, p)][1] = w[a].id
      BY <2>2, <2>3, <2>6, <3>2 DEF KeepFirst, With, RepeatsPair
    <3>4. \A c, r \in 1 .. p : Answered(w, c, r) =>
            PairAt(w, c, r) \in DOMAIN t.pairs /\ t.pairs[PairAt(w, c, r)][1] = w[c].id
      <4> SUFFICES ASSUME NEW c \in 1 .. p, NEW r \in 1 .. p, Answered(w, c, r)
                   PROVE  /\ PairAt(w, c, r) \in DOMAIN t.pairs
                          /\ t.pairs[PairAt(w, c, r)][1] = w[c].id
        OBVIOUS
      <4>1. c \in 1 .. n /\ (r \in 1 .. n \/ (r = p /\ c = a))
        BY <2>4
      <4>2. CASE r \in 1 .. n
        <5>1. PairAt(w, c, r) \in DOMAIN s.pairs /\ s.pairs[PairAt(w, c, r)][1] = w[c].id
          BY <2>1, <4>1, <4>2 DEF SearchingPairs
        <5>2. QED
          BY <3>3, <5>1
      <4>3. CASE r = p /\ c = a
        BY <3>3, <4>3
      <4>4. QED
        BY <4>1, <4>2, <4>3
    <3>5. \A pair \in DOMAIN t.pairs : \E c, r \in 1 .. p :
            Answered(w, c, r) /\ PairAt(w, c, r) = pair /\ t.pairs[pair] = <<w[c].id, w[r].id>>
      <4> TAKE pair \in DOMAIN t.pairs
      <4>1. CASE pair \in DOMAIN s.pairs
        <5>1. PICK c \in 1 .. n, r \in 1 .. n :
                Answered(w, c, r) /\ PairAt(w, c, r) = pair /\ s.pairs[pair] = <<w[c].id, w[r].id>>
          BY <2>1, <4>1 DEF SearchingPairs
        <5>2. c \in 1 .. p /\ r \in 1 .. p /\ t.pairs[pair] = s.pairs[pair]
          BY <3>3, <4>1
        <5>3. QED
          BY <5>1, <5>2
      <4>2. CASE pair \notin DOMAIN s.pairs
        BY <2>3, <3>3, <4>2
      <4>3. QED
        BY <4>1, <4>2
    <3>6. \A c \in 1 .. p : IsIdentified(w, c) =>
            w[c].id \in DOMAIN t.calls /\ t.calls[w[c].id] = Identity(w[c])
      <4>1. \A c \in 1 .. p : IsIdentified(w, c) => c \in 1 .. n
        BY <1>4
      <4>2. QED
        BY <2>1, <3>2, <4>1 DEF SearchingPairs
    <3>7. \A i \in DOMAIN t.calls : \E c \in 1 .. p : IsIdentified(w, c) /\ w[c].id = i
      <4>1. 1 .. n \subseteq 1 .. p
        OBVIOUS
      <4>2. QED
        BY <2>1, <3>2, <4>1 DEF SearchingPairs
    <3>8. SearchingPairs(t, w, p)
      BY <3>4, <3>5, <3>6, <3>7 DEF SearchingPairs
    <3>9. QED
      BY <3>2, <3>8 DEF ExactScan
  <2>7. QED
    BY <2>5, <2>6
<1>5. QED
  BY <1>1, <1>2, <1>3, <1>4

LEMMA ExactStarts ==
  ASSUME NEW w
  PROVE  ExactScan(ExactStart, w, 0)
BY DEF ExactScan, ExactStart, SearchingPairs

\* What the detector returns after the last event.
LEMMA ExactDecides ==
  ASSUME NEW s, NEW w, Len(w) \in Nat, Distinct(w), ExactScan(s, w, Len(w))
  PROVE  Decides(s.match, RepeatedPairs(w))
<1> DEFINE P == 1 .. Len(w)
<1>1. \A a \in P \X P : a \in Answers(w) <=> Answered(w, a[1], a[2])
  BY DEF Answers, Answered, IsIdentified
<1>2. CASE s.match = {}
  <2>1. SearchingPairs(s, w, Len(w))
    BY <1>2 DEF ExactScan
  <2>2. ASSUME NEW x \in Repeats(w)
        PROVE  FALSE
    <3>1. /\ x[1] \in Answers(w) /\ x[2] \in Answers(w) /\ x[1][1] # x[2][1]
          /\ PairAt(w, x[1][1], x[1][2]) = PairAt(w, x[2][1], x[2][2])
      BY DEF Repeats, PairAt
    <3>2. /\ x[1] \in P \X P /\ x[2] \in P \X P
      BY <3>1 DEF Answers
    <3>3. /\ x[1][1] \in P /\ x[1][2] \in P /\ Answered(w, x[1][1], x[1][2])
          /\ x[2][1] \in P /\ x[2][2] \in P /\ Answered(w, x[2][1], x[2][2])
      BY <1>1, <3>1, <3>2
    <3>4. s.pairs[PairAt(w, x[1][1], x[1][2])][1] = w[x[1][1]].id
      BY <2>1, <3>3 DEF SearchingPairs
    <3>5. s.pairs[PairAt(w, x[2][1], x[2][2])][1] = w[x[2][1]].id
      BY <2>1, <3>3 DEF SearchingPairs
    <3>6. w[x[1][1]].id = w[x[2][1]].id
      BY <3>1, <3>4, <3>5
    <3>7. QED
      BY <3>1, <3>3, <3>6 DEF Distinct
  <2>3. RepeatedPairs(w) = {}
    BY <2>2 DEF RepeatedPairs
  <2>4. QED
    BY <1>2, <2>3 DEF Decides
<1>3. CASE s.match # {}
  <2>1. PICK c \in P, r \in P, d \in P, q \in P :
          /\ Answered(w, c, r) /\ Answered(w, d, q) /\ c # d /\ PairAt(w, c, r) = PairAt(w, d, q)
          /\ s.match = {w[c].id, w[r].id, w[d].id, w[q].id}
    BY <1>3 DEF ExactScan, FoundPair
  <2> DEFINE x == <<<<c, r>>, <<d, q>>>>
  <2>2. <<c, r>> \in Answers(w) /\ <<d, q>> \in Answers(w)
    BY <1>1, <2>1
  <2>3. x \in Repeats(w)
    BY <2>1, <2>2 DEF Repeats, PairAt
  <2>4. s.match = {w[x[1][1]].id, w[x[1][2]].id, w[x[2][1]].id, w[x[2][2]].id}
    BY <2>1
  <2>5. s.match \in RepeatedPairs(w)
    BY <2>3, <2>4 DEF RepeatedPairs
  <2>6. QED
    BY <2>5 DEF Decides
<1>4. QED
  BY <1>2, <1>3

-----------------------------------------------------------------------------
(* Least and greatest positions.                                           *)

\* The order of the naturals is well-founded.
LEMMA LeastExists ==
  ASSUME NEW T \in SUBSET Nat, T # {}
  PROVE  \E m \in T : \A k \in T : m <= k
<1> DEFINE R == OpToRel(<, Nat)
<1>1. IsWellFoundedOn(R, Nat)
  BY NatLessThanWellFounded
<1>2. \A x, y \in Nat : <<y, x>> \in R <=> y < x
  BY DEF OpToRel
<1> HIDE DEF R
<1>3. PICK m \in T : \A k \in T : ~(<<k, m>> \in R)
  BY <1>1, WFMin
<1>4. ASSUME NEW k \in T
      PROVE  m <= k
  <2>1. ~(k < m) /\ k \in Nat /\ m \in Nat
    BY <1>2, <1>3
  <2>2. QED
    BY <2>1
<1>5. QED
  BY <1>4

\* Induction on the naturals over a set.
LEMMA SetInduction ==
  ASSUME NEW S, 0 \in S, \A n \in Nat : n \in S => n + 1 \in S
  PROVE  Nat \subseteq S
<1> DEFINE T == {n \in Nat : n \notin S}
<1> SUFFICES ASSUME T # {}
             PROVE  FALSE
  OBVIOUS
<1>1. PICK m \in T : \A k \in T : m <= k
  <2>1. T \in SUBSET Nat
    OBVIOUS
  <2> HIDE DEF T
  <2>2. QED
    BY <2>1, LeastExists
<1>2. m # 0 /\ m - 1 \in Nat /\ m - 1 \in S
  BY <1>1
<1>3. QED
  BY <1>1, <1>2

LEMMA GreatestExists ==
  ASSUME NEW n \in Nat, NEW T \in SUBSET (1 .. n), T # {}
  PROVE  \E m \in T : \A k \in T : k <= m
<1> DEFINE U == {n - k : k \in T}
<1>1. U \in SUBSET Nat /\ U # {}
  <2>1. \A k \in T : n - k \in Nat
    OBVIOUS
  <2>2. PICK k \in T : TRUE
    OBVIOUS
  <2>3. n - k \in U
    BY <2>2
  <2>4. QED
    BY <2>1, <2>3
<1>2. PICK u \in U : \A v \in U : u <= v
  <2> HIDE DEF U
  <2>1. QED
    BY <1>1, LeastExists
<1>3. PICK m \in T : u = n - m
  BY <1>2
<1>4. ASSUME NEW k \in T
      PROVE  k <= m
  <2>1. n - k \in U
    OBVIOUS
  <2>2. n - m <= n - k
    BY <1>2, <1>3, <2>1
  <2>3. QED
    BY <2>2
<1>5. QED
  BY <1>4

\* Min and Max of the community modules, where there is one.
LEMMA MaxIs ==
  ASSUME NEW n \in Nat, NEW T \in SUBSET (1 .. n), T # {}
  PROVE  Max(T) \in T /\ \A k \in T : k <= Max(T)
<1>1. \E m \in T : \A k \in T : k <= m
  BY GreatestExists
<1>2. \E m \in T : \A k \in T : m >= k
  BY <1>1
<1>3. QED
  BY <1>2 DEF Max

LEMMA MinIs ==
  ASSUME NEW T \in SUBSET Nat, T # {}
  PROVE  Min(T) \in T /\ \A k \in T : Min(T) <= k
<1>1. \E m \in T : \A k \in T : m <= k
  BY LeastExists
<1>2. QED
  BY <1>1 DEF Min

-----------------------------------------------------------------------------
(* repeated_error.                                                         *)

IsFailure(w, i) == w[i].kind = "error" /\ w[i].error # None

\* The tool input an error at position i belongs to.
ContextAt(w, i) == LET c == CallBefore(w, i) IN IF c = 0 THEN None ELSE ContextOf(w[c])

KeyAt(w, i) == <<w[i].error, ContextAt(w, i)>>

SearchingErrors(s, w, n) ==
  /\ s.context = ContextAt(w, n + 1)
  /\ \A i \in 1 .. n : IsFailure(w, i) =>
       KeyAt(w, i) \in DOMAIN s.first /\ s.first[KeyAt(w, i)] = w[i].id
  /\ \A key \in DOMAIN s.first : \E i \in 1 .. n : IsFailure(w, i) /\ KeyAt(w, i) = key

FoundError(match, w, n) ==
  \E i, j \in 1 .. n :
    /\ i < j /\ IsFailure(w, i) /\ IsFailure(w, j) /\ KeyAt(w, i) = KeyAt(w, j)
    /\ match = {w[i].id, w[j].id}

ErrorScan(s, w, n) ==
  /\ DOMAIN s = {"context", "first", "match"}
  /\ s.match = {} => SearchingErrors(s, w, n)
  /\ s.match # {} => FoundError(s.match, w, n)

\* The last call before a position, if any.
LEMMA CallBeforeIs ==
  ASSUME NEW w, NEW i \in Nat \ {0}
  PROVE  LET c == CallBefore(w, i)
         IN  \/ c = 0 /\ \A k \in 1 .. i - 1 : ~IsCall(w[k])
             \/ c \in 1 .. i - 1 /\ IsCall(w[c]) /\ \A k \in c + 1 .. i - 1 : ~IsCall(w[k])
<1> DEFINE calls == {c \in 1 .. i - 1 : IsCall(w[c])}
<1>1. CASE calls = {}
  BY <1>1 DEF CallBefore
<1>2. CASE calls # {}
  <2>1. CallBefore(w, i) = Max(calls)
    BY <1>2 DEF CallBefore
  <2>2. Max(calls) \in calls /\ \A k \in calls : k <= Max(calls)
    <3>1. calls \in SUBSET (1 .. i - 1) /\ i - 1 \in Nat
      OBVIOUS
    <3> HIDE DEF calls
    <3>2. QED
      BY <1>2, <3>1, MaxIs
  <2>3. QED
    BY <2>1, <2>2
<1>3. QED
  BY <1>1, <1>2

\* Only the events before a position decide its context.
LEMMA ContextReads ==
  ASSUME NEW w, NEW v, NEW i \in Nat \ {0}, \A p \in 1 .. i - 1 : v[p] = w[p]
  PROVE  ContextAt(v, i) = ContextAt(w, i)
<1>1. CallBefore(v, i) = CallBefore(w, i)
  <2>1. {c \in 1 .. i - 1 : IsCall(v[c])} = {c \in 1 .. i - 1 : IsCall(w[c])}
    OBVIOUS
  <2>2. QED
    BY <2>1 DEF CallBefore
<1>2. CallBefore(w, i) = 0 \/ CallBefore(w, i) \in 1 .. i - 1
  BY CallBeforeIs
<1>3. QED
  BY <1>1, <1>2 DEF ContextAt

LEMMA NextContext ==
  ASSUME NEW w, NEW n \in Nat
  PROVE  ContextAt(w, n + 2) =
           IF IsCall(w[n + 1]) THEN ContextOf(w[n + 1]) ELSE ContextAt(w, n + 1)
<1> DEFINE c == CallBefore(w, n + 1)
           d == CallBefore(w, n + 2)
<1>1. /\ \/ c = 0 /\ \A k \in 1 .. n : ~IsCall(w[k])
         \/ c \in 1 .. n /\ IsCall(w[c]) /\ \A k \in c + 1 .. n : ~IsCall(w[k])
  <2>1. n + 1 \in Nat \ {0} /\ n + 1 - 1 = n
    OBVIOUS
  <2>2. QED
    BY <2>1, CallBeforeIs
<1>2. /\ \/ d = 0 /\ \A k \in 1 .. n + 1 : ~IsCall(w[k])
         \/ d \in 1 .. n + 1 /\ IsCall(w[d]) /\ \A k \in d + 1 .. n + 1 : ~IsCall(w[k])
  <2>1. n + 2 \in Nat \ {0} /\ n + 2 - 1 = n + 1
    OBVIOUS
  <2>2. QED
    BY <2>1, CallBeforeIs
<1> HIDE DEF c, d
<1>3. d = IF IsCall(w[n + 1]) THEN n + 1 ELSE c
  BY <1>1, <1>2
<1>4. QED
  BY <1>3 DEF ContextAt, c, d

LEMMA ErrorScanReads ==
  ASSUME NEW s, NEW w, NEW v, NEW n \in Nat, \A p \in 1 .. n : v[p] = w[p], ErrorScan(s, w, n)
  PROVE  ErrorScan(s, v, n)
<1>1. \A i \in 1 .. n + 1 : ContextAt(v, i) = ContextAt(w, i)
  <2> TAKE i \in 1 .. n + 1
  <2>1. i \in Nat \ {0} /\ \A p \in 1 .. i - 1 : v[p] = w[p]
    OBVIOUS
  <2>2. QED
    BY <2>1, ContextReads
<1>2. \A i \in 1 .. n : IsFailure(v, i) <=> IsFailure(w, i)
  BY DEF IsFailure
<1>3. \A i \in 1 .. n : KeyAt(v, i) = KeyAt(w, i)
  BY <1>1 DEF KeyAt
<1>4. ASSUME s.match = {}
      PROVE  SearchingErrors(s, v, n)
  <2>1. SearchingErrors(s, w, n)
    BY <1>4 DEF ErrorScan
  <2>2. ContextAt(v, n + 1) = ContextAt(w, n + 1)
    BY <1>1
  <2>3. QED
    BY <1>2, <1>3, <2>1, <2>2 DEF SearchingErrors
<1>5. ASSUME s.match # {}
      PROVE  FoundError(s.match, v, n)
  <2>1. PICK i \in 1 .. n, j \in 1 .. n :
          /\ i < j /\ IsFailure(w, i) /\ IsFailure(w, j) /\ KeyAt(w, i) = KeyAt(w, j)
          /\ s.match = {w[i].id, w[j].id}
    BY <1>5 DEF ErrorScan, FoundError
  <2>2. s.match = {v[i].id, v[j].id}
    BY <2>1
  <2>3. QED
    BY <1>2, <1>3, <2>1, <2>2 DEF FoundError
<1>6. QED
  BY <1>4, <1>5 DEF ErrorScan

LEMMA FoundErrorStays ==
  ASSUME NEW match, NEW w, NEW n \in Nat, FoundError(match, w, n)
  PROVE  FoundError(match, w, n + 1)
<1>1. PICK i \in 1 .. n, j \in 1 .. n :
        /\ i < j /\ IsFailure(w, i) /\ IsFailure(w, j) /\ KeyAt(w, i) = KeyAt(w, j)
        /\ match = {w[i].id, w[j].id}
  BY DEF FoundError
<1>2. i \in 1 .. n + 1 /\ j \in 1 .. n + 1
  OBVIOUS
<1>3. QED
  BY <1>1, <1>2 DEF FoundError

\* One iteration of the loop: the context it keeps is the one of the next
\* event.
LEMMA ErrorStepScans ==
  ASSUME NEW s, NEW w, NEW n \in Nat, ErrorScan(s, w, n)
  PROVE  ErrorScan(ErrorStep(s, w, n + 1), w, n + 1)
<1> DEFINE p == n + 1
           e == w[p]
           key == <<e.error, s.context>>
           t == ErrorStep(s, w, p)
<1> SUFFICES ErrorScan(t, w, p)
  OBVIOUS
<1>1. CASE s.match # {}
  <2>1. t = s
    BY <1>1 DEF ErrorStep
  <2>2. QED
    BY <1>1, <2>1, FoundErrorStays DEF ErrorScan
<1>2. p + 1 = n + 2 /\ \A i \in 1 .. p : i \in 1 .. n \/ i = p
  OBVIOUS
<1>3. ASSUME s.match = {}
      PROVE  SearchingErrors(s, w, n) /\ DOMAIN s = {"context", "first", "match"}
  BY <1>3 DEF ErrorScan
<1>4. CASE s.match = {} /\ IsCall(e)
  <2>1. t = [s EXCEPT !.context = ContextOf(e)]
    BY <1>4 DEF ErrorStep, IsCall
  <2>2. /\ DOMAIN t = {"context", "first", "match"} /\ t.match = {} /\ t.first = s.first
        /\ t.context = ContextOf(e)
    BY <1>3, <1>4, <2>1
  <2> HIDE DEF t
  <2>3. t.context = ContextAt(w, p + 1)
    BY <1>2, <1>4, <2>2, NextContext
  <2>4. ~IsFailure(w, p)
    BY <1>4 DEF IsFailure, IsCall
  <2>5. SearchingErrors(t, w, p)
    BY <1>2, <1>3, <1>4, <2>2, <2>3, <2>4 DEF SearchingErrors
  <2>6. QED
    BY <2>2, <2>5 DEF ErrorScan
<1>5. CASE s.match = {} /\ ~IsCall(e) /\ ~IsFailure(w, p)
  <2>1. t = s
    BY <1>5 DEF ErrorStep, IsCall, IsFailure
  <2>2. s.context = ContextAt(w, p + 1)
    BY <1>2, <1>3, <1>5, NextContext DEF SearchingErrors
  <2>3. SearchingErrors(s, w, p)
    BY <1>2, <1>3, <1>5, <2>2 DEF SearchingErrors
  <2>4. QED
    BY <1>3, <1>5, <2>1, <2>3 DEF ErrorScan
<1>6. CASE s.match = {} /\ IsFailure(w, p)
  <2>1. ~IsCall(e) /\ key = KeyAt(w, p) /\ SearchingErrors(s, w, n)
    BY <1>3, <1>6 DEF IsFailure, IsCall, KeyAt, SearchingErrors
  <2>2. CASE key \in DOMAIN s.first
    <3>1. t = [s EXCEPT !.match = {s.first[key], e.id}]
      BY <1>6, <2>1, <2>2 DEF ErrorStep, IsCall, IsFailure
    <3>2. DOMAIN t = {"context", "first", "match"} /\ t.match = {s.first[key], e.id}
      BY <1>3, <1>6, <3>1
    <3>3. PICK i \in 1 .. n : IsFailure(w, i) /\ KeyAt(w, i) = key
      BY <2>1, <2>2 DEF SearchingErrors
    <3>4. s.first[key] = w[i].id
      BY <2>1, <3>3 DEF SearchingErrors
    <3>5. i \in 1 .. p /\ p \in 1 .. p /\ i < p
      OBVIOUS
    <3>6. FoundError(t.match, w, p)
      BY <1>6, <2>1, <3>2, <3>3, <3>4, <3>5 DEF FoundError
    <3>7. QED
      BY <3>2, <3>6 DEF ErrorScan
  <2>3. CASE key \notin DOMAIN s.first
    <3>1. t = [s EXCEPT !.first =
                 [k \in DOMAIN s.first \cup {key} |-> IF k = key THEN e.id ELSE s.first[k]]]
      BY <1>6, <2>1, <2>3 DEF ErrorStep, IsCall, IsFailure
    <3>2. /\ DOMAIN t = {"context", "first", "match"} /\ t.match = {} /\ t.context = s.context
          /\ t.first = [k \in DOMAIN s.first \cup {key} |-> IF k = key THEN e.id ELSE s.first[k]]
      BY <1>3, <1>6, <3>1
    <3> HIDE DEF t
    <3>3. t.context = ContextAt(w, p + 1)
      BY <1>2, <2>1, <3>2, NextContext DEF SearchingErrors
    <3>4. /\ key \in DOMAIN t.first /\ t.first[key] = e.id
          /\ DOMAIN t.first = DOMAIN s.first \cup {key}
          /\ \A k \in DOMAIN s.first : t.first[k] = s.first[k]
      BY <2>3, <3>2
    <3> HIDE DEF key
    <3>5. \A i \in 1 .. p : IsFailure(w, i) =>
            KeyAt(w, i) \in DOMAIN t.first /\ t.first[KeyAt(w, i)] = w[i].id
      BY <1>2, <2>1, <3>4 DEF SearchingErrors
    <3>6. \A k \in DOMAIN t.first : \E i \in 1 .. p : IsFailure(w, i) /\ KeyAt(w, i) = k
      <4> TAKE k \in DOMAIN t.first
      <4>1. CASE k = key
        BY <1>6, <2>1, <4>1
      <4>2. CASE k # key
        <5>1. PICK i \in 1 .. n : IsFailure(w, i) /\ KeyAt(w, i) = k
          BY <2>1, <3>4, <4>2 DEF SearchingErrors
        <5>2. i \in 1 .. p
          OBVIOUS
        <5>3. QED
          BY <5>1, <5>2
      <4>3. QED
        BY <4>1, <4>2
    <3>7. SearchingErrors(t, w, p)
      BY <3>3, <3>5, <3>6 DEF SearchingErrors
    <3>8. QED
      BY <3>2, <3>7 DEF ErrorScan
  <2>4. QED
    BY <2>2, <2>3
<1>7. QED
  BY <1>1, <1>4, <1>5, <1>6

LEMMA ErrorStarts ==
  ASSUME NEW w
  PROVE  ErrorScan(ErrorStart, w, 0)
<1>1. CallBefore(w, 1) = 0
  BY DEF CallBefore
<1>2. QED
  BY <1>1 DEF ErrorScan, ErrorStart, SearchingErrors, ContextAt

\* The tuples of the contexts are told apart by their first component.
Plain(w) ==
  \A p \in 1 .. Len(w) :
    /\ w[p].source \in {"payload", "payload_digest", "payload_ref"}
    /\ None # <<"unidentified_call", w[p].id>>

LEMMA RecordedIsPlain == Recorded => Plain(window)
<1> SUFFICES ASSUME Recorded, NEW p \in 1 .. Len(window)
             PROVE  /\ window[p].source \in {"payload", "payload_digest", "payload_ref"}
                    /\ None # <<"unidentified_call", window[p].id>>
  BY DEF Plain
<1>1. window[p] \in Recordings /\ window[p].id = p /\ p \in 1 .. MaxWindow
  BY WindowBound DEF Recorded
<1>2. PICK e \in UNION Alphabets, q \in 1 .. MaxWindow : window[p] = [e EXCEPT !.id = q]
  BY <1>1 DEF Recordings
<1>3. e.source \in {"payload", "payload_digest", "payload_ref"} /\ "source" \in DOMAIN e
  BY EventAssumption DEF Blank
<1>4. window[p].source = e.source
  BY <1>2, <1>3
<1>5. QED
  BY <1>1, <1>3, <1>4, EventAssumption

\* Errors were raised under one tool input exactly when the loop held one
\* context for both.
LEMMA SameContext ==
  ASSUME NEW w, Len(w) \in Nat, Distinct(w), Plain(w), NEW i \in 1 .. Len(w), NEW j \in 1 .. Len(w)
  PROVE  SameInput(w, i, j) <=> ContextAt(w, i) = ContextAt(w, j)
<1> DEFINE c == CallBefore(w, i)
           d == CallBefore(w, j)
<1>1. (c = 0 \/ c \in 1 .. Len(w)) /\ (d = 0 \/ d \in 1 .. Len(w))
  <2>1. i \in Nat \ {0} /\ j \in Nat \ {0}
    OBVIOUS
  <2>2. /\ c = 0 \/ c \in 1 .. i - 1
        /\ d = 0 \/ d \in 1 .. j - 1
    BY <2>1, CallBeforeIs
  <2>3. QED
    BY <2>2
<1>2. ContextAt(w, i) = (IF c = 0 THEN None ELSE ContextOf(w[c]))
  BY DEF ContextAt
<1>3. ContextAt(w, j) = (IF d = 0 THEN None ELSE ContextOf(w[d]))
  BY DEF ContextAt
<1>4. SameInput(w, i, j) <=>
        \/ c = d
        \/ c # 0 /\ d # 0 /\ Identity(w[c]) # None /\ Identity(w[c]) = Identity(w[d])
  BY DEF SameInput
<1> HIDE DEF c, d
<1>5. \A k \in 1 .. Len(w) :
        /\ ContextOf(w[k]) # None
        /\ Identity(w[k]) # None => \A l \in 1 .. Len(w) : Identity(w[k]) # <<"unidentified_call", w[l].id>>
  BY DEF Plain, ContextOf, Identity
<1>6. \A k, l \in 1 .. Len(w) :
        ContextOf(w[k]) = ContextOf(w[l]) <=>
          \/ k = l
          \/ Identity(w[k]) # None /\ Identity(w[k]) = Identity(w[l])
  <2> TAKE k, l \in 1 .. Len(w)
  <2>1. CASE Identity(w[k]) # None /\ Identity(w[l]) # None
    BY <2>1 DEF ContextOf
  <2>2. CASE Identity(w[k]) # None /\ Identity(w[l]) = None
    BY <1>5, <2>2 DEF ContextOf
  <2>3. CASE Identity(w[k]) = None /\ Identity(w[l]) # None
    BY <1>5, <2>3 DEF ContextOf
  <2>4. CASE Identity(w[k]) = None /\ Identity(w[l]) = None
    BY <2>4 DEF ContextOf, Distinct
  <2>5. QED
    BY <2>1, <2>2, <2>3, <2>4
<1>7. CASE c = 0 \/ d = 0
  BY <1>1, <1>2, <1>3, <1>4, <1>5, <1>7
<1>8. CASE c # 0 /\ d # 0
  BY <1>1, <1>2, <1>3, <1>4, <1>6, <1>8
<1>9. QED
  BY <1>7, <1>8

\* What the detector returns after the last event.
LEMMA ErrorDecides ==
  ASSUME NEW s, NEW w, Len(w) \in Nat, Distinct(w), Plain(w), ErrorScan(s, w, Len(w))
  PROVE  Decides(s.match, RepeatedErrors(w))
<1> DEFINE P == 1 .. Len(w)
           again == {c \in P \X P :
                       /\ c[1] < c[2]
                       /\ w[c[1]].kind = "error" /\ w[c[2]].kind = "error"
                       /\ w[c[1]].error # None /\ w[c[1]].error = w[c[2]].error
                       /\ SameInput(w, c[1], c[2])}
<1>1. RepeatedErrors(w) = {{w[c[1]].id, w[c[2]].id} : c \in again}
  BY DEF RepeatedErrors
<1>2. \A i, j \in P : <<i, j>> \in again <=>
        i < j /\ IsFailure(w, i) /\ IsFailure(w, j) /\ KeyAt(w, i) = KeyAt(w, j)
  <2> TAKE i, j \in P
  <2>1. SameInput(w, i, j) <=> ContextAt(w, i) = ContextAt(w, j)
    BY SameContext
  <2>2. KeyAt(w, i) = KeyAt(w, j) <=>
          w[i].error = w[j].error /\ ContextAt(w, i) = ContextAt(w, j)
    BY DEF KeyAt
  <2>3. QED
    BY <2>1, <2>2 DEF IsFailure
<1>3. \A c \in again : c \in P \X P /\ c = <<c[1], c[2]>>
  OBVIOUS
<1> HIDE DEF again
<1>4. CASE s.match = {}
  <2>1. SearchingErrors(s, w, Len(w))
    BY <1>4 DEF ErrorScan
  <2>2. ASSUME NEW c \in again
        PROVE  FALSE
    <3>1. /\ c[1] \in P /\ c[2] \in P /\ c[1] < c[2]
          /\ IsFailure(w, c[1]) /\ IsFailure(w, c[2]) /\ KeyAt(w, c[1]) = KeyAt(w, c[2])
      BY <1>2, <1>3
    <3>2. w[c[1]].id = w[c[2]].id
      BY <2>1, <3>1 DEF SearchingErrors
    <3>3. QED
      BY <3>1, <3>2 DEF Distinct
  <2>3. QED
    BY <1>1, <1>4, <2>2 DEF Decides
<1>5. CASE s.match # {}
  <2>1. PICK i \in P, j \in P :
          /\ i < j /\ IsFailure(w, i) /\ IsFailure(w, j) /\ KeyAt(w, i) = KeyAt(w, j)
          /\ s.match = {w[i].id, w[j].id}
    BY <1>5 DEF ErrorScan, FoundError
  <2> DEFINE c == <<i, j>>
  <2>2. c \in again /\ s.match = {w[c[1]].id, w[c[2]].id}
    BY <1>2, <2>1
  <2> HIDE DEF c
  <2>3. s.match \in RepeatedErrors(w)
    BY <1>1, <2>2
  <2>4. QED
    BY <2>3 DEF Decides
<1>6. QED
  BY <1>4, <1>5

-----------------------------------------------------------------------------
(* cycle.                                                                  *)

Observed(w, n) == {p \in 1 .. n : IsFingerprintedObservation(w[p])}

Between(w, n, a, b) == {q \in Observed(w, n) : a < q /\ q < b}

\* The state of the observation at a is back at b.
Returns(w, n, a, b) ==
  /\ a < b /\ w[a].fp = w[b].fp
  /\ Cardinality(Between(w, n, a, b)) \in 1 .. 4
  /\ \E q \in Between(w, n, a, b) : w[q].fp # w[a].fp
  /\ ~MadeProgress(SubSeq(w, a, b))

Stretch(w, n, a, b) == {w[p].id : p \in {q \in Observed(w, n) : a <= q /\ q <= b}}

\* obs lists the positions of the first n events that are observations.
Lists(obs, w, n) ==
  /\ obs \in Seq(1 .. n)
  /\ \A i, j \in 1 .. Len(obs) : i < j => obs[i] < obs[j]
  /\ \A i \in 1 .. Len(obs) : obs[i] \in Observed(w, n)
  /\ \A p \in Observed(w, n) : \E i \in 1 .. Len(obs) : obs[i] = p

FoundCycle(match, w, n) ==
  \E a, b \in Observed(w, n) : Returns(w, n, a, b) /\ match = Stretch(w, n, a, b)

CycleScan(s, w, n) ==
  /\ DOMAIN s = {"observations", "match"}
  /\ s.match = {} => /\ Lists(s.observations, w, n)
                     /\ \A a, b \in Observed(w, n) : ~Returns(w, n, a, b)
  /\ s.match # {} => FoundCycle(s.match, w, n)

\* What lies between two of the first n events does not depend on the rest.
LEMMA ReturnsReads ==
  ASSUME NEW S, NEW T, NEW w \in Seq(S), NEW v \in Seq(T), NEW n \in Nat, NEW m \in Nat, n <= m,
         \A p \in 1 .. n : v[p] = w[p],
         NEW a \in 1 .. n, NEW b \in 1 .. n
  PROVE  /\ Returns(v, m, a, b) <=> Returns(w, n, a, b)
         /\ Stretch(v, m, a, b) = Stretch(w, n, a, b)
<1>1. Between(v, m, a, b) = Between(w, n, a, b)
  BY DEF Between, Observed, IsFingerprintedObservation
<1>2. \A q \in Between(w, n, a, b) : v[q].fp = w[q].fp
  BY DEF Between, Observed
<1>3. SubSeq(v, a, b) = SubSeq(w, a, b)
  OBVIOUS
<1>4. Returns(v, m, a, b) <=> Returns(w, n, a, b)
  BY <1>1, <1>2, <1>3 DEF Returns
<1>5. {q \in Observed(v, m) : a <= q /\ q <= b} = {q \in Observed(w, n) : a <= q /\ q <= b}
  BY DEF Observed, IsFingerprintedObservation
<1>6. Stretch(v, m, a, b) = Stretch(w, n, a, b)
  BY <1>5 DEF Stretch, Observed
<1>7. QED
  BY <1>4, <1>6

\* A strictly increasing sequence takes as many values as it has places.
Increasing(f, N) ==
  /\ \A i \in 1 .. N : f[i] \in Nat
  /\ \A i, j \in 1 .. N : i < j => f[i] < f[j]

\* T holds what f takes from place i to place j.
Takes(f, i, j, T) == \A q : q \in T <=> \E k \in i .. j : f[k] = q

LEMMA IncreasingStretch ==
  ASSUME NEW N \in Nat, NEW f, Increasing(f, N),
         NEW i \in 1 .. N + 1, NEW j \in 0 .. N, i <= j + 1,
         NEW T, Takes(f, i, j, T)
  PROVE  Cardinality(T) = j - i + 1
<1> DEFINE g == [k \in i .. j |-> f[k]]
<1>1. \A k, l \in i .. j : g[k] = g[l] => k = l
  <2> SUFFICES ASSUME NEW k \in i .. j, NEW l \in i .. j, g[k] = g[l], k # l
               PROVE  FALSE
    OBVIOUS
  <2>1. k \in 1 .. N /\ l \in 1 .. N /\ f[k] = f[l] /\ f[k] \in Nat
    BY DEF Increasing
  <2>2. CASE k < l
    <3>1. f[k] < f[l]
      BY <2>1, <2>2 DEF Increasing
    <3>2. QED
      BY <2>1, <3>1
  <2>3. CASE l < k
    <3>1. f[l] < f[k]
      BY <2>1, <2>3 DEF Increasing
    <3>2. QED
      BY <2>1, <3>1
  <2>4. QED
    BY <2>1, <2>2, <2>3
<1>2. g \in [i .. j -> T]
  BY DEF Takes
<1>3. \A q \in T : \E k \in i .. j : g[k] = q
  BY DEF Takes
<1> HIDE DEF g
<1>4. g \in Bijection(i .. j, T)
  BY <1>1, <1>2, <1>3, Fun_IsBij
<1>5. i \in Int /\ j \in Int /\ (i > j => j - i + 1 = 0)
  OBVIOUS
<1>6. IsFiniteSet(i .. j) /\ Cardinality(i .. j) = j - i + 1
  BY <1>5, FS_Interval
<1>7. QED
  BY <1>4, <1>6, FS_Bijection DEF ExistsBijection

LEMMA CycleScanReads ==
  ASSUME NEW S, NEW T, NEW w \in Seq(S), NEW v \in Seq(T), NEW n \in Nat, NEW s,
         \A p \in 1 .. n : v[p] = w[p], CycleScan(s, w, n)
  PROVE  CycleScan(s, v, n)
<1>1. Observed(v, n) = Observed(w, n)
  BY DEF Observed, IsFingerprintedObservation
<1>2. \A a, b \in 1 .. n : /\ Returns(v, n, a, b) <=> Returns(w, n, a, b)
                          /\ Stretch(v, n, a, b) = Stretch(w, n, a, b)
  BY ReturnsReads
<1>3. Observed(w, n) \subseteq 1 .. n
  BY DEF Observed
<1>4. s.match = {} => Lists(s.observations, v, n)
  BY <1>1 DEF CycleScan, Lists
<1>5. QED
  BY <1>1, <1>2, <1>3, <1>4 DEF CycleScan, FoundCycle

\* The events obs lists from place i on.
Support(w, obs, i) == {w[obs[j]].id : j \in i .. Len(obs)}

\* The stretches that end at the latest observation: obs lists them all, and
\* the one of k steps holds k - 1 observations in between.
LEMMA LatestReturns ==
  ASSUME NEW w, NEW p \in Nat, NEW obs, Lists(obs, w, p), obs # << >>, obs[Len(obs)] = p,
         NEW k \in 1 .. Len(obs) - 1
  PROVE  LET N == Len(obs)
             a == obs[N - k]
         IN  /\ a \in 1 .. p /\ a < p
             /\ Takes(obs, N - k + 1, N - 1, Between(w, p, a, p))
             /\ Cardinality(Between(w, p, a, p)) = k - 1
             /\ Stretch(w, p, a, p) = Support(w, obs, N - k)
<1> DEFINE N == Len(obs)
           a == obs[N - k]
<1>1. /\ obs \in Seq(1 .. p) /\ N \in Nat /\ N - k \in 1 .. N /\ N \in 1 .. N /\ N - k < N
      /\ \A i \in 1 .. N : obs[i] \in 1 .. p
      /\ \A i, j \in 1 .. N : i < j => obs[i] < obs[j]
      /\ \A i \in 1 .. N : obs[i] \in Observed(w, p)
      /\ \A q \in Observed(w, p) : \E i \in 1 .. N : obs[i] = q
  BY DEF Lists
<1>2. a \in 1 .. p /\ a < p
  BY <1>1
<1>3. \A i \in 1 .. N : /\ a < obs[i] <=> N - k < i
                       /\ obs[i] < p <=> i < N
  <2> SUFFICES ASSUME NEW i \in 1 .. N
               PROVE  /\ a < obs[i] <=> N - k < i
                      /\ obs[i] < p <=> i < N
    OBVIOUS
  <2>1. a \in 1 .. p /\ obs[i] \in 1 .. p
    BY <1>1, <1>2
  <2>2. N - k < i => a < obs[i]
    BY <1>1
  <2>3. i < N - k => obs[i] < a
    BY <1>1
  <2>4. i < N => obs[i] < p
    BY <1>1
  <2>5. i = N - k \/ i < N - k \/ N - k < i
    BY <1>1
  <2>6. i = N \/ i < N
    BY <1>1
  <2>7. QED
    BY <2>1, <2>2, <2>3, <2>4, <2>5, <2>6
<1>4. \A q : q \in Between(w, p, a, p) <=> \E i \in N - k + 1 .. N - 1 : obs[i] = q
  <2> TAKE q
  <2>1. ASSUME q \in Between(w, p, a, p)
        PROVE  \E i \in N - k + 1 .. N - 1 : obs[i] = q
    <3>1. q \in Observed(w, p) /\ a < q /\ q < p
      BY <2>1 DEF Between
    <3>2. PICK i \in 1 .. N : obs[i] = q
      BY <1>1, <3>1
    <3>3. N - k < i /\ i < N
      BY <1>3, <3>1, <3>2
    <3>4. i \in N - k + 1 .. N - 1
      BY <1>1, <3>3
    <3>5. QED
      BY <3>2, <3>4
  <2>2. ASSUME NEW i \in N - k + 1 .. N - 1, obs[i] = q
        PROVE  q \in Between(w, p, a, p)
    <3>1. i \in 1 .. N /\ N - k < i /\ i < N
      BY <1>1
    <3>2. QED
      BY <1>1, <1>3, <2>2, <3>1 DEF Between
  <2>3. QED
    BY <2>1, <2>2
<1>5. Cardinality(Between(w, p, a, p)) = k - 1
  <2> DEFINE first == N - k + 1
             last == N - 1
             T == Between(w, p, a, p)
  <2>1. /\ first \in 1 .. N + 1 /\ last \in 0 .. N /\ first <= last + 1
        /\ last - first + 1 = k - 1
    BY <1>1
  <2>2. Takes(obs, first, last, T)
    BY <1>4 DEF Takes
  <2>3. N \in Nat /\ Increasing(obs, N)
    BY <1>1 DEF Increasing
  <2> HIDE DEF T, first, last, N
  <2>4. Cardinality(T) = last - first + 1
    BY <2>1, <2>2, <2>3, IncreasingStretch
  <2>5. QED
    BY <2>1, <2>4 DEF T
<1>6. Stretch(w, p, a, p) = {w[obs[i]].id : i \in N - k .. N}
  <2>1. ASSUME NEW q \in Observed(w, p), a <= q, q <= p
        PROVE  \E i \in N - k .. N : obs[i] = q
    <3>1. PICK i \in 1 .. N : obs[i] = q
      BY <1>1
    <3>2. i = N - k \/ i < N - k \/ N - k < i
      BY <1>1
    <3>3. i < N - k => obs[i] < a
      BY <1>1
    <3>4. ~(i < N - k)
      BY <1>1, <1>2, <2>1, <3>1, <3>3
    <3>5. i \in N - k .. N
      BY <1>1, <3>2, <3>4
    <3>6. QED
      BY <3>1, <3>5
  <2>2. ASSUME NEW i \in N - k .. N
        PROVE  obs[i] \in {q \in Observed(w, p) : a <= q /\ q <= p}
    <3>1. i \in 1 .. N /\ (i = N - k \/ N - k < i)
      BY <1>1
    <3>2. a <= obs[i] /\ obs[i] <= p
      <4>1. a \in 1 .. p /\ obs[i] \in 1 .. p
        BY <1>1, <1>2, <3>1
      <4>2. i = N - k => a <= obs[i]
        BY <4>1
      <4>3. N - k < i => a < obs[i]
        BY <1>3, <3>1
      <4>4. QED
        BY <3>1, <4>1, <4>2, <4>3
    <3>3. QED
      BY <1>1, <3>1, <3>2
  <2>3. {q \in Observed(w, p) : a <= q /\ q <= p} = {obs[i] : i \in N - k .. N}
    BY <2>1, <2>2
  <2>4. QED
    BY <2>3 DEF Stretch
<1>7. QED
  BY <1>2, <1>4, <1>5, <1>6 DEF Takes, Support

LEMMA FoundCycleStays ==
  ASSUME NEW S, NEW w \in Seq(S), NEW n \in Nat, NEW match, FoundCycle(match, w, n)
  PROVE  FoundCycle(match, w, n + 1)
<1>1. PICK a \in Observed(w, n), b \in Observed(w, n) :
        Returns(w, n, a, b) /\ match = Stretch(w, n, a, b)
  BY DEF FoundCycle
<1>2. a \in 1 .. n /\ b \in 1 .. n /\ n + 1 \in Nat /\ n <= n + 1
  BY DEF Observed
<1>3. Returns(w, n + 1, a, b) /\ match = Stretch(w, n + 1, a, b)
  BY <1>1, <1>2, ReturnsReads
<1>4. a \in Observed(w, n + 1) /\ b \in Observed(w, n + 1)
  BY <1>1 DEF Observed
<1>5. QED
  BY <1>3, <1>4 DEF FoundCycle

\* Passing an event that is no observation changes nothing.
LEMMA NothingObserved ==
  ASSUME NEW S, NEW w \in Seq(S), NEW n \in Nat, NEW s, CycleScan(s, w, n),
         ~IsFingerprintedObservation(w[n + 1])
  PROVE  CycleScan(s, w, n + 1)
<1>1. Observed(w, n + 1) = Observed(w, n)
  BY DEF Observed
<1>2. CASE s.match # {}
  BY <1>2, FoundCycleStays DEF CycleScan
<1>3. CASE s.match = {}
  <2>1. Lists(s.observations, w, n) /\ \A a, b \in Observed(w, n) : ~Returns(w, n, a, b)
    BY <1>3 DEF CycleScan
  <2>2. s.observations \in Seq(1 .. n + 1)
    <3>1. s.observations \in Seq(1 .. n) /\ 1 .. n \subseteq 1 .. n + 1
      BY <2>1 DEF Lists
    <3>2. QED
      BY <3>1
  <2>3. Lists(s.observations, w, n + 1)
    BY <1>1, <2>1, <2>2 DEF Lists
  <2>4. ASSUME NEW a \in Observed(w, n + 1), NEW b \in Observed(w, n + 1)
        PROVE  ~Returns(w, n + 1, a, b)
    <3>1. a \in Observed(w, n) /\ b \in Observed(w, n) /\ a \in 1 .. n /\ b \in 1 .. n
      BY <1>1 DEF Observed
    <3>2. Returns(w, n + 1, a, b) <=> Returns(w, n, a, b)
      BY <3>1, ReturnsReads
    <3>3. QED
      BY <2>1, <3>1, <3>2
  <2>5. QED
    BY <1>3, <2>3, <2>4 DEF CycleScan
<1>4. QED
  BY <1>2, <1>3

\* The list grows by the position of the observation passed.
LEMMA ListsGrow ==
  ASSUME NEW w, NEW n \in Nat, NEW obs, Lists(obs, w, n), IsFingerprintedObservation(w[n + 1])
  PROVE  /\ Lists(Append(obs, n + 1), w, n + 1)
         /\ Len(Append(obs, n + 1)) = Len(obs) + 1
         /\ Append(obs, n + 1)[Len(obs) + 1] = n + 1
<1> DEFINE p == n + 1
           more == Append(obs, p)
<1>1. /\ obs \in Seq(1 .. n) /\ Len(obs) \in Nat
      /\ \A i, j \in 1 .. Len(obs) : i < j => obs[i] < obs[j]
      /\ \A i \in 1 .. Len(obs) : obs[i] \in Observed(w, n)
      /\ \A q \in Observed(w, n) : \E i \in 1 .. Len(obs) : obs[i] = q
  BY DEF Lists
<1>2. obs \in Seq(1 .. p) /\ p \in 1 .. p
  <2>1. 1 .. n \subseteq 1 .. p
    OBVIOUS
  <2>2. QED
    BY <1>1, <2>1
<1>3. /\ more \in Seq(1 .. p) /\ Len(more) = Len(obs) + 1 /\ more[Len(obs) + 1] = p
      /\ \A i \in 1 .. Len(obs) : more[i] = obs[i]
  BY <1>2, AppendProperties
<1>4. Observed(w, p) = Observed(w, n) \cup {p} /\ Observed(w, n) \subseteq 1 .. n
  BY DEF Observed
<1> HIDE DEF more
<1>5. \A i \in 1 .. Len(more) : more[i] \in Observed(w, p)
  BY <1>1, <1>3, <1>4
<1>6. ASSUME NEW q \in Observed(w, p)
      PROVE  \E i \in 1 .. Len(more) : more[i] = q
  <2>1. CASE q = p
    BY <1>1, <1>3, <2>1
  <2>2. CASE q \in Observed(w, n)
    <3>1. PICK i \in 1 .. Len(obs) : obs[i] = q
      BY <1>1, <2>2
    <3>2. QED
      BY <1>1, <1>3, <3>1
  <2>3. QED
    BY <1>4, <2>1, <2>2
<1>7. ASSUME NEW i \in 1 .. Len(more), NEW j \in 1 .. Len(more), i < j
      PROVE  more[i] < more[j]
  <2>1. i \in 1 .. Len(obs) /\ more[i] = obs[i] /\ obs[i] \in 1 .. n
    BY <1>1, <1>3, <1>4, <1>7
  <2>2. CASE j \in 1 .. Len(obs)
    BY <1>1, <1>3, <1>7, <2>1, <2>2
  <2>3. CASE j = Len(obs) + 1
    BY <1>3, <2>1, <2>3
  <2>4. QED
    BY <1>1, <1>3, <2>2, <2>3
<1>8. Lists(more, w, p)
  BY <1>3, <1>5, <1>6, <1>7 DEF Lists
<1>9. QED
  BY <1>3, <1>8 DEF more

\* The steps the detector closes a cycle with are the returns to a state.
LEMMA ClosingReturns ==
  ASSUME NEW w, NEW p \in Nat, NEW obs, Lists(obs, w, p), obs # << >>, obs[Len(obs)] = p,
         NEW k \in 1 .. Len(obs) - 1
  PROVE  LET N == Len(obs)
         IN  Returns(w, p, obs[N - k], p) <=>
               k \in CycleSteps(N) /\ HasCycle(w, obs, k) /\ ~MadeProgress(SubSeq(w, obs[N - k], p))
<1> DEFINE N == Len(obs)
           a == obs[N - k]
           T == Between(w, p, a, p)
<1>1. /\ a \in 1 .. p /\ a < p
      /\ Takes(obs, N - k + 1, N - 1, T)
      /\ Cardinality(T) = k - 1
  BY LatestReturns
<1>2. N \in Nat /\ k \in 1 .. N - 1
  BY DEF Lists
<1>3. k \in CycleSteps(N) <=> Cardinality(T) \in 1 .. 4
  BY <1>1, <1>2 DEF CycleSteps
<1>4. HasCycle(w, obs, k) <=>
        w[a].fp = w[p].fp /\ \E i \in N - k + 1 .. N - 1 : w[obs[i]].fp # w[p].fp
  BY DEF HasCycle
<1> HIDE DEF N, T, a
<1>5. (\E i \in N - k + 1 .. N - 1 : w[obs[i]].fp # w[p].fp) <=> \E q \in T : w[q].fp # w[p].fp
  BY <1>1 DEF Takes
<1>6. Returns(w, p, a, p) <=>
        /\ w[a].fp = w[p].fp /\ Cardinality(T) \in 1 .. 4
        /\ \E q \in T : w[q].fp # w[a].fp
        /\ ~MadeProgress(SubSeq(w, a, p))
  BY <1>1 DEF Returns, T
<1>7. Returns(w, p, a, p) <=>
        k \in CycleSteps(N) /\ HasCycle(w, obs, k) /\ ~MadeProgress(SubSeq(w, a, p))
  BY <1>3, <1>4, <1>5, <1>6
<1>8. QED
  BY <1>7 DEF N, a

LEMMA LatestStretch ==
  ASSUME NEW w, NEW p \in Nat, NEW obs, Lists(obs, w, p), obs # << >>, obs[Len(obs)] = p,
         NEW k \in 1 .. Len(obs) - 1
  PROVE  Stretch(w, p, obs[Len(obs) - k], p) = Support(w, obs, Len(obs) - k)
BY LatestReturns, ZenonT(30)

\* One iteration of the loop.
LEMMA CycleStepScans ==
  ASSUME NEW S, NEW w \in Seq(S), NEW n \in Nat, NEW s, CycleScan(s, w, n)
  PROVE  CycleScan(CycleStep(s, w, n + 1), w, n + 1)
<1> DEFINE p == n + 1
           t == CycleStep(s, w, p)
<1> SUFFICES CycleScan(t, w, p)
  OBVIOUS
<1>1. CASE s.match # {}
  <2>1. t = s
    BY <1>1 DEF CycleStep
  <2>2. QED
    BY <1>1, <2>1, FoundCycleStays DEF CycleScan
<1>2. CASE ~IsFingerprintedObservation(w[p])
  <2>1. t = s
    BY <1>2 DEF CycleStep
  <2>2. QED
    BY <1>2, <2>1, NothingObserved
<1>3. CASE s.match = {} /\ IsFingerprintedObservation(w[p])
  <2> DEFINE obs == Append(s.observations, p)
             N == Len(s.observations) + 1
             closing == {k \in CycleSteps(N) :
                           HasCycle(w, obs, k) /\ ~MadeProgress(SubSeq(w, obs[N - k], p))}
  <2>1. Lists(s.observations, w, n) /\ \A a, b \in Observed(w, n) : ~Returns(w, n, a, b)
    BY <1>3 DEF CycleScan
  <2>2. Lists(obs, w, p) /\ Len(obs) = N /\ obs[N] = p
    BY <1>3, <2>1, ListsGrow
  <2>3. N \in Nat \ {0} /\ obs # << >> /\ p \in Nat
    <3>1. s.observations \in Seq(1 .. n)
      BY <2>1 DEF Lists
    <3>2. N \in Nat \ {0}
      BY <3>1
    <3>3. QED
      BY <2>2, <3>2
  <2>4. t = [observations |-> obs,
             match |-> IF closing = {} THEN {} ELSE {w[obs[i]].id : i \in N - Min(closing) .. N}]
    BY <1>3 DEF CycleStep
  <2>5. /\ DOMAIN t = {"observations", "match"}
        /\ t.observations = obs
        /\ closing = {} => t.match = {}
        /\ closing # {} => t.match = Support(w, obs, N - Min(closing))
    <3> HIDE DEF closing, obs, t
    <3>1. {w[obs[i]].id : i \in N - Min(closing) .. N} = Support(w, obs, N - Min(closing))
      BY <2>2 DEF Support
    <3>2. QED
      BY <2>4, <3>1
  <2>6. closing \subseteq 1 .. N - 1
    BY <2>3 DEF CycleSteps
  <2> HIDE DEF t, obs
  <2>7. \A k \in 1 .. N - 1 : Returns(w, p, obs[N - k], p) <=> k \in closing
    <3> TAKE k \in 1 .. N - 1
    <3>1. Returns(w, p, obs[N - k], p) <=>
            k \in CycleSteps(N) /\ HasCycle(w, obs, k) /\ ~MadeProgress(SubSeq(w, obs[N - k], p))
      BY <2>2, <2>3, ClosingReturns
    <3>2. QED
      BY <3>1
  <2>8. \A k \in 1 .. N - 1 : Stretch(w, p, obs[N - k], p) = Support(w, obs, N - k)
    <3> TAKE k \in 1 .. N - 1
    <3> HIDE DEF N
    <3>1. QED
      BY <2>2, <2>3, LatestStretch
  <2>9. \A i \in 1 .. N : obs[i] \in Observed(w, p)
    BY <2>2 DEF Lists
  <2> HIDE DEF closing
  <2>10. CASE closing = {}
    <3>1. ASSUME NEW a \in Observed(w, p), NEW b \in Observed(w, p), Returns(w, p, a, b)
          PROVE  FALSE
      <4>1. a \in 1 .. p /\ b \in 1 .. p /\ a < b
        BY <3>1 DEF Observed, Returns
      <4>2. CASE b = p
        <5>1. PICK i \in 1 .. N : obs[i] = a
          BY <2>2 DEF Lists
        <5>2. i # N
          BY <2>2, <4>1, <4>2, <5>1
        <5>3. N - i \in 1 .. N - 1 /\ N - (N - i) = i
          BY <2>3, <5>2
        <5>4. QED
          BY <2>7, <2>10, <3>1, <4>2, <5>1, <5>3
      <4>3. CASE b \in 1 .. n
        <5>1. a \in Observed(w, n) /\ b \in Observed(w, n) /\ a \in 1 .. n
          BY <4>1, <4>3 DEF Observed
        <5>2. n <= p /\ Returns(w, p, a, b) <=> Returns(w, n, a, b)
          <6>1. n <= p
            OBVIOUS
          <6>2. QED
            BY <2>3, <4>3, <5>1, <6>1, ReturnsReads
        <5>3. QED
          BY <2>1, <3>1, <5>1, <5>2
      <4>4. QED
        BY <4>1, <4>2, <4>3
    <3>2. QED
      BY <2>2, <2>5, <2>10, <3>1 DEF CycleScan
  <2>11. CASE closing # {}
    <3> DEFINE k == Min(closing)
               a == obs[N - k]
    <3>1. k \in closing
      <4>1. closing \in SUBSET Nat
        BY <2>6
      <4>2. QED
        BY <2>11, <4>1, MinIs
    <3> HIDE DEF k
    <3>2. k \in 1 .. N - 1 /\ N - k \in 1 .. N /\ N \in 1 .. N
      BY <2>3, <2>6, <3>1
    <3>3. Returns(w, p, a, p)
      BY <2>7, <3>1, <3>2
    <3>4. Stretch(w, p, a, p) = Support(w, obs, N - k)
      BY <2>8, <3>2
    <3>5. a \in Observed(w, p) /\ p \in Observed(w, p)
      BY <2>2, <2>9, <3>2
    <3>6. t.match = Stretch(w, p, a, p)
      BY <2>5, <2>11, <3>4 DEF k
    <3>7. FoundCycle(t.match, w, p)
      BY <3>3, <3>5, <3>6 DEF FoundCycle
    <3>8. t.match # {}
      <4>1. a < p /\ p <= p
        BY <2>3, <3>3 DEF Returns
      <4>2. p \in {q \in Observed(w, p) : a <= q /\ q <= p}
        BY <3>5, <4>1 DEF Observed
      <4>3. QED
        BY <3>6, <4>2 DEF Stretch
    <3>9. QED
      BY <2>5, <3>7, <3>8 DEF CycleScan
  <2>12. QED
    BY <2>10, <2>11
<1>4. QED
  BY <1>1, <1>2, <1>3

LEMMA CycleStarts ==
  ASSUME NEW w
  PROVE  CycleScan(CycleStart, w, 0)
<1>1. Observed(w, 0) = {}
  BY DEF Observed
<1>2. QED
  BY <1>1 DEF CycleScan, CycleStart, Lists

LEMMA StateCyclesAre ==
  ASSUME NEW w
  PROVE  \A match : match \in StateCycles(w) <=> FoundCycle(match, w, Len(w))
<1> DEFINE O == Observed(w, Len(w))
           cycles == {c \in O \X O : Returns(w, Len(w), c[1], c[2])}
<1>1. Observations(w) = O
  BY DEF Observations, Observed
<1>2. StateCycles(w) = {Stretch(w, Len(w), c[1], c[2]) : c \in cycles}
  BY <1>1 DEF StateCycles, Stretch, Returns, Between
<1> HIDE DEF O
<1>3. ASSUME NEW a \in O, NEW b \in O, Returns(w, Len(w), a, b)
      PROVE  Stretch(w, Len(w), a, b) \in StateCycles(w)
  <2> DEFINE c == <<a, b>>
  <2>1. c \in cycles /\ Stretch(w, Len(w), a, b) = Stretch(w, Len(w), c[1], c[2])
    BY <1>3
  <2> HIDE DEF c, cycles
  <2>2. QED
    BY <1>2, <2>1
<1>4. ASSUME NEW match \in StateCycles(w)
      PROVE  FoundCycle(match, w, Len(w))
  <2>1. PICK c \in cycles : match = Stretch(w, Len(w), c[1], c[2])
    BY <1>2
  <2>2. QED
    BY <2>1 DEF FoundCycle, O
<1>5. QED
  BY <1>3, <1>4 DEF FoundCycle, O

\* What the detector returns after the last event.
LEMMA CycleScanDecides ==
  ASSUME NEW s, NEW w, Len(w) \in Nat, CycleScan(s, w, Len(w))
  PROVE  Decides(s.match, StateCycles(w))
<1>1. CASE s.match = {}
  <2>1. \A match : ~FoundCycle(match, w, Len(w))
    BY <1>1 DEF CycleScan, FoundCycle
  <2>2. QED
    BY <1>1, <2>1, StateCyclesAre DEF Decides
<1>2. CASE s.match # {}
  BY <1>2, StateCyclesAre DEF CycleScan, Decides
<1>3. QED
  BY <1>1, <1>2

-----------------------------------------------------------------------------
(* The growing window.                                                     *)

\* Every detector has scanned the whole window.
IInv ==
  /\ Recorded
  /\ ExactScan(exact, window, Len(window))
  /\ ErrorScan(repeated, window, Len(window))
  /\ CycleScan(cycle, window, Len(window))
  /\ TypeOK

LEMMA InitHolds == Init => IInv
<1> SUFFICES ASSUME Init
             PROVE  IInv
  OBVIOUS
<1>1. window = << >> /\ Len(window) = 0 /\ alphabet \in Alphabets
  BY DEF Init
<1>2. Recorded
  BY <1>1, WindowBound DEF Recorded
<1>3. /\ ExactScan(exact, window, Len(window))
      /\ ErrorScan(repeated, window, Len(window))
      /\ CycleScan(cycle, window, Len(window))
  BY <1>1, ExactStarts, ErrorStarts, CycleStarts DEF Init
<1>4. TypeOK
  BY <1>1, WindowBound DEF Init, TypeOK, ExactStart, ErrorStart, CycleStart
<1>5. QED
  BY <1>2, <1>3, <1>4 DEF IInv

\* The detectors' states after the new event.
LEMMA PassScans ==
  ASSUME IInv, NEW e \in alphabet, Pass(e)
  PROVE  /\ ExactScan(exact', window', Len(window'))
         /\ ErrorScan(repeated', window', Len(window'))
         /\ CycleScan(cycle', window', Len(window'))
<1> DEFINE n == Len(window)
           w == window'
<1>1. /\ Recorded' /\ n \in Nat /\ Len(w) = n + 1
      /\ \A p \in 1 .. n : w[p] = window[p]
      /\ window \in Seq(Recordings) /\ w \in Seq(Recordings)
  BY PassAppends DEF IInv, Recorded
<1>2. Distinct(w)
  BY <1>1 DEF Recorded, Distinct
<1>3. /\ exact' = ExactStep(exact, w, n + 1)
      /\ repeated' = ErrorStep(repeated, w, n + 1)
      /\ cycle' = CycleStep(cycle, w, n + 1)
  BY <1>1 DEF Pass
<1>4. /\ ExactScan(exact, window, n)
      /\ ErrorScan(repeated, window, n)
      /\ CycleScan(cycle, window, n)
  BY DEF IInv
<1> HIDE DEF n, w
<1>5. ExactScan(exact, w, n) /\ ErrorScan(repeated, w, n) /\ CycleScan(cycle, w, n)
  BY <1>1, <1>4, ExactScanReads, ErrorScanReads, CycleScanReads
<1>6. ExactScan(exact', w, n + 1)
  BY <1>1, <1>2, <1>3, <1>5, ExactStepScans
<1>7. ErrorScan(repeated', w, n + 1)
  BY <1>1, <1>3, <1>5, ErrorStepScans
<1>8. CycleScan(cycle', w, n + 1)
  BY <1>1, <1>3, <1>5, CycleStepScans
<1>9. QED
  BY <1>1, <1>6, <1>7, <1>8 DEF w

\* What the detectors remember are positions of the window, also once they
\* have matched and remember nothing more.
LEMMA PassKeepsTypes ==
  ASSUME IInv, NEW e \in alphabet, Pass(e), Recorded',
         ExactScan(exact', window', Len(window')),
         ErrorScan(repeated', window', Len(window')),
         CycleScan(cycle', window', Len(window'))
  PROVE  TypeOK'
<1> DEFINE n == Len(window)
           P == 1 .. n + 1
<1>1. /\ n \in Nat /\ Len(window') = n + 1 /\ 1 .. n \subseteq P
  <2>1. n \in Nat /\ Len(window') = n + 1
    BY PassAppends DEF IInv
  <2>2. QED
    BY <2>1
<1>2. \A p \in P : window'[p].id = p
  BY <1>1 DEF Recorded
<1>3. /\ DOMAIN exact'.calls \subseteq P
      /\ \A pair \in DOMAIN exact'.pairs : exact'.pairs[pair] \in P \X P
      /\ exact'.match \subseteq P
  <2>1. CASE exact'.match = {}
    <3>1. SearchingPairs(exact', window', n + 1)
      BY <1>1, <2>1 DEF ExactScan
    <3>2. DOMAIN exact'.calls \subseteq P
      BY <1>2, <3>1 DEF SearchingPairs
    <3>3. ASSUME NEW pair \in DOMAIN exact'.pairs
          PROVE  exact'.pairs[pair] \in P \X P
      <4>1. PICK c \in P, r \in P : exact'.pairs[pair] = <<window'[c].id, window'[r].id>>
        BY <3>1 DEF SearchingPairs
      <4>2. window'[c].id \in P /\ window'[r].id \in P
        BY <1>2
      <4>3. QED
        BY <4>1, <4>2
    <3>4. QED
      BY <2>1, <3>2, <3>3
  <2>2. CASE exact'.match # {}
    <3>1. exact'.calls = exact.calls /\ exact'.pairs = exact.pairs
      <4>1. DOMAIN exact = {"calls", "pairs", "match"}
        BY DEF IInv, ExactScan
      <4>2. exact' = ExactStep(exact, window', n + 1)
        BY <1>1 DEF Pass
      <4>3. QED
        BY <2>2, <4>1, <4>2 DEF ExactStep
    <3>2. exact'.match \subseteq P
      BY <1>1, <1>2, <2>2 DEF ExactScan, FoundPair
    <3>3. QED
      BY <1>1, <3>1, <3>2 DEF IInv, TypeOK
  <2>3. QED
    BY <2>1, <2>2
<1>4. /\ \A key \in DOMAIN repeated'.first : repeated'.first[key] \in P
      /\ repeated'.match \subseteq P
  <2>1. CASE repeated'.match = {}
    BY <1>1, <1>2, <2>1 DEF ErrorScan, SearchingErrors
  <2>2. CASE repeated'.match # {}
    <3>1. repeated'.first = repeated.first
      <4>1. DOMAIN repeated = {"context", "first", "match"}
        BY DEF IInv, ErrorScan
      <4>2. repeated' = ErrorStep(repeated, window', n + 1)
        BY <1>1 DEF Pass
      <4>3. QED
        BY <2>2, <4>1, <4>2 DEF ErrorStep
    <3>2. repeated'.match \subseteq P
      BY <1>1, <1>2, <2>2 DEF ErrorScan, FoundError
    <3>3. QED
      BY <1>1, <3>1, <3>2 DEF IInv, TypeOK
  <2>3. QED
    BY <2>1, <2>2
<1>5. cycle'.observations \in Seq(P) /\ cycle'.match \subseteq P
  <2>1. cycle' = CycleStep(cycle, window', n + 1)
    BY <1>1 DEF Pass
  <2>2. cycle.observations \in Seq(P)
    BY <1>1 DEF IInv, TypeOK
  <2>3. cycle'.observations \in Seq(P)
    <3>1. cycle'.observations \in {cycle.observations, Append(cycle.observations, n + 1)}
      BY <2>1 DEF CycleStep
    <3>2. n + 1 \in P
      BY <1>1
    <3>3. Append(cycle.observations, n + 1) \in Seq(P)
      BY <2>2, <3>2, AppendProperties
    <3>4. QED
      BY <2>2, <3>1, <3>3
  <2>4. cycle'.match \subseteq P
    <3>1. CASE cycle'.match = {}
      BY <3>1
    <3>2. CASE cycle'.match # {}
      BY <1>1, <1>2, <3>2 DEF CycleScan, FoundCycle, Stretch, Observed
    <3>3. QED
      BY <3>1, <3>2
  <2>5. QED
    BY <2>3, <2>4
<1>6. alphabet' \in Alphabets /\ Len(window') <= MaxWindow
  BY DEF Recorded
<1>7. QED
  BY <1>1, <1>3, <1>4, <1>5, <1>6 DEF TypeOK

LEMMA PassHolds ==
  ASSUME IInv, NEW e \in alphabet, Pass(e)
  PROVE  IInv'
<1>1. Recorded'
  BY PassAppends DEF IInv
<1>2. /\ ExactScan(exact', window', Len(window'))
      /\ ErrorScan(repeated', window', Len(window'))
      /\ CycleScan(cycle', window', Len(window'))
  BY PassScans
<1>3. TypeOK'
  BY <1>1, <1>2, PassKeepsTypes
<1>4. QED
  BY <1>1, <1>2, <1>3 DEF IInv

LEMMA StutterHolds == IInv /\ UNCHANGED vars => IInv'
BY DEF IInv, Recorded, TypeOK, vars

\* Every scan of the class is complete: the inductive invariant.
THEOREM Invariance == Spec => []IInv
<1>1. IInv /\ [Next]_vars => IInv'
  BY PassHolds, StutterHolds DEF Next
<1>2. QED
  BY InitHolds, <1>1, PTL DEF Spec

\* The detectors remember positions of the window (ExactStep, ErrorStep,
\* CycleStep: detectors.py's dictionaries and lists of events).
THEOREM TypeCorrect == Spec => []TypeOK
<1>1. IInv => TypeOK
  BY DEF IInv
<1>2. QED
  BY Invariance, <1>1, PTL

\* detect_exact_repetition matches exactly the windows with two different
\* calls of one identity that got results of one identity: keeping only the
\* first call and result of every pair loses none.
THEOREM ExactDecided == Spec => []ExactRepetitionDecides
<1>1. IInv => ExactRepetitionDecides
  BY RecordedIsDistinct, ExactDecides DEF IInv, Recorded, ExactRepetitionDecides
<1>2. QED
  BY Invariance, <1>1, PTL

\* detect_repeated_error matches exactly the windows in which one error was
\* raised twice under one tool input.
THEOREM ErrorDecided == Spec => []RepeatedErrorDecides
<1>1. IInv => RepeatedErrorDecides
  BY RecordedIsDistinct, RecordedIsPlain, ErrorDecides DEF IInv, Recorded, RepeatedErrorDecides
<1>2. QED
  BY Invariance, <1>1, PTL

\* detect_cycle matches exactly the windows that hold a return to a state
\* without progress, whichever cycles it gave up before.
THEOREM CycleDecided == Spec => []CycleDecides
<1>1. IInv => CycleDecides
  BY CycleScanDecides DEF IInv, Recorded, CycleDecides
<1>2. QED
  BY Invariance, <1>1, PTL

-----------------------------------------------------------------------------
(* A detector over a window it has not grown with: a fold.                 *)

StartOf(d) == CASE d = "exact" -> ExactStart [] d = "error" -> ErrorStart [] d = "cycle" -> CycleStart

StepOf(d, s, w, p) ==
  CASE d = "exact" -> ExactStep(s, w, p)
    [] d = "error" -> ErrorStep(s, w, p)
    [] d = "cycle" -> CycleStep(s, w, p)

\* f gives every set of positions the state after passing them in order.
Runs(f, d, w, n) ==
  f = [T \in SUBSET (1 .. n) |->
         IF T = {} THEN StartOf(d) ELSE StepOf(d, f[T \ {Max(T)}], w, Max(T))]

LEMMA MaxOfPrefix ==
  ASSUME NEW n \in Nat, NEW T \in SUBSET (1 .. n + 1), n + 1 \in T
  PROVE  Max(T) = n + 1
<1>1. n + 1 \in Nat /\ T # {}
  OBVIOUS
<1>2. Max(T) \in T /\ \A k \in T : k <= Max(T)
  BY <1>1, MaxIs
<1>3. Max(T) \in 1 .. n + 1 /\ n + 1 <= Max(T)
  BY <1>2
<1>4. QED
  BY <1>3

LEMMA RunExists ==
  ASSUME NEW d, NEW w
  PROVE  \A n \in Nat : \E f : Runs(f, d, w, n)
<1> DEFINE S == {n \in Nat : \E f : Runs(f, d, w, n)}
<1>1. 0 \in S
  <2> DEFINE f == [T \in SUBSET (1 .. 0) |-> StartOf(d)]
  <2>1. \A T \in SUBSET (1 .. 0) : T = {}
    OBVIOUS
  <2>2. Runs(f, d, w, 0)
    BY <2>1 DEF Runs
  <2>3. QED
    BY <2>2
<1>2. ASSUME NEW n \in Nat, n \in S
      PROVE  n + 1 \in S
  <2>1. PICK f : Runs(f, d, w, n)
    BY <1>2
  <2> DEFINE p == n + 1
             g == [T \in SUBSET (1 .. p) |->
                     IF p \in T THEN StepOf(d, f[T \ {p}], w, p) ELSE f[T]]
             h(T) == IF T = {} THEN StartOf(d) ELSE StepOf(d, g[T \ {Max(T)}], w, Max(T))
  <2>2. \A T \in SUBSET (1 .. n) :
          f[T] = IF T = {} THEN StartOf(d) ELSE StepOf(d, f[T \ {Max(T)}], w, Max(T))
    BY <2>1 DEF Runs
  <2>3. \A T \in SUBSET (1 .. n) : T \in SUBSET (1 .. p) /\ p \notin T /\ g[T] = f[T]
    OBVIOUS
  <2>4. ASSUME NEW T \in SUBSET (1 .. p)
        PROVE  g[T] = h(T)
    <3>1. CASE p \in T
      <4>1. Max(T) = p
        BY <3>1, MaxOfPrefix
      <4>2. T \ {p} \in SUBSET (1 .. n)
        OBVIOUS
      <4>3. g[T] = StepOf(d, f[T \ {p}], w, p) /\ g[T \ {p}] = f[T \ {p}] /\ T # {}
        BY <2>3, <3>1, <4>2
      <4>4. QED
        BY <4>1, <4>3
    <3>2. CASE p \notin T
      <4>1. T \in SUBSET (1 .. n) /\ g[T] = f[T]
        BY <3>2
      <4>2. T \ {Max(T)} \in SUBSET (1 .. n)
        BY <4>1
      <4>3. g[T \ {Max(T)}] = f[T \ {Max(T)}]
        BY <2>3, <4>2
      <4>4. QED
        BY <2>2, <4>1, <4>3
    <3>3. QED
      BY <3>1, <3>2
  <2>5. g = [T \in SUBSET (1 .. p) |-> g[T]]
    OBVIOUS
  <2>6. g = [T \in SUBSET (1 .. p) |-> h(T)]
    <3> HIDE DEF g, h
    <3>1. QED
      BY <2>4, <2>5
  <2>7. Runs(g, d, w, p)
    BY <2>6 DEF Runs
  <2>8. p \in Nat /\ \E k : Runs(k, d, w, p)
    BY <2>7
  <2>9. QED
    BY <2>8
<1>3. Nat \subseteq S
  <2> HIDE DEF S
  <2>1. QED
    BY <1>1, <1>2, SetInduction
<1>4. QED
  BY <1>3

RunOf(d, w) == CHOOSE f : Runs(f, d, w, Len(w))

StateAfter(d, w, n) == RunOf(d, w)[1 .. n]

\* The states between the loop's iterations.
LEMMA RunSteps ==
  ASSUME NEW d, NEW w, Len(w) \in Nat
  PROVE  /\ StateAfter(d, w, 0) = StartOf(d)
         /\ \A n \in 0 .. Len(w) - 1 :
              StateAfter(d, w, n + 1) = StepOf(d, StateAfter(d, w, n), w, n + 1)
<1> DEFINE f == RunOf(d, w)
<1>1. Runs(f, d, w, Len(w))
  <2>1. \E g : Runs(g, d, w, Len(w))
    BY RunExists
  <2>2. QED
    BY <2>1 DEF RunOf
<1>2. \A T \in SUBSET (1 .. Len(w)) :
        f[T] = IF T = {} THEN StartOf(d) ELSE StepOf(d, f[T \ {Max(T)}], w, Max(T))
  BY <1>1 DEF Runs
<1> HIDE DEF f
<1>3. f[1 .. 0] = StartOf(d)
  <2>1. 1 .. 0 = {} /\ 1 .. 0 \in SUBSET (1 .. Len(w))
    OBVIOUS
  <2>2. QED
    BY <1>2, <2>1
<1>4. ASSUME NEW n \in 0 .. Len(w) - 1
      PROVE  f[1 .. n + 1] = StepOf(d, f[1 .. n], w, n + 1)
  <2> DEFINE T == 1 .. n + 1
  <2>1. /\ n \in Nat /\ T \in SUBSET (1 .. Len(w)) /\ n + 1 \in T /\ T # {}
        /\ T \ {n + 1} = 1 .. n
    <3>1. n \in Nat /\ \A i \in T : i \in 1 .. Len(w)
      OBVIOUS
    <3>2. n + 1 \in T
      OBVIOUS
    <3>3. T \ {n + 1} = 1 .. n
      OBVIOUS
    <3> HIDE DEF T
    <3>4. QED
      BY <3>1, <3>2, <3>3
  <2>2. Max(T) = n + 1
    BY <2>1, MaxOfPrefix
  <2> HIDE DEF T
  <2>3. QED
    BY <1>2, <2>1, <2>2 DEF T
<1>5. QED
  BY <1>3, <1>4 DEF StateAfter, f

LEMMA ScanIsRun ==
  ASSUME NEW S, NEW w \in Seq(S)
  PROVE  /\ ScanWith(ExactStep, ExactStart, w) = StateAfter("exact", w, Len(w)).match
         /\ ScanWith(ErrorStep, ErrorStart, w) = StateAfter("error", w, Len(w)).match
         /\ ScanWith(CycleStep, CycleStart, w) = StateAfter("cycle", w, Len(w)).match
<1> DEFINE id == [i \in DOMAIN w |-> i]
<1>1. DOMAIN id = 1 .. Len(w) /\ DOMAIN w = 1 .. Len(w)
  OBVIOUS
<1>2. \A T \in SUBSET (1 .. Len(w)) : T # {} => id[Max(T)] = Max(T)
  <2> TAKE T \in SUBSET (1 .. Len(w))
  <2>1. Len(w) \in Nat
    OBVIOUS
  <2>2. T # {} => Max(T) \in T
    BY <2>1, MaxIs
  <2>3. QED
    BY <1>1, <2>2
<1>3. ScanWith(ExactStep, ExactStart, w) = StateAfter("exact", w, Len(w)).match
  <2>1. ASSUME NEW f
        PROVE  f = [T \in SUBSET DOMAIN id |->
                      IF T = {} THEN ExactStart ELSE ExactStep(f[T \ {Max(T)}], w, id[Max(T)])]
                 <=> Runs(f, "exact", w, Len(w))
    <3> HIDE DEF id
    <3>1. QED
      BY <1>1, <1>2 DEF Runs, StartOf, StepOf
  <2>2. (CHOOSE f : f = [T \in SUBSET DOMAIN id |->
                      IF T = {} THEN ExactStart ELSE ExactStep(f[T \ {Max(T)}], w, id[Max(T)])])
        = RunOf("exact", w)
    <3> HIDE DEF id
    <3>1. QED
      BY <2>1 DEF RunOf
  <2>3. QED
    BY <1>1, <2>2 DEF ScanWith, FoldLeftDomain, FoldLeft, MapThenFoldSet, StateAfter
<1>4. ScanWith(ErrorStep, ErrorStart, w) = StateAfter("error", w, Len(w)).match
  <2>1. ASSUME NEW f
        PROVE  f = [T \in SUBSET DOMAIN id |->
                      IF T = {} THEN ErrorStart ELSE ErrorStep(f[T \ {Max(T)}], w, id[Max(T)])]
                 <=> Runs(f, "error", w, Len(w))
    <3> HIDE DEF id
    <3>1. QED
      BY <1>1, <1>2 DEF Runs, StartOf, StepOf
  <2>2. (CHOOSE f : f = [T \in SUBSET DOMAIN id |->
                      IF T = {} THEN ErrorStart ELSE ErrorStep(f[T \ {Max(T)}], w, id[Max(T)])])
        = RunOf("error", w)
    <3> HIDE DEF id
    <3>1. QED
      BY <2>1 DEF RunOf
  <2>3. QED
    BY <1>1, <2>2 DEF ScanWith, FoldLeftDomain, FoldLeft, MapThenFoldSet, StateAfter
<1>5. ScanWith(CycleStep, CycleStart, w) = StateAfter("cycle", w, Len(w)).match
  <2>1. ASSUME NEW f
        PROVE  f = [T \in SUBSET DOMAIN id |->
                      IF T = {} THEN CycleStart ELSE CycleStep(f[T \ {Max(T)}], w, id[Max(T)])]
                 <=> Runs(f, "cycle", w, Len(w))
    <3> HIDE DEF id
    <3>1. QED
      BY <1>1, <1>2 DEF Runs, StartOf, StepOf
  <2>2. (CHOOSE f : f = [T \in SUBSET DOMAIN id |->
                      IF T = {} THEN CycleStart ELSE CycleStep(f[T \ {Max(T)}], w, id[Max(T)])])
        = RunOf("cycle", w)
    <3> HIDE DEF id
    <3>1. QED
      BY <2>1 DEF RunOf
  <2>3. QED
    BY <1>1, <2>2 DEF ScanWith, FoldLeftDomain, FoldLeft, MapThenFoldSet, StateAfter
<1>6. QED
  BY <1>3, <1>4, <1>5

\* What the loop returns over any window of distinct, plain events.
LEMMA ScanDecides ==
  ASSUME NEW S, NEW w \in Seq(S), Distinct(w), Plain(w)
  PROVE  /\ Decides(ScanWith(ExactStep, ExactStart, w), RepeatedPairs(w))
         /\ Decides(ScanWith(ErrorStep, ErrorStart, w), RepeatedErrors(w))
         /\ Decides(ScanWith(CycleStep, CycleStart, w), StateCycles(w))
<1> DEFINE Scanned(n) == /\ ExactScan(StateAfter("exact", w, n), w, n)
                         /\ ErrorScan(StateAfter("error", w, n), w, n)
                         /\ CycleScan(StateAfter("cycle", w, n), w, n)
           P == {n \in Nat : n <= Len(w) => Scanned(n)}
<1>1. Len(w) \in Nat
  OBVIOUS
<1>2. 0 \in P
  <2>1. /\ StateAfter("exact", w, 0) = ExactStart
        /\ StateAfter("error", w, 0) = ErrorStart
        /\ StateAfter("cycle", w, 0) = CycleStart
    BY <1>1, RunSteps DEF StartOf
  <2>2. Scanned(0)
    BY <2>1, ExactStarts, ErrorStarts, CycleStarts
  <2>3. QED
    BY <2>2
<1>3. ASSUME NEW n \in Nat, n \in P
      PROVE  n + 1 \in P
  <2> SUFFICES ASSUME n + 1 <= Len(w)
               PROVE  Scanned(n + 1)
    OBVIOUS
  <2>1. n \in 0 .. Len(w) - 1 /\ n <= Len(w)
    BY <1>1
  <2>2. Scanned(n)
    BY <1>3, <2>1
  <2>3. /\ StateAfter("exact", w, n + 1) = ExactStep(StateAfter("exact", w, n), w, n + 1)
        /\ StateAfter("error", w, n + 1) = ErrorStep(StateAfter("error", w, n), w, n + 1)
        /\ StateAfter("cycle", w, n + 1) = CycleStep(StateAfter("cycle", w, n), w, n + 1)
    BY <1>1, <2>1, RunSteps DEF StepOf
  <2>4. ExactScan(StateAfter("exact", w, n + 1), w, n + 1)
    BY <1>1, <2>2, <2>3, ExactStepScans
  <2>5. ErrorScan(StateAfter("error", w, n + 1), w, n + 1)
    BY <2>2, <2>3, ErrorStepScans
  <2>6. CycleScan(StateAfter("cycle", w, n + 1), w, n + 1)
    BY <2>2, <2>3, CycleStepScans
  <2>7. QED
    BY <2>4, <2>5, <2>6
<1>4. Scanned(Len(w))
  <2>1. Nat \subseteq P
    <3> HIDE DEF P
    <3>1. QED
      BY <1>2, <1>3, SetInduction
  <2>2. Len(w) \in P /\ Len(w) <= Len(w)
    BY <1>1, <2>1
  <2>3. QED
    BY <2>2
<1>5. QED
  BY <1>1, <1>4, ScanIsRun, ExactDecides, ErrorDecides, CycleScanDecides

-----------------------------------------------------------------------------
(* The end of a window.                                                    *)

\* w is v without its first k events.
EndsWith(v, w, k) ==
  /\ Len(w) \in Nat /\ k \in Nat /\ Len(v) = k + Len(w)
  /\ \A i \in 1 .. Len(w) : w[i] = v[k + i]

LEMMA LastEventsEnd ==
  ASSUME NEW S, NEW v \in Seq(S), NEW n \in 1 .. Len(v)
  PROVE  /\ LastEvents(v, n) \in Seq(S)
         /\ EndsWith(v, LastEvents(v, n), Len(v) - n)
<1> DEFINE m == IF Len(v) > n THEN Len(v) - n + 1 ELSE 1
           w == SubSeq(v, m, Len(v))
<1>1. m \in 1 .. Len(v) /\ Len(v) \in Nat /\ m = Len(v) - n + 1
  OBVIOUS
<1>2. \A i \in m .. Len(v) : v[i] \in S
  BY <1>1
<1> HIDE DEF m
<1>3. /\ w \in Seq(S) /\ Len(w) = Len(v) - m + 1
      /\ \A i \in 1 .. Len(v) - m + 1 : w[i] = v[m + i - 1]
  BY <1>1, <1>2, SubSeqProperties
<1>4. w = LastEvents(v, n)
  BY DEF LastEvents, m
<1> HIDE DEF w
<1>5. Len(w) = n /\ \A i \in 1 .. n : w[i] = v[(Len(v) - n) + i]
  <2>1. \A i \in 1 .. n : m + i - 1 = (Len(v) - n) + i
    BY <1>1
  <2>2. Len(v) - m + 1 = n
    BY <1>1
  <2>3. QED
    BY <1>3, <2>1, <2>2
<1>6. QED
  BY <1>1, <1>3, <1>4, <1>5 DEF EndsWith

LEMMA EndIsDistinctAndPlain ==
  ASSUME NEW v, NEW w, NEW k, EndsWith(v, w, k), Distinct(v), Plain(v)
  PROVE  Distinct(w) /\ Plain(w)
<1>1. \A i \in 1 .. Len(w) : k + i \in 1 .. Len(v) /\ w[i] = v[k + i]
  BY DEF EndsWith
<1>2. \A i, j \in 1 .. Len(w) : k + i = k + j => i = j
  BY DEF EndsWith
<1>3. Distinct(w)
  BY <1>1, <1>2 DEF Distinct
<1>4. Plain(w)
  BY <1>1 DEF Plain
<1>5. QED
  BY <1>3, <1>4

LEMMA PairsOfEnd ==
  ASSUME NEW v, NEW w, NEW k, EndsWith(v, w, k)
  PROVE  RepeatedPairs(w) \subseteq RepeatedPairs(v)
<1> DEFINE at(i) == k + i
<1>1. /\ \A i \in 1 .. Len(w) : at(i) \in 1 .. Len(v) /\ w[i] = v[at(i)]
      /\ \A i, j \in 1 .. Len(w) : /\ i < j => at(i) < at(j)
                                  /\ i # j => at(i) # at(j)
  BY DEF EndsWith
<1> HIDE DEF at
<1>2. ASSUME NEW c \in 1 .. Len(w), NEW r \in 1 .. Len(w), <<c, r>> \in Answers(w)
      PROVE  <<at(c), at(r)>> \in Answers(v)
  <2>1. Answered(w, c, r)
    BY <1>2 DEF Answers, Answered, IsIdentified
  <2>2. at(c) \in 1 .. Len(v) /\ at(r) \in 1 .. Len(v) /\ Answered(v, at(c), at(r))
    <3>1. w[c] = v[at(c)] /\ w[r] = v[at(r)]
      BY <1>1
    <3>2. at(c) < at(r)
      <4>1. c < r
        BY <2>1 DEF Answered
      <4>2. QED
        BY <4>1 DEF EndsWith, at
    <3>3. QED
      BY <1>1, <2>1, <3>1, <3>2 DEF Answered, IsIdentified
  <2>3. QED
    BY <2>2 DEF Answers, Answered, IsIdentified
<1>3. ASSUME NEW x \in Repeats(w)
      PROVE  {w[x[1][1]].id, w[x[1][2]].id, w[x[2][1]].id, w[x[2][2]].id} \in RepeatedPairs(v)
  <2> DEFINE P == 1 .. Len(w)
  <2>1. PICK c \in P, r \in P, d \in P, q \in P : x = <<<<c, r>>, <<d, q>>>>
    <3>1. x[1] \in P \X P /\ x[2] \in P \X P /\ x = <<x[1], x[2]>>
      BY DEF Repeats, Answers
    <3>2. QED
      BY <3>1
  <2>2. /\ <<c, r>> \in Answers(w) /\ <<d, q>> \in Answers(w) /\ c # d
        /\ Identity(w[c]) = Identity(w[d]) /\ Identity(w[r]) = Identity(w[q])
    BY <2>1 DEF Repeats
  <2> DEFINE y == <<<<at(c), at(r)>>, <<at(d), at(q)>>>>
  <2>3. y \in Answers(v) \X Answers(v)
    BY <1>2, <2>2
  <2>4. y \in Repeats(v)
    BY <1>1, <2>2, <2>3 DEF Repeats
  <2>5. {v[y[1][1]].id, v[y[1][2]].id, v[y[2][1]].id, v[y[2][2]].id} \in RepeatedPairs(v)
    <3> HIDE DEF y
    <3>1. QED
      BY <2>4 DEF RepeatedPairs
  <2>6. {w[c].id, w[r].id, w[d].id, w[q].id} \in RepeatedPairs(v)
    BY <1>1, <2>5
  <2>7. QED
    BY <2>1, <2>6
<1>4. QED
  BY <1>3 DEF RepeatedPairs

\* The last call before a position of the end is the one of the whole, or
\* lies before the end.
LEMMA CallBeforeInEnd ==
  ASSUME NEW v, NEW w, NEW k, EndsWith(v, w, k), NEW i \in 1 .. Len(w)
  PROVE  LET c == CallBefore(w, i)
             d == CallBefore(v, k + i)
         IN  \/ c \in 1 .. Len(w) /\ d = k + c
             \/ c = 0 /\ d <= k /\ \A q \in k + 1 .. k + i - 1 : ~IsCall(v[q])
<1> DEFINE c == CallBefore(w, i)
           d == CallBefore(v, k + i)
<1>1. /\ k \in Nat /\ Len(w) \in Nat
      /\ \A j \in 1 .. Len(w) : w[j] = v[k + j]
      /\ i \in Nat \ {0} /\ k + i \in Nat \ {0}
  BY DEF EndsWith
<1>2. \/ c = 0 /\ \A j \in 1 .. i - 1 : ~IsCall(w[j])
      \/ c \in 1 .. i - 1 /\ IsCall(w[c]) /\ \A j \in c + 1 .. i - 1 : ~IsCall(w[j])
  BY <1>1, CallBeforeIs
<1>3. \/ d = 0 /\ \A j \in 1 .. k + i - 1 : ~IsCall(v[j])
      \/ d \in 1 .. k + i - 1 /\ IsCall(v[d]) /\ \A j \in d + 1 .. k + i - 1 : ~IsCall(v[j])
  BY <1>1, CallBeforeIs
<1>4. \A q \in k + 1 .. k + i - 1 : q - k \in 1 .. i - 1 /\ v[q] = w[q - k]
  <2> TAKE q \in k + 1 .. k + i - 1
  <2>1. q - k \in 1 .. i - 1 /\ q - k \in 1 .. Len(w) /\ k + (q - k) = q
    BY <1>1
  <2>2. QED
    BY <1>1, <2>1
<1> HIDE DEF c, d
<1>5. CASE c = 0
  <2>1. \A q \in k + 1 .. k + i - 1 : ~IsCall(v[q])
    <3>1. \A j \in 1 .. i - 1 : ~IsCall(w[j])
      BY <1>2, <1>5
    <3>2. QED
      BY <1>4, <3>1
  <2>2. d <= k
    BY <1>1, <1>3, <2>1
  <2>3. QED
    BY <1>5, <2>1, <2>2 DEF c, d
<1>6. CASE c # 0
  <2>1. /\ c \in 1 .. i - 1 /\ c \in 1 .. Len(w) /\ IsCall(w[c])
        /\ \A j \in c + 1 .. i - 1 : ~IsCall(w[j])
    BY <1>2, <1>6
  <2>2. k + c \in 1 .. k + i - 1 /\ IsCall(v[k + c])
    BY <1>1, <2>1
  <2>3. \A q \in k + c + 1 .. k + i - 1 : ~IsCall(v[q])
    <3> TAKE q \in k + c + 1 .. k + i - 1
    <3>1. q \in k + 1 .. k + i - 1 /\ q - k \in c + 1 .. i - 1
      BY <1>1, <2>1
    <3>2. QED
      BY <1>4, <2>1, <3>1
  <2>4. d = k + c
    <3>1. d # 0 /\ d \in 1 .. k + i - 1 /\ IsCall(v[d])
      BY <1>3, <2>2
    <3>2. ~(d < k + c)
      <4>1. d < k + c => k + c \in d + 1 .. k + i - 1
        BY <1>1, <2>1, <3>1
      <4>2. QED
        BY <1>3, <2>2, <3>1, <4>1
    <3>3. ~(k + c < d)
      <4>1. k + c < d => d \in k + c + 1 .. k + i - 1
        BY <1>1, <2>1, <3>1
      <4>2. QED
        BY <2>3, <3>1, <4>1
    <3>4. QED
      BY <1>1, <2>1, <3>1, <3>2, <3>3
  <2>5. QED
    BY <2>1, <2>4 DEF c, d
<1>7. QED
  BY <1>5, <1>6

\* c is the last call before position i, 0 for none.
LastCall(w, i, c) ==
  \/ c = 0 /\ \A q \in 1 .. i - 1 : ~IsCall(w[q])
  \/ c \in 1 .. i - 1 /\ IsCall(w[c]) /\ \A q \in c + 1 .. i - 1 : ~IsCall(w[q])

LEMMA CallBeforeAt ==
  ASSUME NEW w, NEW k \in Nat, NEW i \in Nat \ {0}
  PROVE  LastCall(w, k + i, CallBefore(w, k + i))
<1>1. k + i \in Nat \ {0}
  OBVIOUS
<1>2. QED
  BY <1>1, CallBeforeIs DEF LastCall

LEMMA SameInputInEnd ==
  ASSUME NEW v, NEW w, NEW k, EndsWith(v, w, k), NEW i \in 1 .. Len(w), NEW j \in 1 .. Len(w),
         SameInput(w, i, j)
  PROVE  SameInput(v, k + i, k + j)
<1> DEFINE c == CallBefore(w, i)
           d == CallBefore(w, j)
           a == CallBefore(v, k + i)
           b == CallBefore(v, k + j)
<1>1. /\ k \in Nat /\ Len(w) \in Nat /\ i \in Nat \ {0} /\ j \in Nat \ {0}
      /\ \A q \in 1 .. Len(w) : w[q] = v[k + q]
  BY DEF EndsWith
<1>2. \/ c = d
      \/ c # 0 /\ d # 0 /\ Identity(w[c]) # None /\ Identity(w[c]) = Identity(w[d])
  BY DEF SameInput
<1>3. /\ \/ c \in 1 .. Len(w) /\ a = k + c
         \/ c = 0 /\ a <= k /\ \A q \in k + 1 .. k + i - 1 : ~IsCall(v[q])
      /\ \/ d \in 1 .. Len(w) /\ b = k + d
         \/ d = 0 /\ b <= k /\ \A q \in k + 1 .. k + j - 1 : ~IsCall(v[q])
  BY CallBeforeInEnd
<1>4. SameInput(v, k + i, k + j) <=>
        \/ a = b
        \/ a # 0 /\ b # 0 /\ Identity(v[a]) # None /\ Identity(v[a]) = Identity(v[b])
  BY DEF SameInput
<1>5. \/ a = 0 /\ \A q \in 1 .. k + i - 1 : ~IsCall(v[q])
      \/ a \in 1 .. k + i - 1 /\ IsCall(v[a]) /\ \A q \in a + 1 .. k + i - 1 : ~IsCall(v[q])
  <2>1. LastCall(v, k + i, a)
    BY <1>1, CallBeforeAt
  <2>2. QED
    BY <1>1, <2>1 DEF LastCall
<1>6. \/ b = 0 /\ \A q \in 1 .. k + j - 1 : ~IsCall(v[q])
      \/ b \in 1 .. k + j - 1 /\ IsCall(v[b]) /\ \A q \in b + 1 .. k + j - 1 : ~IsCall(v[q])
  <2>1. LastCall(v, k + j, b)
    BY <1>1, CallBeforeAt
  <2>2. QED
    BY <1>1, <2>1 DEF LastCall
<1> HIDE DEF a, b, c, d
<1>7. CASE c = 0 /\ d = 0
  <2>1. a \in 0 .. k /\ b \in 0 .. k
    BY <1>1, <1>3, <1>5, <1>6, <1>7
  <2>2. ~(a < b)
    <3>1. a < b => b \in 1 .. k + i - 1 /\ b \in a + 1 .. k + i - 1 /\ b # 0
      BY <1>1, <2>1
    <3>2. QED
      BY <1>5, <1>6, <3>1
  <2>3. ~(b < a)
    <3>1. b < a => a \in 1 .. k + j - 1 /\ a \in b + 1 .. k + j - 1 /\ a # 0
      BY <1>1, <2>1
    <3>2. QED
      BY <1>5, <1>6, <3>1
  <2>4. a = b
    BY <1>1, <2>1, <2>2, <2>3
  <2>5. QED
    BY <1>4, <2>4
<1>8. CASE c \in 1 .. Len(w) /\ d \in 1 .. Len(w)
  <2>1. a = k + c /\ b = k + d
    BY <1>3, <1>8
  <2>2. v[a] = w[c] /\ v[b] = w[d] /\ a # 0 /\ b # 0
    BY <1>1, <1>8, <2>1
  <2>3. QED
    BY <1>2, <1>4, <2>1, <2>2
<1>9. QED
  BY <1>2, <1>3, <1>7, <1>8

LEMMA ErrorsOfEnd ==
  ASSUME NEW v, NEW w, NEW k, EndsWith(v, w, k)
  PROVE  RepeatedErrors(w) \subseteq RepeatedErrors(v)
<1> DEFINE Again(u, c) == /\ c[1] < c[2]
                          /\ u[c[1]].kind = "error" /\ u[c[2]].kind = "error"
                          /\ u[c[1]].error # None /\ u[c[1]].error = u[c[2]].error
                          /\ SameInput(u, c[1], c[2])
           all(u) == {c \in (1 .. Len(u)) \X (1 .. Len(u)) : Again(u, c)}
<1>1. \A i \in 1 .. Len(w) : k + i \in 1 .. Len(v) /\ w[i] = v[k + i]
  BY DEF EndsWith
<1>2. ASSUME NEW c \in all(w)
      PROVE  {w[c[1]].id, w[c[2]].id} \in RepeatedErrors(v)
  <2>1. c[1] \in 1 .. Len(w) /\ c[2] \in 1 .. Len(w) /\ Again(w, c)
    OBVIOUS
  <2> DEFINE d == <<k + c[1], k + c[2]>>
  <2>2. k + c[1] < k + c[2]
    BY <2>1 DEF EndsWith
  <2>3. SameInput(v, k + c[1], k + c[2])
    BY <2>1, SameInputInEnd
  <2>4. d \in all(v)
    BY <1>1, <2>1, <2>2, <2>3
  <2>5. {v[d[1]].id, v[d[2]].id} = {w[c[1]].id, w[c[2]].id}
    BY <1>1, <2>1
  <2> HIDE DEF d
  <2>6. QED
    BY <2>4, <2>5 DEF RepeatedErrors
<1>3. QED
  BY <1>2 DEF RepeatedErrors

LEMMA CyclesOfEnd ==
  ASSUME NEW S, NEW v \in Seq(S), NEW w \in Seq(S), NEW k, EndsWith(v, w, k)
  PROVE  StateCycles(w) \subseteq StateCycles(v)
<1> DEFINE n == Len(w)
           m == Len(v)
<1>1. /\ n \in Nat /\ k \in Nat /\ m = k + n /\ m \in Nat
      /\ \A i \in 1 .. n : w[i] = v[k + i]
  BY DEF EndsWith
<1> HIDE DEF n, m
<1>2. \A i \in 1 .. n : k + i \in 1 .. m
  BY <1>1
<1>3. \A i \in 1 .. n : i \in Observed(w, n) <=> k + i \in Observed(v, m)
  BY <1>1, <1>2 DEF Observed
<1>4. ASSUME NEW match, FoundCycle(match, w, n)
      PROVE  FoundCycle(match, v, m)
  <2>1. PICK a \in Observed(w, n), b \in Observed(w, n) :
          Returns(w, n, a, b) /\ match = Stretch(w, n, a, b)
    BY <1>4 DEF FoundCycle
  <2>2. /\ a \in 1 .. n /\ b \in 1 .. n /\ a < b /\ w[a] = v[k + a] /\ w[b] = v[k + b]
        /\ k + a \in Observed(v, m) /\ k + b \in Observed(v, m) /\ k + a < k + b
    BY <1>1, <1>3, <2>1 DEF Observed, Returns
  <2> DEFINE T == Between(w, n, a, b)
             U == Between(v, m, k + a, k + b)
  <2>3. \A i \in T : i \in 1 .. n /\ k + i \in U /\ w[i] = v[k + i]
    <3> TAKE i \in T
    <3>1. i \in Observed(w, n) /\ a < i /\ i < b /\ i \in 1 .. n
      BY DEF Between, Observed
    <3>2. k + i \in Observed(v, m) /\ k + a < k + i /\ k + i < k + b
      BY <1>1, <1>3, <2>2, <3>1
    <3>3. QED
      BY <1>1, <3>1, <3>2 DEF Between
  <2>4. \A q \in U : q - k \in T /\ k + (q - k) = q
    <3> TAKE q \in U
    <3>1. q \in Observed(v, m) /\ k + a < q /\ q < k + b /\ q \in 1 .. m
      BY DEF Between, Observed
    <3>2. q - k \in 1 .. n /\ a < q - k /\ q - k < b /\ k + (q - k) = q
      BY <1>1, <2>2, <3>1
    <3>3. QED
      BY <1>3, <3>1, <3>2 DEF Between
  <2>5. Cardinality(U) = Cardinality(T)
    <3> DEFINE g == [i \in T |-> k + i]
    <3>1. g \in [T -> U] /\ \A q \in U : \E i \in T : g[i] = q
      BY <2>3, <2>4
    <3>2. \A i, j \in T : g[i] = g[j] => i = j
      BY <1>1, <2>3
    <3> HIDE DEF g
    <3>3. g \in Bijection(T, U)
      BY <3>1, <3>2, Fun_IsBij
    <3>4. IsFiniteSet(T)
      <4>1. T \subseteq 1 .. n /\ IsFiniteSet(1 .. n)
        BY <1>1, <2>3, FS_Interval
      <4>2. QED
        BY <4>1, FS_Subset
    <3>5. QED
      BY <3>3, <3>4, FS_Bijection DEF ExistsBijection
  <2>6. SubSeq(v, k + a, k + b) = SubSeq(w, a, b)
    <3>1. \A i \in a .. b : v[k + i] = w[i]
      BY <1>1, <2>2
    <3>2. QED
      BY <1>1, <2>2, <3>1
  <2>7. /\ w[a].fp = w[b].fp /\ Cardinality(T) \in 1 .. 4
        /\ \E q \in T : w[q].fp # w[a].fp
        /\ ~MadeProgress(SubSeq(w, a, b))
    BY <2>1 DEF Returns
  <2>8. \E q \in U : v[q].fp # v[k + a].fp
    BY <2>2, <2>3, <2>7
  <2>9. Returns(v, m, k + a, k + b)
    BY <2>2, <2>5, <2>6, <2>7, <2>8 DEF Returns
  <2>10. Stretch(v, m, k + a, k + b) = Stretch(w, n, a, b)
    <3> DEFINE V == {p \in Observed(w, n) : a <= p /\ p <= b}
               W == {p \in Observed(v, m) : k + a <= p /\ p <= k + b}
    <3>1. \A i \in V : k + i \in W /\ w[i] = v[k + i]
      BY <1>1, <1>3, <2>2 DEF Observed
    <3>2. \A q \in W : q - k \in V /\ w[q - k] = v[q]
      <4> TAKE q \in W
      <4>1. q \in Observed(v, m) /\ k + a <= q /\ q <= k + b /\ q \in 1 .. m
        BY DEF Observed
      <4>2. q - k \in 1 .. n /\ a <= q - k /\ q - k <= b /\ k + (q - k) = q
        BY <1>1, <2>2, <4>1
      <4>3. QED
        BY <1>1, <1>3, <4>1, <4>2
    <3> HIDE DEF V, W
    <3>3. {w[p].id : p \in V} = {v[p].id : p \in W}
      BY <3>1, <3>2
    <3>4. QED
      BY <3>3 DEF Stretch, V, W
  <2>11. QED
    BY <2>1, <2>2, <2>9, <2>10 DEF FoundCycle
<1>5. QED
  BY <1>4, StateCyclesAre DEF n, m

\* A detector that sees only the last events of the trace decides about them,
\* and what it finds is a repetition of the whole trace: _validated_inputs of
\* the detectors keeps a bounded window, and cutting makes up no match.
THEOREM WindowsInventNothing == Spec => []WindowingInventsNothing
<1>1. ASSUME Recorded, NEW n \in 1 .. Len(window)
      PROVE  LET w == LastEvents(window, n)
             IN  /\ ScanWith(ExactStep, ExactStart, w) \in RepeatedPairs(window) \cup {{}}
                 /\ ScanWith(ErrorStep, ErrorStart, w) \in RepeatedErrors(window) \cup {{}}
                 /\ ScanWith(CycleStep, CycleStart, w) \in StateCycles(window) \cup {{}}
  <2> DEFINE w == LastEvents(window, n)
  <2>1. window \in Seq(Recordings) /\ Distinct(window) /\ Plain(window)
    BY <1>1, RecordedIsDistinct, RecordedIsPlain DEF Recorded
  <2>2. w \in Seq(Recordings) /\ EndsWith(window, w, Len(window) - n)
    BY <2>1, LastEventsEnd
  <2> HIDE DEF w
  <2>3. Distinct(w) /\ Plain(w)
    BY <2>1, <2>2, EndIsDistinctAndPlain
  <2>4. /\ Decides(ScanWith(ExactStep, ExactStart, w), RepeatedPairs(w))
        /\ Decides(ScanWith(ErrorStep, ErrorStart, w), RepeatedErrors(w))
        /\ Decides(ScanWith(CycleStep, CycleStart, w), StateCycles(w))
    BY <2>2, <2>3, ScanDecides
  <2>5. /\ RepeatedPairs(w) \subseteq RepeatedPairs(window)
        /\ RepeatedErrors(w) \subseteq RepeatedErrors(window)
        /\ StateCycles(w) \subseteq StateCycles(window)
    BY <2>1, <2>2, PairsOfEnd, ErrorsOfEnd, CyclesOfEnd
  <2>6. \A match, A, B : Decides(match, A) /\ A \subseteq B => match \in B \cup {{}}
    BY DEF Decides
  <2>7. /\ ScanWith(ExactStep, ExactStart, w) \in RepeatedPairs(window) \cup {{}}
        /\ ScanWith(ErrorStep, ErrorStart, w) \in RepeatedErrors(window) \cup {{}}
        /\ ScanWith(CycleStep, CycleStart, w) \in StateCycles(window) \cup {{}}
    <3> HIDE DEF w
    <3>1. QED
      BY <2>4, <2>5, <2>6
  <2>8. QED
    BY <2>7 DEF w
<1>2. IInv => WindowingInventsNothing
  BY <1>1 DEF IInv, WindowingInventsNothing
<1>3. QED
  BY Invariance, <1>2, PTL

=============================================================================
