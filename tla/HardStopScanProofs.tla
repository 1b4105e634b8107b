------------------------- MODULE HardStopScanProofs -------------------------
(***************************************************************************)
(* Proofs about the hard stops, for traces of any length over any set of   *)
(* events.  The invariant that carries them is IInv: as long as nothing is *)
(* returned, the pass remembers exactly the first call of every identity,  *)
(* and every identified call so far is harmless beside that first one.     *)
(***************************************************************************)
EXTENDS HardStopScan, SequenceTheorems, TLAPS

\* Nothing returned yet: seen holds the first call of each identity, and no
\* action that was called twice is risky at any of its calls.
Searching ==
  /\ \A i \in DOMAIN risk.seen :
       /\ IsIdentifiedCall(trace[risk.seen[i]])
       /\ Identity(trace[risk.seen[i]]) = i
  /\ \A p \in Positions : IsIdentifiedCall(trace[p]) =>
       /\ Identity(trace[p]) \in DOMAIN risk.seen
       /\ risk.seen[Identity(trace[p])] <= p
  /\ \A i, j \in Positions : ~RiskyRepeat(i, j)

IInv ==
  /\ TypeOK
  /\ risk.match = {} => Searching
  /\ RiskIsEarliest
  /\ LimitIsEarliest

-----------------------------------------------------------------------------
(* The trace grows by one event.                                           *)

\* The events already passed keep their positions, and the new one is last.
LEMMA PassAppends ==
  ASSUME TypeOK, NEW e \in Event, Pass(e)
  PROVE  /\ trace' \in Seq(Event)
         /\ Len(trace') = Len(trace) + 1
         /\ Len(trace) \in Nat
         /\ Positions' = Positions \cup {Len(trace')}
         /\ trace'[Len(trace')] = e
         /\ \A p \in Positions : trace'[p] = trace[p]
BY DEF TypeOK, Pass, Positions

\* What two earlier events are to each other does not change.
LEMMA PassKeepsRepeats ==
  ASSUME TypeOK, NEW e \in Event, Pass(e)
  PROVE  \A i, j \in Positions : /\ SameCall(i, j)' <=> SameCall(i, j)
                                 /\ RiskyRepeat(i, j)' <=> RiskyRepeat(i, j)
BY PassAppends DEF SameCall, RiskyRepeat

\* What one step of the risk pass can do.
LEMMA RiskStepCases ==
  ASSUME TypeOK, NEW e \in Event, Pass(e)
  PROVE  \/ /\ risk.match # {} \/ ~IsIdentifiedCall(e)
            /\ risk' = risk
         \/ /\ risk.match = {} /\ IsIdentifiedCall(e)
            /\ Identity(e) \in DOMAIN risk.seen
            /\ RisksRepeat(trace'[risk.seen[Identity(e)]], e)
            /\ risk' = [seen |-> risk.seen, match |-> {risk.seen[Identity(e)], Len(trace')}]
         \/ /\ risk.match = {} /\ IsIdentifiedCall(e)
            /\ Identity(e) \in DOMAIN risk.seen => ~RisksRepeat(trace'[risk.seen[Identity(e)]], e)
            /\ risk' = [seen |-> Remember(risk.seen, e, Len(trace')), match |-> {}]
BY PassAppends DEF Pass, RiskStep

-----------------------------------------------------------------------------
(* The invariant is inductive.                                             *)

LEMMA InitEstablishes == Init => IInv
BY DEF Init, IInv, TypeOK, Searching, RiskIsEarliest, LimitIsEarliest, Positions, RiskStart

LEMMA PassKeepsTypeOK ==
  ASSUME IInv, NEW e \in Event, Pass(e)
  PROVE  TypeOK'
<1> USE DEF IInv
<1>1. trace' \in Seq(Event)
  BY PassAppends
<1>2. /\ DOMAIN risk' = {"seen", "match"}
      /\ \A i \in DOMAIN risk'.seen : risk'.seen[i] \in Positions'
      /\ risk'.match # {} => \E i, j \in Positions' : i < j /\ risk'.match = {i, j}
  <2>1. CASE risk' = risk
    BY <2>1, PassAppends DEF TypeOK
  <2>2. CASE /\ Identity(e) \in DOMAIN risk.seen
             /\ risk' = [seen |-> risk.seen, match |-> {risk.seen[Identity(e)], Len(trace')}]
    <3> DEFINE first == risk.seen[Identity(e)]
    <3>1. first \in Positions
      BY <2>2 DEF TypeOK
    <3>2. first \in Positions' /\ Len(trace') \in Positions' /\ first < Len(trace')
      BY <3>1, PassAppends DEF Positions
    <3>3. DOMAIN risk' = {"seen", "match"} /\ risk'.seen = risk.seen
          /\ risk'.match = {first, Len(trace')}
      BY <2>2
    <3>4. \A i \in DOMAIN risk'.seen : risk'.seen[i] \in Positions'
      BY <3>3, PassAppends DEF TypeOK
    <3>5. QED
      BY <3>2, <3>3, <3>4
  <2>3. CASE risk' = [seen |-> Remember(risk.seen, e, Len(trace')), match |-> {}]
    BY <2>3, PassAppends DEF TypeOK, Remember
  <2>4. QED
    BY <2>1, <2>2, <2>3, RiskStepCases
<1>3. limitAt' \in Positions' \cup {0}
  BY PassAppends DEF Pass, LimitStep, TypeOK
<1>4. QED
  BY <1>1, <1>2, <1>3 DEF TypeOK

\* While nothing is returned the new event joins the memory: it is no risky
\* repeat of the first call of its identity, and that call decides for all the
\* others, because none of them is a risky repeat of it.
LEMMA PassKeepsSearching ==
  ASSUME IInv, NEW e \in Event, Pass(e), risk'.match = {}
  PROVE  Searching'
<1> USE DEF IInv
<1>q. PICK q : q = Len(trace')
  OBVIOUS
<1>1. risk.match = {} /\ Searching
  <2>1. risk.match = {}
    BY RiskStepCases
  <2>2. QED
    BY <2>1
<1>2. \A i \in DOMAIN risk.seen : /\ risk.seen[i] \in Positions
                                  /\ trace'[risk.seen[i]] = trace[risk.seen[i]]
                                  /\ IsIdentifiedCall(trace[risk.seen[i]])
                                  /\ Identity(trace[risk.seen[i]]) = i
  BY <1>1, PassAppends DEF TypeOK, Searching
<1>3. CASE ~IsIdentifiedCall(e)
  <2>1. risk' = risk
    BY <1>3, RiskStepCases
  <2>2. \A i \in DOMAIN risk'.seen : /\ IsIdentifiedCall(trace'[risk'.seen[i]])
                                     /\ Identity(trace'[risk'.seen[i]]) = i
    BY <2>1, <1>2
  <2>3. \A p \in Positions' : IsIdentifiedCall(trace'[p]) =>
          /\ Identity(trace'[p]) \in DOMAIN risk'.seen
          /\ risk'.seen[Identity(trace'[p])] <= p
    BY <2>1, <1>1, <1>3, PassAppends DEF Searching
  <2>4. \A i, j \in Positions' : ~RiskyRepeat(i, j)'
    BY <1>1, <1>3, PassAppends, PassKeepsRepeats DEF Searching, RiskyRepeat, SameCall
  <2>5. QED
    BY <2>2, <2>3, <2>4 DEF Searching
<1>4. CASE /\ IsIdentifiedCall(e)
           /\ Identity(e) \in DOMAIN risk.seen => ~RisksRepeat(trace'[risk.seen[Identity(e)]], e)
           /\ risk' = [seen |-> Remember(risk.seen, e, q), match |-> {}]
  <2>1. /\ DOMAIN risk'.seen = DOMAIN risk.seen \cup {Identity(e)}
        /\ \A i \in DOMAIN risk.seen : risk'.seen[i] = risk.seen[i]
        /\ Identity(e) \notin DOMAIN risk.seen => risk'.seen[Identity(e)] = q
    BY <1>4 DEF Remember
  <2>2. \A i \in DOMAIN risk'.seen : /\ IsIdentifiedCall(trace'[risk'.seen[i]])
                                     /\ Identity(trace'[risk'.seen[i]]) = i
    BY <2>1, <1>2, <1>4, <1>q, PassAppends
  <2>3. \A p \in Positions' : IsIdentifiedCall(trace'[p]) =>
          /\ Identity(trace'[p]) \in DOMAIN risk'.seen
          /\ risk'.seen[Identity(trace'[p])] <= p
    <3>1. ASSUME NEW p \in Positions, IsIdentifiedCall(trace'[p])
          PROVE  /\ Identity(trace'[p]) \in DOMAIN risk'.seen
                 /\ risk'.seen[Identity(trace'[p])] <= p
      BY <3>1, <2>1, <1>1, PassAppends DEF Searching
    <3>2. /\ Identity(e) \in DOMAIN risk'.seen
          /\ risk'.seen[Identity(e)] <= q
      BY <2>1, <1>2, <1>q, PassAppends DEF Positions
    <3>3. QED
      BY <3>1, <3>2, <1>q, PassAppends
  <2>4. \A i, j \in Positions' : ~RiskyRepeat(i, j)'
    <3>1. \A i \in Positions : ~RiskyRepeat(i, q)'
      <4> SUFFICES ASSUME NEW i \in Positions, SameCall(i, q)',
                          IsRisky(trace'[i]) \/ IsRisky(trace'[q])
                   PROVE  FALSE
        BY DEF RiskyRepeat
      <4> DEFINE first == risk.seen[Identity(e)]
      <4>1. /\ IsIdentifiedCall(trace[i]) /\ Identity(trace[i]) = Identity(e)
            /\ trace'[i] = trace[i] /\ trace'[q] = e
        BY <1>q, PassAppends DEF SameCall
      <4>2. Identity(e) \in DOMAIN risk.seen /\ first <= i
        BY <4>1, <1>1 DEF Searching
      <4>3. ~IsRisky(trace[first]) /\ ~IsRisky(e)
        BY <4>2, <1>2, <1>4 DEF RisksRepeat
      <4>4. IsRisky(trace[i]) /\ first # i
        BY <4>1, <4>3
      <4>5. first < i
        BY <4>2, <4>4, <1>2 DEF Positions
      <4>6. RiskyRepeat(first, i)
        BY <4>1, <4>2, <4>4, <4>5, <1>2 DEF RiskyRepeat, SameCall
      <4>7. QED
        BY <4>6, <4>2, <1>1, <1>2 DEF Searching
    <3>2. \A i, j \in Positions : ~RiskyRepeat(i, j)'
      BY <1>1, PassKeepsRepeats DEF Searching
    <3>3. \A j \in Positions' : ~RiskyRepeat(q, j)'
      BY <1>q, PassAppends DEF RiskyRepeat, Positions
    <3>4. QED
      BY <3>1, <3>2, <3>3, <1>q, PassAppends
  <2>5. QED
    BY <2>2, <2>3, <2>4 DEF Searching
<1>5. CASE /\ Identity(e) \in DOMAIN risk.seen
           /\ risk' = [seen |-> risk.seen, match |-> {risk.seen[Identity(e)], q}]
  <2>1. risk'.match # {}
    BY <1>5
  <2>2. QED
    BY <2>1
<1>6. QED
  BY <1>1, <1>3, <1>4, <1>5, <1>q, RiskStepCases

\* The finding is fixed by the first risky repeat: a repeat of the first call,
\* found when no pair before it was one.
LEMMA PassKeepsRiskIsEarliest ==
  ASSUME IInv, NEW e \in Event, Pass(e)
  PROVE  RiskIsEarliest'
<1> USE DEF IInv
<1>q. PICK q : q = Len(trace')
  OBVIOUS
<1>1. CASE risk.match # {}
  <2>1. risk' = risk
    BY <1>1, RiskStepCases
  <2>2. PICK i \in Positions, j \in Positions :
          /\ risk.match = {i, j}
          /\ RiskyRepeat(i, j)
          /\ \A k \in 1 .. i - 1 : ~SameCall(k, j)
          /\ \A k \in 1 .. j - 1, l \in 1 .. j - 1 : ~RiskyRepeat(k, l)
    BY <1>1 DEF RiskIsEarliest
  <2>3. i \in Positions' /\ j \in Positions' /\ RiskyRepeat(i, j)'
    BY <2>2, PassAppends, PassKeepsRepeats
  <2>4. 1 .. i - 1 \subseteq Positions /\ 1 .. j - 1 \subseteq Positions
    BY PassAppends DEF Positions
  <2>5. \A k \in 1 .. i - 1 : ~SameCall(k, j)'
    BY <2>2, <2>4, PassKeepsRepeats
  <2>6. \A k \in 1 .. j - 1, l \in 1 .. j - 1 : ~RiskyRepeat(k, l)'
    BY <2>2, <2>4, PassKeepsRepeats
  <2>7. QED
    BY <2>1, <2>2, <2>3, <2>5, <2>6 DEF RiskIsEarliest
<1>2. CASE risk.match = {} /\ risk'.match # {}
  <2> DEFINE id == Identity(e)
  <2>i. PICK i : i = risk.seen[id]
    OBVIOUS
  <2>1. /\ IsIdentifiedCall(e) /\ id \in DOMAIN risk.seen
        /\ RisksRepeat(trace'[i], e)
        /\ risk'.match = {i, q}
    <3>1. ~(risk' = risk)
      BY <1>2
    <3>2. ~(risk' = [seen |-> Remember(risk.seen, e, Len(trace')), match |-> {}])
      BY <1>2
    <3>3. QED
      BY <3>1, <3>2, <2>i, <1>q, RiskStepCases
  <2>2. Searching
    BY <1>2
  <2>3. /\ i \in Positions /\ IsIdentifiedCall(trace[i]) /\ Identity(trace[i]) = id
    BY <2>1, <2>2, <2>i DEF Searching, TypeOK
  <2>4. /\ i \in Positions' /\ q \in Positions' /\ i < q
        /\ trace'[i] = trace[i] /\ trace'[q] = e
    BY <2>3, <1>q, PassAppends DEF Positions
  <2>5. RiskyRepeat(i, q)'
    BY <2>1, <2>3, <2>4 DEF RiskyRepeat, SameCall, RisksRepeat
  <2>6. 1 .. q - 1 = Positions /\ 1 .. i - 1 \subseteq Positions
    BY <2>3, <1>q, PassAppends DEF Positions
  <2>7. \A k \in 1 .. i - 1 : ~SameCall(k, q)'
    <3> SUFFICES ASSUME NEW k \in 1 .. i - 1, SameCall(k, q)'
                 PROVE  FALSE
      OBVIOUS
    <3>1. IsIdentifiedCall(trace[k]) /\ Identity(trace[k]) = id
      BY <2>4, <2>6, PassAppends DEF SameCall
    <3>2. i <= k
      BY <3>1, <2>2, <2>6, <2>i DEF Searching
    <3>3. QED
      BY <3>2, <2>3 DEF Positions
  <2>8. \A k \in 1 .. q - 1, l \in 1 .. q - 1 : ~RiskyRepeat(k, l)'
    BY <2>2, <2>6, PassKeepsRepeats DEF Searching
  <2>9. QED
    BY <2>1, <2>4, <2>5, <2>7, <2>8 DEF RiskIsEarliest
<1>3. CASE risk'.match = {}
  BY <1>3 DEF RiskIsEarliest
<1>4. QED
  BY <1>1, <1>2, <1>3

\* A limit once reached stays the earliest one.
LEMMA PassKeepsLimitIsEarliest ==
  ASSUME IInv, NEW e \in Event, Pass(e)
  PROVE  LimitIsEarliest'
<1> USE DEF IInv
<1>1. CASE limitAt # 0
  <2>1. limitAt' = limitAt /\ limitAt \in Positions /\ 1 .. limitAt - 1 \subseteq Positions
    BY <1>1, PassAppends DEF Pass, LimitStep, TypeOK, Positions
  <2>2. QED
    BY <1>1, <2>1, PassAppends DEF LimitIsEarliest
<1>2. CASE limitAt = 0 /\ ReachesLimit(e, WholeRun)
  <2>1. limitAt' = Len(trace') /\ limitAt' # 0 /\ 1 .. limitAt' - 1 = Positions
    BY <1>2, PassAppends DEF Pass, LimitStep, Positions
  <2>2. QED
    BY <1>2, <2>1, PassAppends DEF LimitIsEarliest
<1>3. CASE limitAt = 0 /\ ~ReachesLimit(e, WholeRun)
  <2>1. limitAt' = 0
    BY <1>3, PassAppends DEF Pass, LimitStep
  <2>2. QED
    BY <1>3, <2>1, PassAppends DEF LimitIsEarliest
<1>4. QED
  BY <1>1, <1>2, <1>3

LEMMA NextPreserves == IInv /\ [Next]_vars => IInv'
<1> SUFFICES ASSUME IInv, [Next]_vars
             PROVE  IInv'
  OBVIOUS
<1>1. ASSUME NEW e \in Event, Pass(e)
      PROVE  IInv'
  BY <1>1, PassKeepsTypeOK, PassKeepsSearching, PassKeepsRiskIsEarliest,
     PassKeepsLimitIsEarliest DEF IInv
<1>2. CASE UNCHANGED vars
  BY <1>2 DEF vars, IInv, TypeOK, Searching, RiskIsEarliest, LimitIsEarliest,
              Positions, RiskyRepeat, SameCall
<1>3. QED
  BY <1>1, <1>2 DEF Next

-----------------------------------------------------------------------------
(* Theorems.                                                               *)

\* The invariant holds in every state of every trace.
THEOREM Invariance == Spec => []IInv
BY InitEstablishes, NextPreserves, PTL DEF Spec

\* What the passes remember and return are positions of the trace.
THEOREM TypeCorrect == Spec => []TypeOK
<1>1. IInv => TypeOK
  BY DEF IInv
<1>2. QED
  BY <1>1, Invariance, PTL

\* A risk finding is reported exactly when some action was called twice and
\* some call of it is unsafe to repeat, for every trace and every alphabet.
THEOREM RiskComplete == Spec => []RiskIsComplete
<1>1. IInv => RiskIsComplete
  BY DEF IInv, Searching, RiskIsEarliest, RiskIsComplete
<1>2. QED
  BY <1>1, Invariance, PTL

\* The reported pair never depends on what was reported after it.
THEOREM RiskEarliest == Spec => []RiskIsEarliest
<1>1. IInv => RiskIsEarliest
  BY DEF IInv
<1>2. QED
  BY <1>1, Invariance, PTL

\* The budget stop names the first event at a limit and nothing else.
THEOREM LimitEarliest == Spec => []LimitIsEarliest
<1>1. IInv => LimitIsEarliest
  BY DEF IInv
<1>2. QED
  BY <1>1, Invariance, PTL

=============================================================================
