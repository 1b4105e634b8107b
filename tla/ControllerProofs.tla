-------------------------- MODULE ControllerProofs --------------------------
(***************************************************************************)
(* Proofs about the policy selector, for every diagnosis, every set of     *)
(* findings and every ladder a valid policy can have, and about the        *)
(* controller, for every host, trace, policy and semantic detector.  The   *)
(* controller's answer is a function of its copy of the trace; the passes  *)
(* over the copy are folds, which are unfolded to the states between the   *)
(* iterations of their loops.                                              *)
(***************************************************************************)
EXTENDS ControllerRecords, SequenceTheorems, FiniteSetTheorems, WellFoundedInduction, TLAPS

-----------------------------------------------------------------------------
(* The policy selector.                                                    *)

\* The responses in the order of their strength, as a relation: each is at
\* least as strong as itself and those before it.
Strength(decision) ==
  CASE decision = "continue" -> 0
    [] decision = "nudge" -> 1
    [] decision = "diagnose" -> 2
    [] decision = "reheat" -> 3
    [] decision = "restart" -> 4
    [] decision = "escalate" -> 5
    [] decision = "stop" -> 6

\* A decision is always one the policy permits, and continuing needs no
\* permission: validation leaves an escalation as the last resort.
THEOREM DecisionIsPermitted ==
  ASSUME NEW diagnosis, NEW findings, NEW p, IsSafeLadder(p)
  PROVE  SelectDecision(diagnosis, findings, p) \in p.permitted \cup {"continue"}
BY DEF SelectDecision, LowestStage, Escalation, AllowsReheat, IsSafeLadder

\* The stages of the ladder are reached only through the gate: both classes
\* were observed, and no finding or cause asks for a stop or for a human.
THEOREM InterventionPassesGate ==
  ASSUME NEW diagnosis, NEW findings, NEW p,
         SelectDecision(diagnosis, findings, p) \in {"nudge", "diagnose", "reheat", "restart"}
  PROVE  /\ {"repetition", "no_progress"} \subseteq Observed(findings)
         /\ \A f \in findings : /\ f.class \notin {"risk", "budget"}
                                /\ f.reason \notin {"risk_detected", "budget_limit_reached"}
         /\ diagnosis.causes \cap {"unsafe_side_effect", "exhausted_budget", "missing_authority"} = {}
<1>1. ~MustStop(diagnosis, findings)
  BY DEF SelectDecision
<1>2. "missing_authority" \notin diagnosis.causes
  BY <1>1 DEF SelectDecision, Escalation
<1>3. SignalsAgree(findings)
  BY <1>1, <1>2 DEF SelectDecision
<1>4. QED
  BY <1>1, <1>2, <1>3 DEF MustStop, IsRiskObserved, IsBudgetObserved, SignalsAgree

\* Every answer of the ladder lies between a nudge and an escalation.
LEMMA LowestStageStrength ==
  ASSUME NEW p, IsSafeLadder(p)
  PROVE  Strength(LowestStage(p)) \in 1 .. 5
BY DEF LowestStage, Escalation, IsSafeLadder, Strength

LEMMA EscalationStrength ==
  ASSUME NEW p, IsSafeLadder(p)
  PROVE  Escalation(p) = "escalate" /\ Strength(Escalation(p)) = 5
BY DEF Escalation, IsSafeLadder, Strength

\* Only a stop is stronger than an escalation.
LEMMA DecisionStrength ==
  ASSUME NEW diagnosis, NEW findings, NEW p, IsSafeLadder(p)
  PROVE  LET decision == SelectDecision(diagnosis, findings, p)
         IN  IF MustStop(diagnosis, findings)
             THEN Strength(decision) = 6
             ELSE Strength(decision) \in 0 .. 5
<1> DEFINE decision == SelectDecision(diagnosis, findings, p)
<1>1. CASE MustStop(diagnosis, findings)
  <2>1. decision = "stop"
    BY <1>1 DEF SelectDecision
  <2>2. QED
    BY <1>1, <2>1 DEF Strength
<1>2. CASE ~MustStop(diagnosis, findings)
  <2>1. decision \in {Escalation(p), LowestStage(p), "continue"}
    BY <1>2 DEF SelectDecision
  <2>2. Strength("continue") = 0
    BY DEF Strength
  <2>3. Strength(decision) \in 0 .. 5
    BY <2>1, <2>2, LowestStageStrength, EscalationStrength
  <2>4. QED
    BY <1>2, <2>3
<1>3. QED
  BY <1>1, <1>2

\* More findings and more causes never weaken the response: neither an
\* optional detector nor a further cause marker can talk the selector out of
\* a stop.
THEOREM MoreEvidenceNeverRelaxes ==
  ASSUME NEW diagnosis, NEW more, NEW findings, NEW added, NEW p,
         IsSafeLadder(p),
         diagnosis.causes \subseteq more.causes,
         findings \subseteq added
  PROVE  Strength(SelectDecision(diagnosis, findings, p))
           <= Strength(SelectDecision(more, added, p))
<1> DEFINE before == SelectDecision(diagnosis, findings, p)
           after == SelectDecision(more, added, p)
<1>1. MustStop(diagnosis, findings) => MustStop(more, added)
  BY DEF MustStop, IsRiskObserved, IsBudgetObserved
<1>2. SignalsAgree(findings) => SignalsAgree(added)
  BY DEF SignalsAgree, Observed
<1>3. Strength(before) \in 0 .. 6
  BY DecisionStrength
<1>4. CASE MustStop(more, added)
  <2>1. Strength(after) = 6
    BY <1>4, DecisionStrength
  <2>2. QED
    BY <2>1, <1>3
<1>5. CASE ~MustStop(more, added) /\ "missing_authority" \in more.causes
  <2>1. Strength(after) = 5
    BY <1>5, EscalationStrength DEF SelectDecision
  <2>2. Strength(before) \in 0 .. 5
    BY <1>1, <1>5, DecisionStrength
  <2>3. QED
    BY <2>1, <2>2
<1>6. CASE ~MustStop(more, added) /\ "missing_authority" \notin more.causes
  <2>1. ~MustStop(diagnosis, findings) /\ "missing_authority" \notin diagnosis.causes
    BY <1>1, <1>6
  <2>2. after = IF SignalsAgree(added) THEN LowestStage(p) ELSE "continue"
    BY <1>6 DEF SelectDecision
  <2>3. before = IF SignalsAgree(findings) THEN LowestStage(p) ELSE "continue"
    BY <2>1 DEF SelectDecision
  <2>4. Strength("continue") = 0
    BY DEF Strength
  <2>5. QED
    BY <1>2, <2>2, <2>3, <2>4, LowestStageStrength
<1>7. QED
  BY <1>4, <1>5, <1>6

-----------------------------------------------------------------------------
(* Induction, and least and greatest positions.                            *)

\* The order of the naturals is well-founded.
LEMMA LeastExists ==
  ASSUME NEW T \in SUBSET Nat, T # {}
  PROVE  \E m \in T : \A k \in T : m <= k
<1> DEFINE R == OpToRel(<, Nat)
<1>1. IsWellFoundedOn(R, Nat)
  BY NatLessThanWellFounded
<1>2. \A x, y \in Nat : <<y, x>> \in R <=> y < x
  BY DEF OpToRel
<1> HIDE DEF R
<1>3. PICK m \in T : \A k \in T : ~(<<k, m>> \in R)
  BY <1>1, WFMin
<1>4. ASSUME NEW k \in T
      PROVE  m <= k
  <2>1. ~(k < m) /\ k \in Nat /\ m \in Nat
    BY <1>2, <1>3
  <2>2. QED
    BY <2>1
<1>5. QED
  BY <1>4

\* Induction on the naturals over a set.
LEMMA SetInduction ==
  ASSUME NEW S, 0 \in S, \A n \in Nat : n \in S => n + 1 \in S
  PROVE  Nat \subseteq S
<1> DEFINE T == {n \in Nat : n \notin S}
<1> SUFFICES ASSUME T # {}
             PROVE  FALSE
  OBVIOUS
<1>1. PICK m \in T : \A k \in T : m <= k
  <2>1. T \in SUBSET Nat
    OBVIOUS
  <2> HIDE DEF T
  <2>2. QED
    BY <2>1, LeastExists
<1>2. m # 0 /\ m - 1 \in Nat /\ m - 1 \in S
  BY <1>1
<1>3. QED
  BY <1>1, <1>2

LEMMA GreatestExists ==
  ASSUME NEW n \in Nat, NEW T \in SUBSET (1 .. n), T # {}
  PROVE  \E m \in T : \A k \in T : k <= m
<1> DEFINE U == {n - k : k \in T}
<1>1. U \in SUBSET Nat /\ U # {}
  <2>1. \A k \in T : n - k \in Nat
    OBVIOUS
  <2>2. PICK k \in T : TRUE
    OBVIOUS
  <2>3. n - k \in U
    BY <2>2
  <2>4. QED
    BY <2>1, <2>3
<1>2. PICK u \in U : \A v \in U : u <= v
  <2> HIDE DEF U
  <2>1. QED
    BY <1>1, LeastExists
<1>3. PICK m \in T : u = n - m
  BY <1>2
<1>4. ASSUME NEW k \in T
      PROVE  k <= m
  <2>1. n - k \in U
    OBVIOUS
  <2>2. n - m <= n - k
    BY <1>2, <1>3, <2>1
  <2>3. QED
    BY <2>2
<1>5. QED
  BY <1>4

\* Max of the community modules, where there is one.
LEMMA MaxIs ==
  ASSUME NEW n \in Nat, NEW T \in SUBSET (1 .. n), T # {}
  PROVE  Max(T) \in T /\ \A k \in T : k <= Max(T)
<1>1. \E m \in T : \A k \in T : k <= m
  BY GreatestExists
<1>2. \E m \in T : \A k \in T : m >= k
  BY <1>1
<1>3. QED
  BY <1>2 DEF Max

-----------------------------------------------------------------------------
(* A pass over a trace or a window: a fold.                                *)

LEMMA MaxOfPrefix ==
  ASSUME NEW n \in Nat, NEW T \in SUBSET (1 .. n + 1), n + 1 \in T
  PROVE  Max(T) = n + 1
<1>1. n + 1 \in Nat /\ T # {}
  OBVIOUS
<1>2. Max(T) \in T /\ \A k \in T : k <= Max(T)
  BY <1>1, MaxIs
<1>3. Max(T) \in 1 .. n + 1 /\ n + 1 <= Max(T)
  BY <1>2
<1>4. QED
  BY <1>3

\* The loops by their names; limits are the whole-run budget, for the pass
\* that compares with it.
StartOf(d) ==
  CASE d = "limit" -> 0
    [] d = "risk" -> RiskStart
    [] d = "exact" -> ExactStart
    [] d = "cycle" -> CycleStart
    [] d = "error" -> ErrorStart
    [] d = "unchanged" -> UnchangedStart
    [] d = "stall" -> StallStart
    [] d = "burn" -> BurnStart

StepOf(d, limits, s, w, p) ==
  CASE d = "limit" -> LimitStep(s, w, p, limits)
    [] d = "risk" -> RiskStep(s, w, p)
    [] d = "exact" -> ExactStep(s, w, p)
    [] d = "cycle" -> CycleStep(s, w, p)
    [] d = "error" -> ErrorStep(s, w, p)
    [] d = "unchanged" -> UnchangedStep(s, w, p)
    [] d = "stall" -> StallStep(s, w, p)
    [] d = "burn" -> BurnStep(s, w, p)

LEMMA StepsAre ==
  \A limits, s, w, p :
    /\ StepOf("limit", limits, s, w, p) = LimitStep(s, w, p, limits)
    /\ StepOf("risk", limits, s, w, p) = RiskStep(s, w, p)
    /\ StepOf("exact", limits, s, w, p) = ExactStep(s, w, p)
    /\ StepOf("cycle", limits, s, w, p) = CycleStep(s, w, p)
    /\ StepOf("error", limits, s, w, p) = ErrorStep(s, w, p)
    /\ StepOf("unchanged", limits, s, w, p) = UnchangedStep(s, w, p)
    /\ StepOf("stall", limits, s, w, p) = StallStep(s, w, p)
    /\ StepOf("burn", limits, s, w, p) = BurnStep(s, w, p)
BY DEF StepOf

\* f gives every set of positions the state after passing them in order.
Runs(f, d, limits, w, n) ==
  f = [T \in SUBSET (1 .. n) |->
         IF T = {} THEN StartOf(d) ELSE StepOf(d, limits, f[T \ {Max(T)}], w, Max(T))]

LEMMA RunExists ==
  ASSUME NEW d, NEW limits, NEW w
  PROVE  \A n \in Nat : \E f : Runs(f, d, limits, w, n)
<1> DEFINE S == {n \in Nat : \E f : Runs(f, d, limits, w, n)}
<1>1. 0 \in S
  <2> DEFINE f == [T \in SUBSET (1 .. 0) |-> StartOf(d)]
  <2>1. \A T \in SUBSET (1 .. 0) : T = {}
    OBVIOUS
  <2>2. Runs(f, d, limits, w, 0)
    BY <2>1 DEF Runs
  <2>3. QED
    BY <2>2
<1>2. ASSUME NEW n \in Nat, n \in S
      PROVE  n + 1 \in S
  <2>1. PICK f : Runs(f, d, limits, w, n)
    BY <1>2
  <2> DEFINE p == n + 1
             g == [T \in SUBSET (1 .. p) |->
                     IF p \in T THEN StepOf(d, limits, f[T \ {p}], w, p) ELSE f[T]]
             h(T) == IF T = {} THEN StartOf(d) ELSE StepOf(d, limits, g[T \ {Max(T)}], w, Max(T))
  <2>2. \A T \in SUBSET (1 .. n) :
          f[T] = IF T = {} THEN StartOf(d) ELSE StepOf(d, limits, f[T \ {Max(T)}], w, Max(T))
    BY <2>1 DEF Runs
  <2>3. \A T \in SUBSET (1 .. n) : T \in SUBSET (1 .. p) /\ p \notin T /\ g[T] = f[T]
    OBVIOUS
  <2>4. ASSUME NEW T \in SUBSET (1 .. p)
        PROVE  g[T] = h(T)
    <3>1. CASE p \in T
      <4>1. Max(T) = p
        BY <3>1, MaxOfPrefix
      <4>2. T \ {p} \in SUBSET (1 .. n)
        OBVIOUS
      <4>3. g[T] = StepOf(d, limits, f[T \ {p}], w, p) /\ g[T \ {p}] = f[T \ {p}] /\ T # {}
        BY <2>3, <3>1, <4>2
      <4>4. QED
        BY <4>1, <4>3
    <3>2. CASE p \notin T
      <4>1. T \in SUBSET (1 .. n) /\ g[T] = f[T]
        BY <3>2
      <4>2. T \ {Max(T)} \in SUBSET (1 .. n)
        BY <4>1
      <4>3. g[T \ {Max(T)}] = f[T \ {Max(T)}]
        BY <2>3, <4>2
      <4>4. QED
        BY <2>2, <4>1, <4>3
    <3>3. QED
      BY <3>1, <3>2
  <2>5. g = [T \in SUBSET (1 .. p) |-> g[T]]
    OBVIOUS
  <2>6. g = [T \in SUBSET (1 .. p) |-> h(T)]
    <3> HIDE DEF g, h
    <3>1. QED
      BY <2>4, <2>5
  <2>7. Runs(g, d, limits, w, p)
    BY <2>6 DEF Runs
  <2>8. p \in Nat /\ \E k : Runs(k, d, limits, w, p)
    BY <2>7
  <2>9. QED
    BY <2>8
<1>3. Nat \subseteq S
  <2> HIDE DEF S
  <2>1. QED
    BY <1>1, <1>2, SetInduction
<1>4. QED
  BY <1>3

RunOf(d, limits, w) == CHOOSE f : Runs(f, d, limits, w, Len(w))

StateAfter(d, limits, w, n) == RunOf(d, limits, w)[1 .. n]

\* The states between the loop's iterations.
LEMMA RunSteps ==
  ASSUME NEW d, NEW limits, NEW w, Len(w) \in Nat
  PROVE  /\ StateAfter(d, limits, w, 0) = StartOf(d)
         /\ \A n \in 0 .. Len(w) - 1 :
              StateAfter(d, limits, w, n + 1) = StepOf(d, limits, StateAfter(d, limits, w, n), w, n + 1)
<1> DEFINE f == RunOf(d, limits, w)
<1>1. Runs(f, d, limits, w, Len(w))
  <2>1. \E g : Runs(g, d, limits, w, Len(w))
    BY RunExists
  <2>2. QED
    BY <2>1 DEF RunOf
<1>2. \A T \in SUBSET (1 .. Len(w)) :
        f[T] = IF T = {} THEN StartOf(d) ELSE StepOf(d, limits, f[T \ {Max(T)}], w, Max(T))
  BY <1>1 DEF Runs
<1> HIDE DEF f
<1>3. f[1 .. 0] = StartOf(d)
  <2>1. 1 .. 0 = {} /\ 1 .. 0 \in SUBSET (1 .. Len(w))
    OBVIOUS
  <2>2. QED
    BY <1>2, <2>1
<1>4. ASSUME NEW n \in 0 .. Len(w) - 1
      PROVE  f[1 .. n + 1] = StepOf(d, limits, f[1 .. n], w, n + 1)
  <2> DEFINE T == 1 .. n + 1
  <2>1. /\ n \in Nat /\ T \in SUBSET (1 .. Len(w)) /\ n + 1 \in T /\ T # {}
        /\ T \ {n + 1} = 1 .. n
    <3>1. n \in Nat /\ \A i \in T : i \in 1 .. Len(w)
      OBVIOUS
    <3>2. n + 1 \in T
      OBVIOUS
    <3>3. T \ {n + 1} = 1 .. n
      OBVIOUS
    <3> HIDE DEF T
    <3>4. QED
      BY <3>1, <3>2, <3>3
  <2>2. Max(T) = n + 1
    BY <2>1, MaxOfPrefix
  <2> HIDE DEF T
  <2>3. QED
    BY <1>2, <2>1, <2>2 DEF T
<1>5. QED
  BY <1>3, <1>4 DEF StateAfter, f

\* The fold over the positions of a sequence, unfolded.
LEMMA PositionsFold ==
  ASSUME NEW S, NEW w \in Seq(S)
  PROVE  LET id == [i \in DOMAIN w |-> i]
         IN  /\ DOMAIN id = 1 .. Len(w)
             /\ \A T \in SUBSET (1 .. Len(w)) : T # {} => id[Max(T)] = Max(T)
<1> DEFINE id == [i \in DOMAIN w |-> i]
<1>1. DOMAIN id = 1 .. Len(w) /\ DOMAIN w = 1 .. Len(w) /\ Len(w) \in Nat
  OBVIOUS
<1>2. \A T \in SUBSET (1 .. Len(w)) : T # {} => id[Max(T)] = Max(T)
  <2> TAKE T \in SUBSET (1 .. Len(w))
  <2>1. T # {} => Max(T) \in T
    BY <1>1, MaxIs
  <2>2. QED
    BY <1>1, <2>1
<1>3. QED
  BY <1>1, <1>2

LimitAt(w, limits) == FoldLeftDomain(LAMBDA s, i : LimitStep(s, w, i, limits), 0, w)

LEMMA LimitIsRun ==
  ASSUME NEW S, NEW w \in Seq(S), NEW limits
  PROVE  LimitAt(w, limits) = StateAfter("limit", limits, w, Len(w))
<1> DEFINE id == [i \in DOMAIN w |-> i]
<1>1. /\ DOMAIN id = 1 .. Len(w)
      /\ \A T \in SUBSET (1 .. Len(w)) : T # {} => id[Max(T)] = Max(T)
  BY PositionsFold
<1>2. ASSUME NEW f
      PROVE  f = [T \in SUBSET DOMAIN id |->
                    IF T = {} THEN 0 ELSE LimitStep(f[T \ {Max(T)}], w, id[Max(T)], limits)]
               <=> Runs(f, "limit", limits, w, Len(w))
  <2> HIDE DEF id
  <2>1. QED
    BY <1>1 DEF Runs, StartOf, StepOf
<1>3. (CHOOSE f : f = [T \in SUBSET DOMAIN id |->
                    IF T = {} THEN 0 ELSE LimitStep(f[T \ {Max(T)}], w, id[Max(T)], limits)])
      = RunOf("limit", limits, w)
  <2> HIDE DEF id
  <2>1. QED
    BY <1>2 DEF RunOf
<1>4. QED
  BY <1>1, <1>3 DEF LimitAt, FoldLeftDomain, FoldLeft, MapThenFoldSet, StateAfter

\* No detector compares with a budget: the limits do not matter.
LEMMA ScanIsRun ==
  ASSUME NEW S, NEW w \in Seq(S), NEW l
  PROVE  /\ Scan(ExactStep, ExactStart, w) = StateAfter("exact", l, w, Len(w)).match
         /\ Scan(CycleStep, CycleStart, w) = StateAfter("cycle", l, w, Len(w)).match
         /\ Scan(ErrorStep, ErrorStart, w) = StateAfter("error", l, w, Len(w)).match
         /\ Scan(UnchangedStep, UnchangedStart, w) = StateAfter("unchanged", l, w, Len(w)).match
         /\ Scan(StallStep, StallStart, w) = StateAfter("stall", l, w, Len(w)).match
         /\ Scan(BurnStep, BurnStart, w) = StateAfter("burn", l, w, Len(w)).match
         /\ Scan(RiskStep, RiskStart, w) = StateAfter("risk", l, w, Len(w)).match
<1> DEFINE id == [i \in DOMAIN w |-> i]
<1>0. /\ DOMAIN id = 1 .. Len(w)
      /\ \A T \in SUBSET (1 .. Len(w)) : T # {} => id[Max(T)] = Max(T)
  BY PositionsFold
<1>1. Scan(ExactStep, ExactStart, w) = StateAfter("exact", l, w, Len(w)).match
  <2>1. ASSUME NEW f
        PROVE  f = [T \in SUBSET DOMAIN id |->
                      IF T = {} THEN ExactStart ELSE ExactStep(f[T \ {Max(T)}], w, id[Max(T)])]
                 <=> Runs(f, "exact", l, w, Len(w))
    <3> HIDE DEF id
    <3>1. QED
      BY <1>0 DEF Runs, StartOf, StepOf
  <2>2. (CHOOSE f : f = [T \in SUBSET DOMAIN id |->
                      IF T = {} THEN ExactStart ELSE ExactStep(f[T \ {Max(T)}], w, id[Max(T)])])
        = RunOf("exact", l, w)
    <3> HIDE DEF id
    <3>1. QED
      BY <2>1 DEF RunOf
  <2>3. QED
    BY <1>0, <2>2 DEF Scan, FoldLeftDomain, FoldLeft, MapThenFoldSet, StateAfter
<1>2. Scan(CycleStep, CycleStart, w) = StateAfter("cycle", l, w, Len(w)).match
  <2>1. ASSUME NEW f
        PROVE  f = [T \in SUBSET DOMAIN id |->
                      IF T = {} THEN CycleStart ELSE CycleStep(f[T \ {Max(T)}], w, id[Max(T)])]
                 <=> Runs(f, "cycle", l, w, Len(w))
    <3> HIDE DEF id
    <3>1. QED
      BY <1>0 DEF Runs, StartOf, StepOf
  <2>2. (CHOOSE f : f = [T \in SUBSET DOMAIN id |->
                      IF T = {} THEN CycleStart ELSE CycleStep(f[T \ {Max(T)}], w, id[Max(T)])])
        = RunOf("cycle", l, w)
    <3> HIDE DEF id
    <3>1. QED
      BY <2>1 DEF RunOf
  <2>3. QED
    BY <1>0, <2>2 DEF Scan, FoldLeftDomain, FoldLeft, MapThenFoldSet, StateAfter
<1>3. Scan(ErrorStep, ErrorStart, w) = StateAfter("error", l, w, Len(w)).match
  <2>1. ASSUME NEW f
        PROVE  f = [T \in SUBSET DOMAIN id |->
                      IF T = {} THEN ErrorStart ELSE ErrorStep(f[T \ {Max(T)}], w, id[Max(T)])]
                 <=> Runs(f, "error", l, w, Len(w))
    <3> HIDE DEF id
    <3>1. QED
      BY <1>0 DEF Runs, StartOf, StepOf
  <2>2. (CHOOSE f : f = [T \in SUBSET DOMAIN id |->
                      IF T = {} THEN ErrorStart ELSE ErrorStep(f[T \ {Max(T)}], w, id[Max(T)])])
        = RunOf("error", l, w)
    <3> HIDE DEF id
    <3>1. QED
      BY <2>1 DEF RunOf
  <2>3. QED
    BY <1>0, <2>2 DEF Scan, FoldLeftDomain, FoldLeft, MapThenFoldSet, StateAfter
<1>4. Scan(UnchangedStep, UnchangedStart, w) = StateAfter("unchanged", l, w, Len(w)).match
  <2>1. ASSUME NEW f
        PROVE  f = [T \in SUBSET DOMAIN id |->
                      IF T = {} THEN UnchangedStart ELSE UnchangedStep(f[T \ {Max(T)}], w, id[Max(T)])]
                 <=> Runs(f, "unchanged", l, w, Len(w))
    <3> HIDE DEF id
    <3>1. QED
      BY <1>0 DEF Runs, StartOf, StepOf
  <2>2. (CHOOSE f : f = [T \in SUBSET DOMAIN id |->
                      IF T = {} THEN UnchangedStart ELSE UnchangedStep(f[T \ {Max(T)}], w, id[Max(T)])])
        = RunOf("unchanged", l, w)
    <3> HIDE DEF id
    <3>1. QED
      BY <2>1 DEF RunOf
  <2>3. QED
    BY <1>0, <2>2 DEF Scan, FoldLeftDomain, FoldLeft, MapThenFoldSet, StateAfter
<1>5. Scan(StallStep, StallStart, w) = StateAfter("stall", l, w, Len(w)).match
  <2>1. ASSUME NEW f
        PROVE  f = [T \in SUBSET DOMAIN id |->
                      IF T = {} THEN StallStart ELSE StallStep(f[T \ {Max(T)}], w, id[Max(T)])]
                 <=> Runs(f, "stall", l, w, Len(w))
    <3> HIDE DEF id
    <3>1. QED
      BY <1>0 DEF Runs, StartOf, StepOf
  <2>2. (CHOOSE f : f = [T \in SUBSET DOMAIN id |->
                      IF T = {} THEN StallStart ELSE StallStep(f[T \ {Max(T)}], w, id[Max(T)])])
        = RunOf("stall", l, w)
    <3> HIDE DEF id
    <3>1. QED
      BY <2>1 DEF RunOf
  <2>3. QED
    BY <1>0, <2>2 DEF Scan, FoldLeftDomain, FoldLeft, MapThenFoldSet, StateAfter
<1>6. Scan(BurnStep, BurnStart, w) = StateAfter("burn", l, w, Len(w)).match
  <2>1. ASSUME NEW f
        PROVE  f = [T \in SUBSET DOMAIN id |->
                      IF T = {} THEN BurnStart ELSE BurnStep(f[T \ {Max(T)}], w, id[Max(T)])]
                 <=> Runs(f, "burn", l, w, Len(w))
    <3> HIDE DEF id
    <3>1. QED
      BY <1>0 DEF Runs, StartOf, StepOf
  <2>2. (CHOOSE f : f = [T \in SUBSET DOMAIN id |->
                      IF T = {} THEN BurnStart ELSE BurnStep(f[T \ {Max(T)}], w, id[Max(T)])])
        = RunOf("burn", l, w)
    <3> HIDE DEF id
    <3>1. QED
      BY <2>1 DEF RunOf
  <2>3. QED
    BY <1>0, <2>2 DEF Scan, FoldLeftDomain, FoldLeft, MapThenFoldSet, StateAfter
<1>7. Scan(RiskStep, RiskStart, w) = StateAfter("risk", l, w, Len(w)).match
  <2>1. ASSUME NEW f
        PROVE  f = [T \in SUBSET DOMAIN id |->
                      IF T = {} THEN RiskStart ELSE RiskStep(f[T \ {Max(T)}], w, id[Max(T)])]
                 <=> Runs(f, "risk", l, w, Len(w))
    <3> HIDE DEF id
    <3>1. QED
      BY <1>0 DEF Runs, StartOf, StepOf
  <2>2. (CHOOSE f : f = [T \in SUBSET DOMAIN id |->
                      IF T = {} THEN RiskStart ELSE RiskStep(f[T \ {Max(T)}], w, id[Max(T)])])
        = RunOf("risk", l, w)
    <3> HIDE DEF id
    <3>1. QED
      BY <2>1 DEF RunOf
  <2>3. QED
    BY <1>0, <2>2 DEF Scan, FoldLeftDomain, FoldLeft, MapThenFoldSet, StateAfter
<1>8. QED
  BY <1>1, <1>2, <1>3, <1>4, <1>5, <1>6, <1>7

-----------------------------------------------------------------------------
(* The hard stops.                                                         *)

\* One action was called at i and again at j, risky at either time.
RiskyPair(w, i, j) ==
  /\ i < j /\ IsIdentifiedCall(w[i]) /\ IsIdentifiedCall(w[j])
  /\ Identity(w[i]) = Identity(w[j])
  /\ IsRisky(w[i]) \/ IsRisky(w[j])

\* Nothing found yet: seen holds the first call of every identity.
SearchingRisk(s, w, n) ==
  /\ \A id \in DOMAIN s.seen :
       /\ s.seen[id] \in 1 .. n
       /\ IsIdentifiedCall(w[s.seen[id]]) /\ Identity(w[s.seen[id]]) = id
  /\ \A k \in 1 .. n : IsIdentifiedCall(w[k]) =>
       Identity(w[k]) \in DOMAIN s.seen /\ s.seen[Identity(w[k])] <= k
  /\ \A i, j \in 1 .. n : ~RiskyPair(w, i, j)

FoundRisk(match, w, n) == \E i, j \in 1 .. n : RiskyPair(w, i, j) /\ match = {i, j}

RiskScan(s, w, n) ==
  /\ DOMAIN s = {"seen", "match"}
  /\ s.match = {} => SearchingRisk(s, w, n)
  /\ s.match # {} => FoundRisk(s.match, w, n)

LimitScan(s, w, n, limits) ==
  IF s = 0
  THEN \A k \in 1 .. n : ~ReachesLimit(w[k], limits)
  ELSE s \in 1 .. n /\ ReachesLimit(w[s], limits)

\* One iteration of the risk loop.  A new call is compared with the first one
\* of its identity only, which decides for all the others.
LEMMA RiskStepScans ==
  ASSUME NEW s, NEW w, NEW n \in Nat, RiskScan(s, w, n)
  PROVE  RiskScan(RiskStep(s, w, n + 1), w, n + 1)
<1> DEFINE p == n + 1
           e == w[p]
           id == Identity(e)
           t == RiskStep(s, w, p)
<1> SUFFICES RiskScan(t, w, p)
  OBVIOUS
<1>1. DOMAIN s = {"seen", "match"}
  BY DEF RiskScan
<1>2. \A k \in 1 .. p : k = p \/ k \in 1 .. n
  OBVIOUS
<1>3. CASE s.match # {}
  <2>1. t = s
    BY <1>3 DEF RiskStep
  <2>2. PICK i, j \in 1 .. n : RiskyPair(w, i, j) /\ s.match = {i, j}
    BY <1>3 DEF RiskScan, FoundRisk
  <2>3. i \in 1 .. p /\ j \in 1 .. p
    OBVIOUS
  <2>4. QED
    BY <1>1, <1>3, <2>1, <2>2, <2>3 DEF RiskScan, FoundRisk
<1>4. CASE s.match = {} /\ ~IsIdentifiedCall(e)
  <2>1. t = s
    BY <1>4 DEF RiskStep
  <2>2. SearchingRisk(s, w, n)
    BY <1>4 DEF RiskScan
  <2>3. \A i, j \in 1 .. p : ~RiskyPair(w, i, j)
    BY <1>2, <1>4, <2>2 DEF SearchingRisk, RiskyPair
  <2>4. \A x \in DOMAIN s.seen : s.seen[x] \in 1 .. p
    BY <2>2 DEF SearchingRisk
  <2>5. SearchingRisk(s, w, p)
    BY <1>2, <1>4, <2>2, <2>3, <2>4 DEF SearchingRisk
  <2>6. QED
    BY <1>1, <1>4, <2>1, <2>5 DEF RiskScan
<1>5. CASE s.match = {} /\ IsIdentifiedCall(e)
  <2>1. SearchingRisk(s, w, n)
    BY <1>5 DEF RiskScan
  <2> DEFINE first == s.seen[id]
  <2>2. CASE id \in DOMAIN s.seen /\ RisksRepeat(w[first], e)
    <3>1. t = [seen |-> s.seen, match |-> {first, p}]
      BY <1>5, <2>2 DEF RiskStep
    <3>2. first \in 1 .. p /\ p \in 1 .. p
      BY <2>1, <2>2 DEF SearchingRisk
    <3>3. RiskyPair(w, first, p)
      <4>1. first \in 1 .. n /\ IsIdentifiedCall(w[first]) /\ Identity(w[first]) = id
        BY <2>1, <2>2 DEF SearchingRisk
      <4>2. first < p
        BY <4>1
      <4>3. QED
        BY <1>5, <2>2, <4>1, <4>2 DEF RiskyPair, RisksRepeat
    <3>4. DOMAIN t = {"seen", "match"} /\ t.match = {first, p}
      BY <3>1
    <3> HIDE DEF t, first, p
    <3>5. QED
      BY <3>2, <3>3, <3>4 DEF RiskScan, FoundRisk
  <2>3. CASE id \in DOMAIN s.seen => ~RisksRepeat(w[first], e)
    <3>1. t = [seen |-> Remember(s.seen, e, p), match |-> {}]
      BY <1>5, <2>3 DEF RiskStep
    <3>2. DOMAIN t = {"seen", "match"} /\ t.match = {} /\ t.seen = Remember(s.seen, e, p)
      BY <3>1
    <3>3. /\ DOMAIN t.seen = DOMAIN s.seen \cup {id}
          /\ \A x \in DOMAIN s.seen : t.seen[x] = s.seen[x]
          /\ id \notin DOMAIN s.seen => t.seen[id] = p
      BY <3>2 DEF Remember
    <3> HIDE DEF t
    <3>4. \A x \in DOMAIN t.seen :
            /\ t.seen[x] \in 1 .. p
            /\ IsIdentifiedCall(w[t.seen[x]]) /\ Identity(w[t.seen[x]]) = x
      <4>1. \A x \in DOMAIN s.seen :
              /\ s.seen[x] \in 1 .. p
              /\ IsIdentifiedCall(w[s.seen[x]]) /\ Identity(w[s.seen[x]]) = x
        BY <2>1 DEF SearchingRisk
      <4>2. p \in 1 .. p
        OBVIOUS
      <4>3. QED
        BY <1>5, <3>3, <4>1, <4>2
    <3>5. \A k \in 1 .. p : IsIdentifiedCall(w[k]) =>
            Identity(w[k]) \in DOMAIN t.seen /\ t.seen[Identity(w[k])] <= k
      <4>1. \A k \in 1 .. n : IsIdentifiedCall(w[k]) =>
              Identity(w[k]) \in DOMAIN t.seen /\ t.seen[Identity(w[k])] <= k
        BY <2>1, <3>3 DEF SearchingRisk
      <4>2. id \in DOMAIN t.seen /\ t.seen[id] <= p
        <5>1. id \in DOMAIN s.seen => s.seen[id] \in 1 .. n
          BY <2>1 DEF SearchingRisk
        <5>2. QED
          BY <3>3, <5>1
      <4>3. QED
        BY <1>2, <4>1, <4>2
    <3>6. \A i, j \in 1 .. p : ~RiskyPair(w, i, j)
      <4> SUFFICES ASSUME NEW i \in 1 .. p, NEW j \in 1 .. p, RiskyPair(w, i, j)
                   PROVE  FALSE
        OBVIOUS
      <4>1. i \in 1 .. n /\ IsIdentifiedCall(w[i]) /\ i < j
        BY DEF RiskyPair
      <4>2. j = p
        BY <1>2, <2>1, <4>1 DEF SearchingRisk
      <4>3. Identity(w[i]) = id /\ (IsRisky(w[i]) \/ IsRisky(e))
        BY <4>2 DEF RiskyPair
      <4>4. id \in DOMAIN s.seen /\ first <= i /\ first \in 1 .. n
        BY <2>1, <4>1, <4>3 DEF SearchingRisk
      <4>5. ~IsRisky(w[first]) /\ ~IsRisky(e)
        BY <2>3, <4>4 DEF RisksRepeat
      <4>6. first < i
        BY <4>1, <4>3, <4>4, <4>5
      <4>7. RiskyPair(w, first, i)
        BY <2>1, <4>1, <4>3, <4>4, <4>5, <4>6 DEF RiskyPair, SearchingRisk
      <4>8. QED
        BY <2>1, <4>1, <4>4, <4>7 DEF SearchingRisk
    <3>7. SearchingRisk(t, w, p)
      BY <3>4, <3>5, <3>6 DEF SearchingRisk
    <3>8. QED
      BY <3>2, <3>7 DEF RiskScan
  <2>4. QED
    BY <2>2, <2>3
<1>6. QED
  BY <1>3, <1>4, <1>5

LEMMA LimitStepScans ==
  ASSUME NEW s, NEW w, NEW n \in Nat, NEW limits, LimitScan(s, w, n, limits)
  PROVE  LimitScan(LimitStep(s, w, n + 1, limits), w, n + 1, limits)
<1>1. \A k \in 1 .. n + 1 : k = n + 1 \/ k \in 1 .. n
  OBVIOUS
<1>2. n + 1 # 0 /\ n + 1 \in 1 .. n + 1 /\ \A k \in 1 .. n : k \in 1 .. n + 1
  OBVIOUS
<1>3. CASE s = 0 /\ ReachesLimit(w[n + 1], limits)
  BY <1>2, <1>3 DEF LimitScan, LimitStep
<1>4. CASE s = 0 /\ ~ReachesLimit(w[n + 1], limits)
  BY <1>1, <1>4 DEF LimitScan, LimitStep
<1>5. CASE s # 0
  BY <1>2, <1>5 DEF LimitScan, LimitStep
<1>6. QED
  BY <1>3, <1>4, <1>5

\* What the two passes return over any trace.
LEMMA HardScans ==
  ASSUME NEW S, NEW w \in Seq(S), NEW limits
  PROVE  /\ LimitScan(LimitAt(w, limits), w, Len(w), limits)
         /\ LET match == Scan(RiskStep, RiskStart, w)
            IN  IF match = {} THEN \A i, j \in 1 .. Len(w) : ~RiskyPair(w, i, j)
                              ELSE FoundRisk(match, w, Len(w))
<1> DEFINE limitAt(n) == StateAfter("limit", limits, w, n)
           risk(n) == StateAfter("risk", limits, w, n)
           P == {n \in Nat : n <= Len(w) =>
                               LimitScan(limitAt(n), w, n, limits) /\ RiskScan(risk(n), w, n)}
<1>1. Len(w) \in Nat
  OBVIOUS
<1>2. 0 \in P
  <2>1. limitAt(0) = 0 /\ risk(0) = RiskStart
    BY <1>1, RunSteps DEF StartOf
  <2>2. LimitScan(0, w, 0, limits)
    BY DEF LimitScan
  <2>3. RiskScan(RiskStart, w, 0)
    BY DEF RiskScan, RiskStart, SearchingRisk
  <2>4. QED
    BY <2>1, <2>2, <2>3
<1>3. ASSUME NEW n \in Nat, n \in P
      PROVE  n + 1 \in P
  <2> SUFFICES ASSUME n + 1 <= Len(w)
               PROVE  /\ LimitScan(limitAt(n + 1), w, n + 1, limits)
                      /\ RiskScan(risk(n + 1), w, n + 1)
    OBVIOUS
  <2>1. n \in 0 .. Len(w) - 1 /\ n <= Len(w)
    BY <1>1
  <2>2. /\ limitAt(n + 1) = LimitStep(limitAt(n), w, n + 1, limits)
        /\ risk(n + 1) = RiskStep(risk(n), w, n + 1)
    <3>1. limitAt(n + 1) = StepOf("limit", limits, limitAt(n), w, n + 1)
      BY <1>1, <2>1, RunSteps
    <3>2. risk(n + 1) = StepOf("risk", limits, risk(n), w, n + 1)
      BY <1>1, <2>1, RunSteps
    <3> HIDE DEF limitAt, risk
    <3>3. QED
      BY <3>1, <3>2, StepsAre
  <2>3. LimitScan(limitAt(n), w, n, limits) /\ RiskScan(risk(n), w, n)
    BY <1>3, <2>1
  <2> HIDE DEF limitAt, risk
  <2>4. QED
    BY <2>2, <2>3, LimitStepScans, RiskStepScans
<1>4. Len(w) \in P
  <2> HIDE DEF P
  <2>1. QED
    BY <1>1, <1>2, <1>3, SetInduction
<1>5. /\ LimitScan(limitAt(Len(w)), w, Len(w), limits)
      /\ RiskScan(risk(Len(w)), w, Len(w))
  BY <1>1, <1>4
<1>6. /\ LimitAt(w, limits) = limitAt(Len(w))
      /\ Scan(RiskStep, RiskStart, w) = risk(Len(w)).match
  BY LimitIsRun, ScanIsRun
<1> HIDE DEF limitAt, risk
<1>7. QED
  BY <1>5, <1>6 DEF RiskScan, SearchingRisk

\* A pass over a longer trace returns what it returned before: a hard stop
\* does not move.
LEMMA HardScansStay ==
  ASSUME NEW S, NEW v \in Seq(S), NEW w \in Seq(S), NEW limits, Len(w) <= Len(v),
         \A p \in 1 .. Len(w) : v[p] = w[p]
  PROVE  /\ LimitAt(w, limits) # 0 => LimitAt(v, limits) = LimitAt(w, limits)
         /\ Scan(RiskStep, RiskStart, w) # {} =>
              Scan(RiskStep, RiskStart, v) = Scan(RiskStep, RiskStart, w)
<1> DEFINE n == Len(w)
           m == Len(v)
           limitAt(x, k) == StateAfter("limit", limits, x, k)
           risk(x, k) == StateAfter("risk", limits, x, k)
           P == {k \in Nat : k <= n => /\ limitAt(v, k) = limitAt(w, k)
                                       /\ risk(v, k) = risk(w, k)
                                       /\ RiskScan(risk(w, k), w, k)}
           Q == {k \in Nat : n + k <= m =>
                   /\ limitAt(w, n) # 0 => limitAt(v, n + k) = limitAt(w, n)
                   /\ risk(w, n).match # {} => risk(v, n + k) = risk(w, n)}
<1>1. n \in Nat /\ m \in Nat /\ n <= m
  OBVIOUS
<1>2. /\ limitAt(w, 0) = 0 /\ limitAt(v, 0) = 0
      /\ risk(w, 0) = RiskStart /\ risk(v, 0) = RiskStart
  BY <1>1, RunSteps DEF StartOf
<1>3. \A k \in 0 .. n - 1 : /\ limitAt(w, k + 1) = LimitStep(limitAt(w, k), w, k + 1, limits)
                            /\ risk(w, k + 1) = RiskStep(risk(w, k), w, k + 1)
  <2> TAKE k \in 0 .. n - 1
  <2>1. limitAt(w, k + 1) = StepOf("limit", limits, limitAt(w, k), w, k + 1)
    BY <1>1, RunSteps
  <2>2. risk(w, k + 1) = StepOf("risk", limits, risk(w, k), w, k + 1)
    BY <1>1, RunSteps
  <2> HIDE DEF limitAt, risk
  <2>3. QED
    BY <2>1, <2>2, StepsAre
<1>4. \A k \in 0 .. m - 1 : /\ limitAt(v, k + 1) = LimitStep(limitAt(v, k), v, k + 1, limits)
                            /\ risk(v, k + 1) = RiskStep(risk(v, k), v, k + 1)
  <2> TAKE k \in 0 .. m - 1
  <2>1. limitAt(v, k + 1) = StepOf("limit", limits, limitAt(v, k), v, k + 1)
    BY <1>1, RunSteps
  <2>2. risk(v, k + 1) = StepOf("risk", limits, risk(v, k), v, k + 1)
    BY <1>1, RunSteps
  <2> HIDE DEF limitAt, risk
  <2>3. QED
    BY <2>1, <2>2, StepsAre
<1> HIDE DEF limitAt, risk
<1>5. 0 \in P
  <2>1. RiskScan(RiskStart, w, 0)
    BY DEF RiskScan, RiskStart, SearchingRisk
  <2>2. QED
    BY <1>2, <2>1
<1>6. ASSUME NEW k \in Nat, k \in P
      PROVE  k + 1 \in P
  <2> SUFFICES ASSUME k + 1 <= n
               PROVE  /\ limitAt(v, k + 1) = limitAt(w, k + 1)
                      /\ risk(v, k + 1) = risk(w, k + 1)
                      /\ RiskScan(risk(w, k + 1), w, k + 1)
    OBVIOUS
  <2>1. /\ k \in 0 .. n - 1 /\ k \in 0 .. m - 1 /\ k <= n
        /\ v[k + 1] = w[k + 1]
    BY <1>1
  <2>2. /\ limitAt(v, k) = limitAt(w, k) /\ risk(v, k) = risk(w, k)
        /\ RiskScan(risk(w, k), w, k)
    BY <1>6, <2>1
  <2>3. limitAt(v, k + 1) = limitAt(w, k + 1)
    BY <1>3, <1>4, <2>1, <2>2 DEF LimitStep
  <2> DEFINE s == risk(w, k)
             id == Identity(w[k + 1])
  <2>4. RiskStep(s, v, k + 1) = RiskStep(s, w, k + 1)
    <3>1. CASE s.match # {}
      BY <3>1 DEF RiskStep
    <3>2. CASE s.match = {}
      <4>1. id \in DOMAIN s.seen => v[s.seen[id]] = w[s.seen[id]]
        <5>1. id \in DOMAIN s.seen => s.seen[id] \in 1 .. k
          BY <2>2, <3>2 DEF RiskScan, SearchingRisk
        <5>2. \A q \in 1 .. k : v[q] = w[q]
          BY <2>1
        <5>3. QED
          BY <5>1, <5>2
      <4> HIDE DEF s
      <4>2. QED
        BY <2>1, <4>1 DEF RiskStep
    <3>3. QED
      BY <3>1, <3>2
  <2>5. risk(v, k + 1) = risk(w, k + 1)
    BY <1>3, <1>4, <2>1, <2>2, <2>4
  <2>6. RiskScan(risk(w, k + 1), w, k + 1)
    BY <1>3, <2>1, <2>2, RiskStepScans
  <2>7. QED
    BY <2>3, <2>5, <2>6
<1>7. n \in P
  <2> HIDE DEF P
  <2>1. QED
    BY <1>1, <1>5, <1>6, SetInduction
<1>8. 0 \in Q
  <2>1. n + 0 = n
    BY <1>1
  <2>2. limitAt(v, n) = limitAt(w, n) /\ risk(v, n) = risk(w, n)
    BY <1>1, <1>7
  <2> HIDE DEF n, m
  <2>3. QED
    BY <2>1, <2>2
<1>9. ASSUME NEW k \in Nat, k \in Q
      PROVE  k + 1 \in Q
  <2> SUFFICES ASSUME n + (k + 1) <= m
               PROVE  /\ limitAt(w, n) # 0 => limitAt(v, n + (k + 1)) = limitAt(w, n)
                      /\ risk(w, n).match # {} => risk(v, n + (k + 1)) = risk(w, n)
    OBVIOUS
  <2>1. n + k \in 0 .. m - 1 /\ n + k <= m /\ n + (k + 1) = (n + k) + 1
    BY <1>1
  <2>2. /\ limitAt(v, (n + k) + 1) = LimitStep(limitAt(v, n + k), v, (n + k) + 1, limits)
        /\ risk(v, (n + k) + 1) = RiskStep(risk(v, n + k), v, (n + k) + 1)
    BY <1>4, <2>1
  <2>3. limitAt(w, n) # 0 => limitAt(v, n + (k + 1)) = limitAt(w, n)
    BY <1>9, <2>1, <2>2 DEF LimitStep
  <2>4. risk(w, n).match # {} => risk(v, n + (k + 1)) = risk(w, n)
    BY <1>9, <2>1, <2>2 DEF RiskStep
  <2>5. QED
    BY <2>3, <2>4
<1>10. /\ limitAt(w, n) # 0 => limitAt(v, m) = limitAt(w, n)
       /\ risk(w, n).match # {} => risk(v, m) = risk(w, n)
  <2>1. m - n \in Nat /\ n + (m - n) = m
    BY <1>1
  <2>2. m - n \in Q
    <3> HIDE DEF Q
    <3>1. QED
      BY <1>8, <1>9, <2>1, SetInduction
  <2> HIDE DEF n, m
  <2>3. QED
    BY <1>1, <2>1, <2>2
<1>11. /\ LimitAt(w, limits) = limitAt(w, n) /\ LimitAt(v, limits) = limitAt(v, m)
       /\ Scan(RiskStep, RiskStart, w) = risk(w, n).match
       /\ Scan(RiskStep, RiskStart, v) = risk(v, m).match
  BY LimitIsRun, ScanIsRun DEF limitAt, risk
<1>12. QED
  BY <1>10, <1>11

-----------------------------------------------------------------------------
(* The findings of an analysis and what they decide.                       *)

Findings(t, p, r) == DeterministicFindings(t, p) \cup SemanticFinding(p, r)

HardFindingsOf(t, p) == HardBudgetFinding(t, p) \cup HardRiskFinding(t)

\* An answer without an error is an envelope within the limits.
LEMMA DecidedAnswer ==
  ASSUME NEW t, NEW p, NEW r, Answer(t, p, r).error = None
  PROVE  /\ SemanticError(p, r) = None /\ ~DuplicatesId(p, r)
         /\ Answer(t, p, r) = Envelope(t, Findings(t, p, r), p,
                                       IF p.semantic = "disabled" THEN None ELSE Notice(r))
         /\ WithinLimits(Diagnose(t, Findings(t, p, r)), MaxEvidence, MaxRejected)
         /\ Cardinality(CollectedEvidence(Diagnose(t, Findings(t, p, r)), Findings(t, p, r)))
              <= MaxEvidence
<1>1. \A code : Failure(code).error = code
  BY DEF Failure
<1>2. SemanticError(p, r) = None
  <2>1. SemanticError(p, r) # None => Answer(t, p, r).error = SemanticError(p, r)
    BY <1>1 DEF Answer
  <2>2. QED
    BY <2>1
<1>3. ~DuplicatesId(p, r)
  <2>1. DuplicatesId(p, r) => Answer(t, p, r).error = "duplicate_finding_id"
    BY <1>1, <1>2 DEF Answer
  <2>2. QED
    BY <2>1, NoneIsNoCode
<1>4. Answer(t, p, r) = Assemble(t, Findings(t, p, r), p,
                                 IF p.semantic = "disabled" THEN None ELSE Notice(r))
  BY <1>2, <1>3 DEF Answer, Findings
<1>5. /\ WithinLimits(Diagnose(t, Findings(t, p, r)), MaxEvidence, MaxRejected)
      /\ Cardinality(CollectedEvidence(Diagnose(t, Findings(t, p, r)), Findings(t, p, r)))
           <= MaxEvidence
  <2>1. Failure("invalid_controller_assembly").error # None
    BY <1>1, NoneIsNoCode
  <2>2. QED
    BY <1>4, <2>1 DEF Assemble
<1>6. QED
  BY <1>2, <1>3, <1>4, <1>5 DEF Assemble

\* The fields of an envelope that properties speak of.
LEMMA EnvelopeIs ==
  ASSUME NEW t, NEW F, NEW p, NEW notice
  PROVE  LET e == Envelope(t, F, p, notice)
             d == Diagnose(t, F)
         IN  /\ e.decision = SelectDecision(d, F, p)
             /\ e.evidence = CollectedEvidence(d, F)
             /\ e.reasons = ReasonCodes(e.decision, F, p)
             /\ e.recovery = SelectRecovery(e.decision, d.causes)
             /\ e.host_action = RequiresHostAction(e.decision, p)
             /\ e.confidence.score = Confidence(e.decision, F, p)
             /\ e.confidence.contributing = {f.id : f \in F}
             /\ e.confidence.weighted = Weighted(F, p)
             /\ e.error = None /\ e.gaps = d.causes /\ e.rejected = d.rejected
             /\ e.notice = notice /\ e.allowed = p.repeatable
BY DEF Envelope, Select

\* The notice is a field of its own.
LEMMA EnvelopeNotice ==
  ASSUME NEW t, NEW F, NEW p, NEW x
  PROVE  [Envelope(t, F, p, x) EXCEPT !.notice = None] = Envelope(t, F, p, None)
<1> DEFINE d == Diagnose(t, F)
           s == Select(d, F, p)
           c == [score |-> Confidence(s.decision, F, p), contributing |-> {f.id : f \in F},
                 weighted |-> Weighted(F, p)]
           E(n) == [error |-> None, decision |-> s.decision, recovery |-> s.recovery,
                    reasons |-> s.reasons, evidence |-> s.evidence, gaps |-> d.causes,
                    rejected |-> d.rejected, notice |-> n, host_action |-> s.host_action,
                    allowed |-> p.repeatable, confidence |-> c]
<1>1. \A n : Envelope(t, F, p, n) = E(n)
  BY DEF Envelope
<1> HIDE DEF d, s, c
<1>2. [E(x) EXCEPT !.notice = None] = E(None)
  OBVIOUS
<1>3. QED
  BY <1>1, <1>2

\* A finding of a hard stop decides.
LEMMA HardFindingStops ==
  ASSUME NEW t, NEW F, NEW p, NEW notice, NEW f \in F, f.class \in {"risk", "budget"}
  PROVE  LET e == Envelope(t, F, p, notice)
         IN  e.decision = "stop" /\ e.confidence.score = 2 /\ f.events \subseteq e.evidence
<1>1. SelectDecision(Diagnose(t, F), F, p) = "stop"
  BY DEF SelectDecision, MustStop, IsRiskObserved, IsBudgetObserved
<1>2. Confidence("stop", F, p) = 2
  BY DEF Confidence, Observed
<1>3. f.events \subseteq CollectedEvidence(Diagnose(t, F), F)
  BY DEF CollectedEvidence
<1>4. QED
  BY <1>1, <1>2, <1>3, EnvelopeIs

LEMMA HardFindingsAre ==
  ASSUME NEW t, NEW p
  PROVE  /\ HardBudgetFinding(t, p) =
              IF LimitAt(t, p.whole_run) = 0 THEN {}
              ELSE {Finding("hard_budget", "budget", "budget_limit_reached",
                            {LimitAt(t, p.whole_run)})}
         /\ HardRiskFinding(t) =
              IF Scan(RiskStep, RiskStart, t) = {} THEN {}
              ELSE {Finding("repeated_risky_call", "risk", "risk_detected",
                            Scan(RiskStep, RiskStart, t))}
<1>1. HardBudgetFinding(t, p) =
        {Finding("hard_budget", "budget", "budget_limit_reached", {LimitAt(t, p.whole_run)}) :
           i \in {n \in {LimitAt(t, p.whole_run)} : n # 0}}
  BY DEF HardBudgetFinding, LimitAt
<1>2. HardRiskFinding(t) =
        {Finding("repeated_risky_call", "risk", "risk_detected", Scan(RiskStep, RiskStart, t)) :
           m \in {n \in {Scan(RiskStep, RiskStart, t)} : n # {}}}
  BY DEF HardRiskFinding
<1> DEFINE L == LimitAt(t, p.whole_run)
           M == Scan(RiskStep, RiskStart, t)
<1> HIDE DEF L, M
<1>3. \A x : {x : i \in {n \in {L} : n # 0}} = IF L = 0 THEN {} ELSE {x}
  OBVIOUS
<1>4. \A x : {x : m \in {n \in {M} : n # {}}} = IF M = {} THEN {} ELSE {x}
  OBVIOUS
<1>5. QED
  BY <1>1, <1>2, <1>3, <1>4 DEF L, M

\* A trace that holds a hard stop has a finding of one, and a finding of one
\* is about a hard stop the trace holds.
LEMMA HardStopsAreFound ==
  ASSUME NEW S, NEW t \in Seq(S)
  PROVE  /\ \A f \in HardFindingsOf(t, policy) :
              f.class \in {"risk", "budget"} /\ f.events \in HardStopsOf(t)
         /\ HardStopsOf(t) # {} => HardFindingsOf(t, policy) # {}
<1> DEFINE limits == policy.whole_run
           L == LimitAt(t, limits)
           M == Scan(RiskStep, RiskStart, t)
           Pairs == {x \in (1 .. Len(t)) \X (1 .. Len(t)) :
                       /\ x[1] < x[2]
                       /\ t[x[1]].kind = "tool_call" /\ t[x[2]].kind = "tool_call"
                       /\ Identity(t[x[1]]) # None /\ Identity(t[x[1]]) = Identity(t[x[2]])
                       /\ IsRisky(t[x[1]]) \/ IsRisky(t[x[2]])}
           Limits == {x \in 1 .. Len(t) : ReachesLimit(t[x], limits)}
<1>1. HardStopsOf(t) = {{c[1], c[2]} : c \in Pairs} \cup {{k} : k \in Limits}
  BY DEF HardStopsOf
<1>2. \A i, j \in 1 .. Len(t) : <<i, j>> \in Pairs <=> RiskyPair(t, i, j)
  BY DEF RiskyPair, IsIdentifiedCall
<1>3. \A x \in Pairs : RiskyPair(t, x[1], x[2]) /\ x[1] \in 1 .. Len(t) /\ x[2] \in 1 .. Len(t)
  BY DEF RiskyPair, IsIdentifiedCall
<1>4. /\ LimitScan(L, t, Len(t), limits)
      /\ IF M = {} THEN \A i, j \in 1 .. Len(t) : ~RiskyPair(t, i, j)
                   ELSE FoundRisk(M, t, Len(t))
  BY HardScans
<1> HIDE DEF L, M, Pairs
<1>5. L # 0 => {L} \in HardStopsOf(t)
  BY <1>1, <1>4 DEF LimitScan
<1>6. M # {} => M \in HardStopsOf(t)
  <2> SUFFICES ASSUME M # {}
               PROVE  M \in HardStopsOf(t)
    OBVIOUS
  <2>1. PICK i, j \in 1 .. Len(t) : RiskyPair(t, i, j) /\ M = {i, j}
    BY <1>4 DEF FoundRisk
  <2>2. <<i, j>> \in Pairs
    BY <1>2, <2>1
  <2>3. {<<i, j>>[1], <<i, j>>[2]} \in {{c[1], c[2]} : c \in Pairs}
    BY <2>2
  <2>4. QED
    BY <1>1, <2>1, <2>3
<1>7. HardStopsOf(t) # {} => L # 0 \/ M # {}
  <2> SUFFICES ASSUME HardStopsOf(t) # {}, L = 0, M = {}
               PROVE  FALSE
    OBVIOUS
  <2>1. Pairs = {}
    BY <1>3, <1>4
  <2>2. Limits = {}
    BY <1>4 DEF LimitScan
  <2>3. QED
    BY <1>1, <2>1, <2>2
<1>8. /\ HardBudgetFinding(t, policy) =
           IF L = 0 THEN {}
           ELSE {Finding("hard_budget", "budget", "budget_limit_reached", {L})}
      /\ HardRiskFinding(t) =
           IF M = {} THEN {} ELSE {Finding("repeated_risky_call", "risk", "risk_detected", M)}
  BY HardFindingsAre DEF L, M
<1>9. \A d, c, reason, x : Finding(d, c, reason, x).class = c /\ Finding(d, c, reason, x).events = x
  BY DEF Finding
<1>10. \A f \in HardFindingsOf(t, policy) :
         f.class \in {"risk", "budget"} /\ f.events \in HardStopsOf(t)
  BY <1>5, <1>6, <1>8, <1>9 DEF HardFindingsOf
<1>11. HardStopsOf(t) # {} => HardFindingsOf(t, policy) # {}
  BY <1>7, <1>8 DEF HardFindingsOf
<1>12. QED
  BY <1>10, <1>11

-----------------------------------------------------------------------------
(* The controller's states: its answer is the answer to a prefix of the    *)
(* trace, the whole of its copy once it is done.                           *)

Recordings(s) == {[e EXCEPT !.id = n] : e \in s.events, n \in Nat}

Recorded(t, s) == t \in Seq(Recordings(s)) /\ \A k \in 1 .. Len(t) : t[k].id = k

\* a answers the first n events of t.
Answers(a, n, t, s) ==
  n \in 1 .. Len(t) /\ \E r \in s.results : a = Answer(SubSeq(t, 1, n), s.policy, r)

\* The copy of a trace is how the trace begins.
Begins(u, t) == Len(u) \in 0 .. Len(t) /\ u = SubSeq(t, 1, Len(u))

IInv ==
  /\ scenario \in Scenarios
  /\ pc \in {"host", "semantic"}
  /\ Recorded(trace, scenario) /\ Len(trace) <= MaxTrace
  /\ Begins(snapshot, trace)
  /\ pc = "semantic" => Len(snapshot) \in 1 .. MaxItems
  /\ Decided => \E n \in Nat : /\ Answers(answer, n, snapshot, scenario)
                               /\ pc = "host" => n = Len(snapshot)

\* A prefix of a recorded trace is one.
LEMMA PrefixIsRecorded ==
  ASSUME NEW s, NEW t, Recorded(t, s), NEW n \in 0 .. Len(t)
  PROVE  /\ Recorded(SubSeq(t, 1, n), s) /\ Len(SubSeq(t, 1, n)) = n
         /\ \A k \in 1 .. n : SubSeq(t, 1, n)[k] = t[k]
         /\ \A k \in 0 .. n : SubSeq(SubSeq(t, 1, n), 1, k) = SubSeq(t, 1, k)
<1> DEFINE S == Recordings(s)
<1>1. t \in Seq(S) /\ Len(t) \in Nat /\ \A k \in 1 .. Len(t) : t[k] \in S /\ t[k].id = k
  BY DEF Recorded
<1> HIDE DEF S
<1>2. \A m \in 0 .. Len(t) :
        /\ SubSeq(t, 1, m) \in Seq(S) /\ Len(SubSeq(t, 1, m)) = m
        /\ \A k \in 1 .. m : SubSeq(t, 1, m)[k] = t[k]
  BY <1>1
<1>3. ASSUME NEW k \in 0 .. n
      PROVE  SubSeq(SubSeq(t, 1, n), 1, k) = SubSeq(t, 1, k)
  <2> DEFINE u == SubSeq(t, 1, n)
             v == SubSeq(u, 1, k)
             x == SubSeq(t, 1, k)
  <2>1. u \in Seq(S) /\ Len(u) = n /\ \A m \in 1 .. n : u[m] = t[m]
    BY <1>2
  <2>2. x \in Seq(S) /\ Len(x) = k /\ \A m \in 1 .. k : x[m] = t[m]
    BY <1>2
  <2> HIDE DEF u, x
  <2>3. v \in Seq(S) /\ Len(v) = k /\ \A m \in 1 .. k : v[m] = u[m]
    BY <2>1
  <2> HIDE DEF v
  <2>4. \A m \in 1 .. k : v[m] = x[m]
    BY <2>1, <2>2, <2>3
  <2>5. v = x
    BY <2>2, <2>3, <2>4
  <2>6. QED
    BY <2>5 DEF u, v, x
<1>4. Recorded(SubSeq(t, 1, n), s)
  BY <1>1, <1>2 DEF Recorded, S
<1>5. QED
  BY <1>2, <1>3, <1>4

LEMMA RecordedIsPrefix ==
  ASSUME NEW s, NEW t, Recorded(t, s)
  PROVE  Begins(t, t) /\ Len(t) \in Nat /\ SubSeq(t, 1, Len(t)) = t
<1>1. t \in Seq(Recordings(s)) /\ Len(t) \in Nat
  BY DEF Recorded
<1>2. SubSeq(t, 1, Len(t)) = t
  BY <1>1
<1>3. QED
  BY <1>1, <1>2 DEF Begins

LEMMA PrefixOfPrefix ==
  ASSUME NEW s, NEW v, Recorded(v, s), NEW t, Begins(t, v), NEW u, Begins(u, t)
  PROVE  Begins(u, v)
<1>1. Len(v) \in Nat
  BY RecordedIsPrefix
<1> DEFINE n == Len(t)
           m == Len(u)
<1>2. n \in 0 .. Len(v) /\ m \in 0 .. n
  BY DEF Begins
<1>3. t = SubSeq(v, 1, n) /\ u = SubSeq(t, 1, m)
  BY DEF Begins
<1> HIDE DEF n, m
<1>4. SubSeq(SubSeq(v, 1, n), 1, m) = SubSeq(v, 1, m)
  BY <1>2, PrefixIsRecorded
<1>5. m \in 0 .. Len(v) /\ u = SubSeq(v, 1, m)
  BY <1>1, <1>2, <1>3, <1>4
<1>6. QED
  BY <1>5 DEF Begins, m

LEMMA PrefixIs ==
  ASSUME NEW s, NEW t, Recorded(t, s), NEW u, Begins(u, t)
  PROVE  /\ Recorded(u, s) /\ Len(u) \in 0 .. Len(t)
         /\ \A k \in 0 .. Len(u) : SubSeq(u, 1, k) = SubSeq(t, 1, k)
<1> DEFINE n == Len(u)
<1>1. n \in 0 .. Len(t) /\ u = SubSeq(t, 1, n)
  BY DEF Begins
<1> HIDE DEF n
<1>2. Recorded(SubSeq(t, 1, n), s) /\ \A k \in 0 .. n : SubSeq(SubSeq(t, 1, n), 1, k) = SubSeq(t, 1, k)
  BY <1>1, PrefixIsRecorded
<1>3. Recorded(u, s) /\ \A k \in 0 .. n : SubSeq(u, 1, k) = SubSeq(t, 1, k)
  BY <1>1, <1>2
<1>4. QED
  BY <1>1, <1>3 DEF n

\* A recorded trace and the next event.
LEMMA RecordAppends ==
  ASSUME NEW s \in Scenarios, NEW t, Recorded(t, s), NEW e \in s.events
  PROVE  Recorded(Record(t, e), s) /\ Len(Record(t, e)) = Len(t) + 1 /\ Begins(t, Record(t, e))
<1> DEFINE S == Recordings(s)
           n == Len(t) + 1
           x == [e EXCEPT !.id = n]
           v == Append(t, x)
<1>1. t \in Seq(S) /\ Len(t) \in Nat /\ n \in Nat /\ \A k \in 1 .. Len(t) : t[k].id = k
  BY DEF Recorded
<1>2. x.id = n /\ x \in S
  <2>1. DOMAIN e = DOMAIN Blank
    BY EventsAssumption
  <2>2. "id" \in DOMAIN e
    BY <2>1 DEF Blank
  <2>3. QED
    BY <1>1, <2>2 DEF Recordings
<1> HIDE DEF S, x
<1>3. v \in Seq(S) /\ Len(v) = n /\ v[n] = x /\ \A k \in 1 .. Len(t) : v[k] = t[k]
  BY <1>1, <1>2
<1>4. \A k \in 1 .. n : v[k].id = k
  <2>1. \A k \in 1 .. n : k = n \/ k \in 1 .. Len(t)
    BY <1>1
  <2>2. QED
    BY <1>1, <1>2, <1>3, <2>1
<1> HIDE DEF v
<1>5. t = SubSeq(v, 1, Len(t))
  <2> DEFINE m == Len(t)
             u == SubSeq(v, 1, m)
  <2>1. m \in Nat /\ m <= n
    BY <1>1
  <2> HIDE DEF m
  <2>2. u \in Seq(S) /\ Len(u) = m /\ \A k \in 1 .. m : u[k] = v[k]
    BY <1>1, <1>3, <2>1
  <2>3. t \in Seq(S) /\ Len(t) = m /\ \A k \in 1 .. m : v[k] = t[k]
    BY <1>1, <1>3 DEF m
  <2> HIDE DEF u
  <2>4. u = t
    BY <2>1, <2>2, <2>3
  <2>5. QED
    BY <2>4 DEF u, m
<1>6. Begins(t, v)
  <2>1. Len(t) \in 0 .. Len(v)
    BY <1>1, <1>3
  <2>2. QED
    BY <1>5, <2>1 DEF Begins
<1>7. v = Record(t, e)
  BY DEF v, x, Record
<1>8. Recorded(v, s) /\ Len(v) = n
  BY <1>3, <1>4 DEF Recorded, S
<1>9. QED
  BY <1>6, <1>7, <1>8

LEMMA InitialState == Init => IInv
<1> SUFFICES ASSUME Init
             PROVE  IInv
  OBVIOUS
<1>1. trace = << >> /\ snapshot = << >> /\ answer = None /\ pc = "host" /\ scenario \in Scenarios
  BY DEF Init
<1>2. Len(trace) = 0 /\ Recorded(trace, scenario) /\ MaxTrace \in Nat
  BY <1>1, LimitsAssumption DEF Recorded
<1>3. ~Decided
  BY <1>1 DEF Decided
<1>4. Begins(snapshot, trace)
  BY <1>1, <1>2, RecordedIsPrefix
<1>5. QED
  BY <1>1, <1>2, <1>3, <1>4 DEF IInv

LEMMA InductiveStep == IInv /\ [Next]_vars => IInv'
<1> SUFFICES ASSUME IInv, [Next]_vars
             PROVE  IInv'
  OBVIOUS
<1> USE DEF IInv
<1>1. MaxItems \in Nat /\ MaxTrace \in Nat
  BY LimitsAssumption
<1>2. /\ Len(trace) \in Nat /\ Begins(trace, trace) /\ SubSeq(trace, 1, Len(trace)) = trace
      /\ Recorded(snapshot, scenario) /\ Len(snapshot) \in 0 .. Len(trace)
      /\ \A k \in 0 .. Len(snapshot) : SubSeq(snapshot, 1, k) = SubSeq(trace, 1, k)
  BY RecordedIsPrefix, PrefixIs
<1>3. ASSUME NEW e \in scenario.events, Report(e)
      PROVE  IInv'
  <2>1. /\ trace' = Record(trace, e) /\ Len(trace) < MaxTrace
        /\ scenario' = scenario /\ pc' = pc /\ snapshot' = snapshot /\ answer' = answer
    BY <1>3 DEF Report
  <2>2. Recorded(trace', scenario) /\ Len(trace') = Len(trace) + 1 /\ Begins(trace, trace')
    BY <2>1, RecordAppends
  <2>3. Len(trace') <= MaxTrace
    BY <1>1, <1>2, <2>1, <2>2
  <2>4. Begins(snapshot, trace')
    BY <2>2, PrefixOfPrefix
  <2>5. Decided' <=> Decided
    BY <2>1 DEF Decided
  <2>6. QED
    BY <2>1, <2>2, <2>3, <2>4, <2>5
<1>4. ASSUME Refuse
      PROVE  IInv'
  <2>1. /\ snapshot' = trace /\ trace' = trace /\ scenario' = scenario /\ pc' = pc /\ pc = "host"
        /\ answer' = Failure(IF trace = << >> THEN "empty_trace" ELSE "trace_item_limit")
    BY <1>4 DEF Refuse
  <2>2. answer'.error \in {"empty_trace", "trace_item_limit"}
    BY <2>1 DEF Failure
  <2>3. ~Decided'
    BY <2>2, NoneIsNoCode DEF Decided
  <2>4. QED
    BY <1>2, <2>1, <2>3
<1>5. ASSUME Call
      PROVE  IInv'
  <2>1. /\ snapshot' = trace /\ trace' = trace /\ scenario' = scenario /\ pc' = "semantic"
        /\ pc = "host" /\ answer' = answer /\ Len(trace) \in 1 .. MaxItems
    BY <1>5 DEF Call
  <2>2. Decided' => \E n \in Nat : Answers(answer, n, trace, scenario)
    <3> SUFFICES ASSUME Decided
                 PROVE  \E n \in Nat : Answers(answer, n, trace, scenario)
      BY <2>1 DEF Decided
    <3> DEFINE n == Len(snapshot)
    <3>1. Answers(answer, n, snapshot, scenario)
      BY <2>1
    <3> HIDE DEF n
    <3>2. n \in 1 .. Len(snapshot) /\ n \in 0 .. Len(snapshot) /\ n \in 1 .. Len(trace)
      BY <1>2, <3>1 DEF Answers
    <3>3. SubSeq(snapshot, 1, n) = SubSeq(trace, 1, n)
      BY <1>2, <3>2
    <3>4. PICK r \in scenario.results : answer = Answer(SubSeq(snapshot, 1, n), scenario.policy, r)
      BY <3>1 DEF Answers
    <3>5. answer = Answer(SubSeq(trace, 1, n), scenario.policy, r)
      BY <3>3, <3>4
    <3>6. Answers(answer, n, trace, scenario) /\ n \in Nat
      BY <3>2, <3>5 DEF Answers
    <3>7. QED
      BY <3>6
  <2>3. QED
    BY <1>2, <2>1, <2>2
<1>6. ASSUME NEW r \in scenario.results, Return(r)
      PROVE  IInv'
  <2>1. /\ snapshot' = snapshot /\ trace' = trace /\ scenario' = scenario /\ pc' = "host"
        /\ pc = "semantic" /\ answer' = Answer(snapshot, policy, r)
    BY <1>6 DEF Return
  <2>2. SubSeq(snapshot, 1, Len(snapshot)) = snapshot
    BY <1>2, RecordedIsPrefix
  <2>3. Len(snapshot) \in 1 .. Len(snapshot) /\ Len(snapshot) \in Nat
    BY <1>1, <2>1
  <2>4. answer' = Answer(snapshot, scenario.policy, r)
    BY <2>1 DEF policy
  <2>5. Answers(answer', Len(snapshot), snapshot, scenario)
    BY <2>2, <2>3, <2>4 DEF Answers
  <2>6. QED
    BY <1>2, <2>1, <2>3, <2>5
<1>7. CASE UNCHANGED vars
  <2>1. /\ snapshot' = snapshot /\ trace' = trace /\ scenario' = scenario /\ pc' = pc
        /\ answer' = answer
    BY <1>7 DEF vars
  <2>2. QED
    BY <2>1 DEF Decided
<1>8. QED
  BY <1>3, <1>4, <1>5, <1>6, <1>7 DEF Next

\* The controller is always in a state of the kind above.
THEOREM Invariance == Spec => []IInv
<1>1. QED
  BY InitialState, InductiveStep, PTL DEF Spec

\* What a finished call answered, unfolded.
LEMMA Conclusion ==
  ASSUME IInv, Concluded
  PROVE  /\ Recorded(snapshot, scenario) /\ Len(snapshot) \in 1 .. MaxTrace
         /\ \E r \in scenario.results :
              /\ answer = Answer(snapshot, policy, r)
              /\ answer.error = None
<1>1. Recorded(snapshot, scenario) /\ Len(snapshot) \in 0 .. Len(trace)
  BY PrefixIs DEF IInv
<1>2. Len(trace) \in Nat /\ Len(trace) <= MaxTrace /\ MaxTrace \in Nat
  BY RecordedIsPrefix, LimitsAssumption DEF IInv
<1>3. Answers(answer, Len(snapshot), snapshot, scenario)
  BY DEF IInv, Concluded
<1>4. SubSeq(snapshot, 1, Len(snapshot)) = snapshot
  BY <1>1, RecordedIsPrefix
<1>5. Len(snapshot) \in 1 .. MaxTrace
  <2>1. Len(snapshot) \in 1 .. Len(snapshot)
    BY <1>3 DEF Answers
  <2>2. QED
    BY <1>1, <1>2, <2>1
<1>6. \E r \in scenario.results : answer = Answer(snapshot, policy, r)
  BY <1>3, <1>4 DEF Answers, policy
<1>7. answer.error = None
  BY DEF Concluded, Decided
<1>8. QED
  BY <1>1, <1>5, <1>6, <1>7

\* Whenever the whole trace holds a hard stop, the decision is a stop of full
\* confidence that cites it: for every policy, detector window and semantic
\* detector.
THEOREM HardStopsDominate == Spec => []HardStopDominates
<1>1. IInv => HardStopDominates
  <2> SUFFICES ASSUME IInv, Concluded, HardStopsOf(snapshot) # {}
               PROVE  /\ answer.decision = "stop"
                      /\ answer.confidence.score = 2
                      /\ \E events \in HardStopsOf(snapshot) : events \subseteq answer.evidence
    BY DEF HardStopDominates
  <2>1. snapshot \in Seq(Recordings(scenario))
    BY Conclusion DEF Recorded
  <2>2. PICK r \in scenario.results : answer = Answer(snapshot, policy, r) /\ answer.error = None
    BY Conclusion
  <2> DEFINE F == Findings(snapshot, policy, r)
             notice == IF policy.semantic = "disabled" THEN None ELSE Notice(r)
  <2>3. answer = Envelope(snapshot, F, policy, notice)
    BY <2>2, DecidedAnswer
  <2>4. PICK f \in HardFindingsOf(snapshot, policy) :
          f.class \in {"risk", "budget"} /\ f.events \in HardStopsOf(snapshot)
    BY <2>1, HardStopsAreFound
  <2>5. f \in F
    BY <2>4 DEF Findings, DeterministicFindings, HardFindingsOf
  <2> HIDE DEF F, notice
  <2>6. answer.decision = "stop" /\ answer.confidence.score = 2 /\ f.events \subseteq answer.evidence
    BY <2>3, <2>4, <2>5, HardFindingStops
  <2>7. QED
    BY <2>4, <2>6
<1>2. QED
  BY <1>1, Invariance, PTL

\* The findings of hard stops among all findings of an analysis.
LEMMA HardFindingsOfEnvelope ==
  ASSUME NEW t, NEW p, NEW r, NEW notice
  PROVE  HardFindings(Envelope(t, Findings(t, p, r), p, notice)) = {f.id : f \in HardFindingsOf(t, p)}
<1> DEFINE F == Findings(t, p, r)
           HardNames == {"hard_budget", "repeated_risky_call"}
<1>1. \A d, c, reason, x : Finding(d, c, reason, x).id = <<d, x>>
  BY DEF Finding
<1>2. \A f \in HardFindingsOf(t, p) : f \in F /\ f.id[1] \in HardNames
  <2>1. \A f \in HardBudgetFinding(t, p) : f.id[1] = "hard_budget"
    <3> DEFINE L == LimitAt(t, p.whole_run)
    <3>1. HardBudgetFinding(t, p) =
            IF L = 0 THEN {} ELSE {Finding("hard_budget", "budget", "budget_limit_reached", {L})}
      BY HardFindingsAre
    <3> HIDE DEF L
    <3>2. QED
      BY <1>1, <3>1
  <2>2. \A f \in HardRiskFinding(t) : f.id[1] = "repeated_risky_call"
    BY <1>1 DEF HardRiskFinding
  <2>3. QED
    BY <2>1, <2>2 DEF HardFindingsOf, Findings, DeterministicFindings
<1>3. \A f \in DetectorFindings(t, p) : f.id[1] \notin HardNames
  <2>1. \A m \in Matches(t, p) : m[1] \notin HardNames
    BY DEF Matches
  <2>2. \A f \in DetectorFindings(t, p) : \E m \in Matches(t, p) :
          f = Finding(m[1], m[2], ReasonByClass[m[2]], m[3])
    BY DEF DetectorFindings
  <2>3. QED
    BY <1>1, <2>1, <2>2
<1>4. \A f \in SemanticFinding(p, r) : f.id[1] \notin HardNames
  BY <1>1 DEF SemanticFinding
<1>5. \A f \in F : f \in HardFindingsOf(t, p) <=> f.id[1] \in HardNames
  BY <1>2, <1>3, <1>4 DEF Findings, DeterministicFindings, HardFindingsOf
<1>6. Envelope(t, F, p, notice).confidence.contributing = {f.id : f \in F}
  BY EnvelopeIs
<1> HIDE DEF F
<1>7. QED
  BY <1>2, <1>5, <1>6 DEF HardFindings, F

\* The hard stop of a prefix is one of any longer trace.
LEMMA HardFindingsStay ==
  ASSUME NEW s, NEW t, Recorded(t, s), NEW n \in 1 .. Len(t), NEW p
  PROVE  HardFindingsOf(SubSeq(t, 1, n), p) \subseteq HardFindingsOf(t, p)
<1> DEFINE u == SubSeq(t, 1, n)
<1>1. Len(t) \in Nat
  BY DEF Recorded
<1>2. n \in 0 .. Len(t) /\ n <= Len(t)
  BY <1>1
<1>3. Recorded(u, s) /\ Len(u) = n /\ \A k \in 1 .. n : t[k] = u[k]
  BY <1>2, PrefixIsRecorded
<1> HIDE DEF u
<1>4. u \in Seq(Recordings(s)) /\ t \in Seq(Recordings(s))
  BY <1>3 DEF Recorded
<1>5. /\ LimitAt(u, p.whole_run) # 0 => LimitAt(t, p.whole_run) = LimitAt(u, p.whole_run)
      /\ Scan(RiskStep, RiskStart, u) # {} =>
           Scan(RiskStep, RiskStart, t) = Scan(RiskStep, RiskStart, u)
  BY <1>2, <1>3, <1>4, HardScansStay
<1>6. HardBudgetFinding(u, p) \subseteq HardBudgetFinding(t, p)
  <2> DEFINE L == LimitAt(u, p.whole_run)
             K == LimitAt(t, p.whole_run)
  <2>1. /\ HardBudgetFinding(u, p) =
             IF L = 0 THEN {} ELSE {Finding("hard_budget", "budget", "budget_limit_reached", {L})}
        /\ HardBudgetFinding(t, p) =
             IF K = 0 THEN {} ELSE {Finding("hard_budget", "budget", "budget_limit_reached", {K})}
    BY HardFindingsAre
  <2> HIDE DEF L, K
  <2>2. QED
    BY <1>5, <2>1 DEF L, K
<1>7. HardRiskFinding(u) \subseteq HardRiskFinding(t)
  BY <1>5, HardFindingsAre
<1>8. HardFindingsOf(u, p) \subseteq HardFindingsOf(t, p)
  BY <1>6, <1>7 DEF HardFindingsOf
<1>9. QED
  BY <1>8 DEF u

\* Once a decision rests on a hard stop, the next one rests on it too,
\* whatever has been reported in between.
THEOREM HardStopsPersist == Spec => HardStopPersists
<1> DEFINE Kept == Decided /\ HardFindings(answer) # {} /\ answer' # answer =>
                     \/ answer'.error # None
                     \/ answer'.decision = "stop" /\ HardFindings(answer) \subseteq HardFindings(answer')
<1>1. IInv /\ [Next]_vars => [Kept]_vars
  <2> SUFFICES ASSUME IInv, [Next]_vars, Decided, HardFindings(answer) # {}, answer' # answer,
                      answer'.error = None
               PROVE  answer'.decision = "stop" /\ HardFindings(answer) \subseteq HardFindings(answer')
    OBVIOUS
  <2>1. ~Refuse
    <3>1. Refuse => answer'.error \in {"empty_trace", "trace_item_limit"}
      BY DEF Refuse, Failure
    <3>2. QED
      BY <3>1, NoneIsNoCode
  <2>2. PICK r \in scenario.results : Return(r)
    BY <2>1 DEF Next, Report, Call, vars
  <2>3. pc = "semantic" /\ answer' = Answer(snapshot, policy, r)
    BY <2>2 DEF Return
  <2>4. Recorded(snapshot, scenario)
    BY PrefixIs DEF IInv
  <2>5. PICK n \in Nat : Answers(answer, n, snapshot, scenario)
    BY DEF IInv
  <2> DEFINE u == SubSeq(snapshot, 1, n)
  <2>6. PICK q \in scenario.results : answer = Answer(u, policy, q)
    BY <2>5 DEF Answers, policy
  <2> DEFINE before == IF policy.semantic = "disabled" THEN None ELSE Notice(q)
             after == IF policy.semantic = "disabled" THEN None ELSE Notice(r)
             F == Findings(snapshot, policy, r)
  <2>7. answer = Envelope(u, Findings(u, policy, q), policy, before)
    BY <2>6, DecidedAnswer DEF Decided
  <2>8. answer' = Envelope(snapshot, F, policy, after)
    BY <2>3, DecidedAnswer
  <2> HIDE DEF before, after
  <2>9. HardFindings(answer) = {f.id : f \in HardFindingsOf(u, policy)}
    BY <2>7, HardFindingsOfEnvelope
  <2>10. HardFindings(answer') = {f.id : f \in HardFindingsOf(snapshot, policy)}
    BY <2>8, HardFindingsOfEnvelope
  <2>11. HardFindingsOf(u, policy) \subseteq HardFindingsOf(snapshot, policy)
    BY <2>4, <2>5, HardFindingsStay DEF Answers
  <2>12. HardFindings(answer) \subseteq HardFindings(answer')
    BY <2>9, <2>10, <2>11
  <2>13. PICK f \in HardFindingsOf(snapshot, policy) : TRUE
    BY <2>9, <2>11
  <2>14. f \in F /\ f.class \in {"risk", "budget"}
    BY <2>4, <2>13, HardStopsAreFound DEF Recorded, Findings, DeterministicFindings, HardFindingsOf
  <2> HIDE DEF F
  <2>15. answer'.decision = "stop"
    BY <2>8, <2>14, HardFindingStops
  <2>16. QED
    BY <2>12, <2>15
<1>2. QED
  BY <1>1, Invariance, PTL DEF Spec, HardStopPersists

-----------------------------------------------------------------------------
(* What the six detectors cite: events of their window, and among them a   *)
(* repetition or a stretch that stood still.                               *)

IdsOf(w, n) == {w[k].id : k \in 1 .. n}

SameThing(e, f) ==
  /\ e.kind = f.kind
  /\ CASE e.kind = "tool_call" -> Identity(e) = Identity(f)
       [] e.kind = "error" -> e.error = f.error
       [] e.kind = "state_observation" -> e.fp = f.fp
       [] OTHER -> FALSE

StillStretch(w, i, j) ==
  /\ ~MadeProgress(SubSeq(w, i, j))
  /\ \/ /\ IsFingerprintedObservation(w[j])
        /\ w[i].fp = w[j].fp
        /\ \E k \in i .. j - 1 : w[k].expects
     \/ /\ w[i].kind = "acceptance_check" /\ w[j].kind = "acceptance_check"
        /\ Identity(w[i]) = Identity(w[j])
        /\ w[i].delta = w[j].delta

\* A match of a repetition detector, and one of a no-progress detector.
CitesRepetition(match, w, n) ==
  /\ match \subseteq IdsOf(w, n)
  /\ match # {} => \E i, j \in 1 .. n :
       i < j /\ SameThing(w[i], w[j]) /\ w[i].id \in match /\ w[j].id \in match

CitesStall(match, w, n) ==
  /\ match \subseteq IdsOf(w, n)
  /\ match # {} => \E i, j \in 1 .. n :
       i < j /\ StillStretch(w, i, j) /\ w[i].id \in match /\ w[j].id \in match

ShowsCall(w, n, id, identity) ==
  \E k \in 1 .. n : w[k].id = id /\ w[k].kind = "tool_call" /\ Identity(w[k]) = identity

\* What each pass has remembered after n events of w.
ExactPass(s, w, n) ==
  /\ DOMAIN s = {"calls", "pairs", "match"}
  /\ \A c \in DOMAIN s.calls : ShowsCall(w, n, c, s.calls[c])
  /\ \A q \in DOMAIN s.pairs : s.pairs[q][2] \in IdsOf(w, n) /\ ShowsCall(w, n, s.pairs[q][1], q[1])
  /\ CitesRepetition(s.match, w, n)

ErrorPass(s, w, n) ==
  /\ DOMAIN s = {"context", "first", "match"}
  /\ \A q \in DOMAIN s.first :
       \E k \in 1 .. n : w[k].id = s.first[q] /\ w[k].kind = "error" /\ w[k].error = q[1]
  /\ CitesRepetition(s.match, w, n)

CyclePass(s, w, n) ==
  /\ DOMAIN s = {"observations", "match"}
  /\ s.observations \in Seq(1 .. n)
  /\ \A i \in 1 .. Len(s.observations) : IsFingerprintedObservation(w[s.observations[i]])
  /\ CitesRepetition(s.match, w, n)

UnchangedPass(s, w, n) ==
  /\ DOMAIN s = {"latest", "pending", "match"}
  /\ s.latest # None => s.latest[2] \in 1 .. n /\ w[s.latest[2]].fp = s.latest[1]
  /\ \A f \in DOMAIN s.pending :
       /\ s.pending[f][1] \in 1 .. n /\ s.pending[f][2] \in 1 .. n
       /\ s.pending[f][1] <= s.pending[f][2]
       /\ w[s.pending[f][1]].fp = f /\ w[s.pending[f][2]].expects
  /\ CitesStall(s.match, w, n)

StallPass(s, w, n) ==
  /\ DOMAIN s = {"baselines", "match"}
  /\ \A i \in DOMAIN s.baselines :
       /\ s.baselines[i][2] \in 1 .. n
       /\ w[s.baselines[i][2]].kind = "acceptance_check"
       /\ Identity(w[s.baselines[i][2]]) = i /\ w[s.baselines[i][2]].delta = s.baselines[i][1]
  /\ CitesStall(s.match, w, n)

BurnPass(s, w, n) ==
  /\ DOMAIN s = {"baseline", "prior", "match"}
  /\ s.baseline \in 0 .. n
  /\ s.match \subseteq IdsOf(w, n)

\* What is cited of the first n events is cited of more.
LEMMA CitesStays ==
  ASSUME NEW w, NEW n \in Nat, NEW match
  PROVE  /\ IdsOf(w, n) \subseteq IdsOf(w, n + 1) /\ w[n + 1].id \in IdsOf(w, n + 1)
         /\ CitesRepetition(match, w, n) => CitesRepetition(match, w, n + 1)
         /\ CitesStall(match, w, n) => CitesStall(match, w, n + 1)
         /\ \A id, identity : ShowsCall(w, n, id, identity) => ShowsCall(w, n + 1, id, identity)
<1>1. \A k \in 1 .. n : k \in 1 .. n + 1
  OBVIOUS
<1>2. n + 1 \in 1 .. n + 1
  OBVIOUS
<1>3. IdsOf(w, n) \subseteq IdsOf(w, n + 1) /\ w[n + 1].id \in IdsOf(w, n + 1)
  BY <1>1, <1>2 DEF IdsOf
<1>4. CitesRepetition(match, w, n) => CitesRepetition(match, w, n + 1)
  BY <1>1, <1>3 DEF CitesRepetition
<1>5. CitesStall(match, w, n) => CitesStall(match, w, n + 1)
  BY <1>1, <1>3 DEF CitesStall
<1>6. \A id, identity : ShowsCall(w, n, id, identity) => ShowsCall(w, n + 1, id, identity)
  BY <1>1 DEF ShowsCall
<1>7. QED
  BY <1>3, <1>4, <1>5, <1>6

\* Two events with distinct ids are found in their order.
LEMMA CitedRepetition ==
  ASSUME NEW w, NEW n \in Nat, NEW match, match \subseteq IdsOf(w, n),
         NEW i \in 1 .. n, NEW j \in 1 .. n, i # j,
         SameThing(w[i], w[j]), w[i].id \in match, w[j].id \in match
  PROVE  CitesRepetition(match, w, n)
<1>1. SameThing(w[j], w[i])
  BY DEF SameThing
<1>2. CASE i < j
  BY <1>2 DEF CitesRepetition
<1>3. CASE j < i
  BY <1>1, <1>3 DEF CitesRepetition
<1>4. QED
  BY <1>2, <1>3

LEMMA ExactStepPasses ==
  ASSUME NEW s, NEW w, NEW n \in Nat, ExactPass(s, w, n)
  PROVE  ExactPass(ExactStep(s, w, n + 1), w, n + 1)
<1> DEFINE p == n + 1
           e == w[p]
           t == ExactStep(s, w, p)
<1>0. p \in Nat /\ p \in 1 .. p
  OBVIOUS
<1>1. /\ DOMAIN s = {"calls", "pairs", "match"}
      /\ \A c \in DOMAIN s.calls : ShowsCall(w, p, c, s.calls[c])
      /\ \A q \in DOMAIN s.pairs : s.pairs[q][2] \in IdsOf(w, p) /\ ShowsCall(w, p, s.pairs[q][1], q[1])
      /\ CitesRepetition(s.match, w, p)
      /\ e.id \in IdsOf(w, p)
  BY CitesStays DEF ExactPass
<1> SUFFICES ExactPass(t, w, p)
  OBVIOUS
<1>2. CASE t = s
  BY <1>1, <1>2 DEF ExactPass
<1>3. CASE s.match = {} /\ e.kind = "tool_call" /\ Identity(e) # None
  <2>1. t = [s EXCEPT !.calls = With(@, e.id, Identity(e))]
    BY <1>3 DEF ExactStep
  <2>2. /\ DOMAIN t = DOMAIN s /\ t.pairs = s.pairs /\ t.match = s.match
        /\ t.calls = With(s.calls, e.id, Identity(e))
    BY <1>1, <2>1
  <2> HIDE DEF t
  <2>3. ShowsCall(w, p, e.id, Identity(e))
    BY <1>0, <1>3 DEF ShowsCall
  <2>4. \A c \in DOMAIN t.calls : ShowsCall(w, p, c, t.calls[c])
    BY <1>1, <2>2, <2>3 DEF With
  <2>5. QED
    BY <1>1, <2>2, <2>4 DEF ExactPass
<1>4. CASE s.match = {} /\ e.kind # "tool_call" /\ ClosesCall(s, e) /\ RepeatsPair(s, e)
  <2> DEFINE q == PairOf(s, e)
             M == {s.pairs[q][1], s.pairs[q][2], e.parent, e.id}
  <2>1. t = [s EXCEPT !.match = M]
    BY <1>4 DEF ExactStep
  <2>2. DOMAIN t = DOMAIN s /\ t.pairs = s.pairs /\ t.match = M /\ t.calls = s.calls
    BY <1>1, <2>1
  <2>3. e.parent \in DOMAIN s.calls /\ q \in DOMAIN s.pairs /\ s.pairs[q][1] # e.parent
    BY <1>4 DEF ClosesCall, RepeatsPair
  <2>4. q[1] = s.calls[e.parent]
    BY DEF PairOf
  <2> HIDE DEF t, q
  <2>5. PICK i \in 1 .. p : w[i].id = s.pairs[q][1] /\ w[i].kind = "tool_call" /\ Identity(w[i]) = q[1]
    BY <1>1, <2>3 DEF ShowsCall
  <2>6. PICK j \in 1 .. p : w[j].id = e.parent /\ w[j].kind = "tool_call" /\ Identity(w[j]) = q[1]
    BY <1>1, <2>3, <2>4 DEF ShowsCall
  <2>7. i # j /\ SameThing(w[i], w[j])
    BY <2>3, <2>5, <2>6 DEF SameThing
  <2>8. M \subseteq IdsOf(w, p) /\ w[i].id \in M /\ w[j].id \in M
    <3>1. w[i].id \in IdsOf(w, p) /\ w[j].id \in IdsOf(w, p)
      BY DEF IdsOf
    <3>2. s.pairs[q][2] \in IdsOf(w, p) /\ e.id \in IdsOf(w, p)
      BY <1>1, <2>3
    <3> HIDE DEF e
    <3>3. QED
      BY <2>5, <2>6, <3>1, <3>2
  <2> HIDE DEF M
  <2>9. CitesRepetition(M, w, p)
    BY <1>0, <2>7, <2>8, CitedRepetition
  <2>10. QED
    BY <1>1, <2>2, <2>9 DEF ExactPass
<1>5. CASE s.match = {} /\ e.kind # "tool_call" /\ ClosesCall(s, e) /\ ~RepeatsPair(s, e)
  <2> DEFINE q == PairOf(s, e)
  <2>1. t = [s EXCEPT !.pairs = KeepFirst(s, e)]
    BY <1>5 DEF ExactStep
  <2>2. DOMAIN t = DOMAIN s /\ t.pairs = KeepFirst(s, e) /\ t.match = s.match /\ t.calls = s.calls
    BY <1>1, <2>1
  <2>3. e.parent \in DOMAIN s.calls
    BY <1>5 DEF ClosesCall
  <2>4. q[1] = s.calls[e.parent]
    BY DEF PairOf
  <2> HIDE DEF t
  <2>5. ShowsCall(w, p, e.parent, q[1])
    BY <1>1, <2>3, <2>4
  <2>6. \A x \in DOMAIN t.pairs : \/ x \in DOMAIN s.pairs /\ t.pairs[x] = s.pairs[x]
                                  \/ x = q /\ t.pairs[x] = <<e.parent, e.id>>
    BY <2>2 DEF KeepFirst, With
  <2> HIDE DEF q
  <2>7. \A x \in DOMAIN t.pairs : t.pairs[x][2] \in IdsOf(w, p) /\ ShowsCall(w, p, t.pairs[x][1], x[1])
    <3> TAKE x \in DOMAIN t.pairs
    <3>1. CASE x \in DOMAIN s.pairs /\ t.pairs[x] = s.pairs[x]
      BY <1>1, <3>1
    <3>2. CASE x = q /\ t.pairs[x] = <<e.parent, e.id>>
      <4>1. t.pairs[x][2] = e.id /\ t.pairs[x][1] = e.parent
        BY <3>2
      <4>2. QED
        BY <1>1, <2>5, <3>2, <4>1
    <3>3. QED
      BY <2>6, <3>1, <3>2
  <2>8. QED
    BY <1>1, <2>2, <2>7 DEF ExactPass
<1>6. QED
  BY <1>2, <1>3, <1>4, <1>5 DEF ExactStep, ClosesCall

LEMMA ErrorStepPasses ==
  ASSUME NEW s, NEW w, NEW n \in Nat, ErrorPass(s, w, n)
  PROVE  ErrorPass(ErrorStep(s, w, n + 1), w, n + 1)
<1> DEFINE p == n + 1
           e == w[p]
           t == ErrorStep(s, w, p)
           Shows(q, id, m) == \E k \in 1 .. m : w[k].id = id /\ w[k].kind = "error" /\ w[k].error = q[1]
<1>0. p \in Nat /\ p \in 1 .. p /\ \A k \in 1 .. n : k \in 1 .. p /\ k # p
  OBVIOUS
<1>1. /\ DOMAIN s = {"context", "first", "match"}
      /\ \A q \in DOMAIN s.first : Shows(q, s.first[q], n)
      /\ CitesRepetition(s.match, w, p)
      /\ e.id \in IdsOf(w, p)
  BY CitesStays DEF ErrorPass
<1>2. \A q \in DOMAIN s.first : Shows(q, s.first[q], p)
  BY <1>0, <1>1
<1> SUFFICES ErrorPass(t, w, p)
  OBVIOUS
<1>3. CASE t = s
  BY <1>1, <1>2, <1>3 DEF ErrorPass
<1>4. CASE s.match = {} /\ e.kind = "tool_call"
  <2>1. t = [s EXCEPT !.context = ContextOf(e)]
    BY <1>4 DEF ErrorStep
  <2>2. DOMAIN t = DOMAIN s /\ t.first = s.first /\ t.match = s.match
    BY <1>1, <2>1
  <2> HIDE DEF t
  <2>3. QED
    BY <1>1, <1>2, <2>2 DEF ErrorPass
<1> DEFINE q == <<e.error, s.context>>
<1>5. CASE s.match = {} /\ e.kind = "error" /\ e.error # None /\ q \in DOMAIN s.first
  <2> DEFINE M == {s.first[q], e.id}
  <2>1. t = [s EXCEPT !.match = M]
    BY <1>5 DEF ErrorStep
  <2>2. DOMAIN t = DOMAIN s /\ t.first = s.first /\ t.match = M /\ q[1] = e.error
    BY <1>1, <2>1
  <2> HIDE DEF t, q
  <2>3. PICK k \in 1 .. n : w[k].id = s.first[q] /\ w[k].kind = "error" /\ w[k].error = e.error
    BY <1>1, <1>5, <2>2
  <2>4. k \in 1 .. p /\ k # p
    BY <1>0
  <2>5. SameThing(w[k], w[p])
    BY <1>5, <2>3 DEF SameThing
  <2>6. w[k].id \in IdsOf(w, p)
    BY <2>4 DEF IdsOf
  <2>7. M \subseteq IdsOf(w, p) /\ w[k].id \in M /\ w[p].id \in M
    BY <1>1, <2>3, <2>6
  <2> HIDE DEF M
  <2>8. CitesRepetition(M, w, p)
    BY <1>0, <2>4, <2>5, <2>7, CitedRepetition
  <2>9. QED
    BY <1>1, <1>2, <2>2, <2>8 DEF ErrorPass
<1>6. CASE s.match = {} /\ e.kind = "error" /\ e.error # None /\ q \notin DOMAIN s.first
  <2>1. t = [s EXCEPT !.first = [x \in DOMAIN @ \cup {q} |-> IF x = q THEN e.id ELSE @[x]]]
    BY <1>6 DEF ErrorStep
  <2>2. /\ DOMAIN t = DOMAIN s /\ t.match = s.match /\ q[1] = e.error
        /\ t.first = [x \in DOMAIN s.first \cup {q} |-> IF x = q THEN e.id ELSE s.first[x]]
    BY <1>1, <2>1
  <2> HIDE DEF t, q
  <2>3. Shows(q, e.id, p)
    BY <1>0, <1>6, <2>2
  <2>4. \A x \in DOMAIN t.first : Shows(x, t.first[x], p)
    <3> HIDE DEF Shows
    <3>1. QED
      BY <1>2, <2>2, <2>3
  <2>5. QED
    BY <1>1, <2>2, <2>4 DEF ErrorPass
<1>7. QED
  BY <1>3, <1>4, <1>5, <1>6 DEF ErrorStep

\* Min of the community modules, where there is one.
LEMMA MinIs ==
  ASSUME NEW T \in SUBSET Nat, T # {}
  PROVE  Min(T) \in T
<1>1. \E m \in T : \A k \in T : m <= k
  BY LeastExists
<1>2. QED
  BY <1>1 DEF Min

LEMMA CycleStepPasses ==
  ASSUME NEW s, NEW w, NEW n \in Nat, CyclePass(s, w, n)
  PROVE  CyclePass(CycleStep(s, w, n + 1), w, n + 1)
<1> DEFINE p == n + 1
           e == w[p]
           t == CycleStep(s, w, p)
           m == Len(s.observations) + 1
           obs == Append(s.observations, p)
           closing == {k \in CycleSteps(m) :
                         /\ HasCycle(w, obs, k)
                         /\ ~MadeProgress(SubSeq(w, obs[m - k], p))}
           M == IF closing = {} THEN {} ELSE {w[obs[i]].id : i \in m - Min(closing) .. m}
<1>0. p \in Nat /\ p \in 1 .. p /\ \A k \in 1 .. n : k \in 1 .. p /\ k # p
  OBVIOUS
<1>1. /\ DOMAIN s = {"observations", "match"}
      /\ s.observations \in Seq(1 .. n)
      /\ \A i \in 1 .. Len(s.observations) : IsFingerprintedObservation(w[s.observations[i]])
      /\ CitesRepetition(s.match, w, p)
  BY CitesStays DEF CyclePass
<1>2. s.observations \in Seq(1 .. p)
  <2>1. \A i \in 1 .. Len(s.observations) : s.observations[i] \in 1 .. p
    BY <1>0, <1>1
  <2>2. QED
    BY <1>1, <2>1
<1> SUFFICES CyclePass(t, w, p)
  OBVIOUS
<1>3. CASE s.match # {} \/ ~IsFingerprintedObservation(e)
  <2>1. t = s
    BY <1>3 DEF CycleStep
  <2>2. QED
    BY <1>1, <1>2, <2>1 DEF CyclePass
<1>4. CASE s.match = {} /\ IsFingerprintedObservation(e)
  <2>1. t = [observations |-> obs, match |-> M]
    BY <1>4 DEF CycleStep
  <2>2. /\ DOMAIN t = {"observations", "match"} /\ t.observations = obs /\ t.match = M
    <3> HIDE DEF t, obs, M
    <3>1. QED
      BY <2>1
  <2>3. /\ m \in Nat \ {0} /\ obs \in Seq(1 .. p) /\ Len(obs) = m /\ obs[m] = p
        /\ \A i \in 1 .. m - 1 : obs[i] = s.observations[i] /\ obs[i] \in 1 .. n
    BY <1>0, <1>1, <1>2
  <2>4. \A i \in 1 .. m : obs[i] \in 1 .. p /\ IsFingerprintedObservation(w[obs[i]])
    <3> TAKE i \in 1 .. m
    <3>0. Len(s.observations) = m - 1
      BY <1>1
    <3> HIDE DEF obs, m
    <3>1. CASE i = m
      BY <1>0, <1>4, <2>3, <3>1
    <3>2. CASE i \in 1 .. m - 1
      <4>1. obs[i] = s.observations[i] /\ obs[i] \in 1 .. n
        BY <2>3, <3>2
      <4>2. IsFingerprintedObservation(w[s.observations[i]])
        BY <1>1, <3>0, <3>2
      <4>3. QED
        BY <1>0, <4>1, <4>2
    <3>3. QED
      BY <2>3, <3>1, <3>2
  <2> DEFINE c == Min(closing)
  <2>5. closing # {} => c \in closing
    <3>1. closing \in SUBSET Nat
      BY DEF CycleSteps
    <3> HIDE DEF closing
    <3>2. QED
      BY <3>1, MinIs
  <2>6. closing # {} => HasCycle(w, obs, c) /\ m - c \in 1 .. m - 1
    <3>1. closing # {} => HasCycle(w, obs, c) /\ c \in CycleSteps(m)
      BY <2>5
    <3> HIDE DEF c, closing, m, obs
    <3>2. c \in CycleSteps(m) => m - c \in 1 .. m - 1
      BY <2>3 DEF CycleSteps
    <3>3. QED
      BY <3>1, <3>2
  <2>7. closing # {} => M = {w[obs[i]].id : i \in m - c .. m}
    OBVIOUS
  <2>8. closing = {} => M = {}
    OBVIOUS
  <2> HIDE DEF t, m, obs, c, closing, M
  <2>9. CitesRepetition(M, w, p)
    <3>1. CASE closing = {}
      BY <2>8, <3>1 DEF CitesRepetition
    <3>2. CASE closing # {}
      <4> DEFINE i == obs[m - c]
      <4>1. w[i].fp = w[p].fp
        BY <2>3, <2>6, <3>2 DEF HasCycle
      <4>2. i \in 1 .. n
        BY <2>3, <2>6, <3>2
      <4>3. IsFingerprintedObservation(w[i])
        BY <2>3, <2>4, <2>6, <3>2
      <4>4. m - c \in m - c .. m /\ m \in m - c .. m
        BY <2>3, <2>6, <3>2
      <4>5. w[i].id \in M /\ w[p].id \in M
        BY <2>3, <2>7, <3>2, <4>4
      <4>6. \A k \in m - c .. m : k \in 1 .. m
        BY <2>3, <2>6, <3>2
      <4>7. M \subseteq IdsOf(w, p)
        BY <2>4, <2>7, <3>2, <4>6 DEF IdsOf
      <4> HIDE DEF i
      <4>8. SameThing(w[i], w[p])
        BY <1>4, <4>1, <4>3 DEF SameThing, IsFingerprintedObservation
      <4>9. i \in 1 .. p /\ i # p
        BY <1>0, <4>2
      <4>10. QED
        BY <1>0, <4>5, <4>7, <4>8, <4>9, CitedRepetition
    <3>3. QED
      BY <3>1, <3>2
  <2>10. QED
    BY <2>2, <2>3, <2>4, <2>9 DEF CyclePass
<1>5. QED
  BY <1>3, <1>4

LEMMA UnchangedStepPasses ==
  ASSUME NEW s, NEW w, NEW n \in Nat, UnchangedPass(s, w, n)
  PROVE  UnchangedPass(UnchangedStep(s, w, n + 1), w, n + 1)
<1> DEFINE p == n + 1
           e == w[p]
           t == UnchangedStep(s, w, p)
           Pends(x, f, m) == /\ x[1] \in 1 .. m /\ x[2] \in 1 .. m /\ x[1] <= x[2]
                             /\ w[x[1]].fp = f /\ w[x[2]].expects
           Latest(x, m) == x # None => x[2] \in 1 .. m /\ w[x[2]].fp = x[1]
<1>0. p \in Nat /\ p \in 1 .. p /\ \A k \in 1 .. n : k \in 1 .. p /\ k # p
  OBVIOUS
<1>1. /\ DOMAIN s = {"latest", "pending", "match"}
      /\ Latest(s.latest, n)
      /\ \A f \in DOMAIN s.pending : Pends(s.pending[f], f, n)
      /\ CitesStall(s.match, w, p)
      /\ e.id \in IdsOf(w, p)
  BY CitesStays DEF UnchangedPass
<1>2. Latest(s.latest, p) /\ \A f \in DOMAIN s.pending : Pends(s.pending[f], f, p)
  BY <1>0, <1>1
<1> SUFFICES UnchangedPass(t, w, p)
  OBVIOUS
<1>3. CASE s.match # {}
  <2>1. t = s
    BY <1>3 DEF UnchangedStep
  <2>2. QED
    BY <1>1, <1>2, <2>1 DEF UnchangedPass
<1>4. CASE s.match = {} /\ Unmet(s, w, p)
  <2> DEFINE x == s.pending[e.fp]
             M == {w[x[1]].id, w[x[2]].id, e.id}
  <2>1. t = [s EXCEPT !.match = M]
    BY <1>4 DEF UnchangedStep
  <2>2. DOMAIN t = DOMAIN s /\ t.latest = s.latest /\ t.pending = s.pending /\ t.match = M
    BY <1>1, <2>1
  <2>3. /\ IsFingerprintedObservation(w[p]) /\ e.fp \in DOMAIN s.pending
        /\ ~MadeProgress(ExpectationWindow(w, x, p))
    BY <1>4 DEF Unmet
  <2>4. Pends(x, e.fp, n)
    BY <1>1, <2>3
  <2> HIDE DEF t, x
  <2>5. ExpectationWindow(w, x, p) = SubSeq(w, x[1], p)
    <3>1. (IF x[1] < x[2] THEN x[1] ELSE x[2]) = x[1]
      BY <2>4
    <3>2. QED
      BY <3>1 DEF ExpectationWindow
  <2>6. x[2] \in x[1] .. p - 1 /\ x[1] \in 1 .. p /\ x[1] < p /\ x[2] \in 1 .. p
    BY <2>4
  <2>7. StillStretch(w, x[1], p)
    BY <2>3, <2>4, <2>5, <2>6 DEF StillStretch
  <2>8. M \subseteq IdsOf(w, p) /\ w[x[1]].id \in M /\ w[p].id \in M
    <3>1. w[x[1]].id \in IdsOf(w, p) /\ w[x[2]].id \in IdsOf(w, p)
      BY <2>6 DEF IdsOf
    <3>2. QED
      BY <1>1, <3>1
  <2> HIDE DEF M
  <2>9. CitesStall(M, w, p)
    BY <1>0, <2>6, <2>7, <2>8 DEF CitesStall
  <2>10. QED
    BY <1>1, <1>2, <2>2, <2>9 DEF UnchangedPass
<1>5. CASE s.match = {} /\ ~Unmet(s, w, p)
  <2> DEFINE latest == LatestAfter(s, e, p)
             kept == Unsettled(s, e)
             pending == IF e.expects THEN Expect(kept, latest, p) ELSE kept
  <2>1. t = [s EXCEPT !.latest = latest, !.pending = pending]
    BY <1>5 DEF UnchangedStep
  <2>2. DOMAIN t = DOMAIN s /\ t.latest = latest /\ t.pending = pending /\ t.match = s.match
    BY <1>1, <2>1
  <2>3. Latest(latest, p)
    <3>1. CASE latest = <<e.fp, p>>
      <4>1. latest[1] = e.fp /\ latest[2] = p
        BY <3>1
      <4> HIDE DEF latest
      <4>2. QED
        BY <1>0, <4>1
    <3>2. CASE latest = s.latest
      <4> HIDE DEF latest
      <4>1. QED
        BY <1>2, <3>2
    <3>3. QED
      BY <3>1, <3>2 DEF LatestAfter
  <2>4. \A f \in DOMAIN kept : Pends(kept[f], f, p)
    <3>1. kept = s.pending \/ DOMAIN kept = {}
      BY DEF Unsettled
    <3> HIDE DEF kept
    <3>2. QED
      BY <1>2, <3>1
  <2>5. \A f \in DOMAIN pending : Pends(pending[f], f, p)
    <3>1. CASE pending = kept
      <4> HIDE DEF pending, kept
      <4>1. QED
        BY <2>4, <3>1
    <3>2. CASE /\ e.expects /\ latest # None
               /\ pending = [f \in DOMAIN kept \cup {latest[1]} |->
                               IF f = latest[1] THEN <<latest[2], p>> ELSE kept[f]]
      <4> DEFINE x == <<latest[2], p>>
      <4>1. x[1] = latest[2] /\ x[2] = p
        OBVIOUS
      <4>2. Pends(x, latest[1], p)
        <5> HIDE DEF latest, x
        <5>1. latest[2] \in 1 .. p /\ latest[2] <= p
          BY <1>0, <2>3, <3>2
        <5>2. QED
          BY <1>0, <2>3, <3>2, <4>1, <5>1
      <4> HIDE DEF latest, kept, pending, Pends
      <4>3. QED
        BY <2>4, <3>2, <4>2
    <3>3. QED
      BY <3>1, <3>2 DEF Expect
  <2> HIDE DEF t, latest, kept, pending
  <2>6. QED
    BY <1>1, <2>2, <2>3, <2>5 DEF UnchangedPass
<1>6. QED
  BY <1>3, <1>4, <1>5

LEMMA StallStepPasses ==
  ASSUME NEW s, NEW w, NEW n \in Nat, StallPass(s, w, n)
  PROVE  StallPass(StallStep(s, w, n + 1), w, n + 1)
<1> DEFINE p == n + 1
           e == w[p]
           id == Identity(e)
           t == StallStep(s, w, p)
           Base(x, i, m) == /\ x[2] \in 1 .. m /\ w[x[2]].kind = "acceptance_check"
                            /\ Identity(w[x[2]]) = i /\ w[x[2]].delta = x[1]
<1>0. p \in Nat /\ p \in 1 .. p /\ \A k \in 1 .. n : k \in 1 .. p /\ k < p
  OBVIOUS
<1>1. /\ DOMAIN s = {"baselines", "match"}
      /\ \A i \in DOMAIN s.baselines : Base(s.baselines[i], i, n)
      /\ CitesStall(s.match, w, p)
      /\ e.id \in IdsOf(w, p)
  BY CitesStays DEF StallPass
<1>2. \A i \in DOMAIN s.baselines : Base(s.baselines[i], i, p)
  BY <1>0, <1>1
<1> SUFFICES StallPass(t, w, p)
  OBVIOUS
<1>3. CASE t = s
  BY <1>1, <1>2, <1>3 DEF StallPass
<1>4. ASSUME NEW old, IsComparableCheck(e), t = [s EXCEPT !.baselines = Rebase(old, e, p)],
             \A i \in DOMAIN old : Base(old[i], i, p)
      PROVE  StallPass(t, w, p)
  <2> DEFINE new == Rebase(old, e, p)
             x == <<e.delta, p>>
  <2>1. DOMAIN t = DOMAIN s /\ t.baselines = new /\ t.match = s.match
    BY <1>1, <1>4
  <2>2. Base(x, id, p)
    <3>1. x[1] = e.delta /\ x[2] = p
      OBVIOUS
    <3> HIDE DEF x
    <3>2. QED
      BY <1>0, <1>4, <3>1 DEF IsComparableCheck
  <2>3. new = [i \in DOMAIN old \cup {id} |-> IF i = id THEN x ELSE old[i]]
    BY DEF Rebase
  <2>4. \A i \in DOMAIN new : Base(new[i], i, p)
    <3> HIDE DEF x, id, Base, new
    <3>1. QED
      BY <1>4, <2>2, <2>3
  <2> HIDE DEF t, new
  <2>5. QED
    BY <1>1, <2>1, <2>4 DEF StallPass
<1>5. CASE s.match = {} /\ IsComparableCheck(e) /\ ~RepeatsDelta(s, e)
  <2>1. t = [s EXCEPT !.baselines = Rebase(s.baselines, e, p)]
    BY <1>5 DEF StallStep
  <2> HIDE DEF t, Base
  <2>2. QED
    BY <1>2, <1>4, <1>5, <2>1
<1> DEFINE x == s.baselines[id]
<1>6. CASE s.match = {} /\ IsComparableCheck(e) /\ RepeatsDelta(s, e) /\ ProgressSince(w, x[2], p)
  <2>1. t = [s EXCEPT !.baselines = Rebase(<< >>, e, p)]
    BY <1>6 DEF StallStep
  <2>2. \A i \in DOMAIN << >> : Base(<< >>[i], i, p)
    OBVIOUS
  <2> HIDE DEF t, Base
  <2>3. QED
    BY <1>4, <1>6, <2>1, <2>2
<1>7. CASE s.match = {} /\ IsComparableCheck(e) /\ RepeatsDelta(s, e) /\ ~ProgressSince(w, x[2], p)
  <2> DEFINE M == {w[x[2]].id, e.id}
  <2>1. t = [s EXCEPT !.match = M]
    BY <1>7 DEF StallStep
  <2>2. DOMAIN t = DOMAIN s /\ t.baselines = s.baselines /\ t.match = M
    BY <1>1, <2>1
  <2>3. id \in DOMAIN s.baselines /\ x[1] = e.delta
    BY <1>7 DEF RepeatsDelta
  <2>4. Base(x, id, n)
    BY <1>1, <2>3
  <2> HIDE DEF t, x
  <2>5. x[2] \in 1 .. p /\ x[2] < p
    BY <1>0, <2>4
  <2>6. StillStretch(w, x[2], p)
    BY <1>7, <2>3, <2>4 DEF StillStretch, ProgressSince, IsComparableCheck
  <2>7. M \subseteq IdsOf(w, p) /\ w[x[2]].id \in M /\ w[p].id \in M
    <3>1. w[x[2]].id \in IdsOf(w, p)
      BY <2>5 DEF IdsOf
    <3>2. QED
      BY <1>1, <3>1
  <2> HIDE DEF M
  <2>8. CitesStall(M, w, p)
    BY <1>0, <2>5, <2>6, <2>7 DEF CitesStall
  <2>9. QED
    BY <1>1, <1>2, <2>2, <2>8 DEF StallPass
<1>8. QED
  <2>1. t = s \/ (s.match = {} /\ IsComparableCheck(e))
    BY DEF StallStep
  <2> HIDE DEF t
  <2>2. QED
    BY <1>3, <1>5, <1>6, <1>7, <2>1

LEMMA BurnStepPasses ==
  ASSUME NEW s, NEW w, NEW n \in Nat, BurnPass(s, w, n)
  PROVE  BurnPass(BurnStep(s, w, n + 1), w, n + 1)
<1> DEFINE p == n + 1
           t == BurnStep(s, w, p)
           M == {w[s.baseline].id, w[p].id}
<1>0. p \in Nat /\ p \in 0 .. p /\ \A k \in 0 .. n : k \in 0 .. p
  OBVIOUS
<1>1. /\ DOMAIN s = {"baseline", "prior", "match"}
      /\ s.baseline \in 0 .. n /\ s.baseline \in 0 .. p
      /\ s.match \subseteq IdsOf(w, p) /\ w[p].id \in IdsOf(w, p)
  BY <1>0, CitesStays DEF BurnPass
<1>2. \/ t = s
      \/ t = [s EXCEPT !.baseline = p, !.prior = p]
      \/ t = [s EXCEPT !.prior = p]
      \/ s.baseline # 0 /\ t = [s EXCEPT !.prior = p, !.match = M]
  BY DEF BurnStep
<1>3. DOMAIN t = DOMAIN s /\ t.baseline \in {s.baseline, p}
  BY <1>1, <1>2
<1>4. t.match = s.match \/ (s.baseline # 0 /\ t.match = M)
  BY <1>1, <1>2
<1>5. s.baseline # 0 => M \subseteq IdsOf(w, p)
  <2>1. s.baseline # 0 => s.baseline \in 1 .. p
    BY <1>1
  <2>2. s.baseline # 0 => w[s.baseline].id \in IdsOf(w, p)
    BY <2>1 DEF IdsOf
  <2>3. QED
    BY <1>1, <2>2
<1> HIDE DEF t, M
<1>6. BurnPass(t, w, p)
  BY <1>0, <1>1, <1>3, <1>4, <1>5 DEF BurnPass
<1>7. QED
  BY <1>6 DEF t

\* What the six scans return over any window.
LEMMA ScansCite ==
  ASSUME NEW S, NEW w \in Seq(S)
  PROVE  LET n == Len(w)
         IN  /\ CitesRepetition(Scan(ExactStep, ExactStart, w), w, n)
             /\ CitesRepetition(Scan(CycleStep, CycleStart, w), w, n)
             /\ CitesRepetition(Scan(ErrorStep, ErrorStart, w), w, n)
             /\ CitesStall(Scan(UnchangedStep, UnchangedStart, w), w, n)
             /\ CitesStall(Scan(StallStep, StallStart, w), w, n)
             /\ Scan(BurnStep, BurnStart, w) \subseteq IdsOf(w, n)
<1> DEFINE l == 0
           exact(n) == StateAfter("exact", l, w, n)
           cycle(n) == StateAfter("cycle", l, w, n)
           error(n) == StateAfter("error", l, w, n)
           unchanged(n) == StateAfter("unchanged", l, w, n)
           stall(n) == StateAfter("stall", l, w, n)
           burn(n) == StateAfter("burn", l, w, n)
           Passes(n) ==
             /\ ExactPass(exact(n), w, n) /\ CyclePass(cycle(n), w, n)
             /\ ErrorPass(error(n), w, n) /\ UnchangedPass(unchanged(n), w, n)
             /\ StallPass(stall(n), w, n) /\ BurnPass(burn(n), w, n)
           P == {n \in Nat : n <= Len(w) => Passes(n)}
<1>1. Len(w) \in Nat
  OBVIOUS
<1>2. Passes(0)
  <2>1. /\ exact(0) = ExactStart /\ cycle(0) = CycleStart /\ error(0) = ErrorStart
        /\ unchanged(0) = UnchangedStart /\ stall(0) = StallStart /\ burn(0) = BurnStart
    BY <1>1, RunSteps DEF StartOf
  <2>2. CitesRepetition({}, w, 0) /\ CitesStall({}, w, 0)
    BY DEF CitesRepetition, CitesStall
  <2>3. ExactPass(ExactStart, w, 0)
    BY <2>2 DEF ExactPass, ExactStart
  <2>4. CyclePass(CycleStart, w, 0)
    BY <2>2 DEF CyclePass, CycleStart
  <2>5. ErrorPass(ErrorStart, w, 0)
    BY <2>2 DEF ErrorPass, ErrorStart
  <2>6. UnchangedPass(UnchangedStart, w, 0)
    BY <2>2 DEF UnchangedPass, UnchangedStart
  <2>7. StallPass(StallStart, w, 0)
    BY <2>2 DEF StallPass, StallStart
  <2>8. BurnPass(BurnStart, w, 0)
    BY DEF BurnPass, BurnStart
  <2> HIDE DEF exact, cycle, error, unchanged, stall, burn
  <2>9. QED
    BY <2>1, <2>3, <2>4, <2>5, <2>6, <2>7, <2>8
<1>3. \A n \in 0 .. Len(w) - 1 :
        /\ exact(n + 1) = ExactStep(exact(n), w, n + 1)
        /\ cycle(n + 1) = CycleStep(cycle(n), w, n + 1)
        /\ error(n + 1) = ErrorStep(error(n), w, n + 1)
        /\ unchanged(n + 1) = UnchangedStep(unchanged(n), w, n + 1)
        /\ stall(n + 1) = StallStep(stall(n), w, n + 1)
        /\ burn(n + 1) = BurnStep(burn(n), w, n + 1)
  <2> TAKE n \in 0 .. Len(w) - 1
  <2>1. exact(n + 1) = StepOf("exact", l, exact(n), w, n + 1)
    BY <1>1, RunSteps
  <2>2. cycle(n + 1) = StepOf("cycle", l, cycle(n), w, n + 1)
    BY <1>1, RunSteps
  <2>3. error(n + 1) = StepOf("error", l, error(n), w, n + 1)
    BY <1>1, RunSteps
  <2>4. unchanged(n + 1) = StepOf("unchanged", l, unchanged(n), w, n + 1)
    BY <1>1, RunSteps
  <2>5. stall(n + 1) = StepOf("stall", l, stall(n), w, n + 1)
    BY <1>1, RunSteps
  <2>6. burn(n + 1) = StepOf("burn", l, burn(n), w, n + 1)
    BY <1>1, RunSteps
  <2> HIDE DEF exact, cycle, error, unchanged, stall, burn, l
  <2>7. QED
    BY <2>1, <2>2, <2>3, <2>4, <2>5, <2>6, StepsAre
<1>4. /\ Scan(ExactStep, ExactStart, w) = exact(Len(w)).match
      /\ Scan(CycleStep, CycleStart, w) = cycle(Len(w)).match
      /\ Scan(ErrorStep, ErrorStart, w) = error(Len(w)).match
      /\ Scan(UnchangedStep, UnchangedStart, w) = unchanged(Len(w)).match
      /\ Scan(StallStep, StallStart, w) = stall(Len(w)).match
      /\ Scan(BurnStep, BurnStart, w) = burn(Len(w)).match
  BY ScanIsRun
<1> HIDE DEF exact, cycle, error, unchanged, stall, burn
<1>5. ASSUME NEW n \in Nat, n + 1 <= Len(w), Passes(n)
      PROVE  Passes(n + 1)
  <2>1. n \in 0 .. Len(w) - 1
    BY <1>1, <1>5
  <2>2. ExactPass(exact(n + 1), w, n + 1)
    BY <1>3, <1>5, <2>1, ExactStepPasses
  <2>3. CyclePass(cycle(n + 1), w, n + 1)
    BY <1>3, <1>5, <2>1, CycleStepPasses
  <2>4. ErrorPass(error(n + 1), w, n + 1)
    BY <1>3, <1>5, <2>1, ErrorStepPasses
  <2>5. UnchangedPass(unchanged(n + 1), w, n + 1)
    BY <1>3, <1>5, <2>1, UnchangedStepPasses
  <2>6. StallPass(stall(n + 1), w, n + 1)
    BY <1>3, <1>5, <2>1, StallStepPasses
  <2>7. BurnPass(burn(n + 1), w, n + 1)
    BY <1>3, <1>5, <2>1, BurnStepPasses
  <2>8. QED
    BY <2>2, <2>3, <2>4, <2>5, <2>6, <2>7
<1>6. Passes(Len(w))
  <2> HIDE DEF Passes
  <2>1. 0 \in P
    BY <1>2
  <2>2. ASSUME NEW n \in Nat, n \in P
        PROVE  n + 1 \in P
    BY <1>1, <1>5, <2>2
  <2>3. Len(w) \in P
    <3> HIDE DEF P
    <3>1. QED
      BY <1>1, <2>1, <2>2, SetInduction
  <2>4. QED
    BY <1>1, <2>3
<1>7. QED
  BY <1>4, <1>6 DEF ExactPass, CyclePass, ErrorPass, UnchangedPass, StallPass, BurnPass

\* The last n events of a trace.
LEMMA WindowIs ==
  ASSUME NEW S, NEW t \in Seq(S), NEW n \in Nat \ {0}
  PROVE  LET w == LastEvents(t, n)
             off == Len(t) - Len(w)
         IN  /\ w \in Seq(S) /\ Len(w) \in 0 .. Len(t) /\ Len(w) <= n
             /\ off \in Nat
             /\ \A k \in 1 .. Len(w) : w[k] = t[off + k] /\ off + k \in 1 .. Len(t)
             /\ \A i, j \in 1 .. Len(w) : SubSeq(w, i, j) = SubSeq(t, off + i, off + j)
<1> DEFINE from == IF Len(t) > n THEN Len(t) - n + 1 ELSE 1
           w == SubSeq(t, from, Len(t))
           off == from - 1
<1>1. Len(t) \in Nat
  OBVIOUS
<1>2. from \in 1 .. Len(t) + 1 /\ off \in 0 .. Len(t) /\ Len(t) - off <= n
  BY <1>1
<1>3. \A k \in from .. Len(t) : t[k] \in S
  BY <1>1, <1>2
<1> HIDE DEF from
<1>4. /\ w \in Seq(S) /\ Len(w) = Len(t) - off
      /\ \A k \in 1 .. Len(t) - off : w[k] = t[off + k]
  <2>1. w \in Seq(S)
    BY <1>1, <1>2, <1>3
  <2>2. Len(w) = Len(t) - off
    BY <1>1, <1>2
  <2>3. \A k \in 1 .. Len(t) - off : w[k] = t[off + k]
    BY <1>1, <1>2
  <2>4. QED
    BY <2>1, <2>2, <2>3
<1> HIDE DEF w
<1>5. off = Len(t) - Len(w) /\ Len(w) \in 0 .. Len(t) /\ Len(w) <= n
  BY <1>1, <1>2, <1>4
<1> HIDE DEF off
<1>6. \A k \in 1 .. Len(w) : w[k] = t[off + k] /\ off + k \in 1 .. Len(t)
  BY <1>1, <1>2, <1>4, <1>5
<1>7. ASSUME NEW i \in 1 .. Len(w), NEW j \in 1 .. Len(w)
      PROVE  SubSeq(w, i, j) = SubSeq(t, off + i, off + j)
  <2> DEFINE u == SubSeq(w, i, j)
             v == SubSeq(t, off + i, off + j)
             m == IF i <= j THEN j - i + 1 ELSE 0
  <2>1. i \in Nat /\ j \in Nat /\ off \in Nat /\ Len(w) \in Nat /\ m \in Nat
    BY <1>2, <1>5
  <2>2. u \in Seq(S) /\ Len(u) = m /\ \A k \in 1 .. m : u[k] = w[i + k - 1]
    <3>1. \A k \in i .. j : k \in 1 .. Len(w) /\ w[k] \in S
      BY <1>4, <2>1
    <3>2. u \in Seq(S)
      BY <2>1, <3>1
    <3>3. Len(u) = m
      BY <2>1
    <3>4. \A k \in 1 .. m : u[k] = w[i + k - 1]
      BY <2>1
    <3>5. QED
      BY <3>2, <3>3, <3>4
  <2>3. v \in Seq(S) /\ Len(v) = m /\ \A k \in 1 .. m : v[k] = t[off + i + k - 1]
    <3>1. \A k \in off + i .. off + j : k \in 1 .. Len(t) /\ t[k] \in S
      BY <1>1, <1>5, <2>1
    <3>2. v \in Seq(S)
      BY <2>1, <3>1
    <3>3. Len(v) = m
      BY <2>1
    <3>4. \A k \in 1 .. m : v[k] = t[off + i + k - 1]
      BY <2>1
    <3>5. QED
      BY <3>2, <3>3, <3>4
  <2> HIDE DEF u, v
  <2>4. \A k \in 1 .. m : u[k] = v[k]
    <3> TAKE k \in 1 .. m
    <3>1. i + k - 1 \in 1 .. Len(w) /\ off + (i + k - 1) = off + i + k - 1
      BY <2>1
    <3>2. w[i + k - 1] = t[off + i + k - 1]
      BY <1>6, <3>1
    <3>3. QED
      BY <2>2, <2>3, <3>2
  <2> HIDE DEF m
  <2>5. u = v
    BY <2>1, <2>2, <2>3, <2>4
  <2>6. QED
    BY <2>5 DEF u, v
<1>8. w = LastEvents(t, n)
  BY DEF LastEvents, w, from
<1>9. LET o == Len(t) - Len(w)
      IN  /\ w \in Seq(S) /\ Len(w) \in 0 .. Len(t) /\ Len(w) <= n
          /\ o \in Nat
          /\ \A k \in 1 .. Len(w) : w[k] = t[o + k] /\ o + k \in 1 .. Len(t)
          /\ \A i, j \in 1 .. Len(w) : SubSeq(w, i, j) = SubSeq(t, o + i, o + j)
  <2> DEFINE o == Len(t) - Len(w)
  <2>1. o = off /\ o \in Nat
    BY <1>2, <1>5
  <2> HIDE DEF o
  <2>2. /\ \A k \in 1 .. Len(w) : w[k] = t[o + k] /\ o + k \in 1 .. Len(t)
        /\ \A i, j \in 1 .. Len(w) : SubSeq(w, i, j) = SubSeq(t, o + i, o + j)
    BY <1>6, <1>7, <2>1
  <2>3. QED
    BY <1>4, <1>5, <2>1, <2>2 DEF o
<1>10. QED
  BY <1>8, <1>9

RepeatsWithin(events, t, n) ==
  \E i, j \in 1 .. Len(t) :
    i < j /\ i + n > Len(t) /\ j + n > Len(t)
      /\ SameThing(t[i], t[j]) /\ i \in events /\ j \in events

StallsWithin(events, t, n) ==
  \E i, j \in 1 .. Len(t) :
    i < j /\ i + n > Len(t) /\ j + n > Len(t)
      /\ StillStretch(t, i, j) /\ i \in events /\ j \in events

\* What is cited of a window is cited of the trace.
LEMMA WindowCites ==
  ASSUME NEW s, NEW t, Recorded(t, s), NEW n \in Nat \ {0}, NEW match
  PROVE  LET w == LastEvents(t, n)
         IN  /\ match \subseteq IdsOf(w, Len(w)) => match \subseteq 1 .. Len(t)
             /\ CitesRepetition(match, w, Len(w)) /\ match # {} => RepeatsWithin(match, t, n)
             /\ CitesStall(match, w, Len(w)) /\ match # {} => StallsWithin(match, t, n)
<1> DEFINE w == LastEvents(t, n)
           off == Len(t) - Len(w)
<1>1. t \in Seq(Recordings(s)) /\ Len(t) \in Nat /\ \A k \in 1 .. Len(t) : t[k].id = k
  BY DEF Recorded
<1>2. /\ Len(w) \in 0 .. Len(t) /\ Len(w) <= n /\ off \in Nat
      /\ \A k \in 1 .. Len(w) : w[k] = t[off + k] /\ off + k \in 1 .. Len(t)
      /\ \A i, j \in 1 .. Len(w) : SubSeq(w, i, j) = SubSeq(t, off + i, off + j)
  BY <1>1, WindowIs
<1> HIDE DEF w
<1>3. Len(w) = n \/ off = 0
  <2>1. off = 0 \/ Len(t) > n
    <3>1. ~(Len(t) > n) => LastEvents(t, n) = SubSeq(t, 1, Len(t))
      BY DEF LastEvents
    <3>2. SubSeq(t, 1, Len(t)) = t
      BY <1>1
    <3>3. QED
      BY <1>1, <3>1, <3>2 DEF w
  <2>2. Len(t) > n => Len(w) = n
    <3>1. Len(t) > n => w = SubSeq(t, Len(t) - n + 1, Len(t))
      BY DEF w, LastEvents
    <3>2. Len(t) > n => Len(SubSeq(t, Len(t) - n + 1, Len(t))) = n
      <4>1. Len(t) > n => Len(t) - n + 1 \in 1 .. Len(t)
        BY <1>1
      <4>2. QED
        BY <1>1, <4>1
    <3>3. QED
      BY <3>1, <3>2
  <2>3. QED
    BY <2>1, <2>2
<1>4. \A k \in 1 .. Len(w) : /\ w[k].id = off + k /\ (off + k) + n > Len(t)
                             /\ off + k \in 1 .. Len(t)
  BY <1>1, <1>2, <1>3
<1>5. IdsOf(w, Len(w)) \subseteq 1 .. Len(t)
  BY <1>4 DEF IdsOf
<1>6. ASSUME CitesRepetition(match, w, Len(w)), match # {}
      PROVE  RepeatsWithin(match, t, n)
  <2>1. PICK i, j \in 1 .. Len(w) :
          i < j /\ SameThing(w[i], w[j]) /\ w[i].id \in match /\ w[j].id \in match
    BY <1>6 DEF CitesRepetition
  <2>2. off + i < off + j
    BY <1>2, <2>1
  <2>3. SameThing(t[off + i], t[off + j]) /\ off + i \in match /\ off + j \in match
    BY <1>2, <1>4, <2>1
  <2> HIDE DEF off
  <2>4. QED
    BY <1>4, <2>2, <2>3 DEF RepeatsWithin
<1>7. ASSUME CitesStall(match, w, Len(w)), match # {}
      PROVE  StallsWithin(match, t, n)
  <2>1. PICK i, j \in 1 .. Len(w) :
          i < j /\ StillStretch(w, i, j) /\ w[i].id \in match /\ w[j].id \in match
    BY <1>7 DEF CitesStall
  <2>2. off + i < off + j
    BY <1>2, <2>1
  <2>3. off + i \in match /\ off + j \in match /\ w[i] = t[off + i] /\ w[j] = t[off + j]
    BY <1>2, <1>4, <2>1
  <2>4. SubSeq(w, i, j) = SubSeq(t, off + i, off + j)
    BY <1>2
  <2>5. (\E k \in i .. j - 1 : w[k].expects) =>
          \E k \in off + i .. off + j - 1 : t[k].expects
    <3> SUFFICES ASSUME NEW k \in i .. j - 1, w[k].expects
                 PROVE  \E m \in off + i .. off + j - 1 : t[m].expects
      OBVIOUS
    <3>1. k \in 1 .. Len(w) /\ off + k \in off + i .. off + j - 1
      BY <1>2
    <3>2. t[off + k].expects
      BY <1>2, <3>1
    <3>3. QED
      BY <3>1, <3>2
  <2>6. StillStretch(t, off + i, off + j)
    <3>1. ~MadeProgress(SubSeq(t, off + i, off + j))
      BY <2>1, <2>4 DEF StillStretch
    <3>2. CASE /\ IsFingerprintedObservation(w[j]) /\ w[i].fp = w[j].fp
               /\ \E k \in i .. j - 1 : w[k].expects
      <4>1. /\ IsFingerprintedObservation(t[off + j]) /\ t[off + i].fp = t[off + j].fp
            /\ \E k \in off + i .. off + j - 1 : t[k].expects
        BY <2>3, <2>5, <3>2
      <4> DEFINE a == off + i
                 b == off + j
      <4>2. /\ IsFingerprintedObservation(t[b]) /\ t[a].fp = t[b].fp
            /\ \E k \in a .. b - 1 : t[k].expects
            /\ ~MadeProgress(SubSeq(t, a, b))
        BY <3>1, <4>1
      <4> HIDE DEF a, b
      <4>3. StillStretch(t, a, b)
        BY <4>2, Zenon DEF StillStretch
      <4>4. QED
        BY <4>3 DEF a, b
    <3>3. CASE /\ w[i].kind = "acceptance_check" /\ w[j].kind = "acceptance_check"
               /\ Identity(w[i]) = Identity(w[j]) /\ w[i].delta = w[j].delta
      <4>1. /\ t[off + i].kind = "acceptance_check" /\ t[off + j].kind = "acceptance_check"
            /\ Identity(t[off + i]) = Identity(t[off + j]) /\ t[off + i].delta = t[off + j].delta
        BY <2>3, <3>3
      <4> HIDE DEF off
      <4>2. QED
        BY <3>1, <4>1 DEF StillStretch
    <3>4. \/ /\ IsFingerprintedObservation(w[j]) /\ w[i].fp = w[j].fp
             /\ \E k \in i .. j - 1 : w[k].expects
          \/ /\ w[i].kind = "acceptance_check" /\ w[j].kind = "acceptance_check"
             /\ Identity(w[i]) = Identity(w[j]) /\ w[i].delta = w[j].delta
      BY <2>1 DEF StillStretch
    <3>5. QED
      BY <3>2, <3>3, <3>4
  <2> HIDE DEF off
  <2>7. QED
    BY <1>4, <2>2, <2>3, <2>6 DEF StallsWithin
<1>8. QED
  BY <1>5, <1>6, <1>7 DEF w

\* What the findings of the detectors cite.
LEMMA DetectorFindingsCite ==
  ASSUME NEW s, NEW t, Recorded(t, s), NEW p,
         p.repetition_events \in Nat \ {0}, p.no_progress_events \in Nat \ {0}
  PROVE  \A f \in DetectorFindings(t, p) :
           /\ f.events \subseteq 1 .. Len(t)
           /\ f.class \in {"repetition", "no_progress", "budget"}
           /\ f.id[1] # "semantic"
           /\ f.class = "repetition" => /\ RepeatsWithin(f.events, t, p.repetition_events)
                                        /\ f.reason = "repetition_detected"
           /\ f.class = "no_progress" => /\ StallsWithin(f.events, t, p.no_progress_events)
                                         /\ f.reason = "no_progress_detected"
<1> DEFINE r == RepetitionWindow(t, p)
           n == NoProgressWindow(t, p)
           Cited(class, events) ==
             /\ events \subseteq 1 .. Len(t)
             /\ class = "repetition" => RepeatsWithin(events, t, p.repetition_events)
             /\ class = "no_progress" => StallsWithin(events, t, p.no_progress_events)
<1>1. t \in Seq(Recordings(s))
  BY DEF Recorded
<1>2. r \in Seq(Recordings(s)) /\ n \in Seq(Recordings(s))
  BY <1>1, WindowIs DEF RepetitionWindow, NoProgressWindow
<1>3. ASSUME NEW match, match # {}, CitesRepetition(match, r, Len(r))
      PROVE  Cited("repetition", match)
  BY <1>3, WindowCites DEF RepetitionWindow, CitesRepetition
<1>4. ASSUME NEW match, match # {}, CitesStall(match, n, Len(n))
      PROVE  Cited("no_progress", match)
  BY <1>4, WindowCites DEF NoProgressWindow, CitesStall
<1>5. ASSUME NEW match, match # {}, match \subseteq IdsOf(n, Len(n))
      PROVE  Cited("budget", match)
  BY <1>5, WindowCites DEF NoProgressWindow
<1>6. \A m \in Matches(t, p) :
        /\ m[1] # "semantic" /\ m[2] \in {"repetition", "no_progress", "budget"}
        /\ m[3] # {} => Cited(m[2], m[3])
  <2> HIDE DEF r, n, Cited
  <2>1. Matches(t, p) =
          {<<"exact_repetition", "repetition", Scan(ExactStep, ExactStart, r)>>,
           <<"cycle", "repetition", Scan(CycleStep, CycleStart, r)>>,
           <<"repeated_error", "repetition", Scan(ErrorStep, ErrorStart, r)>>,
           <<"unchanged_state", "no_progress", Scan(UnchangedStep, UnchangedStart, n)>>,
           <<"acceptance_stall", "no_progress", Scan(StallStep, StallStart, n)>>,
           <<"budget_burn", "budget", Scan(BurnStep, BurnStart, n)>>}
    BY DEF Matches, r, n
  <2> DEFINE a == Scan(ExactStep, ExactStart, r)
             b == Scan(CycleStep, CycleStart, r)
             c == Scan(ErrorStep, ErrorStart, r)
             d == Scan(UnchangedStep, UnchangedStart, n)
             e == Scan(StallStep, StallStart, n)
             g == Scan(BurnStep, BurnStart, n)
  <2>2. /\ CitesRepetition(a, r, Len(r)) /\ CitesRepetition(b, r, Len(r))
        /\ CitesRepetition(c, r, Len(r))
    BY <1>2, ScansCite
  <2>3. /\ CitesStall(d, n, Len(n)) /\ CitesStall(e, n, Len(n)) /\ g \subseteq IdsOf(n, Len(n))
    BY <1>2, ScansCite
  <2>4. Matches(t, p) =
          {<<"exact_repetition", "repetition", a>>, <<"cycle", "repetition", b>>,
           <<"repeated_error", "repetition", c>>, <<"unchanged_state", "no_progress", d>>,
           <<"acceptance_stall", "no_progress", e>>, <<"budget_burn", "budget", g>>}
    BY <2>1
  <2> HIDE DEF a, b, c, d, e, g
  <2>5. /\ a # {} => Cited("repetition", a)
        /\ b # {} => Cited("repetition", b)
        /\ c # {} => Cited("repetition", c)
    BY <1>3, <2>2
  <2>6. /\ d # {} => Cited("no_progress", d)
        /\ e # {} => Cited("no_progress", e)
        /\ g # {} => Cited("budget", g)
    BY <1>4, <1>5, <2>3
  <2>7. QED
    BY <2>4, <2>5, <2>6
<1>7. \A f \in DetectorFindings(t, p) : \E m \in Matches(t, p) :
        m[3] # {} /\ f = Finding(m[1], m[2], ReasonByClass[m[2]], m[3])
  BY DEF DetectorFindings
<1>8. \A m : LET f == Finding(m[1], m[2], ReasonByClass[m[2]], m[3])
             IN  /\ f.events = m[3] /\ f.class = m[2] /\ f.id[1] = m[1]
                 /\ m[2] = "repetition" => f.reason = "repetition_detected"
                 /\ m[2] = "no_progress" => f.reason = "no_progress_detected"
  BY DEF Finding, ReasonByClass
<1> HIDE DEF r, n, Cited
<1>9. \A f \in DetectorFindings(t, p) :
        /\ f.id[1] # "semantic" /\ f.class \in {"repetition", "no_progress", "budget"}
        /\ Cited(f.class, f.events)
        /\ f.class = "repetition" => f.reason = "repetition_detected"
        /\ f.class = "no_progress" => f.reason = "no_progress_detected"
  BY <1>6, <1>7, <1>8
<1>10. QED
  BY <1>9 DEF Cited

LEMMA DeterministicFindingsCite ==
  ASSUME NEW s, NEW t, Recorded(t, s), NEW p,
         p.repetition_events \in Nat \ {0}, p.no_progress_events \in Nat \ {0}
  PROVE  \A f \in DeterministicFindings(t, p) :
           /\ f.events \subseteq 1 .. Len(t)
           /\ f.class \in FindingClass
           /\ f.id[1] # "semantic"
           /\ f.class = "repetition" => /\ RepeatsWithin(f.events, t, p.repetition_events)
                                        /\ f.reason = "repetition_detected"
           /\ f.class = "no_progress" => /\ StallsWithin(f.events, t, p.no_progress_events)
                                         /\ f.reason = "no_progress_detected"
<1>1. t \in Seq(Recordings(s)) /\ Len(t) \in Nat
  BY DEF Recorded
<1>2. \A d, c, reason, x : LET f == Finding(d, c, reason, x)
                           IN  f.class = c /\ f.events = x /\ f.id[1] = d
  BY DEF Finding
<1>3. \A f \in HardBudgetFinding(t, p) :
        f.events \subseteq 1 .. Len(t) /\ f.class = "budget" /\ f.id[1] # "semantic"
  <2> DEFINE L == LimitAt(t, p.whole_run)
  <2>1. LimitScan(L, t, Len(t), p.whole_run)
    BY <1>1, HardScans
  <2>2. HardBudgetFinding(t, p) =
          IF L = 0 THEN {} ELSE {Finding("hard_budget", "budget", "budget_limit_reached", {L})}
    BY HardFindingsAre
  <2> HIDE DEF L
  <2>3. L # 0 => {L} \subseteq 1 .. Len(t)
    BY <2>1 DEF LimitScan
  <2>4. QED
    BY <1>2, <2>2, <2>3
<1>4. \A f \in HardRiskFinding(t) :
        f.events \subseteq 1 .. Len(t) /\ f.class = "risk" /\ f.id[1] # "semantic"
  <2> DEFINE M == Scan(RiskStep, RiskStart, t)
  <2>1. M # {} => FoundRisk(M, t, Len(t))
    BY <1>1, HardScans
  <2>2. HardRiskFinding(t) =
          IF M = {} THEN {} ELSE {Finding("repeated_risky_call", "risk", "risk_detected", M)}
    BY HardFindingsAre
  <2> HIDE DEF M
  <2>3. M \subseteq 1 .. Len(t)
    BY <2>1 DEF FoundRisk
  <2>4. QED
    BY <1>2, <2>2, <2>3
<1>5. \A f \in DetectorFindings(t, p) :
        /\ f.events \subseteq 1 .. Len(t)
        /\ f.class \in {"repetition", "no_progress", "budget"}
        /\ f.id[1] # "semantic"
        /\ f.class = "repetition" => /\ RepeatsWithin(f.events, t, p.repetition_events)
                                     /\ f.reason = "repetition_detected"
        /\ f.class = "no_progress" => /\ StallsWithin(f.events, t, p.no_progress_events)
                                      /\ f.reason = "no_progress_detected"
  BY DetectorFindingsCite
<1>6. QED
  <2> TAKE f \in DeterministicFindings(t, p)
  <2>1. CASE f \in DetectorFindings(t, p)
    BY <1>5, <2>1 DEF FindingClass
  <2>2. CASE f \in HardBudgetFinding(t, p) \cup HardRiskFinding(t)
    BY <1>3, <1>4, <2>2 DEF FindingClass
  <2>3. QED
    BY <2>1, <2>2 DEF DeterministicFindings

\* The finding of the semantic detector, if it matched.
LEMMA SemanticFindingIs ==
  ASSUME NEW p, NEW r
  PROVE  /\ \A f \in SemanticFinding(p, r) :
              /\ p.semantic # "disabled" /\ IsAvailable(r)
              /\ f = Finding("semantic", r.class, r.reason, r.events)
         /\ p.semantic = "disabled" \/ ~IsAvailable(r) => SemanticFinding(p, r) = {}
BY DEF SemanticFinding

\* What a diagnosis and a selection cite.
LEMMA EvidenceIs ==
  ASSUME NEW t, NEW F, NEW E, \A f \in F : f.events \subseteq E
  PROVE  /\ Diagnose(t, F).evidence \subseteq (1 .. Len(t)) \cup E
         /\ CollectedEvidence(Diagnose(t, F), F) \subseteq (1 .. Len(t)) \cup E
<1>1. MarkedEvents(t) \subseteq 1 .. Len(t) /\ Eliminations(t) \subseteq 1 .. Len(t)
  BY DEF MarkedEvents, Eliminations
<1>2. UNION {f.events : f \in {g \in F : FindingCause(g) # None}} \subseteq E
  OBVIOUS
<1>3. UNION {f.events : f \in F} \subseteq E
  OBVIOUS
<1>4. Diagnose(t, F).evidence \subseteq (1 .. Len(t)) \cup E
  BY <1>1, <1>2 DEF Diagnose, DiagnosisEvidence
<1>5. QED
  BY <1>3, <1>4 DEF CollectedEvidence

\* An answer speaks of the copied trace: a decision cites events of the copy and
\* what the semantic detector cites, whatever the host reported meanwhile.
THEOREM AnswersSpeakOfCopy == Spec => []AnswerSpeaksOfCopy
<1>1. IInv => AnswerSpeaksOfCopy
  <2> SUFFICES ASSUME IInv
               PROVE  AnswerSpeaksOfCopy
    OBVIOUS
  <2>1. /\ scenario \in Scenarios /\ pc \in {"host", "semantic"}
        /\ Len(trace) <= MaxTrace /\ Len(snapshot) <= Len(trace)
    BY RecordedIsPrefix, PrefixIs DEF IInv
  <2>2. ASSUME Concluded
        PROVE  /\ answer.decision \in Decision
               /\ answer.evidence \subseteq (1 .. Len(snapshot)) \cup SemanticEvents
               /\ Cardinality(answer.evidence) <= MaxEvidence
    <3>1. Recorded(snapshot, scenario)
      BY <2>2, Conclusion
    <3>2. PICK r \in scenario.results : answer = Answer(snapshot, policy, r) /\ answer.error = None
      BY <2>2, Conclusion
    <3> DEFINE F == Findings(snapshot, policy, r)
               d == Diagnose(snapshot, F)
               notice == IF policy.semantic = "disabled" THEN None ELSE Notice(r)
    <3>3. /\ answer = Envelope(snapshot, F, policy, notice)
          /\ Cardinality(CollectedEvidence(d, F)) <= MaxEvidence
      BY <3>2, DecidedAnswer
    <3> HIDE DEF notice
    <3>4. answer.evidence = CollectedEvidence(d, F) /\ answer.decision = SelectDecision(d, F, policy)
      BY <3>3, EnvelopeIs
    <3>5. \A f \in F : f.events \subseteq (1 .. Len(snapshot)) \cup SemanticEvents
      <4>1. \A f \in DeterministicFindings(snapshot, policy) : f.events \subseteq 1 .. Len(snapshot)
        BY <2>1, <3>1, PoliciesAreSafe, DeterministicFindingsCite DEF policy
      <4>2. ASSUME NEW f \in SemanticFinding(policy, r)
            PROVE  f.events \subseteq SemanticEvents
        <5>1. policy.semantic # "disabled" /\ IsAvailable(r) /\ f.events = r.events
          BY SemanticFindingIs DEF Finding
        <5>2. QED
          BY <5>1 DEF SemanticEvents
      <4>3. QED
        BY <4>1, <4>2 DEF Findings
    <3>6. answer.evidence \subseteq (1 .. Len(snapshot)) \cup SemanticEvents
      <4> HIDE DEF F
      <4>1. CollectedEvidence(d, F)
              \subseteq (1 .. Len(snapshot)) \cup ((1 .. Len(snapshot)) \cup SemanticEvents)
        BY <3>5, EvidenceIs
      <4>2. QED
        BY <3>4, <4>1
    <3>7. answer.decision \in Decision
      <4> HIDE DEF F, d
      <4>1. IsSafeLadder(policy)
        BY <2>1, PoliciesAreSafe DEF policy
      <4>2. answer.decision \in policy.permitted \cup {"continue"}
        BY <3>4, <4>1, DecisionIsPermitted
      <4>3. QED
        BY <4>1, <4>2 DEF Decision, IsSafeLadder
    <3>8. QED
      BY <3>3, <3>4, <3>6, <3>7
  <2>3. snapshot = SubSeq(trace, 1, Len(snapshot))
    BY DEF IInv, Begins
  <2>4. QED
    BY <2>1, <2>2, <2>3 DEF TypeOK, AnswerSpeaksOfCopy
<1>2. QED
  BY <1>1, Invariance, PTL

\* Without a semantic detector an intervention rests on a repetition and on a
\* stretch that stood still, each within its window and both cited.
THEOREM InterventionsAreGrounded == Spec => []InterventionIsGrounded
<1>1. IInv => InterventionIsGrounded
  <2> SUFFICES ASSUME IInv, Concluded, policy.semantic = "disabled", answer.decision \in Interventions
               PROVE  /\ \E i, j \in Lookback(policy.repetition_events) \cap answer.evidence :
                           i < j /\ Repeats(i, j)
                      /\ \E i, j \in Lookback(policy.no_progress_events) \cap answer.evidence :
                           i < j /\ StandsStill(i, j)
    BY DEF InterventionIsGrounded
  <2>1. Recorded(snapshot, scenario) /\ scenario \in Scenarios
    BY Conclusion DEF IInv
  <2>2. PICK r \in scenario.results : answer = Answer(snapshot, policy, r) /\ answer.error = None
    BY Conclusion
  <2> DEFINE F == DeterministicFindings(snapshot, policy)
             d == Diagnose(snapshot, F)
  <2>3. answer = Envelope(snapshot, F, policy, None)
    <3>1. Findings(snapshot, policy, r) = F
      BY SemanticFindingIs DEF Findings
    <3>2. QED
      BY <2>2, <3>1, DecidedAnswer
  <2>4. \A f \in F :
          /\ f.class = "repetition" => RepeatsWithin(f.events, snapshot, policy.repetition_events)
          /\ f.class = "no_progress" => StallsWithin(f.events, snapshot, policy.no_progress_events)
    BY <2>1, PoliciesAreSafe, DeterministicFindingsCite DEF policy
  <2> HIDE DEF F
  <2>5. answer.decision = SelectDecision(d, F, policy) /\ answer.evidence = CollectedEvidence(d, F)
    BY <2>3, EnvelopeIs
  <2>6. {"repetition", "no_progress"} \subseteq Observed(F)
    BY <2>5, InterventionPassesGate DEF Interventions
  <2>7. PICK f \in F : f.class = "repetition"
    BY <2>6 DEF Observed
  <2>8. PICK g \in F : g.class = "no_progress"
    BY <2>6 DEF Observed
  <2>9. f.events \subseteq answer.evidence /\ g.events \subseteq answer.evidence
    BY <2>5 DEF CollectedEvidence
  <2>10. PICK i \in 1 .. Len(snapshot), j \in 1 .. Len(snapshot) :
           /\ i < j /\ i + policy.repetition_events > Len(snapshot)
           /\ j + policy.repetition_events > Len(snapshot)
           /\ SameThing(snapshot[i], snapshot[j]) /\ i \in f.events /\ j \in f.events
    BY <2>4, <2>7 DEF RepeatsWithin
  <2>11. Repeats(i, j)
    BY <2>10 DEF Repeats, SameThing
  <2>12. PICK k \in 1 .. Len(snapshot), l \in 1 .. Len(snapshot) :
           /\ k < l /\ k + policy.no_progress_events > Len(snapshot)
           /\ l + policy.no_progress_events > Len(snapshot)
           /\ StillStretch(snapshot, k, l) /\ k \in g.events /\ l \in g.events
    BY <2>4, <2>8 DEF StallsWithin
  <2>13. StandsStill(k, l)
    BY <2>12 DEF StandsStill, StillStretch
  <2>14. /\ i \in Lookback(policy.repetition_events) \cap answer.evidence
         /\ j \in Lookback(policy.repetition_events) \cap answer.evidence
    BY <2>9, <2>10 DEF Lookback
  <2>15. /\ k \in Lookback(policy.no_progress_events) \cap answer.evidence
         /\ l \in Lookback(policy.no_progress_events) \cap answer.evidence
    BY <2>9, <2>12 DEF Lookback
  <2>16. QED
    BY <2>10, <2>11, <2>12, <2>13, <2>14, <2>15
<1>2. QED
  BY <1>1, Invariance, PTL

-----------------------------------------------------------------------------
(* The semantic detector.                                                  *)

Missing == [status |-> "missing"]

\* A policy with its semantic detector switched off decides the same of the
\* same findings.
LEMMA SwitchedOff ==
  ASSUME NEW s \in Scenarios, NEW q, q = [s.policy EXCEPT !.semantic = "disabled"]
  PROVE  /\ q.semantic = "disabled"
         /\ \A t : DeterministicFindings(t, q) = DeterministicFindings(t, s.policy)
         /\ \A d, F : SelectDecision(d, F, q) = SelectDecision(d, F, s.policy)
         /\ \A t, F, x : Envelope(t, F, q, x) = Envelope(t, F, s.policy, x)
<1> DEFINE p == s.policy
<1>1. DOMAIN p = {"permitted", "host_action", "max_recovery_episodes",
                  "repetition_events", "no_progress_events", "whole_run", "weights",
                  "semantic", "semantic_weight", "repeatable"}
  BY PoliciesAreSafe
<1> HIDE DEF p
<1>2. q = [p EXCEPT !.semantic = "disabled"]
  BY DEF p
<1>3. /\ q.semantic = "disabled"
      /\ q.permitted = p.permitted /\ q.host_action = p.host_action
      /\ q.max_recovery_episodes = p.max_recovery_episodes
      /\ q.repetition_events = p.repetition_events
      /\ q.no_progress_events = p.no_progress_events
      /\ q.whole_run = p.whole_run /\ q.weights = p.weights
      /\ q.semantic_weight = p.semantic_weight /\ q.repeatable = p.repeatable
  BY <1>1, <1>2
<1>4. ASSUME NEW t
      PROVE  DeterministicFindings(t, q) = DeterministicFindings(t, p)
  <2>1. Matches(t, q) = Matches(t, p)
    <3>1. RepetitionWindow(t, q) = RepetitionWindow(t, p) /\ NoProgressWindow(t, q) = NoProgressWindow(t, p)
      BY <1>3 DEF RepetitionWindow, NoProgressWindow
    <3>2. QED
      BY <3>1 DEF Matches
  <2>2. DetectorFindings(t, q) = DetectorFindings(t, p)
    BY <2>1 DEF DetectorFindings
  <2>3. HardBudgetFinding(t, q) = HardBudgetFinding(t, p)
    <3>1. \A x : HardBudgetFinding(t, x) =
                   IF LimitAt(t, x.whole_run) = 0 THEN {}
                   ELSE {Finding("hard_budget", "budget", "budget_limit_reached",
                                 {LimitAt(t, x.whole_run)})}
      BY HardFindingsAre
    <3>2. LimitAt(t, q.whole_run) = LimitAt(t, p.whole_run)
      BY <1>3
    <3>3. QED
      BY <3>1, <3>2
  <2>4. QED
    BY <2>2, <2>3 DEF DeterministicFindings
<1>5. ASSUME NEW d, NEW F
      PROVE  SelectDecision(d, F, q) = SelectDecision(d, F, p)
  <2>1. LowestStage(q) = LowestStage(p) /\ Escalation(q) = Escalation(p)
    BY <1>3 DEF LowestStage, Escalation, AllowsReheat
  <2>2. QED
    BY <2>1 DEF SelectDecision
<1>6. ASSUME NEW t, NEW F, NEW x
      PROVE  Envelope(t, F, q, x) = Envelope(t, F, p, x)
  <2> DEFINE d == Diagnose(t, F)
  <2>1. \A y : RequiresHostAction(y, q) = RequiresHostAction(y, p)
    BY <1>3 DEF RequiresHostAction
  <2>2. \A y : ReasonCodes(y, F, q) = ReasonCodes(y, F, p)
    BY <2>1 DEF ReasonCodes
  <2>3. Select(d, F, q) = Select(d, F, p)
    <3> HIDE DEF d
    <3>1. QED
      BY <1>5, <2>1, <2>2 DEF Select
  <2>4. \A f : Weight(f, q) = Weight(f, p)
    BY <1>3 DEF Weight
  <2>5. Weighted(F, q) = Weighted(F, p)
    BY <2>4 DEF Weighted
  <2>6. \A c : ClassScore(c, F, q) = ClassScore(c, F, p)
    <3> TAKE c
    <3>1. {Weight(f, q) : f \in {g \in F : g.class = c}} = {Weight(f, p) : f \in {g \in F : g.class = c}}
      BY <2>4
    <3>2. QED
      BY <3>1 DEF ClassScore
  <2>7. \A y : Confidence(y, F, q) = Confidence(y, F, p)
    BY <2>6 DEF Confidence
  <2> HIDE DEF d
  <2>8. QED
    BY <1>3, <2>3, <2>5, <2>7 DEF Envelope, d
<1>7. QED
  BY <1>3, <1>4, <1>5, <1>6 DEF p

\* The answer without a semantic detector, and with one that has no result.
LEMMA WithoutFinding ==
  ASSUME NEW t, NEW p, NEW r, ~IsAvailable(r)
  PROVE  /\ p.semantic = "disabled" => Answer(t, p, r) = Assemble(t, DeterministicFindings(t, p), p, None)
         /\ p.semantic = "optional" /\ Notice(r) # None =>
              Answer(t, p, r) = Assemble(t, DeterministicFindings(t, p), p, Notice(r))
<1>1. DeterministicFindings(t, p) \cup SemanticFinding(p, r) = DeterministicFindings(t, p)
  BY SemanticFindingIs
<1>2. ~DuplicatesId(p, r)
  BY DEF DuplicatesId
<1>3. p.semantic = "disabled" => SemanticError(p, r) = None
  BY DEF SemanticError
<1>4. p.semantic = "optional" /\ Notice(r) # None => SemanticError(p, r) = None
  BY DEF SemanticError, Notice
<1>5. QED
  BY <1>1, <1>2, <1>3, <1>4 DEF Answer

LEMMA DeterministicAnswerIs ==
  ASSUME NEW s \in Scenarios, NEW t
  PROVE  LET q == [s.policy EXCEPT !.semantic = "disabled"]
         IN  Answer(t, q, Missing) = Assemble(t, DeterministicFindings(t, s.policy), s.policy, None)
<1> DEFINE p == s.policy
           q == [p EXCEPT !.semantic = "disabled"]
           F == DeterministicFindings(t, p)
<1>1. ~IsAvailable(Missing)
  BY DEF IsAvailable, Missing
<1>2. /\ q.semantic = "disabled" /\ DeterministicFindings(t, q) = F
      /\ Envelope(t, F, q, None) = Envelope(t, F, p, None)
  BY SwitchedOff
<1> HIDE DEF q, F, p
<1>3. Answer(t, q, Missing) = Assemble(t, F, q, None)
  BY <1>1, <1>2, WithoutFinding
<1>4. Assemble(t, F, q, None) = Assemble(t, F, p, None)
  BY <1>2 DEF Assemble
<1>5. QED
  BY <1>3, <1>4 DEF q, F, p

\* An optional detector that has no result leaves its notice and otherwise
\* the deterministic answer.
THEOREM DegradationsAreHarmless == Spec => []DegradationIsHarmless
<1>1. IInv => DegradationIsHarmless
  <2> SUFFICES ASSUME IInv, pc = "semantic", policy.semantic = "optional",
                      NEW r \in {x \in scenario.results : Notice(x) # None}
               PROVE  LET a == Answer(snapshot, policy, r)
                      IN  IF a.error # None THEN a = DeterministicAnswer
                          ELSE a.notice = Notice(r) /\ [a EXCEPT !.notice = None] = DeterministicAnswer
    BY DEF DegradationIsHarmless
  <2> DEFINE F == DeterministicFindings(snapshot, policy)
             a == Answer(snapshot, policy, r)
  <2>1. DeterministicAnswer = Assemble(snapshot, F, policy, None)
    BY DeterministicAnswerIs DEF IInv, DeterministicAnswer, Missing, policy
  <2>2. ~IsAvailable(r)
    BY DEF IsAvailable, Notice
  <2>3. a = Assemble(snapshot, F, policy, Notice(r))
    BY <2>2, WithoutFinding
  <2> HIDE DEF F
  <2>4. CASE a = Failure("invalid_controller_assembly") /\ DeterministicAnswer = Failure("invalid_controller_assembly")
    <3>1. a.error # None
      BY <2>4, NoneIsNoCode DEF Failure
    <3> HIDE DEF a
    <3>2. QED
      BY <2>4, <3>1 DEF a
  <2>5. CASE /\ a = Envelope(snapshot, F, policy, Notice(r))
             /\ DeterministicAnswer = Envelope(snapshot, F, policy, None)
    <3>1. \A x : [Envelope(snapshot, F, policy, x) EXCEPT !.notice = None]
                   = Envelope(snapshot, F, policy, None)
      BY EnvelopeNotice
    <3>2. a.error = None /\ a.notice = Notice(r)
      BY <2>5, EnvelopeIs
    <3> HIDE DEF a
    <3>3. [a EXCEPT !.notice = None] = DeterministicAnswer
      BY <2>5, <3>1
    <3>4. QED
      BY <3>2, <3>3 DEF a
  <2>6. QED
    BY <2>1, <2>3, <2>4, <2>5 DEF Assemble
<1>2. QED
  BY <1>1, Invariance, PTL

\* The order in which decisions are ranked is that of their strength.
LEMMA RankIsStrength ==
  \A x \in Decision : Rank(x) = Strength(x) + 1
<1> DEFINE order == <<"continue", "nudge", "diagnose", "reheat", "restart", "escalate", "stop">>
<1>1. ASSUME NEW x, NEW k \in 1 .. 7, order[k] = x, \A n \in 1 .. 7 : order[n] = x => n = k
      PROVE  Rank(x) = k
  <2>1. \E n \in 1 .. 7 : order[n] = x
    BY <1>1
  <2>2. Rank(x) = CHOOSE n \in 1 .. 7 : order[n] = x
    BY DEF Rank
  <2> HIDE DEF order
  <2>3. (CHOOSE n \in 1 .. 7 : order[n] = x) \in {n \in 1 .. 7 : order[n] = x}
    BY <2>1
  <2>4. QED
    BY <1>1, <2>2, <2>3
<1>2. \A n \in 1 .. 7 : n = 1 \/ n = 2 \/ n = 3 \/ n = 4 \/ n = 5 \/ n = 6 \/ n = 7
  OBVIOUS
<1>3. /\ order[1] = "continue" /\ order[2] = "nudge" /\ order[3] = "diagnose"
      /\ order[4] = "reheat" /\ order[5] = "restart" /\ order[6] = "escalate"
      /\ order[7] = "stop"
  OBVIOUS
<1> HIDE DEF order
<1>4. Rank("continue") = 1
  BY <1>1, <1>2, <1>3
<1>5. Rank("nudge") = 2
  BY <1>1, <1>2, <1>3
<1>6. Rank("diagnose") = 3
  BY <1>1, <1>2, <1>3
<1>7. Rank("reheat") = 4
  BY <1>1, <1>2, <1>3
<1>8. Rank("restart") = 5
  BY <1>1, <1>2, <1>3
<1>9. Rank("escalate") = 6
  BY <1>1, <1>2, <1>3
<1>10. Rank("stop") = 7
  BY <1>1, <1>2, <1>3
<1>11. QED
  BY <1>4, <1>5, <1>6, <1>7, <1>8, <1>9, <1>10 DEF Decision, Stage, Strength

\* Fewer findings cite no more, so that an analysis within the limits stays
\* within them.
LEMMA FewerFindingsFit ==
  ASSUME NEW t, NEW F, NEW G, F \subseteq G, NEW E, IsFiniteSet(E), Len(t) \in Nat,
         \A f \in G : f.events \subseteq E,
         WithinLimits(Diagnose(t, G), MaxEvidence, MaxRejected),
         Cardinality(CollectedEvidence(Diagnose(t, G), G)) <= MaxEvidence
  PROVE  /\ WithinLimits(Diagnose(t, F), MaxEvidence, MaxRejected)
         /\ Cardinality(CollectedEvidence(Diagnose(t, F), F)) <= MaxEvidence
         /\ Diagnose(t, F).causes \subseteq Diagnose(t, G).causes
<1> DEFINE C(H) == CollectedEvidence(Diagnose(t, H), H)
           D(H) == Diagnose(t, H).evidence
<1>1. D(F) \subseteq D(G)
  BY DEF Diagnose, DiagnosisEvidence
<1>2. C(F) \subseteq C(G)
  BY <1>1 DEF CollectedEvidence
<1>3. Diagnose(t, F).causes \subseteq Diagnose(t, G).causes
  BY DEF Diagnose, Causes
<1>4. IsFiniteSet((1 .. Len(t)) \cup E)
  <2>1. IsFiniteSet(1 .. Len(t))
    BY FS_Interval
  <2>2. QED
    BY <2>1, FS_Union
<1>5. D(G) \subseteq (1 .. Len(t)) \cup E /\ C(G) \subseteq (1 .. Len(t)) \cup E
  BY EvidenceIs
<1>6. IsFiniteSet(D(G)) /\ IsFiniteSet(C(G))
  <2> HIDE DEF C, D
  <2>1. QED
    BY <1>4, <1>5, FS_Subset
<1>7. /\ Cardinality(D(F)) <= Cardinality(D(G)) /\ Cardinality(D(F)) \in Nat
      /\ Cardinality(D(G)) \in Nat
  <2> HIDE DEF C, D
  <2>1. IsFiniteSet(D(F)) /\ Cardinality(D(F)) <= Cardinality(D(G))
    BY <1>1, <1>6, FS_Subset
  <2>2. QED
    BY <1>6, <2>1, FS_CardinalityType
<1>8. /\ Cardinality(C(F)) <= Cardinality(C(G)) /\ Cardinality(C(F)) \in Nat
      /\ Cardinality(C(G)) \in Nat
  <2> HIDE DEF C, D
  <2>1. IsFiniteSet(C(F)) /\ Cardinality(C(F)) <= Cardinality(C(G))
    BY <1>2, <1>6, FS_Subset
  <2>2. QED
    BY <1>6, <2>1, FS_CardinalityType
<1>9. Diagnose(t, F).rejected = Diagnose(t, G).rejected
  BY DEF Diagnose
<1>10. Cardinality(D(G)) <= MaxEvidence /\ MaxEvidence \in Nat
  BY LimitsAssumption DEF WithinLimits
<1> HIDE DEF C, D
<1>11. Cardinality(D(F)) <= MaxEvidence
  BY <1>7, <1>10
<1>12. Cardinality(C(F)) <= MaxEvidence
  BY <1>8, <1>10 DEF C
<1>13. QED
  BY <1>3, <1>9, <1>11, <1>12 DEF WithinLimits, C, D

\* A semantic finding only makes the response stronger.
THEOREM SemanticFindingsOnlyRaise == Spec => []SemanticOnlyRaises
<1>1. IInv => SemanticOnlyRaises
  <2> SUFFICES ASSUME IInv, Concluded, policy.semantic # "disabled"
               PROVE  Rank(answer.decision) >= Rank(DeterministicAnswer.decision)
    BY DEF SemanticOnlyRaises
  <2>1. Recorded(snapshot, scenario) /\ scenario \in Scenarios /\ Len(snapshot) \in Nat
    BY Conclusion, LimitsAssumption DEF IInv
  <2>2. PICK r \in scenario.results : answer = Answer(snapshot, policy, r) /\ answer.error = None
    BY Conclusion
  <2> DEFINE F == DeterministicFindings(snapshot, policy)
             G == Findings(snapshot, policy, r)
             E == (1 .. Len(snapshot)) \cup (IF IsAvailable(r) THEN r.events ELSE {})
             notice == IF policy.semantic = "disabled" THEN None ELSE Notice(r)
  <2>3. /\ answer = Envelope(snapshot, G, policy, notice)
        /\ WithinLimits(Diagnose(snapshot, G), MaxEvidence, MaxRejected)
        /\ Cardinality(CollectedEvidence(Diagnose(snapshot, G), G)) <= MaxEvidence
    BY <2>2, DecidedAnswer
  <2>4. IsFiniteSet(E)
    <3>1. IsFiniteSet(1 .. Len(snapshot))
      BY <2>1, FS_Interval
    <3>2. IsFiniteSet(IF IsAvailable(r) THEN r.events ELSE {})
      BY <2>1, ResultsAssumption, FS_EmptySet DEF IsAvailable
    <3>3. QED
      BY <3>1, <3>2, FS_Union
  <2>5. F \subseteq G /\ \A f \in G : f.events \subseteq E
    <3>1. \A f \in F : f.events \subseteq 1 .. Len(snapshot)
      BY <2>1, PoliciesAreSafe, DeterministicFindingsCite DEF policy
    <3>2. \A f \in SemanticFinding(policy, r) : IsAvailable(r) /\ f.events = r.events
      BY SemanticFindingIs DEF Finding
    <3>3. QED
      BY <3>1, <3>2 DEF Findings
  <2>6. DeterministicAnswer = Assemble(snapshot, F, policy, None)
    BY <2>1, DeterministicAnswerIs DEF DeterministicAnswer, Missing, policy
  <2> HIDE DEF F, G, E, notice
  <2>7. /\ WithinLimits(Diagnose(snapshot, F), MaxEvidence, MaxRejected)
        /\ Cardinality(CollectedEvidence(Diagnose(snapshot, F), F)) <= MaxEvidence
        /\ Diagnose(snapshot, F).causes \subseteq Diagnose(snapshot, G).causes
    BY <2>1, <2>3, <2>4, <2>5, FewerFindingsFit
  <2>8. DeterministicAnswer = Envelope(snapshot, F, policy, None)
    BY <2>6, <2>7 DEF Assemble
  <2> DEFINE before == SelectDecision(Diagnose(snapshot, F), F, policy)
             after == SelectDecision(Diagnose(snapshot, G), G, policy)
  <2>9. DeterministicAnswer.decision = before /\ answer.decision = after
    BY <2>3, <2>8, EnvelopeIs
  <2>10. IsSafeLadder(policy)
    BY <2>1, PoliciesAreSafe DEF policy
  <2>11. Strength(before) <= Strength(after)
    BY <2>5, <2>7, <2>10, MoreEvidenceNeverRelaxes
  <2>12. before \in Decision /\ after \in Decision
    <3>1. \A d, H : SelectDecision(d, H, policy) \in policy.permitted \cup {"continue"}
      BY <2>10, DecisionIsPermitted
    <3>2. policy.permitted \cup {"continue"} \subseteq Decision
      BY <2>10 DEF IsSafeLadder, Decision
    <3>3. QED
      BY <3>1, <3>2
  <2> HIDE DEF before, after
  <2>13. Strength(before) \in Nat /\ Strength(after) \in Nat
    BY <2>12 DEF Decision, Stage, Strength
  <2>14. QED
    BY <2>9, <2>11, <2>12, <2>13, RankIsStrength
<1>2. QED
  BY <1>1, Invariance, PTL

-----------------------------------------------------------------------------
(* What the host makes of an answer.                                       *)

\* A record of a hard stop names it and never reads as a recovery.
THEOREM HardStopsAreRecorded == Spec => []HardStopIsRecorded
<1>1. IInv => HardStopIsRecorded
  <2> SUFFICES ASSUME IInv, Concluded, HardStopsOf(snapshot) # {}, NEW outcome \in Outcomes
               PROVE  LET record == RecordOutcome(answer, outcome)
                      IN  /\ record.error = None
                          /\ record.reason \in {"budget_limit_reached", "risk_detected"}
                          /\ record.reason = "risk_detected" => record.avoided
                          /\ record.final \in {"stopped", "blocked", "escalated"}
    BY DEF HardStopIsRecorded
  <2>1. snapshot \in Seq(Recordings(scenario))
    BY Conclusion DEF Recorded
  <2>2. PICK r \in scenario.results : answer = Answer(snapshot, policy, r) /\ answer.error = None
    BY Conclusion
  <2> DEFINE F == Findings(snapshot, policy, r)
             notice == IF policy.semantic = "disabled" THEN None ELSE Notice(r)
             record == RecordOutcome(answer, outcome)
             classes == MatchedClasses(answer)
  <2>3. answer = Envelope(snapshot, F, policy, notice)
    BY <2>2, DecidedAnswer
  <2>4. PICK f \in HardFindingsOf(snapshot, policy) : f.class \in {"risk", "budget"}
    BY <2>1, HardStopsAreFound
  <2>5. f \in F
    BY <2>4 DEF Findings, DeterministicFindings, HardFindingsOf
  <2> HIDE DEF F, notice
  <2>6. answer.decision = "stop" /\ answer.confidence.weighted = Weighted(F, policy)
    BY <2>3, <2>4, <2>5, HardFindingStops, EnvelopeIs
  <2>7. PICK c \in answer.confidence.weighted : c.class = f.class
    <3> DEFINE c == [id |-> f.id, class |-> f.class, weighted_score |-> Weight(f, policy)]
    <3>1. c \in Weighted(F, policy) /\ c.class = f.class
      BY <2>5 DEF Weighted
    <3>2. QED
      BY <2>6, <3>1
  <2>8. {"risk", "budget"} \cap classes # {}
    BY <2>4, <2>7 DEF MatchedClasses
  <2>9. /\ record.error = None /\ record.reason = TriggerReason(answer)
        /\ record.avoided = (\/ answer.decision = "stop" /\ "risk" \in classes
                             \/ outcome.denied)
        /\ record.final = FinalStatus(answer, outcome)
    BY <2>7 DEF RecordOutcome
  <2>10. FinalStatus(answer, outcome) \in {"stopped", "blocked", "escalated"}
    BY <2>6 DEF FinalStatus
  <2>11. /\ TriggerReason(answer) \in {"budget_limit_reached", "risk_detected"}
         /\ TriggerReason(answer) = "risk_detected" => "risk" \in classes
    BY <2>8 DEF TriggerReason
  <2> HIDE DEF record, classes
  <2>12. QED
    BY <2>6, <2>9, <2>10, <2>11 DEF record
<1>2. QED
  BY <1>1, Invariance, PTL

LEMMA MaxOfNaturals ==
  ASSUME NEW n \in Nat, NEW T \in SUBSET (0 .. n), T # {}
  PROVE  Max(T) \in T /\ \A k \in T : k <= Max(T)
<1> DEFINE U == {k + 1 : k \in T}
<1>1. U \in SUBSET (1 .. n + 1) /\ U # {} /\ n + 1 \in Nat
  <2>1. n + 1 \in Nat /\ \A k \in T : k + 1 \in 1 .. n + 1
    OBVIOUS
  <2>2. PICK k \in T : TRUE
    OBVIOUS
  <2>3. k + 1 \in U
    OBVIOUS
  <2>4. U \in SUBSET (1 .. n + 1)
    BY <2>1
  <2>5. QED
    BY <2>1, <2>3, <2>4
<1>2. PICK u \in U : \A v \in U : v <= u
  <2> HIDE DEF U
  <2>1. QED
    BY <1>1, GreatestExists
<1>3. PICK m \in T : u = m + 1
  BY <1>2
<1>4. \A k \in T : k <= m
  <2> TAKE k \in T
  <2>1. k + 1 \in U
    OBVIOUS
  <2>2. k + 1 <= m + 1
    BY <1>2, <1>3, <2>1
  <2>3. QED
    BY <2>2
<1>5. \E x \in T : \A k \in T : x >= k
  BY <1>4
<1>6. QED
  BY <1>5 DEF Max

\* The score of a class is a natural.
LEMMA ClassScoreIs ==
  ASSUME NEW s \in Scenarios, NEW F, \A f \in F : f.class \in FindingClass, NEW class
  PROVE  ClassScore(class, F, s.policy) \in Nat
<1> DEFINE p == s.policy
           W == {p.semantic_weight, p.weights["repetition"], p.weights["no_progress"],
                 p.weights["risk"], p.weights["budget"]}
           B == p.semantic_weight + p.weights["repetition"] + p.weights["no_progress"]
                  + p.weights["risk"] + p.weights["budget"]
           T == {0} \cup {Weight(f, p) : f \in {g \in F : g.class = class}}
<1>1. /\ p.semantic_weight \in Nat
      /\ p.weights["repetition"] \in Nat /\ p.weights["no_progress"] \in Nat
      /\ p.weights["risk"] \in Nat /\ p.weights["budget"] \in Nat
  <2>1. p.weights \in [FindingClass -> Nat] /\ p.semantic_weight \in Nat
    BY PoliciesAreSafe
  <2> HIDE DEF p
  <2>2. QED
    BY <2>1 DEF FindingClass
<1>2. \A f \in F : Weight(f, p) \in W
  <2> HIDE DEF p
  <2>1. QED
    BY DEF Weight, FindingClass
<1> HIDE DEF p
<1>3. B \in Nat /\ W \subseteq 0 .. B
  BY <1>1
<1>4. T \in SUBSET (0 .. B) /\ T # {}
  <2> HIDE DEF W, B
  <2>1. 0 \in 0 .. B
    BY <1>3
  <2>2. QED
    BY <1>2, <1>3, <2>1
<1> HIDE DEF T, B, W
<1>5. Max(T) \in 0 .. B
  BY <1>3, <1>4, MaxOfNaturals
<1>6. Max(T) \in Nat
  BY <1>3, <1>5
<1>7. QED
  BY <1>6 DEF ClassScore, T, p

\* Min of two naturals.
LEMMA MinOfTwo ==
  ASSUME NEW a \in Nat, NEW b \in Nat
  PROVE  Min({a, b}) \in Nat /\ (Min({a, b}) > 0 <=> a > 0 /\ b > 0)
<1>1. Min({a, b}) \in {a, b} /\ Min({a, b}) <= a /\ Min({a, b}) <= b
  <2>1. \E x \in {a, b} : \A y \in {a, b} : x <= y
    OBVIOUS
  <2>2. QED
    BY <2>1 DEF Min
<1> DEFINE m == Min({a, b})
<1> HIDE DEF m
<1>2. m \in {a, b} /\ m <= a /\ m <= b
  BY <1>1 DEF m
<1>3. m \in Nat /\ (m > 0 <=> a > 0 /\ b > 0)
  BY <1>2
<1>4. QED
  BY <1>3 DEF m

\* What a reheat rests on.
LEMMA ReheatIs ==
  ASSUME NEW d, NEW F, NEW p, SelectDecision(d, F, p) = "reheat",
         \A f \in F : f.class \in FindingClass
  PROVE  /\ \A f \in F : f.class \in {"repetition", "no_progress"}
         /\ d.causes \cap {"missing_authority", "unsafe_side_effect", "exhausted_budget"} = {}
         /\ {"nudge", "diagnose"} \cap p.permitted = {} /\ AllowsReheat(p)
         /\ SelectRecovery("reheat", d.causes) \in {"research", "branch", "model_switch"}
         /\ RequiresHostAction("reheat", p) = ("reheat" \in p.host_action)
         /\ ReasonCodes("reheat", F, p) = ExpectedReasons("reheat" \in p.host_action)
<1>1. /\ {"repetition", "no_progress"} \subseteq Observed(F)
      /\ \A f \in F : /\ f.class \notin {"risk", "budget"}
                      /\ f.reason \notin {"risk_detected", "budget_limit_reached"}
      /\ d.causes \cap {"unsafe_side_effect", "exhausted_budget", "missing_authority"} = {}
  BY InterventionPassesGate
<1>2. \A f \in F : f.class \in {"repetition", "no_progress"}
  BY <1>1 DEF FindingClass
<1>3. LowestStage(p) = "reheat"
  BY DEF SelectDecision, Escalation
<1>4. {"nudge", "diagnose"} \cap p.permitted = {} /\ AllowsReheat(p)
  BY <1>3 DEF LowestStage, Escalation
<1>5. SelectRecovery("reheat", d.causes) \in {"research", "branch", "model_switch"}
  BY DEF SelectRecovery
<1>6. RequiresHostAction("reheat", p) = ("reheat" \in p.host_action)
  BY DEF RequiresHostAction
<1>7. SignalsAgree(F) /\ ~IsRiskObserved(F) /\ ~IsBudgetObserved(F)
  BY <1>1 DEF SignalsAgree, IsRiskObserved, IsBudgetObserved
<1>8. \A x : x \in ReasonCodes("reheat", F, p) <=>
               \/ x \in {"signals_agree", "repetition_detected", "no_progress_detected"}
               \/ x = "host_action_required" /\ "reheat" \in p.host_action
  BY <1>1, <1>6, <1>7 DEF ReasonCodes
<1>9. \A x : x \in ExpectedReasons("reheat" \in p.host_action) <=>
               \/ x \in {"signals_agree", "repetition_detected", "no_progress_detected"}
               \/ x = "host_action_required" /\ "reheat" \in p.host_action
  BY DEF ExpectedReasons
<1>10. ReasonCodes("reheat", F, p) = ExpectedReasons("reheat" \in p.host_action)
  <2> DEFINE A == ReasonCodes("reheat", F, p)
             B == ExpectedReasons("reheat" \in p.host_action)
  <2>1. \A x : x \in A <=> x \in B
    BY <1>8, <1>9
  <2> HIDE DEF A, B
  <2>2. A = B
    BY <2>1
  <2>3. QED
    BY <2>2 DEF A, B
<1>11. d.causes \cap {"missing_authority", "unsafe_side_effect", "exhausted_budget"} = {}
  BY <1>1
<1>12. QED
  BY <1>2, <1>4, <1>5, <1>6, <1>10, <1>11

\* The classes and scores of the contributions are those of the findings.
LEMMA ContributionsAre ==
  ASSUME NEW t, NEW F, NEW p, NEW notice
  PROVE  LET e == Envelope(t, F, p, notice)
         IN  /\ \A class : Maximum(e, class) = ClassScore(class, F, p)
             /\ {c.class : c \in e.confidence.weighted} = {f.class : f \in F}
<1> DEFINE e == Envelope(t, F, p, notice)
           C(f) == [id |-> f.id, class |-> f.class, weighted_score |-> Weight(f, p)]
<1>1. e.confidence.weighted = {C(f) : f \in F}
  BY EnvelopeIs DEF Weighted
<1>2. \A f : C(f).class = f.class /\ C(f).weighted_score = Weight(f, p)
  OBVIOUS
<1> HIDE DEF e, C
<1>3. {c.class : c \in e.confidence.weighted} = {f.class : f \in F}
  BY <1>1, <1>2
<1>4. ASSUME NEW class
      PROVE  Maximum(e, class) = ClassScore(class, F, p)
  <2>1. {x.weighted_score : x \in {c \in e.confidence.weighted : c.class = class}}
          = {Weight(f, p) : f \in {g \in F : g.class = class}}
    BY <1>1, <1>2
  <2>2. QED
    BY <2>1 DEF Maximum, ClassScore
<1>5. QED
  BY <1>3, <1>4 DEF e

\* An instruction is built for a reheat of positive confidence under a policy
\* that lets reads be repeated, and is the one the policy layer constructs.
THEOREM ReheatsAreExecutable == Spec => []ReheatIsExecutable
<1>1. IInv => ReheatIsExecutable
  <2> SUFFICES ASSUME IInv, Concluded
               PROVE  LET built == BuildInstruction(answer)
                      IN  /\ HardStopsOf(snapshot) # {} => built = None
                          /\ answer.decision # "reheat" => built = None
                          /\ answer.decision = "reheat" =>
                               (built.error = None
                                  <=> answer.confidence.score > 0 /\ "read_only" \in policy.repeatable)
                          /\ policy.semantic = "disabled"
                               /\ built \notin {None, Refused("invalid_recovery_decision")}
                               => built = Constructed
    BY DEF ReheatIsExecutable
  <2>1. Recorded(snapshot, scenario) /\ scenario \in Scenarios
    BY Conclusion DEF IInv
  <2>2. PICK r \in scenario.results : answer = Answer(snapshot, policy, r) /\ answer.error = None
    BY Conclusion
  <2> DEFINE F == Findings(snapshot, policy, r)
             notice == IF policy.semantic = "disabled" THEN None ELSE Notice(r)
             d == Diagnose(snapshot, F)
             built == BuildInstruction(answer)
  <2>3. answer = Envelope(snapshot, F, policy, notice)
    BY <2>2, DecidedAnswer
  <2>4. \A f \in F : f.class \in FindingClass
    <3>1. \A f \in DeterministicFindings(snapshot, policy) : f.class \in FindingClass
      BY <2>1, PoliciesAreSafe, DeterministicFindingsCite DEF policy
    <3>2. ASSUME NEW f \in SemanticFinding(policy, r)
          PROVE  f.class \in FindingClass
      <4>1. IsAvailable(r) /\ f.class = r.class
        BY SemanticFindingIs DEF Finding
      <4>2. r.class \in {"repetition", "no_progress"}
        BY <2>1, <4>1, ResultsAssumption DEF IsAvailable
      <4>3. QED
        BY <4>1, <4>2 DEF FindingClass
    <3>3. QED
      BY <3>1, <3>2 DEF Findings
  <2>5. HardStopsOf(snapshot) # {} => answer.decision = "stop"
    <3> SUFFICES ASSUME HardStopsOf(snapshot) # {}
                 PROVE  answer.decision = "stop"
      OBVIOUS
    <3>1. PICK f \in HardFindingsOf(snapshot, policy) : f.class \in {"risk", "budget"}
      BY <2>1, HardStopsAreFound DEF Recorded
    <3>2. f \in F
      BY <3>1 DEF Findings, DeterministicFindings, HardFindingsOf
    <3> HIDE DEF F, notice
    <3>3. QED
      BY <2>3, <3>1, <3>2, HardFindingStops
  <2>6. answer.decision # "reheat" => built = None
    BY DEF BuildInstruction
  <2>7. policy.semantic = "disabled" => F = DeterministicFindings(snapshot, policy)
    BY SemanticFindingIs DEF Findings
  <2>8. ASSUME answer.decision = "reheat"
        PROVE  /\ built.error = None
                    <=> answer.confidence.score > 0 /\ "read_only" \in policy.repeatable
               /\ policy.semantic = "disabled" /\ built # Refused("invalid_recovery_decision")
                    => built = Constructed
    <3> HIDE DEF F, notice
    <3>1. /\ SelectDecision(d, F, policy) = "reheat"
          /\ answer.evidence = CollectedEvidence(d, F)
          /\ answer.reasons = ReasonCodes("reheat", F, policy)
          /\ answer.recovery = SelectRecovery("reheat", d.causes)
          /\ answer.host_action = RequiresHostAction("reheat", policy)
          /\ answer.confidence.score = Confidence("reheat", F, policy)
          /\ answer.gaps = d.causes /\ answer.rejected = d.rejected
          /\ answer.allowed = policy.repeatable
      BY <2>3, <2>8, EnvelopeIs
    <3> HIDE DEF d
    <3>2. /\ \A f \in F : f.class \in {"repetition", "no_progress"}
          /\ d.causes \cap {"missing_authority", "unsafe_side_effect", "exhausted_budget"} = {}
          /\ {"nudge", "diagnose"} \cap policy.permitted = {} /\ AllowsReheat(policy)
          /\ SelectRecovery("reheat", d.causes) \in {"research", "branch", "model_switch"}
          /\ RequiresHostAction("reheat", policy) = ("reheat" \in policy.host_action)
          /\ ReasonCodes("reheat", F, policy) = ExpectedReasons("reheat" \in policy.host_action)
      BY <2>4, <3>1, ReheatIs
    <3> DEFINE a == ClassScore("repetition", F, policy)
               b == ClassScore("no_progress", F, policy)
    <3>3. /\ Maximum(answer, "repetition") = a /\ Maximum(answer, "no_progress") = b
          /\ \A c \in answer.confidence.weighted : c.class \in {"repetition", "no_progress"}
      <4> HIDE DEF a, b
      <4>1. /\ \A class : Maximum(Envelope(snapshot, F, policy, notice), class)
                             = ClassScore(class, F, policy)
            /\ {c.class : c \in Envelope(snapshot, F, policy, notice).confidence.weighted}
                 = {f.class : f \in F}
        BY ContributionsAre
      <4>2. /\ Maximum(answer, "repetition") = ClassScore("repetition", F, policy)
            /\ Maximum(answer, "no_progress") = ClassScore("no_progress", F, policy)
        BY <2>3, <4>1
      <4>3. {c.class : c \in answer.confidence.weighted} = {f.class : f \in F}
        BY <2>3, <4>1
      <4>4. \A c \in answer.confidence.weighted : c.class \in {"repetition", "no_progress"}
        BY <3>2, <4>3
      <4>5. QED
        BY <4>2, <4>4 DEF a, b
    <3>4. a \in Nat /\ b \in Nat
      BY <2>1, <2>4, ClassScoreIs DEF policy
    <3>5. answer.confidence.score = Min({a, b})
      BY <3>1 DEF Confidence
    <3> HIDE DEF a, b
    <3>6. answer.confidence.score > 0 <=> a > 0 /\ b > 0
      BY <3>4, <3>5, MinOfTwo
    <3>7. answer.reasons = ExpectedReasons(answer.host_action)
      BY <3>1, <3>2
    <3>8. IsRecoveryDecision(answer)
            <=> answer.confidence.score > 0 /\ "read_only" \in policy.repeatable
      BY <3>1, <3>2, <3>3, <3>5, <3>6, <3>7 DEF IsRecoveryDecision
    <3>9. built = IF IsRecoveryDecision(answer)
                  THEN Instruction(d.causes, CollectedEvidence(d, F), d.rejected)
                  ELSE Refused("invalid_recovery_decision")
      BY <2>8, <3>1 DEF BuildInstruction
    <3>10. Refused("invalid_recovery_decision").error # None
      BY NoneIsNoCode DEF Refused
    <3>11. \A x, y, z : Instruction(x, y, z).error = None
      BY DEF Instruction
    <3> HIDE DEF built
    <3>12. built.error = None <=> IsRecoveryDecision(answer)
      BY <3>9, <3>10, <3>11
    <3>13. ASSUME policy.semantic = "disabled", built # Refused("invalid_recovery_decision")
           PROVE  built = Constructed
      <4> DEFINE selection == Select(d, F, policy)
      <4>1. Constructed = ConstructInstruction(d, F, policy)
        BY <2>7, <3>13 DEF Constructed, d
      <4>2. /\ selection.decision = "reheat"
            /\ selection.recovery = SelectRecovery("reheat", d.causes)
            /\ selection.reasons = ReasonCodes("reheat", F, policy)
            /\ selection.evidence = CollectedEvidence(d, F)
            /\ selection.host_action = RequiresHostAction("reheat", policy)
        BY <3>1 DEF Select
      <4>3. d.evidence \subseteq CollectedEvidence(d, F)
        BY DEF CollectedEvidence
      <4> HIDE DEF selection
      <4>4. IsReheatSelection(selection, d, policy)
        BY <3>2, <4>2, <4>3 DEF IsReheatSelection
      <4>5. ConstructInstruction(d, F, policy) =
              Instruction(d.causes, CollectedEvidence(d, F), d.rejected)
        BY <4>2, <4>4 DEF ConstructInstruction, selection
      <4>6. QED
        BY <3>9, <3>13, <4>1, <4>5
    <3>14. QED
      BY <3>8, <3>12, <3>13
  <2>9. QED
    <3> HIDE DEF built
    <3>1. /\ HardStopsOf(snapshot) # {} => built = None
          /\ answer.decision # "reheat" => built = None
          /\ answer.decision = "reheat" =>
               (built.error = None
                  <=> answer.confidence.score > 0 /\ "read_only" \in policy.repeatable)
          /\ policy.semantic = "disabled"
               /\ built \notin {None, Refused("invalid_recovery_decision")}
               => built = Constructed
      BY <2>5, <2>6, <2>8
    <3>2. QED
      BY <3>1 DEF built
<1>2. QED
  BY <1>1, Invariance, PTL

=============================================================================
