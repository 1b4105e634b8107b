-------------------------- MODULE AcceptanceStall --------------------------
(***************************************************************************)
(* detect_acceptance_stall: one acceptance check reports the same delta    *)
(* again with no progress in between.                                      *)
(*   baselines   check identity -> <<its delta, its position>>             *)
(*   match       the supporting events of the finding, {} for none         *)
(***************************************************************************)
EXTENDS Progress

StallStart == [baselines |-> << >>, match |-> {}]

\* _acceptance_key: only a check with an identity and an explicit delta
\* (possibly empty) can be compared.
IsComparableCheck(e) ==
  e.kind = "acceptance_check" /\ Identity(e) # None /\ e.delta # None

\* Mutant: a check keeps its first baseline.
RebaseOnce(baselines, e, p) ==
  [i \in DOMAIN baselines \cup {Identity(e)} |->
     IF i \in DOMAIN baselines THEN baselines[i] ELSE <<e.delta, p>>]

Rebase(baselines, e, p) ==
  [i \in DOMAIN baselines \cup {Identity(e)} |->
     IF i = Identity(e) THEN <<e.delta, p>> ELSE baselines[i]]

\* Mutant: the delta is not compared.
RepeatsCheck(s, e) == Identity(e) \in DOMAIN s.baselines

RepeatsDelta(s, e) ==
  /\ Identity(e) \in DOMAIN s.baselines
  /\ s.baselines[Identity(e)][1] = e.delta

ProgressSince(w, from, p) == MadeProgress(SubSeq(w, from, p))

\* Progress ends the no-progress episode of every check, not only of this one.
StallStep(s, w, p) ==
  LET e == w[p]
  IN  IF s.match # {} \/ ~IsComparableCheck(e) THEN s
      ELSE IF ~RepeatsDelta(s, e) THEN [s EXCEPT !.baselines = Rebase(@, e, p)]
      ELSE IF ProgressSince(w, s.baselines[Identity(e)][2], p)
      THEN [s EXCEPT !.baselines = Rebase(<< >>, e, p)]
      ELSE [s EXCEPT !.match = {w[s.baselines[Identity(e)][2]].id, e.id}]
=============================================================================
