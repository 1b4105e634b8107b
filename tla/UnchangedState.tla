--------------------------- MODULE UnchangedState ---------------------------
(***************************************************************************)
(* detect_unchanged_state: an event expected the state to change, and the  *)
(* next fingerprinted observation shows the state it started from, with no *)
(* progress since the baseline.                                            *)
(*   latest    the last fingerprint passed and its position, None before   *)
(*   pending   baseline fingerprint -> <<its position, the position of the *)
(*             expectation>>, the OLDEST expectation of each baseline      *)
(*   match     the supporting events of the finding, {} for none           *)
(***************************************************************************)
EXTENDS Progress

UnchangedStart == [latest |-> None, pending |-> << >>, match |-> {}]

\* The stretch classified for an observation at p of a pending baseline.
ExpectationWindow(w, expectation, p) ==
  SubSeq(w, IF expectation[1] < expectation[2] THEN expectation[1] ELSE expectation[2], p)

\* The expectation whose baseline is observed again at p without progress.
Unmet(s, w, p) ==
  /\ IsFingerprintedObservation(w[p])
  /\ w[p].fp \in DOMAIN s.pending
  /\ ~MadeProgress(ExpectationWindow(w, s.pending[w[p].fp], p))

\* Mutant: only the observed baseline is settled.
UnsettledOthers(s, e) ==
  IF IsFingerprintedObservation(e)
  THEN [f \in DOMAIN s.pending \ {e.fp} |-> s.pending[f]]
  ELSE s.pending

\* Any other fingerprinted observation settles every pending expectation.
Unsettled(s, e) == IF IsFingerprintedObservation(e) THEN << >> ELSE s.pending

\* Mutant: the position is counted from zero.
LatestIndexAfter(s, e, p) == IF e.fp # None THEN <<e.fp, p - 1>> ELSE s.latest

LatestAfter(s, e, p) == IF e.fp # None THEN <<e.fp, p>> ELSE s.latest

\* pending.setdefault: an expectation does not replace an older one.
Expect(pending, baseline, p) ==
  IF baseline = None \/ baseline[1] \in DOMAIN pending
  THEN pending
  ELSE [f \in DOMAIN pending \cup {baseline[1]} |->
          IF f = baseline[1] THEN <<baseline[2], p>> ELSE pending[f]]

UnchangedStep(s, w, p) ==
  LET e      == w[p]
      latest == LatestAfter(s, e, p)
      kept   == Unsettled(s, e)
  IN  IF s.match # {} THEN s
      ELSE IF Unmet(s, w, p)
      THEN [s EXCEPT !.match = {w[s.pending[e.fp][1]].id, w[s.pending[e.fp][2]].id, e.id}]
      ELSE [s EXCEPT !.latest = latest,
                     !.pending = IF e.expects THEN Expect(kept, latest, p) ELSE kept]
=============================================================================
