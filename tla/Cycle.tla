------------------------------- MODULE Cycle -------------------------------
(***************************************************************************)
(* detect_cycle: the observed state comes back after two to five           *)
(* observations, having changed in between, and the window from the first  *)
(* to the last of them shows no progress.                                  *)
(*   observations   positions of the fingerprinted observations passed     *)
(*   match          the supporting events of the finding, {} for none      *)
(***************************************************************************)
EXTENDS Progress

CycleStart == [observations |-> << >>, match |-> {}]

\* Mutant: a state that never changed counts as a cycle.
HasReturn(w, observations, steps) ==
  LET n == Len(observations)
  IN  w[observations[n - steps]].fp = w[observations[n]].fp

\* _has_cycle: the latest observations close a cycle of this many steps.
HasCycle(w, observations, steps) ==
  LET n     == Len(observations)
      fp(i) == w[observations[i]].fp
  IN  /\ fp(n - steps) = fp(n)
      /\ \E i \in n - steps + 1 .. n - 1 : fp(i) # fp(n)

CycleSteps(n) == 2 .. (IF n - 1 < 5 THEN n - 1 ELSE 5)

CycleStep(s, w, p) ==
  LET n   == Len(s.observations) + 1
      obs == Append(s.observations, p)
      closing == {k \in CycleSteps(n) :
                    /\ HasCycle(w, obs, k)
                    /\ ~MadeProgress(SubSeq(w, obs[n - k], p))}
  IN  IF s.match # {} \/ ~IsFingerprintedObservation(w[p]) THEN s
      ELSE [observations |-> obs,
            match |-> IF closing = {} THEN {}
                      ELSE {w[obs[i]].id : i \in n - Min(closing) .. n}]
=============================================================================
