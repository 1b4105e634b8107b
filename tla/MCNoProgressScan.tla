-------------------------- MODULE MCNoProgressScan --------------------------
(***************************************************************************)
(* Alphabets for the no-progress and budget detectors.  Each holds the     *)
(* events of one detector and events that are progress.                    *)
(***************************************************************************)
EXTENDS NoProgressScan

Observe(s) == [Blank EXCEPT !.kind = "state_observation", !.fp = s]
Expecting(e) == [e EXCEPT !.expects = TRUE]
Note == [Blank EXCEPT !.kind = "message"]
Handoff == [Blank EXCEPT !.kind = "handoff", !.productive = TRUE]
Evidence == [Note EXCEPT !.refs = {"r"}]

StateEvents ==
  {Observe("s"), Observe("t"), Expecting(Note), Expecting(Observe("s")),
   [Note EXCEPT !.fp = "t"], [Expecting(Note) EXCEPT !.fp = "s"], Evidence}

Check(c, delta) ==
  [Blank EXCEPT !.kind = "acceptance_check", !.source = "payload_digest",
                !.action = c, !.delta = delta]
CheckEvents ==
  {Check(c, d) : c \in {"a", "b"}, d \in {"", "gain"}}
    \cup {Check("a", None), [Blank EXCEPT !.kind = "acceptance_check", !.delta = ""],
          Handoff}

\* Budgets that differ in two of the five counters.
Spent(turns, tokens) ==
  [Blank EXCEPT !.kind = "budget",
     !.counters = [c \in CounterNames |->
                     IF c = "turns" THEN turns ELSE IF c = "tokens" THEN tokens ELSE 0]]
BudgetEvents ==
  {Spent(1, 1), Spent(2, 1), Spent(1, 2), Spent(2, 2), Handoff, Evidence}

MCAlphabets == {StateEvents, CheckEvents, BudgetEvents}
=============================================================================
