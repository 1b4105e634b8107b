--------------------------- MODULE MCHardStopScan ---------------------------
(***************************************************************************)
(* Calls of two actions with every effect class that matters, one action   *)
(* in two forms, a call by reference, and counters below and at the limit. *)
(***************************************************************************)
EXTENDS HardStopScan

Call(source, action, effect) ==
  [Blank EXCEPT !.kind = "tool_call", !.source = source, !.action = action, !.effect = effect]

Spent(turns, tokens) ==
  [c \in CounterNames |-> IF c = "turns" THEN turns ELSE IF c = "tokens" THEN tokens ELSE 0]

MCEvent ==
  {Call("payload_digest", "a", effect) :
     effect \in {"read_only", "idempotent_write", "non_idempotent_write", "unknown"}}
    \cup {Call("payload", "a", effect) : effect \in {"read_only", "unknown"}}
    \cup {Call("payload_ref", None, "unknown")}
    \cup {[Blank EXCEPT !.kind = "tool_result", !.source = "payload_digest", !.action = "a"]}
    \cup {[Blank EXCEPT !.kind = "budget", !.counters = Spent(1, 1)],
          [Blank EXCEPT !.kind = "message", !.counters = Spent(0, 3)]}

MCWholeRun == [c \in CounterNames |-> IF c = "turns" THEN 2 ELSE 3]
=============================================================================
