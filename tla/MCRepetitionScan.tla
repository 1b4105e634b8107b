-------------------------- MODULE MCRepetitionScan --------------------------
(***************************************************************************)
(* Alphabets for the repetition detectors.                                 *)
(***************************************************************************)
EXTENDS RepetitionScan

Call(a) == [Blank EXCEPT !.kind = "tool_call", !.source = "payload_digest", !.action = a]
CallByRef == [Blank EXCEPT !.kind = "tool_call"]
Result(call, r) ==
  [Blank EXCEPT !.kind = "tool_result", !.parent = call, !.source = "payload", !.action = r]

\* Calls of two identities and of none, results that answer the first three
\* positions, and a second result value.
CallEvents ==
  {Call("a"), Call("b"), CallByRef} \cup {Result(c, "r") : c \in 1 .. 3} \cup {Result(1, "q")}

Failure(x) == [Blank EXCEPT !.kind = "error", !.error = x]
ErrorEvents == {Call("a"), Call("b"), CallByRef, Failure("x"), Failure("y"), Failure(None)}

Observe(s) == [Blank EXCEPT !.kind = "state_observation", !.fp = s]
ObservationEvents ==
  {Observe("s"), Observe("t"), Observe(None),
   [Blank EXCEPT !.kind = "handoff", !.productive = TRUE],
   [Blank EXCEPT !.kind = "message", !.refs = {"r"}]}

MCAlphabets == {CallEvents, ErrorEvents, ObservationEvents}
=============================================================================
