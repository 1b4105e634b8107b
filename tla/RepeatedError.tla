--------------------------- MODULE RepeatedError ---------------------------
(***************************************************************************)
(* detect_repeated_error: the same error fingerprint twice under the same  *)
(* tool input.  The input an error belongs to is the identity of the last  *)
(* tool call before it in the window; a call without an identity is a      *)
(* context of its own, and before the first call the context is None.      *)
(*   context   the current tool input                                      *)
(*   first     the first error of each (fingerprint, context)              *)
(*   match     the supporting events of the returned finding, {} for none  *)
(***************************************************************************)
EXTENDS TraceEvents

ErrorStart == [context |-> None, first |-> << >>, match |-> {}]

\* Mutant: calls without an identity are taken for one another.
ContextOfAnyCall(call) ==
  IF Identity(call) # None THEN Identity(call) ELSE <<"unidentified_call", 0>>

ContextOf(call) ==
  IF Identity(call) # None THEN Identity(call) ELSE <<"unidentified_call", call.id>>

ErrorStep(s, w, p) ==
  LET e   == w[p]
      key == <<e.error, s.context>>
  IN  IF s.match # {} THEN s
      ELSE IF e.kind = "tool_call" THEN [s EXCEPT !.context = ContextOf(e)]
      ELSE IF e.kind # "error" \/ e.error = None THEN s
      ELSE IF key \in DOMAIN s.first THEN [s EXCEPT !.match = {s.first[key], e.id}]
      ELSE [s EXCEPT !.first = [k \in DOMAIN @ \cup {key} |-> IF k = key THEN e.id ELSE @[k]]]
=============================================================================
