-------------------------- MODULE ExactRepetition --------------------------
(***************************************************************************)
(* detect_exact_repetition: the same tool call with the same result, twice *)
(* in the window.  ExactStep is the loop body at position p of window w;   *)
(* an iteration after the return leaves the state alone.                   *)
(*   calls   identities of the calls passed, by event id                   *)
(*   pairs   for each (call, result) identity pair the FIRST call and      *)
(*           result that had it                                            *)
(*   match   the supporting events of the returned finding, {} for none    *)
(***************************************************************************)
EXTENDS TraceEvents

ExactStart == [calls |-> << >>, pairs |-> << >>, match |-> {}]

ClosesCall(s, e) ==
  /\ e.kind = "tool_result"
  /\ e.parent \in DOMAIN s.calls
  /\ Identity(e) # None

PairOf(s, e) == <<s.calls[e.parent], Identity(e)>>

\* f with x mapped to v.
With(f, x, v) == [y \in DOMAIN f \cup {x} |-> IF y = x THEN v ELSE f[y]]

\* Mutant: the call is kept by an index counted from zero.
KeepIndex(s, e) ==
  IF PairOf(s, e) \in DOMAIN s.pairs
  THEN s.pairs
  ELSE With(s.pairs, PairOf(s, e), <<e.parent - 1, e.id>>)

KeepFirst(s, e) ==
  IF PairOf(s, e) \in DOMAIN s.pairs
  THEN s.pairs
  ELSE With(s.pairs, PairOf(s, e), <<e.parent, e.id>>)

\* Mutant: a duplicated result of one call counts as a repetition.
RepeatsPairOfAnyCall(s, e) == PairOf(s, e) \in DOMAIN s.pairs

\* A second result of the same call repeats nothing.
RepeatsPair(s, e) ==
  /\ PairOf(s, e) \in DOMAIN s.pairs
  /\ s.pairs[PairOf(s, e)][1] # e.parent

ExactStep(s, w, p) ==
  LET e == w[p]
  IN  IF s.match # {} THEN s
      ELSE IF e.kind = "tool_call" /\ Identity(e) # None
      THEN [s EXCEPT !.calls = With(@, e.id, Identity(e))]
      ELSE IF ~ClosesCall(s, e) THEN s
      ELSE IF RepeatsPair(s, e)
      THEN [s EXCEPT !.match = {s.pairs[PairOf(s, e)][1], s.pairs[PairOf(s, e)][2],
                                e.parent, e.id}]
      ELSE [s EXCEPT !.pairs = KeepFirst(s, e)]
=============================================================================
