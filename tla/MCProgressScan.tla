--------------------------- MODULE MCProgressScan ---------------------------
(***************************************************************************)
(* Alphabets for the progress pass.  Each alphabet lets the markers of two *)
(* or three reasons interleave, with events that must not count between    *)
(* them.                                                                   *)
(***************************************************************************)
EXTENDS ProgressScan

Observe(s) == [Blank EXCEPT !.kind = "state_observation", !.fp = s]
Expecting(e) == [e EXCEPT !.expects = TRUE]
Note == [Blank EXCEPT !.kind = "message"]

\* Expectations with and without a fingerprint of their own.
StateEvents ==
  {Observe("s"), Observe("t"), Expecting(Observe("s")), Expecting(Note),
   [Expecting(Note) EXCEPT !.fp = "t"]}

Poll(id, target, value) ==
  [Blank EXCEPT !.kind = "state_observation",
                !.source = "payload", !.action = <<id, target, value>>,
                !.poll = [id |-> id, target |-> target, value |-> value]]
PollEvents ==
  {Poll("p", 0, v) : v \in {3, 4, 5}} \cup {Poll("p", 4, 5), Poll("q", 0, 3), Note}

Failure(x, stack) == [Blank EXCEPT !.kind = "error", !.error = x, !.frames = stack]
ErrorEvents ==
  {Failure(x, stack) : x \in {None, "x", "y"}, stack \in {{}, {"f"}}}
    \cup {[Note EXCEPT !.frames = {"g"}]}

Plan(hs) == [Blank EXCEPT !.kind = "plan", !.eliminated = hs]
EvidenceEvents ==
  {Plan({}), Plan({"h"}), Plan({"h", "k"}), [Note EXCEPT !.refs = {"r"}], Note,
   [Blank EXCEPT !.kind = "handoff", !.productive = TRUE], [Blank EXCEPT !.kind = "handoff"]}

Check(required, delta) ==
  [Blank EXCEPT !.kind = "acceptance_check", !.required = required, !.delta = delta]
PageEvents ==
  {[Blank EXCEPT !.kind = "tool_result", !.cursor = c] : c \in {"1", "2"}}
    \cup {[Blank EXCEPT !.kind = "tool_result", !.item = c] : c \in {"a", "b"}}
    \cup {Check(TRUE, None), Check(TRUE, ""), Check(FALSE, "gain")}

TestEvents ==
  {[Blank EXCEPT !.kind = "tool_call", !.hypothesis = <<h, i>>] : h \in {"h", "k"}, i \in {1, 2}}
    \cup {Check(TRUE, "gain"), Note}

MCAlphabets == {StateEvents, PollEvents, ErrorEvents, EvidenceEvents, PageEvents, TestEvents}
PollAlphabet == {PollEvents}
=============================================================================
