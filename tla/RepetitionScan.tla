--------------------------- MODULE RepetitionScan ---------------------------
(***************************************************************************)
(* The three detectors of the repetition class over one growing window,    *)
(* one event per step: in every state each detector has evaluated exactly  *)
(* `window`.                                                               *)
(***************************************************************************)
EXTENDS ExactRepetition, RepeatedError, Cycle

CONSTANTS
  Alphabets,   \* sets of events; a run draws its window from one of them
  MaxWindow    \* bound on the length of the window

ASSUME WindowBound == MaxWindow \in Nat

\* An event is a record as Blank is one, with one of the three payload forms,
\* and the marker of a call without an identity is not None.
ASSUME EventAssumption ==
  /\ \A a \in Alphabets : \A e \in a :
       DOMAIN e = DOMAIN Blank /\ e.source \in {"payload", "payload_digest", "payload_ref"}
  /\ \A p \in 1 .. MaxWindow : None # <<"unidentified_call", p>>

VARIABLES alphabet, window, exact, repeated, cycle

vars == <<alphabet, window, exact, repeated, cycle>>

Init ==
  /\ alphabet \in Alphabets
  /\ window = << >>
  /\ exact = ExactStart
  /\ repeated = ErrorStart
  /\ cycle = CycleStart

\* Each detector's loop passes the next event.
Pass(e) ==
  /\ Len(window) < MaxWindow
  /\ window' = Record(window, e)
  /\ exact' = ExactStep(exact, window', Len(window'))
  /\ repeated' = ErrorStep(repeated, window', Len(window'))
  /\ cycle' = CycleStep(cycle, window', Len(window'))
  /\ UNCHANGED alphabet

Next == \E e \in alphabet : Pass(e)

Spec == Init /\ [][Next]_vars

\* A detector over a window it has not grown with.
ScanWith(step(_, _, _), start, w) ==
  FoldLeftDomain(LAMBDA s, p : step(s, w, p), start, w).match

-----------------------------------------------------------------------------
(* The repetitions of a window, defined without the detectors.             *)

IsCall(e) == e.kind = "tool_call"

\* A call of the window and a result that answers it.
Answers(w) ==
  {a \in (1 .. Len(w)) \X (1 .. Len(w)) :
     /\ a[1] < a[2]
     /\ IsCall(w[a[1]]) /\ Identity(w[a[1]]) # None
     /\ w[a[2]].kind = "tool_result" /\ Identity(w[a[2]]) # None
     /\ w[a[2]].parent = w[a[1]].id}

\* Two answers to different calls that agree on call and result.
Repeats(w) ==
  {c \in Answers(w) \X Answers(w) :
     /\ c[1][1] # c[2][1]
     /\ Identity(w[c[1][1]]) = Identity(w[c[2][1]])
     /\ Identity(w[c[1][2]]) = Identity(w[c[2][2]])}

RepeatedPairs(w) ==
  {{w[c[1][1]].id, w[c[1][2]].id, w[c[2][1]].id, w[c[2][2]].id} : c \in Repeats(w)}

\* The last call before position i, 0 when there is none.
CallBefore(w, i) == LET calls == {c \in 1 .. i - 1 : IsCall(w[c])}
                    IN  IF calls = {} THEN 0 ELSE Max(calls)

\* The errors at i and j were raised under the same tool input.
SameInput(w, i, j) ==
  LET c == CallBefore(w, i)
      d == CallBefore(w, j)
  IN  \/ c = d
      \/ c # 0 /\ d # 0 /\ Identity(w[c]) # None /\ Identity(w[c]) = Identity(w[d])

RepeatedErrors(w) ==
  {{w[c[1]].id, w[c[2]].id} : c \in
     {c \in (1 .. Len(w)) \X (1 .. Len(w)) :
        /\ c[1] < c[2]
        /\ w[c[1]].kind = "error" /\ w[c[2]].kind = "error"
        /\ w[c[1]].error # None /\ w[c[1]].error = w[c[2]].error
        /\ SameInput(w, c[1], c[2])}}

\* The stretches between two observations of one state, at most five
\* observations apart, with another state seen and no progress in between.
Observations(w) == {p \in 1 .. Len(w) : IsFingerprintedObservation(w[p])}

StateCycles(w) ==
  {{w[p].id : p \in {q \in Observations(w) : c[1] <= q /\ q <= c[2]}} : c \in
     {c \in Observations(w) \X Observations(w) :
        LET between == {q \in Observations(w) : c[1] < q /\ q < c[2]}
        IN  /\ c[1] < c[2] /\ w[c[1]].fp = w[c[2]].fp
            /\ Cardinality(between) \in 1 .. 4
            /\ \E q \in between : w[q].fp # w[c[1]].fp
            /\ ~MadeProgress(SubSeq(w, c[1], c[2]))}}

\* A detector's result is a repetition of the window when there is one, and
\* nothing otherwise.
Decides(match, repetitions) ==
  IF repetitions = {} THEN match = {} ELSE match \in repetitions

-----------------------------------------------------------------------------
(* Properties.                                                             *)

\* Every detector state is the one of its loop over this window.
TypeOK ==
  /\ alphabet \in Alphabets
  /\ Len(window) <= MaxWindow
  /\ DOMAIN exact.calls \subseteq 1 .. Len(window)
  /\ \A pair \in DOMAIN exact.pairs : exact.pairs[pair] \in (1 .. Len(window)) \X (1 .. Len(window))
  /\ \A key \in DOMAIN repeated.first : repeated.first[key] \in 1 .. Len(window)
  /\ cycle.observations \in Seq(1 .. Len(window))
  /\ exact.match \cup repeated.match \cup cycle.match \subseteq 1 .. Len(window)

\* exact_repetition matches exactly the windows in which two different calls
\* with one identity got results with one identity.  The detector remembers
\* only the first call and result of each pair: a duplicated result of one
\* call, in any order with the others, must neither match nor hide a match.
ExactRepetitionDecides == Decides(exact.match, RepeatedPairs(window))

\* repeated_error matches exactly the windows in which one error fingerprint
\* was raised twice under the same tool input, however many other calls and
\* errors came between.
RepeatedErrorDecides == Decides(repeated.match, RepeatedErrors(window))

\* cycle matches exactly the windows that hold a non-progressing return to a
\* state: giving up a cycle that progressed does not lose a later one.
CycleDecides == Decides(cycle.match, StateCycles(window))

\* The detectors see only the last events of the trace.  Cutting the window
\* at any point loses calls, contexts and baselines, and still never makes up
\* a repetition that the whole trace does not hold.
WindowingInventsNothing ==
  \A n \in 1 .. Len(window) :
    LET w == LastEvents(window, n)
    IN  /\ ScanWith(ExactStep, ExactStart, w) \in RepeatedPairs(window) \cup {{}}
        /\ ScanWith(ErrorStep, ErrorStart, w) \in RepeatedErrors(window) \cup {{}}
        /\ ScanWith(CycleStep, CycleStart, w) \in StateCycles(window) \cup {{}}
=============================================================================
