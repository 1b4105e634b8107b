------------------------ MODULE CleanCheckoutProofs ------------------------
(***************************************************************************)
(* Proofs about the clean checkout, for any number of verifications of any *)
(* commits over one receipt, any sources and any number of writes to them. *)
(* Nothing is assumed of the files: what the proofs need is kept in what   *)
(* the programs remember of them.                                          *)
(***************************************************************************)
EXTENDS CleanCheckout, TLAPS

Replay == "benchmark_replay_byte_compare"

CloneState == [head : Commits \cup {None}, dirty : BOOLEAN]

CheckoutTypes ==
  /\ DOMAIN phase = Verifiers
  /\ gate \in [Verifiers -> 1 .. Len(COMMAND_NAMES)]
  /\ commit \in [Verifiers -> Commits \cup {None}]
  /\ DOMAIN clone = Verifiers
  /\ outcomes \in [Verifiers -> [Gates -> {"pass", "fail", "not_run"}]]
  /\ failed \in [Verifiers -> BOOLEAN]
  /\ trail \in [Verifiers -> [Gates -> Commits \cup {None}]]
  /\ DOMAIN temporary = Verifiers

\* The digests of all sources were checked when the command loads them.
Audited ==
  /\ DOMAIN stage = Verifiers
  /\ DOMAIN captured = Verifiers
  /\ DOMAIN executed = Verifiers
  /\ \A v \in Verifiers, n \in Names : stage[v] = "load" => captured[v][n] = "audited"
  /\ ReplayIsAudited

\* Behind the first two gates the clone is at the commit.
AtCommit(v) ==
  phase[v] = "gates" =>
    /\ gate[v] > 1 => clone[v] \in CloneState
    /\ gate[v] > 2 => clone[v].head = commit[v]

\* A gate that passed did so in a tree of the commit; the benchmark passes for
\* good only with its second run.
Earned(v) ==
  phase[v] \in {"gates", "verdict", "temporary", "fill", "replace"} =>
    \A g \in Gates \ {"clone"} :
      \/ outcomes[v][g] = "pass" => trail[v][g] = commit[v]
      \/ g = Replay /\ AtReplay(v)

\* What is written is the payload that was validated.
Prepared(v) ==
  /\ phase[v] \in {"temporary", "fill", "replace"} => ValidReceipt(Payload(v))
  /\ phase[v] = "replace" => temporary[v] = Payload(v)

Sound(v) == AtCommit(v) /\ Earned(v) /\ Prepared(v)

IInv ==
  /\ CheckoutTypes
  /\ Audited
  /\ \A v \in Verifiers : Sound(v)
  /\ ReceiptIsWhole
  /\ PassIsEarned

-----------------------------------------------------------------------------
(* The table of the gates.                                                 *)

\* What the proofs use of it: its length, the first two gates, and that the clone
\* is made once.
LEMMA GateTable ==
  /\ Len(COMMAND_NAMES) = 24
  /\ COMMAND_NAMES[1] = "clone" /\ COMMAND_NAMES[2] = "checkout_exact_commit"
  /\ \A i \in 1 .. Len(COMMAND_NAMES) :
       COMMAND_NAMES[i] \in Gates /\ (COMMAND_NAMES[i] = "clone" => i = 1)
  /\ {"clone", "checkout_exact_commit", Replay} \cup GitGates \subseteq Gates
<1>1. /\ Len(COMMAND_NAMES) = 24
      /\ COMMAND_NAMES[1] = "clone" /\ COMMAND_NAMES[2] = "checkout_exact_commit"
      /\ COMMAND_NAMES[3] = "clone_head" /\ COMMAND_NAMES[4] = "clone_clean"
      /\ COMMAND_NAMES[8] = "benchmark_replay_byte_compare"
      /\ COMMAND_NAMES[22] = "forbidden_artifact_paths"
      /\ COMMAND_NAMES[24] = "status_clean"
      /\ \A i \in 1 .. 24 : COMMAND_NAMES[i] = "clone" => i = 1
  BY DEF COMMAND_NAMES
<1>2. QED
  BY <1>1 DEF Gates, GitGates, Replay

\* A gate that is not one of the first two comes behind them.
LEMMA LaterGate ==
  ASSUME CheckoutTypes, NEW v \in Verifiers, NEW name, AtGate(v, name),
         name \notin {"clone", "checkout_exact_commit"}
  PROVE  phase[v] = "gates" /\ gate[v] > 2
BY GateTable DEF CheckoutTypes, AtGate

-----------------------------------------------------------------------------
(* The replay.                                                             *)

\* Whatever the files are, the command loads what it kept of them and checked.
LEMMA ReplayStepKeeps ==
  ASSUME Audited, NEW v \in Verifiers, OpenDirectories(v) \/ BenchmarkStep(v)
  PROVE  Audited'
<1> USE DEF Audited, ReplayIsAudited, At
<1>1. CASE OpenDirectories(v)
  BY <1>1 DEF OpenDirectories, Unavailable, Nothing
<1>2. CASE StatSource(v)
  BY <1>2 DEF StatSource, Unavailable
<1>3. CASE OpenSource(v)
  BY <1>3 DEF OpenSource, Unavailable
<1>4. CASE ReadSource(v)
  BY <1>4 DEF ReadSource
<1>5. CASE RecheckSource(v)
  <2>1. /\ DOMAIN stage' = Verifiers /\ stage'[v] # "load"
        /\ DOMAIN captured' = Verifiers /\ executed' = executed
        /\ \A w \in Verifiers \ {v} : stage'[w] = stage[w] /\ captured'[w] = captured[w]
    BY <1>5 DEF RecheckSource, Unavailable
  <2>2. QED
    BY <2>1
<1>6. CASE CheckDigests(v)
  BY <1>6 DEF CheckDigests, Unavailable
<1>7. CASE LoadSources(v)
  BY <1>7 DEF LoadSources
<1>8. CASE ReplayBytes(v)
  BY <1>8 DEF ReplayBytes
<1>9. QED
  BY <1>1, <1>2, <1>3, <1>4, <1>5, <1>6, <1>7, <1>8 DEF BenchmarkStep

\* Between two commands nothing is executed.
LEMMA ReplayEnds ==
  ASSUME Audited, NEW v \in Verifiers,
         stage' = [stage EXCEPT ![v] = "idle"],
         executed' = [executed EXCEPT ![v] = Nothing],
         captured' \in {captured, [captured EXCEPT ![v] = Nothing]}
  PROVE  Audited'
BY DEF Audited, ReplayIsAudited, Nothing

LEMMA ReplayUntouched ==
  ASSUME Audited, UNCHANGED <<stage, captured, executed>>
  PROVE  Audited'
BY DEF Audited, ReplayIsAudited

-----------------------------------------------------------------------------
(* The gates.                                                              *)

\* All that the invariant says of a verification is about its own state.
Same(w) ==
  /\ phase'[w] = phase[w] /\ gate'[w] = gate[w] /\ commit'[w] = commit[w]
  /\ clone'[w] = clone[w] /\ outcomes'[w] = outcomes[w] /\ failed'[w] = failed[w]
  /\ trail'[w] = trail[w] /\ temporary'[w] = temporary[w]

LEMMA SameIsSound ==
  ASSUME NEW w \in Verifiers, Sound(w), Same(w)
  PROVE  Sound(w)'
<1>1. AtCommit(w)'
  BY DEF Sound, Same, AtCommit, CloneState
<1>2. AtReplay(w)' <=> AtReplay(w)
  BY DEF Same, AtReplay, AtGate
<1>3. Earned(w)'
  BY <1>2 DEF Sound, Same, Earned
<1>4. Payload(w)' = Payload(w)
  BY DEF Same, Payload
<1>5. Prepared(w)'
  BY <1>4 DEF Sound, Same, Prepared, ValidReceipt
<1>6. QED
  BY <1>1, <1>3, <1>5 DEF Sound

\* How a gate ends: the table of the gates is followed, and a pass is earned in
\* the tree the clone has then.
LEMMA OutcomeKeeps ==
  ASSUME CheckoutTypes, NEW v \in Verifiers, Sound(v), NEW name \in Gates, AtGate(v, name),
         NEW ok \in BOOLEAN, Outcome(v, name, ok),
         commit' = commit, DOMAIN clone' = Verifiers, temporary' = temporary,
         ok => clone'[v].head \in Commits \cup {None},
         ok /\ name # "clone" => clone'[v].head = commit[v],
         \A w \in Verifiers \ {v} : clone'[w] = clone[w]
  PROVE  /\ CheckoutTypes'
         /\ \A w \in Verifiers \ {v} : Same(w)
         /\ Earned(v)' /\ Prepared(v)'
         /\ phase'[v] = "gates" => gate'[v] = gate[v] + 1
<1>1. /\ outcomes' = [outcomes EXCEPT ![v][name] = IF ok THEN "pass" ELSE "fail"]
      /\ trail' = IF ok THEN [trail EXCEPT ![v][name] = clone'[v].head] ELSE trail
      /\ \/ gate[v] # Len(COMMAND_NAMES) /\ ok
            /\ gate' = [gate EXCEPT ![v] = @ + 1] /\ phase' = phase
         \/ gate' = gate /\ phase' = [phase EXCEPT ![v] = "verdict"]
      /\ failed' \in {failed, [failed EXCEPT ![v] = TRUE]}
  BY DEF Outcome, SetOutcome, Advance, Raise
<1>2. phase[v] = "gates" /\ COMMAND_NAMES[gate[v]] = name /\ gate[v] \in 1 .. 24
  BY GateTable DEF AtGate, CheckoutTypes
<1>3. gate' \in [Verifiers -> 1 .. Len(COMMAND_NAMES)] /\ DOMAIN phase' = Verifiers
  BY <1>1, <1>2, GateTable DEF CheckoutTypes
<1>4. /\ outcomes' \in [Verifiers -> [Gates -> {"pass", "fail", "not_run"}]]
      /\ trail' \in [Verifiers -> [Gates -> Commits \cup {None}]]
      /\ failed' \in [Verifiers -> BOOLEAN]
  BY <1>1 DEF CheckoutTypes
<1>5. CheckoutTypes'
  BY <1>3, <1>4 DEF CheckoutTypes
<1>6. \A w \in Verifiers \ {v} : Same(w)
  BY <1>1 DEF CheckoutTypes, Same
<1>7. ASSUME NEW g \in Gates \ {"clone"}, outcomes'[v][g] = "pass"
      PROVE  trail'[v][g] = commit'[v]
  <2>1. CASE g = name
    BY <1>1, <1>7, <2>1 DEF CheckoutTypes
  <2>2. CASE g # name
    <3>1. outcomes[v][g] = "pass" /\ trail'[v][g] = trail[v][g]
      BY <1>1, <1>7, <2>2 DEF CheckoutTypes
    <3>2. ~(g = Replay /\ AtReplay(v))
      BY <2>2, <1>2 DEF AtReplay, AtGate, Replay
    <3>3. QED
      BY <1>2, <3>1, <3>2 DEF Sound, Earned
  <2>3. QED
    BY <2>1, <2>2
<1>8. phase'[v] \in {"gates", "verdict"} /\ (phase'[v] = "gates" => gate'[v] = gate[v] + 1)
  BY <1>1, <1>2 DEF CheckoutTypes
<1>9. QED
  BY <1>5, <1>6, <1>7, <1>8 DEF Earned, Prepared

\* A gate that raises or escapes before it has an outcome.
LEMMA NoOutcomeKeeps ==
  ASSUME CheckoutTypes, NEW v \in Verifiers, Sound(v), NEW name, AtGate(v, name), name # Replay,
         Raise(v) \/ Escape(v),
         UNCHANGED <<outcomes, trail, commit, temporary>>, DOMAIN clone' = Verifiers,
         \A w \in Verifiers \ {v} : clone'[w] = clone[w]
  PROVE  /\ CheckoutTypes'
         /\ \A w \in Verifiers \ {v} : Same(w)
         /\ Sound(v)'
<1>1. /\ gate' = gate /\ DOMAIN phase' = Verifiers /\ failed' \in [Verifiers -> BOOLEAN]
      /\ phase'[v] \in {"verdict", "escaped"}
      /\ \A w \in Verifiers \ {v} : phase'[w] = phase[w] /\ failed'[w] = failed[w]
  BY DEF Raise, Escape, CheckoutTypes
<1>2. CheckoutTypes'
  BY <1>1 DEF CheckoutTypes
<1>3. \A w \in Verifiers \ {v} : Same(w)
  BY <1>1 DEF Same
<1>4. phase[v] = "gates" /\ ~AtReplay(v)
  BY DEF AtGate, AtReplay, Replay
<1>5. Sound(v)'
  BY <1>1, <1>4 DEF Sound, AtCommit, Earned, Prepared
<1>6. QED
  BY <1>2, <1>3, <1>5

\* What a step of a verification has to keep; the others keep what they had.
Keeps(v) ==
  /\ CheckoutTypes'
  /\ \A w \in Verifiers \ {v} : Same(w)
  /\ Sound(v)'

LEMMA CloneKeeps ==
  ASSUME CheckoutTypes, NEW v \in Verifiers, Sound(v), Clone(v)
  PROVE  Keeps(v)
<1>1. /\ AtGate(v, "clone") /\ UNCHANGED <<commit, temporary>>
      /\ gate[v] = 1 /\ "clone" \in Gates
  BY GateTable DEF Clone, AtGate, CheckoutTypes
<1>2. CASE /\ clone' = [clone EXCEPT ![v] = [head |-> None, dirty |-> FALSE]]
           /\ Outcome(v, "clone", TRUE)
  <2>1. /\ DOMAIN clone' = Verifiers /\ clone'[v] \in CloneState
        /\ clone'[v].head \in Commits \cup {None}
        /\ \A w \in Verifiers \ {v} : clone'[w] = clone[w]
    BY <1>2 DEF CheckoutTypes, CloneState
  <2>2. /\ CheckoutTypes' /\ Earned(v)' /\ Prepared(v)'
        /\ \A w \in Verifiers \ {v} : Same(w)
        /\ phase'[v] = "gates" => gate'[v] = gate[v] + 1
    <3>1. TRUE \in BOOLEAN
      OBVIOUS
    <3>2. QED
      BY <1>1, <1>2, <2>1, <3>1, OutcomeKeeps
  <2>3. QED
    BY <1>1, <2>1, <2>2 DEF AtCommit, Sound, Keeps
<1>3. ASSUME clone' = [clone EXCEPT ![v] = None]
      PROVE  DOMAIN clone' = Verifiers /\ \A w \in Verifiers \ {v} : clone'[w] = clone[w]
  BY <1>3 DEF CheckoutTypes
<1>4. CASE clone' = [clone EXCEPT ![v] = None] /\ Outcome(v, "clone", FALSE)
  <2>1. /\ CheckoutTypes' /\ Earned(v)' /\ Prepared(v)'
        /\ \A w \in Verifiers \ {v} : Same(w)
    <3>1. FALSE \in BOOLEAN
      OBVIOUS
    <3>2. QED
      BY <1>1, <1>3, <1>4, <3>1, OutcomeKeeps
  <2>2. phase'[v] = "verdict"
    BY <1>4 DEF Outcome, Raise, CheckoutTypes
  <2>3. QED
    BY <2>1, <2>2 DEF AtCommit, Sound, Keeps
<1>5. CASE clone' = [clone EXCEPT ![v] = None] /\ Escape(v) /\ UNCHANGED <<outcomes, trail>>
  <2>1. "clone" # Replay
    BY DEF Replay
  <2>2. QED
    BY <1>1, <1>3, <1>5, <2>1, NoOutcomeKeeps DEF Keeps
<1>6. QED
  BY <1>2, <1>4, <1>5 DEF Clone

LEMMA CheckoutKeeps ==
  ASSUME CheckoutTypes, NEW v \in Verifiers, Sound(v), CheckoutExactCommit(v)
  PROVE  Keeps(v)
<1> DEFINE name == "checkout_exact_commit"
<1>1. /\ AtGate(v, name) /\ UNCHANGED <<commit, temporary>>
      /\ phase[v] = "gates" /\ gate[v] > 1 /\ name \in Gates
  BY GateTable DEF CheckoutExactCommit, AtGate, CheckoutTypes, Aside
<1>2. clone[v] \in CloneState
  BY <1>1 DEF Sound, AtCommit
<1>3. PICK ok \in BOOLEAN : /\ clone' = IF ok THEN [clone EXCEPT ![v].head = commit[v]] ELSE clone
                            /\ Outcome(v, name, ok)
  BY DEF CheckoutExactCommit
<1>4. /\ DOMAIN clone' = Verifiers
      /\ \A w \in Verifiers \ {v} : clone'[w] = clone[w]
      /\ clone'[v] \in CloneState
      /\ ok => clone'[v].head = commit[v] /\ clone'[v].head \in Commits \cup {None}
  BY <1>2, <1>3 DEF CheckoutTypes, CloneState
<1>5. /\ CheckoutTypes' /\ Earned(v)' /\ Prepared(v)'
      /\ \A w \in Verifiers \ {v} : Same(w)
  BY <1>1, <1>3, <1>4, OutcomeKeeps
<1>6. ~ok => phase'[v] = "verdict"
  BY <1>3 DEF Outcome, Raise, CheckoutTypes
<1>7. AtCommit(v)'
  BY <1>1, <1>4, <1>6 DEF AtCommit
<1>8. QED
  BY <1>5, <1>7 DEF Sound, Keeps

\* The clone stays where the first two gates left it.
LEMMA LaterOutcomeKeeps ==
  ASSUME CheckoutTypes, NEW v \in Verifiers, Sound(v), NEW name \in Gates, AtGate(v, name),
         name \notin {"clone", "checkout_exact_commit"},
         NEW ok \in BOOLEAN, Outcome(v, name, ok), UNCHANGED <<commit, temporary>>,
         clone' = clone \/ clone' = [clone EXCEPT ![v].dirty = Dirty(v)]
  PROVE  Keeps(v)
<1>1. clone[v] \in CloneState /\ clone[v].head = commit[v] /\ phase[v] = "gates"
  <2>1. phase[v] = "gates" /\ gate[v] > 2 /\ gate[v] \in Nat
    BY LaterGate, GateTable DEF CheckoutTypes
  <2>2. QED
    BY <2>1 DEF Sound, AtCommit
<1>2. /\ DOMAIN clone' = Verifiers
      /\ \A w \in Verifiers \ {v} : clone'[w] = clone[w]
      /\ clone'[v] \in CloneState /\ clone'[v].head = commit[v]
      /\ clone'[v].head \in Commits \cup {None}
  <2>1. Dirty(v) \in BOOLEAN
    BY <1>1 DEF Dirty, CloneState
  <2>2. CASE clone' = [clone EXCEPT ![v].dirty = Dirty(v)]
    <3>1. clone'[v] = [clone[v] EXCEPT !.dirty = Dirty(v)]
      BY <2>2 DEF CheckoutTypes
    <3>2. clone'[v] \in CloneState /\ clone'[v].head = clone[v].head
      BY <1>1, <2>1, <3>1 DEF CloneState
    <3>3. QED
      BY <1>1, <2>2, <3>2 DEF CheckoutTypes, CloneState
  <2>3. CASE clone' = clone
    BY <1>1, <2>3 DEF CheckoutTypes, CloneState
  <2>4. QED
    BY <2>2, <2>3
<1>3. /\ CheckoutTypes' /\ Earned(v)' /\ Prepared(v)'
      /\ \A w \in Verifiers \ {v} : Same(w)
  BY <1>2, OutcomeKeeps
<1>4. QED
  BY <1>2, <1>3 DEF Sound, AtCommit, Keeps

LEMMA GitAndCommandKeep ==
  ASSUME CheckoutTypes, NEW v \in Verifiers, Sound(v), GitGate(v) \/ RunGate(v)
  PROVE  Keeps(v)
<1>1. PICK name \in GitGates \cup CommandGates :
        /\ AtGate(v, name) /\ clone' = clone
        /\ UNCHANGED <<commit, temporary>>
        /\ \/ \E ok \in BOOLEAN : Outcome(v, name, ok)
           \/ (Raise(v) \/ Escape(v)) /\ UNCHANGED <<outcomes, trail>>
  <2>1. ASSUME NEW name \in GitGates, NEW ok \in Answers(v, name), AtGate(v, name)
        PROVE  ok \in BOOLEAN
    BY <2>1 DEF Answers
  <2>2. CASE GitGate(v)
    BY <2>1, <2>2 DEF GitGate, Aside
  <2>3. CASE RunGate(v)
    BY <2>3 DEF RunGate, Aside
  <2>4. QED
    BY <2>2, <2>3
<1>2. name \in Gates /\ name \notin {"clone", "checkout_exact_commit", Replay}
  BY GateTable DEF CommandGates, GitGates, Replay
<1>3. CASE \E ok \in BOOLEAN : Outcome(v, name, ok)
  BY <1>1, <1>2, <1>3, LaterOutcomeKeeps
<1>4. CASE (Raise(v) \/ Escape(v)) /\ UNCHANGED <<outcomes, trail>>
  <2>1. DOMAIN clone' = Verifiers /\ \A w \in Verifiers \ {v} : clone'[w] = clone[w]
    BY <1>1 DEF CheckoutTypes
  <2>2. QED
    BY <1>1, <1>2, <1>4, <2>1, NoOutcomeKeeps DEF Keeps
<1>5. QED
  BY <1>1, <1>3, <1>4

\* The first run's pass counts for nothing until the second has returned.
LEMMA BenchmarkReturnedKeeps ==
  ASSUME CheckoutTypes, NEW v \in Verifiers, Sound(v), BenchmarkReturned(v)
  PROVE  Keeps(v)
<1>1. /\ AtGate(v, Replay) /\ UNCHANGED <<commit, temporary>>
      /\ clone' = clone \/ clone' = [clone EXCEPT ![v].dirty = Dirty(v)]
      /\ Replay \in Gates /\ Replay \notin {"clone", "checkout_exact_commit"}
  <2>1. AtGate(v, Replay) /\ UNCHANGED <<commit, temporary>>
    BY DEF BenchmarkReturned, AtReplay, Replay
  <2>2. clone' = clone \/ clone' = [clone EXCEPT ![v].dirty = Dirty(v)]
    BY DEF BenchmarkReturned
  <2>3. QED
    BY <2>1, <2>2, GateTable DEF Replay
<1>2. CASE /\ round[v] = 1 /\ SetOutcome(v, Replay, "pass")
           /\ UNCHANGED <<phase, gate, failed, trail, clone>>
  <2>1. outcomes' = [outcomes EXCEPT ![v][Replay] = "pass"]
    BY <1>2 DEF SetOutcome
  <2>2. /\ outcomes' \in [Verifiers -> [Gates -> {"pass", "fail", "not_run"}]]
        /\ \A w \in Verifiers \ {v} : outcomes'[w] = outcomes[w]
        /\ \A g \in Gates \ {Replay} : outcomes'[v][g] = outcomes[v][g]
    BY <1>1, <2>1 DEF CheckoutTypes
  <2>3. CheckoutTypes' /\ \A w \in Verifiers \ {v} : Same(w)
    BY <1>1, <1>2, <2>2 DEF CheckoutTypes, Same
  <2>4. AtReplay(v)' /\ phase'[v] = "gates"
    BY <1>1, <1>2 DEF AtReplay, AtGate, Replay
  <2>5. Earned(v)'
    BY <1>1, <1>2, <2>2, <2>4 DEF Earned, Sound
  <2>6. AtCommit(v)' /\ Prepared(v)'
    BY <1>1, <1>2, <2>4 DEF AtCommit, Sound, Prepared
  <2>7. QED
    BY <2>3, <2>5, <2>6 DEF Sound, Keeps
<1>3. CASE \E ok \in BOOLEAN : Outcome(v, Replay, ok)
  BY <1>1, <1>3, LaterOutcomeKeeps
<1>4. \/ /\ round[v] = 1 /\ SetOutcome(v, Replay, "pass")
         /\ UNCHANGED <<phase, gate, failed, trail, clone>>
      \/ \E ok \in BOOLEAN : Outcome(v, Replay, ok)
  <2>1. CASE round[v] = 1 /\ stage[v] = "ok"
    BY <2>1 DEF BenchmarkReturned, Replay
  <2>2. CASE round[v] = 1 /\ stage[v] = "unavailable"
    BY <2>2 DEF BenchmarkReturned, Replay
  <2>3. CASE round[v] = 2
    <3>1. PICK same \in BOOLEAN : Outcome(v, Replay, stage[v] = "ok" /\ same)
      BY <2>3 DEF BenchmarkReturned, Replay
    <3>2. (stage[v] = "ok" /\ same) \in BOOLEAN
      OBVIOUS
    <3>3. QED
      BY <3>1, <3>2
  <2>4. QED
    BY <2>1, <2>2, <2>3 DEF BenchmarkReturned
<1>5. QED
  BY <1>2, <1>3, <1>4

-----------------------------------------------------------------------------
(* The receipt.                                                            *)

\* From the verdict on a verification writes what it validated.
LEMMA ReceiptStepKeeps ==
  ASSUME CheckoutTypes, NEW v \in Verifiers, Sound(v),
         \/ ValidatePayload(v) \/ CreateTemporary(v) \/ FillTemporary(v)
         \/ ReplaceReceipt(v) \/ ReadBack(v)
  PROVE  Keeps(v)
<1>1. /\ UNCHANGED <<gate, commit, clone, outcomes, failed, trail>>
      /\ DOMAIN phase' = Verifiers /\ DOMAIN temporary' = Verifiers
      /\ \A w \in Verifiers \ {v} : phase'[w] = phase[w] /\ temporary'[w] = temporary[w]
      /\ phase[v] \in {"verdict", "temporary", "fill", "replace", "readback"}
      /\ phase'[v] # "gates"
  BY DEF ValidatePayload, CreateTemporary, FillTemporary, ReplaceReceipt, ReadBack, Go,
         ReceiptOnly, CheckoutTypes
<1>2. CheckoutTypes' /\ \A w \in Verifiers \ {v} : Same(w)
  BY <1>1 DEF CheckoutTypes, Same
<1>3. phase'[v] \in {"verdict", "temporary", "fill", "replace"} =>
        phase[v] \in {"verdict", "temporary", "fill"}
  BY DEF ValidatePayload, CreateTemporary, FillTemporary, ReplaceReceipt, ReadBack, Go,
         CheckoutTypes
<1>4. ~AtReplay(v)
  BY <1>1 DEF AtReplay, AtGate
<1>5. Earned(v)'
  BY <1>1, <1>3, <1>4 DEF Earned, Sound
<1>6. Payload(v)' = Payload(v)
  BY <1>1 DEF Payload
<1>7. phase'[v] \in {"temporary", "fill", "replace"} => ValidReceipt(Payload(v))
  <2>1. CASE ValidatePayload(v)
    BY <2>1 DEF ValidatePayload, Go, CheckoutTypes
  <2>2. CASE ~ValidatePayload(v)
    <3>1. phase'[v] \in {"temporary", "fill", "replace"} => phase[v] \in {"temporary", "fill"}
      BY <2>2 DEF CreateTemporary, FillTemporary, ReplaceReceipt, ReadBack, Go, CheckoutTypes
    <3>2. QED
      BY <3>1 DEF Sound, Prepared
  <2>3. QED
    BY <2>1, <2>2
<1>8. phase'[v] = "replace" => temporary'[v] = Payload(v)
  BY DEF ValidatePayload, CreateTemporary, FillTemporary, ReplaceReceipt, ReadBack, Go,
         CheckoutTypes
<1>9. Prepared(v)'
  BY <1>6, <1>7, <1>8 DEF Prepared, ValidReceipt
<1>10. QED
  BY <1>1, <1>2, <1>5, <1>9 DEF Keeps, Sound, AtCommit

\* A receipt appears whole, and a pass among its outcomes was earned.
LEMMA ReplaceIsEarned ==
  ASSUME CheckoutTypes, NEW v \in Verifiers, Sound(v), ReplaceReceipt(v)
  PROVE  ReceiptIsWhole' /\ PassIsEarned'
<1>1. /\ receipt' = Payload(v) /\ ValidReceipt(Payload(v))
      /\ phase[v] = "replace" /\ ~AtReplay(v)
  BY DEF ReplaceReceipt, Sound, Prepared, AtReplay, AtGate
<1>2. ValidReceipt(receipt') /\ ReceiptIsWhole'
  BY <1>1 DEF ReceiptIsWhole, ValidReceipt
<1>3. /\ receipt'.outcomes = outcomes[v] /\ receipt'.trail = trail[v]
      /\ receipt'.commit = commit[v]
  BY <1>1 DEF Payload
<1>4. PassIsEarned'
  BY <1>1, <1>2, <1>3 DEF PassIsEarned, ValidReceipt, Sound, Earned
<1>5. QED
  BY <1>2, <1>4

-----------------------------------------------------------------------------
(* Start and crash.                                                        *)

LEMMA StartKeeps ==
  ASSUME CheckoutTypes, NEW v \in Verifiers, StartVerification(v)
  PROVE  Keeps(v)
<1>1. /\ phase'[v] = "gates" /\ gate'[v] = 1
      /\ outcomes'[v] = NotRun
  BY DEF StartVerification, CheckoutTypes
<1>2. /\ DOMAIN phase' = Verifiers /\ DOMAIN clone' = Verifiers /\ DOMAIN temporary' = Verifiers
      /\ gate' \in [Verifiers -> 1 .. Len(COMMAND_NAMES)]
      /\ commit' \in [Verifiers -> Commits \cup {None}]
  BY GateTable DEF StartVerification, CheckoutTypes
<1>3. /\ outcomes' \in [Verifiers -> [Gates -> {"pass", "fail", "not_run"}]]
      /\ failed' \in [Verifiers -> BOOLEAN]
      /\ trail' \in [Verifiers -> [Gates -> Commits \cup {None}]]
  BY DEF StartVerification, CheckoutTypes, NotRun, NoTrail
<1>4. \A w \in Verifiers \ {v} : Same(w)
  <2>1. SUFFICES ASSUME NEW w \in Verifiers \ {v}
                 PROVE  Same(w)
    OBVIOUS
  <2>2. temporary'[w] = temporary[w] /\ commit'[w] = commit[w]
    BY DEF StartVerification, CheckoutTypes
  <2>3. QED
    BY <2>2 DEF StartVerification, CheckoutTypes, Same
<1>5. Sound(v)'
  BY <1>1 DEF Sound, AtCommit, Earned, Prepared, NotRun
<1>6. QED
  BY <1>2, <1>3, <1>4, <1>5 DEF CheckoutTypes, Keeps

LEMMA CrashKeeps ==
  ASSUME CheckoutTypes, NEW v \in Verifiers, Crash(v)
  PROVE  Keeps(v)
<1>1. /\ phase' = [phase EXCEPT ![v] = "idle"] /\ phase'[v] = "idle"
      /\ gate' \in [Verifiers -> 1 .. Len(COMMAND_NAMES)]
      /\ commit' \in [Verifiers -> Commits \cup {None}]
  BY GateTable DEF Crash, Go, CheckoutTypes
<1>2. /\ outcomes' \in [Verifiers -> [Gates -> {"pass", "fail", "not_run"}]]
      /\ failed' \in [Verifiers -> BOOLEAN]
      /\ trail' \in [Verifiers -> [Gates -> Commits \cup {None}]]
  BY DEF Crash, CheckoutTypes, NotRun, NoTrail
<1>3. CheckoutTypes'
  BY <1>1, <1>2 DEF Crash, CheckoutTypes
<1>4. \A w \in Verifiers \ {v} : Same(w)
  BY <1>1 DEF Crash, CheckoutTypes, Same
<1>5. Sound(v)'
  BY <1>1 DEF Sound, AtCommit, Earned, Prepared
<1>6. QED
  BY <1>3, <1>4, <1>5 DEF Keeps

-----------------------------------------------------------------------------
(* The invariant is inductive.                                             *)

LEMMA InitEstablishes == Init => IInv
BY GateTable
   DEF Init, ReplayInit, IInv, CheckoutTypes, Audited, ReplayIsAudited, Sound, AtCommit, Earned,
       Prepared, ReceiptIsWhole, PassIsEarned, NotRun, NoTrail, Nothing

\* What a step does to the verifications.
LEMMA VerifyStepKeeps ==
  ASSUME CheckoutTypes, NEW v \in Verifiers, Sound(v), Step(v)
  PROVE  Keeps(v) \/ UNCHANGED verifyVars
<1>1. CASE StartBenchmark(v) \/ Benchmark(v) \/ EditSource(v)
  BY <1>1 DEF StartBenchmark, Benchmark, EditSource
<1>2. CASE \/ ValidatePayload(v) \/ CreateTemporary(v) \/ FillTemporary(v)
           \/ ReplaceReceipt(v) \/ ReadBack(v)
  BY <1>2, ReceiptStepKeeps
<1>3. QED
  BY <1>1, <1>2, StartKeeps, CloneKeeps, CheckoutKeeps, GitAndCommandKeep,
     BenchmarkReturnedKeeps, CrashKeeps DEF Step

\* What a step does to the replay.
LEMMA ReplayPartKeeps ==
  ASSUME Audited, NEW v \in Verifiers, Step(v)
  PROVE  Audited'
<1>1. CASE StartBenchmark(v) \/ Benchmark(v)
  BY <1>1, ReplayStepKeeps DEF StartBenchmark, Benchmark
<1>2. CASE StartVerification(v) \/ BenchmarkReturned(v) \/ Crash(v)
  BY <1>2, ReplayEnds DEF StartVerification, BenchmarkReturned, Crash
<1>3. CASE Clone(v) \/ CheckoutExactCommit(v) \/ GitGate(v) \/ RunGate(v)
  BY <1>3, ReplayUntouched DEF Clone, CheckoutExactCommit, GitGate, RunGate, Aside, replayVars
<1>4. CASE \/ ValidatePayload(v) \/ CreateTemporary(v) \/ FillTemporary(v)
           \/ ReplaceReceipt(v) \/ ReadBack(v)
  BY <1>4, ReplayUntouched
     DEF ValidatePayload, CreateTemporary, FillTemporary, ReplaceReceipt, ReadBack,
         ReceiptOnly, replayVars
<1>5. CASE EditSource(v)
  BY <1>5, ReplayUntouched DEF EditSource, WriteSource, ReplaceSource, Edit
<1>6. QED
  BY <1>1, <1>2, <1>3, <1>4, <1>5 DEF Step

\* Only the replacing step writes the receipt.
LEMMA ReceiptPartKeeps ==
  ASSUME CheckoutTypes, ReceiptIsWhole, PassIsEarned, NEW v \in Verifiers, Sound(v), Step(v)
  PROVE  ReceiptIsWhole' /\ PassIsEarned'
<1>1. CASE ReplaceReceipt(v)
  BY <1>1, ReplaceIsEarned
<1>2. CASE ~ReplaceReceipt(v)
  <2>1. receipt' = receipt
    BY <1>2 DEF Step, StartVerification, Clone, CheckoutExactCommit, GitGate, RunGate, Aside,
                StartBenchmark, Benchmark, BenchmarkReturned, ValidatePayload, CreateTemporary,
                FillTemporary, ReadBack, Crash, EditSource, verifyVars
  <2>2. QED
    BY <2>1 DEF ReceiptIsWhole, PassIsEarned, ValidReceipt
<1>3. QED
  BY <1>1, <1>2

LEMMA NextPreserves == IInv /\ [Next]_vars => IInv'
<1> SUFFICES ASSUME IInv, [Next]_vars
             PROVE  IInv'
  OBVIOUS
<1>1. ASSUME UNCHANGED verifyVars
      PROVE  CheckoutTypes' /\ \A w \in Verifiers : Sound(w)'
  <2>1. \A w \in Verifiers : Same(w)
    BY <1>1 DEF verifyVars, Same
  <2>2. \A w \in Verifiers : Sound(w)'
    BY <2>1, SameIsSound DEF IInv
  <2>3. CheckoutTypes'
    BY <1>1 DEF IInv, CheckoutTypes, verifyVars
  <2>4. QED
    BY <2>2, <2>3
<1>2. ASSUME NEW v \in Verifiers, Step(v)
      PROVE  IInv'
  <2>1. CheckoutTypes' /\ \A w \in Verifiers : Sound(w)'
    <3>1. CASE Keeps(v)
      <4>1. \A w \in Verifiers \ {v} : Sound(w)'
        BY <3>1, SameIsSound DEF Keeps, IInv
      <4>2. QED
        BY <3>1, <4>1 DEF Keeps
    <3>2. QED
      BY <1>1, <1>2, <3>1, VerifyStepKeeps DEF IInv
  <2>2. QED
    BY <1>2, <2>1, ReplayPartKeeps, ReceiptPartKeeps DEF IInv
<1>3. CASE UNCHANGED vars
  BY <1>1, <1>3, ReplayUntouched
     DEF IInv, vars, replayVars, verifyVars, ReceiptIsWhole, PassIsEarned, ValidReceipt
<1>4. QED
  BY <1>2, <1>3 DEF Next

-----------------------------------------------------------------------------
(* Theorems.                                                               *)

\* The invariant holds however verifications overlap, crash and start again.
THEOREM Invariance == Spec => []IInv
BY InitEstablishes, NextPreserves, PTL DEF Spec

\* The command executes audited bytes only, whoever writes the sources when.
THEOREM AuditedReplay == Spec => []ReplayIsAudited
<1>1. IInv => ReplayIsAudited
  BY DEF IInv, Audited
<1>2. QED
  BY <1>1, Invariance, PTL

\* A receipt on disk is one its validator accepts.
THEOREM WholeReceipt == Spec => []ReceiptIsWhole
<1>1. IInv => ReceiptIsWhole
  BY DEF IInv
<1>2. QED
  BY <1>1, Invariance, PTL

\* A receipt that says pass names a commit in whose tree every gate succeeded.
THEOREM EarnedPass == Spec => []PassIsEarned
<1>1. IInv => PassIsEarned
  BY DEF IInv
<1>2. QED
  BY <1>1, Invariance, PTL

=============================================================================
