---------------------------- MODULE CleanCheckout ----------------------------
(***************************************************************************)
(* verify_clean_checkout: a commit is cloned, the gates run in the clone   *)
(* one after another, and a receipt says which of them passed.             *)
(*                                                                         *)
(* Two verifications may overlap and write the receipt of the same path;   *)
(* each has a clone directory of its own, which the code takes for         *)
(* granted.  A verification may crash, fail with an error that no handler  *)
(* expects (it escapes: a missing executable, a full disk), and be run     *)
(* again over the clone and the temporary file it left.                    *)
(*                                                                         *)
(* trail is not in the code: it records in which commit's tree the command *)
(* of a gate really succeeded.  The archive and its digest are left out.   *)
(***************************************************************************)
EXTENDS TrustedReplay

CONSTANTS
  None,
  Commits,   \* the commits of the source repository
  MaxRuns    \* bound on the verifications started

ASSUME RunsAssumption == MaxRuns \in Nat /\ None \notin Commits

COMMAND_NAMES ==
  <<"clone", "checkout_exact_commit", "clone_head", "clone_clean", "uv_sync_offline",
    "reheat_help", "fixture_validate", "benchmark_replay_byte_compare",
    "python_generic_example", "typescript_npm_ci_offline", "typescript_typecheck",
    "typescript_test", "article_npm_ci_offline", "article_generate_check",
    "article_validate", "article_asset_check", "article_node_modules_cleanup",
    "domain_json_registry", "python_suite", "hygiene_tracked", "hygiene_history",
    "forbidden_artifact_paths", "diff_check", "status_clean">>

Gates == {COMMAND_NAMES[i] : i \in 1 .. Len(COMMAND_NAMES)}

VARIABLES
  phase,      \* verifier -> "idle", "gates", a step of the receipt, or how it ended
  gate,       \* verifier -> index of the gate it is at
  round,      \* verifier -> which run of the benchmark it is at
  commit,     \* verifier -> the commit it resolved
  clone,      \* verifier -> None or the state of its clone
  outcomes,   \* verifier -> gate -> "pass", "fail" or "not_run"
  failed,     \* verifier -> a gate raised
  trail,      \* verifier -> gate -> the commit in whose tree it succeeded
  temporary,  \* verifier -> None, Torn or the bytes of its temporary file
  receipt,    \* None, Torn or the bytes of the receipt
  runs

verifyVars == <<phase, gate, round, commit, clone, outcomes, failed, trail, temporary,
                receipt, runs>>
vars == <<replayVars, verifyVars>>

Torn == [status |-> "torn"]
NotRun == [g \in Gates |-> "not_run"]
NoTrail == [g \in Gates |-> None]

Init ==
  /\ ReplayInit
  /\ phase = [v \in Verifiers |-> "idle"]
  /\ gate = [v \in Verifiers |-> 1]
  /\ round = [v \in Verifiers |-> 1]
  /\ commit = [v \in Verifiers |-> None]
  /\ clone = [v \in Verifiers |-> None]
  /\ outcomes = [v \in Verifiers |-> NotRun]
  /\ failed = [v \in Verifiers |-> FALSE]
  /\ trail = [v \in Verifiers |-> NoTrail]
  /\ temporary = [v \in Verifiers |-> None]
  /\ receipt = None
  /\ runs = 0

Ended == {"idle", "passed", "failed", "escaped"}

\* The source is clean, the commit is reachable and the targets are safe, or the
\* verification never starts.  A process number may come again after a crash, and
\* with it the name of the temporary file.
StartVerification(v) ==
  /\ phase[v] \in Ended
  /\ runs < MaxRuns
  /\ runs' = runs + 1
  /\ \E c \in Commits : commit' = [commit EXCEPT ![v] = c]
  /\ temporary' \in {temporary, [temporary EXCEPT ![v] = None]}
  /\ phase' = [phase EXCEPT ![v] = "gates"]
  /\ gate' = [gate EXCEPT ![v] = 1]
  /\ round' = [round EXCEPT ![v] = 1]
  /\ outcomes' = [outcomes EXCEPT ![v] = NotRun]
  /\ failed' = [failed EXCEPT ![v] = FALSE]
  /\ trail' = [trail EXCEPT ![v] = NoTrail]
  /\ stage' = [stage EXCEPT ![v] = "idle"]
  /\ executed' = [executed EXCEPT ![v] = Nothing]
  /\ UNCHANGED <<clone, receipt, files, edits, todo, before, data, captured>>

-----------------------------------------------------------------------------
(* The gates.                                                              *)

AtGate(v, name) == phase[v] = "gates" /\ COMMAND_NAMES[gate[v]] = name

\* An error no handler expects leaves the program, and no receipt is written.
Escape(v) == phase' = [phase EXCEPT ![v] = "escaped"] /\ UNCHANGED <<gate, failed>>

\* CleanCheckoutError: the gates end and the receipt is written.
Raise(v) ==
  /\ phase' = [phase EXCEPT ![v] = "verdict"]
  /\ failed' = [failed EXCEPT ![v] = TRUE]
  /\ UNCHANGED gate

Advance(v) ==
  /\ IF gate[v] = Len(COMMAND_NAMES)
     THEN phase' = [phase EXCEPT ![v] = "verdict"] /\ UNCHANGED gate
     ELSE gate' = [gate EXCEPT ![v] = @ + 1] /\ UNCHANGED phase
  /\ UNCHANGED failed

SetOutcome(v, name, status) == outcomes' = [outcomes EXCEPT ![v][name] = status]

\* A command succeeded or not; its outcome is set, and a failure raises.
Outcome(v, name, ok) ==
  /\ SetOutcome(v, name, IF ok THEN "pass" ELSE "fail")
  /\ trail' = IF ok THEN [trail EXCEPT ![v][name] = clone'[v].head] ELSE trail
  /\ IF ok THEN Advance(v) ELSE Raise(v)

Aside == UNCHANGED <<replayVars, round, commit, temporary, receipt, runs>>

\* What an earlier verification left in the directory is removed first.
Clone(v) ==
  /\ AtGate(v, "clone")
  /\ \/ /\ clone' = [clone EXCEPT ![v] = [head |-> None, dirty |-> FALSE]]
        /\ files' = [files EXCEPT ![v] = Checkout]
        /\ Outcome(v, "clone", TRUE)
     \/ /\ clone' = [clone EXCEPT ![v] = None]
        /\ UNCHANGED files
        /\ \/ Outcome(v, "clone", FALSE)
           \/ Escape(v) /\ UNCHANGED <<outcomes, trail>>
  /\ UNCHANGED <<edits, stage, todo, before, data, captured, executed>>
  /\ UNCHANGED <<round, commit, temporary, receipt, runs>>

CheckoutExactCommit(v) ==
  /\ AtGate(v, "checkout_exact_commit")
  /\ \/ /\ clone' = [clone EXCEPT ![v].head = commit[v]]
        /\ Outcome(v, "checkout_exact_commit", TRUE)
     \/ UNCHANGED clone /\ Outcome(v, "checkout_exact_commit", FALSE)
  /\ Aside

\* The sources of the clone are not those of the commit.
Dirty(v) == clone[v].dirty \/ \E n \in Names : files[v][n].bytes # "audited"

\* The gates that ask git through _git, and what the answer may be.  The status of
\* a clone may name files anyway: a filter of git or a command left them.
GitGates ==
  {"clone_head", "clone_clean", "forbidden_artifact_paths", "status_clean"}

Answers(v, name) ==
  CASE name = "clone_head" -> {clone[v].head = commit[v]}
    [] name = "forbidden_artifact_paths" -> BOOLEAN
    [] OTHER -> IF Dirty(v) THEN {FALSE} ELSE BOOLEAN

\* _git raises when git itself fails, before the gate has an outcome.
GitGate(v) ==
  \E name \in GitGates :
    /\ AtGate(v, name)
    /\ UNCHANGED clone
    /\ \/ \E ok \in Answers(v, name) : Outcome(v, name, ok)
       \/ Raise(v) /\ UNCHANGED <<outcomes, trail>>
    /\ Aside

CommandGates ==
  Gates \ (GitGates \cup {"clone", "checkout_exact_commit", "benchmark_replay_byte_compare"})

\* _run_gate: the command passes, fails, or cannot be started.  The cleanup of
\* node_modules has the same outcomes.
RunGate(v) ==
  \E name \in CommandGates :
    /\ AtGate(v, name)
    /\ UNCHANGED clone
    /\ \/ \E ok \in BOOLEAN : Outcome(v, name, ok)
       \/ Escape(v) /\ UNCHANGED <<outcomes, trail>>
    /\ Aside

AtReplay(v) == AtGate(v, "benchmark_replay_byte_compare")

StartBenchmark(v) ==
  /\ AtReplay(v)
  /\ OpenDirectories(v)
  /\ UNCHANGED verifyVars

Benchmark(v) == AtReplay(v) /\ BenchmarkStep(v) /\ UNCHANGED verifyVars

\* Mutant: a second run that fails leaves the outcome the first one set.
BenchmarkReturnedOnce(v) ==
  LET name == "benchmark_replay_byte_compare" IN
  /\ AtReplay(v)
  /\ stage[v] \in {"ok", "unavailable"}
  /\ stage' = [stage EXCEPT ![v] = "idle"]
  /\ executed' = [executed EXCEPT ![v] = Nothing]
  /\ captured' = [captured EXCEPT ![v] = Nothing]
  /\ todo' = [todo EXCEPT ![v] = 1]
  /\ files' = [files EXCEPT ![v] = Checkout]
  /\ UNCHANGED <<edits, before, data, clone>>
  /\ \/ /\ round[v] = 1
        /\ SetOutcome(v, name, IF stage[v] = "ok" THEN "pass" ELSE "fail")
        /\ round' = [round EXCEPT ![v] = 2]
        /\ IF stage[v] = "ok" THEN UNCHANGED <<phase, gate, failed>> ELSE Raise(v)
        /\ UNCHANGED trail
     \/ /\ round[v] = 2
        /\ UNCHANGED <<round, outcomes, trail>>
        /\ Advance(v)
  /\ UNCHANGED <<commit, temporary, receipt, runs>>

\* The first run sets the outcome; the second, which must print the same bytes,
\* takes it back when it fails.  The sources are not read again: what others wrote
\* to them counts from here on as a dirty clone.
BenchmarkReturned(v) ==
  LET name == "benchmark_replay_byte_compare" IN
  /\ AtReplay(v)
  /\ stage[v] \in {"ok", "unavailable"}
  /\ stage' = [stage EXCEPT ![v] = "idle"]
  /\ executed' = [executed EXCEPT ![v] = Nothing]
  /\ captured' = [captured EXCEPT ![v] = Nothing]
  /\ todo' = [todo EXCEPT ![v] = 1]
  /\ UNCHANGED <<edits, before, data>>
  /\ IF round[v] = 2
     THEN /\ clone' = [clone EXCEPT ![v].dirty = Dirty(v)]
          /\ files' = [files EXCEPT ![v] = Checkout]
     ELSE UNCHANGED <<clone, files>>
  /\ \/ /\ round[v] = 1 /\ stage[v] = "ok"
        /\ SetOutcome(v, name, "pass")
        /\ round' = [round EXCEPT ![v] = 2]
        /\ UNCHANGED <<phase, gate, failed, trail>>
     \/ /\ round[v] = 1 /\ stage[v] = "unavailable"
        /\ Outcome(v, name, FALSE)
        /\ UNCHANGED round
     \/ /\ round[v] = 2 /\ UNCHANGED round
        /\ \E same \in BOOLEAN : Outcome(v, name, stage[v] = "ok" /\ same)
  /\ UNCHANGED <<commit, temporary, receipt, runs>>

-----------------------------------------------------------------------------
(* The receipt.                                                            *)

Payload(v) ==
  [commit |-> commit[v], outcomes |-> outcomes[v], trail |-> trail[v],
   status |-> IF failed[v] THEN "fail" ELSE "pass"]

\* validate_receipt, what it says of the outcomes.
ValidReceipt(document) ==
  /\ document.status \in {"pass", "fail"}
  /\ document.status = "pass" => \A g \in Gates : document.outcomes[g] = "pass"
  /\ document.status = "fail" => \E g \in Gates : document.outcomes[g] = "fail"

ReceiptOnly ==
  UNCHANGED <<replayVars, gate, round, commit, clone, outcomes, failed, trail, runs>>

Go(v, place) == phase' = [phase EXCEPT ![v] = place]

\* A payload that is not valid is an error of its own, and nothing is written.
ValidatePayload(v) ==
  /\ phase[v] = "verdict"
  /\ Go(v, IF ValidReceipt(Payload(v)) THEN "temporary" ELSE "failed")
  /\ UNCHANGED <<temporary, receipt>>
  /\ ReceiptOnly

\* The temporary file is created exclusively; one that was left with its name is
\* removed by the handler, and the error escapes.
CreateTemporary(v) ==
  /\ phase[v] = "temporary"
  /\ IF temporary[v] = None
     THEN temporary' = [temporary EXCEPT ![v] = Torn] /\ Go(v, "fill")
     ELSE temporary' = [temporary EXCEPT ![v] = None] /\ Go(v, "escaped")
  /\ UNCHANGED receipt
  /\ ReceiptOnly

\* Mutant: the receipt is opened and written in place.
FillTemporaryInPlace(v) ==
  /\ phase[v] = "fill"
  /\ temporary' = [temporary EXCEPT ![v] = Payload(v)]
  /\ receipt' = Torn
  /\ Go(v, "replace")
  /\ ReceiptOnly

\* The bytes are written and synchronised, or the disk fails.
FillTemporary(v) ==
  /\ phase[v] = "fill"
  /\ \/ temporary' = [temporary EXCEPT ![v] = Payload(v)] /\ Go(v, "replace")
     \/ temporary' = [temporary EXCEPT ![v] = None] /\ Go(v, "escaped")
  /\ UNCHANGED receipt
  /\ ReceiptOnly

ReplaceReceipt(v) ==
  /\ phase[v] = "replace"
  /\ receipt' = temporary[v]
  /\ temporary' = [temporary EXCEPT ![v] = None]
  /\ Go(v, "readback")
  /\ ReceiptOnly

\* Another verification may have replaced the receipt in between.
ReadBack(v) ==
  /\ phase[v] = "readback"
  /\ Go(v, IF receipt = Payload(v) /\ ~failed[v] THEN "passed" ELSE "failed")
  /\ UNCHANGED <<temporary, receipt>>
  /\ ReceiptOnly

\* The process ends anywhere; what it wrote stays.
Crash(v) ==
  /\ phase[v] \notin Ended
  /\ Go(v, "idle")
  /\ stage' = [stage EXCEPT ![v] = "idle"]
  /\ todo' = [todo EXCEPT ![v] = 1]
  /\ before' = [before EXCEPT ![v] = NoFile]
  /\ data' = [data EXCEPT ![v] = "none"]
  /\ captured' = [captured EXCEPT ![v] = Nothing]
  /\ executed' = [executed EXCEPT ![v] = Nothing]
  /\ gate' = [gate EXCEPT ![v] = 1]
  /\ round' = [round EXCEPT ![v] = 1]
  /\ commit' = [commit EXCEPT ![v] = None]
  /\ outcomes' = [outcomes EXCEPT ![v] = NotRun]
  /\ failed' = [failed EXCEPT ![v] = FALSE]
  /\ trail' = [trail EXCEPT ![v] = NoTrail]
  /\ UNCHANGED <<files, edits, clone, temporary, receipt, runs>>

EditSource(v) ==
  /\ AtReplay(v)
  /\ \E n \in Names : WriteSource(v, n) \/ ReplaceSource(v, n)
  /\ UNCHANGED verifyVars

Step(v) ==
  \/ StartVerification(v) \/ Clone(v) \/ CheckoutExactCommit(v) \/ GitGate(v) \/ RunGate(v)
  \/ StartBenchmark(v) \/ Benchmark(v) \/ BenchmarkReturned(v)
  \/ ValidatePayload(v) \/ CreateTemporary(v) \/ FillTemporary(v) \/ ReplaceReceipt(v)
  \/ ReadBack(v) \/ Crash(v) \/ EditSource(v)

Next == \E v \in Verifiers : Step(v)

Spec == Init /\ [][Next]_vars

-----------------------------------------------------------------------------
(* What a receipt is worth.                                                *)

\* A receipt on disk that says pass was earned: every gate's command succeeded in
\* a tree of the commit the receipt names, the benchmark twice with the same bytes.
PassIsEarned ==
  receipt # None /\ receipt.status = "pass" =>
    \A g \in Gates : g # "clone" => receipt.trail[g] = receipt.commit

\* Whatever crashes and whoever else writes, the receipt is absent or a whole
\* document its own validator accepts.
ReceiptIsWhole == receipt = None \/ ValidReceipt(receipt)

\* "A safely established external target receives a typed failure receipt when a
\* gate fails": a verification whose gates failed left such a receipt.
GateFailureIsRecorded ==
  \A v \in Verifiers :
    phase[v] = "failed" /\ failed[v] =>
      receipt # None /\ receipt.status = "fail" /\ receipt.commit = commit[v]
=============================================================================
