# Formal verification of semantic-reheating

TLA+ models, model-checking configurations and machine-checked proofs for the
semantic-reheating reference kit: a controller that reads the trace of an
agent run and advises the host to continue, to recover or to stop, and the
tools around it that run commands, campaigns and verifications. Paths below are
relative to the repository; `sr/` stands for `src/semantic_reheating/`.

- [The system](#the-system)
- [Modules](#modules)
- [What is checked](#what-is-checked)
- [What is proved](#what-is-proved)
- [Where the documents and the code differ](#where-the-documents-and-the-code-differ)
- [Not modelled](#not-modelled)
- [Plan](#plan)

## The system

| Component | State | Operations | What makes it correct |
|---|---|---|---|
| trace vocabulary (`sr/models.py`) | none; frozen values | `TraceEvent.from_dict`, `parse_trace` | ids are unique, sequences have no gap, so a position identifies an event |
| progress classifier (`sr/progress.py`) | locals of one pass: what was seen, pending expectations, poll baselines, reasons found | `classify_progress(window)` | a reason is found exactly when two events of the window witness it, and is supported by the first such event |
| detectors (`sr/detectors/*.py`) | locals of one pass: first pairs, contexts, baselines, pending expectations | six `detect_*` functions over the last *n* events | a match is a real repetition, a real stretch without progress, a real burn; none is missed except where the code gives one up on purpose |
| hard stops (`sr/controller.py`) | locals: first call of each identity | `_hard_risk_finding`, `_hard_budget_finding` over the whole trace | complete, earliest, stable when the trace grows |
| diagnosis (`sr/diagnosis.py`) | none | `diagnose(trace, findings)` | causes and evidence come from marked events and matched findings only; limits fail closed |
| policy selection (`sr/policies.py`) | none | `select_recovery_policy`, instruction and branch selection | hard stops before authority before the gate; two independent classes for an intervention; only permitted stages |
| controller (`sr/controller.py`) | none between calls | `analyze`, `build_recovery_instruction` | answers about the trace it copied; optional detection never weakens a response |
| evidence (`sr/evidence.py`) | none | `record_outcome` | a record agrees with its decision; a hard stop never reads as a recovery |
| canonical JSON (`sr/canonical.py`), validation (`sr/validation.py`) | none | fingerprints, schema and policy checks | equal fingerprints for equal content; unsafe policies are refused |
| command line (`sr/cli.py`) | file descriptors, `sys.modules` | `validate`, `analyze`, `explain`, `benchmark`; trusted capture of benchmark sources | accepted bytes are those of one unchanged file; accepted sources are executed and no others |
| benchmark replay (`benchmark/replay.py`, `metrics.py`) | none | replay of a committed corpus | pure |
| live campaign (`benchmark/live/`) | usage totals, sandboxes, two artifact files | run matrix, caps, artifact binding | caps bound usage; results never mix two campaigns; a manifest binds the bytes of its result |
| pressure runner (`tools/pressure_skill_runner.py`) | child process group, systemd unit, pipes, run directory, launch files | bounded execution and cleanup, attempts | nothing of a run outlives it; output is complete or refused; every attempt ends |
| clean checkout, receipts (`tools/`) | clone, receipt file | gates in sequence | a passing receipt means that every gate passed in the commit it names |
| host loop (`examples/python-generic-agent`) | trace, tools | record, analyze, apply, record outcome | the host owns effects |

How they interact: a host appends events to a trace and calls `analyze(trace,
policy, semantic_detector)`. `analyze` re-validates and copies both inputs,
calls the injected detector once with the copies, runs the six detectors and
the two hard-stop passes over them, and hands all findings to `diagnose` and
`select_recovery_policy`; the detectors call `classify_progress` on
sub-windows. The result is a `DecisionEnvelope` whose id digests its content,
or a sanitised error. The package has no shared state and no threads; what is
concurrent is the host, which may report events while its own detector runs.

The tools stand beside the package. The pressure runner starts processes and
systemd units and must survive whatever they do. The campaign calls an injected
command runner and leaves two files to a reader. The clean-checkout verifier
runs gates in a clone, among them `reheat benchmark`, whose sources are captured
by `sr/cli.py`.

In the package what is hard is not scheduling but order and memory. Every pass compresses
the events it has seen into summaries (a set that is emptied on a change, the
first pair of each identity, one poll distance, one baseline for each check),
and every summary can forget the event that would have mattered. The detectors
look back a bounded number of events, the hard stops look at everything, and a
decision combines both. In the tools it is concurrency with processes and
writers nobody controls, deadlines, crashes and what they leave behind.
`PROJECT.json` lists each hazard with its line.

## Modules

| Module | Models |
|---|---|
| `TraceEvents` | event kinds, effects, counters, identity, look-back windows |
| `Progress` | `classify_progress`: `Established` says which reasons an event adds, `Classify` is the loop body, `MadeProgress` folds it over a window |
| `ExactRepetition`, `RepeatedError`, `Cycle` | the loop bodies of the repetition detectors |
| `UnchangedState`, `AcceptanceStall`, `BudgetBurn` | the loop bodies of the no-progress and budget detectors |
| `HardStops` | the loop bodies of the two hard-stop passes |
| `ProgressScan`, `RepetitionScan`, `NoProgressScan`, `HardStopScan` | the loops as state machines over a growing window or trace |
| `Detectors` | the findings of all six detectors for a trace and a policy |
| `Diagnosis`, `RecoveryPolicy` | `diagnose` and `select_recovery_policy` |
| `Controller` | `analyze` and the host that calls it; EXTENDS everything above but the scans |
| `RecoveryInstruction`, `Evidence` | `build_recovery_instruction`, `construct_recovery_instruction`; `record_outcome` |
| `ControllerRecords` | both on the answers of `Controller` |
| `BoundedRun` | what a bounded execution promises, abstractly |
| `BoundedProcess` | `_run_bounded` step by step, with the processes it started; shown to implement `BoundedRun` |
| `CgroupRun` | `_run_selected_cgroup` and the systemd unit; EXTENDS `BoundedProcess` |
| `PressureRun` | `run_baseline`, `run_with_skill`: attempts, crashes, retries; EXTENDS `CgroupRun` |
| `Campaign`, `CampaignArtifacts` | `execute_campaign`; the two files, their writer and their reader |
| `TrustedReplay` | `reheat benchmark`: the capture of its sources beside a concurrent writer |
| `CleanCheckout` | `verify_clean_checkout`, its gates and its receipt; EXTENDS `TrustedReplay`, which is one of the gates |
| `ProgressProofs`, `RepetitionProofs`, `NoProgressProofs`, `HardStopScanProofs` | theorems about the four scans |
| `ControllerProofs` | theorems about the policy selector, `Controller` and `ControllerRecords` |
| `PressureProofs`, `CampaignProofs`, `CleanCheckoutProofs` | theorems about the tools |
| `MC*` | alphabets, policies and bounds for TLC |

**Events.** An event is a record with the fields a decision can depend on.
Identifiers, fingerprints, digests and markers are opaque values, an absent
field is `None`, and an event's id is its position. An identity is a pair of
its form (declared digest or payload) and its value: the two forms never compare
equal in the code, and a payload reference has no identity at all. The markers
of an object payload (cursor, item, poll, hypothesis, frames, eliminations,
required verification, cause) are fields that only count on the kinds of event
the code reads them from; the alphabets put some of them on other kinds too.

**Loops as steps.** A loop body is one operator (`Classify`, `ExactStep`, ...,
`LimitStep`) from a local state and a position to the next local state. The
same operator is a step of a scan specification, where the next event is
arbitrary, and is folded over a window by `Detectors` and `Controller`. A scan
therefore reaches every window its alphabet can spell, and in each state the
detector has evaluated exactly that window: an invariant of the scan is a
statement about the function on all those windows. A loop that returns keeps its
`match` from then on.

**Controller.** `Report` appends an event at any time. `Call` is the part of
`analyze` up to the semantic detector (`_validated_inputs` copies the inputs
into `snapshot`), `Return(r)` the part after it, with `r` what that detector
did: answered, raised, returned something malformed, declared itself degraded or
unavailable, or was never injected. When the policy disables it, `r` is ignored.
`Refuse` is the early return for an empty or oversized trace; the other
refusals of malformed objects have no state to reach. `Answer` is the rest of the
function, in its order: semantic error, duplicate id, limits, envelope. Scores
and weights are counted in halves. A matched deterministic finding scores 1 and
no valid policy has a threshold above 1, so thresholds never decide; a semantic
finding is taken to score 1. The decision id is a digest of the envelope and is
modelled by the envelope itself: two ids are equal exactly when those are.

**Records of a decision.** `BuildInstruction` and `ConstructInstruction` are the
two builders of a reheat's instruction; `RecordOutcome` is the evidence record of
an envelope and any outcome. They keep nothing, so they are operators, and
`ControllerRecords` states what they must say of each answer `Controller` reaches.

**Processes.** A session is a leader, the rest of its group (`kin`), a process that
left the group and still holds the pipe (`outsider`), and one pipe for the
two of the code. `pc` follows `_run_bounded`: the polling (`check`, `read`,
`observe`), the drain, the cleanup (`term`, `await`, `kill`, `reap`, `grace`,
`gone`) and the closing drain (`eof`). Between any two steps the processes may
write, fork, detach or exit, the pid of a reaped leader may be given to a
stranger, and the deadline may pass. A wait of 0.2 seconds ends whenever it likes.
One interrupt may fall anywhere: in a bounded call it is `Interrupt` here, around
the call in an execution `InterruptExecution`, around that in an attempt
`InterruptAttempt`. The instruction between `Popen` and the `try` that follows is a
step of its own (`EnterTry`), and so are the lines between the writing of the launch
file and the `try` that removes it (`InterruptLaunch`).

**Units.** `CgroupRun` runs the client `systemd-run` as such a session. The manager
and the unit are external: the client may start the unit, exit with 0 only after
the unit ended well, or die; `systemctl` may or may not force the unit out.
`PressureRun` puts an attempt around it: run directory, probe, scenarios, output,
usage, summary, the closing of descriptors; then a crash at any step and further
attempts. A further attempt is a new process: descriptors that an interrupted closing
left open are gone by then (`NextAttempt`).

**Campaigns.** A usage is a pair of turns, which have a cap per run only, and
tokens, which stand for the fields capped both per run and per campaign. The
runner is external and reports any events, or fails; the process may die at any step
(`CampaignFails`), also between a sandbox (`MakeSandbox`) and its command
(`RunCommand`). The schema of a result bounds its totals by the same numbers the
schema of a campaign fixes as caps, so the model has one constant for both
(`TokensMaximum`). `CampaignArtifacts` adds
the files: a write truncates and then fills, result first, and the reader
loads the two documents and later the bytes of the result.

**Verifications.** Every gate of `COMMAND_NAMES` is a step that passes, fails or
lets an unexpected error escape, in the order of the code. The replay gate is
`TrustedReplay`, twice. A file is its node, bytes, time stamp and kind; a write
within a tick of the clock keeps the stamp. The receipt goes through validation,
a temporary file, a replacement and a reading back, each a step. `trail` is a
ghost: it records in which commit's tree a gate succeeded.

**Abstractions.** Elapsed seconds and cost are numbers like the other counters.
A poll's value and target are naturals with the exact distance the code computes
with rationals. Summaries, explanations and counters copied from the policy are
left out of the envelope: no property depends on them. `Present` and the
`None` checks stand for the type tests on payload markers: a marker of the wrong
type is an absent one.

## What is checked

Run `tlc -workers 2 -config X.cfg M` in this directory.

| Run | Module, configuration | Distinct states | Shows |
|---|---|---|---|
| `progress` | `MCProgressScan`, `MCProgressScan.cfg` | 81,392 | summaries neither lose nor invent a reason (`ReasonsAreWitnessed`); the support is the first completing event (`SupportIsEarliest`) |
| `repetition_scan` | `MCRepetitionScan` | 212,775 | each detector decides its definition on pairs of events; cutting the window never invents a repetition (`WindowingInventsNothing`) |
| `noprogress_scan` | `MCNoProgressScan` | 330,501 | unchanged state is decided exactly; stalls and burns are genuine, and complete under stated conditions |
| `hard_stops` | `MCHardStopScan` | 111,111 | the risk pass is complete although it compares with first calls only; both stops are the earliest |
| `controller` | `MCController`, `MCController.cfg` | 276,361 | an answer speaks of the trace that was copied, whatever the host reports meanwhile (`AnswerSpeaksOfCopy`); hard stops dominate (`HardStopDominates`), persist (`HardStopPersists`) and are recorded as such whatever the host reports (`HardStopIsRecorded`); interventions are grounded (`InterventionIsGrounded`); a reheat has its instruction (`ReheatIsExecutable`); optional detection only raises the response (`SemanticOnlyRaises`) or leaves a notice (`DegradationIsHarmless`) |
| `pressure` | `MCPressureRun` | 383,311 | a bounded execution implements `BoundedRun` (`Bounded`), SIGTERM stays in the family (`TermStaysHome`), no unit or launch file outlives its attempt but by a named failure (`NoUnitOutlives`), no scenario runs twice (`RunsOnce`), a summary is complete (`SummaryIsComplete`), bounded calls answer and attempts end (`AttemptEnds`) |
| `campaign` | `MCCampaign` | 3,823,362 | usage overshoots a cap by one step at most (`OvershootIsOneStep`), results are delivered as what they are or refused (`DeliveryIsHonest`) and never mix two campaigns (`ResultsAreOfOneCampaign`), an accepted pair belongs together (`AcceptedPairIsBound`) |
| `clean_checkout` | `MCCleanCheckout`, `MCCleanCheckout.cfg` | about 1,020,000 | a pass was earned in the commit it names (`PassIsEarned`), the receipt is never torn (`ReceiptIsWhole`), only audited bytes are executed (`ReplayIsAudited`) |
| `progress_polls`, `controller_optional`, `controller_reheat_id`, `clean_receipt` | | | counterexamples to four sentences of the repository, see below |

The reference definitions of the scans (`Witnessed`, `RepeatedPairs`,
`StateCycles`, `UnmetExpectations`, `Stalls`, `Burns`, `RiskyRepeat`) quantify
over events of the window and use none of the summaries they are compared with.
Those of the no-progress detectors do use `MadeProgress`, which the `progress`
run checks on its own.

Some results came out narrower than one would first write them:

- `StallIsComplete` and `BurnIsComplete` hold in windows without progress, or
  with one check identity. Where progress happened, `acceptance_stall` drops
  the baselines of all checks (the code says so, `acceptance_stall.py:77-79`)
  and `budget_burn` moves its baseline, and later true stalls are given up.
- "Without progress" has to mean that no *stretch* of the window shows progress
  (`ProgressFree`). A stretch that starts later has forgotten evidence, stack
  frames and eliminated hypotheses and takes them for new, so a window may show
  no progress as a whole while a part of it does.
- `ReheatIsExecutable`: a detector weighted zero still counts for the gate, so
  `analyze` can decide a reheat of confidence zero, and so it can under a policy
  that lets no read be repeated; `build_recovery_instruction` refuses both.
- `HardStopIsRecorded` speaks of hard stops. A decision that rests on cause
  markers alone has no finding, and `record_outcome` refuses it.
- `TermStaysHome` excepts one window: an interrupt between the reaping of a
  trusted client and the assignment `cleaned = True` sends SIGTERM to a
  pid that may have been given away. SIGKILL after the grace is not covered at
  all: by then the leader is reaped, and a stranger's group may have its id
  (`pressure_skill_runner.py:1276-1277`).
- `NoUnitOutlives` lists by what a unit or a launch file may be left (`UnitLeft`,
  `LaunchLeft`): a containment or a removal that failed, an interrupt *during*
  either (it is not repeated), a crash; and for the launch file, a write that
  failed half way or an interrupt between that write
  (`pressure_skill_runner.py:1762`) and the `try` (line 1785), where nobody is left
  to remove it. `Bounded` promises nothing after an interrupt between `Popen`
  and the `try`, where nobody cleans up.
- `RunsOnce` has its price: the directory of an attempt that crashed blocks
  every later one. A failing close replaces a summary by an error.
- `DeliveryIsHonest` says when a campaign that ran to its end delivers nothing. The
  maxima of `results.schema.json:161-171` are the campaign caps, so totals that
  *pass* a cap are refused, whichever run passed it; only a cap that is met exactly
  leaves a partial result. When the *last* planned cell meets it, the
  complete result counts as partial and is refused as well.
- `ResultsAreOfOneCampaign` has a price: a runner that raises, or a sandbox left by
  an earlier campaign, loses every record so far. Whoever made the first sandbox is
  the only one that ever executes a command over this root.
- `AcceptedPairIsBound`: the reader hashes the bytes it finds now and is given a
  result it loaded before. If the file was rewritten in between, only kind and
  cells are those the manifest binds.
- `PassIsEarned` speaks of the receipt on disk. A verification that escapes with
  an unexpected error (no `uv`, a full disk) leaves whatever receipt was there,
  also a pass of an earlier commit.

**Bounds.** Windows have up to five events for the progress pass (a baseline, a
change that empties the pending set, a new expectation, a change, one event in
between), six for the detectors (the longest cycle has six observations; two
calls with two results and two intruders; two checks of two identities with
progress between), traces up to five for the hard stops (a harmless pair, the
risky third call, two events around). The alphabets are grouped so that markers
that interact meet in one alphabet; six alphabets cover the eleven reasons.
Controller traces have up to five events; a call takes at most four
(`MaxItems`), so the refusal is reached; detector windows are three events, so a
hard stop leaves the window while it stays in the trace; `MaxEvidence = 3` and
`MaxRejected = 1` are exceeded by some four-event traces. Three events (two
errors with an expectation, an observation) pass the reheat gate. Eight scenarios
vary the ladder (all stages, reheat only, none, a reheat that needs the host),
the semantic mode, a weight of zero, the effects that may be repeated, and the
events.

Two scenarios and two attempts let a crash fall before, between and after
executions and let the second attempt meet what the first left. A capture of one
byte with two written reaches "too large" at every read, and bytes left in the
pipe at the end; one member of the group and one outside it are all the code can
tell apart. Usage may stay under, meet and pass a cap of 2. One interrupt is
possible in all attempts together. Three cells of up to two events reach each cap
on the first, a middle and the last cell, exactly and past it; two campaigns
share the sandboxes; two pairs of files let a second writer start over what a
first one, possibly dead, left. Two verifications overlap or follow each
other on one receipt; one write to one of two sources falls at any moment of
their capture. Two edits could restore a file the code then rightly accepts.
`clean_checkout` uses symmetry of verifiers and of commits: no definition tells
them apart and only invariants are checked there.

**Deadlock and fairness.** The scans stop when the window has its bound, which
is the end of the loop; attempts, campaigns and verifications end. Their
configurations say `CHECK_DEADLOCK FALSE`. The controller never deadlocks, since
a host can always call again, and deadlock is checked there.

`PressureRun` assumes weak fairness of `RunnerStep` (the operating system schedules
the runner) and of `Tick` (the monotonic clock goes on). Nothing is assumed of
the processes, the manager, the unit or the host: a leader that never exits,
a descendant that holds the pipe, a `systemctl` that does nothing are all
among the behaviours in which `AttemptEnds` holds. A call of the controller waits
for nothing but the injected detector, of which nothing is known, and campaigns and
gates wait for injected commands without a deadline: no liveness is stated there.

**Refinement.** `Session == INSTANCE BoundedRun WITH ...` in `BoundedProcess` maps
`pc` to a phase, the group to `alive`, SIGKILL to `doomed` and pipe plus capture
to `written`. `Bounded == Session!Spec` (safety) is checked in `pressure` and
proved. `CallAnswers == Session!AnswerComes` (liveness) is a part of `AttemptEnds`
and checked there, where the calls are made by `CgroupRun` and by the probe of
`PressureRun`. The abstract
specification says what the caller may rely on for each answer: after "ok"
nobody is left who could write and every byte written was captured.

**Assumptions** on constants are named in the modules that declare them and
evaluated in the runs. The bounds are naturals (`WindowBound`, `TraceBound`,
`LimitsAssumption`, `OutputAssumption`, `RunAssumption`, `ReplayAssumption`,
`RunsAssumption`). `CampaignAssumption`: the schema of a campaign fixes every cap at
a positive value. `EventAssumption` and `EventsAssumption`: an event has the fields
of `Blank`; where a proof computes with them, counters and polls are numbers.
`PoliciesAreSafe` is what `_run_policy_is_safe` and the policy schema refuse to do
without. `ResultsAssumption`: a semantic finding of another class than the two it
may have is malformed, which is a result of its own, and it cites a finite set
of events. `NoneIsNoCode`: the absent error is none of the error codes. Each property has a mutant in `PROJECT.json`, a small plausible
bug in a mapped definition that violates it.

## What is proved

`tlapm M.tla` for each module named `*Proofs` checks every leaf, with no unproved
step. All theorems hold for every value of the constants that the named
assumptions admit: windows and traces of any length, any events, any safe policy,
any number of scenarios, cells, campaigns, attempts and verifications. Each
invariant and the refinement that a run checks is proved; TLC showed first on the
small instance that the property holds, and the proof shows that the
instance was not special.

**Scans.** A detector's property says what it must have returned and not what its
local state means, so none is inductive. For each loop there is a predicate of
its state, a window and the number of events passed; one iteration keeps it, a
longer window with the same events so far satisfies it as well (`...Reads`), and
after the last event it yields the property.

- `ProgressProofs`: `ReasonsWitnessed`, `SupportEarliest`, `TypeCorrect`.
  `ProgressOf` says which events each set of `classify_progress` stands for. Three
  summaries lose information, and the invariant says of them what is true *as long as
  their reason was not found*: every expectation is still open (`Open`), the
  latest distance of a poll is its largest (`Polled`), all errors, cursors, items
  and inputs of a hypothesis so far are equal (`NoPair`). After the reason was
  found nothing is said of them, and nothing needs to be.
- `RepetitionProofs`: `ExactDecided`, `ErrorDecided`, `CycleDecided`,
  `WindowsInventNothing`, `TypeCorrect`. While nothing matched, each identity (or
  error and input) occurred once, so remembering the first loses nothing
  (`SearchingPairs`, `SearchingErrors`); the observations listed are all there
  are, and no two of them return (`CycleScan`).
- `NoProgressProofs`: `UnchangedDecided`, `StallGenuine`, `StallComplete`,
  `BurnGenuine`, `BurnComplete`, `TypeCorrect`. `SearchingUnmet` says that an open
  state has its oldest expectation. `SearchingStall` and `SearchingBurn` are
  disjunctions: either the detector has given something up, and then the window
  shows why (progress, for a stall with checks of two identities), or it has missed
  nothing. That is where the conditions of the two completeness properties come
  from.
- `HardStopScanProofs`: `RiskComplete`, `RiskEarliest`, `LimitEarliest`,
  `TypeCorrect`. `Searching`: while nothing is returned, `seen` maps every identity
  called so far to its first call and no pair of calls is a risky repeat. If a call
  is risky beside any earlier call of its identity, it is risky beside the first:
  either one of the two is risky itself, or the earlier one would have made
  a risky pair with the first already.

**Policy selection** (`ControllerProofs`), for every diagnosis, every set of
findings and every ladder that `IsSafeLadder` admits: `DecisionIsPermitted`,
`InterventionPassesGate` (nudge, diagnose, reheat and restart need both classes
of the gate and nothing that asks for a stop or a human),
`MoreEvidenceNeverRelaxes` (with more findings and more causes the decision is at
least as strong).

**Controller** (`ControllerProofs`): `HardStopsDominate`, `HardStopsPersist` (an action
property), `InterventionsAreGrounded`, `SemanticFindingsOnlyRaise`,
`DegradationsAreHarmless`, `HardStopsAreRecorded`, `ReheatsAreExecutable`,
`AnswersSpeakOfCopy`. The invariant has one part that is not typing: an answer that stands
is the function `Answer` of *some prefix* of the present copy of the trace. The prefix
is shorter than the copy while a later call runs, because the earlier answer
stands until that call returns; the copy in turn is a prefix of the trace. What
is left are facts about `Answer`. The loops in it are folds. A fold is unfolded to
the function that gives each set of positions the state of the loop after them
(`RunOf`, `ScanIsRun`), and the same kind of predicate as in a scan is carried
along it by induction over a set of naturals (`SetInduction`).

- A hard stop is a property of the trace from its start, and `HardScansStay` says
  that both hard passes give the same finding on every longer trace: persistence
  follows. Dominance is the priority of the selector.
- What a detector cites in its window of the last *n* events is cited by position
  in the trace (`WindowCites`), so an intervention that passed the gate cites both
  kinds of evidence where the property looks for them.
- `SemanticFindingsOnlyRaise` is `MoreEvidenceNeverRelaxes` on a larger set of
  findings (`FewerFindingsFit`: the limits that let the larger set pass let the
  smaller one pass, so there is a decision to compare with).
- `ReheatsAreExecutable` computes the score: the smaller of two class scores, which
  are naturals (`ClassScoreIs`, `MinOfTwo`), is positive when both are.

**Pressure runner** (`PressureProofs`): `SignalsStayHome`, `UnitsEnd`,
`NothingRunsTwice`, `WholeSummary`, `TypeCorrect`, and `CallsAreBounded`, which is the
refinement `Spec => Bounded` step by step. `SessionInv` says at which `pc` the
leader may be running, exited or reaped (`LeaderKept`) and when nobody is left of
the group (`GroupGone`, `Answered`); `UnitInv` that a run directory is claimed
once (`Claimed`), how the unit hangs on the client (`Attached`) and what is gone at
each step of the containment (`Contained`); `RunInv` that what was not come to
was not executed (`NotYet`) and what was passed was executed and kept (`Passed`,
`Summed`).

**Campaign** (`CampaignProofs`): `OneStepOvershoot`, `HonestDelivery`,
`OneCampaignOwnsResults`, `AcceptedPairs`. `Accounting` relates phase, records and blockers: as long as the
campaign goes on no cap was reached before the latest event. `Owned` says why two
campaigns never mix: a command is only executed in a sandbox, the first one in the
first sandbox, and a campaign that did not make that one itself stops at it. `FileInv` says that
a whole manifest tells the kind and cells of the result it binds wherever it is, and
that what the reader loaded is the file until a writer opens it again.

**Clean checkout** (`CleanCheckoutProofs`): `EarnedPass`, `WholeReceipt`,
`AuditedReplay`. `Sound` says of each verifier that its clone is at its commit behind
the second gate, that a passed outcome has this commit in the trail, and that
what is about to replace the receipt is the payload that was validated; `Audited`,
that all captured sources were audited when the benchmark loads them.

**Only model-checked.** Liveness (`AttemptEnds`), which rests on
fairness and ENABLED. The four counterexamples are TLC's. What stays outside of
the prover: the library's induction theorems take an operator as parameter, which
no installed backend can instantiate. Where a proof needs induction it is over a
*set* of naturals, from the well-foundedness of their order; that suffices for the
folds here because each is determined by its steps. The sum in `Campaign` is not
computed in the proofs: all that is used of it is that no runs cost nothing and
that validation and the caps look at one total.
The theorems are about the models; that a model is faithful to the code is a matter of
reading both.

## Where the documents and the code differ

1. `sr/progress.py:36-40` says the *first* value of a poll/target pair is the
   baseline to beat. The code replaces the baseline at every poll (line 359), so
   4, 5, 4 with target 0 is "converging" at the third poll. Run
   `progress_polls`.
2. `docs/detectors.md:15` says a hard finding "produces a deterministic stop
   before an optional recommendation can matter". `analyze` calls the optional
   detector first, and a malformed result raises `ControllerError`; the host
   gets an error and no stop. A detector that *raises* an ordinary exception is
   harmless, and that is checked; a `ControllerError`, `MemoryError` or `SystemExit`
   of its own goes through to the host (`sr/controller.py:483-484`). Run
   `controller_optional`.
3. The docstring of `analyze` says that a different reheat decision id needs
   independent detector support ids. The id digests the whole envelope, and a
   plan event with a cause marker or an eliminated hypothesis changes it with
   the same support. Run `controller_reheat_id`.
4. `docs/reproduction/2026-08-27-clean-checkout.md:80` says that a typed failure
   receipt is written when a gate fails. When git itself fails in one of the
   gates `clone_head`, `clone_clean`, `forbidden_artifact_paths` and
   `status_clean`, `_git` raises before the gate has an outcome, `validate_receipt`
   refuses a fail receipt without a failed outcome, and nothing is written
   (`tools/clean_checkout_verify.py:78`, `:247`). Run `clean_receipt`.

Not modelled, but seen: the docstring of `tools/release_receipt.py:61` says that the
receipt is written atomically; lines 119-122 are one plain `write_text`.

## Not modelled

- Parsing, freezing, schema validation, canonical JSON: conversions and
  rejections without state. Models start from accepted values; fingerprints
  are opaque and equal exactly for equal content.
- Wording, summaries, explanations, output formats, exit texts.
- Benchmark replay and metrics: a pure function of committed files that calls
  `analyze`.
- Generators, linters and hygiene tools, the article, prompts and the skill:
  pure input and output or documents. The TypeScript middleware validates
  unchanged artifacts and decides nothing.
- `select_cooling_branch`: a maximum over the candidates it is given.
- Episodes, re-entry depth and cooling times: the policy declares them, and
  neither the package nor the example host counts them. There is no code to
  model.
- The exchange of `sys.modules` around the audited sources: a command line
  never looks at the modules again.
- `verify_local` keeps nothing; the release receipt is one pass of checks and one
  plain write. The pressure runner's checks of configurations, paths and
  snapshots reject before anything is started.
- Two verifiers with one clone directory. The directory is a fixed argument and
  the code takes it for its own; each verifier has its own here.

## Plan

Done: the package but for pure conversions; the pressure runner with its
abstract specification; the campaign and its artifacts; the capture; the
verifier; a theorem for every invariant, the action property and the refinement
that the runs check. Next:

1. Lemmas about the operators that are only used in the proofs so far and deserve
   to be stated for the reader: the diagnosis (`Diagnosis`) collects causes and
   evidence from marked events and matched findings only, for traces of any length.
2. Recording (`RecordOutcome`) for every decision, not hard stops alone.
3. An abstract specification of the receipt (absent, or one whole document) that
   `CleanCheckout` implements, and of the artifact pair for `CampaignArtifacts`.
