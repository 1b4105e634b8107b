----------------------------- MODULE PressureRun -----------------------------
(***************************************************************************)
(* run_baseline and run_with_skill: an attempt runs the selected command   *)
(* once per scenario, each time in a systemd unit, and returns a summary   *)
(* of outcomes or raises.                                                  *)
(*                                                                         *)
(* An attempt claims a run directory named after the command with an       *)
(* exclusive mkdir, asks systemd whether it runs (a bounded run of mode    *)
(* "group"), then for each position executes the command (CgroupRun),      *)
(* keeps its output, and adds the usage the command reported.  One         *)
(* deadline spans all of it.  The runner may crash, and a host may start   *)
(* another attempt over what an earlier one left.                          *)
(*                                                                         *)
(* Hashes, schemas, the prompts and the rubric are left out.  Usage is one *)
(* number under one cap.                                                   *)
(***************************************************************************)
EXTENDS CgroupRun

CONSTANTS
  Positions,    \* the number of scenarios; the code has six
  Cap,          \* cap of the usage, of one execution and of all together
  MaxUsage,     \* bound on the usage a command reports
  MaxAttempts   \* bound on the attempts

ASSUME RunAssumption ==
  Positions \in Nat \ {0} /\ Cap \in Nat /\ MaxUsage \in Nat /\ MaxAttempts \in Nat \ {0}

VARIABLES
  position,     \* the scenario the attempt is at
  rundir,       \* the run directory exists
  held,         \* the sealed copies of the helper and the command are open
  runs,         \* position -> how often the selected command was executed
  spent,        \* the usage added up
  recorded,     \* positions whose output is kept in the run directory
  result,       \* what the attempt returned or raised
  attempts

runVars == <<position, rundir, held, runs, spent, recorded, result, attempts>>
vars == <<sessionVars, unitVars, runVars>>

Init ==
  /\ SessionInit
  /\ UnitInit
  /\ step = "new"
  /\ position = 1
  /\ rundir = FALSE /\ held = FALSE
  /\ runs = [p \in 1 .. Positions |-> 0]
  /\ spent = 0
  /\ recorded = {}
  /\ result = "none"
  /\ attempts = 1

Raise(code) == step' = "closing" /\ result' = code
Proceed(place) == step' = place /\ UNCHANGED result

-----------------------------------------------------------------------------
(* The attempt.                                                            *)

\* Mutant: an existing run directory is used again.
ClaimRunDirectoryAgain ==
  /\ step = "new"
  /\ \/ Raise("pressure_invalid_config") /\ UNCHANGED <<rundir, held>>
     \/ late /\ Raise("pressure_timeout") /\ UNCHANGED <<rundir, held>>
     \/ ~late /\ rundir' = TRUE /\ held' = TRUE /\ Proceed("context")
  /\ UNCHANGED <<sessionVars, pending, unit, launch, position, runs, spent, recorded,
                 attempts>>

\* The configuration, the protocol and the command are read before anything is
\* claimed; the directory is created, never reused.
ClaimRunDirectory ==
  /\ step = "new"
  /\ \/ Raise("pressure_invalid_config") /\ UNCHANGED <<rundir, held>>
     \/ late /\ Raise("pressure_timeout") /\ UNCHANGED <<rundir, held>>
     \/ ~late /\ rundir /\ Raise("pressure_run_exists") /\ UNCHANGED <<rundir, held>>
     \/ ~late /\ ~rundir /\ rundir' = TRUE /\ held' = TRUE /\ Proceed("context")
  /\ UNCHANGED <<sessionVars, pending, unit, launch, position, runs, spent, recorded,
                 attempts>>

\* _build_cgroup_context up to the probe of systemd.
ProbeSystemd ==
  /\ step = "context"
  /\ \/ late /\ Raise("pressure_timeout") /\ UNCHANGED sessionVars
     \/ ~late /\ Raise("pressure_cgroup_unavailable") /\ UNCHANGED sessionVars
     \/ ~late /\ Proceed("probe") /\ (Popen("group") \/ PopenFails("group"))
  /\ UNCHANGED <<pending, unit, launch, position, rundir, held, runs, spent, recorded,
                 attempts>>

ProbeReturned ==
  /\ step = "probe" /\ pc = "done"
  /\ \/ report = "ok" /\ rc = 0 /\ ~late /\ Proceed("position")
     \/ report \in {"ok", "pressure_timeout"} /\ late /\ Raise("pressure_timeout")
     \/ report \in {"interrupt", "abandoned"} /\ Raise("interrupt")
     \/ report \notin {"interrupt", "abandoned", "pressure_timeout"} /\ Raise("pressure_cgroup_unavailable")
  /\ UNCHANGED <<sessionVars, pending, unit, launch, position, rundir, held, runs, spent,
                 recorded, attempts>>

StartPosition ==
  /\ step = "position"
  /\ IF late THEN Raise("pressure_timeout") ELSE Proceed("launch")
  /\ UNCHANGED <<sessionVars, pending, unit, launch, position, rundir, held, runs, spent,
                 recorded, attempts>>

\* The output of an execution that returned, and what a protocol error carries
\* of it, is kept under names of this position, created exclusively: the
\* command runs in this directory and may have taken them.
RecordOutput ==
  /\ step = "return"
  /\ IF pending # "ok" /\ ~ProtocolError(pending) THEN Raise(pending) /\ UNCHANGED recorded
     ELSE \/ UNCHANGED recorded /\ Raise("pressure_unsafe_file")
          \/ /\ recorded' = recorded \cup {position}
             /\ IF pending # "ok" THEN Raise(pending)
                ELSE IF rc # 0 THEN Raise("pressure_subprocess_failed")
                ELSE Proceed("usage")
  /\ UNCHANGED <<sessionVars, pending, unit, launch, position, rundir, held, runs, spent,
                 attempts>>

\* Mutant: one scenario too many.
AddUsageOnePast ==
  /\ step = "usage"
  /\ ~late
  /\ spent' = spent + 1
  /\ IF position > Positions THEN Proceed("finish") /\ UNCHANGED position
     ELSE Proceed("position") /\ position' = position + 1
  /\ UNCHANGED <<sessionVars, pending, unit, launch, rundir, held, runs, recorded, attempts>>

\* The usage file the command wrote (0 if it wrote none), each under the cap.
AddUsage ==
  /\ step = "usage"
  /\ \E usage \in 0 .. MaxUsage :
       IF usage = 0 THEN Raise("pressure_invalid_usage") /\ UNCHANGED <<spent, position>>
       ELSE IF usage > Cap THEN Raise("pressure_budget_exceeded") /\ UNCHANGED <<spent, position>>
       ELSE IF late THEN Raise("pressure_timeout") /\ UNCHANGED <<spent, position>>
       ELSE /\ spent' = spent + usage
            /\ IF position = Positions THEN Proceed("finish") /\ UNCHANGED position
               ELSE Proceed("position") /\ position' = position + 1
  /\ UNCHANGED <<sessionVars, pending, unit, launch, rundir, held, runs, recorded, attempts>>

\* Mutant: the cap holds for each execution only.
FinishUnchecked ==
  /\ step = "finish"
  /\ IF late THEN Raise("pressure_timeout") ELSE Raise("summary")
  /\ UNCHANGED <<sessionVars, pending, unit, launch, position, rundir, held, runs, spent,
                 recorded, attempts>>

\* The totals; a baseline in which nothing failed is no baseline; the manifest
\* is put in place and the summary names its digest.
Finish ==
  /\ step = "finish"
  /\ IF late THEN Raise("pressure_timeout")
     ELSE IF spent > Cap THEN Raise("pressure_budget_exceeded")
     ELSE \E code \in {"pressure_failure_classes_insufficient", "summary"} : Raise(code)
  /\ UNCHANGED <<sessionVars, pending, unit, launch, position, rundir, held, runs, spent,
                 recorded, attempts>>

\* _StateRoot.close closes everything; what fails to close replaces the result.
Close ==
  /\ step = "closing"
  /\ step' = "over"
  /\ held' = FALSE
  /\ result' \in {result, "os_error"}
  /\ UNCHANGED <<sessionVars, pending, unit, launch, position, rundir, runs, spent,
                 recorded, attempts>>

AttemptStep ==
  \/ ClaimRunDirectory \/ ProbeSystemd \/ ProbeReturned \/ StartPosition \/ RecordOutput
  \/ AddUsage \/ Finish \/ Close

\* An interrupt between the other steps: of the claim, which may have created
\* the directory; of the work up to the closing; of the closing, which may leave
\* the sealed copies open.
InterruptAttempt ==
  /\ ~interrupted
  /\ interrupted' = TRUE
  /\ \/ /\ step = "new"
        /\ Raise("interrupt")
        /\ rundir' \in {rundir, TRUE}
        /\ UNCHANGED held
     \/ /\ \/ step \in {"context", "position", "return", "usage", "finish"}
           \/ step = "probe" /\ pc = "done"
        /\ Raise("interrupt")
        /\ UNCHANGED <<rundir, held>>
     \/ /\ step = "closing"
        /\ step' = "over"
        /\ result' = "interrupt"
        /\ held' \in {held, FALSE}
        /\ UNCHANGED rundir
  /\ UNCHANGED <<late, processVars, pending, unit, launch, position, runs, spent, recorded,
                 attempts>>

-----------------------------------------------------------------------------
(* The command, crashes and further attempts.                              *)

\* _cgroup_helper removes the launch file before it executes the command,
\* which it finds under /proc of the runner.
ExecuteSelected ==
  /\ unit = "helper" /\ launch /\ held
  /\ launch' = FALSE
  /\ UnitWorld("selected", TRUE)
  /\ runs' = [runs EXCEPT ![position] = @ + 1]
  /\ UNCHANGED <<position, rundir, held, spent, recorded, result, attempts>>

\* No runner keeps account of a session any more.
Forget ==
  /\ pc' = "done" /\ report' = "crash"
  /\ kin' = FALSE /\ foreign' = FALSE /\ rc' = 0
  /\ pipe' = 0 /\ got' = 0
  /\ failure' = "none" /\ struck' = {}

\* The runner dies.  The unit, the client and the files stay; what the runner
\* knew is gone with it, and its session is not followed any further.
Crash ==
  /\ step \notin {"new", "over", "dead"}
  /\ step' = "dead"
  /\ pending' = "crash"
  /\ held' = FALSE
  /\ Forget
  /\ position' = 1 /\ spent' = 0
  /\ UNCHANGED <<late, interrupted, mode, leader, outsider, killed, unit, launch, rundir,
                 runs, recorded, result, attempts>>

\* What an interrupted closing left open is gone with the process of that attempt.
NextAttempt ==
  /\ step \in {"over", "dead"}
  /\ attempts < MaxAttempts
  /\ attempts' = attempts + 1
  /\ step' = "new"
  /\ late' = FALSE
  /\ Forget
  /\ position' = 1 /\ spent' = 0 /\ result' = "none"
  /\ held' = FALSE
  /\ UNCHANGED <<interrupted, mode, leader, outsider, killed, pending, unit, launch, rundir,
                 runs, recorded>>

World ==
  \/ (GroupWorld \/ Tick \/ Interrupt) /\ UNCHANGED <<unitVars, runVars>>
  \/ (ClientStartsUnit \/ HelperRefuses \/ UnitEnds \/ ClientExits \/ InterruptExecution)
       /\ UNCHANGED runVars
  \/ InterruptAttempt \/ ExecuteSelected \/ Crash \/ NextAttempt

RunnerStep ==
  \/ SessionStep /\ UNCHANGED <<unitVars, runVars>>
  \/ CgroupStep /\ UNCHANGED runVars
  \/ AttemptStep

Next == RunnerStep \/ World

\* The runner is scheduled and the clock goes on; nothing is asked of the
\* processes, of the manager or of the unit.
Spec == Init /\ [][Next]_vars /\ WF_vars(RunnerStep) /\ WF_vars(Tick /\ UNCHANGED <<unitVars, runVars>>)

-----------------------------------------------------------------------------
(* Properties.                                                             *)

TypeOK ==
  /\ SessionTypeOK
  /\ UnitTypeOK
  /\ position \in 1 .. Positions
  /\ {rundir, held} \subseteq BOOLEAN
  /\ runs \in [1 .. Positions -> 0 .. MaxAttempts]
  /\ spent \in 0 .. Positions * Cap
  /\ recorded \subseteq 1 .. Positions
  /\ attempts \in 1 .. MaxAttempts

\* The answers after which a unit may be left: the containment was interrupted or
\* failed, or the runner died.  A failed unlink comes last and covers up either.
UnitLeft ==
  {"abandoned", "crash", "pressure_cgroup_cleanup_failed", "pressure_cgroup_launch_invalid"}

\* The answers after which the launch file may be left: its writing failed, an
\* interrupt fell between the writing and the try, or its removal was interrupted
\* or failed, or the runner died.
LaunchLeft ==
  {"abandoned", "crash", "write_failed", "launch_abandoned", "pressure_cgroup_launch_invalid"}

\* When an attempt is over, however it ended (a timeout, too much output, a
\* client that failed or lied, an interrupt at any step), a unit of it is loaded
\* only if the containment itself failed or was cut short, and its launch file is
\* there only if its writing or its removal was.
NoUnitOutlives ==
  step = "over" =>
    /\ Loaded => pending \in UnitLeft
    /\ launch => pending \in LaunchLeft

\* A selected command is executed at most once per scenario, whatever crashes
\* and however many attempts follow.
RunsOnce == \A p \in 1 .. Positions : runs[p] <= 1

\* A summary stands for a whole run: every scenario was executed and its output
\* kept, together they stayed under the cap, and the last one left nothing.
SummaryIsComplete ==
  result = "summary" =>
    /\ \A p \in 1 .. Positions : runs[p] = 1
    /\ recorded = 1 .. Positions
    /\ spent <= Cap
    /\ ~Loaded /\ ~launch

\* Every bounded call comes back, and every attempt that is not cut off by a
\* crash returns or raises, although no process, unit or manager they wait for
\* is assumed to do anything.
AttemptEnds == CallAnswers /\ (step = "new" ~> step \in {"over", "dead"})
=============================================================================
