------------------------------ MODULE CgroupRun ------------------------------
(***************************************************************************)
(* _run_selected_cgroup: one execution of the selected command inside a    *)
(* transient systemd unit.                                                 *)
(*                                                                         *)
(* The runner writes a launch file, calls systemd-run (mode "trusted" of   *)
(* BoundedProcess) and, unless it exits with status 0, forces the unit out *)
(* with systemctl and asks until systemd no longer knows it.  In the unit  *)
(* the helper reads and removes the launch file and executes the selected  *)
(* command; without a launch file it exits with status 126.                *)
(*                                                                         *)
(* The systemd manager is external: it handles requests in the order they  *)
(* are made, collects a unit that ended, and lets systemd-run --wait exit  *)
(* with status 0 only after a unit that ended with status 0.  The calls of *)
(* systemctl are bounded runs too; here each reaches the manager in time   *)
(* or does not.                                                            *)
(***************************************************************************)
EXTENDS BoundedProcess

VARIABLES
  step,         \* where the attempt is
  pending,      \* what the execution will return or raise
  unit,         \* "none", "helper", "selected", "done" or "failed"
  launch        \* the launch file exists

unitVars == <<step, pending, unit, launch>>

Loaded == unit \in {"helper", "selected"}

UnitInit ==
  /\ pending = "none"
  /\ unit = "none"
  /\ launch = FALSE

\* Failures the runner reports as PressureProtocolError.
ProtocolError(answer) ==
  answer \in Codes \cup {"pressure_cgroup_cleanup_failed", "pressure_cgroup_launch_invalid",
                         "pressure_unsafe_file"}

-----------------------------------------------------------------------------
(* The runner.                                                             *)

\* The interpreter may no longer be the pinned one; the launch file is created
\* exclusively; a write that fails half way leaves what it wrote.
WriteLaunch ==
  /\ step = "launch"
  /\ unit' = "none"
  /\ \/ ~launch /\ launch' = TRUE /\ step' = "client" /\ pending' = "none"
     \/ /\ UNCHANGED launch
        /\ step' = "return"
        /\ pending' = IF launch THEN "pressure_unsafe_file" ELSE "pressure_cgroup_launch_invalid"
     \/ ~launch /\ launch' = TRUE /\ step' = "return" /\ pending' = "write_failed"
  /\ UNCHANGED sessionVars

RunClient ==
  /\ step = "client"
  /\ step' = "call"
  /\ Popen("trusted") \/ PopenFails("trusted")
  /\ UNCHANGED <<pending, unit, launch>>

\* Mutant: only failures of the protocol lead to the cleanup of the unit.
ClientReturnedCatchingErrors ==
  /\ step = "call" /\ pc = "done"
  /\ pending' = report
  /\ step' = IF ProtocolError(report) THEN "contain" ELSE "unlink"
  /\ UNCHANGED <<sessionVars, unit, launch>>

\* Whatever was raised, the unit is contained before it is raised again.
ClientReturned ==
  /\ step = "call" /\ pc = "done"
  /\ pending' = report
  /\ step' = IF report = "ok" THEN "unlink" ELSE "contain"
  /\ UNCHANGED <<sessionVars, unit, launch>>

\* systemctl kill, stop and reset-failed: none needs to succeed.
ForceOut ==
  /\ step \in {"contain", "confirm"}
  /\ step' = IF step = "contain" THEN "contained" ELSE "confirmed"
  /\ \/ UNCHANGED <<unit, outsider>>
     \/ Loaded /\ unit' = "failed" /\ outsider' = FALSE
  /\ UNCHANGED <<late, interrupted, pc, mode, leader, rc, kin, killed, pipe, got, failure,
                 report, foreign, struck, pending, launch>>

AfterCleanup == step' = IF step = "contained" THEN "unlink" ELSE "return"

\* systemctl show until the unit is not found, or the time is over.
Collected ==
  /\ step \in {"contained", "confirmed"}
  /\ ~Loaded
  /\ AfterCleanup
  /\ UNCHANGED <<sessionVars, pending, unit, launch>>

CollectingFails ==
  /\ step \in {"contained", "confirmed"}
  /\ pending' = "pressure_cgroup_cleanup_failed"
  /\ AfterCleanup
  /\ UNCHANGED <<sessionVars, unit, launch>>

\* An interrupt before the try: nothing is written, or the launch file stays,
\* written in part or whole, and nobody removes it.
InterruptLaunch ==
  /\ step \in {"launch", "client"}
  /\ step' = "return"
  /\ unit' = "none"
  /\ \/ step = "launch" /\ UNCHANGED launch /\ pending' = "interrupt"
     \/ step = "launch" /\ ~launch /\ launch' = TRUE /\ pending' = "launch_abandoned"
     \/ step = "client" /\ UNCHANGED launch /\ pending' = "launch_abandoned"

\* An interrupt inside the try, before the client is started or after it answered.
InterruptClient ==
  /\ step = "client" \/ (step = "call" /\ pc = "done" /\ report = "ok")
  /\ step' = "contain"
  /\ pending' = "interrupt"
  /\ UNCHANGED <<unit, launch>>

\* An interrupt of the cleanup, or of the finally clause, is not answered by
\* another cleanup.
InterruptCleanup ==
  /\ step \in {"contain", "contained", "confirm", "confirmed", "unlink"}
  /\ step' = IF step \in {"contain", "contained"} THEN "unlink" ELSE "return"
  /\ pending' = "abandoned"
  /\ UNCHANGED <<unit, launch>>

\* Where no bounded call is under way (that one is BoundedProcess's Interrupt).
InterruptExecution ==
  /\ ~interrupted
  /\ interrupted' = TRUE
  /\ InterruptLaunch \/ InterruptClient \/ InterruptCleanup
  /\ UNCHANGED <<late, processVars>>

\* The finally clause; a client that failed has its unit collected too.
UnlinkLaunch ==
  /\ step = "unlink"
  /\ \/ launch' = FALSE /\ UNCHANGED pending
     \/ launch /\ UNCHANGED launch /\ pending' = "pressure_cgroup_launch_invalid"
  /\ step' = IF pending' = "ok" /\ rc # 0 THEN "confirm" ELSE "return"
  /\ UNCHANGED <<sessionVars, unit>>

CgroupStep ==
  \/ WriteLaunch \/ RunClient \/ ClientReturned
  \/ ForceOut \/ Collected \/ CollectingFails \/ UnlinkLaunch

-----------------------------------------------------------------------------
(* The manager, the client and the unit.                                   *)

UnitWorld(next, holds) ==
  /\ unit' = next
  /\ outsider' = holds
  /\ UNCHANGED <<late, interrupted, pc, mode, leader, rc, kin, killed, pipe, got, failure,
                 report, foreign, struck, step, pending>>

ClientStartsUnit ==
  /\ mode = "trusted" /\ leader = "running" /\ ~killed
  /\ unit = "none"
  /\ UnitWorld("helper", TRUE)
  /\ UNCHANGED launch

\* _cgroup_helper finds no launch file, or refuses what it finds there.
HelperRefuses ==
  /\ unit = "helper"
  /\ launch' \in {launch, FALSE}
  /\ UnitWorld("failed", FALSE)

UnitEnds ==
  /\ unit = "selected"
  /\ \E end \in {"done", "failed"} : UnitWorld(end, FALSE)
  /\ UNCHANGED launch

ClientExits ==
  /\ mode = "trusted"
  /\ \E status \in {0, 1} : (status = 0 => unit = "done") /\ LeaderExits(status)
  /\ UNCHANGED unitVars

UnitTypeOK ==
  /\ unit \in {"none", "helper", "selected", "done", "failed"}
  /\ launch \in BOOLEAN
  /\ pending \in {"none", "ok", "os_error", "interrupt", "abandoned", "write_failed",
                  "pressure_cgroup_cleanup_failed", "pressure_cgroup_launch_invalid",
                  "pressure_unsafe_file", "launch_abandoned", "crash"} \cup Codes
=============================================================================
