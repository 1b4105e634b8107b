--------------------------- MODULE BoundedProcess ---------------------------
(***************************************************************************)
(* _run_bounded, step by step, against the processes it started.           *)
(*                                                                         *)
(* The runner starts a command as the leader of a session of its own and   *)
(* polls: is the deadline over, is there output, has the leader exited     *)
(* (waitid with WNOWAIT: without reaping it, so that its pid, which names  *)
(* the process group, cannot be given to anyone else).  Then               *)
(*   mode "group"     the group gets SIGTERM before its leader is reaped,  *)
(*                    0.2 s of grace, SIGKILL, 0.2 s more                  *)
(*   mode "trusted"   (systemd-run) a client that exited is reaped and     *)
(*                    nothing is signalled; one that did not is cleaned up *)
(*                    like a group                                         *)
(* and what is left in the pipes is read, for at most 0.2 s.               *)
(*                                                                         *)
(* The processes are modelled as the kernel lets them behave: they write,  *)
(* fork into the group, move a child out of it (setsid) with the pipes     *)
(* still open, ignore SIGTERM, and exit at any moment.  The two pipes are  *)
(* modelled by one.  Time passes between any two steps, so that a wait of  *)
(* 0.2 s may end at once or see what it waits for.                         *)
(***************************************************************************)
EXTENDS Naturals

CONSTANTS
  Maximum,      \* bytes a call may capture
  MaxWritten    \* bound on the bytes the processes of a call write

ASSUME OutputAssumption == Maximum \in Nat /\ MaxWritten \in Nat

VARIABLES
  late,         \* the deadline is over
  pc,           \* where the runner is; "idle" before, "done" after a call
  mode,         \* "group" or "trusted"
  leader,       \* "none", "running", "exited" (a zombie) or "reaped"
  rc,           \* exit status of the leader, 0 or 1
  kin,          \* another member of the group lives
  outsider,     \* a process outside the group holds the pipe
  killed,       \* the group was sent SIGKILL
  pipe,         \* bytes written and not yet read
  got,          \* bytes captured
  failure,      \* why the polling ended, "none" if the leader exited
  report,       \* what the call returned or raised
  interrupted,  \* the runner has been interrupted (KeyboardInterrupt)
  foreign,      \* the pid names a group of somebody else
  struck        \* the signals that group was sent

processVars == <<pc, mode, leader, rc, kin, outsider, killed, pipe, got,
                 failure, report, foreign, struck>>
sessionVars == <<late, interrupted, processVars>>

Polling == {"check", "read", "observe"}
Cleaning == {"term", "await", "kill", "reap", "grace", "gone"}
Codes == {"pressure_timeout", "pressure_output_too_large",
          "pressure_process_group_cleanup_failed"}

Min2(m, n) == IF m < n THEN m ELSE n

SessionInit ==
  /\ late = FALSE /\ interrupted = FALSE
  /\ pc = "idle"
  /\ mode = "group"
  /\ leader = "none" /\ rc = 0
  /\ kin = FALSE /\ outsider = FALSE /\ killed = FALSE /\ foreign = FALSE
  /\ pipe = 0 /\ got = 0
  /\ failure = "none" /\ report = "none"
  /\ struck = {}

-----------------------------------------------------------------------------
(* What the runner can see.                                                *)

Alive == leader = "running" \/ kin
GroupExists == leader \in {"running", "exited"} \/ kin \/ foreign
AtEof == pipe = 0 /\ ~Alive /\ ~outsider

Go(place) == pc' = place
Settle(answer) == pc' = "done" /\ report' = answer

\* SIGTERM or SIGKILL to whatever group the pid names now.
Signal(name) ==
  /\ killed' = (killed \/ name = "KILL")
  /\ struck' = IF foreign THEN struck \cup {name} ELSE struck

\* One os.read: no more than one byte over the maximum is ever taken.
Take(n) ==
  /\ n \in 0 .. Min2(pipe, Maximum + 1 - got)
  /\ pipe' = pipe - n
  /\ got' = got + n

Everything == Min2(pipe, Maximum + 1 - got)
TooLarge == got' > Maximum

-----------------------------------------------------------------------------
(* The runner.                                                             *)

Popen(m) ==
  /\ pc \in {"idle", "done"}
  /\ Go("started")
  /\ mode' = m
  /\ leader' = "running" /\ rc' = 0
  /\ kin' = FALSE /\ outsider' = FALSE /\ killed' = FALSE /\ foreign' = FALSE
  /\ pipe' = 0 /\ got' = 0
  /\ failure' = "none" /\ report' = "none"
  /\ struck' = {}
  /\ UNCHANGED <<late, interrupted>>

PopenFails(m) ==
  /\ pc \in {"idle", "done"}
  /\ Settle("os_error")
  /\ mode' = m
  /\ leader' = "none" /\ rc' = 0
  /\ kin' = FALSE /\ outsider' = FALSE /\ killed' = FALSE /\ foreign' = FALSE
  /\ pipe' = 0 /\ got' = 0
  /\ failure' = "none"
  /\ struck' = {}
  /\ UNCHANGED <<late, interrupted>>

\* The polling, and with it the handler of an interrupt, begins.
EnterTry ==
  /\ pc = "started"
  /\ Go("check")
  /\ UNCHANGED <<late, interrupted, mode, leader, rc, kin, outsider, killed, pipe, got,
                 failure, report, foreign, struck>>

CheckDeadline ==
  /\ pc = "check"
  /\ IF late THEN failure' = "pressure_timeout" /\ Go("term")
             ELSE UNCHANGED failure /\ Go("read")
  /\ UNCHANGED <<late, interrupted, mode, leader, rc, kin, outsider, killed, pipe, got,
                 report, foreign, struck>>

\* select and one read: what was ready, or nothing.
ReadReady ==
  /\ pc = "read"
  /\ \E n \in {0, Everything} : Take(n)
  /\ IF TooLarge THEN failure' = "pressure_output_too_large" /\ Go("term")
                 ELSE UNCHANGED failure /\ Go("observe")
  /\ UNCHANGED <<late, interrupted, mode, leader, rc, kin, outsider, killed, report,
                 foreign, struck>>

\* Mutant: waitid without WNOWAIT.
ObserveLeaderReaping ==
  /\ pc = "observe"
  /\ leader' = IF leader = "exited" THEN "reaped" ELSE leader
  /\ Go(IF leader = "exited" THEN "drain" ELSE "check")
  /\ UNCHANGED <<late, interrupted, mode, rc, kin, outsider, killed, pipe, got, failure,
                 report, foreign, struck>>

ObserveLeader ==
  /\ pc = "observe"
  /\ Go(IF leader = "exited" THEN "drain" ELSE "check")
  /\ UNCHANGED <<late, interrupted, mode, leader, rc, kin, outsider, killed, pipe, got,
                 failure, report, foreign, struck>>

\* _drain_available_streams: everything already there.
DrainAvailable ==
  /\ pc = "drain"
  /\ Take(Everything)
  /\ failure' = IF TooLarge THEN "pressure_output_too_large" ELSE "none"
  /\ Go(IF mode = "trusted" THEN "collect" ELSE "term")
  /\ UNCHANGED <<late, interrupted, mode, leader, rc, kin, outsider, killed, report,
                 foreign, struck>>

\* process.wait(timeout=0) of a trusted client, then cleaned = True.
ReapClient ==
  /\ pc = "collect"
  /\ leader' = "reaped"
  /\ Go("mark")
  /\ UNCHANGED <<late, interrupted, mode, rc, kin, outsider, killed, pipe, got, failure,
                 report, foreign, struck>>

\* Where a call goes once its processes are dealt with.
Cleaned ==
  IF failure = "none" THEN Go("eof") /\ UNCHANGED report ELSE Settle(failure)

MarkCleaned ==
  /\ pc = "mark"
  /\ Cleaned
  /\ UNCHANGED <<late, interrupted, mode, leader, rc, kin, outsider, killed, pipe, got,
                 failure, foreign, struck>>

\* _cleanup_selected_process.  SIGTERM goes out while the leader's pid is
\* still held by the leader.
SendTerm ==
  /\ pc = "term"
  /\ Signal("TERM")
  /\ Go("await")
  /\ UNCHANGED <<late, interrupted, mode, leader, rc, kin, outsider, pipe, got, failure,
                 report, foreign>>

\* process.wait(timeout=0.2): reaps the leader, or gives up on a running one.
AwaitLeader ==
  /\ pc = "await"
  /\ IF leader = "running" THEN UNCHANGED leader /\ Go("kill")
                           ELSE leader' = "reaped" /\ Go("grace")
  /\ UNCHANGED <<late, interrupted, mode, rc, kin, outsider, killed, pipe, got, failure,
                 report, foreign, struck>>

KillSession ==
  /\ pc = "kill"
  /\ Signal("KILL")
  /\ Go("reap")
  /\ UNCHANGED <<late, interrupted, mode, leader, rc, kin, outsider, pipe, got, failure,
                 report, foreign>>

ReapKilled ==
  /\ pc = "reap"
  /\ leader' = IF leader = "exited" THEN "reaped" ELSE leader
  /\ Settle("pressure_process_group_cleanup_failed")
  /\ UNCHANGED <<late, interrupted, mode, rc, kin, outsider, killed, pipe, got, failure,
                 foreign, struck>>

\* The grace of the rest of the group is over, or nobody is left.
EndGrace ==
  /\ pc = "grace"
  /\ IF GroupExists THEN Signal("KILL") ELSE UNCHANGED <<killed, struck>>
  /\ Go("gone")
  /\ UNCHANGED <<late, interrupted, mode, leader, rc, kin, outsider, pipe, got, failure,
                 report, foreign>>

\* What the handler of an interrupt cleans up is not answered but re-raised.
ConfirmGone ==
  /\ pc = "gone"
  /\ IF GroupExists THEN Settle("pressure_process_group_cleanup_failed")
     ELSE IF interrupted THEN Settle("interrupt")
     ELSE Cleaned
  /\ UNCHANGED <<late, interrupted, mode, leader, rc, kin, outsider, killed, pipe, got,
                 failure, foreign, struck>>

\* _drain_closed_streams: until the end of the output, or 0.2 s.
DrainClosed ==
  /\ pc = "eof"
  /\ pipe > 0
  /\ Take(Everything)
  /\ IF TooLarge THEN Settle("pressure_output_too_large") ELSE UNCHANGED <<pc, report>>
  /\ UNCHANGED <<late, interrupted, mode, leader, rc, kin, outsider, killed, failure,
                 foreign, struck>>

\* Mutant: what was read until the time is over is the output.
EndDrainInTime ==
  /\ pc = "eof"
  /\ Settle("ok")
  /\ UNCHANGED <<late, interrupted, mode, leader, rc, kin, outsider, killed, pipe, got,
                 failure, foreign, struck>>

\* Mutant: the drain has no time limit.
EndDrainAtEof ==
  /\ pc = "eof"
  /\ AtEof
  /\ Settle("ok")
  /\ UNCHANGED <<late, interrupted, mode, leader, rc, kin, outsider, killed, pipe, got,
                 failure, foreign, struck>>

EndDrain ==
  /\ pc = "eof"
  /\ Settle(IF AtEof THEN "ok" ELSE "pressure_process_group_cleanup_failed")
  /\ UNCHANGED <<late, interrupted, mode, leader, rc, kin, outsider, killed, pipe, got,
                 failure, foreign, struck>>

\* One KeyboardInterrupt.  While the leader is polled the handler cleans up
\* first (in the trusted branch cleaned is set only after the client has been
\* reaped); before the polling has begun, and during the cleanup, the
\* processes are left as they are: "abandoned" is an interrupt of this kind.
Interrupt ==
  /\ ~interrupted
  /\ interrupted' = TRUE
  /\ \/ pc \in Polling \cup {"drain", "collect", "mark"} /\ Go("term") /\ UNCHANGED report
     \/ pc \in Cleaning \cup {"started"} /\ Settle("abandoned")
     \/ pc = "eof" /\ Settle("interrupt")
  /\ UNCHANGED <<late, mode, leader, rc, kin, outsider, killed, pipe, got, failure,
                 foreign, struck>>

SessionStep ==
  \/ EnterTry \/ CheckDeadline \/ ReadReady \/ ObserveLeader \/ DrainAvailable
  \/ ReapClient \/ MarkCleaned
  \/ SendTerm \/ AwaitLeader \/ KillSession \/ ReapKilled \/ EndGrace \/ ConfirmGone
  \/ DrainClosed \/ EndDrain

-----------------------------------------------------------------------------
(* The processes, the kernel and the clock.                                *)

\* Once a call has answered nobody follows what is left of its session.
Followed == pc \notin {"idle", "done"}

Writer == outsider \/ (Alive /\ ~killed)

Write ==
  /\ Followed
  /\ Writer
  /\ pipe + got < MaxWritten
  /\ pipe' = pipe + 1
  /\ UNCHANGED <<late, interrupted, pc, mode, leader, rc, kin, outsider, killed, got,
                 failure, report, foreign, struck>>

\* systemd-run starts no process of its own.
Fork ==
  /\ Followed /\ mode = "group" /\ Alive /\ ~killed /\ ~kin
  /\ kin' = TRUE
  /\ UNCHANGED <<late, interrupted, pc, mode, leader, rc, outsider, killed, pipe, got,
                 failure, report, foreign, struck>>

Detach ==
  /\ Followed /\ mode = "group" /\ Alive /\ ~killed /\ ~outsider
  /\ outsider' = TRUE
  /\ UNCHANGED <<late, interrupted, pc, mode, leader, rc, kin, killed, pipe, got,
                 failure, report, foreign, struck>>

LeaderExits(status) ==
  /\ leader = "running"
  /\ leader' = "exited"
  /\ rc' = IF killed THEN 1 ELSE status
  /\ UNCHANGED <<late, interrupted, pc, mode, kin, outsider, killed, pipe, got, failure,
                 report, foreign, struck>>

KinExits ==
  /\ Followed /\ kin
  /\ kin' = FALSE
  /\ UNCHANGED <<late, interrupted, pc, mode, leader, rc, outsider, killed, pipe, got,
                 failure, report, foreign, struck>>

OutsiderExits ==
  /\ Followed /\ mode = "group" /\ outsider
  /\ outsider' = FALSE
  /\ UNCHANGED <<late, interrupted, pc, mode, leader, rc, kin, killed, pipe, got, failure,
                 report, foreign, struck>>

\* The pid of a reaped leader, no longer the name of a group of ours, is given
\* to a new process that leads a group of its own.
PidReused ==
  /\ leader = "reaped" /\ ~kin /\ ~foreign
  /\ Followed
  /\ foreign' = TRUE
  /\ UNCHANGED <<late, interrupted, pc, mode, leader, rc, kin, outsider, killed, pipe, got,
                 failure, report, struck>>

Tick ==
  /\ ~late
  /\ late' = TRUE
  /\ UNCHANGED <<interrupted, processVars>>

\* The session's processes when they are not a systemd client.
GroupWorld ==
  \/ Write \/ Fork \/ Detach \/ KinExits \/ OutsiderExits \/ PidReused
  \/ mode = "group" /\ \E status \in {0, 1} : LeaderExits(status)

-----------------------------------------------------------------------------
(* The abstract call.                                                      *)

Phase ==
  IF pc = "idle" THEN "idle" ELSE IF pc = "done" THEN "over" ELSE "live"

Session == INSTANCE BoundedRun WITH
  phase <- Phase, alive <- Alive, doomed <- killed, holder <- outsider,
  written <- pipe + got, captured <- got, report <- report

\* Each call of _run_bounded is a bounded run: a step of the polling loop, of
\* the cleanup or of the drain is a step of the abstract call or none, whatever
\* the processes do meanwhile.
Bounded == Session!Spec

\* And it comes back, although nothing it waits for is asked to happen.
CallAnswers == Session!AnswerComes

\* "Begin termination of the fresh selected session before reaping its
\* leader": SIGTERM never reaches a group of somebody else that was given the
\* leader's pid, unless an interrupt falls between the reaping of a trusted
\* client and the assignment that records it.
TermStaysHome ==
  "TERM" \in struck => mode = "trusted" /\ interrupted

SessionTypeOK ==
  /\ {late, interrupted, kin, outsider, killed, foreign} \subseteq BOOLEAN
  /\ pc \in {"idle", "done", "started", "drain", "collect", "mark", "eof"} \cup Polling \cup Cleaning
  /\ mode \in {"group", "trusted"}
  /\ leader \in {"none", "running", "exited", "reaped"}
  /\ rc \in {0, 1}
  /\ got \in 0 .. Maximum + 1 /\ pipe \in 0 .. MaxWritten
  /\ failure \in {"none", "pressure_timeout", "pressure_output_too_large"}
  /\ report \in {"none", "ok", "os_error", "interrupt", "abandoned", "crash"} \cup Codes
  /\ struck \subseteq {"TERM", "KILL"}
=============================================================================
