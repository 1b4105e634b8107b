--------------------------- MODULE PressureProofs ---------------------------
(***************************************************************************)
(* Proofs about the pressure runner, for any number of scenarios, any caps *)
(* and any number of attempts: of one bounded call (the session), of the   *)
(* unit it starts, and of the runs an attempt adds up.                     *)
(*                                                                         *)
(* The invariant has a part for each.  What the others need of a session   *)
(* is small: its mode stays, a leader that is not running never runs       *)
(* again, SIGKILL is never taken back.                                     *)
(***************************************************************************)
EXTENDS PressureRun, TLAPS

-----------------------------------------------------------------------------
(* The session.                                                            *)

\* The leader is reaped only where the call no longer signals its pid, with one
\* exception: a trusted client that an interrupt found just reaped.
LeaderKept ==
  /\ pc \in Polling \cup {"started"} => leader \in {"running", "exited"}
  /\ pc \in {"drain", "collect"} => leader = "exited"
  /\ pc \in {"mark", "grace", "gone", "eof"} => leader = "reaped"
  /\ pc \in {"collect", "mark"} => mode = "trusted"
  /\ pc = "term" => leader \in {"running", "exited"} \/ (mode = "trusted" /\ interrupted)
  /\ pc \in Cleaning => leader # "none"
  /\ foreign => leader = "reaped"

\* Who is left of the group when the call answers.
GroupGone ==
  /\ mode = "trusted" => ~kin
  /\ pc = "reap" => killed
  /\ pc = "gone" /\ kin => killed
  /\ pc = "eof" => ~kin

\* What the answer says of the leader.
Answered ==
  /\ pc # "done" => report = "none"
  /\ pc = "done" /\ report \notin {"abandoned", "crash"} => leader # "running" \/ killed
  /\ report = "ok" => leader = "reaped" /\ (mode = "trusted" => ~outsider)

SessionInv ==
  /\ SessionTypeOK
  /\ LeaderKept
  /\ GroupGone
  /\ Answered
  /\ TermStaysHome

\* What the unit and the attempt see of a step of the session.
SessionMoves ==
  /\ mode' = mode
  /\ Followed' => Followed
  /\ leader' = "running" => leader = "running"
  /\ leader' = "none" <=> leader = "none"
  /\ leader = "reaped" => leader' = "reaped"
  /\ killed => killed'
  /\ mode = "trusted" =>
       /\ outsider' = outsider /\ rc' = rc
       /\ leader' = leader \/ (leader = "exited" /\ leader' = "reaped")

\* The typing in two parts, for the provers.
Flags == {late, interrupted, kin, outsider, killed, foreign} \subseteq BOOLEAN

Values ==
  /\ pc \in {"idle", "done", "started", "drain", "collect", "mark", "eof"} \cup Polling \cup Cleaning
  /\ mode \in {"group", "trusted"}
  /\ leader \in {"none", "running", "exited", "reaped"}
  /\ rc \in {0, 1}
  /\ got \in 0 .. Maximum + 1 /\ pipe \in 0 .. MaxWritten
  /\ failure \in {"none", "pressure_timeout", "pressure_output_too_large"}
  /\ report \in {"none", "ok", "os_error", "interrupt", "abandoned", "crash"} \cup Codes
  /\ struck \subseteq {"TERM", "KILL"}

\* The steps of a call, but for those that take bytes.
LEMMA CallStepKeeps ==
  ASSUME SessionInv,
         \/ EnterTry \/ CheckDeadline \/ ObserveLeader \/ ReapClient \/ MarkCleaned
         \/ SendTerm \/ AwaitLeader \/ KillSession \/ ReapKilled \/ EndGrace \/ ConfirmGone
         \/ EndDrain \/ Interrupt
  PROVE  SessionInv' /\ SessionMoves
<1> USE DEF SessionInv, SessionTypeOK, LeaderKept, GroupGone, Answered, TermStaysHome,
            SessionMoves, Followed, Go, Settle, Polling, Cleaning, Codes
<1>1. CASE EnterTry
  BY <1>1 DEF EnterTry
<1>2. CASE CheckDeadline
  BY <1>2 DEF CheckDeadline
<1>3. CASE ObserveLeader
  BY <1>3 DEF ObserveLeader
<1>4. CASE ReapClient
  BY <1>4 DEF ReapClient
<1>5. CASE MarkCleaned
  BY <1>5 DEF MarkCleaned, Cleaned
<1>6. CASE SendTerm
  BY <1>6 DEF SendTerm, Signal
<1>7. CASE AwaitLeader
  BY <1>7 DEF AwaitLeader
<1>8. CASE KillSession
  BY <1>8 DEF KillSession, Signal
<1>9. CASE ReapKilled
  BY <1>9 DEF ReapKilled
<1>10. CASE EndGrace
  <2>1. CASE GroupExists
    <3>1. killed' = TRUE /\ struck' \in {struck, struck \cup {"KILL"}}
      BY <1>10, <2>1 DEF EndGrace, Signal
    <3>2. QED
      BY <1>10, <3>1 DEF EndGrace
  <2>2. CASE ~GroupExists
    BY <1>10, <2>2 DEF EndGrace, GroupExists
  <2>3. QED
    BY <2>1, <2>2
<1>11. CASE ConfirmGone
  BY <1>11 DEF ConfirmGone, Cleaned, GroupExists
<1>12. CASE EndDrain
  BY <1>12 DEF EndDrain, AtEof, Alive
<1>13. CASE Interrupt
  BY <1>13 DEF Interrupt
<1>14. QED
  BY <1>1, <1>2, <1>3, <1>4, <1>5, <1>6, <1>7, <1>8, <1>9, <1>10, <1>11, <1>12, <1>13

\* What one read leaves: no more than one byte over the maximum is captured.
LEMMA TakeBounds ==
  ASSUME SessionTypeOK, NEW n, Take(n)
  PROVE  /\ pipe' \in 0 .. MaxWritten /\ got' \in 0 .. Maximum + 1
         /\ pipe' + got' = pipe + got /\ got' >= got
BY OutputAssumption DEF SessionTypeOK, Take, Min2

\* The steps that take bytes.
LEMMA TakeStepKeeps ==
  ASSUME SessionInv, ReadReady \/ DrainAvailable \/ DrainClosed
  PROVE  SessionInv' /\ SessionMoves
<1> USE DEF SessionInv, SessionTypeOK, LeaderKept, GroupGone, Answered, TermStaysHome,
            SessionMoves, Followed, Go, Settle, Polling, Cleaning, Codes
<1>1. pipe' \in 0 .. MaxWritten /\ got' \in 0 .. Maximum + 1
  BY TakeBounds DEF ReadReady, DrainAvailable, DrainClosed
<1>2. CASE ReadReady
  BY <1>1, <1>2 DEF ReadReady
<1>3. CASE DrainAvailable
  BY <1>1, <1>3 DEF DrainAvailable
<1>4. CASE DrainClosed
  BY <1>1, <1>4 DEF DrainClosed
<1>5. QED
  BY <1>2, <1>3, <1>4

\* The processes of a session that is no systemd client, and the clock.
LEMMA GroupWorldKeeps ==
  ASSUME SessionInv, GroupWorld \/ Tick
  PROVE  SessionInv' /\ SessionMoves
<1> USE DEF SessionInv, SessionTypeOK, LeaderKept, GroupGone, Answered, TermStaysHome,
            SessionMoves, Followed, Polling, Cleaning, Codes
<1>1. CASE Write
  BY <1>1, OutputAssumption DEF Write
<1>2. CASE Fork
  BY <1>2 DEF Fork, Alive
<1>3. CASE Detach
  BY <1>3 DEF Detach
<1>4. CASE KinExits
  BY <1>4 DEF KinExits
<1>5. CASE OutsiderExits
  BY <1>5 DEF OutsiderExits
<1>6. CASE PidReused
  BY <1>6 DEF PidReused
<1>7. ASSUME mode = "group", NEW status \in {0, 1}, LeaderExits(status)
      PROVE  SessionInv' /\ SessionMoves
  BY <1>7 DEF LeaderExits
<1>8. CASE Tick
  BY <1>8 DEF Tick, processVars
<1>9. QED
  BY <1>1, <1>2, <1>3, <1>4, <1>5, <1>6, <1>7, <1>8 DEF GroupWorld

\* A systemd client exits when it likes.
LEMMA LeaderExitsKeeps ==
  ASSUME SessionInv, NEW status \in {0, 1}, LeaderExits(status)
  PROVE  SessionInv'
BY DEF SessionInv, SessionTypeOK, LeaderKept, GroupGone, Answered, TermStaysHome,
       Polling, Cleaning, Codes, LeaderExits

\* A new call owes nothing to the one before.
LEMMA StartKeeps ==
  ASSUME SessionInv, NEW m \in {"group", "trusted"}, Popen(m) \/ PopenFails(m)
  PROVE  SessionInv'
<1>1. SessionTypeOK'
  <2>1. Flags'
    BY DEF SessionInv, SessionTypeOK, Flags, Popen, PopenFails
  <2>2. Values'
    BY OutputAssumption DEF Values, Codes, Popen, PopenFails, Go, Settle
  <2>3. QED
    BY <2>1, <2>2 DEF SessionTypeOK, Flags, Values
<1>2. LeaderKept' /\ GroupGone' /\ Answered' /\ TermStaysHome'
  BY DEF LeaderKept, GroupGone, Answered, TermStaysHome, Polling, Cleaning, Popen, PopenFails, Go, Settle
<1>3. QED
  BY <1>1, <1>2 DEF SessionInv

\* A runner that is gone follows no session.
LEMMA ForgetKeeps ==
  ASSUME SessionInv, Forget, late' \in BOOLEAN, UNCHANGED <<interrupted, mode, leader, outsider, killed>>
  PROVE  SessionInv'
<1>1. SessionTypeOK'
  <2>1. Flags'
    BY DEF SessionInv, SessionTypeOK, Flags, Forget
  <2>2. Values'
    BY OutputAssumption DEF SessionInv, SessionTypeOK, Values, Codes, Forget
  <2>3. QED
    BY <2>1, <2>2 DEF SessionTypeOK, Flags, Values
<1>2. LeaderKept' /\ GroupGone' /\ Answered' /\ TermStaysHome'
  BY DEF SessionInv, LeaderKept, GroupGone, Answered, TermStaysHome, Polling, Cleaning, Forget
<1>3. QED
  BY <1>1, <1>2 DEF SessionInv

\* The unit holds the output streams, or lets go of them.
LEMMA OutsiderMoves ==
  ASSUME SessionInv, outsider' \in BOOLEAN, outsider' => outsider \/ leader = "running",
         UNCHANGED <<late, interrupted, pc, mode, leader, rc, kin, killed, pipe, got, failure,
                     report, foreign, struck>>
  PROVE  SessionInv'
BY DEF SessionInv, SessionTypeOK, LeaderKept, GroupGone, Answered, TermStaysHome,
       Polling, Cleaning, Codes

LEMMA SessionUntouched ==
  ASSUME SessionInv, UNCHANGED <<late, processVars>>, interrupted' = interrupted \/ interrupted' = TRUE
  PROVE  SessionInv' /\ SessionMoves
<1> USE DEF processVars
<1>1. SessionTypeOK'
  <2>1. Flags'
    BY DEF SessionInv, SessionTypeOK, Flags
  <2>2. Values'
    BY DEF SessionInv, SessionTypeOK, Values
  <2>3. QED
    BY <2>1, <2>2 DEF SessionTypeOK, Flags, Values
<1>2. LeaderKept' /\ GroupGone' /\ Answered' /\ TermStaysHome' /\ SessionMoves
  BY DEF SessionInv, LeaderKept, GroupGone, Answered, TermStaysHome, SessionMoves, Followed,
         Polling, Cleaning
<1>3. QED
  BY <1>1, <1>2 DEF SessionInv

-----------------------------------------------------------------------------
(* The unit.                                                               *)

Executing == {"call", "contain", "contained", "unlink", "confirm", "confirmed"}
Active ==
  {"context", "probe", "position", "launch", "client", "return", "usage", "finish"} \cup Executing
Resting == {"closing", "over", "new", "dead"}

\* No client is left that may still ask for its unit.
ClientGone == ~(mode = "trusted" /\ leader = "running" /\ ~killed)

Quiet == ClientGone /\ ~Loaded

\* A run directory is claimed once; before that nothing was started, and while
\* the attempt that claimed it goes on it holds the command.
Claimed ==
  /\ step \in Active \cup Resting
  /\ step \in Active => held /\ rundir
  /\ step \in {"new", "dead"} => ~held
  /\ ~rundir \/ step = "context" =>
       leader = "none" /\ mode = "group" /\ unit = "none" /\ ~launch

\* How the unit hangs on the session.
Attached ==
  /\ Followed => step \in {"call", "probe"}
  /\ Loaded => outsider
  /\ mode = "group" => unit = "none"
  /\ step = "call" => mode = "trusted"
  /\ step = "probe" => mode = "group" /\ ~launch

\* Whatever ended an execution, the client and then the unit are gone, and then the
\* launch file, unless what is pending says that the one or the other may not be.
Contained ==
  /\ step \in {"position", "launch", "usage", "finish"} => Quiet /\ ~launch
  /\ step = "client" => ClientGone /\ unit = "none"
  /\ step \in {"confirm", "confirmed"} => ~launch
  /\ pending \notin UnitLeft =>
       /\ step \in {"contain", "contained"} => ClientGone
       /\ step \in {"unlink", "confirm", "confirmed", "return"} \cup Resting => Quiet
  /\ pending \notin LaunchLeft /\ step \in {"return"} \cup Resting => ~launch

UnitInv == UnitTypeOK /\ Claimed /\ Attached /\ Contained

\* A step of the session leaves the unit in its place.
LEMMA SessionMovesKeepUnit ==
  ASSUME UnitInv, SessionMoves, UNCHANGED <<unitVars, rundir, held>>,
         mode \in {"group", "trusted"}
  PROVE  UnitInv'
<1> USE DEF UnitInv, SessionMoves, unitVars
<1>1. UnitTypeOK'
  BY DEF UnitTypeOK
<1>2. Claimed'
  BY DEF Claimed
<1>3. Attached'
  BY DEF Attached, Followed, Loaded
<1>4. Contained'
  <2>1. (ClientGone => ClientGone') /\ (Quiet => Quiet')
    BY DEF ClientGone, Quiet, Loaded
  <2>2. QED
    BY <2>1 DEF Contained
<1>5. QED
  BY <1>1, <1>2, <1>3, <1>4

\* The manager's and the unit's own steps, and the runner's systemctl.
LEMMA UnitWorldKeeps ==
  ASSUME SessionInv, UnitInv,
         \/ ClientStartsUnit \/ HelperRefuses \/ UnitEnds \/ ForceOut
         \/ ExecuteSelected, UNCHANGED <<rundir, held>>
  PROVE  SessionInv' /\ UnitInv'
<1> USE DEF UnitInv, Loaded
<1>1. /\ UNCHANGED <<late, interrupted, pc, mode, leader, rc, kin, killed, pipe, got, failure,
                     report, foreign, struck, pending>>
      /\ outsider' \in BOOLEAN /\ (outsider' => outsider \/ leader = "running")
      /\ Loaded' => outsider'
      /\ ~Loaded => ~Loaded' \/ ~ClientGone
      /\ launch' => launch
      /\ launch' \in BOOLEAN /\ unit' \in {"none", "helper", "selected", "done", "failed"}
      /\ unit = "none" => unit' = "none" \/ ~ClientGone
      /\ step' = step \/ (step = "contain" /\ step' = "contained")
                      \/ (step = "confirm" /\ step' = "confirmed")
  <2>1. outsider \in BOOLEAN /\ launch \in BOOLEAN
        /\ unit \in {"none", "helper", "selected", "done", "failed"}
    BY DEF SessionInv, SessionTypeOK, UnitTypeOK
  <2>2. CASE ClientStartsUnit
    <3>1. ~ClientGone /\ unit' = "helper" /\ outsider' = TRUE /\ UNCHANGED launch
      BY <2>2 DEF ClientStartsUnit, UnitWorld, ClientGone
    <3>2. QED
      BY <2>1, <2>2, <3>1 DEF ClientStartsUnit, UnitWorld
  <2>3. CASE HelperRefuses
    <3>1. unit = "helper" /\ unit' = "failed" /\ outsider' = FALSE /\ (launch' = launch \/ launch' = FALSE)
          /\ UNCHANGED <<late, interrupted, pc, mode, leader, rc, kin, killed, pipe, got,
                          failure, report, foreign, struck, step, pending>>
      BY <2>3 DEF HelperRefuses, UnitWorld
    <3>2. CASE launch' = launch
      BY <2>1, <3>1, <3>2
    <3>3. CASE launch' = FALSE
      BY <2>1, <3>1, <3>3
    <3>4. QED
      BY <3>1, <3>2, <3>3
  <2>4. CASE UnitEnds
    <3>1. unit' \in {"done", "failed"} /\ outsider' = FALSE /\ launch' = launch
          /\ unit = "selected"
          /\ UNCHANGED <<late, interrupted, pc, mode, leader, rc, kin, killed, pipe, got,
                          failure, report, foreign, struck, step, pending>>
      BY <2>4 DEF UnitEnds, UnitWorld
    <3>2. QED
      BY <2>1, <3>1
  <2>5. CASE ForceOut
    <3>1. /\ \/ unit' = unit /\ outsider' = outsider
             \/ unit' = "failed" /\ outsider' = FALSE /\ Loaded
          /\ launch' = launch
          /\ (step = "contain" /\ step' = "contained") \/ (step = "confirm" /\ step' = "confirmed")
          /\ UNCHANGED <<late, interrupted, pc, mode, leader, rc, kin, killed, pipe, got,
                          failure, report, foreign, struck, pending>>
      BY <2>5 DEF ForceOut
    <3>2. CASE unit' = unit /\ outsider' = outsider
      BY <2>1, <3>1, <3>2 DEF Attached
    <3>3. CASE unit' = "failed" /\ outsider' = FALSE /\ Loaded
      BY <2>1, <3>1, <3>3
    <3>4. QED
      BY <3>1, <3>2, <3>3
  <2>6. CASE ExecuteSelected
    BY <2>1, <2>6 DEF ExecuteSelected, UnitWorld, Attached
  <2>7. QED
    BY <2>2, <2>3, <2>4, <2>5, <2>6
<1>2. SessionInv'
  BY <1>1, OutsiderMoves
<1>3. UnitTypeOK'
  BY <1>1 DEF UnitTypeOK
<1>4. ClientGone' <=> ClientGone
  BY <1>1 DEF ClientGone
<1>5. (ClientGone => (~Loaded => ~Loaded')) /\ (ClientGone /\ unit = "none" => unit' = "none")
  BY <1>1
<1>6. Claimed'
  BY <1>1, <1>4, <1>5 DEF Claimed, ClientGone, Active, Executing, Resting
<1>7. Attached'
  BY <1>1, <1>5 DEF Attached, Followed, Executing, ClientGone
<1>8. Contained'
  BY <1>1, <1>4, <1>5 DEF Contained, Quiet, Resting
<1>9. QED
  BY <1>2, <1>3, <1>6, <1>7, <1>8

\* Where an interrupt leads, and what it leaves.
LEMMA InterruptTaken ==
  ASSUME InterruptExecution
  PROVE  /\ UNCHANGED <<late, processVars>> /\ interrupted' = TRUE
         /\ \/ /\ step \in {"launch", "client"} /\ step' = "return" /\ unit' = "none"
               /\ \/ step = "launch" /\ launch' = launch /\ pending' = "interrupt"
                  \/ step = "launch" /\ launch' = TRUE /\ pending' = "launch_abandoned"
                  \/ step = "client" /\ launch' = launch /\ pending' = "launch_abandoned"
            \/ /\ step = "client" \/ (step = "call" /\ pc = "done" /\ report = "ok")
               /\ step' = "contain" /\ pending' = "interrupt" /\ unit' = unit /\ launch' = launch
            \/ /\ step \in {"contain", "contained", "confirm", "confirmed", "unlink"}
               /\ (step' = "unlink" /\ step \in {"contain", "contained"}) \/ step' = "return"
               /\ pending' = "abandoned" /\ unit' = unit /\ launch' = launch
<1>1. CASE InterruptLaunch
  BY <1>1 DEF InterruptExecution, InterruptLaunch
<1>2. CASE InterruptClient
  BY <1>2 DEF InterruptExecution, InterruptClient
<1>3. CASE InterruptCleanup
  BY <1>3 DEF InterruptExecution, InterruptCleanup
<1>4. QED
  BY <1>1, <1>2, <1>3 DEF InterruptExecution

\* The steps of an execution that leave the session alone.
LEMMA ExecutionKeeps ==
  ASSUME SessionInv, UnitInv,
         WriteLaunch \/ ClientReturned \/ Collected \/ CollectingFails \/ UnlinkLaunch
           \/ InterruptExecution,
         UNCHANGED <<rundir, held>>
  PROVE  SessionInv' /\ UnitInv'
<1> USE DEF sessionVars, processVars
<1>1. SessionInv'
  BY SessionUntouched, InterruptTaken DEF WriteLaunch, ClientReturned, Collected,
                                          CollectingFails, UnlinkLaunch
<1>2. UNCHANGED <<pc, mode, leader, killed, outsider, rundir, held>>
  BY InterruptTaken DEF WriteLaunch, ClientReturned, Collected, CollectingFails, UnlinkLaunch
<1>3. UnitTypeOK'
  <2>1. CASE InterruptExecution
    <3>1. launch \in BOOLEAN /\ unit \in {"none", "helper", "selected", "done", "failed"}
      BY DEF UnitInv, UnitTypeOK
    <3>2. launch' \in BOOLEAN /\ unit' \in {unit, "none"}
          /\ pending' \in {"interrupt", "launch_abandoned", "abandoned"}
      BY <2>1, <3>1, InterruptTaken
    <3>3. QED
      BY <3>1, <3>2 DEF UnitTypeOK
  <2>2. CASE ~InterruptExecution
    <3>1. unit' \in {unit, "none"} /\ launch' \in BOOLEAN
      BY <2>2 DEF UnitInv, UnitTypeOK, WriteLaunch, ClientReturned, Collected, CollectingFails,
                  UnlinkLaunch
    <3>2. pending' \in {"none", "ok", "os_error", "interrupt", "abandoned", "write_failed",
                        "pressure_cgroup_cleanup_failed", "pressure_cgroup_launch_invalid",
                        "pressure_unsafe_file", "launch_abandoned", "crash"} \cup Codes
      BY <2>2 DEF UnitInv, UnitTypeOK, SessionInv, SessionTypeOK, Codes, WriteLaunch,
                  ClientReturned, Collected, CollectingFails, UnlinkLaunch
    <3>3. QED
      BY <3>1, <3>2 DEF UnitInv, UnitTypeOK
  <2>3. QED
    BY <2>1, <2>2
<1> USE DEF UnitInv, Claimed, Attached, Contained, Quiet, ClientGone, Loaded, Active, Resting,
            Executing, UnitLeft, LaunchLeft, Followed
<1>4. CASE WriteLaunch
  <2>1. /\ ~launch /\ step = "launch" /\ step' \in {"client", "return"} /\ unit' = "none"
        /\ step' = "return" => ~launch' \/ pending' \in LaunchLeft
    BY <1>4 DEF WriteLaunch
  <2>2. QED
    BY <1>1, <1>2, <1>3, <2>1
<1>5. CASE ClientReturned
  <2>1. /\ report = "ok" => ~outsider /\ leader = "reaped"
        /\ report \notin {"abandoned", "crash"} => leader # "running" \/ killed
    BY <1>5 DEF ClientReturned, SessionInv, Answered
  <2>2. UNCHANGED <<unit, launch>> /\ step = "call" /\ pc = "done" /\ pending' = report
        /\ step' = IF report = "ok" THEN "unlink" ELSE "contain"
    BY <1>5 DEF ClientReturned
  <2>3. Claimed' /\ Attached'
    BY <1>2, <2>2
  <2>4. CASE report = "ok"
    BY <1>1, <1>2, <1>3, <2>1, <2>2, <2>3, <2>4
  <2>5. CASE report # "ok"
    BY <1>1, <1>2, <1>3, <2>1, <2>2, <2>3, <2>5
  <2>6. QED
    BY <2>4, <2>5
<1>6. CASE Collected
  BY <1>1, <1>2, <1>3, <1>6 DEF Collected, AfterCleanup
<1>7. CASE CollectingFails
  <2>1. /\ UNCHANGED <<unit, launch>> /\ pending' = "pressure_cgroup_cleanup_failed"
        /\ \/ step = "contained" /\ step' = "unlink"
           \/ step = "confirmed" /\ step' = "return"
    BY <1>7 DEF CollectingFails, AfterCleanup
  <2>2. QED
    BY <1>1, <1>2, <1>3, <2>1
<1>8. CASE UnlinkLaunch
  <2>1. /\ step = "unlink" /\ unit' = unit /\ step' \in {"confirm", "return"}
        /\ \/ ~launch' /\ pending' = pending
           \/ step' = "return" /\ pending' = "pressure_cgroup_launch_invalid"
    BY <1>8 DEF UnlinkLaunch
  <2>2. CASE ~launch' /\ pending' = pending
    BY <1>1, <1>2, <1>3, <2>1, <2>2
  <2>3. CASE step' = "return" /\ pending' = "pressure_cgroup_launch_invalid"
    BY <1>1, <1>2, <1>3, <2>1, <2>3
  <2>4. QED
    BY <2>1, <2>2, <2>3
<1>9. CASE InterruptExecution
  <2>1. report = "ok" /\ step = "call" /\ pc = "done" => ~outsider /\ leader = "reaped"
    BY DEF SessionInv, Answered
  <2>2. CASE step \in {"launch", "client"} /\ step' = "return"
    <3>1. ClientGone /\ (step = "launch" => ~launch)
      BY <2>2
    <3>2. unit' = "none" /\ (launch' = launch \/ pending' = "launch_abandoned")
          /\ (step = "client" => pending' = "launch_abandoned")
      BY <1>9, <2>2, InterruptTaken
    <3>3. CASE pending' = "launch_abandoned"
      BY <1>1, <1>2, <1>3, <2>2, <3>1, <3>2, <3>3
    <3>4. CASE step = "launch" /\ launch' = launch
      BY <1>1, <1>2, <1>3, <2>2, <3>1, <3>2, <3>4
    <3>5. QED
      BY <2>2, <3>2, <3>3, <3>4
  <2>3. CASE step' = "contain"
    <3>1. /\ step = "client" \/ (step = "call" /\ pc = "done" /\ report = "ok")
          /\ pending' = "interrupt" /\ unit' = unit /\ launch' = launch
      BY <1>9, <2>3, InterruptTaken
    <3>2. ClientGone
      BY <2>1, <3>1
    <3>3. QED
      BY <1>1, <1>2, <1>3, <2>3, <3>1, <3>2
  <2>4. CASE pending' = "abandoned"
    <3>1. /\ step \in {"contain", "contained", "confirm", "confirmed", "unlink"}
          /\ step' \in {"unlink", "return"} /\ unit' = unit /\ launch' = launch
      BY <1>9, <2>4, InterruptTaken
    <3>2. Claimed' /\ Attached'
      BY <1>2, <3>1
    <3>3. Contained'
      BY <1>2, <2>4, <3>1
    <3>4. QED
      BY <1>1, <1>3, <3>2, <3>3
  <2>5. QED
    BY <1>9, <2>2, <2>3, <2>4, InterruptTaken
<1>10. QED
  BY <1>4, <1>5, <1>6, <1>7, <1>8, <1>9

\* A client is started, and exits; a probe is started.
LEMMA ClientKeeps ==
  ASSUME SessionInv, UnitInv, RunClient \/ ClientExits, UNCHANGED <<rundir, held>>
  PROVE  SessionInv' /\ UnitInv'
<1> USE DEF UnitInv, Claimed, Attached, Contained, Quiet, ClientGone, Loaded, Active, Resting,
            Executing, UnitLeft, LaunchLeft, Followed
<1>1. CASE RunClient
  <2>1. Popen("trusted") \/ PopenFails("trusted")
    BY <1>1 DEF RunClient
  <2>2. SessionInv'
    BY <2>1, StartKeeps
  <2>3. /\ step = "client" /\ step' = "call" /\ unit = "none"
        /\ UNCHANGED <<pending, unit, launch>> /\ mode' = "trusted"
    BY <1>1, <2>1 DEF RunClient, Popen, PopenFails
  <2>4. UnitTypeOK' /\ Claimed'
    BY <2>3 DEF UnitTypeOK
  <2>5. Attached' /\ Contained'
    BY <2>3
  <2>6. QED
    BY <2>2, <2>4, <2>5
<1>2. CASE ClientExits
  <2>1. PICK status \in {0, 1} : LeaderExits(status)
    BY <1>2 DEF ClientExits
  <2>2. SessionInv'
    BY <2>1, LeaderExitsKeeps
  <2>3. leader = "running" /\ leader' = "exited"
        /\ UNCHANGED <<pc, mode, killed, outsider, unitVars>>
    BY <1>2, <2>1 DEF LeaderExits, ClientExits
  <2>4. UnitInv'
    BY <2>3 DEF unitVars, UnitTypeOK
  <2>5. QED
    BY <2>2, <2>4
<1>3. QED
  BY <1>1, <1>2

\* The attempt's own steps, but for the one that starts a process.
LEMMA AttemptKeeps ==
  ASSUME SessionInv, UnitInv,
         ClaimRunDirectory \/ ProbeReturned \/ StartPosition \/ RecordOutput \/ AddUsage
           \/ Finish \/ Close \/ InterruptAttempt
  PROVE  SessionInv' /\ UnitInv'
<1> USE DEF sessionVars, processVars, Raise, Proceed
<1>1. SessionInv'
  BY SessionUntouched DEF ClaimRunDirectory, ProbeReturned, StartPosition, RecordOutput,
                          AddUsage, Finish, Close, InterruptAttempt
<1>2. UNCHANGED <<pc, mode, leader, killed, outsider, unit, launch, pending>>
  BY DEF ClaimRunDirectory, ProbeReturned, StartPosition, RecordOutput, AddUsage, Finish,
         Close, InterruptAttempt
<1>3. UnitTypeOK'
  BY <1>2 DEF UnitInv, UnitTypeOK
<1> USE DEF UnitInv, Claimed, Attached, Contained, Quiet, ClientGone, Loaded, Active, Resting,
            Executing, UnitLeft, LaunchLeft, Followed
<1>4. CASE ClaimRunDirectory
  BY <1>1, <1>2, <1>3, <1>4 DEF ClaimRunDirectory
<1>5. CASE ProbeReturned
  BY <1>1, <1>2, <1>3, <1>5 DEF ProbeReturned
<1>6. CASE StartPosition
  BY <1>1, <1>2, <1>3, <1>6 DEF StartPosition
<1>7. CASE RecordOutput
  BY <1>1, <1>2, <1>3, <1>7 DEF RecordOutput
<1>8. CASE AddUsage
  <2>1. step = "usage" /\ step' \in {"closing", "finish", "position"} /\ UNCHANGED <<rundir, held>>
    BY <1>8 DEF AddUsage
  <2>2. QED
    BY <1>1, <1>2, <1>3, <2>1
<1>9. CASE Finish
  BY <1>1, <1>2, <1>3, <1>9 DEF Finish
<1>10. CASE Close
  BY <1>1, <1>2, <1>3, <1>10 DEF Close
<1>11. CASE InterruptAttempt
  <2>1. \/ step = "new" /\ step' = "closing" /\ (rundir => rundir') /\ held' = held
        \/ /\ step \in {"context", "position", "return", "usage", "finish", "probe"}
           /\ step = "probe" => pc = "done"
           /\ step' = "closing" /\ rundir' = rundir /\ held' = held
        \/ step = "closing" /\ step' = "over" /\ rundir' = rundir
    BY <1>11 DEF InterruptAttempt
  <2>2. Claimed' /\ Attached'
    BY <1>2, <2>1
  <2>3. Contained'
    BY <1>2, <2>1
  <2>4. QED
    BY <1>1, <1>3, <2>2, <2>3
<1>12. QED
  BY <1>4, <1>5, <1>6, <1>7, <1>8, <1>9, <1>10, <1>11

\* The probe is the first session of an attempt.
LEMMA ProbeKeeps ==
  ASSUME SessionInv, UnitInv, ProbeSystemd
  PROVE  SessionInv' /\ UnitInv'
<1> USE DEF UnitInv, Claimed, Attached, Contained, Quiet, ClientGone, Loaded, Active, Resting,
            Executing, UnitLeft, LaunchLeft, Followed, Raise, Proceed
<1>1. /\ step = "context" /\ unit = "none" /\ leader = "none" /\ ~launch /\ mode = "group"
      /\ UNCHANGED <<pending, unit, launch, rundir, held>>
  BY DEF ProbeSystemd
<1>2. CASE step' = "closing" /\ UNCHANGED sessionVars
  <2>1. SessionInv'
    BY <1>2, SessionUntouched DEF sessionVars
  <2>2. UnitInv'
    BY <1>1, <1>2 DEF UnitTypeOK, sessionVars, processVars
  <2>3. QED
    BY <2>1, <2>2
<1>3. CASE step' = "probe" /\ (Popen("group") \/ PopenFails("group"))
  <2>1. SessionInv'
    BY <1>3, StartKeeps
  <2>2. mode' = "group"
    BY <1>3 DEF Popen, PopenFails
  <2>3. UnitInv'
    BY <1>1, <1>3, <2>2 DEF UnitTypeOK
  <2>4. QED
    BY <2>1, <2>3
<1>4. QED
  BY <1>2, <1>3 DEF ProbeSystemd

\* A crash and a new attempt leave the processes and the files to themselves.
LEMMA RestartKeeps ==
  ASSUME SessionInv, UnitInv, Crash \/ NextAttempt
  PROVE  SessionInv' /\ UnitInv'
<1>1. Forget /\ late' \in BOOLEAN /\ UNCHANGED <<interrupted, mode, leader, outsider, killed>>
  BY DEF SessionInv, SessionTypeOK, Crash, NextAttempt
<1>2. SessionInv'
  BY <1>1, ForgetKeeps
<1> USE DEF UnitInv, Claimed, Attached, Contained, Quiet, ClientGone, Loaded, Active, Resting,
            Executing, UnitLeft, LaunchLeft, Followed, Forget
<1>3. CASE Crash
  BY <1>1, <1>2, <1>3 DEF Crash, UnitTypeOK
<1>4. CASE NextAttempt
  BY <1>1, <1>2, <1>4 DEF NextAttempt, UnitTypeOK
<1>5. QED
  BY <1>3, <1>4

-----------------------------------------------------------------------------
(* The attempt.                                                            *)

RunTypeOK ==
  /\ position \in 1 .. Positions
  /\ {rundir, held} \subseteq BOOLEAN
  /\ runs \in [1 .. Positions -> {0, 1}]
  /\ spent \in Nat
  /\ recorded \subseteq 1 .. Positions
  /\ attempts \in 1 .. MaxAttempts

\* Each position may add Cap once, and the last one before "finish".
SpentInTime ==
  /\ spent <= position * Cap
  /\ step \in {"new"} \cup (Active \ {"finish"}) => spent <= (position - 1) * Cap

\* What was not come to was not executed, and the command is executed only
\* while there is a launch file for it.
NotYet ==
  /\ step \in {"new", "context", "probe"} => position = 1
  /\ ~rundir => \A p \in 1 .. Positions : runs[p] = 0
  /\ held => \A p \in 1 .. Positions :
               p > position \/ (p = position /\ (launch \/ step \in {"context", "probe", "position", "launch"}))
                 => runs[p] = 0

\* What was passed was executed and its output kept; what is being passed was
\* executed if its unit ever ran, and a client that succeeds says that it did.
Passed ==
  /\ step \in Active => \A p \in 1 .. Positions : p < position => runs[p] = 1 /\ p \in recorded
  /\ step \in Executing \cup {"return", "usage", "finish"} /\ unit \in {"selected", "done"}
       => runs[position] = 1
  /\ step = "call" /\ leader \in {"exited", "reaped"} /\ rc = 0 => unit = "done"
  /\ step \in {"contain", "contained"} => pending # "ok"
  /\ step \in {"unlink", "confirm", "confirmed", "return"} /\ pending = "ok" =>
       mode = "trusted" /\ leader = "reaped" /\ (rc = 0 => unit = "done")
  /\ step \in {"usage", "finish"} => unit = "done" /\ position \in recorded
  /\ step = "finish" => position = Positions

Summed ==
  result = "summary" =>
    /\ step \in {"closing", "over", "dead"}
    /\ unit = "done" /\ ~launch
    /\ \A p \in 1 .. Positions : runs[p] = 1 /\ p \in recorded
    /\ spent <= Cap

RunInv == RunTypeOK /\ SpentInTime /\ NotYet /\ Passed /\ Summed

IInv == SessionInv /\ UnitInv /\ RunInv

\* A step of the session leaves the attempt in its place.
LEMMA SessionMovesKeepRuns ==
  ASSUME RunInv, Attached, SessionMoves, UNCHANGED <<unitVars, runVars>>
  PROVE  RunInv'
<1> USE DEF RunInv, unitVars, runVars
<1>1. RunTypeOK' /\ SpentInTime' /\ NotYet'
  BY DEF RunTypeOK, SpentInTime, NotYet, Active, Executing
<1>2. Passed'
  BY DEF Passed, Attached, SessionMoves, Active, Executing
<1>3. Summed'
  BY DEF Summed
<1>4. QED
  BY <1>1, <1>2, <1>3

\* So do the manager and a unit that is not executed now.
LEMMA UnitWorldKeepsRuns ==
  ASSUME RunInv, Attached, ClientStartsUnit \/ HelperRefuses \/ UnitEnds \/ ForceOut,
         UNCHANGED runVars
  PROVE  RunInv'
<1> USE DEF RunInv, runVars
<1>1. /\ UNCHANGED <<mode, leader, rc, pending>>
      /\ launch' => launch
      /\ unit = "done" => unit' = "done"
      /\ unit' \in {"selected", "done"} => unit \in {"selected", "done"}
      /\ step' = step \/ (step \in {"contain", "confirm"} /\ step' \in {"contained", "confirmed"})
      /\ step \notin {"contain", "confirm"} => step' = step
      /\ step' = "confirmed" => step \in {"confirm", "confirmed"}
      /\ step' = "contained" => step \in {"contain", "contained"}
  <2>1. CASE ClientStartsUnit
    BY <2>1 DEF ClientStartsUnit, UnitWorld
  <2>2. CASE HelperRefuses
    <3>1. (launch' = launch \/ launch' = FALSE) /\ unit = "helper" /\ unit' = "failed"
          /\ UNCHANGED <<mode, leader, rc, pending, step>>
      BY <2>2 DEF HelperRefuses, UnitWorld
    <3>2. launch' => launch
      BY <3>1
    <3>3. QED
      BY <3>1, <3>2
  <2>3. CASE UnitEnds
    BY <2>3 DEF UnitEnds, UnitWorld
  <2>4. CASE ForceOut
    BY <2>4 DEF ForceOut, Loaded
  <2>5. QED
    BY <2>1, <2>2, <2>3, <2>4
<1>2. RunTypeOK' /\ SpentInTime' /\ NotYet'
  BY <1>1 DEF RunTypeOK, SpentInTime, NotYet, Active, Executing
<1>3. Passed'
  BY <1>1 DEF Passed, Active, Executing
<1>4. Summed'
  BY <1>1 DEF Summed
<1>5. QED
  BY <1>2, <1>3, <1>4

\* The launch file of a position is there at most once.
LEMMA ExecuteKeepsRuns ==
  ASSUME RunInv, Claimed, Attached, Contained, ExecuteSelected
  PROVE  RunInv'
<1> USE DEF RunInv
<1>1. /\ unit = "helper" /\ unit' = "selected" /\ launch /\ ~launch' /\ held
      /\ UNCHANGED <<step, pending, mode, leader, rc, position, rundir, held, spent, recorded,
                      result, attempts>>
      /\ runs' = [runs EXCEPT ![position] = @ + 1]
  BY DEF ExecuteSelected, UnitWorld
<1>2. position \in 1 .. Positions /\ runs[position] = 0
  BY <1>1 DEF NotYet, RunTypeOK
<1>3. rundir /\ step \notin {"context", "probe", "position", "launch"}
  BY <1>1 DEF Claimed, Attached, Contained, Quiet, Loaded
<1>4. \A p \in 1 .. Positions : runs'[p] = IF p = position THEN 1 ELSE runs[p]
  BY <1>1, <1>2 DEF RunTypeOK
<1>5. RunTypeOK'
  BY <1>1, <1>2, <1>4 DEF RunTypeOK
<1>6. SpentInTime' /\ Summed'
  BY <1>1 DEF SpentInTime, Summed, Active, Executing
<1>7. NotYet'
  BY <1>1, <1>2, <1>3, <1>4 DEF NotYet, RunTypeOK
<1>8. Passed'
  BY <1>1, <1>2, <1>4 DEF Passed, RunTypeOK
<1>9. QED
  BY <1>5, <1>6, <1>7, <1>8

\* The steps of an execution that leave the runs alone.
LEMMA ExecutionKeepsRuns ==
  ASSUME SessionInv, UnitInv, RunInv,
         WriteLaunch \/ ClientReturned \/ Collected \/ CollectingFails \/ UnlinkLaunch
           \/ InterruptExecution \/ RunClient \/ ClientExits,
         UNCHANGED runVars
  PROVE  RunInv'
<1> USE DEF RunInv, runVars, sessionVars, processVars
<1>1. \/ UNCHANGED unitVars
      \/ /\ step \in Executing \cup {"launch", "client"}
         /\ step' \in Executing \cup {"client", "return"}
         /\ launch' => launch \/ step = "launch"
  <2> USE DEF Executing, unitVars
  <2>1. CASE WriteLaunch
    BY <2>1 DEF WriteLaunch
  <2>2. CASE UnlinkLaunch
    <3>1. step = "unlink" /\ step' \in {"confirm", "return"} /\ (~launch' \/ launch' = launch)
      BY <2>2 DEF UnlinkLaunch
    <3>2. QED
      BY <3>1
  <2>3. CASE ClientReturned \/ Collected \/ CollectingFails \/ RunClient
    BY <2>3 DEF ClientReturned, Collected, CollectingFails, RunClient, AfterCleanup
  <2>6. CASE InterruptExecution
    BY <2>6, InterruptTaken
  <2>4. CASE ClientExits
    BY <2>4 DEF ClientExits
  <2>5. QED
    BY <2>1, <2>2, <2>3, <2>4, <2>6
<1>2. RunTypeOK' /\ SpentInTime'
  BY <1>1 DEF RunTypeOK, SpentInTime, Active, Executing, unitVars
<1>3. NotYet'
  BY <1>1 DEF NotYet, Executing, unitVars
<1>4. Passed'
  <2> USE DEF Passed, Active, Executing
  <2>1. CASE WriteLaunch
    BY <2>1 DEF WriteLaunch
  <2>2. CASE ClientReturned
    <3>1. /\ step = "call" /\ pending' = report
          /\ (step' = "contain" /\ report # "ok") \/ (step' = "unlink" /\ report = "ok")
          /\ UNCHANGED <<mode, leader, rc, unit>>
      BY <2>2 DEF ClientReturned
    <3>2. mode = "trusted" /\ (report = "ok" => leader = "reaped")
      BY <3>1 DEF SessionInv, Answered, UnitInv, Attached
    <3>3. CASE step' = "contain" /\ report # "ok"
      BY <3>1, <3>3
    <3>4. CASE step' = "unlink" /\ report = "ok"
      BY <3>1, <3>2, <3>4
    <3>5. QED
      BY <3>1, <3>3, <3>4
  <2>3. CASE Collected
    BY <2>3 DEF Collected, AfterCleanup
  <2>4. CASE CollectingFails
    BY <2>4 DEF CollectingFails, AfterCleanup
  <2>5. CASE UnlinkLaunch
    BY <2>5 DEF UnlinkLaunch
  <2>6. CASE InterruptExecution
    <3>1. UNCHANGED <<mode, leader, rc>> /\ unit' \in {unit, "none"} /\ pending' # "ok"
      BY <2>6, InterruptTaken
    <3>2. /\ step \in Executing \cup {"launch", "client"}
          /\ \/ step' = "return" /\ unit' = "none"
             \/ /\ step' \in {"contain", "unlink", "return"} /\ unit' = unit
                /\ step \in Executing \cup {"client"}
      BY <2>6, InterruptTaken
    <3>3. step = "client" => unit = "none"
      BY DEF UnitInv, Contained
    <3>4. QED
      BY <3>1, <3>2, <3>3
  <2>7. CASE RunClient
    BY <2>7 DEF RunClient, Popen, PopenFails, UnitInv, Contained
  <2>8. CASE ClientExits
    <3>1. /\ leader = "running" /\ mode = "trusted" /\ UNCHANGED <<mode, unitVars>>
          /\ rc' = 0 => unit = "done"
      BY <2>8 DEF ClientExits, LeaderExits
    <3>2. QED
      BY <3>1 DEF unitVars
  <2>9. QED
    BY <2>1, <2>2, <2>3, <2>4, <2>5, <2>6, <2>7, <2>8
<1>5. Summed'
  <2>1. result = "summary" => UNCHANGED unitVars
    BY <1>1 DEF Summed, Executing
  <2>2. QED
    BY <2>1 DEF Summed, unitVars
<1>6. QED
  BY <1>2, <1>3, <1>4, <1>5

\* Where a position begins or an attempt raises, nothing is added.
LEMMA PassingKeepsRuns ==
  ASSUME UnitInv, RunInv, ProbeReturned \/ StartPosition \/ Close \/ InterruptAttempt
  PROVE  RunInv'
<1>1. /\ UNCHANGED <<mode, leader, rc, pending, unit, launch, position, runs, spent, recorded,
                     attempts>>
      /\ rundir' \in {rundir, TRUE}
      /\ \/ step = "probe" /\ step' = "position" /\ UNCHANGED <<held, result>>
         \/ step = "position" /\ step' = "launch" /\ UNCHANGED <<held, result>>
         \/ /\ step = "closing" /\ step' = "over" /\ (held' => held)
            /\ result' = "summary" => result = "summary"
         \/ /\ step \in Active \cup {"new"} /\ step' = "closing"
            /\ UNCHANGED held /\ result' # "summary"
      /\ held' \in BOOLEAN
  <2> USE DEF RunInv, RunTypeOK, Raise, Proceed, sessionVars, processVars, Active, Executing
  <2>1. CASE ProbeReturned \/ StartPosition \/ Close
    BY <2>1 DEF ProbeReturned, StartPosition, Close
  <2>2. CASE InterruptAttempt
    <3>1. CASE step = "closing"
      <4>1. step' = "over" /\ rundir' = rundir /\ result' = "interrupt" /\ held' \in {held, FALSE}
            /\ UNCHANGED <<mode, leader, rc, pending, unit, launch, position, runs, spent,
                            recorded, attempts>>
        BY <2>2, <3>1 DEF InterruptAttempt
      <4>2. (held' => held) /\ held' \in BOOLEAN
        <5>1. held \in BOOLEAN
          OBVIOUS
        <5>2. CASE held' = held
          BY <5>1, <5>2
        <5>3. CASE held' = FALSE
          BY <5>3
        <5>4. QED
          BY <4>1, <5>2, <5>3
      <4>3. QED
        BY <3>1, <4>1, <4>2
    <3>2. CASE step # "closing"
      BY <2>2, <3>2 DEF InterruptAttempt
    <3>3. QED
      BY <3>1, <3>2
  <2>3. QED
    BY <2>1, <2>2
<1> USE DEF RunInv
<1>2. RunTypeOK'
  BY <1>1 DEF RunTypeOK
<1>3. SpentInTime'
  BY <1>1 DEF SpentInTime, Active, Executing
<1>4. NotYet'
  <2>1. step = "new" => ~held
    BY DEF UnitInv, Claimed
  <2>2. rundir => rundir'
    BY <1>1
  <2>3. QED
    BY <1>1, <2>1, <2>2 DEF NotYet, Active, Executing
<1>5. Passed'
  BY <1>1 DEF Passed, Active, Executing
<1>6. Summed'
  BY <1>1 DEF Summed, Active, Executing
<1>7. QED
  BY <1>2, <1>3, <1>4, <1>5, <1>6

LEMMA ClaimKeepsRuns ==
  ASSUME UnitInv, RunInv, ClaimRunDirectory
  PROVE  RunInv'
<1>1. /\ UNCHANGED <<mode, leader, rc, pending, unit, launch, position, runs, spent, recorded,
                     attempts>>
      /\ step = "new"
      /\ \/ step' = "context" /\ ~rundir /\ rundir' = TRUE /\ held' = TRUE /\ UNCHANGED result
         \/ step' = "closing" /\ UNCHANGED <<rundir, held>> /\ result' # "summary"
  BY DEF ClaimRunDirectory, Raise, Proceed, sessionVars, processVars
<1> USE DEF RunInv
<1>2. RunTypeOK'
  BY <1>1 DEF RunTypeOK
<1>3. SpentInTime' /\ NotYet'
  BY <1>1 DEF SpentInTime, NotYet, RunTypeOK, Active, Executing
<1>4. Passed'
  BY <1>1 DEF Passed, NotYet, RunTypeOK, Active, Executing
<1>5. Summed'
  BY <1>1 DEF Summed, Active, Executing
<1>6. QED
  BY <1>2, <1>3, <1>4, <1>5

LEMMA ProbeKeepsRuns ==
  ASSUME UnitInv, RunInv, ProbeSystemd
  PROVE  RunInv'
<1>1. /\ UNCHANGED <<pending, unit, launch, position, rundir, held, runs, spent, recorded, attempts>>
      /\ step = "context"
      /\ \/ step' = "probe" /\ UNCHANGED result
         \/ step' = "closing" /\ result' # "summary"
  BY DEF ProbeSystemd, Raise, Proceed
<1> USE DEF RunInv
<1>2. RunTypeOK'
  BY <1>1 DEF RunTypeOK
<1>3. SpentInTime' /\ NotYet'
  BY <1>1 DEF SpentInTime, NotYet, Active, Executing
<1>4. Passed' /\ Summed'
  BY <1>1 DEF Passed, Summed, Active, Executing
<1>5. QED
  BY <1>2, <1>3, <1>4

LEMMA RecordKeepsRuns ==
  ASSUME UnitInv, RunInv, RecordOutput
  PROVE  RunInv'
<1>0. pending # "summary" /\ (step = "return" => held)
  BY DEF UnitInv, UnitTypeOK, Codes, Claimed, Active
<1>1. /\ UNCHANGED <<mode, leader, rc, pending, unit, launch, position, rundir, held, runs, spent,
                     attempts>>
      /\ step = "return" /\ held
      /\ \/ step' = "usage" /\ UNCHANGED result /\ pending = "ok" /\ rc = 0
            /\ recorded' = recorded \cup {position}
         \/ step' = "closing" /\ result' # "summary" /\ recorded' \in {recorded, recorded \cup {position}}
  BY <1>0 DEF RecordOutput, Raise, Proceed, sessionVars, processVars
<1> USE DEF RunInv
<1>2. RunTypeOK'
  BY <1>1 DEF RunTypeOK
<1>3. SpentInTime' /\ NotYet'
  BY <1>1 DEF SpentInTime, NotYet, Active, Executing
<1>4. Passed'
  BY <1>1 DEF Passed, Active, Executing
<1>5. Summed'
  BY <1>1 DEF Summed, Active, Executing
<1>6. QED
  BY <1>2, <1>3, <1>4, <1>5

LEMMA Rising ==
  ASSUME NEW p \in Nat, NEW q \in Nat, p <= q
  PROVE  p * Cap \in Nat /\ q * Cap \in Nat /\ p * Cap <= q * Cap
BY RunAssumption DEF RunAssumption

\* What is under the cap each time is under the cap times the positions.
LEMMA OneMore ==
  ASSUME NEW p \in Nat \ {0}, NEW q \in Nat, q = p + 1,
         NEW total \in Nat, NEW usage \in 0 .. Cap, total <= (p - 1) * Cap
  PROVE  total + usage <= p * Cap /\ total + usage <= (q - 1) * Cap /\ total + usage <= q * Cap
<1>1. total + usage <= p * Cap
  BY RunAssumption DEF RunAssumption
<1>2. (q - 1) * Cap = p * Cap
  <2>1. q - 1 = p
    OBVIOUS
  <2>2. QED
    BY <2>1, Zenon
<1>3. p * Cap <= q * Cap /\ p * Cap \in Nat /\ q * Cap \in Nat
  BY Rising
<1>4. total + usage \in Nat
  BY RunAssumption DEF RunAssumption
<1>5. total + usage <= q * Cap
  BY <1>1, <1>3, <1>4
<1>6. total + usage <= (q - 1) * Cap
  BY <1>1, <1>2, Zenon
<1>7. QED
  BY <1>1, <1>5, <1>6, Zenon

LEMMA UsageKeepsRuns ==
  ASSUME UnitInv, RunInv, AddUsage
  PROVE  RunInv'
<1> USE DEF RunInv
<1>1. /\ UNCHANGED <<mode, leader, rc, pending, unit, launch, rundir, held, runs, recorded, attempts>>
      /\ step = "usage"
  BY DEF AddUsage, sessionVars, processVars
<1>2. ~launch /\ runs[position] = 1 /\ position \in recorded /\ unit = "done"
  BY <1>1 DEF UnitInv, Contained, Passed
<1>3. position \in Nat \ {0} /\ position \in 1 .. Positions /\ spent \in Nat
      /\ spent <= (position - 1) * Cap
  BY <1>1, RunAssumption DEF RunAssumption, RunTypeOK, SpentInTime, Active
<1>4. CASE step' = "closing" /\ result' # "summary" /\ UNCHANGED <<spent, position>>
  <2>1. RunTypeOK' /\ SpentInTime' /\ NotYet'
    BY <1>1, <1>4 DEF RunTypeOK, SpentInTime, NotYet, Active, Executing
  <2>2. Passed' /\ Summed'
    BY <1>1, <1>4 DEF Passed, Summed, Active, Executing
  <2>3. QED
    BY <2>1, <2>2
<1>5. ASSUME NEW usage \in 0 .. Cap, spent' = spent + usage, UNCHANGED result,
             \/ position = Positions /\ step' = "finish" /\ UNCHANGED position
             \/ position # Positions /\ step' = "position" /\ position' = position + 1
      PROVE  RunInv'
  <2>1. spent + usage <= position * Cap
    BY <1>3, OneMore
  <2>2. RunTypeOK'
    BY <1>1, <1>3, <1>5, RunAssumption DEF RunAssumption, RunTypeOK
  <2>3. SpentInTime'
    <3>1. CASE step' = "finish" /\ UNCHANGED position
      BY <1>5, <2>1, <3>1 DEF SpentInTime, Active, Executing
    <3>2. CASE step' = "position" /\ position' = position + 1
      <4>1. position' \in Nat
        BY <1>3, <3>2
      <4>2. spent + usage <= (position' - 1) * Cap /\ spent + usage <= position' * Cap
        BY <1>3, <3>2, <4>1, OneMore
      <4>3. QED
        BY <1>5, <4>2 DEF SpentInTime
    <3>3. QED
      BY <1>5, <3>1, <3>2
  <2>4. NotYet'
    BY <1>1, <1>2, <1>3, <1>5 DEF NotYet, RunTypeOK
  <2>5. Passed'
    BY <1>1, <1>2, <1>3, <1>5 DEF Passed, Active, Executing
  <2>6. Summed'
    BY <1>1, <1>5 DEF Summed, Active
  <2>7. QED
    BY <2>2, <2>3, <2>4, <2>5, <2>6
<1>6. QED
  <2>1. PICK usage \in 0 .. MaxUsage :
          \/ step' = "closing" /\ result' # "summary" /\ UNCHANGED <<spent, position>>
          \/ /\ usage <= Cap /\ spent' = spent + usage /\ UNCHANGED result
             /\ \/ position = Positions /\ step' = "finish" /\ UNCHANGED position
                \/ position # Positions /\ step' = "position" /\ position' = position + 1
    BY RunAssumption DEF RunAssumption, AddUsage, Raise, Proceed
  <2>2. CASE step' = "closing" /\ result' # "summary" /\ UNCHANGED <<spent, position>>
    BY <1>4, <2>2
  <2>3. CASE ~(step' = "closing" /\ result' # "summary" /\ UNCHANGED <<spent, position>>)
    <3>1. usage \in 0 .. Cap
      BY <2>1, <2>3, RunAssumption DEF RunAssumption
    <3>2. QED
      BY <1>5, <2>1, <2>3, <3>1
  <2>4. QED
    BY <2>2, <2>3

\* A summary is raised where every position was passed.
LEMMA FinishKeepsRuns ==
  ASSUME UnitInv, RunInv, Finish
  PROVE  RunInv'
<1>1. /\ UNCHANGED <<unit, launch, position, rundir, held, runs, spent, recorded, attempts>>
      /\ step = "finish" /\ step' = "closing"
      /\ result' = "summary" => ~(spent > Cap)
  BY DEF Finish, Raise
<1>2. ~launch /\ runs[position] = 1 /\ unit = "done" /\ position = Positions /\ position \in recorded
  BY <1>1 DEF UnitInv, Contained, RunInv, Passed
<1> USE DEF RunInv
<1>3. RunTypeOK'
  BY <1>1 DEF RunTypeOK
<1>4. SpentInTime' /\ NotYet'
  BY <1>1 DEF SpentInTime, NotYet, Active, Executing
<1>5. Passed'
  BY <1>1 DEF Passed, Active, Executing
<1>6. Summed'
  <2>1. result' = "summary" => spent <= Cap
    BY <1>1, RunAssumption DEF RunAssumption, RunTypeOK
  <2>2. \A p \in 1 .. Positions : runs[p] = 1 /\ p \in recorded
    <3>1. \A p \in 1 .. Positions : p < Positions => runs[p] = 1 /\ p \in recorded
      BY <1>1, <1>2 DEF Passed, Active
    <3>2. QED
      BY <1>2, <3>1, RunAssumption DEF RunAssumption
  <2>3. QED
    BY <1>1, <1>2, <2>1, <2>2 DEF Summed
<1>7. QED
  BY <1>3, <1>4, <1>5, <1>6

\* What an attempt knew is lost, what it executed is not.
LEMMA RestartKeepsRuns ==
  ASSUME UnitInv, RunInv, Crash \/ NextAttempt
  PROVE  RunInv'
<1>1. /\ UNCHANGED <<unit, launch, rundir, runs, recorded>>
      /\ position' = 1 /\ spent' = 0 /\ ~held' /\ held' \in BOOLEAN
      /\ \/ step' = "dead" /\ UNCHANGED <<result, attempts>> /\ step # "new"
         \/ step' = "new" /\ result' = "none" /\ attempts' = attempts + 1 /\ attempts < MaxAttempts
  <2>1. CASE Crash
    BY <2>1 DEF Crash
  <2>2. CASE NextAttempt
    BY <2>2 DEF NextAttempt
  <2>3. QED
    BY <2>1, <2>2
<1> USE DEF RunInv
<1>2. RunTypeOK'
  BY <1>1, RunAssumption DEF RunAssumption, RunTypeOK
<1>3. SpentInTime'
  <2>1. 0 <= 1 * Cap /\ 0 <= (1 - 1) * Cap
    BY RunAssumption DEF RunAssumption
  <2>2. QED
    BY <1>1, <2>1 DEF SpentInTime
<1>4. NotYet' /\ Passed'
  BY <1>1 DEF NotYet, Passed, Active, Executing
<1>5. Summed'
  BY <1>1, RunAssumption DEF RunAssumption, Summed
<1>6. QED
  BY <1>2, <1>3, <1>4, <1>5

-----------------------------------------------------------------------------
(* The three parts together.                                               *)

LEMMA InitInv == Init => IInv
<1> SUFFICES ASSUME Init
             PROVE  IInv
  OBVIOUS
<1>1. SessionInv
  <2>1. Flags
    BY DEF Init, SessionInit, Flags
  <2>2. Values
    BY OutputAssumption DEF Init, SessionInit, Values, Codes
  <2>3. QED
    BY <2>1, <2>2 DEF SessionInv, SessionTypeOK, Flags, Values, Init, SessionInit, LeaderKept,
                      GroupGone, Answered, TermStaysHome, Polling, Cleaning
<1>2. UnitInv
  BY DEF Init, SessionInit, UnitInit, UnitInv, UnitTypeOK, Claimed, Attached, Contained, Quiet,
         ClientGone, Loaded, Active, Resting, Executing, Followed
<1>3. RunInv
  <2>1. RunTypeOK
    <3>1. runs = [p \in 1 .. Positions |-> 0]
      BY DEF Init
    <3>2. runs \in [1 .. Positions -> {0, 1}]
      BY <3>1
    <3>3. {rundir, held} \subseteq BOOLEAN /\ recorded = {}
      BY DEF Init
    <3>4. position \in 1 .. Positions /\ spent \in Nat /\ attempts \in 1 .. MaxAttempts
      BY RunAssumption DEF RunAssumption, Init
    <3>5. QED
      BY <3>2, <3>3, <3>4 DEF RunTypeOK
  <2>2. SpentInTime
    <3>1. 0 <= 1 * Cap /\ 0 <= (1 - 1) * Cap
      BY RunAssumption DEF RunAssumption
    <3>2. QED
      BY <3>1 DEF Init, SpentInTime
  <2>3. NotYet /\ Passed /\ Summed
    BY DEF Init, NotYet, Passed, Summed, Active, Executing
  <2>4. QED
    BY <2>1, <2>2, <2>3 DEF RunInv
<1>4. QED
  BY <1>1, <1>2, <1>3 DEF IInv

LEMMA NextInv == IInv /\ [Next]_vars => IInv'
<1> SUFFICES ASSUME IInv, [Next]_vars
             PROVE  IInv'
  OBVIOUS
<1> USE DEF IInv
<1>0. /\ mode \in {"group", "trusted"} /\ Claimed /\ Attached /\ Contained
  BY DEF SessionInv, SessionTypeOK, UnitInv
<1>1. ASSUME SessionInv' /\ SessionMoves, UNCHANGED <<unitVars, runVars>>
      PROVE  IInv'
  BY <1>0, <1>1, SessionMovesKeepUnit, SessionMovesKeepRuns DEF runVars
<1>2. CASE SessionStep /\ UNCHANGED <<unitVars, runVars>>
  BY <1>1, <1>2, CallStepKeeps, TakeStepKeeps DEF SessionStep
<1>3. CASE (GroupWorld \/ Tick \/ Interrupt) /\ UNCHANGED <<unitVars, runVars>>
  BY <1>1, <1>3, GroupWorldKeeps, CallStepKeeps
<1>4. CASE CgroupStep /\ UNCHANGED runVars
  <2>1. UNCHANGED <<rundir, held>>
    BY <1>4 DEF runVars
  <2>2. CASE ForceOut
    BY <1>0, <1>4, <2>1, <2>2, UnitWorldKeeps, UnitWorldKeepsRuns
  <2>3. CASE WriteLaunch \/ ClientReturned \/ Collected \/ CollectingFails \/ UnlinkLaunch
    BY <1>4, <2>1, <2>3, ExecutionKeeps, ExecutionKeepsRuns
  <2>4. CASE RunClient
    BY <1>4, <2>1, <2>4, ClientKeeps, ExecutionKeepsRuns
  <2>5. QED
    BY <1>4, <2>2, <2>3, <2>4 DEF CgroupStep
<1>5. CASE (ClientStartsUnit \/ HelperRefuses \/ UnitEnds \/ ClientExits \/ InterruptExecution)
             /\ UNCHANGED runVars
  <2>1. UNCHANGED <<rundir, held>>
    BY <1>5 DEF runVars
  <2>2. CASE ClientStartsUnit \/ HelperRefuses \/ UnitEnds
    BY <1>0, <1>5, <2>1, <2>2, UnitWorldKeeps, UnitWorldKeepsRuns
  <2>3. CASE ClientExits
    BY <1>5, <2>1, <2>3, ClientKeeps, ExecutionKeepsRuns
  <2>4. CASE InterruptExecution
    BY <1>5, <2>1, <2>4, ExecutionKeeps, ExecutionKeepsRuns
  <2>5. QED
    BY <1>5, <2>2, <2>3, <2>4
<1>6. CASE ExecuteSelected
  <2>1. UNCHANGED <<rundir, held>>
    BY <1>6 DEF ExecuteSelected
  <2>2. QED
    BY <1>0, <1>6, <2>1, UnitWorldKeeps, ExecuteKeepsRuns
<1>7. CASE AttemptStep \/ InterruptAttempt
  <2>1. SessionInv' /\ UnitInv'
    BY <1>7, AttemptKeeps, ProbeKeeps DEF AttemptStep
  <2>2. RunInv'
    BY <1>7, ClaimKeepsRuns, ProbeKeepsRuns, PassingKeepsRuns, RecordKeepsRuns, UsageKeepsRuns,
       FinishKeepsRuns DEF AttemptStep
  <2>3. QED
    BY <2>1, <2>2
<1>8. CASE Crash \/ NextAttempt
  BY <1>8, RestartKeeps, RestartKeepsRuns
<1>9. CASE UNCHANGED vars
  <2>1. SessionInv' /\ SessionMoves
    BY <1>9, SessionUntouched DEF vars, sessionVars
  <2>2. QED
    BY <1>1, <1>9, <2>1 DEF vars
<1>10. QED
  BY <1>2, <1>3, <1>4, <1>5, <1>6, <1>7, <1>8, <1>9 DEF Next, RunnerStep, World

-----------------------------------------------------------------------------
(* The bounded call implements its promise.                                *)

AbstractStep == [Session!Next]_(Session!vars)

LEMMA CallImplements ==
  ASSUME SessionInv, SessionStep \/ Interrupt
  PROVE  AbstractStep
<1> USE DEF SessionInv, SessionTypeOK, AbstractStep, Session!Next, Session!vars, Phase, Alive, Go,
            Settle
<1>0. (ReadReady \/ DrainAvailable \/ DrainClosed)
        => got' \in got .. pipe + got /\ pipe' + got' = pipe + got
  BY TakeBounds DEF ReadReady, DrainAvailable, DrainClosed
<1>1. CASE EnterTry \/ CheckDeadline \/ ObserveLeader
  BY <1>1 DEF EnterTry, CheckDeadline, ObserveLeader
<1>2. CASE ReadReady
  BY <1>0, <1>2 DEF ReadReady, Session!Capture
<1>3. CASE DrainAvailable
  BY <1>0, <1>3 DEF DrainAvailable, Session!Capture
<1>4. CASE ReapClient
  BY <1>4 DEF ReapClient, LeaderKept
<1>5. CASE MarkCleaned
  BY <1>5 DEF MarkCleaned, Cleaned, LeaderKept, GroupGone, Session!Answer, Session!Promise
<1>6. CASE SendTerm
  BY <1>6 DEF SendTerm, Signal
<1>7. CASE AwaitLeader
  BY <1>7 DEF AwaitLeader
<1>8. CASE KillSession
  BY <1>8 DEF KillSession, Signal, Session!Doom
<1>9. CASE ReapKilled
  BY <1>9 DEF ReapKilled, GroupGone, Session!Answer, Session!Promise
<1>10. CASE EndGrace
  BY <1>10 DEF EndGrace, Signal, Session!Doom
<1>11. CASE ConfirmGone
  BY <1>11 DEF ConfirmGone, Cleaned, GroupExists, LeaderKept, GroupGone, Session!Answer, Session!Promise
<1>12. CASE DrainClosed
  BY <1>0, <1>12 DEF DrainClosed, LeaderKept, GroupGone, Session!Capture, Session!Answer, Session!Promise
<1>13. CASE EndDrain
  BY <1>13 DEF EndDrain, AtEof, LeaderKept, GroupGone, Session!Answer, Session!Promise
<1>14. CASE Interrupt
  BY <1>14 DEF Interrupt, Polling, Cleaning, Session!Answer, Session!Promise
<1>15. QED
  BY <1>1, <1>2, <1>3, <1>4, <1>5, <1>6, <1>7, <1>8, <1>9, <1>10, <1>11, <1>12, <1>13, <1>14
     DEF SessionStep

\* The processes, and the unit where it holds the output streams.
LEMMA WorldImplements ==
  ASSUME SessionInv, Attached,
         \/ GroupWorld \/ Tick \/ ClientExits \/ ClientStartsUnit \/ HelperRefuses \/ UnitEnds
         \/ ForceOut \/ ExecuteSelected
  PROVE  AbstractStep
<1> USE DEF SessionInv, SessionTypeOK, AbstractStep, Session!Next, Session!vars, Session!World,
            Phase, Alive
<1>1. CASE Write
  BY <1>1 DEF Write, Writer, Alive
<1>2. CASE Fork \/ Detach \/ KinExits \/ OutsiderExits
  BY <1>2 DEF Fork, Detach, KinExits, OutsiderExits
<1>3. CASE PidReused
  BY <1>3 DEF PidReused
<1>4. ASSUME NEW status \in {0, 1}, LeaderExits(status)
      PROVE  AbstractStep
  BY <1>4 DEF LeaderExits
<1>5. CASE Tick
  BY <1>5 DEF Tick, processVars
<1>6. CASE ClientExits
  BY <1>4, <1>6 DEF ClientExits
<1>7. ASSUME NEW next, NEW holds \in BOOLEAN, UnitWorld(next, holds), holds => leader = "running" \/ outsider
      PROVE  AbstractStep
  BY <1>7 DEF UnitWorld
<1>8. CASE ClientStartsUnit
  BY <1>7, <1>8 DEF ClientStartsUnit
<1>9. CASE HelperRefuses \/ UnitEnds
  BY <1>7, <1>9 DEF HelperRefuses, UnitEnds
<1>10. CASE ExecuteSelected
  BY <1>7, <1>10 DEF ExecuteSelected, Attached, Loaded
<1>11. CASE ForceOut
  BY <1>11 DEF ForceOut
<1>12. QED
  BY <1>1, <1>2, <1>3, <1>4, <1>5, <1>6, <1>8, <1>9, <1>10, <1>11 DEF GroupWorld

LEMMA StartImplements ==
  ASSUME SessionInv, NEW m \in {"group", "trusted"}, Popen(m) \/ PopenFails(m)
  PROVE  AbstractStep
<1> USE DEF SessionInv, SessionTypeOK, AbstractStep, Session!Next, Session!vars, Phase, Alive, Go,
            Settle
<1>1. CASE Popen(m)
  BY <1>1 DEF Popen, Session!Begin
<1>2. CASE PopenFails(m)
  BY <1>2 DEF PopenFails, Session!Refuse
<1>3. QED
  BY <1>1, <1>2

LEMMA ForgetImplements ==
  ASSUME Forget, UNCHANGED <<leader, outsider, killed>>
  PROVE  AbstractStep
BY DEF Forget, AbstractStep, Session!Next, Session!Forget, Phase, Alive

LEMMA UntouchedImplements ==
  ASSUME UNCHANGED processVars
  PROVE  AbstractStep
BY DEF processVars, AbstractStep, Session!vars, Phase, Alive

LEMMA StepImplements == IInv /\ [Next]_vars => AbstractStep
<1> SUFFICES ASSUME IInv, [Next]_vars
             PROVE  AbstractStep
  OBVIOUS
<1> USE DEF IInv
<1>1. CASE SessionStep \/ GroupWorld \/ Tick \/ Interrupt
  BY <1>1, CallImplements, WorldImplements DEF UnitInv
<1>2. CASE ClientExits \/ ClientStartsUnit \/ HelperRefuses \/ UnitEnds \/ ForceOut \/ ExecuteSelected
  BY <1>2, WorldImplements DEF UnitInv
<1>3. CASE RunClient \/ ProbeSystemd
  <2>1. \/ \E m \in {"group", "trusted"} : Popen(m) \/ PopenFails(m)
        \/ UNCHANGED processVars
    BY <1>3 DEF RunClient, ProbeSystemd, sessionVars
  <2>2. QED
    BY <2>1, StartImplements, UntouchedImplements
<1>4. CASE Crash \/ NextAttempt
  BY <1>4, ForgetImplements DEF Crash, NextAttempt
<1>5. CASE \/ WriteLaunch \/ ClientReturned \/ Collected \/ CollectingFails \/ UnlinkLaunch
           \/ ClaimRunDirectory \/ ProbeReturned \/ StartPosition \/ RecordOutput \/ AddUsage
           \/ Finish \/ Close \/ InterruptExecution \/ InterruptAttempt \/ UNCHANGED vars
  <2>1. UNCHANGED processVars
    BY <1>5 DEF WriteLaunch, ClientReturned, Collected, CollectingFails, UnlinkLaunch,
                ClaimRunDirectory, ProbeReturned, StartPosition, RecordOutput, AddUsage, Finish,
                Close, InterruptExecution, InterruptAttempt, sessionVars, vars
  <2>2. QED
    BY <2>1, UntouchedImplements
<1>6. QED
  BY <1>1, <1>2, <1>3, <1>4, <1>5 DEF Next, RunnerStep, World, CgroupStep, AttemptStep

-----------------------------------------------------------------------------
(* The theorems.                                                           *)

\* Whatever the processes, the manager, interrupts, crashes and further attempts
\* do, the three parts of the invariant hold together.
THEOREM Invariance == Spec => []IInv
<1>1. Init => IInv
  BY InitInv
<1>2. IInv /\ [Next]_vars => IInv'
  BY NextInv
<1>3. QED
  BY <1>1, <1>2, PTL DEF Spec

\* The runner's variables keep their types; what an attempt adds up stays under
\* the cap of one scenario times their number.
THEOREM TypeCorrect == Spec => []TypeOK
<1>1. IInv => TypeOK
  <2> SUFFICES ASSUME IInv
               PROVE  TypeOK
    OBVIOUS
  <2> USE DEF IInv, RunInv
  <2>1. SessionTypeOK /\ UnitTypeOK
    BY DEF SessionInv, UnitInv
  <2>2. spent \in 0 .. Positions * Cap
    <3>1. /\ position \in Nat /\ Positions \in Nat /\ position <= Positions
          /\ spent \in Nat /\ spent <= position * Cap
      BY RunAssumption DEF RunAssumption, RunTypeOK, SpentInTime
    <3>2. position * Cap <= Positions * Cap /\ position * Cap \in Nat /\ Positions * Cap \in Nat
      BY <3>1, Rising
    <3>3. QED
      BY <3>1, <3>2
  <2>3. runs \in [1 .. Positions -> 0 .. MaxAttempts]
    <3>1. {0, 1} \subseteq 0 .. MaxAttempts
      BY RunAssumption DEF RunAssumption
    <3>2. QED
      BY <3>1 DEF RunTypeOK
  <2>4. QED
    BY <2>1, <2>2, <2>3 DEF RunTypeOK, TypeOK
<1>2. QED
  BY <1>1, Invariance, PTL

\* SIGTERM goes to nobody else's processes, but for the gap between the reaping
\* of a trusted client and the note of it.
THEOREM SignalsStayHome == Spec => []TermStaysHome
<1>1. IInv => TermStaysHome
  BY DEF IInv, SessionInv
<1>2. QED
  BY <1>1, Invariance, PTL

\* No unit and no launch file outlives an attempt whose answer does not say so.
THEOREM UnitsEnd == Spec => []NoUnitOutlives
<1>1. IInv => NoUnitOutlives
  BY DEF IInv, UnitInv, Contained, Quiet, Resting, NoUnitOutlives
<1>2. QED
  BY <1>1, Invariance, PTL

\* A scenario's command is executed at most once, through crashes and further
\* attempts: the directory is claimed once, and each launch file is used once.
THEOREM NothingRunsTwice == Spec => []RunsOnce
<1>1. IInv => RunsOnce
  BY DEF IInv, RunInv, RunTypeOK, RunsOnce
<1>2. QED
  BY <1>1, Invariance, PTL

\* A summary stands for all scenarios, executed, kept, under the cap and over.
THEOREM WholeSummary == Spec => []SummaryIsComplete
<1>1. IInv => SummaryIsComplete
  BY DEF IInv, RunInv, RunTypeOK, Summed, SummaryIsComplete, Loaded
<1>2. QED
  BY <1>1, Invariance, PTL

\* _run_bounded implements its promise: whatever it answers, in whatever order
\* exits, output, the deadline and an interrupt arrive, the promise holds for
\* that answer.
THEOREM CallsAreBounded == Spec => Bounded
<1>1. Init => Session!Init
  BY DEF Init, SessionInit, Session!Init, Phase, Alive
<1>2. IInv /\ [Next]_vars => [Session!Next]_(Session!vars)
  BY StepImplements DEF AbstractStep
<1>3. QED
  BY <1>1, <1>2, Invariance, PTL DEF Spec, Bounded, Session!Spec

=============================================================================
