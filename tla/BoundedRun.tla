----------------------------- MODULE BoundedRun -----------------------------
(***************************************************************************)
(* What _run_bounded of the pressure runner promises its callers, without  *)
(* how it keeps it.  A call starts a session of processes; while it lasts  *)
(* the processes write, start others and end as they like, and one answer  *)
(* ends it:                                                                *)
(*   ok               the session's process group is gone, nobody can      *)
(*                    write any more and every byte written was captured   *)
(*   timeout, output too large     the group is gone                       *)
(*   cleanup failed   whoever is left of the group was sent SIGKILL        *)
(*   anything else    an exception of the caller's own (an interrupt, a    *)
(*                    command that cannot be started): nothing is promised *)
(* and an answer always comes.                                             *)
(***************************************************************************)
EXTENDS Naturals

VARIABLES
  phase,        \* "idle", "live" or "over"
  alive,        \* some member of the session's process group lives
  doomed,       \* the group was sent SIGKILL
  holder,       \* a process outside the group holds the output streams
  written,      \* bytes written to the streams
  captured,     \* bytes read from them
  report        \* the answer of the latest call

vars == <<phase, alive, doomed, holder, written, captured, report>>

Init ==
  /\ phase = "idle"
  /\ ~alive /\ ~doomed /\ ~holder
  /\ written = 0 /\ captured = 0
  /\ report = "none"

Begin ==
  /\ phase # "live"
  /\ phase' = "live"
  /\ alive' /\ ~doomed' /\ ~holder'
  /\ written' = 0 /\ captured' = 0
  /\ report' = "none"

\* The processes: only the living write or start others.
World ==
  /\ alive' => alive
  /\ holder' => alive \/ holder
  /\ written' >= written
  /\ written' # written => alive \/ holder
  /\ UNCHANGED <<phase, doomed, captured, report>>

Capture ==
  /\ phase = "live"
  /\ captured' \in captured .. written
  /\ UNCHANGED <<phase, alive, doomed, holder, written, report>>

Doom ==
  /\ phase = "live"
  /\ doomed'
  /\ UNCHANGED <<phase, alive, holder, written, captured, report>>

Promise(answer) ==
  /\ answer = "ok" => ~alive /\ ~holder /\ captured' = written
  /\ answer \in {"pressure_timeout", "pressure_output_too_large"} => ~alive
  /\ answer = "pressure_process_group_cleanup_failed" => (alive => doomed)

\* The last bytes may be captured on the way out.
Answer ==
  /\ phase = "live"
  /\ phase' = "over"
  /\ captured' \in captured .. written
  /\ report' # "none"
  /\ Promise(report')
  /\ UNCHANGED <<alive, doomed, holder, written>>

\* The command could not be started.
Refuse ==
  /\ phase # "live"
  /\ phase' = "over"
  /\ report' = "os_error"
  /\ ~alive' /\ ~doomed' /\ ~holder'
  /\ written' = 0 /\ captured' = 0

\* The caller is gone, and with it every account of the session.
Forget ==
  /\ phase' = "over"
  /\ report' = "crash"
  /\ alive' => alive
  /\ holder' => holder
  /\ written' = 0 /\ captured' = 0
  /\ UNCHANGED doomed

Next == Begin \/ World \/ Capture \/ Doom \/ Answer \/ Refuse \/ Forget

Spec == Init /\ [][Next]_vars

AnswerComes == phase = "live" ~> phase = "over"
=============================================================================
