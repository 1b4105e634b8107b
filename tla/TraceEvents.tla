---------------------------- MODULE TraceEvents ----------------------------
(***************************************************************************)
(* The trace vocabulary of semantic-reheating: what the detectors, the     *)
(* progress classifier and the controller can tell apart about one         *)
(* TraceEvent.  Identifiers, fingerprints, digests and payload markers are *)
(* opaque values; an absent optional field is None.                        *)
(*                                                                         *)
(* An event's id is its position in the trace: validation rejects a trace  *)
(* whose ids repeat or whose sequence numbers have a gap, so the position  *)
(* identifies the event.                                                   *)
(***************************************************************************)
EXTENDS Naturals, Sequences

CONSTANT None      \* an absent optional field; no identifier or marker equals it

TraceKind ==
  {"message", "plan", "tool_call", "tool_result", "state_observation",
   "acceptance_check", "handoff", "error", "budget"}

EffectClass == {"read_only", "idempotent_write", "non_idempotent_write", "unknown"}

\* The five dimensions of BudgetCounters.
CounterNames == {"turns", "tool_calls", "tokens", "elapsed_seconds", "cost"}

(***************************************************************************)
(* An event with every optional field absent.  Traces are written as       *)
(* exceptions to it.                                                       *)
(*   source, action   which of payload, payload_digest and payload_ref the *)
(*                    event carries (exactly one), and what it identifies  *)
(*   parent           the id its parent_event_id names, 0 for none         *)
(*   fp, error        state_fingerprint and error_fingerprint              *)
(*   expects          expected_state_change is exactly true                *)
(*   delta            acceptance_delta (None absent, "" empty)             *)
(*   refs             evidence_refs                                        *)
(*   counters         budget_counters, a function on CounterNames          *)
(* and the markers read from an object payload: required_verification,     *)
(* stack_frames, eliminated_hypotheses, pagination_cursor, batch_item_id,  *)
(* poll_id/poll_target/poll_value, hypothesis_id/hypothesis_test_input, a  *)
(* productive handoff, diagnostic_cause.                                   *)
(***************************************************************************)
Blank ==
  [id |-> 0, kind |-> "message", effect |-> "unknown",
   source |-> "payload_ref", action |-> None, parent |-> 0,
   fp |-> None, error |-> None, expects |-> FALSE, delta |-> None,
   refs |-> {}, counters |-> None,
   required |-> FALSE, frames |-> {}, eliminated |-> {}, cursor |-> None,
   item |-> None, poll |-> None, hypothesis |-> None, productive |-> FALSE,
   marker |-> None]

(***************************************************************************)
(* The identity two events share when they are the same action: a declared *)
(* digest, or the canonical fingerprint of an inline payload, and never a  *)
(* payload reference.  The two forms never compare equal, not even when    *)
(* they stand for the same content.                                        *)
(***************************************************************************)
Identity(e) ==
  IF e.source = "payload_ref" THEN None ELSE <<e.source, e.action>>

IsFingerprintedObservation(e) == e.kind = "state_observation" /\ e.fp # None

\* Appending an event to a trace gives it the next position as its id.
Record(trace, e) == Append(trace, [e EXCEPT !.id = Len(trace) + 1])

\* The last n events of a trace: the window a detector evaluates.
LastEvents(trace, n) ==
  SubSeq(trace, IF Len(trace) > n THEN Len(trace) - n + 1 ELSE 1, Len(trace))
=============================================================================
