------------------------------ MODULE Campaign ------------------------------
(***************************************************************************)
(* execute_campaign of the live benchmark: the planned cells are run one   *)
(* after another through an injected command runner, each in a sandbox of  *)
(* its own; what a run reports is added up event by event until a per-run  *)
(* cap is reached, and run by run until a campaign cap is reached; then    *)
(* one result document is validated and delivered, or nothing is.          *)
(*                                                                         *)
(* The command runner is external: it answers with any list of events, or  *)
(* fails.  A usage is a record of its turns, which count against the run's *)
(* caps only, and its tokens, which stand for the fields that count        *)
(* against both.  The code plans 108 cells.                                *)
(***************************************************************************)
EXTENDS Naturals, Sequences, Functions, SequencesExt

CONSTANTS
  Cells,          \* how many cells the campaign plans
  Limits,         \* the limit_matrix arguments tried; Cells stands for none
  RunCaps,        \* per-run caps, a usage
  CampaignCap,    \* campaign cap of the tokens
  EventUsages,    \* what one event may report
  MaxEvents,      \* bound on the events of a run
  MaxAttempts     \* bound on the campaigns run over one sandbox root

\* The schema of a campaign fixes every cap, each at a positive value.
ASSUME CampaignAssumption ==
  /\ Cells \in Nat \ {0} /\ Limits \subseteq 0 .. Cells
  /\ CampaignCap \in Nat \ {0} /\ RunCaps \in [turns : Nat \ {0}, tokens : Nat \ {0}]
  /\ EventUsages \subseteq [turns : Nat, tokens : Nat]
  /\ MaxEvents \in Nat /\ MaxAttempts \in Nat

VARIABLES
  limit,          \* limit_matrix of this campaign
  phase,          \* "new", "ready", "sandbox", "running", "finish"; "delivered",
                  \* "refused" or "failed" at its end
  usage,          \* what the run under way has reported
  before,         \* the same, before its latest event
  outcome,        \* outcome of that event
  events,         \* how many it reported
  records,        \* the records of the finished runs
  blockers,       \* why the scheduling stopped
  sandboxes,      \* the cells whose sandbox exists
  ranIn,          \* cell -> the campaigns its command was executed in (history)
  attempts

campaignVars == <<limit, phase, usage, before, outcome, events, records, blockers,
                  sandboxes, ranIn, attempts>>

Nothing == [turns |-> 0, tokens |-> 0]

CampaignInit ==
  /\ limit \in Limits
  /\ phase = "new"
  /\ usage = Nothing /\ before = Nothing
  /\ outcome = "not_accepted" /\ events = 0
  /\ records = << >>
  /\ blockers = {}
  /\ sandboxes = {}
  /\ ranIn = [c \in 1 .. Cells |-> {}]
  /\ attempts = 1

-----------------------------------------------------------------------------
(* Usage.                                                                  *)

Plus(u, v) == [turns |-> u.turns + v.turns, tokens |-> u.tokens + v.tokens]

RunCapReached(u) == u.turns >= RunCaps.turns \/ u.tokens >= RunCaps.tokens

Tokens(rs) == FoldLeft(LAMBDA total, r : total + r.usage.tokens, 0, rs)

CampaignCapReached(rs) == Tokens(rs) >= CampaignCap

\* The cell that is run next, in the order of the matrix.
Cell == Len(records) + 1

Record(capped) ==
  [cell   |-> Cell,
   usage  |-> usage',
   before |-> before',
   status |-> IF capped THEN "interrupted"
              ELSE IF outcome' \in {"accepted", "not_accepted"} THEN outcome' ELSE "failed"]

NewRun ==
  /\ usage' = Nothing /\ before' = Nothing
  /\ outcome' = "not_accepted" /\ events' = 0

-----------------------------------------------------------------------------
(* The steps.                                                              *)

\* Blocked declarations and an empty matrix raise before anything is run.
Configure ==
  /\ phase = "new"
  /\ \/ limit > 0 /\ phase' = "ready"
     \/ phase' = "failed"
  /\ UNCHANGED <<limit, usage, before, outcome, events, records, blockers, sandboxes, ranIn,
                 attempts>>

\* Mutant: a sandbox that exists is used again.
MakeSandboxAgain ==
  /\ phase = "ready"
  /\ phase' = "sandbox"
  /\ sandboxes' = sandboxes \cup {Cell}
  /\ UNCHANGED <<limit, usage, before, outcome, events, records, blockers, ranIn, attempts>>

\* _run_env creates the sandbox of the next cell exclusively.  A sandbox that
\* exists ends the campaign, and its records are lost.
MakeSandbox ==
  /\ phase = "ready"
  /\ IF Cell \in sandboxes
     THEN phase' = "failed" /\ records' = << >> /\ UNCHANGED sandboxes
     ELSE /\ phase' = "sandbox"
          /\ sandboxes' = sandboxes \cup {Cell}
          /\ UNCHANGED records
  /\ UNCHANGED <<limit, usage, before, outcome, events, blockers, ranIn, attempts>>

RunCommand ==
  /\ phase = "sandbox"
  /\ phase' = "running"
  /\ ranIn' = [ranIn EXCEPT ![Cell] = @ \cup {attempts}]
  /\ NewRun
  /\ UNCHANGED <<limit, records, blockers, sandboxes, attempts>>

\* An exception of the file system or of the runner, a response of another
\* shape, or the end of the process ends it all, and the records of the runs
\* before are lost with it.
CampaignFails ==
  /\ phase \in {"ready", "sandbox", "running"}
  /\ phase' = "failed"
  /\ records' = << >>
  /\ NewRun
  /\ UNCHANGED <<limit, blockers, sandboxes, ranIn, attempts>>

\* Mutant: the cap is looked at before the run is charged.
FinishRunUncharged(capped) ==
  /\ records' = Append(records, Record(capped))
  /\ blockers' = IF CampaignCapReached(records) THEN {"campaign_cap_reached"} ELSE {}
  /\ phase' = IF blockers' # {} \/ Len(records') = limit THEN "finish" ELSE "ready"

\* The run is recorded and charged, and then the campaign's cap is looked at.
FinishRun(capped) ==
  /\ records' = Append(records, Record(capped))
  /\ blockers' = IF CampaignCapReached(records') THEN {"campaign_cap_reached"} ELSE {}
  /\ phase' = IF blockers' # {} \/ Len(records') = limit THEN "finish" ELSE "ready"

\* One event of the response.  The two outcomes stand for those recorded under
\* their own name and as a failure; a response without events is not accepted.
\* The events after a reached cap are not counted.
TakeEvent ==
  /\ phase = "running"
  /\ events < MaxEvents
  /\ events' = events + 1
  /\ \E u \in EventUsages : usage' = Plus(usage, u)
  /\ before' = usage
  /\ outcome' \in {"accepted", "provider_error"}
  /\ IF RunCapReached(usage') THEN FinishRun(TRUE) ELSE UNCHANGED <<records, blockers, phase>>
  /\ UNCHANGED <<limit, sandboxes, ranIn, attempts>>

EndResponse ==
  /\ phase = "running"
  /\ UNCHANGED <<limit, usage, before, outcome, events, sandboxes, ranIn, attempts>>
  /\ FinishRun(FALSE)

\* Mutant: the kind of a result depends on the blockers only.
SourceKindOfBlockers == IF blockers # {} THEN "partial_campaign" ELSE "executed_campaign"

SourceKind ==
  IF blockers # {} \/ Len(records) < Cells THEN "partial_campaign" ELSE "executed_campaign"

\* The schema of a result bounds its totals by what the schema of a campaign
\* fixes as the campaign's caps.
TokensMaximum == CampaignCap

\* validate_results: the totals stay within their maxima, and what a partial and
\* an executed campaign must cover.
ValidResults(kind, n, tokens) ==
  /\ tokens <= TokensMaximum
  /\ kind = "blocked_campaign" => n = 0
  /\ kind = "partial_campaign" => n \in 1 .. Cells - 1
  /\ kind = "executed_campaign" => n = Cells

Finish ==
  /\ phase = "finish"
  /\ phase' = IF ValidResults(SourceKind, Len(records), Tokens(records))
              THEN "delivered" ELSE "refused"
  /\ UNCHANGED <<limit, usage, before, outcome, events, records, blockers, sandboxes, ranIn,
                 attempts>>

CampaignOver == phase \in {"delivered", "refused", "failed"}

\* The campaign is started again, in the same sandbox root.
StartAgain ==
  /\ CampaignOver
  /\ attempts < MaxAttempts
  /\ attempts' = attempts + 1
  /\ limit' \in Limits
  /\ phase' = "new"
  /\ NewRun
  /\ records' = << >> /\ blockers' = {}
  /\ UNCHANGED <<sandboxes, ranIn>>

CampaignNext ==
  \/ Configure \/ MakeSandbox \/ RunCommand \/ CampaignFails \/ TakeEvent \/ EndResponse
  \/ Finish \/ StartAgain

-----------------------------------------------------------------------------
(* Properties.                                                             *)

\* What is spent beyond a cap is at most what one run, and in a run one event,
\* reports: all runs before the last recorded one stayed together below the
\* campaign cap, the events before the last counted one of every run below the
\* run's caps, and a run that reached one is recorded as interrupted.
OvershootIsOneStep ==
  /\ \A n \in 0 .. Len(records) - 1 : ~CampaignCapReached(SubSeq(records, 1, n))
  /\ \A i \in DOMAIN records :
       /\ ~RunCapReached(records[i].before)
       /\ RunCapReached(records[i].usage) <=> records[i].status = "interrupted"

\* A campaign that ran to its end is delivered under the name of what it is, or
\* is refused and leaves nothing.  It is refused if it passed the campaign cap,
\* whichever run did (a cap that is met exactly is not passed), and also if the
\* last planned cell met the cap: then every run is recorded, the result still
\* counts as partial, and a partial result must lack a cell.
DeliveryIsHonest ==
  /\ phase = "delivered" =>
       /\ SourceKind = "executed_campaign" <=> Len(records) = Cells
       /\ SourceKind = "partial_campaign" <=> CampaignCapReached(records) \/ limit < Cells
  /\ phase \in {"delivered", "refused"} =>
       (phase = "delivered" <=>
          /\ Tokens(records) <= CampaignCap
          /\ CampaignCapReached(records) => Len(records) < Cells)

\* Results of different campaigns never mix: whatever failed or died between a
\* sandbox, its command and the end, all commands ever executed over one sandbox
\* root belong to one campaign, and every record, delivered or not, is of a
\* command that only the campaign telling it has executed.
ResultsAreOfOneCampaign ==
  /\ \A c, d \in 1 .. Cells : \A a \in ranIn[c], b \in ranIn[d] : a = b
  /\ \A i \in DOMAIN records : ranIn[records[i].cell] = {attempts}
=============================================================================
