--------------------------- MODULE CampaignProofs ---------------------------
(***************************************************************************)
(* Proofs about the live campaign and the files it leaves, for any number  *)
(* of cells, any caps, any events and any number of campaigns, writers and *)
(* readers.  The total that is compared with the campaign's cap, and again *)
(* when the result is validated, is never computed here: all that is used  *)
(* of it is that no runs cost nothing, and that both times it is the same. *)
(***************************************************************************)
EXTENDS CampaignArtifacts, SequenceTheorems, TLAPS

Usage == [turns : Nat, tokens : Nat]

RunRecord ==
  [cell : Nat, usage : Usage, before : Usage,
   status : {"interrupted", "accepted", "not_accepted", "failed"}]

CampaignTypes ==
  /\ limit \in 0 .. Cells
  /\ usage \in Usage /\ before \in Usage
  /\ outcome \in {"accepted", "not_accepted", "provider_error"}
  /\ records \in Seq(RunRecord)
  /\ sandboxes \subseteq 1 .. Cells
  /\ ranIn \in [1 .. Cells -> SUBSET Nat]
  /\ attempts \in Nat

\* Cells are left, and no cap was reached, as long as the campaign goes on.
\* It stops at the cap or at the limit, and a failure leaves no records.
Accounting ==
  /\ phase \in {"new", "failed"} => records = << >>
  /\ phase \in {"ready", "sandbox", "running"} => Len(records) < limit /\ ~CampaignCapReached(records)
  /\ phase = "running" => ~RunCapReached(usage) /\ ~RunCapReached(before)
  /\ phase \in {"finish", "delivered", "refused"} =>
       /\ Len(records) \in 1 .. limit
       /\ blockers # {} <=> CampaignCapReached(records)
       /\ blockers = {} => Len(records) = limit
  /\ phase \in {"delivered", "refused"} =>
       (phase = "delivered" <=> ValidResults(SourceKind, Len(records), Tokens(records)))

\* A campaign executes nothing before the sandbox of the first cell is its own,
\* and then every sandbox it comes to was not there; until then nothing was
\* executed by it.  What stands in the way of a further campaign is the first
\* sandbox.
Owned ==
  /\ \A c, d \in 1 .. Cells : \A a \in ranIn[c], b \in ranIn[d] : a = b
  /\ \A c \in 1 .. Cells : ranIn[c] # {} => c \in sandboxes
  /\ sandboxes # {} => 1 \in sandboxes
  /\ records # << >> \/ phase \in {"sandbox", "running"} =>
       1 \in sandboxes /\ \A c \in 1 .. Cells : ranIn[c] \subseteq {attempts}
  /\ \A i \in DOMAIN records :
       records[i].cell = i /\ i \in 1 .. Cells /\ ranIn[i] = {attempts}
  /\ phase = "sandbox" => ranIn[Cell] = {} /\ Cell \in sandboxes
  /\ phase = "running" => ranIn[Cell] = {attempts}

CampaignInv == CampaignTypes /\ Accounting /\ OvershootIsOneStep /\ Owned

\* A manifest tells the kind and the cells of the result it binds.
TellsItsResult(manifest) ==
  manifest.kind = manifest.binds.kind /\ manifest.cells = manifest.binds.cells

\* Whole manifests tell their results wherever they are, and what the reader
\* loaded is what the file holds until a writer opens it again.
FileInv ==
  /\ writer # "idle" => TellsItsResult(pair.manifest)
  /\ manifestFile = None \/ manifestFile = Torn \/ TellsItsResult(manifestFile)
  /\ bound = None \/ TellsItsResult(bound)
  /\ writer = "result" => resultFile = Torn
  /\ loaded # None /\ ~stale => loaded = resultFile /\ writer # "result"
  /\ verdict # "none" => loaded # None /\ bound # None
  /\ AcceptedPairIsBound

IInv == CampaignInv /\ FileInv

-----------------------------------------------------------------------------
(* Sums and records.                                                       *)

\* The fold that adds up the tokens has nothing to add before the first run.
LEMMA NoRunsNoTokens == Tokens(<< >>) = 0
<1> DEFINE iter[s \in SUBSET {}] == IF s = {} THEN 0 ELSE
             LET x == Max(s) IN iter[s \ {x}] + (<< >>)[x].usage.tokens
           zero == [s \in SUBSET {} |-> 0]
<1>1. zero = [s \in SUBSET {} |-> IF s = {} THEN 0 ELSE
                LET x == Max(s) IN zero[s \ {x}] + (<< >>)[x].usage.tokens]
  OBVIOUS
<1>2. iter = [s \in SUBSET {} |-> IF s = {} THEN 0 ELSE
                LET x == Max(s) IN iter[s \ {x}] + (<< >>)[x].usage.tokens]
  BY <1>1
<1>3. iter[{}] = 0
  BY <1>2
<1>4. QED
  BY <1>3 DEF Tokens, FoldLeft, MapThenFoldSet

\* A campaign without runs is below its cap, a run without events below its.
LEMMA NothingIsBelowCaps ==
  /\ ~CampaignCapReached(<< >>)
  /\ Nothing \in Usage /\ ~RunCapReached(Nothing)
BY NoRunsNoTokens, CampaignAssumption DEF CampaignCapReached, RunCapReached, Nothing, Usage

\* What has been reported stays a usage.
LEMMA PlusUsage ==
  ASSUME NEW u \in Usage, NEW v \in EventUsages
  PROVE  Plus(u, v) \in Usage
BY CampaignAssumption DEF Plus, Usage

\* A new record leaves the runs before it, and every prefix of them, as they
\* were; the longest proper prefix is what was recorded before.
LEMMA AppendRecord ==
  ASSUME NEW rs \in Seq(RunRecord), NEW r \in RunRecord
  PROVE  /\ Append(rs, r) \in Seq(RunRecord)
         /\ Len(Append(rs, r)) = Len(rs) + 1 /\ Len(rs) \in Nat
         /\ Append(rs, r)[Len(rs) + 1] = r
         /\ \A i \in 1 .. Len(rs) : Append(rs, r)[i] = rs[i]
         /\ \A n \in 0 .. Len(rs) : SubSeq(Append(rs, r), 1, n) = SubSeq(rs, 1, n)
         /\ SubSeq(rs, 1, Len(rs)) = rs
<1>1. /\ Append(rs, r) \in Seq(RunRecord)
      /\ Len(Append(rs, r)) = Len(rs) + 1 /\ Len(rs) \in Nat
      /\ Append(rs, r)[Len(rs) + 1] = r
      /\ \A i \in 1 .. Len(rs) : Append(rs, r)[i] = rs[i]
  OBVIOUS
<1>2. ASSUME NEW n \in 0 .. Len(rs)
      PROVE  SubSeq(Append(rs, r), 1, n) = SubSeq(rs, 1, n)
  BY <1>1
<1>3. SubSeq(rs, 1, Len(rs)) = rs
  OBVIOUS
<1>4. QED
  BY <1>1, <1>2, <1>3

-----------------------------------------------------------------------------
(* The campaign keeps its invariant.                                       *)

LEMMA CampaignInitEstablishes == CampaignInit => CampaignInv
BY NothingIsBelowCaps, CampaignAssumption
   DEF CampaignInit, CampaignInv, CampaignTypes, Accounting, OvershootIsOneStep, Owned

\* A finished run joins the records with what it reported; the campaign goes
\* on exactly when neither its cap nor its limit is reached.
LEMMA FinishRunKeeps ==
  ASSUME CampaignInv, phase = "running", NEW capped \in BOOLEAN, FinishRun(capped),
         usage' \in Usage, before' \in Usage,
         outcome' \in {"accepted", "not_accepted", "provider_error"},
         ~RunCapReached(before'), capped <=> RunCapReached(usage'),
         UNCHANGED <<limit, sandboxes, ranIn, attempts>>
  PROVE  CampaignInv'
<1> USE DEF CampaignInv
<1> DEFINE r == Record(capped)
<1>1. /\ r \in RunRecord
      /\ ~RunCapReached(r.before)
      /\ RunCapReached(r.usage) <=> r.status = "interrupted"
  <2>1. Cell \in Nat
    BY DEF CampaignTypes, Cell
  <2>2. QED
    BY <2>1 DEF Record, RunRecord
<1>2. /\ records \in Seq(RunRecord) /\ records' = Append(records, r)
      /\ Len(records) < limit /\ limit \in Nat
  BY DEF FinishRun, CampaignTypes, Accounting
<1> HIDE DEF r
<1>3. CampaignTypes'
  BY <1>1, <1>2, AppendRecord DEF CampaignTypes
<1>4. /\ Len(records') = Len(records) + 1 /\ Len(records') \in 1 .. limit
      /\ blockers' # {} <=> CampaignCapReached(records')
      /\ phase' \in {"finish", "ready"}
      /\ phase' = "finish" <=> blockers' # {} \/ Len(records') = limit
  BY <1>1, <1>2, AppendRecord DEF FinishRun
<1>5. Accounting'
  BY <1>2, <1>4 DEF Accounting
<1>6. \A n \in 0 .. Len(records') - 1 : ~CampaignCapReached(SubSeq(records', 1, n))
  <2>1. ASSUME NEW n \in 0 .. Len(records) - 1
        PROVE  ~CampaignCapReached(SubSeq(records', 1, n))
    <3>1. n \in 0 .. Len(records) /\ Len(records) \in Nat
      BY <1>2
    <3>2. SubSeq(records', 1, n) = SubSeq(records, 1, n)
      BY <1>1, <1>2, <3>1, AppendRecord
    <3>3. QED
      BY <3>2 DEF OvershootIsOneStep
  <2>2. ~CampaignCapReached(SubSeq(records', 1, Len(records)))
    <3>1. SubSeq(records', 1, Len(records)) = records
      BY <1>1, <1>2, AppendRecord
    <3>2. QED
      BY <3>1 DEF Accounting
  <2>3. QED
    BY <2>1, <2>2, <1>1, <1>2, <1>4, AppendRecord
<1>7. \A i \in DOMAIN records' :
        /\ ~RunCapReached(records'[i].before)
        /\ RunCapReached(records'[i].usage) <=> records'[i].status = "interrupted"
  BY <1>1, <1>2, AppendRecord DEF OvershootIsOneStep
<1>8. Owned'
  <2>1. r.cell = Len(records) + 1 /\ Cell = Len(records) + 1
    BY DEF r, Record, Cell
  <2>2. Cell \in 1 .. Cells /\ ranIn[Cell] = {attempts}
    BY <1>2, <2>1, CampaignAssumption DEF CampaignTypes, Owned
  <2>3. \A i \in DOMAIN records' :
          records'[i].cell = i /\ i \in 1 .. Cells /\ ranIn[i] = {attempts}
    BY <1>1, <1>2, <1>4, <2>1, <2>2, AppendRecord DEF Owned
  <2>4. 1 \in sandboxes /\ \A c \in 1 .. Cells : ranIn[c] \subseteq {attempts}
    BY DEF Owned
  <2>5. QED
    BY <1>4, <2>3, <2>4 DEF Owned
<1>9. QED
  BY <1>3, <1>5, <1>6, <1>7, <1>8 DEF OvershootIsOneStep

\* Cells are left as long as the campaign goes on.
LEMMA CellIsLeft ==
  ASSUME CampaignInv, phase \in {"ready", "sandbox", "running"}
  PROVE  Cell \in 1 .. Cells
<1>1. Len(records) \in Nat /\ Len(records) < limit /\ limit \in 0 .. Cells /\ Cells \in Nat
  BY CampaignAssumption DEF CampaignInv, CampaignTypes, Accounting
<1>2. QED
  BY <1>1 DEF Cell

\* A sandbox that did not exist has seen no command.  If it is the first one,
\* none exists, and nothing was executed at all.
LEMMA MakeSandboxKeeps == CampaignInv /\ MakeSandbox => CampaignInv'
<1> SUFFICES ASSUME CampaignInv, MakeSandbox
             PROVE  CampaignInv'
  OBVIOUS
<1> USE NothingIsBelowCaps DEF CampaignInv, MakeSandbox
<1>1. Cell \in 1 .. Cells
  BY CellIsLeft
<1>2. CASE Cell \in sandboxes
  <2>1. CampaignTypes'
    <3>1. records' = << >> /\ << >> \in Seq(RunRecord)
      BY <1>2
    <3>2. QED
      BY <1>2, <3>1 DEF CampaignTypes
  <2>2. Accounting' /\ OvershootIsOneStep'
    BY <1>2 DEF Accounting, OvershootIsOneStep
  <2>3. Owned'
    BY <1>2 DEF Owned
  <2>4. QED
    BY <2>1, <2>2, <2>3
<1>3. CASE Cell \notin sandboxes
  <2>1. /\ phase' = "sandbox" /\ sandboxes' = sandboxes \cup {Cell}
        /\ UNCHANGED <<limit, usage, before, outcome, records, ranIn, attempts>>
    BY <1>3
  <2>2. CampaignTypes'
    BY <1>1, <2>1 DEF CampaignTypes
  <2>3. Accounting' /\ OvershootIsOneStep'
    BY <2>1 DEF Accounting, OvershootIsOneStep
  <2>4. Cell' = Cell /\ ranIn[Cell] = {}
    BY <1>1, <1>3, <2>1 DEF Cell, Owned
  <2>5. 1 \in sandboxes' /\ \A c \in 1 .. Cells : ranIn[c] \subseteq {attempts}
    <3>1. CASE records # << >>
      BY <2>1, <3>1 DEF Owned
    <3>2. CASE records = << >>
      <4>1. Cell = 1
        BY <3>2 DEF Cell
      <4>2. QED
        BY <1>3, <2>1, <4>1 DEF Owned
    <3>3. QED
      BY <3>1, <3>2
  <2>6. Owned'
    BY <2>1, <2>4, <2>5 DEF Owned
  <2>7. QED
    BY <2>2, <2>3, <2>6
<1>4. QED
  BY <1>2, <1>3

LEMMA RunCommandKeeps == CampaignInv /\ RunCommand => CampaignInv'
<1> SUFFICES ASSUME CampaignInv, RunCommand
             PROVE  CampaignInv'
  OBVIOUS
<1> USE NothingIsBelowCaps DEF CampaignInv, RunCommand, NewRun
<1>1. Cell \in 1 .. Cells /\ Cell' = Cell /\ ranIn[Cell] = {} /\ attempts \in Nat
  BY CellIsLeft DEF Cell, Owned, CampaignTypes
<1>2. \A c \in 1 .. Cells : ranIn'[c] = IF c = Cell THEN {attempts} ELSE ranIn[c]
  BY <1>1 DEF CampaignTypes
<1>3. CampaignTypes'
  <2>1. ranIn' \in [1 .. Cells -> SUBSET Nat]
    BY <1>1 DEF CampaignTypes
  <2>2. QED
    BY <2>1 DEF CampaignTypes
<1>4. Accounting' /\ OvershootIsOneStep'
  BY DEF Accounting, OvershootIsOneStep
<1>5. Owned'
  <2>1. 1 \in sandboxes /\ \A c \in 1 .. Cells : ranIn'[c] \subseteq {attempts}
    BY <1>2 DEF Owned
  <2>2. Cell \in sandboxes
    BY DEF Owned
  <2>3. \A i \in DOMAIN records : records[i].cell = i /\ i \in 1 .. Cells /\ ranIn'[i] = {attempts}
    BY <1>2 DEF Owned
  <2>4. QED
    BY <1>1, <1>2, <2>1, <2>2, <2>3 DEF Owned
<1>6. QED
  BY <1>3, <1>4, <1>5

LEMMA TakeEventKeeps == CampaignInv /\ TakeEvent => CampaignInv'
<1> SUFFICES ASSUME CampaignInv, TakeEvent
             PROVE  CampaignInv'
  OBVIOUS
<1>1. /\ usage' \in Usage /\ before' \in Usage
      /\ outcome' \in {"accepted", "not_accepted", "provider_error"}
      /\ ~RunCapReached(before')
  <2>1. PICK u \in EventUsages : usage' = Plus(usage, u)
    BY DEF TakeEvent
  <2>2. QED
    BY <2>1, PlusUsage DEF TakeEvent, CampaignInv, CampaignTypes, Accounting
<1>2. CASE RunCapReached(usage')
  <2>1. FinishRun(TRUE) /\ phase = "running" /\ UNCHANGED <<limit, sandboxes, ranIn, attempts>>
    BY <1>2 DEF TakeEvent
  <2>2. QED
    BY <1>1, <1>2, <2>1, FinishRunKeeps
<1>3. CASE ~RunCapReached(usage')
  BY <1>1, <1>3 DEF TakeEvent, CampaignInv, CampaignTypes, Accounting, OvershootIsOneStep,
                      Owned, Cell
<1>4. QED
  BY <1>2, <1>3

LEMMA EndResponseKeeps == CampaignInv /\ EndResponse => CampaignInv'
<1> SUFFICES ASSUME CampaignInv, EndResponse
             PROVE  CampaignInv'
  OBVIOUS
<1>1. /\ usage' = usage /\ before' = before /\ outcome' = outcome
      /\ phase = "running" /\ FinishRun(FALSE) /\ UNCHANGED <<limit, sandboxes, ranIn, attempts>>
  BY DEF EndResponse
<1>2. /\ usage \in Usage /\ before \in Usage
      /\ outcome \in {"accepted", "not_accepted", "provider_error"}
      /\ ~RunCapReached(before) /\ ~RunCapReached(usage)
  BY <1>1 DEF CampaignInv, CampaignTypes, Accounting
<1>3. ~RunCapReached(before') /\ ~RunCapReached(usage')
  BY <1>1, <1>2
<1>4. QED
  BY <1>1, <1>2, <1>3, FinishRunKeeps

LEMMA CampaignNextKeeps == CampaignInv /\ CampaignNext => CampaignInv'
<1> SUFFICES ASSUME CampaignInv, CampaignNext
             PROVE  CampaignInv'
  OBVIOUS
<1> USE DEF CampaignInv
<1>1. CASE Configure
  BY <1>1, NothingIsBelowCaps
     DEF Configure, CampaignTypes, Accounting, OvershootIsOneStep, Owned
<1>2. CASE MakeSandbox \/ RunCommand
  BY <1>2, MakeSandboxKeeps, RunCommandKeeps
<1>3. CASE CampaignFails
  BY <1>3, NothingIsBelowCaps
     DEF CampaignFails, NewRun, CampaignTypes, Accounting, OvershootIsOneStep, Owned
<1>4. CASE TakeEvent
  BY <1>4, TakeEventKeeps
<1>5. CASE EndResponse
  BY <1>5, EndResponseKeeps
<1>6. CASE Finish
  BY <1>6 DEF Finish, SourceKind, CampaignTypes, Accounting, OvershootIsOneStep, Owned
<1>7. CASE StartAgain
  <2>1. /\ phase' = "new" /\ records' = << >> /\ << >> \in Seq(RunRecord)
        /\ UNCHANGED <<sandboxes, ranIn>>
    BY <1>7 DEF StartAgain
  <2>2. CampaignTypes'
    BY <1>7, <2>1, NothingIsBelowCaps, CampaignAssumption DEF StartAgain, NewRun, CampaignTypes
  <2>3. Accounting' /\ OvershootIsOneStep' /\ Owned'
    BY <2>1 DEF Accounting, OvershootIsOneStep, Owned
  <2>4. QED
    BY <2>2, <2>3
<1>8. QED
  BY <1>1, <1>2, <1>3, <1>4, <1>5, <1>6, <1>7 DEF CampaignNext

LEMMA CampaignStutterKeeps == CampaignInv /\ UNCHANGED campaignVars => CampaignInv'
BY DEF campaignVars, CampaignInv, CampaignTypes, Accounting, SourceKind, OvershootIsOneStep,
   Owned, Cell

-----------------------------------------------------------------------------
(* The files keep theirs.                                                  *)

LEMMA InitEstablishes == Init => IInv
BY CampaignInitEstablishes DEF Init, IInv, FileInv, AcceptedPairIsBound

\* A writer opens the result first: what a reader has loaded is stale then.
LEMMA WriteKeeps ==
  ASSUME FileInv, NEW result, NEW reasons, Write(result, reasons)
  PROVE  FileInv' /\ UNCHANGED campaignVars
<1>1. TellsItsResult(pair.manifest)'
  BY DEF Write, TellsItsResult, ManifestDocument
<1>2. QED
  BY <1>1 DEF Write, FileInv, AcceptedPairIsBound, TellsItsResult

\* A reader takes documents that are whole, and accepts a result whose bytes,
\* read again, are those the manifest binds.
LEMMA ReaderKeeps ==
  ASSUME FileInv, LoadResult \/ LoadManifest \/ Validate \/ ReadAgain
  PROVE  FileInv' /\ UNCHANGED campaignVars
<1>1. CASE LoadResult
  BY <1>1 DEF LoadResult, FileInv, AcceptedPairIsBound, TellsItsResult, fileVars
<1>2. CASE LoadManifest
  BY <1>2 DEF LoadManifest, FileInv, AcceptedPairIsBound, TellsItsResult, fileVars
<1>3. CASE Validate
  <2>1. /\ loaded # None /\ TellsItsResult(bound)
        /\ verdict' = "accepted" => /\ bound.kind = loaded.kind /\ bound.cells = loaded.cells
                                    /\ bound.binds = resultFile
    BY <1>3 DEF Validate, Accepts, FileInv
  <2>2. AcceptedPairIsBound'
    BY <1>3, <2>1 DEF Validate, FileInv, AcceptedPairIsBound, TellsItsResult, fileVars
  <2>3. QED
    BY <1>3, <2>2 DEF Validate, FileInv, TellsItsResult, fileVars
<1>4. CASE ReadAgain
  BY <1>4 DEF ReadAgain, FileInv, AcceptedPairIsBound, TellsItsResult, fileVars
<1>5. QED
  BY <1>1, <1>2, <1>3, <1>4

LEMMA NextPreserves == IInv /\ [Next]_vars => IInv'
<1> SUFFICES ASSUME IInv, [Next]_vars
             PROVE  IInv'
  OBVIOUS
<1> USE DEF IInv
<1>1. CASE CampaignNext /\ UNCHANGED <<fileVars, readerVars>>
  BY <1>1, CampaignNextKeeps
     DEF fileVars, readerVars, FileInv, AcceptedPairIsBound, TellsItsResult
<1>2. CASE WriteDelivered \/ WriteBlocked
  <2>1. PICK result, reasons : Write(result, reasons)
    BY <1>2 DEF WriteDelivered, WriteBlocked
  <2>2. QED
    BY <2>1, WriteKeeps, CampaignStutterKeeps
<1>3. CASE ResultWritten \/ OpenManifest \/ ManifestWritten \/ WriterCrashes
  <2>1. UNCHANGED campaignVars /\ UNCHANGED readerVars
    BY <1>3 DEF ResultWritten, OpenManifest, ManifestWritten, WriterCrashes
  <2>2. FileInv'
    BY <1>3, <2>1 DEF ResultWritten, OpenManifest, ManifestWritten, WriterCrashes, readerVars,
                      FileInv, AcceptedPairIsBound, TellsItsResult
  <2>3. QED
    BY <2>1, <2>2, CampaignStutterKeeps
<1>4. CASE LoadResult \/ LoadManifest \/ Validate \/ ReadAgain
  BY <1>4, ReaderKeeps, CampaignStutterKeeps
<1>5. CASE UNCHANGED vars
  BY <1>5, CampaignStutterKeeps
     DEF vars, fileVars, readerVars, FileInv, AcceptedPairIsBound, TellsItsResult
<1>6. QED
  BY <1>1, <1>2, <1>3, <1>4, <1>5 DEF Next

-----------------------------------------------------------------------------
(* Theorems.                                                               *)

\* The invariant holds in every state of every history of campaigns.
THEOREM Invariance == Spec => []IInv
BY InitEstablishes, NextPreserves, PTL DEF Spec

\* All runs before the last recorded one stayed together below the campaign's
\* cap, and all but the last event of every run below the run's caps.
THEOREM OneStepOvershoot == Spec => []OvershootIsOneStep
<1>1. IInv => OvershootIsOneStep
  BY DEF IInv, CampaignInv
<1>2. QED
  BY <1>1, Invariance, PTL

\* A delivered result says whether it is complete; a campaign that passed its cap
\* is refused after it has run, and one whose last planned run met it.
THEOREM HonestDelivery == Spec => []DeliveryIsHonest
<1>1. IInv => DeliveryIsHonest
  <2> SUFFICES ASSUME IInv
               PROVE  DeliveryIsHonest
    OBVIOUS
  <2>1. CASE phase \in {"delivered", "refused"}
    <3>1. /\ Len(records) \in 1 .. limit /\ limit \in 0 .. Cells /\ Cells \in Nat
          /\ blockers # {} <=> CampaignCapReached(records)
          /\ blockers = {} => Len(records) = limit
          /\ phase = "delivered" <=> ValidResults(SourceKind, Len(records), Tokens(records))
      BY <2>1, CampaignAssumption DEF IInv, CampaignInv, CampaignTypes, Accounting
    <3>2. /\ SourceKind \in {"partial_campaign", "executed_campaign"}
          /\ SourceKind = "executed_campaign" <=> blockers = {} /\ Len(records) = Cells
      BY <3>1 DEF SourceKind
    <3>3. phase = "delivered" <=>
            Tokens(records) <= CampaignCap /\ (Len(records) = Cells => blockers = {})
      BY <3>1, <3>2 DEF ValidResults, TokensMaximum
    <3>4. QED
      BY <2>1, <3>1, <3>2, <3>3 DEF DeliveryIsHonest
  <2>2. QED
    BY <2>1 DEF DeliveryIsHonest
<1>2. QED
  BY <1>1, Invariance, PTL

\* Over one sandbox root one campaign at most executes commands, and its records
\* are of those commands, over any number of campaigns that fail or die.
THEOREM OneCampaignOwnsResults == Spec => []ResultsAreOfOneCampaign
<1>1. IInv => ResultsAreOfOneCampaign
  BY DEF IInv, CampaignInv, Owned, ResultsAreOfOneCampaign
<1>2. QED
  BY <1>1, Invariance, PTL

\* An accepted result is the one its manifest binds, wherever writers crashed.
THEOREM AcceptedPairs == Spec => []AcceptedPairIsBound
<1>1. IInv => AcceptedPairIsBound
  BY DEF IInv, FileInv
<1>2. QED
  BY <1>1, Invariance, PTL

=============================================================================
