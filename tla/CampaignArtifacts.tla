-------------------------- MODULE CampaignArtifacts --------------------------
(***************************************************************************)
(* The two files a campaign leaves, the result and the manifest that binds *)
(* its bytes, and the reader that accepts them as a pair.                  *)
(*                                                                         *)
(* A campaign that was delivered is persisted by its operator, one that is *)
(* blocked by create_blocked_artifacts; each file is truncated and then    *)
(* written, the result first, and the writer may crash at any point.  The  *)
(* reader (validate_selected_artifacts and its caller) loads the two       *)
(* documents in any order while files are written, and then reads the      *)
(* bytes of the result once more for their hash.                           *)
(*                                                                         *)
(* A result is a record of its kind, its number of recorded cells, their   *)
(* tokens and a body that stands for everything else; a manifest names the *)
(* result it binds and the reasons (blockers) it gives.                    *)
(***************************************************************************)
EXTENDS Campaign

CONSTANTS
  None,
  Declarations,   \* the campaign declarations a blocked result is written for
  Reasons,        \* the blockers a blocked campaign may give
  MaxWrites       \* bound on the pairs written

VARIABLES
  writer,         \* "idle", "result", "between" or "manifest"
  pair,           \* the documents being written
  resultFile,     \* None, Torn, or the document in the file
  manifestFile,
  writes,
  loaded,         \* the result document the reader loaded
  bound,          \* the manifest it loaded
  stale,          \* the result file was written after the reader loaded it
  verdict         \* "none", "accepted" or "refused"

fileVars == <<writer, pair, resultFile, manifestFile, writes>>
readerVars == <<loaded, bound, stale, verdict>>
vars == <<campaignVars, fileVars, readerVars>>

Torn == [kind |-> "torn"]

ResultDocument(kind, n, tokens, body) ==
  [kind |-> kind, cells |-> n, tokens |-> tokens, body |-> body]

ManifestDocument(result, reasons) ==
  [binds |-> result, kind |-> result.kind, cells |-> result.cells, reasons |-> reasons]

Init ==
  /\ CampaignInit
  /\ writer = "idle" /\ pair = None
  /\ resultFile = None /\ manifestFile = None
  /\ writes = 0
  /\ loaded = None /\ bound = None /\ stale = FALSE /\ verdict = "none"

-----------------------------------------------------------------------------
(* The writer.                                                             *)

Write(result, reasons) ==
  /\ writer = "idle"
  /\ writes < MaxWrites
  /\ writes' = writes + 1
  /\ pair' = [result |-> result, manifest |-> ManifestDocument(result, reasons)]
  /\ writer' = "result"
  /\ resultFile' = Torn
  /\ stale' = TRUE
  /\ UNCHANGED <<campaignVars, manifestFile, loaded, bound, verdict>>

WriteDelivered ==
  /\ phase = "delivered"
  /\ Write(ResultDocument(SourceKind, Len(records), Tokens(records), attempts), blockers)

WriteBlocked ==
  /\ phase = "new"
  /\ \E d \in Declarations, reason \in Reasons :
       Write(ResultDocument("blocked_campaign", 0, 0, d), {reason})

ResultWritten ==
  /\ writer = "result"
  /\ resultFile' = pair.result
  /\ writer' = "between"
  /\ UNCHANGED <<campaignVars, pair, manifestFile, writes, readerVars>>

OpenManifest ==
  /\ writer = "between"
  /\ manifestFile' = Torn
  /\ writer' = "manifest"
  /\ UNCHANGED <<campaignVars, pair, resultFile, writes, readerVars>>

ManifestWritten ==
  /\ writer = "manifest"
  /\ manifestFile' = pair.manifest
  /\ writer' = "idle"
  /\ pair' = None
  /\ UNCHANGED <<campaignVars, resultFile, writes, readerVars>>

WriterCrashes ==
  /\ writer # "idle"
  /\ writer' = "idle"
  /\ pair' = None
  /\ UNCHANGED <<campaignVars, resultFile, manifestFile, writes, readerVars>>

-----------------------------------------------------------------------------
(* The reader.  While a campaign runs no file changes, so that what a      *)
(* reader does then it may as well do before or after.                     *)

Quiet == phase = "new" \/ CampaignOver

LoadResult ==
  /\ Quiet /\ verdict = "none" /\ loaded = None
  /\ resultFile \notin {None, Torn}
  /\ loaded' = resultFile
  /\ stale' = FALSE
  /\ UNCHANGED <<campaignVars, fileVars, bound, verdict>>

LoadManifest ==
  /\ Quiet /\ verdict = "none" /\ bound = None
  /\ manifestFile \notin {None, Torn}
  /\ bound' = manifestFile
  /\ UNCHANGED <<campaignVars, fileVars, loaded, stale, verdict>>

\* Mutant: the bytes of the result are not compared with the manifest.
AcceptsUnhashed(result, manifest, bytes) ==
  /\ ValidResults(result.kind, result.cells, result.tokens)
  /\ manifest.kind = result.kind
  /\ manifest.cells = result.cells

\* The cross-checks of validate_selected_artifacts; the hash and the size are
\* those of the bytes found now.
Accepts(result, manifest, bytes) ==
  /\ ValidResults(result.kind, result.cells, result.tokens)
  /\ manifest.kind = result.kind
  /\ manifest.cells = result.cells
  /\ manifest.binds = bytes

Validate ==
  /\ Quiet /\ verdict = "none" /\ loaded # None /\ bound # None
  /\ verdict' = IF Accepts(loaded, bound, resultFile) THEN "accepted" ELSE "refused"
  /\ UNCHANGED <<campaignVars, fileVars, loaded, bound, stale>>

ReadAgain ==
  /\ Quiet /\ verdict # "none"
  /\ loaded' = None /\ bound' = None /\ stale' = FALSE /\ verdict' = "none"
  /\ UNCHANGED <<campaignVars, fileVars>>

Next ==
  \/ writer = "idle" /\ CampaignNext /\ UNCHANGED <<fileVars, readerVars>>
  \/ WriteDelivered \/ WriteBlocked \/ ResultWritten \/ OpenManifest \/ ManifestWritten
  \/ WriterCrashes
  \/ LoadResult \/ LoadManifest \/ Validate \/ ReadAgain

Spec == Init /\ [][Next]_vars

-----------------------------------------------------------------------------
(* Properties.                                                             *)

\* A result that is accepted is the one its manifest was written for, however
\* many writers crashed between the files or in the middle of one, unless the
\* file was rewritten after the reader had loaded it; then it has at least the
\* kind and the cells the manifest tells.
AcceptedPairIsBound ==
  verdict = "accepted" =>
    /\ ~stale => loaded = bound.binds
    /\ loaded.kind = bound.binds.kind /\ loaded.cells = bound.binds.cells
=============================================================================
