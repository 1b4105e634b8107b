---------------------------- MODULE TrustedReplay ----------------------------
(***************************************************************************)
(* reheat benchmark, as far as its sources: the command captures the three *)
(* audited modules of the benchmark directory through descriptors, checks  *)
(* their digests and executes the bytes it captured, while others may      *)
(* write the files.                                                        *)
(*                                                                         *)
(* A file is the record of what stat and read tell of it: its node, its    *)
(* bytes, its time stamp and whether it is a regular file of one link.     *)
(* Bytes are "audited" (those of the pinned digest), "other" of the same   *)
(* size, or "empty".  A write within one tick of the clock keeps the time  *)
(* stamp.  The modules of the interpreter, taken out and put back around   *)
(* the execution, are left out: the command is a process of its own.       *)
(***************************************************************************)
EXTENDS Integers, Sequences

CONSTANTS
  Verifiers,     \* the processes, each with a checkout of its own
  SourceNames,   \* the names of the audited sources, in the order they are read
  MaxEdits       \* bound on the writes of others to the sources

ASSUME ReplayAssumption == MaxEdits \in Nat /\ Len(SourceNames) > 0

VARIABLES
  files,      \* verifier -> name -> the file in its checkout
  edits,
  stage,      \* where the command of a verifier is; "idle" when it has none
  todo,       \* index of the source that is captured
  before,     \* the file as stat told of it before it was opened
  data,       \* the bytes read from the descriptor
  captured,   \* name -> the bytes kept, "none" before
  executed    \* name -> the bytes executed, "none" before

replayVars == <<files, edits, stage, todo, before, data, captured, executed>>

Names == {SourceNames[i] : i \in 1 .. Len(SourceNames)}
Nothing == [n \in Names |-> "none"]
Checkout == [n \in Names |-> [node |-> 0, bytes |-> "audited", stamp |-> 0, regular |-> TRUE]]
NoFile == Checkout[SourceNames[1]]

Size(bytes) == IF bytes = "empty" THEN 0 ELSE 1

ReplayInit ==
  /\ files = [v \in Verifiers |-> Checkout]
  /\ edits = 0
  /\ stage = [v \in Verifiers |-> "idle"]
  /\ todo = [v \in Verifiers |-> 1]
  /\ before = [v \in Verifiers |-> NoFile]
  /\ data = [v \in Verifiers |-> "none"]
  /\ captured = [v \in Verifiers |-> Nothing]
  /\ executed = [v \in Verifiers |-> Nothing]

-----------------------------------------------------------------------------
(* Others write the files.                                                 *)

Edit(v, name, file) ==
  /\ edits < MaxEdits
  /\ edits' = edits + 1
  /\ files' = [files EXCEPT ![v][name] = file]
  /\ UNCHANGED <<stage, todo, before, data, captured, executed>>

\* A file is written in place.
WriteSource(v, name) ==
  \E bytes \in {"audited", "other", "empty"}, stamp \in {files[v][name].stamp, edits + 1} :
    Edit(v, name, [files[v][name] EXCEPT !.bytes = bytes, !.stamp = stamp])

\* Another file is given its name.
ReplaceSource(v, name) ==
  \E bytes \in {"audited", "other"}, regular \in BOOLEAN :
    Edit(v, name, [node |-> edits + 1, bytes |-> bytes, stamp |-> edits + 1,
                   regular |-> regular])

-----------------------------------------------------------------------------
(* The command.                                                            *)

At(v, place) == stage[v] = place
Named(v) == files[v][SourceNames[todo[v]]]

\* _same_node and what else two looks at a file are compared by.
SameFile(f, g) ==
  f.node = g.node /\ f.stamp = g.stamp /\ Size(f.bytes) = Size(g.bytes) /\ f.regular = g.regular

\* Every failure of the capture ends in EXIT_BENCHMARK_UNAVAILABLE.
Unavailable(v) == stage' = [stage EXCEPT ![v] = "unavailable"]

\* The command starts: it looks up what the system offers and opens the project's
\* directory and in it the benchmark's, or one of them cannot be had.
OpenDirectories(v) ==
  /\ At(v, "idle")
  /\ stage' = [stage EXCEPT ![v] = "stat"] \/ Unavailable(v)
  /\ todo' = [todo EXCEPT ![v] = 1]
  /\ captured' = [captured EXCEPT ![v] = Nothing]
  /\ executed' = [executed EXCEPT ![v] = Nothing]
  /\ UNCHANGED <<files, edits, before, data>>

StatSource(v) ==
  /\ At(v, "stat")
  /\ before' = [before EXCEPT ![v] = Named(v)]
  /\ IF Named(v).regular THEN stage' = [stage EXCEPT ![v] = "open"] ELSE Unavailable(v)
  /\ UNCHANGED <<files, edits, todo, data, captured, executed>>

OpenSource(v) ==
  /\ At(v, "open")
  /\ IF SameFile(Named(v), before[v])
     THEN stage' = [stage EXCEPT ![v] = "read"]
     ELSE Unavailable(v)
  /\ UNCHANGED <<files, edits, todo, before, data, captured, executed>>

\* The bytes are those of the file that is open, whatever now has its name; what
\* they are then does not matter, the look at the name that follows refuses them.
ReadSource(v) ==
  /\ At(v, "read")
  /\ data' = [data EXCEPT ![v] = Named(v).bytes]
  /\ stage' = [stage EXCEPT ![v] = "recheck"]
  /\ UNCHANGED <<files, edits, todo, before, captured, executed>>

RecheckSource(v) ==
  /\ At(v, "recheck")
  /\ \/ /\ SameFile(Named(v), before[v])
        /\ Size(data[v]) = Size(before[v].bytes)
        /\ captured' = [captured EXCEPT ![v][SourceNames[todo[v]]] = data[v]]
        /\ IF todo[v] < Len(SourceNames)
           THEN /\ todo' = [todo EXCEPT ![v] = @ + 1]
                /\ stage' = [stage EXCEPT ![v] = "stat"]
           ELSE stage' = [stage EXCEPT ![v] = "digests"] /\ UNCHANGED todo
     \/ /\ ~(SameFile(Named(v), before[v]) /\ Size(data[v]) = Size(before[v].bytes))
        /\ Unavailable(v)
        /\ UNCHANGED <<todo, captured>>
  /\ data' = [data EXCEPT ![v] = "none"]
  /\ before' = [before EXCEPT ![v] = NoFile]
  /\ UNCHANGED <<files, edits, executed>>

CheckDigests(v) ==
  /\ At(v, "digests")
  /\ IF \A n \in Names : captured[v][n] = "audited"
     THEN stage' = [stage EXCEPT ![v] = "load"]
     ELSE Unavailable(v)
  /\ UNCHANGED <<files, edits, todo, before, data, captured, executed>>

\* Mutant: the modules are imported by their names after the check.
LoadSourcesByName(v) ==
  /\ At(v, "load")
  /\ executed' = [executed EXCEPT ![v] = [n \in Names |-> files[v][n].bytes]]
  /\ stage' = [stage EXCEPT ![v] = "replay"]
  /\ UNCHANGED <<files, edits, todo, before, data, captured>>

\* The captured bytes are compiled and executed.
LoadSources(v) ==
  /\ At(v, "load")
  /\ executed' = [executed EXCEPT ![v] = captured[v]]
  /\ stage' = [stage EXCEPT ![v] = "replay"]
  /\ UNCHANGED <<files, edits, todo, before, data, captured>>

\* replay_bytes returns the report, or the command fails.
ReplayBytes(v) ==
  /\ At(v, "replay")
  /\ stage' \in {[stage EXCEPT ![v] = "ok"], [stage EXCEPT ![v] = "unavailable"]}
  /\ UNCHANGED <<files, edits, todo, before, data, captured, executed>>

BenchmarkStep(v) ==
  \/ StatSource(v) \/ OpenSource(v) \/ ReadSource(v) \/ RecheckSource(v)
  \/ CheckDigests(v) \/ LoadSources(v) \/ ReplayBytes(v)

\* The bytes the command executes are the audited ones, each of them, however
\* the files are written or replaced while they are captured.
ReplayIsAudited ==
  \A v \in Verifiers, n \in Names : executed[v][n] \in {"none", "audited"}
=============================================================================
