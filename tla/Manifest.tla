------------------------------ MODULE Manifest ------------------------------
(***************************************************************************)
(* The run manifest: prepare_manifest (persistence/checkpoint.py) as       *)
(* orchestration.main calls it, after the work of the attempt has been     *)
(* computed by Partitioning and before any browser starts.  The command is *)
(* run again with arguments that may differ, over an input file that       *)
(* somebody may have edited.                                               *)
(*                                                                         *)
(* A browser looks for finished IDs under its own number and the number of *)
(* the batch, so a resumed run is the same run only if every shard is.     *)
(***************************************************************************)
EXTENDS Partitioning, FiniteSets

CONSTANT MaxAttempts  \* bound: how often the command is run

ASSUME ManifestAssumption == MaxAttempts \in Nat

VARIABLES
  manifest,  \* durable: benchmark_manifest.json, {} or {its configuration}
  attempts,  \* attempts so far
  first      \* history: file and shards of the attempt that made the manifest

vars == <<partitionVars, manifest, attempts, first>>

(* The fields that the shards depend on.  The others, browser concurrency  *)
(* and call size, are compared like them and decide nothing else here.     *)
Configuration ==
  [startBatch   |-> Selected[1],
   endBatch     |-> Selected[Len(Selected)],
   browserCount |-> browserCount,
   idCount      |-> Len(numbered)]

ManifestInit ==
  /\ Init
  /\ manifest = {}
  /\ attempts = 1
  /\ first = [lines |-> <<>>, assignments |-> <<>>]

Partition == Step /\ UNCHANGED <<manifest, attempts, first>>

CreateManifest ==
  /\ pc = "done" /\ manifest = {}
  /\ pc' = "run"
  /\ manifest' = {Configuration}
  /\ first' = [lines |-> lines, assignments |-> assignments]
  /\ UNCHANGED <<input, numbered, offset, assignments, attempts>>

WithoutBrowsers == \E c \in manifest : [c EXCEPT !.browserCount = browserCount] = Configuration
WithoutCount == \E c \in manifest : [c EXCEPT !.idCount = Len(numbered)] = Configuration
SameConfiguration == \E c \in manifest : c = Configuration

AcceptManifest ==
  /\ pc = "done" /\ manifest # {} /\ SameConfiguration
  /\ pc' = "run"
  /\ UNCHANGED <<input, numbered, offset, assignments, manifest, attempts, first>>

(* ValueError: the command exits, before any browser starts.               *)
RefuseManifest ==
  /\ pc = "done" /\ manifest # {} /\ ~SameConfiguration
  /\ pc' = "rejected"
  /\ UNCHANGED <<input, numbered, offset, assignments, manifest, attempts, first>>

(* What somebody may have done to the input file: changed one line, added  *)
(* one, or exchanged two.                                                  *)
Edits ==
  LET line == IdLines \cup {Junk}
  IN  {lines} \cup {[lines EXCEPT ![n] = l] : n \in DOMAIN lines, l \in line}
              \cup {[lines EXCEPT ![n] = lines[m], ![m] = lines[n]] : n, m \in DOMAIN lines}
              \cup {Append(lines, l) : l \in IF Len(lines) < MaxLines THEN line ELSE {}}

(* The command is run once more, after its attempt ended or was killed.    *)
NextAttempt ==
  /\ pc \in {"run", "rejected"} /\ manifest # {} /\ attempts < MaxAttempts
  /\ pc' = "select"
  /\ lines' \in Edits
  /\ startBatch' \in 0 .. MaxBatchArg
  /\ endBatch' \in 0 .. MaxBatchArg
  /\ browserCount' \in BrowserCounts
  /\ numbered' = <<>> /\ offset' = 0 /\ assignments' = <<>>
  /\ attempts' = attempts + 1
  /\ UNCHANGED <<manifest, first>>

Finished == pc \in {"run", "rejected"} /\ UNCHANGED vars

Next ==
  \/ Partition \/ CreateManifest \/ AcceptManifest \/ RefuseManifest \/ NextAttempt
  \/ Finished

Spec == ManifestInit /\ [][Next]_vars

-----------------------------------------------------------------------------
(* An attempt that runs over the same input file has the very same shards  *)
(* as the one that made the manifest, whatever its arguments were: every   *)
(* checkpoint is looked for where it was written.                          *)
ResumesSameShards ==
  pc = "run" /\ lines = first.lines => assignments = first.assignments

(* An attempt that runs over an edited file still has shards of the same   *)
(* batches and of the same sizes, although the manifest holds one count    *)
(* for all of them.  Which IDs are in them is not pinned.                  *)
ManifestPinsShape ==
  LET shape(work) ==
        [b \in DOMAIN work |->
           [k \in DOMAIN work[b] |-> <<work[b][k][1], Len(IdsOfShard(work[b][k]))>>]]
  IN  pc = "run" => shape(assignments) = shape(first.assignments)

=============================================================================
