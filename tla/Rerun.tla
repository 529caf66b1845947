------------------------------- MODULE Rerun --------------------------------
(***************************************************************************)
(* rerun.py beside the run it reads from.  The source is the worker of     *)
(* Journals, which may be running, killed and resumed while the rerun      *)
(* reads its not-found checkpoint and its error journal, one after the     *)
(* other and without repairing either.  The rerun freezes what it found,   *)
(* writes an input file and hands it to the collector, and may be killed   *)
(* and started again at every step.                                        *)
(*                                                                         *)
(* Of the collector run over the frozen IDs only its records are kept, and *)
(* of them what ResumableRun promises of any run: they stay.               *)
(***************************************************************************)
EXTENDS Journals

CONSTANT Torn  \* the ID that the beginning of a number spells

ASSUME RerunAssumption == Torn \notin Ids

VARIABLES
  rpc,          \* "down", or where rerun.main is
  sameCommand,  \* does this start repeat the arguments of the first one?
  seen,         \* not-found IDs read so far
  metadata,     \* durable: does rerun_metadata.json exist?
  frozen,       \* durable: its IDs
  input,        \* durable: rerun_ids.txt
  manifest,     \* durable: selected_id_count of the destination, 0 without one
  dst,          \* durable: checkpoint records of the destination, of each kind
  report,       \* durable: rerun_summary.json, zeroes without one
  afterSeal     \* history: was the source final when the selection was read?

selectionVars == <<seen, metadata, frozen, afterSeal>>
destinationVars == <<input, manifest, dst>>
rerunVars == <<rpc, sameCommand, selectionVars, destinationVars, report>>
vars == <<workerVars, rerunVars>>

NoReport == [recovered |-> 0, notFound |-> 0, unfinished |-> 0]


RerunInit ==
  /\ Init
  /\ rpc = "down"
  /\ sameCommand = TRUE
  /\ seen = {}
  /\ metadata = FALSE
  /\ frozen = {}
  /\ input = {}
  /\ manifest = 0
  /\ dst = Nothing
  /\ report = NoReport
  /\ afterSeal = FALSE

-----------------------------------------------------------------------------
Leave ==
  /\ rpc' = "down"
  /\ sameCommand' = TRUE

(* load_or_create_selection: what was frozen once is used again, and only  *)
(* for the source it came from.                                            *)
OtherSource ==
  /\ rpc = "down" /\ metadata
  /\ UNCHANGED rerunVars

Start ==
  /\ rpc = "down"
  /\ rpc' = IF metadata THEN "write" ELSE "readNotFound"
  /\ sameCommand' \in IF manifest = 0 THEN {TRUE} ELSE BOOLEAN
  /\ UNCHANGED <<selectionVars, destinationVars, report>>

(* Records the worker has written and not synced may be seen already.      *)
ReadNotFound ==
  /\ rpc = "readNotFound"
  /\ rpc' = "readErrors"
  /\ \E early \in SUBSET unsynced["notFound"] :
       seen' = checkpoint["notFound"] \cup early
  /\ afterSeal' = final
  /\ UNCHANGED <<sameCommand, metadata, frozen, destinationVars, report>>

SelectErrorsOnly(errorIds) == errorIds
Selection(errorIds) == seen \cup errorIds

(* The error journal is read, perhaps in the middle of an append, and the  *)
(* selection is written in one piece.                                      *)
ReadErrors ==
  /\ rpc = "readErrors"
  /\ rpc' = "write"
  /\ \E read \in CutShort(errorRows, IF pc = "errors" THEN failed ELSE {}) :
       frozen' = Selection(Readable(read[1]))
  /\ metadata' = TRUE
  /\ seen' = {}
  /\ UNCHANGED <<sameCommand, afterSeal, destinationVars, report>>

(* parser.error; the empty selection stays frozen.                         *)
NothingSelected ==
  /\ rpc = "write" /\ frozen = {}
  /\ Leave
  /\ UNCHANGED <<selectionVars, destinationVars, report>>

WriteOnce == IF input = {} THEN frozen ELSE input
InputIds == frozen

WriteInput ==
  /\ rpc = "write" /\ frozen # {}
  /\ rpc' = "collect"
  /\ input' = InputIds
  /\ UNCHANGED <<sameCommand, selectionVars, manifest, dst, report>>

(* prepare_manifest over the input file: made once, then compared.         *)
ManifestRefuses ==
  /\ rpc = "collect"
  /\ manifest # 0 /\ ~(sameCommand /\ manifest = Cardinality(input))
  /\ Leave
  /\ UNCHANGED <<selectionVars, destinationVars, report>>

(* An attempt of the collector, for as long as it lasts.                   *)
Collects ==
  /\ manifest = 0 \/ (sameCommand /\ manifest = Cardinality(input))
  /\ manifest' = Cardinality(input)
  /\ input' = input
  /\ \E new \in [Kinds -> SUBSET (input \ IdsIn(dst))] :
       /\ new["success"] \cap new["notFound"] = {}
       /\ dst' = [k \in Kinds |-> dst[k] \cup new[k]]

Collect ==
  /\ rpc = "collect" /\ Collects
  /\ rpc' = "report"
  /\ UNCHANGED <<sameCommand, selectionVars, report>>

(* write_summary, from the checkpoints of the destination.                 *)
Unrecovered == frozen \ dst["success"]
Unfinished == frozen \ IdsIn(dst)

WriteReport ==
  /\ rpc = "report"
  /\ Leave
  /\ report' = [recovered  |-> Cardinality(dst["success"] \cap frozen),
                notFound   |-> Cardinality(dst["notFound"] \cap frozen),
                unfinished |-> Cardinality(Unfinished)]
  /\ UNCHANGED <<selectionVars, destinationVars>>

(* A kill.  The input file is not written in one piece.                    *)
RerunKilled ==
  /\ rpc # "down"
  /\ Leave
  /\ seen' = {}
  /\ \/ UNCHANGED destinationVars
     \/ /\ rpc = "write" /\ frozen # {}
        /\ input' \in (SUBSET InputIds) \cup {p \cup {Torn} : p \in SUBSET InputIds \ {InputIds}}
        /\ UNCHANGED <<manifest, dst>>
     \/ rpc = "collect" /\ Collects
  /\ UNCHANGED <<metadata, frozen, afterSeal, report>>

RerunStep ==
  \/ OtherSource \/ Start \/ ReadNotFound \/ ReadErrors \/ NothingSelected \/ WriteInput
  \/ ManifestRefuses \/ Collect \/ WriteReport \/ RerunKilled

RerunNext ==
  \/ WorkerStep /\ UNCHANGED rerunVars
  \/ RerunStep /\ UNCHANGED workerVars

RerunSpec == RerunInit /\ [][RerunNext]_vars

-----------------------------------------------------------------------------
(* A rerun of a source that was final when its selection was read misses   *)
(* none of the IDs the source did not get, but for one that a torn line of *)
(* the error journal may cost, after any number of kills.  The selection   *)
(* is read from two journals that record different answers; of one read    *)
(* while the source goes on nothing is said.                               *)
SealedIsKept ==
  metadata /\ afterSeal =>
    Cardinality(Ids \ (checkpoint["success"] \cup frozen)) <= Min({1, kills})

(* However often it is killed, and whatever the source has done since, the *)
(* destination is one run over the frozen IDs: a torn input file never     *)
(* reaches the collector, and the manifest never refuses the same command. *)
DestinationIsSelection ==
  /\ rpc = "collect" => input = frozen
  /\ manifest # 0 => manifest = Cardinality(frozen)
  /\ IdsIn(dst) \subseteq frozen

(* The last summary of a rerun accounts for each frozen ID once, although  *)
(* the destination may have gone on since: it never claims more than there *)
(* is.                                                                     *)
ReportAccounts ==
  report # NoReport =>
    /\ report.recovered + report.notFound + report.unfinished = Cardinality(frozen)
    /\ report.recovered <= Cardinality(dst["success"])
    /\ report.notFound <= Cardinality(dst["notFound"])

=============================================================================
