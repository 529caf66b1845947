---------------------------- MODULE RerunProofs -----------------------------
(***************************************************************************)
(* A rerun, for any batch of its source and any kills of either program:   *)
(* what it freezes, what reaches its destination and what it reports.  The *)
(* source keeps the invariant of JournalsProofs beside the rerun.          *)
(***************************************************************************)
EXTENDS Rerun, JournalsProofs

NotSelected == {"readNotFound", "readErrors"}
Selected == {"write", "collect", "report"}

RerunTypes ==
  /\ rpc \in {"down"} \cup NotSelected \cup Selected
  /\ seen \subseteq Ids
  /\ metadata \in BOOLEAN
  /\ frozen \subseteq Ids
  /\ manifest \in Nat
  /\ dst \in [Kinds -> SUBSET Ids]
  /\ report \in [recovered : Nat, notFound : Nat, unfinished : Nat]

(* Nothing is written into the destination before the selection is frozen. *)
SelectionInv ==
  /\ rpc \in NotSelected => ~metadata
  /\ rpc \in Selected => metadata
  /\ ~metadata => manifest = 0 /\ dst = Nothing /\ report = NoReport

(* What a rerun has read of a final batch is still there, since nothing    *)
(* writes to the journals of a final batch any more.                       *)
SealInv ==
  /\ rpc = "readErrors" /\ afterSeal => final /\ checkpoint["notFound"] \subseteq seen
  /\ metadata /\ afterSeal =>
       final /\ checkpoint["notFound"] \cup Readable(errorRows) \subseteq frozen

DestinationInv ==
  /\ rpc = "collect" => input = frozen
  /\ manifest # 0 => manifest = Cardinality(frozen)
  /\ IdsIn(dst) \subseteq frozen
  /\ dst["success"] \cap dst["notFound"] = {}

RerunInv ==
  WorkerInv /\ RerunTypes /\ SelectionInv /\ SealInv /\ DestinationInv /\ ReportAccounts

-----------------------------------------------------------------------------
LEMMA InitRerun == RerunInit => RerunInv
<1> SUFFICES ASSUME RerunInit PROVE RerunInv
  OBVIOUS
<1>1. WorkerInv
  BY InitWorker DEF RerunInit
<1>2. IdsIn(dst) = {} /\ dst \in [Kinds -> SUBSET Ids] /\ dst["success"] = {}
  BY DEF RerunInit, Nothing, IdsIn, Kinds
<1> QED
  BY <1>1, <1>2
     DEF RerunInit, RerunInv, RerunTypes, NotSelected, Selected, SelectionInv, SealInv,
         DestinationInv, ReportAccounts, NoReport

(* A final batch has no worker.                                            *)
LEMMA SealedIsStill ==
  ASSUME DownInv, final
  PROVE  ~WorkerStep
BY DEF DownInv, WorkerStep, Begin, Fetch, AppendErrorJournal, AppendTerminalMetrics, Record,
       EndCall, LeaveResumable, Finalize, Kill

(* What the source does leaves the rerun where it is.                      *)
LEMMA SourceKeeps ==
  ASSUME RerunInv, WorkerStep, UNCHANGED rerunVars
  PROVE  RerunInv'
<1>1. WorkerInv'
  BY WorkerStepKeepsInv DEF RerunInv
<1>2. ~final
  BY SealedIsStill DEF RerunInv, WorkerInv
<1>3. /\ UNCHANGED <<rpc, seen, metadata, frozen, afterSeal, input, manifest, dst, report>>
      /\ IdsIn(dst)' = IdsIn(dst)
  BY DEF rerunVars, selectionVars, destinationVars, IdsIn
<1>4. RerunTypes' /\ SelectionInv' /\ DestinationInv' /\ ReportAccounts'
  BY <1>3 DEF RerunInv, RerunTypes, SelectionInv, DestinationInv, ReportAccounts
<1>5. SealInv'
  BY <1>2, <1>3 DEF RerunInv, SealInv
<1> QED
  BY <1>1, <1>4, <1>5 DEF RerunInv

(* The steps of the rerun that leave its destination and what it reads     *)
(* from alone.                                                             *)
LEMMA StillDestination ==
  ASSUME RerunInv, UNCHANGED <<frozen, manifest, dst, report>>
  PROVE  /\ IdsIn(dst)' = IdsIn(dst)
         /\ ReportAccounts'
         /\ rpc' # "collect" => DestinationInv'
<1>1. IdsIn(dst)' = IdsIn(dst)
  BY DEF IdsIn
<1> QED
  BY <1>1 DEF RerunInv, ReportAccounts, DestinationInv

LEMMA StillSource ==
  ASSUME RerunInv, UNCHANGED workerVars
  PROVE  /\ WorkerInv'
         /\ UNCHANGED <<checkpoint, errorRows, final>>
         /\ Readable(errorRows)' = Readable(errorRows)
<1>1. WorkerInv'
  BY WorkerStutterKeeps DEF RerunInv
<1>2. UNCHANGED <<checkpoint, errorRows, final>>
  BY DEF workerVars, rows
<1> QED
  BY <1>1, <1>2 DEF Readable

-----------------------------------------------------------------------------
LEMMA StartKeeps ==
  ASSUME RerunInv, UNCHANGED workerVars, Start
  PROVE  RerunInv'
<1>1. WorkerInv' /\ UNCHANGED <<checkpoint, errorRows, final>>
      /\ Readable(errorRows)' = Readable(errorRows)
  BY StillSource
<1>2. /\ UNCHANGED <<seen, metadata, frozen, afterSeal, input, manifest, dst, report>>
      /\ rpc' = IF metadata THEN "write" ELSE "readNotFound"
  BY DEF Start, selectionVars, destinationVars
<1>3. DestinationInv' /\ ReportAccounts'
  BY <1>2, StillDestination
<1>4. RerunTypes' /\ SelectionInv' /\ SealInv'
  BY <1>1, <1>2 DEF RerunInv, RerunTypes, SelectionInv, SealInv, NotSelected, Selected
<1> QED
  BY <1>1, <1>3, <1>4 DEF RerunInv

LEMMA ReadNotFoundKeeps ==
  ASSUME RerunInv, UNCHANGED workerVars, ReadNotFound
  PROVE  RerunInv'
<1>1. WorkerInv' /\ UNCHANGED <<checkpoint, errorRows, final>>
  BY StillSource
<1>2. PICK early \in SUBSET unsynced["notFound"] : seen' = checkpoint["notFound"] \cup early
  BY DEF ReadNotFound
<1>3. /\ UNCHANGED <<metadata, frozen, input, manifest, dst, report>>
      /\ rpc = "readNotFound" /\ rpc' = "readErrors" /\ afterSeal' = final
  BY DEF ReadNotFound, destinationVars
<1>4. seen' \subseteq Ids /\ checkpoint["notFound"] \subseteq seen'
  BY <1>2 DEF RerunInv, WorkerInv, WorkerTypes, Kinds
<1>5. RerunTypes'
  BY <1>3, <1>4 DEF RerunInv, RerunTypes, NotSelected, Selected
<1>6. SelectionInv' /\ SealInv'
  BY <1>1, <1>3, <1>4 DEF RerunInv, SelectionInv, SealInv, NotSelected, Selected
<1>7. DestinationInv' /\ ReportAccounts'
  BY <1>3, StillDestination
<1> QED
  BY <1>1, <1>5, <1>6, <1>7 DEF RerunInv

LEMMA ReadErrorsKeeps ==
  ASSUME RerunInv, UNCHANGED workerVars, ReadErrors
  PROVE  RerunInv'
<1> DEFINE R == IF pc = "errors" THEN failed ELSE {}
<1>1. WorkerInv' /\ UNCHANGED <<checkpoint, errorRows, final>>
      /\ Readable(errorRows)' = Readable(errorRows)
  BY StillSource
<1>2. PICK read \in CutShort(errorRows, R) : frozen' = seen \cup Readable(read[1])
  BY DEF ReadErrors, Selection
<1>3. /\ UNCHANGED <<afterSeal, input, manifest, dst, report>>
      /\ rpc = "readErrors" /\ rpc' = "write" /\ metadata' = TRUE /\ seen' = {}
  BY DEF ReadErrors, destinationVars
<1>4. R \in SUBSET Ids /\ errorRows \in JournalValues
  BY DEF RerunInv, WorkerInv, WorkerTypes
<1>5. read[1] \in JournalValues /\ (R = {} => read[1] = errorRows)
  BY <1>2, <1>4, CutShortJournal
<1>6. frozen' \subseteq Ids
  BY <1>2, <1>5 DEF RerunInv, RerunTypes, Readable, JournalValues
<1>7. final => R = {}
  BY DEF RerunInv, WorkerInv, DownInv
<1>8. ~metadata /\ manifest = 0 /\ dst = Nothing /\ report = NoReport
  BY <1>3 DEF RerunInv, SelectionInv, NotSelected
<1>9. RerunTypes' /\ SelectionInv'
  BY <1>3, <1>6 DEF RerunInv, RerunTypes, SelectionInv, NotSelected, Selected
<1>10. SealInv'
  BY <1>1, <1>2, <1>3, <1>5, <1>7 DEF RerunInv, SealInv
<1>11. DestinationInv' /\ ReportAccounts'
  BY <1>3, <1>8 DEF DestinationInv, ReportAccounts, Nothing, IdsIn, Kinds
<1> QED
  BY <1>1, <1>9, <1>10, <1>11 DEF RerunInv

LEMMA LeavingKeeps ==
  ASSUME RerunInv, UNCHANGED workerVars, NothingSelected \/ ManifestRefuses
  PROVE  RerunInv'
<1>1. WorkerInv' /\ UNCHANGED <<checkpoint, errorRows, final>>
      /\ Readable(errorRows)' = Readable(errorRows)
  BY StillSource
<1>2. /\ UNCHANGED <<seen, metadata, frozen, afterSeal, input, manifest, dst, report>>
      /\ rpc' = "down"
  BY DEF NothingSelected, ManifestRefuses, Leave, selectionVars, destinationVars
<1>3. DestinationInv' /\ ReportAccounts'
  BY <1>2, StillDestination
<1>4. RerunTypes' /\ SelectionInv' /\ SealInv'
  BY <1>1, <1>2 DEF RerunInv, RerunTypes, SelectionInv, SealInv, NotSelected, Selected
<1> QED
  BY <1>1, <1>3, <1>4 DEF RerunInv

LEMMA WriteInputKeeps ==
  ASSUME RerunInv, UNCHANGED workerVars, WriteInput
  PROVE  RerunInv'
<1>1. WorkerInv' /\ UNCHANGED <<checkpoint, errorRows, final>>
      /\ Readable(errorRows)' = Readable(errorRows)
  BY StillSource
<1>2. /\ UNCHANGED <<seen, metadata, frozen, afterSeal, manifest, dst, report>>
      /\ rpc = "write" /\ rpc' = "collect" /\ input' = frozen
  BY DEF WriteInput, InputIds, selectionVars
<1>3. DestinationInv' /\ ReportAccounts'
  BY <1>2, StillDestination DEF RerunInv, DestinationInv
<1>4. RerunTypes' /\ SelectionInv' /\ SealInv'
  BY <1>1, <1>2 DEF RerunInv, RerunTypes, SelectionInv, SealInv, NotSelected, Selected
<1> QED
  BY <1>1, <1>3, <1>4 DEF RerunInv

(* An attempt of the collector, whether or not the rerun outlives it.      *)
LEMMA CollectsKeeps ==
  ASSUME RerunInv, UNCHANGED workerVars, rpc = "collect", Collects,
         UNCHANGED <<metadata, frozen, afterSeal, report>>,
         seen' \subseteq Ids, rpc' \in {"report", "down"}
  PROVE  RerunInv'
<1>1. WorkerInv' /\ UNCHANGED <<checkpoint, errorRows, final>>
      /\ Readable(errorRows)' = Readable(errorRows)
  BY StillSource
<1>2. input = frozen /\ frozen \subseteq Ids /\ metadata
  BY DEF RerunInv, DestinationInv, RerunTypes, SelectionInv, Selected
<1>3. PICK new \in [Kinds -> SUBSET (frozen \ IdsIn(dst))] :
        /\ new["success"] \cap new["notFound"] = {}
        /\ dst' = [k \in Kinds |-> dst[k] \cup new[k]]
  BY <1>2 DEF Collects
<1>4. /\ dst'["success"] = dst["success"] \cup new["success"]
      /\ dst'["notFound"] = dst["notFound"] \cup new["notFound"]
  BY <1>3 DEF Kinds
<1>5. manifest' = Cardinality(frozen) /\ manifest' \in Nat
  BY <1>2, IdsAreFinite DEF Collects
<1>6. /\ new["success"] \subseteq frozen \ IdsIn(dst) /\ new["notFound"] \subseteq frozen \ IdsIn(dst)
      /\ \A k \in Kinds : dst[k] \subseteq Ids /\ new[k] \subseteq Ids
  BY <1>2, <1>3 DEF Kinds, RerunInv, RerunTypes
<1>7. dst' \in [Kinds -> SUBSET Ids]
  BY <1>3, <1>6
<1>8. IdsIn(dst)' \subseteq frozen /\ dst'["success"] \cap dst'["notFound"] = {}
  <2>1. IdsIn(dst)' = dst'["success"] \cup dst'["notFound"]
    BY DEF IdsIn
  <2>2. IdsIn(dst) = dst["success"] \cup dst["notFound"]
    BY DEF IdsIn
  <2>3. IdsIn(dst) \subseteq frozen /\ dst["success"] \cap dst["notFound"] = {}
    BY DEF RerunInv, DestinationInv
  <2> QED
    BY <1>3, <1>4, <1>6, <2>1, <2>2, <2>3
<1>9. DestinationInv'
  BY <1>5, <1>8 DEF DestinationInv
<1>10. RerunTypes'
  BY <1>5, <1>7 DEF RerunInv, RerunTypes, NotSelected, Selected
<1>11. SelectionInv' /\ SealInv'
  BY <1>1, <1>2 DEF RerunInv, SelectionInv, SealInv, NotSelected, Selected
<1>12. ReportAccounts'
  <2>1. /\ dst["success"] \subseteq dst'["success"] /\ dst["notFound"] \subseteq dst'["notFound"]
        /\ dst'["success"] \subseteq Ids /\ dst'["notFound"] \subseteq Ids
    BY <1>4, <1>7 DEF Kinds
  <2>2. SUFFICES ASSUME report # NoReport PROVE ReportAccounts'
    BY DEF ReportAccounts
  <2>3. /\ Cardinality(dst["success"]) <= Cardinality(dst'["success"])
        /\ Cardinality(dst["notFound"]) <= Cardinality(dst'["notFound"])
    BY <2>1, FewerIds
  <2>4. /\ Cardinality(dst["success"]) \in Nat /\ Cardinality(dst'["success"]) \in Nat
        /\ Cardinality(dst["notFound"]) \in Nat /\ Cardinality(dst'["notFound"]) \in Nat
    BY <2>1, IdsAreFinite
  <2>5. /\ report.recovered \in Nat /\ report.notFound \in Nat
        /\ report.recovered + report.notFound + report.unfinished = Cardinality(frozen)
        /\ report.recovered <= Cardinality(dst["success"])
        /\ report.notFound <= Cardinality(dst["notFound"])
    BY <2>2 DEF RerunInv, RerunTypes, ReportAccounts
  <2>6. /\ report.recovered <= Cardinality(dst'["success"])
        /\ report.notFound <= Cardinality(dst'["notFound"])
    BY <2>3, <2>4, <2>5
  <2> QED
    BY <2>5, <2>6 DEF ReportAccounts
<1> QED
  BY <1>1, <1>9, <1>10, <1>11, <1>12 DEF RerunInv

LEMMA WriteReportKeeps ==
  ASSUME RerunInv, UNCHANGED workerVars, WriteReport
  PROVE  RerunInv'
<1> DEFINE S == dst["success"]
           N == dst["notFound"]
<1>1. WorkerInv' /\ UNCHANGED <<checkpoint, errorRows, final>>
      /\ Readable(errorRows)' = Readable(errorRows)
  BY StillSource
<1>2. /\ UNCHANGED <<seen, metadata, frozen, afterSeal, input, manifest, dst>>
      /\ rpc = "report" /\ rpc' = "down" /\ metadata
  BY DEF WriteReport, Leave, selectionVars, destinationVars, RerunInv, SelectionInv, Selected
<1>3. S \cup N \subseteq frozen /\ S \cap N = {} /\ frozen \subseteq Ids
  BY DEF RerunInv, RerunTypes, DestinationInv, IdsIn
<1>4. Unfinished = frozen \ (S \cup N) /\ S \cap frozen = S /\ N \cap frozen = N
  BY <1>3 DEF Unfinished, IdsIn
<1>5. /\ report'.recovered = Cardinality(S) /\ report'.notFound = Cardinality(N)
      /\ report'.unfinished = Cardinality(Unfinished)
      /\ report' \in [recovered : Nat, notFound : Nat, unfinished : Nat]
  <2>1. /\ Cardinality(S) \in Nat /\ Cardinality(N) \in Nat /\ Cardinality(Unfinished) \in Nat
    BY <1>3, <1>4, IdsAreFinite
  <2> QED
    BY <1>4, <2>1 DEF WriteReport
<1>6. Cardinality(S) + Cardinality(N) + Cardinality(Unfinished) = Cardinality(frozen)
  <2>1. Cardinality(S \cup N) = Cardinality(S) + Cardinality(N)
    BY <1>3, UnionOfIds
  <2>2. (S \cup N) \cup Unfinished = frozen /\ (S \cup N) \cap Unfinished = {}
    BY <1>3, <1>4
  <2>3. Cardinality((S \cup N) \cup Unfinished) = Cardinality(S \cup N) + Cardinality(Unfinished)
    BY <1>3, <1>4, <2>2, UnionOfIds
  <2> QED
    BY <2>1, <2>2, <2>3
<1>7. Cardinality(S) \in Nat /\ Cardinality(N) \in Nat
  BY <1>3, IdsAreFinite
<1>8. ReportAccounts'
  BY <1>2, <1>5, <1>6, <1>7 DEF ReportAccounts
<1>9. RerunTypes' /\ SelectionInv' /\ SealInv'
  BY <1>1, <1>2, <1>5 DEF RerunInv, RerunTypes, SelectionInv, SealInv, NotSelected, Selected
<1>10. DestinationInv'
  BY <1>2 DEF RerunInv, DestinationInv, IdsIn
<1> QED
  BY <1>1, <1>8, <1>9, <1>10 DEF RerunInv

(* A kill in the middle of the input file leaves a file that is written    *)
(* again before the collector reads it; a kill of the collector leaves     *)
(* what an attempt of it may leave.                                        *)
LEMMA KilledKeeps ==
  ASSUME RerunInv, UNCHANGED workerVars, RerunKilled
  PROVE  RerunInv'
<1>1. WorkerInv' /\ UNCHANGED <<checkpoint, errorRows, final>>
      /\ Readable(errorRows)' = Readable(errorRows)
  BY StillSource
<1>2. /\ UNCHANGED <<metadata, frozen, afterSeal, report>>
      /\ rpc' = "down" /\ seen' = {}
  BY DEF RerunKilled, Leave
<1>3. CASE UNCHANGED <<manifest, dst>>
  <2>1. DestinationInv' /\ ReportAccounts'
    BY <1>2, <1>3, StillDestination
  <2>2. RerunTypes' /\ SelectionInv' /\ SealInv'
    BY <1>1, <1>2, <1>3 DEF RerunInv, RerunTypes, SelectionInv, SealInv, NotSelected, Selected
  <2> QED
    BY <1>1, <2>1, <2>2 DEF RerunInv
<1>4. CASE rpc = "collect" /\ Collects
  BY <1>2, <1>4, CollectsKeeps
<1> QED
  BY <1>3, <1>4 DEF RerunKilled, destinationVars

LEMMA RerunStutterKeeps ==
  ASSUME RerunInv, UNCHANGED vars
  PROVE  RerunInv'
<1>1. WorkerInv' /\ UNCHANGED <<checkpoint, errorRows, final>>
      /\ Readable(errorRows)' = Readable(errorRows)
  BY StillSource DEF vars
<1>2. /\ UNCHANGED <<rpc, seen, metadata, frozen, afterSeal, input, manifest, dst, report>>
      /\ IdsIn(dst)' = IdsIn(dst)
  BY DEF vars, rerunVars, selectionVars, destinationVars, IdsIn
<1> QED
  BY <1>1, <1>2
     DEF RerunInv, RerunTypes, SelectionInv, SealInv, DestinationInv, ReportAccounts

LEMMA RerunStepKeeps ==
  ASSUME RerunInv, UNCHANGED workerVars, RerunStep
  PROVE  RerunInv'
<1>1. CASE Collect
  <2>1. UNCHANGED <<seen, metadata, frozen, afterSeal, report>> /\ rpc' = "report"
    BY <1>1 DEF Collect, selectionVars
  <2> QED
    BY <1>1, <2>1, CollectsKeeps DEF Collect, RerunInv, RerunTypes
<1>2. CASE OtherSource
  BY <1>2, RerunStutterKeeps DEF OtherSource, vars
<1> QED
  BY <1>1, <1>2, StartKeeps, ReadNotFoundKeeps, ReadErrorsKeeps, LeavingKeeps, WriteInputKeeps,
     WriteReportKeeps, KilledKeeps
     DEF RerunStep

-----------------------------------------------------------------------------
(* The source keeps its invariant whatever reruns do, and the rerun keeps  *)
(* its own whatever the source does.                                       *)
THEOREM RerunInvariant == RerunSpec => []RerunInv
<1>1. RerunInv /\ [RerunNext]_vars => RerunInv'
  BY SourceKeeps, RerunStepKeeps, RerunStutterKeeps DEF RerunNext
<1> QED
  BY <1>1, InitRerun, PTL DEF RerunSpec

LEMMA InvKeepsSealed == RerunInv => SealedIsKept
<1> SUFFICES ASSUME RerunInv, metadata, afterSeal
             PROVE  Cardinality(Ids \ (checkpoint["success"] \cup frozen)) <= Min({1, kills})
  BY DEF SealedIsKept
<1> DEFINE missed == Ids \ (checkpoint["success"] \cup frozen)
           lost == Ids \ (Terminal \cup Readable(errorRows))
<1>1. final /\ checkpoint["notFound"] \cup Readable(errorRows) \subseteq frozen
  BY DEF RerunInv, SealInv
<1>2. missed \subseteq lost /\ lost \subseteq Ids
  BY <1>1 DEF Terminal, IdsIn
<1>3. Cardinality(missed) <= Cardinality(lost)
      /\ Cardinality(missed) \in Nat /\ Cardinality(lost) \in Nat
  BY <1>2, FewerIds, IdsAreFinite
<1>4. Cardinality(lost) <= Min({1, kills})
  BY <1>1, InvBoundsErrorLoss DEF ErrorLossBounded, RerunInv
<1>5. Min({1, kills}) \in Nat
  BY AtMostOne DEF RerunInv, WorkerInv, WorkerTypes
<1> HIDE DEF missed, lost
<1> QED
  BY <1>3, <1>4, <1>5 DEF missed

(* A rerun of a final source misses one ID at most.                        *)
THEOREM SelectionIsComplete == RerunSpec => []SealedIsKept
BY RerunInvariant, InvKeepsSealed, PTL

(* The destination is one run over the frozen IDs.                         *)
THEOREM DestinationHolds == RerunSpec => []DestinationIsSelection
<1>1. RerunInv => DestinationIsSelection
  BY DEF RerunInv, DestinationInv, DestinationIsSelection
<1> QED
  BY <1>1, RerunInvariant, PTL

(* The summary of a rerun accounts for each frozen ID once.                *)
THEOREM ReportHolds == RerunSpec => []ReportAccounts
<1>1. RerunInv => ReportAccounts
  BY DEF RerunInv
<1> QED
  BY <1>1, RerunInvariant, PTL

=============================================================================
