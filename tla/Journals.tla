------------------------------ MODULE Journals ------------------------------
(***************************************************************************)
(* The metrics and error journals of one browser worker                    *)
(* (persistence/progress.py), next to the checkpoint they must agree with, *)
(* while the worker goes through one batch (execution/worker.py) and is    *)
(* killed and resumed.                                                     *)
(*                                                                         *)
(* Checkpoints are repaired when they are loaded, these two journals never *)
(* are: what a kill cut off stays, and the next row continues that line.   *)
(* Readers skip a line they cannot parse.  A journal is therefore what can *)
(* be read of its ended lines and the line at its end that has not ended.  *)
(* Of terminal.jsonl the number of newlines is kept too: it is what the    *)
(* throughput monitor counts.                                              *)
(***************************************************************************)
EXTENDS Integers, FiniteSets, FiniteSetsExt

CONSTANTS
  Ids,               \* IDs of the batch
  CallSize,          \* --selenium-call-size
  MaxBrowserErrors,  \* MAX_CONSECUTIVE_BROWSER_ERRORS
  SyncInterval,      \* CHECKPOINT_SYNC_INTERVAL
  MaxKills           \* bound: how often the process is killed

ASSUME JournalsAssumption ==
  /\ IsFiniteSet(Ids)
  /\ CallSize \in Nat \ {0}
  /\ MaxBrowserErrors \in Nat \ {0}
  /\ SyncInterval \in Nat \ {0}
  /\ MaxKills \in Nat

VARIABLES
  pc,          \* "down", or where the worker is in its batch
  todo,        \* pending IDs not yet passed to Selenium
  failed,      \* IDs of the call at hand that ended in a browser error
  safe,        \* terminal answers of the call at hand still to be persisted
  stopped,     \* will the worker see the stop event after this call?
  errors,      \* browser_errors of this attempt
  unsynced,    \* records appended to the checkpoint since its last sync
  checkpoint,  \* durable: IDs with a checkpoint record, of each kind
  metricRows,  \* durable: terminal.jsonl
  metricLines, \* its newlines
  errorRows,   \* durable: errors.jsonl
  final,       \* durable: does the batch have its final file?
  kills

call == <<failed, safe, stopped, errors>>
metrics == <<metricRows, metricLines>>
rows == <<metrics, errorRows>>
workerVars ==
  <<pc, todo, call, unsynced, checkpoint, rows, final, kills>>

Kinds == {"success", "notFound"}
Classes == Kinds \cup {"error", "waf"}

-----------------------------------------------------------------------------
(* Journals that are appended to and never repaired.                       *)

EmptyJournal == [lines |-> {}, open |-> FALSE, tail |-> {}]

(* What a reader that skips bad lines gets: the last line is read even     *)
(* when its newline is missing.                                            *)
Readable(journal) == journal.lines \cup journal.tail

(* What the journal may be after the rows of R were appended.  The first   *)
(* of them, whichever it was, shares its line with what a kill left there. *)
Appended(journal, R) ==
  IF R = {} THEN {journal}
  ELSE {[lines |-> journal.lines \cup (IF journal.open THEN R \ {first} ELSE R),
         open  |-> FALSE,
         tail  |-> {}] : first \in R}

(* The journal with a row that has not ended, in `whole` if only its       *)
(* newline is missing.                                                     *)
WithTail(journal, whole) ==
  [journal EXCEPT !.open = TRUE, !.tail = IF journal.open THEN {} ELSE whole]

(* What a kill may leave of the append of R: some whole rows, and of the   *)
(* next one nothing, its beginning, or all but the newline; with each, the *)
(* number of newlines it added.                                            *)
CutShort(journal, R) ==
  LET cut(whole) ==
        LET next == {{}} \cup {{i} : i \in R \ whole}
        IN  Appended(journal, whole) \cup
              (IF whole = R THEN {}
               ELSE {WithTail(before, t) : before \in Appended(journal, whole), t \in next})
  IN  UNION {cut(whole) \X {Cardinality(whole)} : whole \in SUBSET R}

-----------------------------------------------------------------------------
Init ==
  /\ pc = "down"
  /\ todo = {}
  /\ failed = {}
  /\ safe = [k \in Kinds |-> {}]
  /\ stopped = FALSE
  /\ errors = 0
  /\ unsynced = [k \in Kinds |-> {}]
  /\ checkpoint = [k \in Kinds |-> {}]
  /\ metricRows = EmptyJournal
  /\ metricLines = 0
  /\ errorRows = EmptyJournal
  /\ final = FALSE
  /\ kills = 0

IdsIn(records) == records["success"] \cup records["notFound"]
Terminal == IdsIn(checkpoint)

(* load_terminal_metrics: rows without a record are left out.             *)
LatencyIds == Readable(metricRows) \cap Terminal

(* prepare_batch.                                                          *)
EveryId == Ids
Pending == Ids \ Terminal

Begin ==
  /\ pc = "down" /\ ~final
  /\ pc' = "chunk"
  /\ todo' = Pending
  /\ UNCHANGED <<call, unsynced, checkpoint, rows, final, kills>>

(* A Selenium call with its answers and the stop decisions that come of    *)
(* it, here or in another browser.  Without a stop every terminal answer   *)
(* is persisted; with one the cutoff may exclude any of them.              *)
Calls == {c \in SUBSET todo : Cardinality(c) = Min({CallSize, Cardinality(todo)})}

Fetch ==
  /\ pc = "chunk" /\ todo # {}
  /\ pc' = "errors"
  /\ \E c \in Calls : \E class \in [c -> Classes] :
       LET of(k) == {i \in c : class[i] = k}
       IN  /\ todo' = todo \ c
           /\ failed' = of("error")
           /\ errors' = errors + Cardinality(of("error"))
           /\ stopped' \in BOOLEAN
           /\ of("waf") # {} \/ errors' >= MaxBrowserErrors => stopped'
           /\ safe' \in [Kinds -> SUBSET c]
           /\ \A k \in Kinds : safe'[k] \subseteq of(k) /\ (stopped' \/ safe'[k] = of(k))
  /\ UNCHANGED <<unsynced, checkpoint, rows, final, kills>>

ErrorRowsForgotten == pc = "errors" /\ pc' = "metrics" /\ failed' = {}
  /\ UNCHANGED <<todo, safe, stopped, errors, unsynced, checkpoint, rows, final, kills>>

AppendErrorJournal ==
  /\ pc = "errors"
  /\ pc' = "metrics"
  /\ failed' = {}
  /\ errorRows' \in Appended(errorRows, failed)
  /\ UNCHANGED <<todo, safe, stopped, errors, unsynced, checkpoint, metrics, final, kills>>

MetricsOfSuccessOnly == safe["success"]
MetricsOf == IdsIn(safe)

AppendTerminalMetrics ==
  /\ pc = "metrics"
  /\ pc' = "record"
  /\ metricLines' = metricLines + Cardinality(MetricsOf)
  /\ metricRows' \in Appended(metricRows, MetricsOf)
  /\ UNCHANGED <<todo, call, unsynced, checkpoint, errorRows, final, kills>>

Flushed(records) == [k \in Kinds |-> checkpoint[k] \cup records[k]]
Nothing == [k \in Kinds |-> {}]

(* record_success or record_not_found, with the sync of _append.           *)
Record(i, k) ==
  LET appended == [unsynced EXCEPT ![k] = @ \cup {i}]
      syncs == Cardinality(IdsIn(appended)) >= SyncInterval
  IN  /\ pc = "record" /\ i \in safe[k]
      /\ safe' = [safe EXCEPT ![k] = @ \ {i}]
      /\ unsynced' = IF syncs THEN Nothing ELSE appended
      /\ checkpoint' = IF syncs THEN Flushed(appended) ELSE checkpoint
      /\ UNCHANGED <<pc, todo, failed, stopped, errors, rows, final, kills>>

(* After a call: on to the next one, or close the batch and leave it.      *)
EndCall ==
  /\ pc = "record" /\ IdsIn(safe) = {} /\ ~stopped
  /\ pc' = "chunk"
  /\ UNCHANGED <<todo, call, unsynced, checkpoint, rows, final, kills>>

(* An attempt's own state ends with it.                                    *)
ForgetCall ==
  /\ failed' = {}
  /\ safe' = Nothing
  /\ stopped' = FALSE
  /\ errors' = 0

Close ==
  /\ pc' = "down"
  /\ todo' = {}
  /\ checkpoint' = Flushed(unsynced)
  /\ unsynced' = Nothing
  /\ ForgetCall
  /\ UNCHANGED <<rows, kills>>

LeaveResumable ==
  /\ \/ pc = "record" /\ IdsIn(safe) = {} /\ stopped
     \/ pc = "chunk" /\ todo # {}
  /\ Close
  /\ UNCHANGED final

Finalize ==
  /\ pc = "chunk" /\ todo = {}
  /\ Close
  /\ final' = TRUE

Kill ==
  /\ pc # "down" /\ kills < MaxKills
  /\ pc' = "down"
  /\ kills' = kills + 1
  /\ todo' = {}
  /\ ForgetCall
  /\ unsynced' = Nothing
  /\ checkpoint' \in [Kinds -> SUBSET (Terminal \cup IdsIn(unsynced))]
  /\ \A k \in Kinds : /\ checkpoint[k] \subseteq checkpoint'[k]
                      /\ checkpoint'[k] \subseteq checkpoint[k] \cup unsynced[k]
  /\ \E left \in CutShort(errorRows, IF pc = "errors" THEN failed ELSE {}) :
       errorRows' = left[1]
  /\ \E left \in CutShort(metricRows, IF pc = "metrics" THEN MetricsOf ELSE {}) :
       /\ metricRows' = left[1]
       /\ metricLines' = metricLines + left[2]
  /\ UNCHANGED final

WorkerStep ==
  \/ Begin \/ Fetch \/ AppendErrorJournal \/ AppendTerminalMetrics
  \/ \E i \in Ids, k \in Kinds : Record(i, k)
  \/ EndCall \/ LeaveResumable \/ Finalize \/ Kill

(* prepare_batch skips a batch whose final file exists.                    *)
Skipped == pc = "down" /\ final /\ UNCHANGED workerVars

Spec == Init /\ [][WorkerStep \/ Skipped]_workerVars

-----------------------------------------------------------------------------
(* load_terminal_metrics finds a latency for every checkpointed ID, but    *)
(* for one that a kill may cost: the row it tears is written again with    *)
(* its ID, and the first row after it, on the same line, cannot be read.   *)
LatencyLossBounded ==
  Cardinality(Terminal \ LatencyIds) <= kills

(* When a batch is final, every ID of it without a record can be read from *)
(* the error journal, which rerun.py selects from, but for one at most:    *)
(* the attempt that finalizes asks again for every ID without a record, so *)
(* what earlier kills have cost does not add up.                           *)
ErrorLossBounded ==
  final => Cardinality(Ids \ (Terminal \cup Readable(errorRows))) <= Min({1, kills})

(* Counting lines of terminal.jsonl, as the monitor does, never falls      *)
(* behind the records of the batch, synced or not, and runs ahead of its   *)
(* IDs by no more than a call and an unsynced tail for each kill.          *)
RowsMatchRecords ==
  /\ Cardinality(Terminal \cup IdsIn(unsynced)) <= metricLines
  /\ metricLines <= Cardinality(Ids) + kills * (CallSize + SyncInterval - 1)

(* README.md: errors.jsonl holds the "structured resumable browser errors  *)
(* used by reruns".  Every ID of a final batch without a record is there   *)
(* for rerun.py to select.  The code does not keep this after a kill.      *)
FinalSelectable ==
  final => Ids \subseteq Terminal \cup Readable(errorRows)

=============================================================================
