----------------------------- MODULE Collector -----------------------------
(***************************************************************************)
(* One `collect` run directory: browser workers of an attempt, the stop    *)
(* state they share, what each has made durable, and what survives when    *)
(* the process is killed and the command is run again.                     *)
(*                                                                         *)
(* collector/execution/worker.py (run_browser and what it calls),          *)
(* collector/execution/orchestration.py (start and join of the workers)    *)
(* and collector/persistence/ (checkpoint and metric journals).            *)
(*                                                                         *)
(* Abstractions.  A shard is the part of a batch given to one browser; the *)
(* order of IDs inside it is forgotten.  Success and not-found are one     *)
(* class, "terminal".  fetch_with_retries is one step with any outcome,    *)
(* each answer ending at any instant since the call began.  The            *)
(* checkpoints are the set of IDs recorded; the metrics and error journals *)
(* are the IDs a row was appended for, whether or not a reader can parse   *)
(* the line it is on: nothing repairs these two, and how many of their     *)
(* rows a kill makes unreadable is the subject of Journals.                *)
(***************************************************************************)
EXTENDS StopState, Sequences, FiniteSets, FiniteSetsExt

CONSTANTS
  Ids,               \* product IDs selected for the run
  Shards,            \* parts of batches, each owned by one browser
  AssignedIds,       \* AssignedIds[s]: the IDs of shard s
  Assignments,       \* Assignments[b]: the shards of browser b, in batch order
  CallSize,          \* --selenium-call-size
  MaxBrowserErrors,  \* MAX_CONSECUTIVE_BROWSER_ERRORS
  SyncInterval,      \* CHECKPOINT_SYNC_INTERVAL
  MaxClock,          \* bound: steps of time in an attempt and kills before it
  MaxCrashes         \* bound: how often the process is killed

(* contiguous_assignments gives every selected ID to exactly one shard and *)
(* every shard to exactly one browser.                                     *)
ASSUME PartitionAssumption ==
  /\ AssignedIds \in [Shards -> SUBSET Ids]
  /\ Ids = UNION {AssignedIds[s] : s \in Shards}
  /\ \A s, t \in Shards : s # t => AssignedIds[s] \cap AssignedIds[t] = {}
  /\ Assignments \in [Browsers -> Seq(Shards)]
  /\ \A b, c \in Browsers :
       \A i \in 1 .. Len(Assignments[b]), j \in 1 .. Len(Assignments[c]) :
         Assignments[b][i] = Assignments[c][j] => b = c /\ i = j
  /\ \A s \in Shards : \E b \in Browsers : \E i \in 1 .. Len(Assignments[b]) :
       Assignments[b][i] = s

ASSUME BoundsAssumption ==
  /\ IsFiniteSet(Ids)
  /\ CallSize \in Nat \ {0}
  /\ MaxBrowserErrors \in Nat \ {0}
  /\ SyncInterval \in Nat \ {0}
  /\ MaxClock \in Nat
  /\ MaxCrashes \in Nat

VARIABLES
  phase,       \* "running" while the process lives, "down" otherwise
  crashes,     \* kills so far
  clock,       \* current instant of this attempt
  stop,        \* the attempt's StopState
  pc,          \* where each worker is in run_browser
  position,    \* index in Assignments[b] of the shard at hand
  todo,        \* pending IDs of the open batch not yet passed to Selenium
  chunk,       \* IDs of the Selenium call in progress
  started,     \* instant that call began
  results,     \* classified results of the last call
  safe,        \* terminal results still to be checkpointed
  complete,    \* ResumableBatch.complete
  errors,      \* browser_errors of this attempt
  unsynced,    \* IDs appended to the open checkpoint since its last sync
  terminal,    \* durable: IDs with a checkpoint record
  metrics,     \* durable: IDs a metrics row was appended for
  errorLog,    \* durable: IDs an error row was appended for
  final,       \* durable: shards whose final file exists
  metricsDir,  \* durable: browsers whose metrics directory exists
  summary      \* durable: benchmark_summary.json

process == <<phase, crashes>>
fetches == <<chunk, started, results, safe, errors>>
batches == <<position, todo, complete>>
workers == <<pc, fetches, batches, unsynced>>
journals == <<terminal, metrics, errorLog, metricsDir>>
vars == <<process, clock, stop, workers, journals, final, summary>>

-----------------------------------------------------------------------------

Classes == {"terminal", "waf", "error"}

Results == [id : Ids, class : Classes, at : Nat]

OfClass(R, class) == {r \in R : r.class = class}
IdsOf(R) == {r.id : r \in R}

NoSummary == [written |-> FALSE, reason |-> "none", allTerminal |-> FALSE]

Ended == {"returned", "raised"}
InBatch == {"chunk", "fetch", "journal", "cutoff", "metrics", "record", "finalize"}

Shard(b) == Assignments[b][position[b]]

Init ==
  /\ phase = "running"
  /\ crashes = 0
  /\ clock = 0
  /\ stop = NotStopped
  /\ pc = [b \in Browsers |-> "open"]
  /\ position = [b \in Browsers |-> 1]
  /\ todo = [b \in Browsers |-> {}]
  /\ chunk = [b \in Browsers |-> {}]
  /\ started = [b \in Browsers |-> 0]
  /\ results = [b \in Browsers |-> {}]
  /\ safe = [b \in Browsers |-> {}]
  /\ complete = [b \in Browsers |-> TRUE]
  /\ errors = [b \in Browsers |-> 0]
  /\ unsynced = [b \in Browsers |-> {}]
  /\ terminal = {}
  /\ metrics = {}
  /\ errorLog = {}
  /\ final = {}
  /\ metricsDir = {}
  /\ summary = NoSummary

(* The process is gone, and with it everything that was only in memory.    *)
Forget ==
  /\ phase' = "down"
  /\ clock' = 0
  /\ stop' = NotStopped
  /\ pc' = [b \in Browsers |-> "open"]
  /\ position' = [b \in Browsers |-> 1]
  /\ todo' = [b \in Browsers |-> {}]
  /\ chunk' = [b \in Browsers |-> {}]
  /\ started' = [b \in Browsers |-> 0]
  /\ results' = [b \in Browsers |-> {}]
  /\ safe' = [b \in Browsers |-> {}]
  /\ complete' = [b \in Browsers |-> TRUE]
  /\ errors' = [b \in Browsers |-> 0]
  /\ unsynced' = [b \in Browsers |-> {}]

GoTo(b, from, to) ==
  /\ phase = "running"
  /\ pc[b] = from
  /\ pc' = [pc EXCEPT ![b] = to]

-----------------------------------------------------------------------------
(* run_browser, up to the batch loop.                                      *)

OpenBrowser(b) ==
  /\ GoTo(b, "open", "shard")
  /\ UNCHANGED <<process, clock, stop, fetches, batches, unsynced, journals, final, summary>>

(* Chrome does not start, or the landing page does not load.               *)
OpenFails(b) ==
  /\ GoTo(b, "open", "finish")
  /\ stop' = Stop(stop, "browser_exception", b, NoCutoff)
  /\ UNCHANGED <<process, clock, fetches, batches, unsynced, journals, final, summary>>

-----------------------------------------------------------------------------
(* The batch loop.                                                         *)

(* A worker looks at the event, never at the reason, to learn of a stop.   *)
StopUnseen == FALSE
StopSeen == stop.event

(* BatchCheckpoint.finalized: nothing but the final file says so.          *)
NeverFinalized(s) == FALSE
Finalized(s) == s \in final

(* prepare_batch: what the checkpoint does not hold yet.                   *)
AllAssigned(s) == AssignedIds[s]
PendingIds(s) == AssignedIds[s] \ terminal

LeaveLoop(b) ==
  /\ StopSeen \/ position[b] > Len(Assignments[b])
  /\ GoTo(b, "shard", "finish")
  /\ UNCHANGED <<process, clock, stop, fetches, batches, unsynced, journals, final, summary>>

StayOnFinal(b) == position
NextPosition(b) == [position EXCEPT ![b] = @ + 1]

SkipFinalized(b) ==
  /\ ~StopSeen /\ position[b] <= Len(Assignments[b])
  /\ Finalized(Shard(b))
  /\ GoTo(b, "shard", "shard")
  /\ position' = NextPosition(b)
  /\ UNCHANGED <<process, clock, stop, fetches, todo, complete, unsynced, journals, final, summary>>

OpenBatch(b) ==
  /\ ~StopSeen /\ position[b] <= Len(Assignments[b])
  /\ ~Finalized(Shard(b))
  /\ GoTo(b, "shard", "chunk")
  /\ todo' = [todo EXCEPT ![b] = PendingIds(Shard(b))]
  /\ complete' = [complete EXCEPT ![b] = TRUE]
  /\ UNCHANGED <<process, clock, stop, fetches, position, unsynced, journals, final, summary>>

-----------------------------------------------------------------------------
(* One Selenium call.                                                      *)

BatchExhausted(b) ==
  /\ todo[b] = {}
  /\ GoTo(b, "chunk", "finalize")
  /\ UNCHANGED <<process, clock, stop, fetches, batches, unsynced, journals, final, summary>>

StopBeforeCall(b) ==
  /\ todo[b] # {} /\ StopSeen
  /\ GoTo(b, "chunk", "finalize")
  /\ complete' = [complete EXCEPT ![b] = FALSE]
  /\ UNCHANGED <<process, clock, stop, fetches, position, todo, unsynced, journals, final, summary>>

(* chunks(): a full call, or what is left of the pending IDs.              *)
Chunks(pending) ==
  {c \in SUBSET pending : Cardinality(c) = Min({CallSize, Cardinality(pending)})}

StartCall(b) ==
  /\ todo[b] # {} /\ ~StopSeen
  /\ GoTo(b, "chunk", "fetch")
  /\ \E c \in Chunks(todo[b]) :
       /\ chunk' = [chunk EXCEPT ![b] = c]
       /\ todo' = [todo EXCEPT ![b] = @ \ c]
  /\ started' = [started EXCEPT ![b] = clock]
  /\ UNCHANGED <<process, clock, stop, results, safe, errors, position, complete, unsynced,
                 journals, final, summary>>

(* What the service may answer for one ID.  The instant of an error is     *)
(* never compared with anything, so one stands for all.                    *)
Outcomes(b) ==
  [class : {"terminal", "waf"}, at : started[b] .. clock]
    \cup [class : {"error"}, at : {clock}]

(* The instants that min(challenges, key=ended_at) may return: one, or     *)
(* none when nothing was challenged.                                       *)
FirstChallenge(R) ==
  LET challenges == OfClass(R, "waf")
  IN  IF challenges = {}
        THEN {NoCutoff}
        ELSE {r.at : r \in {q \in challenges : \A p \in challenges : q.at <= p.at}}

(* The two stop decisions of process_fetch_chunk, in the code's order.     *)
AfterChallenge(b, cutoff) ==
  IF cutoff = NoCutoff THEN stop ELSE Stop(stop, "waf", b, cutoff)

LimitPassed(b, cutoff, count) ==
  IF count > MaxBrowserErrors
    THEN Stop(AfterChallenge(b, cutoff), "repeated_browser_errors", b, NoCutoff)
    ELSE AfterChallenge(b, cutoff)

AfterDecisions(b, cutoff, count) ==
  IF count >= MaxBrowserErrors
    THEN Stop(AfterChallenge(b, cutoff), "repeated_browser_errors", b, NoCutoff)
    ELSE AfterChallenge(b, cutoff)

ProcessFetchChunk(b) ==
  /\ GoTo(b, "fetch", "journal")
  /\ \E answer \in [chunk[b] -> Outcomes(b)] :
       LET R == {[id |-> i, class |-> answer[i].class, at |-> answer[i].at] : i \in chunk[b]}
           count == errors[b] + Cardinality({i \in chunk[b] : answer[i].class = "error"})
       IN  /\ results' = [results EXCEPT ![b] = R]
           /\ errors' = [errors EXCEPT ![b] = count]
           /\ \E cutoff \in FirstChallenge(R) : stop' = AfterDecisions(b, cutoff, count)
  /\ chunk' = [chunk EXCEPT ![b] = {}]
  /\ started' = [started EXCEPT ![b] = 0]
  /\ UNCHANGED <<process, clock, safe, batches, unsynced, journals, final, summary>>

(* An exception inside the batch: the inner `finally` closes the           *)
(* checkpoint, which syncs it, and the handler raises the shared stop.     *)
AbandonQuietly(b) ==
  /\ terminal' = terminal \cup unsynced[b]
  /\ unsynced' = [unsynced EXCEPT ![b] = {}]
  /\ todo' = [todo EXCEPT ![b] = {}]
  /\ stop' = stop

AbandonBatch(b) ==
  /\ terminal' = terminal \cup unsynced[b]
  /\ unsynced' = [unsynced EXCEPT ![b] = {}]
  /\ todo' = [todo EXCEPT ![b] = {}]
  /\ stop' = Stop(stop, "browser_exception", b, NoCutoff)

CallRaises(b) ==
  /\ GoTo(b, "fetch", "finish")
  /\ AbandonBatch(b)
  /\ chunk' = [chunk EXCEPT ![b] = {}]
  /\ started' = [started EXCEPT ![b] = 0]
  /\ UNCHANGED <<process, clock, results, safe, errors, position, complete, metrics, errorLog,
                 metricsDir, final, summary>>

-----------------------------------------------------------------------------
(* Persisting the results of a call.                                       *)

ErrorIds(b) == IdsOf(OfClass(results[b], "error"))

(* append_error_journal creates its directory only when it has a row, and  *)
(* appends to the file as it finds it.                                     *)
AppendErrorJournal(b) ==
  /\ GoTo(b, "journal", "cutoff")
  /\ errorLog' = errorLog \cup ErrorIds(b)
  /\ metricsDir' = IF ErrorIds(b) = {} THEN metricsDir ELSE metricsDir \cup {b}
  /\ UNCHANGED <<process, clock, stop, fetches, batches, unsynced, terminal, metrics, final, summary>>

StrictlyBeforeCutoff(r, cutoff) ==
  r.class = "terminal" /\ (cutoff = NoCutoff \/ r.at < cutoff)

TerminalBeforeCutoff(r, cutoff) ==
  r.class = "terminal" /\ (cutoff = NoCutoff \/ r.at <= cutoff)

(* The cutoff is copied under the lock; later decisions are not seen.      *)
ReadCutoff(b) ==
  /\ GoTo(b, "cutoff", "metrics")
  /\ safe' = [safe EXCEPT ![b] =
                IdsOf({r \in results[b] : TerminalBeforeCutoff(r, stop.cutoff)})]
  /\ UNCHANGED <<process, clock, stop, chunk, started, results, errors, batches, unsynced,
                 journals, final, summary>>

(* The slip in which checkpoints are written first and metrics later.      *)
MetricsNotYetWritten(b) ==
  /\ GoTo(b, "metrics", "record")
  /\ metricsDir' = IF safe[b] = {} THEN metricsDir ELSE metricsDir \cup {b}
  /\ UNCHANGED <<process, clock, stop, fetches, batches, unsynced, terminal, metrics, errorLog,
                 final, summary>>

(* Appended like the error rows, to the file as it is.                     *)
AppendTerminalMetrics(b) ==
  /\ GoTo(b, "metrics", "record")
  /\ metrics' = metrics \cup safe[b]
  /\ metricsDir' = IF safe[b] = {} THEN metricsDir ELSE metricsDir \cup {b}
  /\ UNCHANGED <<process, clock, stop, fetches, batches, unsynced, terminal, errorLog, final, summary>>

(* record_success or record_not_found, with the sync every SyncInterval    *)
(* records that _append makes.                                             *)
RecordTerminal(b) ==
  /\ GoTo(b, "record", "record")
  /\ \E i \in safe[b] :
       LET appended == unsynced[b] \cup {i}
           syncs == Cardinality(appended) >= SyncInterval
       IN  /\ safe' = [safe EXCEPT ![b] = @ \ {i}]
           /\ unsynced' = [unsynced EXCEPT ![b] = IF syncs THEN {} ELSE appended]
           /\ terminal' = IF syncs THEN terminal \cup appended ELSE terminal
  /\ UNCHANGED <<process, clock, stop, chunk, started, results, errors, batches, metrics,
                 errorLog, metricsDir, final, summary>>

(* save_elapsed() succeeds and the loop looks at the event again.          *)
EndCall(b) ==
  /\ safe[b] = {}
  /\ b \in metricsDir
  /\ GoTo(b, "record", IF StopSeen THEN "finalize" ELSE "chunk")
  /\ complete' = [complete EXCEPT ![b] = ~StopSeen]
  /\ results' = [results EXCEPT ![b] = {}]
  /\ UNCHANGED <<process, clock, stop, chunk, started, safe, errors, position, todo, unsynced,
                 journals, final, summary>>

(* save_elapsed() writes into a directory that only the two journals       *)
(* create; without it the write raises FileNotFoundError.                  *)
SaveElapsedRaises(b) ==
  /\ safe[b] = {}
  /\ b \notin metricsDir
  /\ GoTo(b, "record", "finish")
  /\ AbandonBatch(b)
  /\ results' = [results EXCEPT ![b] = {}]
  /\ UNCHANGED <<process, clock, chunk, started, safe, errors, position, complete, metrics,
                 errorLog, metricsDir, final, summary>>

-----------------------------------------------------------------------------
(* The end of a batch, of a worker and of the attempt.                     *)

CloseBatch(b) ==
  /\ GoTo(b, "finalize", "shard")
  /\ terminal' = terminal \cup unsynced[b]
  /\ unsynced' = [unsynced EXCEPT ![b] = {}]
  /\ todo' = [todo EXCEPT ![b] = {}]
  /\ position' = [position EXCEPT ![b] = @ + 1]
  /\ UNCHANGED <<process, clock, stop, fetches, complete, metrics, errorLog, metricsDir, summary>>

FinalizeBatch(b) ==
  /\ complete[b]
  /\ CloseBatch(b)
  /\ final' = final \cup {Shard(b)}

LeaveBatchResumable(b) ==
  /\ ~complete[b]
  /\ CloseBatch(b)
  /\ final' = final

(* The `finally` of run_browser saves the elapsed time once more, and      *)
(* nothing catches what that raises.                                       *)
Finish(b) ==
  /\ GoTo(b, "finish", IF b \in metricsDir THEN "returned" ELSE "raised")
  /\ UNCHANGED <<process, clock, stop, fetches, batches, unsynced, journals, final, summary>>

AllEnded == phase = "running" /\ \A b \in Browsers : pc[b] \in Ended

WriteSummary ==
  /\ AllEnded
  /\ \A b \in Browsers : pc[b] = "returned"
  /\ summary' = [written |-> TRUE, reason |-> stop.reason, allTerminal |-> terminal = Ids]
  /\ Forget
  /\ UNCHANGED <<crashes, journals, final>>

(* future.result() rethrows and the command dies before any summary.       *)
JoinRaises ==
  /\ AllEnded
  /\ \E b \in Browsers : pc[b] = "raised"
  /\ Forget
  /\ UNCHANGED <<crashes, journals, final, summary>>

-----------------------------------------------------------------------------
(* Kill and rerun.                                                         *)

(* Rows being appended when the process dies: any of them may be on disk,  *)
(* and so may any record not yet synced.                                   *)
Crash ==
  LET atErrors == {b \in Browsers : pc[b] = "journal" /\ ErrorIds(b) # {}}
      atMetrics == {b \in Browsers : pc[b] = "metrics" /\ safe[b] # {}}
  IN  /\ phase = "running"
      /\ crashes < MaxCrashes
      /\ crashes' = crashes + 1
      /\ \E dirs \in SUBSET (atErrors \cup atMetrics) :
           /\ metricsDir' = metricsDir \cup dirs
           /\ \E rows \in SUBSET UNION {ErrorIds(b) : b \in dirs \cap atErrors} :
                errorLog' = errorLog \cup rows
           /\ \E rows \in SUBSET UNION {safe[b] : b \in dirs \cap atMetrics} :
                metrics' = metrics \cup rows
      /\ \E records \in SUBSET UNION {unsynced[b] : b \in Browsers} :
           terminal' = terminal \cup records
      /\ Forget
      /\ UNCHANGED <<final, summary>>

Resume ==
  /\ phase = "down"
  /\ phase' = "running"
  /\ UNCHANGED <<crashes, clock, stop, workers, journals, final, summary>>

Tick ==
  /\ phase = "running"
  /\ clock + crashes < MaxClock
  /\ clock' = clock + 1
  /\ UNCHANGED <<process, stop, workers, journals, final, summary>>

WorkerStep(b) ==
  \/ OpenBrowser(b) \/ OpenFails(b)
  \/ LeaveLoop(b) \/ SkipFinalized(b) \/ OpenBatch(b)
  \/ BatchExhausted(b) \/ StopBeforeCall(b) \/ StartCall(b)
  \/ ProcessFetchChunk(b) \/ CallRaises(b)
  \/ AppendErrorJournal(b) \/ ReadCutoff(b) \/ AppendTerminalMetrics(b)
  \/ RecordTerminal(b) \/ EndCall(b) \/ SaveElapsedRaises(b)
  \/ FinalizeBatch(b) \/ LeaveBatchResumable(b) \/ Finish(b)

Next ==
  \/ \E b \in Browsers : WorkerStep(b)
  \/ WriteSummary
  \/ JoinRaises
  \/ Crash
  \/ Resume
  \/ Tick

Spec == Init /\ [][Next]_vars

(***************************************************************************)
(* Worker threads keep running, the Selenium call returns or raises (the   *)
(* client sets a script timeout before each), and the operator runs the    *)
(* command again while the run directory is unfinished.  Kills and time    *)
(* owe nothing.                                                            *)
(***************************************************************************)
FairSpec ==
  /\ Spec
  /\ \A b \in Browsers : WF_vars(WorkerStep(b))
  /\ WF_vars(WriteSummary)
  /\ WF_vars(JoinRaises)
  /\ WF_vars(Resume)

-----------------------------------------------------------------------------
(* Invariants.                                                             *)

PCs == {"open", "shard", "finish"} \cup InBatch \cup Ended

(* Every variable has its type; an open batch has a shard to work on.      *)
TypeOK ==
  /\ phase \in {"running", "down"}
  /\ crashes \in Nat
  /\ clock \in Nat
  /\ stop \in StopStates
  /\ pc \in [Browsers -> PCs]
  /\ position \in [Browsers -> Nat \ {0}]
  /\ todo \in [Browsers -> SUBSET Ids]
  /\ chunk \in [Browsers -> SUBSET Ids]
  /\ started \in [Browsers -> Nat]
  /\ results \in [Browsers -> SUBSET Results]
  /\ safe \in [Browsers -> SUBSET Ids]
  /\ complete \in [Browsers -> BOOLEAN]
  /\ errors \in [Browsers -> Nat]
  /\ unsynced \in [Browsers -> SUBSET Ids]
  /\ terminal \subseteq Ids
  /\ metrics \subseteq Ids
  /\ errorLog \subseteq Ids
  /\ final \subseteq Shards
  /\ metricsDir \subseteq Browsers
  /\ summary \in [written : BOOLEAN, reason : Reasons \cup {"none"}, allTerminal : BOOLEAN]
  /\ \A b \in Browsers : pc[b] \in InBatch => position[b] <= Len(Assignments[b])

(* No ID of a final batch was dropped without a trace: whatever the other  *)
(* workers, the stop or a kill did meanwhile, it has a terminal record or  *)
(* it ended as an error, in this attempt or an earlier one, and a row was  *)
(* appended for it (run_browser: `complete`, finalize_batch).  This speaks *)
(* of writing only: a torn line makes the row glued to it unreadable, and  *)
(* ErrorLossBounded of Journals says what of these rows rerun.py can read. *)
FinalAccounted ==
  \A s \in final : AssignedIds[s] \subseteq terminal \cup errorLog

(* A final batch misses fewer IDs than the error limit, in whatever order  *)
(* calls, successes, stops and kills came: the counter is carried over     *)
(* calls and batches, is reset by neither a success nor a new batch, and   *)
(* is compared before the batch can go on (process_fetch_chunk).           *)
FinalMissesFew ==
  \A s \in final : Cardinality(AssignedIds[s] \ terminal) < MaxBrowserErrors

(* An answer's metrics row is appended before it can be recorded: after    *)
(* any kill each recorded ID has had its row written, by this attempt or   *)
(* an earlier one (persist_terminal_results: journal, then checkpoint).    *)
(* Whether the summary can still read that row, and so has a latency for   *)
(* the ID, is another question: LatencyLossBounded of Journals.            *)
MetricsCoverCheckpoints ==
  terminal \cup UNION {unsynced[b] : b \in Browsers} \subseteq metrics

(* While any worker still holds a challenged result, the shared cutoff is  *)
(* set and is no later than that challenge, whoever reported first and for *)
(* whatever reason (StopState.stop, process_fetch_chunk).                  *)
CutoffCoversChallenges ==
  \A b \in Browsers : \A r \in OfClass(results[b], "waf") :
    stop.cutoff # NoCutoff /\ stop.cutoff <= r.at

(* When a worker has persisted a call, no terminal answer of that call     *)
(* that ended at or before the cutoff was dropped, even if another worker  *)
(* moved the cutoff after this one read it (persist_terminal_results).     *)
SafeResultsPersisted ==
  \A b \in Browsers :
    pc[b] = "record" /\ safe[b] = {} =>
      \A r \in OfClass(results[b], "terminal") :
        stop.cutoff = NoCutoff \/ r.at <= stop.cutoff => r.id \in terminal \cup unsynced[b]

(* No ID that already has a terminal record is requested again, in this    *)
(* attempt or after any restart (prepare_batch, chunks).                   *)
OnlyUnfinishedFetched ==
  \A b \in Browsers :
    chunk[b] \cap (terminal \cup UNION {unsynced[c] : c \in Browsers}) = {}

(* A summary with no stop reason means that nothing is left to resume:     *)
(* every batch has its final file (run_browser, build_aggregate_summary).  *)
UnstoppedSummary ==
  summary.written /\ summary.reason = "none" => final = Shards

-----------------------------------------------------------------------------
(* Why FinalAccounted holds: the inductive invariant.                      *)

(* What a worker holds belongs to its open batch, which is not final.      *)
Owns(b) ==
  /\ pc[b] \notin InBatch => unsynced[b] = {}
  /\ pc[b] \in InBatch =>
       /\ Shard(b) \notin final
       /\ todo[b] \cup chunk[b] \cup safe[b] \cup unsynced[b] \cup IdsOf(results[b])
            \subseteq AssignedIds[Shard(b)]

(* The event is set exactly when a reason is, and a cutoff implies both.   *)
StopKnown ==
  /\ stop.event <=> stop.reason # "none"
  /\ stop.cutoff # NoCutoff => stop.event

Accounted(b) == terminal \cup errorLog \cup unsynced[b] \cup todo[b] \cup chunk[b]

(* Unless a stop will keep it open, a batch loses sight of none of its IDs *)
(* on the way from pending to persisted.                                   *)
BatchAccounted(b) ==
  /\ pc[b] \in InBatch \ {"finalize"} => complete[b]
  /\ pc[b] # "fetch" => chunk[b] = {}
  /\ pc[b] \notin {"journal", "cutoff", "metrics", "record"} => results[b] = {}
  /\ pc[b] \notin {"metrics", "record"} => safe[b] = {}
  /\ pc[b] \in {"chunk", "fetch"} => AssignedIds[Shard(b)] \subseteq Accounted(b)
  /\ pc[b] \in {"journal", "cutoff"} =>
       AssignedIds[Shard(b)] \subseteq Accounted(b) \cup IdsOf(results[b])
  /\ pc[b] = "cutoff" => ErrorIds(b) \subseteq errorLog
  /\ pc[b] \in {"metrics", "record"} =>
       stop.event \/ AssignedIds[Shard(b)] \subseteq Accounted(b) \cup safe[b]
  /\ pc[b] = "finalize" /\ complete[b] =>
       todo[b] = {} /\ AssignedIds[Shard(b)] \subseteq Accounted(b)

WorkerInv(b) ==
  /\ Owns(b)
  /\ BatchAccounted(b)
  /\ pc[b] = "record" => safe[b] \subseteq metrics

(* An open batch accounts for each of its IDs until it is finalized or     *)
(* left to a later attempt (run_browser, from prepare_batch to             *)
(* finalize_batch); this is what makes FinalAccounted inductive.           *)
RunInv ==
  /\ \A b \in Browsers : WorkerInv(b)
  /\ StopKnown
  /\ CutoffCoversChallenges
  /\ MetricsCoverCheckpoints
  /\ FinalAccounted

-----------------------------------------------------------------------------
(* Action, refinement and liveness properties.                             *)

(* Within an attempt a stop is never taken back, its first reason and      *)
(* source are kept, and the cutoff only moves earlier (StopState.stop).    *)
StopKept ==
  /\ stop'.event
  /\ stop'.reason = stop.reason
  /\ stop'.source = stop.source
  /\ stop.cutoff # NoCutoff => stop'.cutoff # NoCutoff /\ stop'.cutoff <= stop.cutoff

StopIsSticky == [][phase' = "running" /\ stop.event => StopKept]_vars

(* What the run directory promises its readers, kills and restarts         *)
(* included: records are never lost, and a finalized batch is immutable.   *)
Run == INSTANCE ResumableRun WITH journalled <- errorLog, sealed <- final

ImplementsResumableRun == Run!Spec

(* Every attempt ends by itself, stopped or not: no worker waits for       *)
(* another and none loops over its batches for ever.                       *)
AttemptEnds == phase = "running" ~> phase = "down"

(* If from some time on no attempt meets a stop, every batch is finalized  *)
(* in the end, whatever was killed or stopped before.                      *)
RunCompletes == <>[](~stop.event) => <>(final = Shards)

-----------------------------------------------------------------------------
(* What the documentation says and the code does not do.                   *)

(* persistence/README: "Final batch JSON is written only after every       *)
(* assigned ID is terminal."                                               *)
FinalIsTerminal ==
  \A s \in final : AssignedIds[s] \subseteq terminal

(* benchmark/summary.py: AggregateSummary is the "final summary written at  *)
(* the end of a collection attempt"; an attempt that nobody killed has one. *)
AttemptSummarized ==
  phase = "down" /\ crashes = 0 => summary.written

=============================================================================
