# A TLA+ model of the Tiki product collector

TLA+ modules, TLC configurations and TLAPS proofs about the collector in this
repository (`collector/`): a Python program that fetches product records
through several Chrome browsers, survives being killed, and is resumed by
running the same command again. The modules are translated from the source;
the documentation is used only to say what the code is meant to do.

## The system

| Component | State it keeps | Operations | Correct when |
| --- | --- | --- | --- |
| Shared stop state (`execution/worker.py`, `StopState`) | event, first reason, source browser, earliest WAF cutoff; under one lock | `stop` by any worker thread; reads of the event and the cutoff | the first decision stays, the cutoff covers every challenge and only moves earlier |
| Browser worker (`execution/worker.py`, `run_browser`) | open batch, pending IDs, results of the last call, error count, `complete` | open Chrome, prepare, call, journal, persist, finalize, close, fail | no ID of a final batch vanished without an error row, fewer are missing than the error limit, no recorded ID is fetched again, it stops when asked to |
| Retry policy (`fetch_with_retries`) | results of one call, loop, attempt | fetch, wait, retry, return | only a challenge that outlasts every cooldown stops the run; a timeout gets its backoffs, but for two ways around them; terminal answers stay; it ends |
| Page fetch pool (`browser/scripts.py`) | next index, challenge flag, open requests, result slots | take a slot, resume with an answer, abort, fill | bounded, each ID once, no request after a challenge, answers under their own IDs |
| Transport, classification (`browser/client.py`, `classification.py`) | script timeout, raw results | run the script, fall back, normalise, classify | every ID gets exactly one classified response |
| Batch checkpoint (`persistence/checkpoint.py`) | two append-only journals, their buffers, the sync counter, the final file | load and repair, append, sync, finalize, close | what was synced is read back after any kill, nothing is recorded twice, the final file holds every success on record and never changes |
| Progress and metrics (`persistence/progress.py`) | metrics journal, error journal, elapsed time | append and fsync, save, load | a metrics row is appended before the checkpoint record; what a kill makes unreadable is bounded |
| Input, partitioning (`utils/input.py`, `execution/partitioning.py`) | none | deduplicate, batch, select, assign, chunk | every selected ID in exactly one shard, contiguous, balanced |
| Orchestration, summary (`execution/orchestration.py`, `main.py`, `benchmark/summary.py`) | the futures, the summary file | start and join the workers, write the summary | an unstopped summary means a finished run |
| Run manifest (`persistence/checkpoint.py`, `prepare_manifest`) | the configuration of the first attempt | create or compare | an attempt that goes on has the shards of the first |
| Throughput monitor (`benchmark/monitor.py`) | milestone lines; in memory the count, an offset per journal, the next milestone | start, poll, append, leave | counts lie between records and rows, no more lines than milestones reached, it stays through kills and leaves after a stop or a complete run |
| Rerun (`rerun.py`) | frozen selection, input file, destination run, summary | read the source, freeze, write, collect, summarize | of a final source it misses at most the ID a torn row costs; it survives kills and reports what is there |

The workers of an attempt are threads. They share only `StopState`; files are
per worker. A worker calls the retry policy, which calls the transport, which
runs the page pool inside Chrome. Between attempts only the run directory is
left. The monitor and the rerun are other processes that read the directory
while it changes, and can be killed and started again themselves.

Hard behaviours: a stop by one worker at any instant of another (also during a
cooldown of 20 minutes); a cutoff read under a lock and used after it; kills
between two writes, inside a write, and between a record and its newline;
answers in any order in the page; a script timeout that must outlast a pool of
request timeouts; batches that end with some IDs unresolved. `PROJECT.json`
lists them line by line with the properties that watch them.

## Modules

| Module | Models | State and actions |
| --- | --- | --- |
| `StopState` | class `StopState` | a record; `Stop` is its value after one locked call |
| `ResumableRun` | abstract: what a run directory promises its readers | `terminal`, `journalled`, `sealed`; `Advance`, `Seal` |
| `Collector` | an attempt with all its workers, its death and its rerun | `pc[b]` follows `run_browser`; one action per statement that changes shared or durable state, listed in `WorkerStep`; `WriteSummary`/`JoinRaises` are the join in `orchestration.main` and `main.py`; `Crash`, `Resume`, `Tick` are the environment |
| `CollectorProofs` | theorems about `Collector` | |
| `Retries` | `fetch_with_retries`, `retry_matching_results` | `loop` is the call of `retry_matching_results`, `attempt` its counter; `StartWait`, `WaitOver`, `WaitInterrupted`, `RetryFetch`, `LeaveLoop`, `NextLoop`, `Return` |
| `RetriesProofs` | theorems about `Retries` | |
| `FetchPool` | `BOUNDED_FETCH_SCRIPT`, `fetch_many`, `classify_product_response` | slots 1..Size; `Resume` is a page worker between two awaits; `PageDone`, `DriverFails`, `ScriptTimesOut` are the ways the script comes back |
| `FetchPoolProofs` | theorems about `FetchPool` | |
| `Checkpoint` | `BatchCheckpoint`, `_read_jsonl` for one batch | journals as sequences of record texts, newlines and torn beginnings; `LoadSuccess`, `LoadNotFound`, `Open`, `Record`, `Finalize`, `Close`, `Kill`; `GiveUp` is an ID whose call ended in an error |
| `CheckpointProofs` | theorems about `Checkpoint` | |
| `Journals` | the metrics and error journals of one worker beside its checkpoint, `append_*`, `load_terminal_metrics`, `_read_ids` | a journal is what can be read of its ended lines, and the line at its end; `Fetch`, `AppendErrorJournal`, `AppendTerminalMetrics`, `Record`, `Finalize`, `Kill` |
| `JournalsProofs` | theorems about `Journals` | |
| `Rerun` | `rerun.main` beside the worker of `Journals` as its source | `rpc` follows `main`; `ReadNotFound` and `ReadErrors` are the two reads of `collect_selection`, `Collect` is a run of the collector, `OtherSource` the refusal of a selection made from another run, `RerunKilled` a kill anywhere |
| `RerunProofs` | theorems about `Rerun`; extends `JournalsProofs`, whose invariant the source of a rerun keeps | |
| `Monitor` | `monitor.main`, `TerminalCounter`, `snapshot`, `benchmark_finished`, beside the attempts of a run | the run as numbers of rows and records (`AppendRow`, `RecordIsDurable`, `EndAttempt`, `AttemptDies`, `Resume`); `mpc` follows a poll: `Glob`, `CountJournal` for each file, `ReadProgress`, `AppendMilestone`, then `Return` or `Sleep` |
| `MonitorProofs` | theorems about `Monitor` | |
| `Partitioning` | `load_and_batch_ids`, batch selection, `contiguous_assignments`, `chunks` | the loop over browsers, one step each |
| `Manifest` | `prepare_manifest`, composed with `Partitioning` | `CreateManifest`, `AcceptManifest`, `RefuseManifest`; `NextAttempt` runs the command again with any arguments over an edited file |
| `ManifestProofs` | theorems about `Manifest` and `Partitioning` | |
| `MC*` | instances for TLC | |

How they fit together: `Collector` extends `StopState` and takes one outcome
for each ID of a call, which `Retries` produces from the outcomes of single
requests, which `FetchPool` produces from answers. `Collector` keeps the checkpoints as
the set of IDs with a whole record in them; `Checkpoint` looks inside and says
when that is right. Of the metrics and error journals `Collector` keeps for
which IDs a row was appended, not whether a reader can parse it: these two are
never repaired, and what is left of their rows is what `Journals` is about.
Both `Collector` and `Checkpoint` implement `ResumableRun`, the one for all
shards of a run and the other for one. `Partitioning` discharges
`PartitionAssumption`, which `Collector` makes of its constants (by
`SelectionIsPartitioned`, for every input), and `Manifest` runs it once for
each attempt. `Journals` is to the metrics and error journals
what `Checkpoint` is to the checkpoints; `Rerun` extends it. `Monitor` sees of
the run only newlines and records; that records are never more than newlines,
and newlines not many more, is `RowsMatchRecords` of `Journals`.

Definitions such as `StopUnseen`, `AllAssigned` or `NoRepair`, each in front of
the definition it resembles, are slips somebody could make in that code. No
specification uses them. They are there to see that a property notices: with
the slip in place of the definition TLC must report the property violated.

## Runs

| Run | Question | Instance |
| --- | --- | --- |
| `collector_crash` | Do accounting, durability, the stop state and refinement hold with a stop and a kill anywhere? | two browsers; shards of two, one and one IDs, two shards on browser 1; two IDs per call, error limit 2, sync every 2 records, two instants, one kill, after which time stands still |
| `collector_progress` | Does every attempt end, and the run complete? | three shards of one ID, one kill, fairness |
| `retries` | Is anything given up early, and when does a stop take effect? | three IDs, the delays of `config.py` |
| `fetch_pool` | Are answers filed right, does a challenge stop the page, do timeouts suffice? | four IDs, two page workers, timers on time or a tick late, fairness |
| `checkpoint` | Do the journals survive torn writes? | four IDs, sync every 3 records, three kills |
| `manifest` | Do the shards partition the selection, and does a resumed attempt have them again? | all files of at most five lines over four IDs and junk, batches of three, two or four browsers, two attempts with any arguments and one edit |
| `monitor` | Are counts, milestone lines and the end of monitoring right while the run changes? | browsers with two IDs and one, a milestone of 2, one attempt that dies; the monitor is killed without bound |
| `rerun` | What do unrepaired journals lose, and does a rerun account for its source? | a batch of two IDs in one call, error limit 2, sync every 2 records, the worker killed once; the rerun killed without bound |
| `collector_error_hole`, `collector_no_summary`, `checkpoint_newline`, `journals_torn` | Does what the documentation says hold? | one shard per browser, one ID per call, no kill (the first two); two IDs and one kill; two IDs in one call and one kill |

The last four end in a counterexample; see *Findings*.

Why the bounds are enough to be interesting. Two browsers are the default and
the least that can disagree about a stop. Browser 1 has two shards, so that it
can be killed or stopped with one final and one open, and a shard of two IDs so
that it can be half done; a call of two lets one call mix a challenge with an
answer that has to be kept or dropped. The error limit of 2 is reached within
one browser, and one unresolved error stays below it. A sync interval of 2
leaves one record unsynced at a kill; in `collector_progress`, where durability
is not the question, it is 1. Two instants let a challenge come before, with or
after another one or an answer; instants are compared only within an attempt,
and what is compared does not outlive a kill, so time stands still after one.
In `manifest`, batches of three make a part that spans two batches, and a
fifth line makes an ID come again; two attempts are enough, because an accepted
one leaves the manifest as it is. Four slots and two page workers give a second
round, in which the order of answers and the order of slots differ. Three kills
of a batch can each tear a journal that an earlier kill had torn. In `rerun`
one kill tears a row of either journal, and the two IDs give a row to be glued
to it and one to be kept; the bounds on what is lost are equalities there (that
more kills do not lose more is what `ErrorLoss` proves). In
`monitor` three IDs, and the rows a death makes be written again, give one
milestone or two, and two journals to be read while both grow. `MaxClock`, `MaxCrashes`, `MaxKills`, `MaxLag`,
`MaxLines`, `MaxBatchArg` and `MaxAttempts` are the bounds; everything else is
a parameter of the program. IDs of one shard (and of `checkpoint`, `manifest`
and `rerun`) are declared symmetric in runs without liveness.

A run directory may be finished and a process down, so the modules have a
stuttering action for the end (`Returned`, `Skipped`, `Finished`), and a
finished collection, monitor or rerun can always be started again. Deadlock is
checked everywhere.

Fairness. `Collector`: each worker thread that can take a step takes one (the
operating system schedules threads, and each Selenium call ends because
`fetch_many` sets a script timeout), the join proceeds, and the operator runs
the command again. No fairness on kills or time; a worker may fail for ever,
which is why `RunCompletes` speaks of runs whose stops cease. `Retries`: a
delay passes and a call returns; nobody has to stop. `FetchPool`: time passes
and due timers fire; no answer ever has to come. `Monitor`: a monitor that is
not killed goes on polling; nothing is assumed of the run it watches, so
`MonitorEnds` speaks of runs that some attempt has brought to an end.

## Proofs

`CollectorProofs` proves, for every number of browsers, IDs, shards, calls,
kills and instants allowed by the assumptions on the constants
(`BrowserCountAssumption`, `PartitionAssumption`, `BoundsAssumption`):

- `TypeCorrect`: `Spec => []TypeOK`. One lemma per group of actions
  (`LoopStepType`, `CallStepType`, `ProcessStepType`), on lemmas about `Stop`,
  the stop decisions and the results of a call.
- `RunInvariant`: `Spec => []RunInv`, the inductive invariant. That a final
  batch is accounted for (`FinalAccounted`) is not inductive: one has to know
  that the worker lost no ID on the way. `RunInv` adds, for each worker and
  each place it can be at, where the IDs of its open batch are: on disk, in the
  unsynced tail, still to do, in the current call, among the results or among
  those to be recorded (`BatchAccounted`); that what it holds belongs to its
  own shard, which is not final (`Owns`); and that results may be dropped only
  when the stop event is set, which forbids finalizing (`StopKnown`). The
  theorem also carries `CutoffCoversChallenges` and `MetricsCoverCheckpoints`,
  which hold for the same reason: the stop state only moves one way
  (`StopGrows`), and rows are written before records. The step is proved per
  action: what the acting worker keeps (`LoopStepKeeps`, `CallStepKeeps`), what
  the others keep because shards differ and the stop state only grows
  (`OthersKeep`, `ShardsDiffer`), and what a kill keeps (`ForgetKeeps`).
- `FinalIsAccounted`, `MetricsAreAhead`, `CutoffIsEarliest`: its parts. The
  first two speak of rows that were appended. That they can be read is neither
  claimed nor true: `ErrorLoss` and `LatencyLoss` of `JournalsProofs` bound how
  many cannot.
- `FinalMissesLittle`: `FinalMissesFew`, by a third invariant (`LimitInv`):
  unless a stop keeps its batch open, the errors a worker has counted in this
  attempt are no fewer than the IDs of its open batch it will not record
  (`GivenUp`), and below the limit whenever it goes on. A call adds its errors
  to both (`CallLimit`); without a stop nothing is cut off (`CutoffLimit`).
- `StopSticks`: the action property `StopIsSticky`.
- `Implementation`: `Collector` implements `ResumableRun` under
  `journalled <- errorLog, sealed <- final`. Nothing is added to a sealed shard
  because an open worker holds only IDs of its own shard (`InHandIsUnsealed`);
  sealing needs `BatchAccounted` at the place `finalize`.
- `AttemptInvariant`: `Spec => []AttemptInv`, beside `RunInv`: what a worker
  still has to ask is neither recorded nor answered (`PendingInv`); while it
  writes, each terminal answer from before the cutoff is recorded or in its
  hands (`PersistInv`, which holds because a cutoff only moves earlier); and
  without a stop it leaves no shard open behind it (`LoopInv`).
- `NothingIsFetchedTwice`, `SafeResultsAreKept` and `SummaryIsHonest` follow
  for `OnlyUnfinishedFetched`, `SafeResultsPersisted` and `UnstoppedSummary`.

`RetriesProofs`, for any IDs of a call and any number of delays of either kind:

- `RetryInvariant`: `Spec => [](TypeOK /\ RetryInv)`. What the run checks speaks
  of the end of a call; `RetryInv` says for every step before it that an ID
  that is still challenged, or still transient, was part of every attempt of
  the loop so far (`AttemptsInv`, with the bounds of the counter in
  `CounterInv`), that a loop left without a stop had nothing more to retry or
  no attempt more (`LeftInv`), and that after a stop the worker is past the
  calls it may still begin (`LateInv`).
- `NothingEarly`, `OneLateCall`, `TerminalStays` follow for
  `NothingGivenUpEarly`, `AtMostOneLateCall` and the action property
  `TerminalKept`. `NothingEarly` speaks of what the call returns and names both
  ways in which a timeout misses its backoffs; `CarriedInv` follows the counts
  of an ID from loop to loop.

`MonitorProofs`, for any browsers, IDs, milestone and kills of either process:

- `LinesInvariant`: `Spec => []LinesInv`. `MilestoneLines` is not inductive: a
  line is good only because the milestone waited for comes after those there
  are lines for, and because no line is ahead of the count by more than that
  milestone (`NextIsAhead`), which a monitor that starts has to find out from
  the file (`FirstIsAhead`) and which a line that is cut off must not break
  (`FrontOfLines`).
- `MilestonesOnce`: `MilestoneLines`.
- `CountInvariant`: `Spec => []CountInv`. The count is the sum of the offsets
  (`CountsOffsets`), each journal already read counts for the records there
  were when the poll began (`PollCovers`), rows are written before records
  (`RowsFirst`), and a summary is never ahead of the records (`SummaryIsOld`).
  `TotalOf` is a fold over the browsers; that it exists and what it does is
  proved by taking a least set of browsers against the claim (`LeastSubset`,
  `SumsExist`, `SumIsTotal`), as the induction theorems cannot be used.
- `CountsBetween` and `StaysToTheEnd` follow for `CountBetween` and
  `StaysUntilDone`.

`FetchPoolProofs`, for any number of IDs and page workers, and any timeout:

- `PoolInvariant`: `Spec => []PoolInv`. Slots are requested in order and once,
  and those no longer in flight have a result (`SlotsInv`); every page worker is
  busy until a challenge is seen or no slot is left (`LanesInv`); a result is
  the answer to its own request (`AnswersInv`). `TimeInv` is what the script
  timeout needs: with timers on time, slot `s` was requested within
  `(s - 1) \div Lanes` rounds of the request timeout. It is preserved because
  among as many slots in flight as there are page workers one lies a round back
  (`OldestInFlight`).
- `TerminalIsOwn`, `UnrequestedRetries`, `ScriptTimeoutSuffices` and the action
  property `ChallengeStops` follow.

`CheckpointProofs`, for any IDs, sync interval and number of kills at every cut
but the one between a record and its newline (`~CutAtNewline`; that this is
needed is what `checkpoint_newline` shows):

- `BatchInvariant`: `Spec => []BatchInv`. What is on disk alternates records and
  newlines, and only its last record may be torn (`Written`); what is loaded has
  been repaired (`Whole`, `LinesInv`); the attempt knows of every record, in the
  file and in the buffers (`KnownInv`); no record is at two places (`Apart`);
  each ID is on record, given up or still pending, and the final file was
  written when none was pending (`KnownInv`, `FinalInv`). The
  lemmas say what the readers, the repair, an append and a cut make of such a
  sequence (`LinesOfWritten`, `RepairedWritten`, `JoinedWritten`,
  `SurvivorsWritten`).
- `SyncedIsKept`, `LinesStayWhole`, `RecordsAreUnique` and `FinalIsComplete`
  follow, and `Implementation`: the lines and the error rows implement
  `ResumableRun`, in which a batch may be sealed with IDs given up.

`JournalsProofs` and `RerunProofs`, for any batch, call size, sync interval and
number of kills, and any kills of the rerun:

- `WorkerInvariant`: `Spec => []WorkerInv`. Rows that cannot be read, and the one
  that an unfinished line will cost, are paid for by kills (`MetricsInv`); an
  attempt loses sight of at most one ID, because it appends to a torn line once
  (`ErrorsInv`, which ties a batch that is final to what its last attempt lost,
  and shows that further kills lose no more); and rows exceed recorded IDs by at
  most a call and an unsynced tail for each kill (`RowsInv`, `HandInv`).
- `LatencyLoss`, `ErrorLoss` and `RowsMatch` follow. Proving `ErrorLoss` showed
  the bound "one ID for each kill" to be too weak; `ErrorLossBounded` now says
  one.
- `RerunInvariant`: `RerunSpec => []RerunInv`, the invariant of the worker with
  what a rerun knows of it: what was read of a final batch is still there
  (`SealInv`), and nothing is written before the selection is frozen
  (`SelectionInv`, `DestinationInv`). `SelectionIsComplete`, `DestinationHolds`
  and `ReportHolds` follow.

`ManifestProofs`, for any file, batch size, numbers of browsers and attempts:

- `AttemptsInvariant`: `Spec => []AttemptsInv`. What has been dealt out is a
  function of the file, the bounds of the selection and the number of browsers
  (`Dealt`), and the manifest holds those of the first attempt (`FirstInv`). For
  this the loops are put in closed form: the entries of consecutive batches
  (`Entries`, `NumberedIs`) and the beginning of each share (`StartOf`,
  `AssignStep`).
- `SameShards` and `ShapeIsPinned` follow: the former because equal files and
  equal configurations give equal shares, the latter because the number of a
  batch at each place depends on the configuration alone.
- `RangesAreBalanced`: groups, put one after another, are the share they came
  from (`RegroupedIs`), and shares are the input (`DealtInOrder`).
- `SelectionIsPartitioned`: the places in the shards and those in the entries
  correspond one to one (`PositionIs`, `PositionsDiffer`, `EveryPosition`), the
  entries are the selected IDs, each once (`EntryOfBatch`, `EntriesDiffer`), and
  each carries the number of its batch (`BatchOfEntry`).
- The lemmas underneath: the places of a finite set of numbers by rank
  (`PlacesAscend`, `AtPlacesIs`), and what `FlattenSeq` returns (`FlattenIs`, by
  the least place at which it could be wrong).

Every safety property that a passing run checks is a theorem, and so are both
refinements. Only model-checked are the liveness properties (`AttemptEnds`,
`RunCompletes`, `Returns`, `CallReturns`, `MonitorEnds`): they need fairness and
`ENABLED`, which the prover cannot treat.

## Findings

Each is a run that ends in a counterexample, and most were also seen by
running the Python code.

- **A final batch can miss IDs** (`collector_error_hole`). `complete` is lowered
  only by a stop; a batch with fewer unresolved browser errors than the limit
  is finalized and never opened again. The documentation says that every ID is
  terminal by then. What does hold, and is proved: such an ID ended as an error
  and a row was appended for it (`FinalAccounted`), of these rows a torn line
  can cost a batch at most one (`ErrorLossBounded`), and a batch misses fewer
  IDs than the error limit (`FinalMissesFew`).
- **No summary after an early failure** (`collector_no_summary`). Saving the
  elapsed time needs a directory that only the journals create; when a browser
  fails before its first row, `run_browser` raises from its `finally`, leaves
  Chrome open and the command dies without a summary.
- **A record without its newline** (`checkpoint_newline`). A kill can keep the
  whole text of a record and not the newline. The record is accepted, the next
  one is appended to the same line, the line is rejected when the batch is
  finalized, and both products are missing from the immutable final file.
  The `checkpoint` run shows that this is the only cut that does harm: with
  `CutAtNewline = FALSE` everything holds for every other cut.
- **A torn error row takes another with it** (`journals_torn`). Nothing repairs
  `errors.jsonl`. The first row of the attempt after a kill continues the line
  the kill tore, and no reader can parse it. When that ID stays an error, its
  batch is finalized all the same (first finding) and `rerun.py` selects it
  from nowhere: it is lost without a trace. `ErrorLossBounded` says that this
  costs a batch one ID at most, however many kills there were, and
  `SealedIsKept` that a rerun misses nothing else.

Smaller observations, made while modelling, that no run is spent on:

- A timeout met in the cooldown loop that follows the transient loop
  (`worker.py:264`), or that comes back beside a challenge that outlasted its
  cooldowns (`worker.py:242-243`), is returned as it is, without the backoffs
  of 1 and 2 seconds; `README.md:71` makes no exception. `NothingGivenUpEarly`
  says exactly when.
- The monitor of a resumed run leaves at its first look if the summary of an
  attempt that was stopped is still there; `monitor.py:82` can be read so.
- An answer that ended after the cutoff is persisted all the same when its
  worker had copied the cutoff before another one moved it (`worker.py:367`).
- The page does not stop for an HTTP 200 JSON answer whose body is invalid,
  which Python calls WAF (`scripts.py:40` against `classification.py:54-61`).
- The monitor writes at most one line per poll and none after it has seen the
  summary, so the last milestones of a run may be missing; a torn milestone
  line makes every later start raise; and after a run that was finalized with
  IDs missing it polls for ever, as `benchmark_finished` waits for all of them.
- A rerun of a source without errors freezes an empty selection, which later
  attempts never replace. Error rows are not removed when their ID succeeds
  after all, so a rerun may fetch IDs that the source has.
- The manifest pins the shape of the shards and not the IDs in them: a file
  with two lines exchanged is accepted.

## Abstractions, and what is left out

- `Collector` joins success and not-found into "terminal", forgets the order of
  IDs in a shard, and takes `fetch_with_retries` as one step with any outcome.
  The stop of another worker during that step is the interleaving before it.
- `Collector` lets a kill keep any subset of unsynced records, which includes
  the prefixes that `Checkpoint` lets it keep, and leaves out the record glued
  to another in `checkpoint_newline`. Its `metrics` and `errorLog` are the IDs
  a row was appended for; that a row glued to a torn one cannot be read, as in
  `journals_torn`, is left to `Journals`.
- `Checkpoint` takes the IDs of a batch one at a time: each is recorded or given
  up, and `Finalize` waits until none is pending, as `finalize_batch` comes
  after the last call. Any number may be given up, where the error limit allows
  fewer (`FinalMissesFew`); that a stop leaves the batch open is `Close`, at any
  point.
- `Journals` has one batch and the checkpoint as sets of records, the sync
  counter included; torn checkpoints are the subject of `Checkpoint`. Which row
  of an append comes first is left open.
- `Rerun` keeps the records of its destination and nothing else of that run:
  they only grow and belong to the input, which is what `Collector` and
  `Partitioning` show. Of the arguments that the manifest compares, one flag
  says whether they are those of the first start.
- `Monitor` does not model reads of the summary that fail (they count as "not
  finished" and are tried again), nor rates and times. Progress files are
  replaced in one piece, so reading one fails only for a reason outside the
  collector; `ReadProgress` lets it fail at any poll.
- The manifest compares concurrency and call size like the fields that
  `Manifest` keeps; no shard depends on them.
- A kill keeps a prefix of what was written after the last fsync. That fsynced
  data and a completed `os.replace` survive is assumed of the file system.
- Instants are natural numbers: the compared timestamps are all written by
  `toISOString` in one format.
- The service answers with the product it was asked for. Product extraction,
  logging, statistics, elapsed times, `state.json`, the names of files,
  command-line parsing and the converter are left out, as are failing writes
  other than the missing metrics directory, and interrupts from the keyboard.
- A page is modelled from a quiet start; requests left over from a script that
  timed out are not.

## Plan

Done, in this order: `StopState`, `Collector` with `ResumableRun`, its proofs,
`Retries`, `FetchPool`, `Checkpoint`, `Partitioning`, `Manifest`, `Journals`,
`Rerun`, `Monitor`. What is left of the code is statistics, text cleaning and
wording, which hold no state that a property could be about.

All the safety properties are proved. Next: what still holds of `Checkpoint`
when a kill may fall between a record and its newline (records that a sync
covered stay on disk, and at most one ID is glued to another for each kill);
the step of the liveness arguments that is not temporal, that each step of a
worker brings its batch nearer to its end, as an action property; and `Stop` as
the abstract register "first reason, least cutoff".
