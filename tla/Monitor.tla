------------------------------ MODULE Monitor -------------------------------
(***************************************************************************)
(* The throughput monitor (benchmark/monitor.py): a process of its own     *)
(* that reads a run directory while a collection attempt writes to it,     *)
(* dies, or is resumed.                                                    *)
(*                                                                         *)
(* Of the run the monitor sees newlines of metrics journals, whether       *)
(* progress files exist, and the summary.  What it must agree with are the *)
(* checkpoint records, which Journals relates to the newlines: a row comes *)
(* before its record, and a kill in between makes its ID write another.    *)
(***************************************************************************)
EXTENDS Integers, FiniteSets, FiniteSetsExt, SequencesExt

CONSTANTS
  Browsers,
  Share,      \* IDs of each browser
  Milestone,  \* --milestone
  MaxKills    \* bound: how often an attempt dies

ASSUME MonitorAssumption ==
  /\ IsFiniteSet(Browsers)
  /\ Share \in [Browsers -> Nat]
  /\ Milestone \in Nat \ {0}
  /\ MaxKills \in Nat

VARIABLES
  running,     \* is an attempt of the collector running?
  kills,
  rows,        \* durable: newlines in each terminal.jsonl, which exists with its first row
  unrecorded,  \* rows of the running attempt whose records are not durable yet
  records,     \* durable: checkpoint records of each browser
  progress,    \* durable: does progress.json exist?
  summary,     \* durable: the last benchmark_summary.json
  mpc,         \* where the monitor is
  toCount,     \* metric journals this poll has yet to read
  offset,      \* newlines up to the offset kept for each journal
  completed,   \* TerminalCounter.completed
  next,        \* next_milestone
  milestones,  \* durable: completed_ids of the lines that can be parsed
  lineEnd,     \* durable: "ended", "open" or "torn", the last milestone line
  unreadable,  \* durable: is there a milestone line that cannot be parsed?
  atPoll,      \* history: records when the current poll began
  stopSeen     \* history: has any attempt ended with a stop?

runVars == <<running, kills, rows, unrecorded, records, progress, summary, stopSeen>>
fileVars == <<milestones, lineEnd, unreadable>>
monitorVars == <<mpc, toCount, offset, completed, next, fileVars, atPoll>>
vars == <<runVars, monitorVars>>

TotalOf(counts) == MapThenSumSet(LAMBDA b : counts[b], Browsers)
Zero == [b \in Browsers |-> 0]
NoSummary == [stopped |-> FALSE, counted |-> -1]

Init ==
  /\ running = FALSE /\ kills = 0 /\ stopSeen = FALSE
  /\ rows = Zero /\ unrecorded = Zero /\ records = Zero
  /\ progress = [b \in Browsers |-> FALSE]
  /\ summary = NoSummary
  /\ mpc = "down"
  /\ toCount = {} /\ offset = Zero /\ completed = 0 /\ next = 0
  /\ milestones = <<>> /\ lineEnd = "ended" /\ unreadable = FALSE
  /\ atPoll = 0

-----------------------------------------------------------------------------
(* The run.                                                                *)

Resume ==
  /\ ~running
  /\ running' = TRUE
  /\ UNCHANGED <<kills, rows, unrecorded, records, progress, summary, stopSeen>>

AppendRow(b) ==
  /\ running /\ records[b] + unrecorded[b] < Share[b]
  /\ rows' = [rows EXCEPT ![b] = @ + 1]
  /\ unrecorded' = [unrecorded EXCEPT ![b] = @ + 1]
  /\ UNCHANGED <<running, kills, records, progress, summary, stopSeen>>

RecordIsDurable(b) ==
  /\ unrecorded[b] > 0
  /\ unrecorded' = [unrecorded EXCEPT ![b] = @ - 1]
  /\ records' = [records EXCEPT ![b] = @ + 1]
  /\ UNCHANGED <<running, kills, rows, progress, summary, stopSeen>>

(* The directory it needs may also come from a row of the error journal.   *)
SaveElapsed(b) ==
  /\ running /\ ~progress[b]
  /\ progress' = [progress EXCEPT ![b] = TRUE]
  /\ UNCHANGED <<running, kills, rows, unrecorded, records, summary, stopSeen>>

(* All browsers have closed their batches; the summary replaces the one of *)
(* an earlier attempt, which was there until now.                          *)
EndAttempt ==
  /\ running /\ unrecorded = Zero
  /\ running' = FALSE
  /\ progress' = [b \in Browsers |-> TRUE]
  /\ \E stopped \in BOOLEAN :
       /\ summary' = [stopped |-> stopped, counted |-> TotalOf(records)]
       /\ stopSeen' = (stopSeen \/ stopped)
  /\ UNCHANGED <<kills, rows, unrecorded, records>>

AttemptDies ==
  /\ running /\ kills < MaxKills
  /\ running' = FALSE
  /\ kills' = kills + 1
  /\ unrecorded' = Zero
  /\ UNCHANGED <<rows, records, progress, summary, stopSeen>>

RunStep ==
  \/ Resume \/ EndAttempt \/ AttemptDies
  \/ \E b \in Browsers : AppendRow(b) \/ RecordIsDurable(b) \/ SaveElapsed(b)

-----------------------------------------------------------------------------
(* The monitor.                                                            *)

FromFirst == Milestone
FirstMilestone == Max({0} \cup Range(milestones)) + Milestone

Ended == {"down", "returned", "raised"}

(* main up to its loop.                                                    *)
StartMonitor ==
  /\ mpc \in Ended /\ ~unreadable
  /\ mpc' = "poll"
  /\ next' = FirstMilestone
  /\ UNCHANGED <<toCount, offset, completed, fileVars, atPoll>>

(* json.loads of a line that cannot be parsed.                             *)
StartRaises ==
  /\ mpc \in Ended /\ unreadable
  /\ mpc' = "raised"
  /\ UNCHANGED <<toCount, offset, completed, next, fileVars, atPoll>>

(* What is lost with the process.                                          *)
Leave ==
  /\ toCount' = {}
  /\ offset' = Zero
  /\ completed' = 0
  /\ next' = 0
  /\ atPoll' = 0

(* snapshot: the journals that exist, if there is a progress file too.     *)
JournalFiles == {b \in Browsers : rows[b] > 0}
ProgressFiles == {b \in Browsers : progress[b]}

Glob ==
  /\ mpc = "poll"
  /\ LET both == JournalFiles # {} /\ ProgressFiles # {}
     IN  /\ mpc' = IF both THEN "count" ELSE "check"
         /\ toCount' = IF both THEN JournalFiles ELSE {}
  /\ atPoll' = TotalOf(records)
  /\ UNCHANGED <<offset, completed, next, fileVars>>

(* TerminalCounter.update, a journal at a time.                            *)
OffsetNotKept(b) == offset[b]
OffsetAfter(b) == rows[b]

CountJournal(b) ==
  /\ mpc = "count" /\ b \in toCount
  /\ toCount' = toCount \ {b}
  /\ completed' = completed + (rows[b] - offset[b])
  /\ offset' = [offset EXCEPT ![b] = OffsetAfter(b)]
  /\ UNCHANGED <<mpc, next, fileVars, atPoll>>

(* Reading the elapsed times, which may fail for all four attempts.        *)
ReadProgress ==
  /\ mpc = "count" /\ toCount = {}
  /\ mpc' \in {"decide", "check"}
  /\ UNCHANGED <<toCount, offset, completed, next, fileVars, atPoll>>

BelowMilestone ==
  /\ mpc = "decide" /\ completed < next
  /\ mpc' = "check"
  /\ UNCHANGED <<toCount, offset, completed, next, fileVars, atPoll>>

(* A line after an open one makes both unreadable.                         *)
AppendMilestone ==
  /\ mpc = "decide" /\ completed >= next
  /\ mpc' = "check"
  /\ milestones' = IF lineEnd = "open" THEN Front(milestones) ELSE Append(milestones, completed)
  /\ unreadable' = (unreadable \/ lineEnd # "ended")
  /\ lineEnd' = "ended"
  /\ next' = next + Milestone
  /\ UNCHANGED <<toCount, offset, completed, atPoll>>

Total == TotalOf(Share)

(* benchmark_finished.                                                     *)
SummaryExists == summary # NoSummary
AllTerminal == summary.counted = Total
Finished == summary # NoSummary /\ (summary.stopped \/ summary.counted = Total)

Return ==
  /\ mpc = "check" /\ Finished
  /\ mpc' = "returned"
  /\ Leave
  /\ UNCHANGED fileVars

Sleep ==
  /\ mpc = "check" /\ ~Finished
  /\ mpc' = "poll"
  /\ UNCHANGED <<toCount, offset, completed, next, fileVars, atPoll>>

(* A kill, perhaps in the middle of the write of a milestone line.         *)
MonitorKilled ==
  /\ mpc \notin Ended
  /\ mpc' = "down"
  /\ Leave
  /\ UNCHANGED fileVars

MilestoneTorn ==
  /\ mpc = "decide" /\ completed >= next
  /\ mpc' = "down"
  /\ Leave
  /\ \/ /\ lineEnd = "ended"
        /\ lineEnd' = "open"
        /\ milestones' = Append(milestones, completed)
        /\ UNCHANGED unreadable
     \/ /\ lineEnd' = "torn"
        /\ milestones' = IF lineEnd = "open" THEN Front(milestones) ELSE milestones
        /\ unreadable' = TRUE

PollStep ==
  \/ Glob \/ ReadProgress \/ BelowMilestone \/ AppendMilestone \/ Return \/ Sleep
  \/ \E b \in Browsers : CountJournal(b)

MonitorStep == PollStep \/ StartMonitor \/ StartRaises \/ MonitorKilled \/ MilestoneTorn

Next ==
  \/ RunStep /\ UNCHANGED monitorVars
  \/ MonitorStep /\ UNCHANGED runVars

Spec == Init /\ [][Next]_vars

(* A monitor that is not killed polls on.                                  *)
FairSpec == Spec /\ WF_vars(PollStep /\ UNCHANGED runVars)

-----------------------------------------------------------------------------
(* The count a poll decides by lies between the records there were when it *)
(* began and the lines there are now, although the journals are read one   *)
(* after another while they grow and a monitor may start late or again.    *)
CountBetween ==
  mpc = "decide" => atPoll <= completed /\ completed <= TotalOf(rows)

(* However often the monitor is killed and started again, the n-th line it *)
(* left tells of at least n milestones, and no line of fewer IDs than the  *)
(* one before: there are never more lines than milestones were reached.    *)
MilestoneLines ==
  /\ \A n \in DOMAIN milestones : milestones[n] >= n * Milestone
  /\ \A n \in DOMAIN milestones : n > 1 => milestones[n - 1] <= milestones[n]

(* A monitor leaves a run that has IDs without a record only when some     *)
(* attempt has ended with a stop, not for a kill nor for a batch that was  *)
(* finalized without all its IDs.                                          *)
StaysUntilDone ==
  mpc = "returned" => stopSeen \/ TotalOf(records) = Total

(* A monitor that nobody kills ends once an attempt that nobody resumes    *)
(* has been summarized with a stop, or with every ID recorded.             *)
MonitorEnds ==
  LET over == /\ ~running /\ summary # NoSummary
              /\ summary.stopped \/ summary.counted = Total
  IN  <>[]over => []<>(mpc \in Ended)

=============================================================================
