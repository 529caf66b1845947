--------------------------- MODULE Partitioning ----------------------------
(***************************************************************************)
(* From the input file to the work of each browser: load_and_batch_ids     *)
(* (utils/input.py), the selection of batches (execution/orchestration.py) *)
(* and contiguous_assignments and chunks (execution/partitioning.py).      *)
(*                                                                         *)
(* Collector takes a partition for granted, as an assumption on its        *)
(* constants; here the loop that computes it is run on every small input.  *)
(* Manifest runs it once for each attempt.                                 *)
(***************************************************************************)
EXTENDS Integers, SequencesExt

CONSTANTS
  IdLines,       \* product IDs a line may hold
  Junk,          \* a line that is not a number
  MaxLines,      \* bound: lines in the input file
  MaxBatchArg,   \* bound: --start-batch and --end-batch
  BatchSize,     \* INPUT_BATCH_SIZE
  BrowserCounts  \* ALLOWED_BROWSER_COUNTS

ASSUME PartitioningAssumption ==
  /\ Junk \notin IdLines
  /\ MaxLines \in Nat /\ MaxBatchArg \in Nat
  /\ BatchSize \in Nat \ {0}
  /\ BrowserCounts \subseteq Nat \ {0}

VARIABLES
  pc,            \* "select", "assign", "done" or "rejected"
  lines,         \* the input file
  startBatch,    \* --start-batch
  endBatch,      \* --end-batch
  browserCount,  \* --browser-count
  numbered,      \* numbered_ids: <<batch number, ID>> in input order
  offset,        \* IDs given away so far
  assignments    \* one sequence of <<batch number, IDs>> for each browser so far

input == <<lines, startBatch, endBatch, browserCount>>
partitionVars == <<pc, input, numbered, offset, assignments>>

LesserOf(m, n) == IF m < n THEN m ELSE n

(* Slices of `size`, the last one shorter: range(0, len(ids), size).       *)
Chunks(ids, size) ==
  [k \in 1 .. (Len(ids) + size - 1) \div size |->
     SubSeq(ids, (k - 1) * size + 1, LesserOf(k * size, Len(ids)))]

(* The elements of a sequence at some of its places, in their order.       *)
AtPlaces(seq, places) ==
  [k \in 1 .. Cardinality(places) |->
     seq[CHOOSE n \in places : Cardinality({m \in places : m <= n}) = k]]

(* dict.fromkeys over the valid lines of a file: each ID at its first line.*)
Repeated(file) == AtPlaces(file, {n \in DOMAIN file : file[n] # Junk})
UniqueIds(file) ==
  AtPlaces(file, {n \in DOMAIN file :
                    file[n] # Junk /\ \A m \in 1 .. n - 1 : file[m] # file[n]})

Batches(file) == Chunks(UniqueIds(file), BatchSize)

(* The numbers from max(1, start) to min(end, len(batches)).               *)
Selected ==
  LET first == IF startBatch < 1 THEN 1 ELSE startBatch
      last  == LesserOf(endBatch, Len(Batches(lines)))
  IN  [k \in 1 .. (IF first <= last THEN last - first + 1 ELSE 0) |-> first + k - 1]

NumberedIds(file, numbers) ==
  FlattenSeq([k \in DOMAIN numbers |->
                LET batch == Batches(file)[numbers[k]]
                IN  [n \in DOMAIN batch |-> <<numbers[k], batch[n]>>]])

Init ==
  /\ pc = "select"
  /\ lines \in BoundedSeq(IdLines \cup {Junk}, MaxLines)
  /\ startBatch \in 0 .. MaxBatchArg
  /\ endBatch \in 0 .. MaxBatchArg
  /\ browserCount \in BrowserCounts
  /\ numbered = <<>>
  /\ offset = 0
  /\ assignments = <<>>

SelectBatches ==
  /\ pc = "select" /\ Selected # <<>>
  /\ pc' = "assign"
  /\ numbered' = NumberedIds(lines, Selected)
  /\ UNCHANGED <<input, offset, assignments>>

(* parser.error: nothing is selected and the command exits.                *)
RejectSelection ==
  /\ pc = "select" /\ Selected = <<>>
  /\ pc' = "rejected"
  /\ UNCHANGED <<input, numbered, offset, assignments>>

BaseSize == Len(numbered) \div browserCount
Remainder == Len(numbered) % browserCount

(* The IDs of one browser, grouped by batch: a dict keeps the order in     *)
(* which its keys came.                                                    *)
Grouped(part) ==
  LET heads == AtPlaces(part, {n \in DOMAIN part : n = 1 \/ part[n - 1][1] # part[n][1]})
      group(number) ==
        LET own == AtPlaces(part, {n \in DOMAIN part : part[n][1] = number})
        IN  [n \in DOMAIN own |-> own[n][2]]
  IN  [k \in DOMAIN heads |-> <<heads[k][1], group(heads[k][1])>>]

(* The size of the part of browser number index, counted from 0.           *)
RemainderFirst(index) == BaseSize + (IF index = 0 THEN Remainder ELSE 0)
PartSize(index) == BaseSize + (IF index < Remainder THEN 1 ELSE 0)

NotAdvanced(size) == size
NextOffset(size) == offset + size

AssignBrowser ==
  /\ pc = "assign" /\ Len(assignments) < browserCount
  /\ LET size == PartSize(Len(assignments))
         part == SubSeq(numbered, offset + 1, LesserOf(offset + size, Len(numbered)))
     IN  /\ assignments' = Append(assignments, Grouped(part))
         /\ offset' = NextOffset(size)
  /\ UNCHANGED <<pc, input, numbered>>

FinishAssignments ==
  /\ pc = "assign" /\ Len(assignments) = browserCount
  /\ pc' = "done"
  /\ UNCHANGED <<input, numbered, offset, assignments>>

Step == SelectBatches \/ RejectSelection \/ AssignBrowser \/ FinishAssignments

-----------------------------------------------------------------------------
IdsOfShard(shard) == shard[2]

(* Everything one browser was given, in order.                             *)
IdsOfBrowser(work) == FlattenSeq([k \in DOMAIN work |-> IdsOfShard(work[k])])

AssignedInOrder ==
  FlattenSeq([b \in DOMAIN assignments |-> IdsOfBrowser(assignments[b])])

(* The places of IDs: browser, shard of the browser, place in the shard.   *)
Places ==
  {p \in (1 .. browserCount) \X (1 .. MaxLines) \X (1 .. MaxLines) :
     /\ p[2] \in DOMAIN assignments[p[1]]
     /\ p[3] \in DOMAIN IdsOfShard(assignments[p[1]][p[2]])}

IdAt(p) == IdsOfShard(assignments[p[1]][p[2]])[p[3]]

SelectedIds == UNION {ToSet(Batches(lines)[Selected[k]]) : k \in DOMAIN Selected}

(* Each ID of the selected batches is given to exactly one shard, and to   *)
(* one that carries the number of its batch, however often it is in the    *)
(* file and however unevenly the IDs divide: what Collector assumes of its *)
(* constants.  A browser has one shard of a batch at most, so no two       *)
(* workers and no two turns share a checkpoint.                            *)
PartitionOfSelection ==
  pc = "done" =>
    /\ \A i \in SelectedIds : Cardinality({p \in Places : IdAt(p) = i}) = 1
    /\ \A p \in Places : /\ IdAt(p) \in SelectedIds
                          /\ IdAt(p) \in ToSet(Batches(lines)[assignments[p[1]][p[2]][1]])
    /\ \A b \in DOMAIN assignments : \A j, k \in DOMAIN assignments[b] :
         assignments[b][j][1] = assignments[b][k][1] => j = k

(* Browsers get contiguous ranges of the input, one after another, and in  *)
(* the end none has more than one ID more than another.                    *)
BalancedRanges ==
  /\ AssignedInOrder = [n \in 1 .. offset |-> numbered[n][2]]
  /\ pc = "done" =>
       \A b, c \in DOMAIN assignments :
         Len(IdsOfBrowser(assignments[b])) <= Len(IdsOfBrowser(assignments[c])) + 1

=============================================================================
