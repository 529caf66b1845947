---------------------------- MODULE Checkpoint -----------------------------
(***************************************************************************)
(* The two journals and the final file of one batch, down to their lines   *)
(* and newlines: persistence/checkpoint.py (BatchCheckpoint, _read_jsonl),  *)
(* driven as execution/worker.py drives it, with kills that leave any      *)
(* prefix of what was written and not yet synced.  The worker finalizes a  *)
(* batch when it has been through all of its pending IDs without a stop,   *)
(* those that ended in an error included.  Of the error journal only the   *)
(* IDs matter that a row was written for; its lines are those of Journals. *)
(*                                                                         *)
(* A journal is a sequence of pieces: the JSON text of a record, its       *)
(* newline, or the beginning of a record that a kill cut off.  The         *)
(* beginning of a JSON object is never itself valid JSON.                  *)
(***************************************************************************)
EXTENDS Integers, Sequences, FiniteSets, FiniteSetsExt

CONSTANTS
  Ids,           \* IDs of the batch
  SyncInterval,  \* CHECKPOINT_SYNC_INTERVAL
  CutAtNewline,  \* may a kill fall between a record and its newline?
  MaxKills       \* bound: how often the process is killed

ASSUME CheckpointAssumption ==
  /\ IsFiniteSet(Ids)
  /\ SyncInterval \in Nat \ {0}
  /\ CutAtNewline \in BOOLEAN
  /\ MaxKills \in Nat

Kinds == {"success", "notFound"}

Body(i) == <<"body", i>>
Torn(i) == <<"torn", i>>
Newline == <<"newline">>
Pieces == {Body(i) : i \in Ids} \cup {Torn(i) : i \in Ids} \cup {Newline}

VARIABLES
  pc,         \* "down", "half" (one journal loaded), "loaded", "open"
  file,       \* durable: the pieces in each journal
  buffer,     \* written to the handle, not yet synced
  sinceSync,  \* _records_since_sync, of both journals together
  pending,    \* IDs the attempt has still to deal with
  errorLog,   \* durable: IDs that an attempt gave up, with a row in errors.jsonl
  final,      \* durable: the product IDs of the final file
  finalized,  \* durable: does the final file exist?
  kills,
  synced      \* history: IDs whose record a sync has covered

journals == <<file, buffer, sinceSync>>
sealing == <<final, finalized>>
vars == <<pc, journals, pending, errorLog, sealing, kills, synced>>

-----------------------------------------------------------------------------
(* _read_jsonl                                                             *)

(* Where lines begin, and the pieces of the line that begins at n.         *)
LineStarts(s) == {n \in DOMAIN s : n = 1 \/ s[n - 1] = Newline}

LineAt(s, n) ==
  LET ends == {m \in n..Len(s) : s[m] = Newline}
  IN  SubSeq(s, n, IF ends = {} THEN Len(s) ELSE Min(ends) - 1)

(* json.loads accepts one whole record: "Extra data" and a torn record are *)
(* ValueErrors.                                                            *)
Parses(line) == \E i \in Ids : line = <<Body(i)>>

RecordsOf(s) == {i \in Ids : \E n \in LineStarts(s) : LineAt(s, n) = <<Body(i)>>}

(* Only the last non-empty line is repaired, by truncation at its start.   *)
NoRepair(s) == s
DropBadLines(s) == IF \A n \in LineStarts(s) : Parses(LineAt(s, n)) THEN s ELSE <<>>
Repaired(s) ==
  LET nonEmpty == {n \in LineStarts(s) : LineAt(s, n) # <<>>}
  IN  IF nonEmpty # {} /\ ~Parses(LineAt(s, Max(nonEmpty)))
        THEN SubSeq(s, 1, Max(nonEmpty) - 1)
        ELSE s

Recovered == UNION {RecordsOf(file[k]) : k \in Kinds}

-----------------------------------------------------------------------------

Init ==
  /\ pc = "down"
  /\ file = [k \in Kinds |-> <<>>]
  /\ buffer = [k \in Kinds |-> <<>>]
  /\ sinceSync = 0
  /\ pending = {}
  /\ errorLog = {}
  /\ final = {}
  /\ finalized = FALSE
  /\ kills = 0
  /\ synced = {}

(* load_completed, for prepare_batch, which gives the worker the IDs that  *)
(* neither the success journal nor, read after it, the other one holds.    *)
AllOf(ids, s) == ids
Lacking(ids, s) == ids \ RecordsOf(s)

LoadSuccess ==
  /\ pc = "down" /\ ~finalized
  /\ pc' = "half"
  /\ file' = [file EXCEPT !["success"] = Repaired(@)]
  /\ pending' = Lacking(Ids, file["success"])
  /\ UNCHANGED <<buffer, sinceSync, errorLog, sealing, kills, synced>>

LoadNotFound ==
  /\ pc = "half"
  /\ pc' = "loaded"
  /\ file' = [file EXCEPT !["notFound"] = Repaired(@)]
  /\ pending' = Lacking(pending, file["notFound"])
  /\ UNCHANGED <<buffer, sinceSync, errorLog, sealing, kills, synced>>

Open ==
  /\ pc = "loaded"
  /\ pc' = "open"
  /\ UNCHANGED <<journals, pending, errorLog, sealing, kills, synced>>

RecordsIn(s) == {i \in Ids : Body(i) \in {s[n] : n \in DOMAIN s}}
Buffered == UNION {RecordsIn(buffer[k]) : k \in Kinds}

SyncSuccessOnly(buffered) ==
  /\ file' = [file EXCEPT !["success"] = @ \o buffered["success"]]
  /\ buffer' = [buffered EXCEPT !["success"] = <<>>]
  /\ sinceSync' = 0
  /\ synced' = synced \cup UNION {RecordsIn(buffered[k]) : k \in Kinds}

Flush(buffered) ==
  /\ file' = [k \in Kinds |-> file[k] \o buffered[k]]
  /\ buffer' = [k \in Kinds |-> <<>>]
  /\ sinceSync' = 0
  /\ synced' = synced \cup UNION {RecordsIn(buffered[k]) : k \in Kinds}

(* record_success or record_not_found, and the sync _append makes.         *)
Record(i, k) ==
  LET appended == [buffer EXCEPT ![k] = @ \o <<Body(i), Newline>>]
  IN  /\ pc = "open" /\ i \in pending
      /\ pending' = pending \ {i}
      /\ IF sinceSync + 1 >= SyncInterval
           THEN Flush(appended)
           ELSE /\ buffer' = appended
                /\ sinceSync' = sinceSync + 1
                /\ UNCHANGED <<file, synced>>
      /\ UNCHANGED <<pc, errorLog, sealing, kills>>

(* The retries of an ID ended in an error: a row in errors.jsonl is all    *)
(* that is kept of it, and the worker goes on to the next ID.              *)
GiveUp(i) ==
  /\ pc = "open" /\ i \in pending
  /\ pending' = pending \ {i}
  /\ errorLog' = errorLog \cup {i}
  /\ UNCHANGED <<pc, journals, sealing, kills, synced>>

(* finalize, which the worker asks for when it has dealt with every ID and *)
(* seen no stop: sync, read both journals again, replace the final file.   *)
(* Its `finally` closes the handles.  The order of sync and reading        *)
(* matters.                                                                *)
UnsyncedProducts == RecordsOf(file["success"])
FinalProducts == RecordsOf(file["success"] \o buffer["success"])

Finalize ==
  /\ pc = "open" /\ pending = {}
  /\ pc' = "down"
  /\ file' = [k \in Kinds |-> Repaired(file[k] \o buffer[k])]
  /\ buffer' = [k \in Kinds |-> <<>>]
  /\ sinceSync' = 0
  /\ synced' = synced \cup Buffered
  /\ final' = FinalProducts
  /\ finalized' = TRUE
  /\ UNCHANGED <<pending, errorLog, kills>>

(* close, without finalize: a stop or an exception leaves the batch.       *)
Close ==
  /\ pc = "open"
  /\ pc' = "down"
  /\ Flush(buffer)
  /\ pending' = {}
  /\ UNCHANGED <<errorLog, sealing, kills>>

(* What a kill may leave of the unsynced pieces s: a prefix, whose last    *)
(* record may be torn.                                                     *)
Survivors(s) ==
  LET prefixes == {SubSeq(s, 1, n) : n \in 0..Len(s)}
      whole(p) == p = <<>> \/ CutAtNewline \/ p[Len(p)] = Newline
      cuts     == {n \in DOMAIN s : s[n] # Newline}
  IN  {p \in prefixes : whole(p)}
        \cup {SubSeq(s, 1, n - 1) \o <<Torn(s[n][2])>> : n \in cuts}

Kill ==
  /\ pc # "down" /\ kills < MaxKills
  /\ pc' = "down"
  /\ kills' = kills + 1
  /\ \E kept \in [Kinds -> UNION {Survivors(buffer[k]) : k \in Kinds}] :
       /\ \A k \in Kinds : kept[k] \in Survivors(buffer[k])
       /\ file' = [k \in Kinds |-> file[k] \o kept[k]]
  /\ buffer' = [k \in Kinds |-> <<>>]
  /\ sinceSync' = 0
  /\ pending' = {}
  /\ UNCHANGED <<errorLog, sealing, synced>>

(* prepare_batch skips a batch whose final file exists.                    *)
Skipped == pc = "down" /\ finalized /\ UNCHANGED vars

Next ==
  \/ LoadSuccess \/ LoadNotFound \/ Open
  \/ \E i \in Ids, k \in Kinds : Record(i, k)
  \/ \E i \in Ids : GiveUp(i)
  \/ Finalize \/ Close \/ Kill \/ Skipped

Spec == Init /\ [][Next]_vars

-----------------------------------------------------------------------------
(* A record that a sync has covered is read back by every later load, in   *)
(* this attempt and after any number of kills.                             *)
SyncedSurvives == synced \subseteq Recovered

(* Wherever the process was killed, a journal is appended to only when     *)
(* its last line is whole: no record is ever glued to a torn one.          *)
AppendsToWholeLines ==
  pc = "open" =>
    \A k \in Kinds :
      /\ file[k] # <<>> => file[k][Len(file[k])] = Newline
      /\ \A n \in LineStarts(file[k]) : Parses(LineAt(file[k], n))

(* No ID is ever checkpointed twice, in one journal or in both: neither a  *)
(* kill nor a resumed attempt makes the batch count an ID again.           *)
RecordedOnce ==
  \A i \in Ids :
    LET copies(k) == {n \in DOMAIN file[k] : file[k][n] = Body(i)}
    IN  Cardinality(copies("success")) + Cardinality(copies("notFound")) <= 1

(* The final file, which is never rewritten, is what the journals say: it  *)
(* holds each success that can be read back, and an ID is missing only if  *)
(* it is recorded as not found or was given up as an error; no kill, cut   *)
(* or unsynced tail takes one away ("Durable checkpoint journals are the   *)
(* source of truth after restart", persistence/README; "truncate only an   *)
(* incomplete final record", _read_jsonl).                                 *)
FinalHoldsProducts ==
  finalized =>
    /\ final = RecordsOf(file["success"])
    /\ Ids \ final \subseteq RecordsOf(file["notFound"]) \cup errorLog

(* A batch is a run directory with a single shard: what can be read back   *)
(* from its journals only grows, it is sealed only when each ID is there   *)
(* or was given up, and nothing changes after the final file.              *)
Run == INSTANCE ResumableRun
         WITH Shards <- {"batch"},
              AssignedIds <- [s \in {"batch"} |-> Ids],
              terminal <- Recovered,
              journalled <- errorLog,
              sealed <- IF finalized THEN {"batch"} ELSE {}

ImplementsResumableRun == Run!Spec

=============================================================================
