-------------------------- MODULE CollectorProofs --------------------------
(***************************************************************************)
(* Proofs about Collector for any run: any IDs, any partition of them into *)
(* shards, any number of browsers, kills and instants.                     *)
(***************************************************************************)
EXTENDS Collector, FiniteSetTheorems, TLAPS

-----------------------------------------------------------------------------
(* The shared stop state.                                                  *)

(* stop() returns a stop state.                                            *)
LEMMA StopType ==
  ASSUME NEW s \in StopStates, NEW reason \in Reasons, NEW browser \in Browsers,
         NEW cutoff \in Nat \cup {NoCutoff}
  PROVE  Stop(s, reason, browser, cutoff) \in StopStates
BY DEF Stop, StopStates

LEMMA NotStoppedType == NotStopped \in StopStates
BY DEF NotStopped, StopStates

(* The decisions process_fetch_chunk makes of a call's results leave a     *)
(* stop state behind.                                                      *)
LEMMA DecisionsType ==
  ASSUME TypeOK, NEW b \in Browsers, NEW R \in SUBSET Results, NEW count \in Nat,
         NEW cutoff \in FirstChallenge(R)
  PROVE  /\ cutoff \in Nat \cup {NoCutoff}
         /\ AfterDecisions(b, cutoff, count) \in StopStates
<1>1. cutoff \in Nat \cup {NoCutoff}
  BY DEF FirstChallenge, OfClass, Results
<1>2. stop \in StopStates
  BY DEF TypeOK
<1>3. NoCutoff \in Nat \cup {NoCutoff} /\ {"waf", "repeated_browser_errors"} \subseteq Reasons
  BY DEF Reasons
<1>4. AfterChallenge(b, cutoff) \in StopStates
  BY <1>1, <1>2, <1>3, StopType DEF AfterChallenge
<1>5. Stop(AfterChallenge(b, cutoff), "repeated_browser_errors", b, NoCutoff) \in StopStates
  BY <1>3, <1>4, StopType
<1> QED
  BY <1>1, <1>4, <1>5 DEF AfterDecisions

(* What process_fetch_chunk makes of a call: one classified result for     *)
(* each ID of the chunk, and the two stop decisions.                       *)
LEMMA CallResults ==
  ASSUME TypeOK, NEW b \in Browsers, ProcessFetchChunk(b)
  PROVE  \E R \in SUBSET Results, count \in Nat :
           /\ IdsOf(R) = chunk[b]
           /\ count = errors[b] + Cardinality(IdsOf(OfClass(R, "error")))
           /\ results' = [results EXCEPT ![b] = R]
           /\ errors' = [errors EXCEPT ![b] = count]
           /\ \E cutoff \in FirstChallenge(R) : stop' = AfterDecisions(b, cutoff, count)
<1>1. PICK answer \in [chunk[b] -> Outcomes(b)] :
        LET R == {[id |-> i, class |-> answer[i].class, at |-> answer[i].at] : i \in chunk[b]}
            count == errors[b] + Cardinality({i \in chunk[b] : answer[i].class = "error"})
        IN  /\ results' = [results EXCEPT ![b] = R]
            /\ errors' = [errors EXCEPT ![b] = count]
            /\ \E cutoff \in FirstChallenge(R) : stop' = AfterDecisions(b, cutoff, count)
  BY DEF ProcessFetchChunk
<1> DEFINE R == {[id |-> i, class |-> answer[i].class, at |-> answer[i].at] : i \in chunk[b]}
           count == errors[b] + Cardinality({i \in chunk[b] : answer[i].class = "error"})
<1>2. \A i \in chunk[b] : answer[i].class \in Classes /\ answer[i].at \in Nat
  BY <1>1 DEF Outcomes, Classes, TypeOK
<1>3. R \in SUBSET Results
  BY <1>2 DEF Results, TypeOK
<1>4. count \in Nat
  <2>1. IsFiniteSet({i \in chunk[b] : answer[i].class = "error"})
    BY BoundsAssumption, FS_Subset DEF BoundsAssumption, TypeOK
  <2> QED
    BY <2>1, FS_CardinalityType DEF TypeOK
<1>5. IdsOf(R) = chunk[b]
  <2>1. ASSUME NEW r \in R PROVE r.id \in chunk[b]
    OBVIOUS
  <2>2. ASSUME NEW i \in chunk[b] PROVE \E r \in R : r.id = i
    <3>1. [id |-> i, class |-> answer[i].class, at |-> answer[i].at] \in R
      OBVIOUS
    <3> QED
      BY <3>1
  <2> HIDE DEF R
  <2> QED
    BY <2>1, <2>2 DEF IdsOf
<1>6. IdsOf(OfClass(R, "error")) = {i \in chunk[b] : answer[i].class = "error"}
  <2>1. ASSUME NEW r \in R, r.class = "error"
        PROVE  r.id \in {i \in chunk[b] : answer[i].class = "error"}
    <3>1. PICK i \in chunk[b] :
            r = [id |-> i, class |-> answer[i].class, at |-> answer[i].at]
      OBVIOUS
    <3>2. r.id = i /\ r.class = answer[i].class
      BY <3>1
    <3> QED
      BY <2>1, <3>2
  <2>2. ASSUME NEW i \in chunk[b], answer[i].class = "error"
        PROVE  \E r \in R : r.class = "error" /\ r.id = i
    <3>1. [id |-> i, class |-> answer[i].class, at |-> answer[i].at] \in R
      OBVIOUS
    <3> QED
      BY <2>2, <3>1
  <2> HIDE DEF R
  <2> QED
    BY <2>1, <2>2 DEF IdsOf, OfClass
<1>7. /\ results' = [results EXCEPT ![b] = R]
      /\ errors' = [errors EXCEPT ![b] = count]
      /\ \E cutoff \in FirstChallenge(R) : stop' = AfterDecisions(b, cutoff, count)
  BY <1>1
<1>8. count = errors[b] + Cardinality(IdsOf(OfClass(R, "error")))
  BY <1>6
<1> HIDE DEF R, count
<1> QED
  BY <1>3, <1>4, <1>5, <1>7, <1>8

(* Abandoning a batch keeps the types of what it touches.                  *)
LEMMA AbandonType ==
  ASSUME TypeOK, NEW b \in Browsers, AbandonBatch(b)
  PROVE  /\ stop' \in StopStates
         /\ unsynced' \in [Browsers -> SUBSET Ids]
         /\ todo' \in [Browsers -> SUBSET Ids]
         /\ terminal' \subseteq Ids
<1>1. NoCutoff \in Nat \cup {NoCutoff} /\ "browser_exception" \in Reasons
  BY DEF Reasons
<1>2. stop' \in StopStates
  BY <1>1, StopType DEF AbandonBatch, TypeOK
<1> QED
  BY <1>2 DEF AbandonBatch, TypeOK

-----------------------------------------------------------------------------
(* Type correctness.                                                       *)

LEMMA ShardType ==
  ASSUME TypeOK, NEW b \in Browsers, position[b] <= Len(Assignments[b])
  PROVE  Shard(b) \in Shards /\ AssignedIds[Shard(b)] \subseteq Ids
<1>1. Assignments[b] \in Seq(Shards)
  BY PartitionAssumption DEF PartitionAssumption
<1>2. position[b] \in 1 .. Len(Assignments[b])
  BY <1>1 DEF TypeOK
<1>3. Shard(b) \in Shards
  BY <1>1, <1>2 DEF Shard
<1>4. AssignedIds \in [Shards -> SUBSET Ids]
  BY PartitionAssumption DEF PartitionAssumption
<1> QED
  BY <1>3, <1>4

(* Steps of run_browser outside a Selenium call.                           *)
LEMMA LoopStepType ==
  ASSUME TypeOK, NEW b \in Browsers,
         \/ OpenBrowser(b) \/ OpenFails(b) \/ LeaveLoop(b) \/ SkipFinalized(b)
         \/ OpenBatch(b) \/ BatchExhausted(b) \/ StopBeforeCall(b)
         \/ FinalizeBatch(b) \/ LeaveBatchResumable(b) \/ Finish(b)
  PROVE  TypeOK'
<1> USE DEF TypeOK, GoTo, PCs, InBatch, Ended, process, fetches, batches, workers, journals
<1>1. CASE OpenBrowser(b)
  BY <1>1 DEF OpenBrowser
<1>2. CASE OpenFails(b)
  <2>1. stop' \in StopStates
    BY <1>2, StopType DEF OpenFails, Reasons
  <2> QED
    BY <1>2, <2>1 DEF OpenFails
<1>3. CASE LeaveLoop(b)
  BY <1>3 DEF LeaveLoop
<1>4. CASE SkipFinalized(b)
  BY <1>4 DEF SkipFinalized, NextPosition
<1>5. CASE OpenBatch(b)
  <2>1. PendingIds(Shard(b)) \subseteq Ids
    BY <1>5, ShardType DEF OpenBatch, PendingIds
  <2> QED
    BY <1>5, <2>1 DEF OpenBatch
<1>6. CASE BatchExhausted(b)
  BY <1>6 DEF BatchExhausted
<1>7. CASE StopBeforeCall(b)
  BY <1>7 DEF StopBeforeCall
<1>8. CASE FinalizeBatch(b) \/ LeaveBatchResumable(b)
  <2>1. CloseBatch(b) /\ (final' = final \cup {Shard(b)} \/ final' = final)
    BY <1>8 DEF FinalizeBatch, LeaveBatchResumable
  <2>2. Shard(b) \in Shards
    BY <2>1, ShardType DEF CloseBatch
  <2>3. terminal' \subseteq Ids /\ unsynced' \in [Browsers -> SUBSET Ids]
    BY <2>1 DEF CloseBatch
  <2>4. pc' \in [Browsers -> PCs] /\ position' \in [Browsers -> Nat \ {0}]
    BY <2>1 DEF CloseBatch
  <2>5. \A c \in Browsers : pc'[c] \in InBatch => position'[c] <= Len(Assignments[c])
    BY <2>1 DEF CloseBatch
  <2> QED
    BY <2>1, <2>2, <2>3, <2>4, <2>5 DEF CloseBatch
<1>9. CASE Finish(b)
  BY <1>9 DEF Finish
<1> QED
  BY <1>1, <1>2, <1>3, <1>4, <1>5, <1>6, <1>7, <1>8, <1>9

(* Steps of one Selenium call and of persisting what it returned.          *)
LEMMA CallStepType ==
  ASSUME TypeOK, NEW b \in Browsers,
         \/ StartCall(b) \/ ProcessFetchChunk(b) \/ CallRaises(b)
         \/ AppendErrorJournal(b) \/ ReadCutoff(b) \/ AppendTerminalMetrics(b)
         \/ RecordTerminal(b) \/ EndCall(b) \/ SaveElapsedRaises(b)
  PROVE  TypeOK'
<1> USE DEF TypeOK, GoTo, PCs, InBatch, Ended, process, fetches, batches, workers, journals
<1>1. CASE StartCall(b)
  <2>1. PICK c \in Chunks(todo[b]) :
          /\ chunk' = [chunk EXCEPT ![b] = c]
          /\ todo' = [todo EXCEPT ![b] = @ \ c]
    BY <1>1 DEF StartCall
  <2>2. c \subseteq Ids
    BY <2>1 DEF Chunks
  <2> QED
    BY <1>1, <2>1, <2>2 DEF StartCall
<1>2. CASE ProcessFetchChunk(b)
  <2>1. PICK R \in SUBSET Results, count \in Nat :
          /\ results' = [results EXCEPT ![b] = R]
          /\ errors' = [errors EXCEPT ![b] = count]
          /\ \E cutoff \in FirstChallenge(R) : stop' = AfterDecisions(b, cutoff, count)
    <3> HIDE DEF TypeOK
    <3> QED
      BY <1>2, CallResults
  <2>2. PICK cutoff \in FirstChallenge(R) : stop' = AfterDecisions(b, cutoff, count)
    BY <2>1
  <2>3. stop' \in StopStates
    BY <2>2, DecisionsType
  <2> QED
    BY <1>2, <2>1, <2>3 DEF ProcessFetchChunk
<1>3. CASE CallRaises(b)
  BY <1>3, AbandonType DEF CallRaises
<1>4. CASE AppendErrorJournal(b)
  <2>1. ErrorIds(b) \subseteq Ids
    BY DEF ErrorIds, IdsOf, OfClass, Results
  <2> QED
    BY <1>4, <2>1 DEF AppendErrorJournal
<1>5. CASE ReadCutoff(b)
  <2>1. IdsOf({r \in results[b] : TerminalBeforeCutoff(r, stop.cutoff)}) \subseteq Ids
    BY DEF IdsOf, Results
  <2> QED
    BY <1>5, <2>1 DEF ReadCutoff
<1>6. CASE AppendTerminalMetrics(b)
  BY <1>6 DEF AppendTerminalMetrics
<1>7. CASE RecordTerminal(b)
  <2>1. PICK i \in safe[b] :
          LET appended == unsynced[b] \cup {i}
              syncs == Cardinality(appended) >= SyncInterval
          IN  /\ safe' = [safe EXCEPT ![b] = @ \ {i}]
              /\ unsynced' = [unsynced EXCEPT ![b] = IF syncs THEN {} ELSE appended]
              /\ terminal' = IF syncs THEN terminal \cup appended ELSE terminal
    BY <1>7 DEF RecordTerminal
  <2>2. unsynced[b] \cup {i} \subseteq Ids
    OBVIOUS
  <2>3. unsynced' \in [Browsers -> SUBSET Ids] /\ safe' \in [Browsers -> SUBSET Ids]
    BY <2>1, <2>2
  <2>4. terminal' \subseteq Ids
    BY <2>1, <2>2
  <2> QED
    BY <1>7, <2>3, <2>4 DEF RecordTerminal
<1>8. CASE EndCall(b)
  <2>1. complete' \in [Browsers -> BOOLEAN]
    BY <1>8, Zenon DEF EndCall, StopSeen, StopStates
  <2> QED
    BY <1>8, <2>1 DEF EndCall
<1>9. CASE SaveElapsedRaises(b)
  BY <1>9, AbandonType DEF SaveElapsedRaises
<1> QED
  BY <1>1, <1>2, <1>3, <1>4, <1>5, <1>6, <1>7, <1>8, <1>9

(* Steps of the process: the join, the summary, a kill, a rerun, time.     *)
LEMMA ProcessStepType ==
  ASSUME TypeOK, WriteSummary \/ JoinRaises \/ Crash \/ Resume \/ Tick
  PROVE  TypeOK'
<1> USE DEF TypeOK, PCs, InBatch, Ended, process, fetches, batches, workers, journals
<1>1. ASSUME Forget,
             /\ crashes' \in Nat
             /\ terminal' \subseteq Ids /\ metrics' \subseteq Ids /\ errorLog' \subseteq Ids
             /\ final' \subseteq Shards /\ metricsDir' \subseteq Browsers
             /\ summary' \in [written : BOOLEAN, reason : Reasons \cup {"none"},
                              allTerminal : BOOLEAN]
      PROVE  TypeOK'
  BY <1>1, NotStoppedType DEF Forget
<1>2. CASE WriteSummary
  <2>1. summary' \in [written : BOOLEAN, reason : Reasons \cup {"none"}, allTerminal : BOOLEAN]
    BY <1>2 DEF WriteSummary, StopStates
  <2> QED
    BY <1>1, <1>2, <2>1 DEF WriteSummary
<1>3. CASE JoinRaises
  BY <1>1, <1>3 DEF JoinRaises
<1>4. CASE Crash
  <2>1. \A b \in Browsers : ErrorIds(b) \subseteq Ids
    BY DEF ErrorIds, IdsOf, OfClass, Results
  <2>2. terminal' \subseteq Ids /\ metrics' \subseteq Ids /\ errorLog' \subseteq Ids
    BY <1>4, <2>1 DEF Crash
  <2>3. metricsDir' \subseteq Browsers
    BY <1>4 DEF Crash
  <2> QED
    BY <1>1, <1>4, <2>2, <2>3 DEF Crash
<1>5. CASE Resume
  BY <1>5 DEF Resume
<1>6. CASE Tick
  BY <1>6 DEF Tick
<1> QED
  BY <1>2, <1>3, <1>4, <1>5, <1>6

LEMMA TypeStep ==
  ASSUME TypeOK, [Next]_vars
  PROVE  TypeOK'
<1>1. ASSUME NEW b \in Browsers, WorkerStep(b) PROVE TypeOK'
  BY <1>1, LoopStepType, CallStepType DEF WorkerStep
<1>2. CASE UNCHANGED vars
  BY <1>2 DEF TypeOK, vars, process, fetches, batches, workers, journals
<1> QED
  BY <1>1, <1>2, ProcessStepType DEF Next

(* Every variable keeps its type, and an open batch has a shard.           *)
THEOREM TypeCorrect == Spec => []TypeOK
<1>1. Init => TypeOK
  BY NotStoppedType DEF Init, TypeOK, NoSummary, PCs, InBatch
<1> QED
  BY <1>1, TypeStep, PTL DEF Spec

-----------------------------------------------------------------------------
(* The stop decision only grows.                                           *)

(* A stop state whose event, reason and cutoff agree.                      *)
Known(s) ==
  /\ s \in StopStates
  /\ s.event <=> s.reason # "none"
  /\ s.cutoff # NoCutoff => s.event

(* t is s, or what s has become after some calls of stop().                *)
Onward(s, t) ==
  /\ Known(t)
  /\ s.event => t.event /\ t.reason = s.reason /\ t.source = s.source
  /\ s.cutoff # NoCutoff => t.cutoff # NoCutoff /\ t.cutoff <= s.cutoff

(* stop() sets the event, keeps the first reason, and its cutoff is the    *)
(* earlier of the old one and the new one.                                 *)
LEMMA StopGrows ==
  ASSUME NEW s, Known(s), NEW reason \in Reasons, NEW browser \in Browsers,
         NEW cutoff \in Nat \cup {NoCutoff}
  PROVE  LET t == Stop(s, reason, browser, cutoff)
         IN  /\ Onward(s, t)
             /\ t.event
             /\ cutoff # NoCutoff => t.cutoff # NoCutoff /\ t.cutoff <= cutoff
<1> DEFINE t == Stop(s, reason, browser, cutoff)
<1>1. t \in StopStates
  BY StopType DEF Known
<1>2. t.event /\ t.reason # "none" /\ (s.event => t.reason = s.reason /\ t.source = s.source)
  BY DEF Stop, StopStates, Reasons, Known
<1>3. CASE s.reason = "none"
  <2>1. t = [event |-> TRUE, reason |-> reason, source |-> browser, cutoff |-> cutoff]
    BY <1>3 DEF Stop
  <2>2. s.cutoff = NoCutoff /\ ~s.event
    BY <1>3 DEF Known
  <2>3. t.event /\ t.reason = reason /\ t.cutoff = cutoff
    BY <2>1
  <2> QED
    BY <1>1, <1>2, <2>2, <2>3 DEF Onward, Known, NoCutoff
<1>4. CASE s.reason # "none"
  <2> DEFINE isEarlier == cutoff # NoCutoff /\ (s.cutoff = NoCutoff \/ cutoff < s.cutoff)
  <2>1. t.cutoff = IF isEarlier THEN cutoff ELSE s.cutoff
    BY <1>4 DEF Stop, StopStates, Known
  <2>2. s.cutoff \in Nat \cup {NoCutoff}
    BY DEF Known, StopStates
  <2>3. s.cutoff # NoCutoff => t.cutoff # NoCutoff /\ t.cutoff <= s.cutoff
    BY <2>1, <2>2 DEF NoCutoff
  <2>4. cutoff # NoCutoff => t.cutoff # NoCutoff /\ t.cutoff <= cutoff
    BY <2>1, <2>2 DEF NoCutoff
  <2> QED
    BY <1>1, <1>2, <2>3, <2>4 DEF Onward, Known
<1> QED
  BY <1>3, <1>4

LEMMA OnwardTransitive ==
  ASSUME NEW s, NEW t, NEW u, Known(s), Onward(s, t), Onward(t, u)
  PROVE  Onward(s, u)
BY DEF Onward, Known, StopStates, NoCutoff

(* The decisions of process_fetch_chunk report every challenge of the call *)
(* and a count that has reached the limit.                                 *)
LEMMA DecisionsGrow ==
  ASSUME Known(stop), NEW b \in Browsers, NEW R \in SUBSET Results, NEW count \in Nat,
         NEW cutoff \in FirstChallenge(R)
  PROVE  LET t == AfterDecisions(b, cutoff, count)
         IN  /\ Onward(stop, t)
             /\ \A r \in OfClass(R, "waf") : t.cutoff # NoCutoff /\ t.cutoff <= r.at
             /\ count >= MaxBrowserErrors => t.event
<1> DEFINE c == AfterChallenge(b, cutoff)
           t == AfterDecisions(b, cutoff, count)
<1>1. {"waf", "repeated_browser_errors"} \subseteq Reasons /\ NoCutoff \in Nat \cup {NoCutoff}
  BY DEF Reasons
<1>2. \A r \in R : r.at \in Nat
  BY DEF Results
<1>3. cutoff \in Nat \cup {NoCutoff}
  BY <1>2 DEF FirstChallenge, OfClass
<1>4. \A r \in OfClass(R, "waf") : cutoff # NoCutoff /\ cutoff <= r.at
  BY <1>2 DEF FirstChallenge, OfClass, NoCutoff
<1>5. Onward(stop, stop)
  BY DEF Onward, Known, StopStates, NoCutoff
<1>6. Onward(stop, c) /\ (cutoff # NoCutoff => c.cutoff # NoCutoff /\ c.cutoff <= cutoff)
  BY <1>1, <1>3, <1>5, StopGrows DEF AfterChallenge
<1>7. Onward(c, t) /\ Known(c) /\ (count >= MaxBrowserErrors => t.event)
  <2>1. Known(c) /\ Onward(c, c)
    BY <1>6 DEF Onward, Known, StopStates, NoCutoff
  <2>2. /\ Onward(c, Stop(c, "repeated_browser_errors", b, NoCutoff))
        /\ Stop(c, "repeated_browser_errors", b, NoCutoff).event
    BY <1>1, <2>1, StopGrows
  <2> QED
    BY <2>1, <2>2 DEF AfterDecisions
<1>8. Onward(stop, t)
  BY <1>6, <1>7, OnwardTransitive
<1>9. ASSUME NEW r \in OfClass(R, "waf")
      PROVE  t.cutoff # NoCutoff /\ t.cutoff <= r.at
  <2>1. r.at \in Nat /\ cutoff # NoCutoff /\ cutoff <= r.at
    BY <1>2, <1>4 DEF OfClass
  <2>2. c.cutoff # NoCutoff /\ c.cutoff <= cutoff
    BY <1>6, <2>1
  <2>3. t.cutoff # NoCutoff /\ t.cutoff <= c.cutoff
    BY <1>7, <2>2 DEF Onward
  <2>4. c.cutoff \in Int /\ t.cutoff \in Int /\ cutoff \in Int
    BY <1>3, <1>7 DEF Onward, Known, StopStates, NoCutoff
  <2> QED
    BY <2>1, <2>2, <2>3, <2>4
<1> QED
  BY <1>7, <1>8, <1>9

-----------------------------------------------------------------------------
(* What one worker's step leaves alone.                                    *)

(* Nothing another worker owns in memory changes.                          *)
Untouched(c) ==
  /\ pc'[c] = pc[c]
  /\ position'[c] = position[c] /\ todo'[c] = todo[c] /\ complete'[c] = complete[c]
  /\ chunk'[c] = chunk[c] /\ results'[c] = results[c] /\ safe'[c] = safe[c]
  /\ unsynced'[c] = unsynced[c] /\ errors'[c] = errors[c]

(* Journals and final files only grow, and only the acting worker's own    *)
(* batch can be finalized.                                                 *)
FilesGrow(b) ==
  /\ terminal \subseteq terminal' /\ metrics \subseteq metrics' /\ errorLog \subseteq errorLog'
  /\ final' = final \/ (pc[b] = "finalize" /\ final' = final \cup {Shard(b)})

LEMMA WorkerFrame ==
  ASSUME TypeOK, NEW b \in Browsers, WorkerStep(b)
  PROVE  /\ \A c \in Browsers \ {b} : Untouched(c)
         /\ FilesGrow(b)
<1> USE DEF TypeOK, GoTo, process, fetches, batches, workers, journals, Untouched, FilesGrow
<1>1. CASE OpenBrowser(b)
  BY <1>1 DEF OpenBrowser
<1>2. CASE OpenFails(b)
  BY <1>2 DEF OpenFails
<1>3. CASE LeaveLoop(b)
  BY <1>3 DEF LeaveLoop
<1>4. CASE SkipFinalized(b)
  BY <1>4 DEF SkipFinalized, NextPosition
<1>5. CASE OpenBatch(b)
  BY <1>5 DEF OpenBatch
<1>6. CASE BatchExhausted(b)
  BY <1>6 DEF BatchExhausted
<1>7. CASE StopBeforeCall(b)
  BY <1>7 DEF StopBeforeCall
<1>8. CASE StartCall(b)
  BY <1>8 DEF StartCall
<1>9. CASE ProcessFetchChunk(b)
  BY <1>9 DEF ProcessFetchChunk
<1>10. CASE CallRaises(b)
  BY <1>10 DEF CallRaises, AbandonBatch
<1>11. CASE AppendErrorJournal(b)
  BY <1>11 DEF AppendErrorJournal
<1>12. CASE ReadCutoff(b)
  BY <1>12 DEF ReadCutoff
<1>13. CASE AppendTerminalMetrics(b)
  BY <1>13 DEF AppendTerminalMetrics
<1>14. CASE RecordTerminal(b)
  BY <1>14 DEF RecordTerminal
<1>15. CASE EndCall(b)
  BY <1>15 DEF EndCall
<1>16. CASE SaveElapsedRaises(b)
  BY <1>16 DEF SaveElapsedRaises, AbandonBatch
<1>17. CASE FinalizeBatch(b)
  BY <1>17 DEF FinalizeBatch, CloseBatch
<1>18. CASE LeaveBatchResumable(b)
  BY <1>18 DEF LeaveBatchResumable, CloseBatch
<1>19. CASE Finish(b)
  BY <1>19 DEF Finish
<1> QED
  BY <1>1, <1>2, <1>3, <1>4, <1>5, <1>6, <1>7, <1>8, <1>9, <1>10,
     <1>11, <1>12, <1>13, <1>14, <1>15, <1>16, <1>17, <1>18, <1>19 DEF WorkerStep

LEMMA StopFrame ==
  ASSUME TypeOK, Known(stop), NEW b \in Browsers, WorkerStep(b)
  PROVE  Onward(stop, stop')
<1>1. {"browser_exception"} \subseteq Reasons /\ NoCutoff \in Nat \cup {NoCutoff}
  BY DEF Reasons
<1>2. Onward(stop, Stop(stop, "browser_exception", b, NoCutoff))
  BY <1>1, StopGrows
<1>3. CASE OpenFails(b)
  BY <1>2, <1>3 DEF OpenFails
<1>4. CASE CallRaises(b) \/ SaveElapsedRaises(b)
  BY <1>2, <1>4 DEF CallRaises, SaveElapsedRaises, AbandonBatch
<1>5. CASE ProcessFetchChunk(b)
  BY <1>5, CallResults, DecisionsGrow
<1>6. CASE stop' = stop
  BY <1>6 DEF Onward, Known, StopStates, NoCutoff
<1> QED
  BY <1>3, <1>4, <1>5, <1>6
     DEF WorkerStep, OpenBrowser, LeaveLoop, SkipFinalized, OpenBatch, BatchExhausted,
         StopBeforeCall, StartCall, AppendErrorJournal, ReadCutoff, AppendTerminalMetrics,
         RecordTerminal, EndCall, FinalizeBatch, LeaveBatchResumable, CloseBatch, Finish

-----------------------------------------------------------------------------
(* The inductive invariant, one worker's step at a time.                   *)

LEMMA ShardsDiffer ==
  ASSUME TypeOK, NEW b \in Browsers, NEW c \in Browsers, b # c,
         pc[b] \in InBatch, pc[c] \in InBatch
  PROVE  Shard(b) # Shard(c)
<1>1. \A d \in {b, c} : position[d] \in 1 .. Len(Assignments[d])
  <2>1. \A d \in {b, c} : Assignments[d] \in Seq(Shards)
    BY PartitionAssumption DEF PartitionAssumption
  <2> QED
    BY <2>1 DEF TypeOK
<1> QED
  BY <1>1, PartitionAssumption DEF PartitionAssumption, Shard

(* A step of one worker keeps what the invariant says of another.          *)
LEMMA OthersKeep ==
  ASSUME TypeOK, RunInv, NEW b \in Browsers, WorkerStep(b), NEW c \in Browsers, c # b
  PROVE  WorkerInv(c)'
<1>1. Untouched(c) /\ FilesGrow(b)
  BY WorkerFrame
<1>2. stop.event => stop'.event
  BY StopFrame DEF RunInv, StopKnown, Known, Onward, TypeOK
<1>3. Shard(c)' = Shard(c)
  BY <1>1 DEF Untouched, Shard
<1>4. Owns(c)'
  <2>1. pc[c] \in InBatch => Shard(c) \notin final'
    BY <1>1, ShardsDiffer DEF FilesGrow, InBatch, RunInv, WorkerInv, Owns
  <2> QED
    BY <1>1, <1>3, <2>1 DEF RunInv, WorkerInv, Owns, Untouched
<1>5. BatchAccounted(c)'
  <2>1. Accounted(c) \subseteq Accounted(c)'
    BY <1>1 DEF Accounted, Untouched, FilesGrow
  <2>2. ErrorIds(c)' = ErrorIds(c)
    BY <1>1 DEF ErrorIds, Untouched
  <2>3. errorLog \subseteq errorLog'
    BY <1>1 DEF FilesGrow
  <2>4. BatchAccounted(c)
    BY DEF RunInv, WorkerInv
  <2> QED
    BY <1>1, <1>2, <1>3, <2>1, <2>2, <2>3, <2>4 DEF BatchAccounted, Untouched
<1>6. pc'[c] = "record" => safe'[c] \subseteq metrics'
  BY <1>1 DEF RunInv, WorkerInv, Untouched, FilesGrow
<1> QED
  BY <1>4, <1>5, <1>6 DEF WorkerInv

(* A step of run_browser outside a Selenium call keeps the invariant of    *)
(* the worker that makes it.                                               *)
LEMMA LoopStepKeeps ==
  ASSUME TypeOK, RunInv, NEW b \in Browsers,
         \/ OpenBrowser(b) \/ OpenFails(b) \/ LeaveLoop(b) \/ SkipFinalized(b)
         \/ OpenBatch(b) \/ BatchExhausted(b) \/ StopBeforeCall(b)
         \/ FinalizeBatch(b) \/ LeaveBatchResumable(b) \/ Finish(b)
  PROVE  WorkerInv(b)'
<1> USE DEF TypeOK, GoTo, process, fetches, batches, workers, journals, InBatch, Ended
<1>1. WorkerInv(b)
  BY DEF RunInv
<1> USE <1>1 DEF WorkerInv, Owns, BatchAccounted, Accounted
<1>2. CASE OpenBrowser(b)
  BY <1>2 DEF OpenBrowser
<1>3. CASE OpenFails(b)
  BY <1>3 DEF OpenFails
<1>4. CASE LeaveLoop(b)
  BY <1>4 DEF LeaveLoop
<1>5. CASE SkipFinalized(b)
  BY <1>5 DEF SkipFinalized
<1>6. CASE OpenBatch(b)
  <2>1. Shard(b)' = Shard(b) /\ todo'[b] = AssignedIds[Shard(b)] \ terminal
    BY <1>6 DEF OpenBatch, Shard, PendingIds
  <2>2. IdsOf(results'[b]) = {}
    BY <1>6 DEF OpenBatch, IdsOf
  <2> QED
    BY <1>6, <2>1, <2>2 DEF OpenBatch, Finalized
<1>7. CASE BatchExhausted(b)
  BY <1>7 DEF BatchExhausted, Shard
<1>8. CASE StopBeforeCall(b)
  BY <1>8 DEF StopBeforeCall, Shard
<1>9. CASE FinalizeBatch(b) \/ LeaveBatchResumable(b)
  <2>1. pc[b] = "finalize" /\ pc'[b] = "shard" /\ unsynced'[b] = {}
    BY <1>9 DEF FinalizeBatch, LeaveBatchResumable, CloseBatch
  <2>2. chunk' = chunk /\ results' = results /\ safe' = safe
    BY <1>9 DEF FinalizeBatch, LeaveBatchResumable, CloseBatch
  <2> QED
    BY <2>1, <2>2
<1>10. CASE Finish(b)
  BY <1>10 DEF Finish
<1> QED
  BY <1>2, <1>3, <1>4, <1>5, <1>6, <1>7, <1>8, <1>9, <1>10

(* So does a step of a Selenium call.                                      *)
LEMMA CallStepKeeps ==
  ASSUME TypeOK, RunInv, NEW b \in Browsers,
         \/ StartCall(b) \/ ProcessFetchChunk(b) \/ CallRaises(b)
         \/ AppendErrorJournal(b) \/ ReadCutoff(b) \/ AppendTerminalMetrics(b)
         \/ RecordTerminal(b) \/ EndCall(b) \/ SaveElapsedRaises(b)
  PROVE  WorkerInv(b)'
<1> USE DEF TypeOK, GoTo, process, fetches, batches, workers, journals, InBatch, Ended
<1>1. WorkerInv(b)
  BY DEF RunInv
<1>2. IdsOf({}) = {}
  BY DEF IdsOf
<1> USE <1>1 DEF WorkerInv, Owns, BatchAccounted, Accounted
<1>3. CASE StartCall(b)
  <2>1. PICK c \in Chunks(todo[b]) :
          /\ chunk' = [chunk EXCEPT ![b] = c]
          /\ todo' = [todo EXCEPT ![b] = @ \ c]
    BY <1>3 DEF StartCall
  <2>2. c \subseteq todo[b]
    BY DEF Chunks
  <2> QED
    BY <1>3, <2>1, <2>2 DEF StartCall, Shard
<1>4. CASE ProcessFetchChunk(b)
  <2>1. PICK R \in SUBSET Results : IdsOf(R) = chunk[b] /\ results' = [results EXCEPT ![b] = R]
    <3> HIDE DEF TypeOK
    <3> QED
      BY <1>4, CallResults
  <2>2. pc[b] = "fetch" /\ pc'[b] = "journal" /\ chunk'[b] = {} /\ results'[b] = R
    BY <1>4, <2>1 DEF ProcessFetchChunk
  <2>3. IdsOf(results'[b]) = chunk[b]
    BY <2>1, <2>2
  <2>4. /\ safe' = safe /\ unsynced' = unsynced /\ todo' = todo /\ complete' = complete
        /\ terminal' = terminal /\ errorLog' = errorLog /\ final' = final
        /\ Shard(b)' = Shard(b)
    BY <1>4 DEF ProcessFetchChunk, Shard
  <2> QED
    BY <2>2, <2>3, <2>4
<1>5. CASE CallRaises(b)
  BY <1>5 DEF CallRaises, AbandonBatch
<1>6. CASE AppendErrorJournal(b)
  BY <1>6 DEF AppendErrorJournal, Shard, ErrorIds
<1>7. CASE ReadCutoff(b)
  <2> DEFINE S == IdsOf({r \in results[b] : TerminalBeforeCutoff(r, stop.cutoff)})
  <2>1. S \subseteq IdsOf(results[b])
    BY DEF IdsOf
  <2>2. ~stop.event => IdsOf(results[b]) \subseteq S \cup ErrorIds(b)
    <3> SUFFICES ASSUME ~stop.event, NEW r \in results[b]
                 PROVE  r.id \in S \cup ErrorIds(b)
      BY DEF IdsOf
    <3>1. stop.cutoff = NoCutoff
      BY DEF RunInv, StopKnown
    <3>2. r.class # "waf"
      BY <3>1 DEF RunInv, CutoffCoversChallenges, OfClass
    <3>3. r.class \in {"terminal", "error"}
      BY <3>2 DEF Results, Classes
    <3>4. CASE r.class = "terminal"
      BY <3>1, <3>4 DEF IdsOf, TerminalBeforeCutoff
    <3>5. CASE r.class = "error"
      BY <3>5 DEF ErrorIds, IdsOf, OfClass
    <3> QED
      BY <3>3, <3>4, <3>5
  <2> HIDE DEF S
  <2>3. safe' = [safe EXCEPT ![b] = S]
    BY <1>7 DEF ReadCutoff, S
  <2>4. pc[b] = "cutoff" /\ pc'[b] = "metrics" /\ safe'[b] = S
    BY <1>7, <2>3 DEF ReadCutoff
  <2>5. /\ results' = results /\ chunk' = chunk /\ unsynced' = unsynced /\ todo' = todo
        /\ complete' = complete /\ terminal' = terminal /\ errorLog' = errorLog
        /\ final' = final /\ stop' = stop /\ Shard(b)' = Shard(b)
    BY <1>7 DEF ReadCutoff, Shard
  <2>6. ~stop.event => AssignedIds[Shard(b)] \subseteq Accounted(b) \cup S
    BY <2>2, <2>4
  <2>7. Owns(b)'
    BY <2>1, <2>4, <2>5
  <2> QED
    BY <2>4, <2>5, <2>6, <2>7
<1>8. CASE AppendTerminalMetrics(b)
  BY <1>8 DEF AppendTerminalMetrics, Shard
<1>9. CASE RecordTerminal(b)
  <2>1. PICK i \in safe[b] :
          LET appended == unsynced[b] \cup {i}
              syncs == Cardinality(appended) >= SyncInterval
          IN  /\ safe' = [safe EXCEPT ![b] = @ \ {i}]
              /\ unsynced' = [unsynced EXCEPT ![b] = IF syncs THEN {} ELSE appended]
              /\ terminal' = IF syncs THEN terminal \cup appended ELSE terminal
    BY <1>9 DEF RecordTerminal
  <2>2. safe'[b] = safe[b] \ {i} /\ unsynced'[b] \subseteq unsynced[b] \cup {i}
    BY <2>1
  <2>3. terminal' \cup unsynced'[b] = terminal \cup unsynced[b] \cup {i}
    BY <2>1
  <2> QED
    BY <1>9, <2>2, <2>3 DEF RecordTerminal, Shard
<1>10. CASE EndCall(b)
  BY <1>2, <1>10 DEF EndCall, Shard, StopSeen
<1>11. CASE SaveElapsedRaises(b)
  BY <1>11 DEF SaveElapsedRaises, AbandonBatch
<1> QED
  BY <1>3, <1>4, <1>5, <1>6, <1>7, <1>8, <1>9, <1>10, <1>11

LEMMA RunInvKnown == ASSUME TypeOK, RunInv PROVE Known(stop)
BY DEF TypeOK, RunInv, StopKnown, Known

LEMMA ChallengesStayCovered ==
  ASSUME TypeOK, RunInv, NEW b \in Browsers, WorkerStep(b)
  PROVE  CutoffCoversChallenges'
<1> SUFFICES ASSUME NEW c \in Browsers, NEW r \in OfClass(results'[c], "waf")
             PROVE  stop'.cutoff # NoCutoff /\ stop'.cutoff <= r.at
  BY DEF CutoffCoversChallenges, OfClass
<1>1. Onward(stop, stop')
  BY StopFrame, RunInvKnown
<1>2. ASSUME r \in OfClass(results[c], "waf")
      PROVE  stop'.cutoff # NoCutoff /\ stop'.cutoff <= r.at
  <2>1. stop.cutoff # NoCutoff /\ stop.cutoff <= r.at
    BY <1>2 DEF RunInv, CutoffCoversChallenges
  <2>2. stop'.cutoff # NoCutoff /\ stop'.cutoff <= stop.cutoff
    BY <1>1, <2>1 DEF Onward
  <2>3. r.at \in Nat
    BY <1>2 DEF TypeOK, Results, OfClass
  <2>4. stop.cutoff \in Int /\ stop'.cutoff \in Int
    BY <1>1 DEF Onward, Known, StopStates, TypeOK, NoCutoff
  <2> QED
    BY <2>1, <2>2, <2>3, <2>4
<1>3. CASE c # b \/ results' = results
  BY <1>2, <1>3, WorkerFrame DEF Untouched
<1>4. CASE c = b /\ ProcessFetchChunk(b)
  <2>1. PICK R \in SUBSET Results, count \in Nat :
          /\ results' = [results EXCEPT ![b] = R]
          /\ \E cutoff \in FirstChallenge(R) : stop' = AfterDecisions(b, cutoff, count)
    BY <1>4, CallResults
  <2>2. r \in OfClass(R, "waf")
    BY <1>4, <2>1 DEF TypeOK
  <2> QED
    BY <2>1, <2>2, RunInvKnown, DecisionsGrow
<1>5. CASE c = b /\ results'[b] = {}
  BY <1>5 DEF OfClass
<1>6. EndCall(b) \/ SaveElapsedRaises(b) => results'[b] = {}
  BY DEF EndCall, SaveElapsedRaises, TypeOK
<1> QED
  BY <1>3, <1>4, <1>5, <1>6
     DEF WorkerStep, OpenBrowser, OpenFails, LeaveLoop, SkipFinalized, OpenBatch, BatchExhausted,
         StopBeforeCall, StartCall, CallRaises, AppendErrorJournal, ReadCutoff,
         AppendTerminalMetrics, RecordTerminal, FinalizeBatch, LeaveBatchResumable, CloseBatch,
         Finish, fetches

(* What a step adds to the checkpoints was in them, unsynced, or in the    *)
(* hands of a worker that has already written its metrics.                 *)
LEMMA CheckpointsAdvance ==
  ASSUME TypeOK, NEW b \in Browsers, WorkerStep(b)
  PROVE  terminal' \cup unsynced'[b]
           \subseteq terminal \cup unsynced[b] \cup (IF pc[b] = "record" THEN safe[b] ELSE {})
<1> USE DEF TypeOK
<1>1. CASE RecordTerminal(b)
  <2>1. pc[b] = "record"
    BY <1>1 DEF RecordTerminal, GoTo
  <2> QED
    BY <1>1, <2>1 DEF RecordTerminal
<1>2. CASE CallRaises(b) \/ SaveElapsedRaises(b)
  BY <1>2 DEF CallRaises, SaveElapsedRaises, AbandonBatch
<1>3. CASE FinalizeBatch(b) \/ LeaveBatchResumable(b)
  BY <1>3 DEF FinalizeBatch, LeaveBatchResumable, CloseBatch
<1>4. CASE terminal' = terminal /\ unsynced' = unsynced
  BY <1>4
<1> QED
  BY <1>1, <1>2, <1>3, <1>4
     DEF WorkerStep, OpenBrowser, OpenFails, LeaveLoop, SkipFinalized, OpenBatch, BatchExhausted,
         StopBeforeCall, StartCall, ProcessFetchChunk, AppendErrorJournal, ReadCutoff,
         AppendTerminalMetrics, EndCall, Finish, journals

LEMMA MetricsStayAhead ==
  ASSUME TypeOK, RunInv, NEW b \in Browsers, WorkerStep(b)
  PROVE  MetricsCoverCheckpoints'
<1>1. metrics \subseteq metrics'
  BY WorkerFrame DEF FilesGrow
<1>2. terminal \cup UNION {unsynced[c] : c \in Browsers} \subseteq metrics
  BY DEF RunInv, MetricsCoverCheckpoints
<1>3. pc[b] = "record" => safe[b] \subseteq metrics
  BY DEF RunInv, WorkerInv
<1>4. terminal' \cup unsynced'[b] \subseteq metrics
  BY <1>2, <1>3, CheckpointsAdvance
<1>5. \A c \in Browsers \ {b} : unsynced'[c] \subseteq metrics
  BY <1>2, WorkerFrame DEF Untouched
<1> QED
  BY <1>1, <1>4, <1>5 DEF MetricsCoverCheckpoints

(* Only a batch that accounts for all its IDs is finalized.                *)
LEMMA FinalStaysAccounted ==
  ASSUME TypeOK, RunInv, NEW b \in Browsers, WorkerStep(b)
  PROVE  FinalAccounted'
<1>1. FilesGrow(b)
  BY WorkerFrame
<1>2. CASE final' = final
  BY <1>1, <1>2 DEF FilesGrow, RunInv, FinalAccounted
<1>3. CASE FinalizeBatch(b)
  <2>1. pc[b] = "finalize" /\ complete[b] /\ final' = final \cup {Shard(b)}
    BY <1>3 DEF FinalizeBatch, CloseBatch, GoTo
  <2>2. AssignedIds[Shard(b)] \subseteq terminal \cup errorLog \cup unsynced[b]
    BY <2>1 DEF RunInv, WorkerInv, BatchAccounted, Accounted
  <2>3. AssignedIds[Shard(b)] \subseteq terminal' \cup errorLog'
    BY <1>3, <2>2 DEF FinalizeBatch, CloseBatch
  <2> QED
    BY <1>1, <2>1, <2>3 DEF FilesGrow, RunInv, FinalAccounted
<1> QED
  BY <1>2, <1>3
     DEF WorkerStep, OpenBrowser, OpenFails, LeaveLoop, SkipFinalized, OpenBatch, BatchExhausted,
         StopBeforeCall, StartCall, ProcessFetchChunk, CallRaises, AppendErrorJournal, ReadCutoff,
         AppendTerminalMetrics, RecordTerminal, EndCall, SaveElapsedRaises, LeaveBatchResumable,
         Finish

LEMMA WorkerStepKeeps ==
  ASSUME TypeOK, RunInv, NEW b \in Browsers, WorkerStep(b)
  PROVE  RunInv'
<1>1. WorkerInv(b)'
  BY LoopStepKeeps, CallStepKeeps DEF WorkerStep
<1>2. \A c \in Browsers : WorkerInv(c)'
  BY <1>1, OthersKeep
<1>3. StopKnown'
  BY StopFrame, RunInvKnown DEF Onward, Known, StopKnown
<1> QED
  BY <1>2, <1>3, ChallengesStayCovered, MetricsStayAhead, FinalStaysAccounted DEF RunInv

(* When the process is gone, only what is durable is left to speak of.     *)
LEMMA ForgetKeeps ==
  ASSUME TypeOK, RunInv, Forget, final' = final,
         terminal \subseteq terminal', errorLog \subseteq errorLog', metrics \subseteq metrics',
         terminal' \subseteq metrics \cup metrics'
  PROVE  RunInv'
<1>1. ASSUME NEW b \in Browsers PROVE WorkerInv(b)'
  BY DEF Forget, WorkerInv, Owns, BatchAccounted, InBatch
<1>2. StopKnown'
  BY DEF Forget, StopKnown, NotStopped
<1>3. CutoffCoversChallenges'
  BY DEF Forget, CutoffCoversChallenges, OfClass
<1>4. MetricsCoverCheckpoints'
  BY DEF Forget, MetricsCoverCheckpoints
<1>5. FinalAccounted'
  BY DEF RunInv, FinalAccounted
<1> QED
  BY <1>1, <1>2, <1>3, <1>4, <1>5 DEF RunInv

(* The invariant speaks of nothing but these variables.                    *)
LEMMA StutterKeeps ==
  ASSUME RunInv, UNCHANGED <<stop, workers, journals, final>>
  PROVE  RunInv'
<1> USE DEF workers, journals, fetches, batches
<1>1. ASSUME NEW b \in Browsers PROVE WorkerInv(b)'
  BY DEF RunInv, WorkerInv, Owns, BatchAccounted, Shard, Accounted, ErrorIds
<1>2. StopKnown' /\ CutoffCoversChallenges' /\ MetricsCoverCheckpoints' /\ FinalAccounted'
  BY DEF RunInv, StopKnown, CutoffCoversChallenges, MetricsCoverCheckpoints, FinalAccounted
<1> QED
  BY <1>1, <1>2 DEF RunInv

LEMMA ProcessStepKeeps ==
  ASSUME TypeOK, RunInv, WriteSummary \/ JoinRaises \/ Crash \/ Resume \/ Tick
  PROVE  RunInv'
<1>1. terminal \cup UNION {unsynced[b] : b \in Browsers} \subseteq metrics
  BY DEF RunInv, MetricsCoverCheckpoints
<1>2. CASE WriteSummary \/ JoinRaises
  BY <1>1, <1>2, ForgetKeeps DEF WriteSummary, JoinRaises, journals
<1>3. CASE Crash
  <2>1. Forget /\ final' = final /\ terminal \subseteq terminal'
    BY <1>3 DEF Crash
  <2>2. errorLog \subseteq errorLog' /\ metrics \subseteq metrics'
    BY <1>3 DEF Crash
  <2>3. terminal' \subseteq metrics
    BY <1>1, <1>3 DEF Crash
  <2> QED
    BY <2>1, <2>2, <2>3, ForgetKeeps
<1>4. CASE Resume \/ Tick
  <2>1. /\ UNCHANGED <<stop, workers, journals, final>>
    BY <1>4 DEF Resume, Tick
  <2> QED
    BY <2>1, StutterKeeps
<1> QED
  BY <1>2, <1>3, <1>4

LEMMA InductiveStep ==
  ASSUME TypeOK, RunInv, [Next]_vars
  PROVE  RunInv'
<1>1. CASE UNCHANGED vars
  BY <1>1, StutterKeeps DEF vars
<1> QED
  BY <1>1, WorkerStepKeeps, ProcessStepKeeps DEF Next

(* The invariant behind the safety theorems holds of every run.            *)
THEOREM RunInvariant == Spec => []RunInv
<1>1. Init => RunInv
  <2> SUFFICES ASSUME Init PROVE RunInv
    OBVIOUS
  <2>1. ASSUME NEW b \in Browsers PROVE WorkerInv(b)
    BY DEF Init, WorkerInv, Owns, BatchAccounted, InBatch
  <2>2. StopKnown
    BY DEF Init, StopKnown, NotStopped
  <2>3. CutoffCoversChallenges /\ MetricsCoverCheckpoints /\ FinalAccounted
    BY DEF Init, CutoffCoversChallenges, OfClass, MetricsCoverCheckpoints, FinalAccounted
  <2> QED
    BY <2>1, <2>2, <2>3 DEF RunInv
<1> QED
  BY <1>1, InductiveStep, TypeCorrect, PTL DEF Spec

(* Each ID of a final batch is recorded or a row was appended for its      *)
(* error, whatever stops, raises, is killed or is rerun; that the row can  *)
(* be read is not claimed.                                                 *)
THEOREM FinalIsAccounted == Spec => []FinalAccounted
<1>1. RunInv => FinalAccounted
  BY DEF RunInv
<1> QED
  BY <1>1, RunInvariant, PTL

(* A metrics row was appended for every checkpointed ID, though a torn     *)
(* line may keep the summary from reading it.                              *)
THEOREM MetricsAreAhead == Spec => []MetricsCoverCheckpoints
<1>1. RunInv => MetricsCoverCheckpoints
  BY DEF RunInv
<1> QED
  BY <1>1, RunInvariant, PTL

(* The shared cutoff is no later than any challenge still in hand.         *)
THEOREM CutoffIsEarliest == Spec => []CutoffCoversChallenges
<1>1. RunInv => CutoffCoversChallenges
  BY DEF RunInv
<1> QED
  BY <1>1, RunInvariant, PTL

(* A stop is never taken back within an attempt, its first reason stays,   *)
(* and its cutoff only moves earlier.                                      *)
THEOREM StopSticks == Spec => StopIsSticky
<1>1. ASSUME TypeOK, RunInv, Next, phase' = "running", stop.event
      PROVE  StopKept
  <2>1. ASSUME NEW b \in Browsers, WorkerStep(b) PROVE StopKept
    <3>1. Onward(stop, stop')
      BY <1>1, <2>1, StopFrame, RunInvKnown
    <3> QED
      BY <1>1, <3>1 DEF Onward, StopKept
  <2>2. CASE WriteSummary \/ JoinRaises \/ Crash
    BY <1>1, <2>2 DEF WriteSummary, JoinRaises, Crash, Forget
  <2>3. CASE Resume \/ Tick
    BY <1>1, <2>3 DEF Resume, Tick, StopKept, TypeOK, StopStates, NoCutoff
  <2> QED
    BY <1>1, <2>1, <2>2, <2>3 DEF Next
<1>2. TypeOK /\ RunInv /\ [Next]_vars => [phase' = "running" /\ stop.event => StopKept]_vars
  BY <1>1
<1> QED
  BY <1>2, RunInvariant, TypeCorrect, PTL DEF Spec, StopIsSticky

-----------------------------------------------------------------------------
(* The collector implements ResumableRun.                                  *)

(* What an open batch is about to make durable is not in a sealed shard.   *)
LEMMA OpenIsUnsealed ==
  ASSUME TypeOK, RunInv, NEW b \in Browsers, pc[b] \in InBatch
  PROVE  /\ Shard(b) \in Shards \ final
         /\ AssignedIds[Shard(b)] \cap Run!SealedIds = {}
<1>1. Shard(b) \in Shards
  BY ShardType DEF TypeOK
<1>2. Shard(b) \notin final
  BY DEF RunInv, WorkerInv, Owns
<1>3. \A s \in final : AssignedIds[s] \cap AssignedIds[Shard(b)] = {}
  BY <1>1, <1>2, PartitionAssumption DEF PartitionAssumption, TypeOK
<1> QED
  BY <1>1, <1>2, <1>3 DEF Run!SealedIds

LEMMA InHandIsUnsealed ==
  ASSUME TypeOK, RunInv, NEW b \in Browsers
  PROVE  /\ unsynced[b] \cap Run!SealedIds = {}
         /\ pc[b] \in InBatch => safe[b] \cap Run!SealedIds = {}
         /\ pc[b] \in InBatch => ErrorIds(b) \cap Run!SealedIds = {}
<1>1. Owns(b)
  BY DEF RunInv, WorkerInv
<1>2. ErrorIds(b) \subseteq IdsOf(results[b])
  BY DEF ErrorIds, IdsOf, OfClass
<1>3. CASE pc[b] \in InBatch
  BY <1>1, <1>2, <1>3, OpenIsUnsealed DEF Owns
<1>4. CASE pc[b] \notin InBatch
  BY <1>1, <1>4 DEF Owns
<1> QED
  BY <1>3, <1>4

(* Each step makes durable only what a worker had in hand, in its own      *)
(* open batch.                                                             *)
LEMMA WorkerStepAdvances ==
  ASSUME TypeOK, TypeOK', RunInv, NEW b \in Browsers, WorkerStep(b)
  PROVE  Run!JournalsGrow
<1>1. FilesGrow(b)
  BY WorkerFrame
<1>2. (terminal' \ terminal) \cap Run!SealedIds = {}
  BY CheckpointsAdvance, InHandIsUnsealed DEF InBatch
<1>3. errorLog' = errorLog \/ (pc[b] = "journal" /\ errorLog' = errorLog \cup ErrorIds(b))
  BY DEF WorkerStep, OpenBrowser, OpenFails, LeaveLoop, SkipFinalized, OpenBatch, BatchExhausted,
         StopBeforeCall, StartCall, ProcessFetchChunk, CallRaises, AppendErrorJournal, ReadCutoff,
         AppendTerminalMetrics, RecordTerminal, EndCall, SaveElapsedRaises, FinalizeBatch,
         LeaveBatchResumable, CloseBatch, Finish, GoTo, journals
<1>4. (errorLog' \ errorLog) \cap Run!SealedIds = {}
  BY <1>3, InHandIsUnsealed DEF InBatch
<1> QED
  BY <1>1, <1>2, <1>4 DEF Run!JournalsGrow, FilesGrow, TypeOK

LEMMA CrashAdvances ==
  ASSUME TypeOK, TypeOK', RunInv, Crash
  PROVE  Run!JournalsGrow
<1>1. \A b \in Browsers :
        /\ unsynced[b] \cap Run!SealedIds = {}
        /\ pc[b] = "journal" => ErrorIds(b) \cap Run!SealedIds = {}
  BY InHandIsUnsealed DEF InBatch
<1>2. PICK records \in SUBSET UNION {unsynced[b] : b \in Browsers} :
        terminal' = terminal \cup records
  BY DEF Crash
<1>3. PICK rows \in SUBSET UNION {ErrorIds(b) : b \in {c \in Browsers : pc[c] = "journal"}} :
        errorLog' = errorLog \cup rows
  <2> DEFINE atErrors == {b \in Browsers : pc[b] = "journal" /\ ErrorIds(b) # {}}
  <2>1. PICK dirs : \E rows \in SUBSET UNION {ErrorIds(b) : b \in dirs \cap atErrors} :
                      errorLog' = errorLog \cup rows
    BY DEF Crash
  <2>2. PICK rows \in SUBSET UNION {ErrorIds(b) : b \in dirs \cap atErrors} :
          errorLog' = errorLog \cup rows
    BY <2>1
  <2>3. rows \subseteq UNION {ErrorIds(b) : b \in {c \in Browsers : pc[c] = "journal"}}
    OBVIOUS
  <2> QED
    BY <2>2, <2>3
<1>4. (terminal' \ terminal) \cap Run!SealedIds = {}
  <2>1. ASSUME NEW i \in records PROVE i \notin Run!SealedIds
    <3>1. PICK b \in Browsers : i \in unsynced[b]
      BY <1>2
    <3> QED
      BY <1>1, <3>1
  <2> QED
    BY <1>2, <2>1
<1>5. (errorLog' \ errorLog) \cap Run!SealedIds = {}
  <2>1. ASSUME NEW i \in rows PROVE i \notin Run!SealedIds
    <3>1. PICK b \in Browsers : pc[b] = "journal" /\ i \in ErrorIds(b)
      BY <1>3
    <3> QED
      BY <1>1, <3>1
  <2> QED
    BY <1>3, <2>1
<1> QED
  BY <1>2, <1>3, <1>4, <1>5 DEF Run!JournalsGrow, TypeOK

(* Every step of the collector is a step of ResumableRun or changes none   *)
(* of its variables.                                                       *)
LEMMA StepImplements ==
  ASSUME TypeOK, TypeOK', RunInv, RunInv', [Next]_vars
  PROVE  [Run!Next]_(Run!runVars)
<1>1. ASSUME NEW b \in Browsers, WorkerStep(b)
      PROVE  [Run!Next]_(Run!runVars)
  <2>1. FilesGrow(b) /\ Run!JournalsGrow
    BY <1>1, WorkerFrame, WorkerStepAdvances
  <2>2. CASE final' = final
    BY <2>1, <2>2 DEF Run!Next, Run!Advance
  <2>3. CASE pc[b] = "finalize" /\ final' = final \cup {Shard(b)}
    <3>1. Shard(b) \in Shards \ final
      BY <2>3, OpenIsUnsealed DEF InBatch
    <3>2. AssignedIds[Shard(b)] \subseteq terminal' \cup errorLog'
      BY <2>3 DEF RunInv, FinalAccounted
    <3>3. Run!Seal(Shard(b))
      BY <2>1, <2>3, <3>1, <3>2 DEF Run!Seal
    <3> QED
      BY <3>1, <3>3 DEF Run!Next
  <2> QED
    BY <2>1, <2>2, <2>3 DEF FilesGrow
<1>2. CASE Crash
  BY <1>2, CrashAdvances DEF Crash, Run!Next, Run!Advance
<1>3. CASE UNCHANGED <<terminal, errorLog, final>>
  BY <1>3 DEF Run!runVars
<1> QED
  BY <1>1, <1>2, <1>3
     DEF Next, WriteSummary, JoinRaises, Resume, Tick, vars, journals

(* Durable records are never lost, and a final file is written once, over  *)
(* IDs each of which is recorded or had an error row appended, and its     *)
(* batch never changes again.                                              *)
THEOREM Implementation == Spec => ImplementsResumableRun
<1>1. Init => Run!Init
  BY DEF Init, Run!Init
<1>2. TypeOK /\ TypeOK' /\ RunInv /\ RunInv' /\ [Next]_vars => [Run!Next]_(Run!runVars)
  BY StepImplements
<1> QED
  BY <1>1, <1>2, TypeCorrect, RunInvariant, PTL DEF Spec, ImplementsResumableRun, Run!Spec

-----------------------------------------------------------------------------
(* What a worker has still to ask, what it must persist and how far it has *)
(* come: a second invariant, beside RunInv.                                *)

(* What is pending is neither recorded nor answered.                       *)
PendingInv(b) ==
  /\ pc[b] \notin InBatch => todo[b] = {} /\ chunk[b] = {}
  /\ todo[b] \cap chunk[b] = {}
  /\ (todo[b] \cup chunk[b]) \cap (terminal \cup unsynced[b] \cup IdsOf(results[b])) = {}
  /\ safe[b] \subseteq IdsOf(results[b])

(* A terminal answer that ended no later than the cutoff is in the hands   *)
(* of its worker, or recorded.                                             *)
PersistInv(b) ==
  pc[b] \in {"metrics", "record"} =>
    \A r \in OfClass(results[b], "terminal") :
      stop.cutoff = NoCutoff \/ r.at <= stop.cutoff =>
        r.id \in terminal \cup unsynced[b] \cup safe[b]

(* Without a stop a worker leaves no shard open behind it.                 *)
LoopInv(b) ==
  ~stop.event =>
    /\ pc[b] \in {"finish"} \cup Ended => position[b] > Len(Assignments[b])
    /\ pc[b] = "finalize" => complete[b]
    /\ \A i \in 1 .. Len(Assignments[b]) : i < position[b] => Assignments[b][i] \in final

AttemptInv == \A b \in Browsers : PendingInv(b) /\ PersistInv(b) /\ LoopInv(b)

(* A later cutoff than now covers no answer that it did not cover before.  *)
LEMMA CutoffOnlyNarrows ==
  ASSUME NEW s, NEW t, Known(s), Onward(s, t), NEW at \in Nat,
         t.cutoff = NoCutoff \/ at <= t.cutoff
  PROVE  s.cutoff = NoCutoff \/ at <= s.cutoff
BY DEF Known, Onward, StopStates, NoCutoff

(* Two workers in a batch each have no ID in common.                       *)
LEMMA AssignedApart ==
  ASSUME TypeOK, NEW b \in Browsers, NEW c \in Browsers, b # c,
         pc[b] \in InBatch, pc[c] \in InBatch
  PROVE  AssignedIds[Shard(b)] \cap AssignedIds[Shard(c)] = {}
<1>1. Shard(b) \in Shards /\ Shard(c) \in Shards
  BY ShardType DEF TypeOK
<1> QED
  BY <1>1, ShardsDiffer, PartitionAssumption DEF PartitionAssumption

(* A step of one worker keeps what the second invariant says of another.   *)
LEMMA OthersAttempt ==
  ASSUME TypeOK, RunInv, AttemptInv, NEW b \in Browsers, WorkerStep(b),
         NEW c \in Browsers, c # b
  PROVE  PendingInv(c)' /\ PersistInv(c)' /\ LoopInv(c)'
<1>1. Untouched(c) /\ FilesGrow(b)
  BY WorkerFrame
<1>2. Onward(stop, stop')
  BY StopFrame, RunInvKnown
<1>3. PendingInv(c) /\ PersistInv(c) /\ LoopInv(c)
  BY DEF AttemptInv
<1>4. PendingInv(c)'
  <2>1. /\ pc[b] \in InBatch => unsynced[b] \cup safe[b] \subseteq AssignedIds[Shard(b)]
        /\ pc[b] \notin InBatch => unsynced[b] = {}
    BY DEF RunInv, WorkerInv, Owns
  <2>2. pc[c] \in InBatch => todo[c] \cup chunk[c] \subseteq AssignedIds[Shard(c)]
    BY DEF RunInv, WorkerInv, Owns
  <2>3. terminal' \subseteq terminal \cup unsynced[b] \cup (IF pc[b] = "record" THEN safe[b] ELSE {})
    BY CheckpointsAdvance
  <2>4. (todo[c] \cup chunk[c]) \cap terminal' = {}
    <3>1. CASE pc[c] \notin InBatch
      BY <1>3, <3>1 DEF PendingInv
    <3>2. CASE pc[b] \notin InBatch
      BY <1>3, <2>1, <2>3, <3>2 DEF PendingInv, InBatch
    <3>3. CASE pc[b] \in InBatch /\ pc[c] \in InBatch
      BY <1>3, <2>1, <2>2, <2>3, <3>3, AssignedApart DEF PendingInv
    <3> QED
      BY <3>1, <3>2, <3>3
  <2> QED
    BY <1>1, <1>3, <2>4 DEF PendingInv, Untouched
<1>5. PersistInv(c)'
  <2> SUFFICES ASSUME pc'[c] \in {"metrics", "record"},
                      NEW r \in OfClass(results'[c], "terminal"),
                      stop'.cutoff = NoCutoff \/ r.at <= stop'.cutoff
               PROVE  r.id \in terminal' \cup unsynced'[c] \cup safe'[c]
    BY DEF PersistInv, OfClass
  <2>1. r \in OfClass(results[c], "terminal") /\ r.at \in Nat
    BY <1>1 DEF Untouched, OfClass, TypeOK, Results
  <2>2. stop.cutoff = NoCutoff \/ r.at <= stop.cutoff
    BY <1>2, <2>1, CutoffOnlyNarrows, RunInvKnown
  <2> QED
    BY <1>1, <1>3, <2>1, <2>2 DEF PersistInv, Untouched, FilesGrow
<1>6. LoopInv(c)'
  BY <1>1, <1>2, <1>3 DEF LoopInv, Untouched, FilesGrow, Onward, Ended
<1> QED
  BY <1>4, <1>5, <1>6

LEMMA PendingStep ==
  ASSUME TypeOK, RunInv, AttemptInv, NEW b \in Browsers, WorkerStep(b)
  PROVE  PendingInv(b)'
<1>1. PendingInv(b) /\ WorkerInv(b)
  BY DEF AttemptInv, RunInv
<1>2. IdsOf({}) = {}
  BY DEF IdsOf
<1> USE <1>1 DEF TypeOK, PendingInv, GoTo, process, fetches, batches, workers, journals, InBatch,
        Ended
<1>3. CASE OpenBrowser(b)
  BY <1>3 DEF OpenBrowser
<1>4. CASE OpenFails(b)
  BY <1>4 DEF OpenFails
<1>5. CASE LeaveLoop(b)
  BY <1>5 DEF LeaveLoop
<1>6. CASE SkipFinalized(b)
  BY <1>6 DEF SkipFinalized
<1>7. CASE OpenBatch(b)
  <2>1. results[b] = {} /\ chunk[b] = {} /\ unsynced[b] = {}
    BY <1>7 DEF OpenBatch, WorkerInv, BatchAccounted, Owns
  <2> QED
    BY <1>2, <1>7, <2>1 DEF OpenBatch, PendingIds
<1>8. CASE BatchExhausted(b)
  BY <1>8 DEF BatchExhausted
<1>9. CASE StopBeforeCall(b)
  BY <1>9 DEF StopBeforeCall
<1>10. CASE StartCall(b)
  <2>1. PICK c \in Chunks(todo[b]) :
          /\ chunk' = [chunk EXCEPT ![b] = c]
          /\ todo' = [todo EXCEPT ![b] = @ \ c]
    BY <1>10 DEF StartCall
  <2>2. c \subseteq todo[b]
    BY DEF Chunks
  <2> QED
    BY <1>10, <2>1, <2>2 DEF StartCall
<1>11. CASE ProcessFetchChunk(b)
  <2>1. PICK R \in SUBSET Results : IdsOf(R) = chunk[b] /\ results' = [results EXCEPT ![b] = R]
    <3> HIDE DEF TypeOK
    <3> QED
      BY <1>11, CallResults
  <2>2. pc[b] = "fetch" /\ pc'[b] = "journal" /\ chunk'[b] = {} /\ results'[b] = R
    BY <1>11, <2>1 DEF ProcessFetchChunk
  <2>3. IdsOf(results'[b]) = chunk[b]
    BY <2>1, <2>2
  <2>4. safe[b] = {}
    BY <2>2 DEF WorkerInv, BatchAccounted
  <2>5. safe' = safe /\ unsynced' = unsynced /\ todo' = todo /\ terminal' = terminal
    BY <1>11 DEF ProcessFetchChunk
  <2> QED
    BY <2>2, <2>3, <2>4, <2>5
<1>12. CASE CallRaises(b)
  BY <1>12 DEF CallRaises, AbandonBatch
<1>13. CASE AppendErrorJournal(b)
  BY <1>13 DEF AppendErrorJournal
<1>14. CASE ReadCutoff(b)
  <2> DEFINE S == IdsOf({r \in results[b] : TerminalBeforeCutoff(r, stop.cutoff)})
  <2>1. S \subseteq IdsOf(results[b])
    BY DEF IdsOf
  <2>2. safe'[b] = S
    BY <1>14 DEF ReadCutoff
  <2> HIDE DEF S
  <2> QED
    BY <1>14, <2>1, <2>2 DEF ReadCutoff
<1>15. CASE AppendTerminalMetrics(b)
  BY <1>15 DEF AppendTerminalMetrics
<1>16. CASE RecordTerminal(b)
  <2>1. PICK i \in safe[b] :
          LET appended == unsynced[b] \cup {i}
              syncs == Cardinality(appended) >= SyncInterval
          IN  /\ safe' = [safe EXCEPT ![b] = @ \ {i}]
              /\ unsynced' = [unsynced EXCEPT ![b] = IF syncs THEN {} ELSE appended]
              /\ terminal' = IF syncs THEN terminal \cup appended ELSE terminal
    BY <1>16 DEF RecordTerminal
  <2>2. terminal' \cup unsynced'[b] = terminal \cup unsynced[b] \cup {i}
    BY <2>1
  <2>3. i \in IdsOf(results[b]) /\ safe'[b] \subseteq safe[b]
    BY <2>1
  <2> QED
    BY <1>16, <2>2, <2>3 DEF RecordTerminal
<1>17. CASE EndCall(b)
  BY <1>2, <1>17 DEF EndCall
<1>18. CASE SaveElapsedRaises(b)
  <2>1. chunk[b] = {}
    BY <1>18 DEF SaveElapsedRaises, WorkerInv, BatchAccounted
  <2> QED
    BY <1>2, <1>18, <2>1 DEF SaveElapsedRaises, AbandonBatch
<1>19. CASE FinalizeBatch(b) \/ LeaveBatchResumable(b)
  <2>1. pc[b] = "finalize" /\ pc'[b] = "shard" /\ todo'[b] = {}
    BY <1>19 DEF FinalizeBatch, LeaveBatchResumable, CloseBatch
  <2>2. chunk' = chunk /\ results' = results /\ safe' = safe
    BY <1>19 DEF FinalizeBatch, LeaveBatchResumable, CloseBatch
  <2>3. chunk[b] = {}
    BY <2>1 DEF WorkerInv, BatchAccounted
  <2> QED
    BY <2>1, <2>2, <2>3
<1>20. CASE Finish(b)
  BY <1>20 DEF Finish
<1> QED
  BY <1>3, <1>4, <1>5, <1>6, <1>7, <1>8, <1>9, <1>10, <1>11, <1>12, <1>13, <1>14, <1>15, <1>16,
     <1>17, <1>18, <1>19, <1>20 DEF WorkerStep

LEMMA PersistStep ==
  ASSUME TypeOK, RunInv, AttemptInv, NEW b \in Browsers, WorkerStep(b)
  PROVE  PersistInv(b)'
<1>1. PersistInv(b) /\ WorkerInv(b)
  BY DEF AttemptInv, RunInv
<1>2. SUFFICES ASSUME pc'[b] \in {"metrics", "record"},
                      NEW r \in OfClass(results'[b], "terminal"),
                      stop'.cutoff = NoCutoff \/ r.at <= stop'.cutoff
               PROVE  r.id \in terminal' \cup unsynced'[b] \cup safe'[b]
  BY DEF PersistInv, OfClass
<1> USE DEF TypeOK, GoTo, process, fetches, batches, workers, journals
<1>3. CASE ReadCutoff(b)
  <2>1. results' = results /\ stop' = stop
    BY <1>3 DEF ReadCutoff
  <2>2. r \in results[b] /\ TerminalBeforeCutoff(r, stop.cutoff)
    BY <1>2, <2>1 DEF TerminalBeforeCutoff, OfClass
  <2>3. safe'[b] = IdsOf({q \in results[b] : TerminalBeforeCutoff(q, stop.cutoff)})
    BY <1>3 DEF ReadCutoff
  <2> QED
    BY <2>2, <2>3 DEF IdsOf
<1>4. CASE AppendTerminalMetrics(b) \/ RecordTerminal(b)
  <2>1. pc[b] \in {"metrics", "record"} /\ results' = results /\ stop' = stop
    BY <1>4 DEF AppendTerminalMetrics, RecordTerminal
  <2>2. terminal \cup unsynced[b] \cup safe[b] \subseteq terminal' \cup unsynced'[b] \cup safe'[b]
    <3>1. CASE AppendTerminalMetrics(b)
      BY <3>1 DEF AppendTerminalMetrics
    <3>2. CASE RecordTerminal(b)
      BY <3>2 DEF RecordTerminal
    <3> QED
      BY <1>4, <3>1, <3>2
  <2> QED
    BY <1>1, <1>2, <2>1, <2>2 DEF PersistInv
<1>5. CASE ~(ReadCutoff(b) \/ AppendTerminalMetrics(b) \/ RecordTerminal(b))
  <2>1. pc'[b] \notin {"metrics", "record"}
    BY <1>5
       DEF WorkerStep, OpenBrowser, OpenFails, LeaveLoop, SkipFinalized, OpenBatch, BatchExhausted,
           StopBeforeCall, StartCall, ProcessFetchChunk, CallRaises, AppendErrorJournal, EndCall,
           SaveElapsedRaises, FinalizeBatch, LeaveBatchResumable, CloseBatch, Finish
  <2> QED
    BY <1>2, <2>1
<1> QED
  BY <1>3, <1>4, <1>5

(* A worker passes a shard only when its final file exists.                *)
LEMMA LoopStep ==
  ASSUME TypeOK, RunInv, AttemptInv, NEW b \in Browsers, WorkerStep(b)
  PROVE  LoopInv(b)'
<1>1. LoopInv(b) /\ WorkerInv(b) /\ Known(stop)
  BY RunInvKnown DEF AttemptInv, RunInv
<1>2. Onward(stop, stop')
  BY StopFrame, RunInvKnown
<1>3. SUFFICES ASSUME ~stop'.event
               PROVE  /\ pc'[b] \in {"finish"} \cup Ended => position'[b] > Len(Assignments[b])
                      /\ pc'[b] = "finalize" => complete'[b]
                      /\ \A i \in 1 .. Len(Assignments[b]) :
                           i < position'[b] => Assignments[b][i] \in final'
  BY DEF LoopInv
<1>4. ~stop.event
  BY <1>2, <1>3 DEF Onward
<1>5. /\ pc[b] \in {"finish"} \cup Ended => position[b] > Len(Assignments[b])
      /\ pc[b] = "finalize" => complete[b]
      /\ \A i \in 1 .. Len(Assignments[b]) : i < position[b] => Assignments[b][i] \in final
  BY <1>1, <1>4 DEF LoopInv
<1>6. final \subseteq final'
  BY WorkerFrame DEF FilesGrow
<1>7. {"browser_exception"} \subseteq Reasons /\ NoCutoff \in Nat \cup {NoCutoff}
  BY DEF Reasons
<1>8. Stop(stop, "browser_exception", b, NoCutoff).event
  BY <1>1, <1>7, StopGrows
<1> USE DEF GoTo, process, fetches, batches, workers, journals
<1>9. CASE OpenFails(b) \/ CallRaises(b) \/ SaveElapsedRaises(b)
  BY <1>3, <1>8, <1>9 DEF OpenFails, CallRaises, SaveElapsedRaises, AbandonBatch
<1>10. CASE LeaveLoop(b)
  <2>1. position' = position /\ final' = final /\ pc'[b] = "finish"
    BY <1>10 DEF LeaveLoop, TypeOK
  <2> QED
    BY <1>4, <1>5, <1>10, <2>1 DEF LeaveLoop, StopSeen, Ended
<1>11. CASE SkipFinalized(b)
  <2>1. /\ position'[b] = position[b] + 1 /\ pc'[b] = "shard"
        /\ Assignments[b][position[b]] \in final /\ final' = final /\ position[b] \in Nat
    BY <1>11 DEF SkipFinalized, NextPosition, Finalized, Shard, TypeOK
  <2>2. \A i \in 1 .. Len(Assignments[b]) :
          i < position[b] + 1 => i < position[b] \/ i = position[b]
    BY <2>1
  <2> QED
    BY <1>5, <2>1, <2>2 DEF Ended
<1>12. CASE OpenBrowser(b) \/ OpenBatch(b) \/ StartCall(b) \/ ProcessFetchChunk(b)
            \/ AppendErrorJournal(b) \/ ReadCutoff(b) \/ AppendTerminalMetrics(b)
            \/ RecordTerminal(b)
  <2>1. /\ position' = position /\ final' = final
        /\ pc'[b] \in {"shard", "chunk", "fetch", "journal", "cutoff", "metrics", "record"}
    BY <1>12
       DEF OpenBrowser, OpenBatch, StartCall, ProcessFetchChunk, AppendErrorJournal, ReadCutoff,
           AppendTerminalMetrics, RecordTerminal, TypeOK
  <2> QED
    BY <1>5, <2>1 DEF Ended
<1>13. CASE BatchExhausted(b)
  <2>1. /\ position' = position /\ final' = final /\ complete' = complete
        /\ pc[b] = "chunk" /\ pc'[b] = "finalize"
    BY <1>13 DEF BatchExhausted, TypeOK
  <2>2. complete[b]
    BY <1>1, <2>1 DEF WorkerInv, BatchAccounted, InBatch
  <2> QED
    BY <1>5, <2>1, <2>2 DEF Ended
<1>14. CASE StopBeforeCall(b)
  BY <1>4, <1>14 DEF StopBeforeCall, StopSeen
<1>15. CASE EndCall(b)
  <2>1. position' = position /\ final' = final /\ pc'[b] = "chunk"
    BY <1>4, <1>15 DEF EndCall, StopSeen, TypeOK
  <2> QED
    BY <1>5, <2>1 DEF Ended
<1>16. CASE FinalizeBatch(b)
  <2>1. /\ position'[b] = position[b] + 1 /\ pc'[b] = "shard" /\ position[b] \in Nat
        /\ final' = final \cup {Assignments[b][position[b]]}
    BY <1>16 DEF FinalizeBatch, CloseBatch, Shard, TypeOK
  <2>2. \A i \in 1 .. Len(Assignments[b]) :
          i < position[b] + 1 => i < position[b] \/ i = position[b]
    BY <2>1
  <2> QED
    BY <1>5, <2>1, <2>2 DEF Ended
<1>17. CASE LeaveBatchResumable(b)
  BY <1>5, <1>17 DEF LeaveBatchResumable, CloseBatch
<1>18. CASE Finish(b)
  <2>1. position' = position /\ final' = final /\ pc[b] = "finish" /\ pc'[b] \in Ended
    BY <1>18 DEF Finish, Ended, TypeOK
  <2> QED
    BY <1>5, <2>1 DEF Ended
<1> QED
  BY <1>9, <1>10, <1>11, <1>12, <1>13, <1>14, <1>15, <1>16, <1>17, <1>18 DEF WorkerStep

(* A new attempt knows nothing of the ones before it.                      *)
LEMMA ForgottenAttempt ==
  ASSUME Forget
  PROVE  AttemptInv'
<1> SUFFICES ASSUME NEW b \in Browsers
             PROVE  PendingInv(b)' /\ PersistInv(b)' /\ LoopInv(b)'
  BY DEF AttemptInv
<1>1. /\ pc'[b] = "open" /\ position'[b] = 1 /\ todo'[b] = {} /\ chunk'[b] = {}
      /\ safe'[b] = {}
  BY DEF Forget
<1> QED
  BY <1>1 DEF PendingInv, PersistInv, LoopInv, InBatch, Ended

LEMMA AttemptStutter ==
  ASSUME AttemptInv, UNCHANGED <<stop, workers, journals, final>>
  PROVE  AttemptInv'
BY DEF AttemptInv, PendingInv, PersistInv, LoopInv, workers, fetches, batches, journals

(* A worker only asks for what is unfinished, keeps what it may record in  *)
(* its hands until it is recorded, and leaves no open shard without a stop.*)
THEOREM AttemptInvariant == Spec => []AttemptInv
<1>1. Init => AttemptInv
  BY DEF Init, AttemptInv, PendingInv, PersistInv, LoopInv, InBatch, Ended, IdsOf
<1>2. ASSUME TypeOK, RunInv, AttemptInv, [Next]_vars PROVE AttemptInv'
  <2>1. ASSUME NEW b \in Browsers, WorkerStep(b) PROVE AttemptInv'
    BY <1>2, <2>1, OthersAttempt, PendingStep, PersistStep, LoopStep DEF AttemptInv
  <2>2. CASE WriteSummary \/ JoinRaises \/ Crash
    BY <2>2, ForgottenAttempt DEF WriteSummary, JoinRaises, Crash
  <2>3. CASE Resume \/ Tick \/ UNCHANGED vars
    <3>1. UNCHANGED <<stop, workers, journals, final>>
      BY <2>3 DEF Resume, Tick, vars
    <3> QED
      BY <1>2, <3>1, AttemptStutter
  <2> QED
    BY <1>2, <2>1, <2>2, <2>3 DEF Next
<1> QED
  BY <1>1, <1>2, TypeCorrect, RunInvariant, PTL DEF Spec

(* No ID with a terminal record is requested again, whichever worker       *)
(* recorded it and in whichever attempt.                                   *)
THEOREM NothingIsFetchedTwice == Spec => []OnlyUnfinishedFetched
<1>1. ASSUME TypeOK, RunInv, AttemptInv PROVE OnlyUnfinishedFetched
  <2> SUFFICES ASSUME NEW b \in Browsers, NEW c \in Browsers
               PROVE  chunk[b] \cap (terminal \cup unsynced[c]) = {}
    BY DEF OnlyUnfinishedFetched
  <2>1. PendingInv(b)
    BY <1>1 DEF AttemptInv
  <2>2. CASE pc[b] \notin InBatch
    BY <2>1, <2>2 DEF PendingInv
  <2>3. CASE pc[c] \notin InBatch
    BY <1>1, <2>1, <2>3 DEF PendingInv, RunInv, WorkerInv, Owns
  <2>4. CASE pc[b] \in InBatch /\ pc[c] \in InBatch
    <3>1. chunk[b] \subseteq AssignedIds[Shard(b)] /\ unsynced[c] \subseteq AssignedIds[Shard(c)]
      BY <1>1, <2>4 DEF RunInv, WorkerInv, Owns
    <3>2. b # c => chunk[b] \cap unsynced[c] = {}
      BY <1>1, <2>4, <3>1, AssignedApart
    <3> QED
      BY <2>1, <3>2 DEF PendingInv
  <2> QED
    BY <2>2, <2>3, <2>4
<1> QED
  BY <1>1, TypeCorrect, RunInvariant, AttemptInvariant, PTL

(* A persisted call has dropped no terminal answer that the cutoff covers. *)
THEOREM SafeResultsAreKept == Spec => []SafeResultsPersisted
<1>1. AttemptInv => SafeResultsPersisted
  BY DEF AttemptInv, PersistInv, SafeResultsPersisted
<1> QED
  BY <1>1, AttemptInvariant, PTL

(* When every worker has returned without a stop, all shards are final.    *)
LEMMA ReturnedUnstopped ==
  ASSUME TypeOK, AttemptInv, ~stop.event, \A b \in Browsers : pc[b] \in Ended
  PROVE  final = Shards
<1> SUFFICES ASSUME NEW s \in Shards PROVE s \in final
  BY DEF TypeOK
<1>1. PICK b \in Browsers : \E i \in 1 .. Len(Assignments[b]) : Assignments[b][i] = s
  BY PartitionAssumption DEF PartitionAssumption
<1>2. PICK i \in 1 .. Len(Assignments[b]) : Assignments[b][i] = s
  BY <1>1
<1>3. Len(Assignments[b]) \in Nat /\ position[b] \in Nat
  <2>1. Assignments[b] \in Seq(Shards)
    BY PartitionAssumption DEF PartitionAssumption
  <2> QED
    BY <2>1 DEF TypeOK
<1>4. position[b] > Len(Assignments[b])
  BY DEF AttemptInv, LoopInv
<1>5. i < position[b]
  BY <1>3, <1>4
<1> QED
  BY <1>2, <1>5 DEF AttemptInv, LoopInv

(* A summary without a stop reason is one of a finished run.               *)
THEOREM SummaryIsHonest == Spec => []UnstoppedSummary
<1>1. Init => UnstoppedSummary
  BY DEF Init, UnstoppedSummary, NoSummary
<1>2. ASSUME TypeOK, RunInv, AttemptInv, UnstoppedSummary, [Next]_vars
      PROVE  UnstoppedSummary'
  <2>1. final \subseteq final' /\ final' \subseteq Shards
    <3>1. final' \subseteq Shards
      BY <1>2, TypeStep DEF TypeOK
    <3>2. ASSUME NEW b \in Browsers, WorkerStep(b) PROVE final \subseteq final'
      BY <1>2, <3>2, WorkerFrame DEF FilesGrow
    <3>3. ~(\E b \in Browsers : WorkerStep(b)) => final' = final
      BY <1>2 DEF Next, WriteSummary, JoinRaises, Crash, Resume, Tick, vars
    <3> QED
      BY <3>1, <3>2, <3>3
  <2>2. CASE WriteSummary
    <3>1. summary'.reason = stop.reason /\ \A b \in Browsers : pc[b] \in Ended
      BY <2>2 DEF WriteSummary, AllEnded
    <3>2. stop.reason = "none" => final = Shards
      BY <1>2, <3>1, ReturnedUnstopped DEF RunInv, StopKnown
    <3> QED
      BY <2>1, <3>1, <3>2 DEF UnstoppedSummary
  <2>3. CASE summary' = summary
    BY <1>2, <2>1, <2>3 DEF UnstoppedSummary
  <2>4. WriteSummary \/ summary' = summary
    BY <1>2
       DEF Next, WorkerStep, OpenBrowser, OpenFails, LeaveLoop, SkipFinalized, OpenBatch,
           BatchExhausted, StopBeforeCall, StartCall, ProcessFetchChunk, CallRaises,
           AppendErrorJournal, ReadCutoff, AppendTerminalMetrics, RecordTerminal, EndCall,
           SaveElapsedRaises, FinalizeBatch, LeaveBatchResumable, CloseBatch, Finish,
           JoinRaises, Crash, Resume, Tick, vars
  <2> QED
    BY <2>2, <2>3, <2>4
<1> QED
  BY <1>1, <1>2, TypeCorrect, RunInvariant, AttemptInvariant, PTL DEF Spec

-----------------------------------------------------------------------------
(* How many IDs a final batch can miss: a third invariant.                 *)

(* Answers of the call at hand that may still be recorded.                 *)
Held(b) ==
  IF pc[b] \in {"journal", "cutoff"} THEN IdsOf(results[b]) \ ErrorIds(b) ELSE safe[b]

(* IDs of the open batch that this attempt will not record.                *)
GivenUp(b) ==
  AssignedIds[Shard(b)] \ (terminal \cup unsynced[b] \cup todo[b] \cup chunk[b] \cup Held(b))

(* Unless a stop keeps the batch open, the errors of this attempt are no   *)
(* fewer than the IDs it gave up, and below the limit when it goes on.     *)
LimitInv(b) ==
  /\ errors[b] >= MaxBrowserErrors => stop.event
  /\ pc[b] \in {"chunk", "fetch"} => errors[b] < MaxBrowserErrors
  /\ pc[b] \in {"chunk", "fetch", "journal", "cutoff"} => Cardinality(GivenUp(b)) <= errors[b]
  /\ pc[b] \in {"metrics", "record"} =>
       stop.event \/ Cardinality(GivenUp(b)) <= errors[b]
  /\ pc[b] = "finalize" /\ complete[b] =>
       Cardinality(GivenUp(b)) <= errors[b] /\ errors[b] < MaxBrowserErrors

MissingInv ==
  /\ \A b \in Browsers : LimitInv(b)
  /\ FinalMissesFew

LEMMA FewerIds ==
  ASSUME NEW S \in SUBSET Ids, NEW T \in SUBSET S, NEW n \in Nat, Cardinality(S) <= n
  PROVE  Cardinality(T) <= n /\ Cardinality(T) \in Nat
<1>1. IsFiniteSet(S)
  BY BoundsAssumption, FS_Subset DEF BoundsAssumption
<1>2. IsFiniteSet(T) /\ Cardinality(T) <= Cardinality(S)
  BY <1>1, FS_Subset
<1> QED
  BY <1>1, <1>2, FS_CardinalityType

LEMMA AddedIds ==
  ASSUME NEW S \in SUBSET Ids, NEW E \in SUBSET Ids, NEW T \in SUBSET (S \cup E),
         NEW n \in Nat, Cardinality(S) <= n
  PROVE  Cardinality(T) <= n + Cardinality(E)
<1>1. IsFiniteSet(S) /\ IsFiniteSet(E)
  BY BoundsAssumption, FS_Subset DEF BoundsAssumption
<1>2. IsFiniteSet(S \cup E) /\ IsFiniteSet(S \cap E)
      /\ Cardinality(S \cup E) = Cardinality(S) + Cardinality(E) - Cardinality(S \cap E)
  BY <1>1, FS_Union, FS_Subset
<1>3. Cardinality(T) <= Cardinality(S \cup E)
  BY <1>2, FS_Subset
<1>4. Cardinality(T) \in Nat
  BY <1>2, FS_Subset, FS_CardinalityType
<1> QED
  BY <1>1, <1>2, <1>3, <1>4, FS_CardinalityType

LEMMA GivenUpType ==
  ASSUME TypeOK, NEW b \in Browsers, pc[b] \in InBatch
  PROVE  GivenUp(b) \in SUBSET Ids
BY ShardType DEF GivenUp, TypeOK

(* A step of one worker keeps what the third invariant says of another.    *)
LEMMA OthersLimit ==
  ASSUME TypeOK, RunInv, MissingInv, NEW b \in Browsers, WorkerStep(b),
         NEW c \in Browsers, c # b
  PROVE  LimitInv(c)'
<1>1. Untouched(c) /\ terminal \subseteq terminal'
  BY WorkerFrame DEF FilesGrow
<1>2. stop.event => stop'.event
  BY StopFrame, RunInvKnown DEF Onward
<1>3. GivenUp(c)' \subseteq GivenUp(c)
  BY <1>1 DEF GivenUp, Held, ErrorIds, Shard, Untouched
<1>4. ASSUME pc[c] \in InBatch, Cardinality(GivenUp(c)) <= errors[c]
      PROVE  Cardinality(GivenUp(c)') <= errors[c]
  BY <1>3, <1>4, FewerIds, GivenUpType DEF TypeOK
<1>5. LimitInv(c)
  BY DEF MissingInv
<1> QED
  BY <1>1, <1>2, <1>4, <1>5 DEF LimitInv, Untouched, InBatch

(* The steps that give nothing up: they leave the count alone, and each ID *)
(* they move stays in sight.                                               *)
LEMMA NothingGivenUp ==
  ASSUME TypeOK, RunInv, NEW b \in Browsers,
         \/ BatchExhausted(b) \/ StopBeforeCall(b) \/ StartCall(b) \/ AppendErrorJournal(b)
         \/ AppendTerminalMetrics(b) \/ RecordTerminal(b) \/ EndCall(b)
  PROVE  GivenUp(b)' \subseteq GivenUp(b) /\ errors' = errors /\ stop' = stop
<1> USE DEF TypeOK, GoTo, process, fetches, batches, workers, journals, GivenUp, Held, Shard
<1>1. WorkerInv(b)
  BY DEF RunInv
<1>2. CASE BatchExhausted(b)
  BY <1>2 DEF BatchExhausted
<1>3. CASE StopBeforeCall(b)
  BY <1>3 DEF StopBeforeCall
<1>4. CASE StartCall(b)
  <2>1. PICK c \in Chunks(todo[b]) :
          /\ chunk' = [chunk EXCEPT ![b] = c]
          /\ todo' = [todo EXCEPT ![b] = @ \ c]
    BY <1>4 DEF StartCall
  <2>2. chunk[b] = {}
    BY <1>1, <1>4 DEF StartCall, WorkerInv, BatchAccounted
  <2>3. todo[b] \cup chunk[b] \subseteq todo'[b] \cup chunk'[b]
    BY <2>1, <2>2
  <2> QED
    BY <1>4, <2>3 DEF StartCall
<1>5. CASE AppendErrorJournal(b)
  BY <1>5 DEF AppendErrorJournal, ErrorIds
<1>6. CASE AppendTerminalMetrics(b)
  BY <1>6 DEF AppendTerminalMetrics
<1>7. CASE RecordTerminal(b)
  <2>1. terminal \cup unsynced[b] \cup safe[b] \subseteq terminal' \cup unsynced'[b] \cup safe'[b]
    BY <1>7 DEF RecordTerminal
  <2>2. /\ pc[b] = "record" /\ pc'[b] = "record"
        /\ UNCHANGED <<errors, stop, todo, chunk, position>>
    BY <1>7 DEF RecordTerminal
  <2> QED
    BY <2>1, <2>2
<1>8. CASE EndCall(b)
  <2>1. /\ pc[b] = "record" /\ pc'[b] \in {"finalize", "chunk"}
        /\ UNCHANGED <<errors, stop, todo, chunk, position, safe, terminal, unsynced>>
    BY <1>8 DEF EndCall
  <2> QED
    BY <2>1
<1> QED
  BY <1>2, <1>3, <1>4, <1>5, <1>6, <1>7, <1>8

(* A call adds its errors to the IDs given up and to the count.            *)
LEMMA CallLimit ==
  ASSUME TypeOK, TypeOK', RunInv, MissingInv, NEW b \in Browsers, ProcessFetchChunk(b)
  PROVE  LimitInv(b)'
<1>1. PICK R \in SUBSET Results, count \in Nat :
        /\ IdsOf(R) = chunk[b]
        /\ count = errors[b] + Cardinality(IdsOf(OfClass(R, "error")))
        /\ results' = [results EXCEPT ![b] = R]
        /\ errors' = [errors EXCEPT ![b] = count]
        /\ \E cutoff \in FirstChallenge(R) : stop' = AfterDecisions(b, cutoff, count)
  BY CallResults
<1>2. results'[b] = R /\ errors'[b] = count /\ pc[b] = "fetch" /\ pc'[b] = "journal"
  BY <1>1 DEF ProcessFetchChunk, GoTo, TypeOK
<1>3. count >= MaxBrowserErrors => stop'.event
  BY <1>1, DecisionsGrow, RunInvKnown
<1> DEFINE E == IdsOf(OfClass(R, "error"))
<1>4. GivenUp(b)' \subseteq GivenUp(b) \cup E
  <2>1. /\ UNCHANGED <<terminal, unsynced, todo, position>>
        /\ Held(b)' = IdsOf(R) \ E
    BY <1>2 DEF ProcessFetchChunk, batches, journals, Held, ErrorIds
  <2>2. Held(b) = {}
    BY <1>2 DEF Held, RunInv, WorkerInv, BatchAccounted
  <2> HIDE DEF E
  <2> QED
    BY <1>1, <2>1, <2>2 DEF GivenUp, Shard
<1>5. E \subseteq Ids
  <2>1. E \subseteq chunk[b]
    BY <1>1 DEF IdsOf, OfClass
  <2> QED
    BY <2>1 DEF TypeOK
<1>6. GivenUp(b) \in SUBSET Ids /\ Cardinality(GivenUp(b)) <= errors[b] /\ errors[b] \in Nat
  BY <1>2, GivenUpType DEF MissingInv, LimitInv, InBatch, TypeOK
<1> HIDE DEF E
<1>7. Cardinality(GivenUp(b)') <= errors[b] + Cardinality(E)
  BY <1>4, <1>5, <1>6, AddedIds
<1>8. errors'[b] = errors[b] + Cardinality(E)
  BY <1>1, <1>2 DEF E
<1> QED
  BY <1>2, <1>3, <1>7, <1>8 DEF LimitInv

(* Without a stop every answer that is not an error goes on to be recorded.*)
LEMMA CutoffLimit ==
  ASSUME TypeOK, RunInv, MissingInv, NEW b \in Browsers, ReadCutoff(b)
  PROVE  LimitInv(b)'
<1>1. /\ pc[b] = "cutoff" /\ pc'[b] = "metrics" /\ UNCHANGED <<errors, stop>>
      /\ UNCHANGED <<terminal, unsynced, todo, chunk, position>>
  BY DEF ReadCutoff, GoTo, TypeOK, batches, journals
<1>2. safe'[b] = IdsOf({r \in results[b] : TerminalBeforeCutoff(r, stop.cutoff)})
  BY DEF ReadCutoff, TypeOK
<1>3. ASSUME ~stop.event PROVE GivenUp(b)' \subseteq GivenUp(b)
  <2>1. stop.cutoff = NoCutoff
    BY <1>3 DEF RunInv, StopKnown
  <2>2. \A r \in results[b] : r.class # "waf"
    BY <2>1 DEF RunInv, CutoffCoversChallenges, OfClass
  <2>3. \A r \in results[b] : r.class \in {"terminal", "error"}
    BY <2>2 DEF TypeOK, Results, Classes
  <2>4. IdsOf(results[b]) \ ErrorIds(b) \subseteq safe'[b]
    BY <1>2, <2>1, <2>3 DEF IdsOf, ErrorIds, OfClass, TerminalBeforeCutoff
  <2>5. Held(b) \subseteq Held(b)'
    BY <1>1, <2>4 DEF Held
  <2> QED
    BY <1>1, <2>5 DEF GivenUp, Shard
<1>4. LimitInv(b)
  BY DEF MissingInv
<1>5. ~stop.event => Cardinality(GivenUp(b)') <= errors[b]
  BY <1>1, <1>3, <1>4, FewerIds, GivenUpType DEF LimitInv, TypeOK, InBatch
<1> QED
  BY <1>1, <1>4, <1>5 DEF LimitInv

LEMMA LimitStep ==
  ASSUME TypeOK, TypeOK', RunInv, MissingInv, NEW b \in Browsers, WorkerStep(b)
  PROVE  LimitInv(b)'
<1>1. LimitInv(b) /\ WorkerInv(b)
  BY DEF MissingInv, RunInv
<1>2. stop.event => stop'.event
  BY StopFrame, RunInvKnown DEF Onward
<1>3. errors[b] \in Nat /\ MaxBrowserErrors \in Nat \ {0}
  BY BoundsAssumption DEF BoundsAssumption, TypeOK
<1>4. CASE OpenBatch(b)
  <2>1. pc'[b] = "chunk" /\ UNCHANGED <<errors, stop>> /\ ~stop.event
    BY <1>4 DEF OpenBatch, GoTo, TypeOK, StopSeen, fetches
  <2>2. GivenUp(b)' = {}
    BY <1>4 DEF OpenBatch, PendingIds, GivenUp, Shard, TypeOK, journals
  <2>3. errors[b] < MaxBrowserErrors
    BY <1>1, <1>3, <2>1 DEF LimitInv
  <2>4. Cardinality(GivenUp(b)') <= errors[b]
    BY <1>3, <2>2, FS_EmptySet
  <2>5. ~(errors[b] >= MaxBrowserErrors)
    BY <1>3, <2>3
  <2>6. errors'[b] = errors[b] /\ stop' = stop
    BY <2>1
  <2> QED
    BY <2>1, <2>3, <2>4, <2>5, <2>6 DEF LimitInv
<1>5. CASE \/ BatchExhausted(b) \/ StopBeforeCall(b) \/ StartCall(b) \/ AppendErrorJournal(b)
           \/ AppendTerminalMetrics(b) \/ RecordTerminal(b) \/ EndCall(b)
  <2>1. /\ GivenUp(b)' \subseteq GivenUp(b) /\ errors' = errors /\ stop' = stop
        /\ pc[b] \in InBatch
    BY <1>5, NothingGivenUp
       DEF BatchExhausted, StopBeforeCall, StartCall, AppendErrorJournal,
           AppendTerminalMetrics, RecordTerminal, EndCall, GoTo, InBatch
  <2>2. Cardinality(GivenUp(b)) <= errors[b] => Cardinality(GivenUp(b)') <= errors[b]
    BY <1>3, <2>1, FewerIds, GivenUpType
  <2>3. CASE BatchExhausted(b) \/ StartCall(b)
    <3>1. pc[b] = "chunk" /\ pc'[b] \in {"fetch", "finalize"}
      BY <2>3 DEF BatchExhausted, StartCall, GoTo, TypeOK
    <3> QED
      BY <1>1, <2>1, <2>2, <3>1 DEF LimitInv
  <2>4. CASE StopBeforeCall(b)
    <3>1. pc'[b] = "finalize" /\ ~complete'[b]
      BY <2>4 DEF StopBeforeCall, GoTo, TypeOK
    <3> QED
      BY <1>1, <2>1, <3>1 DEF LimitInv
  <2>5. CASE AppendErrorJournal(b)
    <3>1. pc[b] = "journal" /\ pc'[b] = "cutoff"
      BY <2>5 DEF AppendErrorJournal, GoTo, TypeOK
    <3> QED
      BY <1>1, <2>1, <2>2, <3>1 DEF LimitInv
  <2>6. CASE AppendTerminalMetrics(b) \/ RecordTerminal(b)
    <3>1. pc[b] \in {"metrics", "record"} /\ pc'[b] = "record"
      BY <2>6 DEF AppendTerminalMetrics, RecordTerminal, GoTo, TypeOK
    <3> QED
      BY <1>1, <2>1, <2>2, <3>1 DEF LimitInv
  <2>7. CASE EndCall(b)
    <3>1. /\ pc[b] = "record" /\ complete'[b] = ~stop.event
          /\ pc'[b] = IF stop.event THEN "finalize" ELSE "chunk"
      BY <2>7 DEF EndCall, GoTo, TypeOK, StopSeen
    <3>2. ~stop.event => errors[b] < MaxBrowserErrors /\ Cardinality(GivenUp(b)) <= errors[b]
      BY <1>1, <1>3, <3>1 DEF LimitInv
    <3> QED
      BY <1>1, <2>1, <2>2, <3>1, <3>2 DEF LimitInv
  <2> QED
    BY <1>5, <2>3, <2>4, <2>5, <2>6, <2>7
<1>6. CASE \/ OpenBrowser(b) \/ OpenFails(b) \/ LeaveLoop(b) \/ SkipFinalized(b) \/ CallRaises(b)
           \/ SaveElapsedRaises(b) \/ FinalizeBatch(b) \/ LeaveBatchResumable(b) \/ Finish(b)
  <2>1. errors' = errors /\ pc'[b] \in {"shard", "finish"} \cup Ended
    BY <1>6
       DEF OpenBrowser, OpenFails, LeaveLoop, SkipFinalized, CallRaises, SaveElapsedRaises,
           FinalizeBatch, LeaveBatchResumable, CloseBatch, Finish, GoTo, TypeOK, fetches, Ended
  <2> QED
    BY <1>1, <1>2, <2>1 DEF LimitInv, Ended
<1> QED
  BY <1>4, <1>5, <1>6, CallLimit, CutoffLimit DEF WorkerStep

LEMMA FewStillMissing ==
  ASSUME TypeOK, RunInv, MissingInv, NEW b \in Browsers, WorkerStep(b)
  PROVE  FinalMissesFew'
<1>1. FilesGrow(b)
  BY WorkerFrame
<1> SUFFICES ASSUME NEW s \in final'
             PROVE  Cardinality(AssignedIds[s] \ terminal') < MaxBrowserErrors
  BY DEF FinalMissesFew
<1>2. MaxBrowserErrors \in Nat \ {0} /\ AssignedIds \in [Shards -> SUBSET Ids]
  BY BoundsAssumption, PartitionAssumption DEF BoundsAssumption, PartitionAssumption
<1>3. CASE s \in final
  <2>1. AssignedIds[s] \ terminal' \subseteq AssignedIds[s] \ terminal
    BY <1>1 DEF FilesGrow
  <2>2. Cardinality(AssignedIds[s] \ terminal) < MaxBrowserErrors
    BY <1>3 DEF MissingInv, FinalMissesFew
  <2>3. AssignedIds[s] \ terminal \in SUBSET Ids
    BY <1>2, <1>3 DEF TypeOK
  <2>4. IsFiniteSet(AssignedIds[s] \ terminal)
    BY <2>3, BoundsAssumption, FS_Subset DEF BoundsAssumption
  <2>5. /\ Cardinality(AssignedIds[s] \ terminal') <= Cardinality(AssignedIds[s] \ terminal)
        /\ Cardinality(AssignedIds[s] \ terminal') \in Nat
        /\ Cardinality(AssignedIds[s] \ terminal) \in Nat
    BY <2>1, <2>4, FS_Subset, FS_CardinalityType
  <2> QED
    BY <1>2, <2>2, <2>5
<1>4. CASE s \notin final
  <2>1. FinalizeBatch(b)
    BY <1>4
       DEF WorkerStep, OpenBrowser, OpenFails, LeaveLoop, SkipFinalized, OpenBatch,
           BatchExhausted, StopBeforeCall, StartCall, ProcessFetchChunk, CallRaises,
           AppendErrorJournal, ReadCutoff, AppendTerminalMetrics, RecordTerminal, EndCall,
           SaveElapsedRaises, LeaveBatchResumable, Finish
  <2>2. /\ pc[b] = "finalize" /\ complete[b] /\ s = Shard(b)
        /\ terminal' = terminal \cup unsynced[b]
    BY <1>4, <2>1 DEF FinalizeBatch, CloseBatch, GoTo
  <2>3. todo[b] = {} /\ chunk[b] = {} /\ Held(b) = {}
    BY <2>2 DEF RunInv, WorkerInv, BatchAccounted, Held
  <2>4. AssignedIds[s] \ terminal' = GivenUp(b)
    BY <2>2, <2>3 DEF GivenUp
  <2>5. Cardinality(GivenUp(b)) <= errors[b] /\ errors[b] < MaxBrowserErrors
    BY <2>2 DEF MissingInv, LimitInv
  <2>6. errors[b] \in Nat /\ GivenUp(b) \in SUBSET Ids
    BY <2>2, GivenUpType DEF TypeOK, InBatch
  <2>7. Cardinality(GivenUp(b)) \in Nat
    BY <2>5, <2>6, FewerIds
  <2> QED
    BY <1>2, <2>4, <2>5, <2>6, <2>7
<1> QED
  BY <1>3, <1>4

LEMMA ForgottenLimit ==
  ASSUME TypeOK, MissingInv, Forget, final' = final, terminal \subseteq terminal'
  PROVE  MissingInv'
<1>1. MaxBrowserErrors \in Nat \ {0} /\ AssignedIds \in [Shards -> SUBSET Ids]
  BY BoundsAssumption, PartitionAssumption DEF BoundsAssumption, PartitionAssumption
<1>2. ASSUME NEW b \in Browsers PROVE LimitInv(b)'
  <2>1. errors'[b] = 0 /\ pc'[b] = "open"
    BY DEF Forget
  <2> QED
    BY <1>1, <2>1 DEF LimitInv
<1>3. ASSUME NEW s \in final
      PROVE  Cardinality(AssignedIds[s] \ terminal') < MaxBrowserErrors
  <2>1. AssignedIds[s] \ terminal \in SUBSET Ids
    BY <1>1, <1>3 DEF TypeOK
  <2>2. IsFiniteSet(AssignedIds[s] \ terminal)
    BY <2>1, BoundsAssumption, FS_Subset DEF BoundsAssumption
  <2>3. AssignedIds[s] \ terminal' \subseteq AssignedIds[s] \ terminal
    OBVIOUS
  <2>4. /\ Cardinality(AssignedIds[s] \ terminal') <= Cardinality(AssignedIds[s] \ terminal)
        /\ Cardinality(AssignedIds[s] \ terminal') \in Nat
        /\ Cardinality(AssignedIds[s] \ terminal) \in Nat
    BY <2>2, <2>3, FS_Subset, FS_CardinalityType
  <2>5. Cardinality(AssignedIds[s] \ terminal) < MaxBrowserErrors
    BY <1>3 DEF MissingInv, FinalMissesFew
  <2> QED
    BY <1>1, <2>4, <2>5
<1> QED
  BY <1>2, <1>3 DEF MissingInv, FinalMissesFew

LEMMA LimitStutter ==
  ASSUME MissingInv, UNCHANGED <<stop, workers, journals, final>>
  PROVE  MissingInv'
<1> USE DEF workers, fetches, batches, journals
<1>1. ASSUME NEW b \in Browsers PROVE LimitInv(b)'
  <2>1. GivenUp(b)' = GivenUp(b)
    BY DEF GivenUp, Held, ErrorIds, Shard
  <2> QED
    BY <2>1 DEF MissingInv, LimitInv
<1> QED
  BY <1>1 DEF MissingInv, FinalMissesFew

(* A final batch misses fewer IDs than the error limit, in every attempt   *)
(* and after any number of kills: without a stop each ID given up is one   *)
(* error of the attempt that finalized the batch.                          *)
THEOREM FinalMissesLittle == Spec => []FinalMissesFew
<1>1. Init => MissingInv
  BY BoundsAssumption DEF Init, MissingInv, LimitInv, FinalMissesFew, BoundsAssumption
<1>2. ASSUME TypeOK, TypeOK', RunInv, MissingInv, [Next]_vars PROVE MissingInv'
  <2>1. ASSUME NEW b \in Browsers, WorkerStep(b) PROVE MissingInv'
    BY <1>2, <2>1, OthersLimit, LimitStep, FewStillMissing DEF MissingInv
  <2>2. CASE WriteSummary \/ JoinRaises \/ Crash
    <3>1. Forget /\ final' = final /\ terminal \subseteq terminal'
      BY <2>2 DEF WriteSummary, JoinRaises, Crash, journals
    <3> QED
      BY <1>2, <3>1, ForgottenLimit
  <2>3. CASE Resume \/ Tick \/ UNCHANGED vars
    <3>1. UNCHANGED <<stop, workers, journals, final>>
      BY <2>3 DEF Resume, Tick, vars
    <3> QED
      BY <1>2, <3>1, LimitStutter
  <2> QED
    BY <1>2, <2>1, <2>2, <2>3 DEF Next
<1>3. MissingInv => FinalMissesFew
  BY DEF MissingInv
<1> QED
  BY <1>1, <1>2, <1>3, TypeCorrect, RunInvariant, PTL DEF Spec

=============================================================================
