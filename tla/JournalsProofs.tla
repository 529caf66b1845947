--------------------------- MODULE JournalsProofs ---------------------------
(***************************************************************************)
(* What a kill can cost the metrics and error journals of Journals: an     *)
(* inductive invariant, for any batch, any number of kills and any size of *)
(* call and sync interval.  RerunProofs uses it, since Rerun is the        *)
(* specification whose steps are those of Journals.                        *)
(***************************************************************************)
EXTENDS Journals, FiniteSetTheorems, TLAPS

JournalValues == [lines : SUBSET Ids, open : BOOLEAN, tail : SUBSET Ids]

WorkerTypes ==
  /\ pc \in {"down", "chunk", "errors", "metrics", "record"}
  /\ todo \subseteq Ids
  /\ failed \subseteq Ids
  /\ safe \in [Kinds -> SUBSET Ids]
  /\ unsynced \in [Kinds -> SUBSET Ids]
  /\ checkpoint \in [Kinds -> SUBSET Ids]
  /\ metricRows \in JournalValues
  /\ metricLines \in Nat
  /\ errorRows \in JournalValues
  /\ kills \in Nat

(* A batch that nobody works on has nothing in memory, and a final batch   *)
(* is one that nobody works on.                                            *)
DownInv ==
  /\ pc = "down" => todo = {} /\ failed = {} /\ IdsIn(safe) = {} /\ IdsIn(unsynced) = {}
  /\ pc # "errors" => failed = {}
  /\ pc \in {"down", "chunk"} => IdsIn(safe) = {} /\ ~stopped
  /\ final => pc = "down"

(* A journal that has not ended its last line costs one more ID.           *)
OpenLines(journal) == IF journal.open THEN 1 ELSE 0

(* IDs whose metrics rows were written because they are to be recorded.    *)
Recorded == Terminal \cup IdsIn(unsynced)
Measured == Recorded \cup (IF pc = "record" THEN IdsIn(safe) ELSE {})

(* The rows of measured IDs that cannot be read, and the one that an open  *)
(* line will cost, were paid for by kills.                                 *)
MetricsInv ==
  Cardinality(Measured \ metricRows.lines) + OpenLines(metricRows) <= kills

(* What an attempt has neither left to do nor got nor written down.        *)
OutOfSight ==
  Ids \ (Recorded \cup todo \cup failed \cup IdsIn(safe) \cup errorRows.lines)

(* An attempt loses sight of one ID at most, and of none if its first row  *)
(* in the error journal begins a line of its own.                          *)
ErrorsInv ==
  /\ errorRows.open => kills > 0
  /\ pc # "down" /\ ~stopped =>
       /\ Cardinality(OutOfSight) + OpenLines(errorRows) <= 1
       /\ kills = 0 => OutOfSight = {}
  /\ final =>
       /\ Cardinality(Ids \ (Terminal \cup errorRows.lines)) <= 1
       /\ kills = 0 => Ids \subseteq Terminal \cup errorRows.lines

(* What the worker may lose with its memory, and what it will measure, is  *)
(* bounded, and nothing is measured twice within an attempt.               *)
HandInv ==
  /\ Cardinality(IdsIn(unsynced)) < SyncInterval
  /\ Cardinality(IdsIn(safe)) <= CallSize
  /\ todo \cap (Recorded \cup IdsIn(safe)) = {}
  /\ pc \in {"errors", "metrics"} => IdsIn(safe) \cap Recorded = {}

LostWithAKill == CallSize + SyncInterval - 1

(* There is a row for each measured ID, and the other rows were paid for.  *)
RowsInv ==
  /\ Cardinality(Measured) <= metricLines
  /\ metricLines <= Cardinality(Measured) + kills * LostWithAKill

WorkerInv ==
  WorkerTypes /\ DownInv /\ MetricsInv /\ ErrorsInv /\ HandInv /\ RowsInv

-----------------------------------------------------------------------------
(* Finite sets of IDs.                                                     *)

(* The IDs of a batch can be counted.                                      *)
LEMMA IdsAreFinite ==
  ASSUME NEW S \in SUBSET Ids
  PROVE  IsFiniteSet(S) /\ Cardinality(S) \in Nat
BY JournalsAssumption, FS_Subset, FS_CardinalityType DEF JournalsAssumption

LEMMA FewerIds ==
  ASSUME NEW T \in SUBSET Ids, NEW S \in SUBSET T
  PROVE  Cardinality(S) <= Cardinality(T)
BY IdsAreFinite, FS_Subset

(* All but one of them is at most one more.                                *)
LEMMA OneMoreId ==
  ASSUME NEW S \in SUBSET Ids, NEW T \in SUBSET Ids, NEW x, S \subseteq T \cup {x}
  PROVE  Cardinality(S) <= Cardinality(T) + 1
<1>1. S \ {x} \subseteq T
  OBVIOUS
<1>2. Cardinality(S \ {x}) <= Cardinality(T)
  BY <1>1, FewerIds
<1>3. Cardinality(S) <= Cardinality(S \ {x}) + 1
  BY IdsAreFinite, FS_RemoveElement
<1> QED
  BY <1>2, <1>3, IdsAreFinite

LEMMA UnionOfIds ==
  ASSUME NEW S \in SUBSET Ids, NEW T \in SUBSET Ids
  PROVE  /\ Cardinality(S \cup T) <= Cardinality(S) + Cardinality(T)
         /\ S \cap T = {} => Cardinality(S \cup T) = Cardinality(S) + Cardinality(T)
<1>1. IsFiniteSet(S) /\ IsFiniteSet(T) /\ S \cap T \in SUBSET Ids
  BY IdsAreFinite
<1>2. Cardinality(S \cup T) = Cardinality(S) + Cardinality(T) - Cardinality(S \cap T)
  BY <1>1, FS_Union
<1>3. Cardinality(S \cap T) \in Nat /\ Cardinality(S) \in Nat /\ Cardinality(T) \in Nat
  BY IdsAreFinite
<1>4. S \cap T = {} => Cardinality(S \cap T) = 0
  BY FS_EmptySet
<1> QED
  BY <1>2, <1>3, <1>4

LEMMA NoIds == Cardinality({}) = 0
BY FS_EmptySet

(* The lesser of one and a number of kills.                                *)
LEMMA AtMostOne ==
  ASSUME NEW n \in Nat
  PROVE  Min({1, n}) = IF n = 0 THEN 0 ELSE 1
<1> DEFINE least == IF n = 0 THEN 0 ELSE 1
<1>1. least \in {1, n} /\ \A y \in {1, n} : least <= y
  OBVIOUS
<1>2. \A x \in {1, n} : (\A y \in {1, n} : x <= y) => x = least
  OBVIOUS
<1> HIDE DEF least
<1> QED
  BY <1>1, <1>2 DEF Min, least

-----------------------------------------------------------------------------
(* Journals.                                                               *)

(* Appending keeps what could be read in ended lines, ends the last line,  *)
(* and costs one row at most, none if the last line had ended.             *)
LEMMA AppendedJournal ==
  ASSUME NEW j \in JournalValues, NEW R \in SUBSET Ids, NEW k \in Appended(j, R)
  PROVE  /\ k \in JournalValues
         /\ j.lines \subseteq k.lines
         /\ k.lines \subseteq j.lines \cup R
         /\ R = {} => k = j
         /\ R # {} => ~k.open
         /\ ~j.open => R \subseteq k.lines
         /\ \E x : R \subseteq k.lines \cup {x}
<1>1. CASE R = {}
  BY <1>1 DEF Appended
<1>2. CASE R # {}
  <2>1. PICK first \in R :
          k = [lines |-> j.lines \cup (IF j.open THEN R \ {first} ELSE R),
               open |-> FALSE, tail |-> {}]
    BY <1>2 DEF Appended
  <2>2. j.lines \subseteq Ids
    BY DEF JournalValues
  <2>3. k.lines = j.lines \cup (IF j.open THEN R \ {first} ELSE R) /\ ~k.open
    BY <2>1
  <2>4. k \in JournalValues
    BY <2>1, <2>2 DEF JournalValues
  <2>5. R \subseteq k.lines \cup {first}
    BY <2>3
  <2> QED
    BY <1>2, <2>3, <2>4, <2>5
<1> QED
  BY <1>1, <1>2

(* A kill keeps ended lines too, and ends no more lines than there were    *)
(* rows to write.                                                          *)
LEMMA CutShortJournal ==
  ASSUME NEW j \in JournalValues, NEW R \in SUBSET Ids, NEW left \in CutShort(j, R)
  PROVE  /\ left[1] \in JournalValues
         /\ j.lines \subseteq left[1].lines
         /\ left[2] \in Nat
         /\ left[2] <= Cardinality(R)
         /\ R = {} => left[1] = j
<1> DEFINE cut(whole) ==
             LET next == {{}} \cup {{i} : i \in R \ whole}
             IN  Appended(j, whole) \cup
                   (IF whole = R THEN {}
                    ELSE {WithTail(before, t) : before \in Appended(j, whole), t \in next})
<1>1. PICK whole \in SUBSET R : left \in cut(whole) \X {Cardinality(whole)}
  BY DEF CutShort
<1>2. left[1] \in cut(whole) /\ left[2] = Cardinality(whole)
  BY <1>1
<1>3. PICK before \in Appended(j, whole) :
        \/ left[1] = before
        \/ whole # R /\ \E t \in SUBSET Ids : left[1] = WithTail(before, t)
  BY <1>2
<1>4. before \in JournalValues /\ j.lines \subseteq before.lines /\ (whole = {} => before = j)
  BY AppendedJournal
<1>5. left[1] \in JournalValues /\ left[1].lines = before.lines
  BY <1>3, <1>4 DEF WithTail, JournalValues
<1>6. left[2] \in Nat /\ left[2] <= Cardinality(R)
  BY <1>2, IdsAreFinite, FewerIds
<1> QED
  BY <1>3, <1>4, <1>5, <1>6

-----------------------------------------------------------------------------
LEMMA InitWorker == Init => WorkerInv
<1> SUFFICES ASSUME Init PROVE WorkerInv
  OBVIOUS
<1> USE JournalsAssumption DEF JournalsAssumption, Init
<1>1. WorkerTypes /\ DownInv
  BY DEF WorkerTypes, DownInv, JournalValues, EmptyJournal, IdsIn, Kinds
<1>2. Recorded = {} /\ Measured = {} /\ IdsIn(safe) = {} /\ IdsIn(unsynced) = {}
  BY DEF Recorded, Measured, Terminal, IdsIn, Kinds
<1>3. MetricsInv /\ RowsInv /\ HandInv
  <2>1. OpenLines(metricRows) = 0 /\ {} \ metricRows.lines = {}
    BY DEF EmptyJournal, OpenLines
  <2>2. 0 * LostWithAKill = 0
    BY DEF LostWithAKill
  <2>3. MetricsInv
    BY <1>2, <2>1, NoIds DEF MetricsInv
  <2>4. RowsInv
    BY <1>2, <2>2, NoIds DEF RowsInv
  <2>5. HandInv
    <3>1. todo = {} /\ pc = "down" /\ 0 < SyncInterval /\ 0 <= CallSize
      OBVIOUS
    <3> HIDE DEF Init
    <3> QED
      BY <1>2, <3>1, NoIds DEF HandInv
  <2> QED
    BY <2>3, <2>4, <2>5
<1>4. ErrorsInv
  BY DEF ErrorsInv, EmptyJournal
<1> QED
  BY <1>1, <1>3, <1>4 DEF WorkerInv

(* The sets the invariant counts are sets of IDs.                          *)
LEMMA CountedSets ==
  ASSUME WorkerTypes
  PROVE  /\ IdsIn(safe) \subseteq Ids /\ IdsIn(unsynced) \subseteq Ids /\ Terminal \subseteq Ids
         /\ Recorded \subseteq Ids /\ Measured \subseteq Ids /\ OutOfSight \subseteq Ids
         /\ metricRows.lines \subseteq Ids /\ errorRows.lines \subseteq Ids
BY DEF WorkerTypes, IdsIn, Kinds, Terminal, Recorded, Measured, OutOfSight, JournalValues

LEMMA BeginKeeps ==
  ASSUME WorkerInv, Begin
  PROVE  WorkerInv'
<1> USE DEF Begin, WorkerInv, call, rows, metrics
<1>1. /\ IdsIn(safe) = {} /\ IdsIn(unsynced) = {}
      /\ IdsIn(safe)' = IdsIn(safe) /\ IdsIn(unsynced)' = IdsIn(unsynced)
      /\ Terminal' = Terminal /\ failed = {} /\ ~stopped
  BY DEF DownInv, IdsIn, Terminal
<1>2. Recorded' = Recorded /\ Recorded = Terminal /\ Measured' = Measured
  BY <1>1 DEF Recorded, Measured
<1>3. WorkerTypes' /\ DownInv'
  BY <1>1 DEF WorkerTypes, DownInv, Pending
<1>4. MetricsInv' /\ RowsInv'
  BY <1>2 DEF MetricsInv, RowsInv
<1>5. HandInv'
  BY <1>1, <1>2 DEF HandInv, Pending
<1>6. OutOfSight' = {}
  BY <1>1, <1>2 DEF OutOfSight, Pending, Recorded
<1>7. ErrorsInv'
  BY <1>6, NoIds DEF ErrorsInv, OpenLines
<1> QED
  BY <1>3, <1>4, <1>5, <1>7

LEMMA FetchKeeps ==
  ASSUME WorkerInv, Fetch
  PROVE  WorkerInv'
<1> USE DEF WorkerInv
<1>0. PICK c \in Calls : \E class \in [c -> Classes] :
        LET of(k) == {i \in c : class[i] = k}
        IN  /\ todo' = todo \ c
            /\ failed' = of("error")
            /\ stopped' \in BOOLEAN
            /\ of("waf") # {} => stopped'
            /\ safe' \in [Kinds -> SUBSET c]
            /\ \A k \in Kinds : safe'[k] \subseteq of(k) /\ (stopped' \/ safe'[k] = of(k))
  BY DEF Fetch
<1>1. PICK class \in [c -> Classes] :
        LET of(k) == {i \in c : class[i] = k}
        IN  /\ todo' = todo \ c
            /\ failed' = of("error")
            /\ stopped' \in BOOLEAN
            /\ of("waf") # {} => stopped'
            /\ safe' \in [Kinds -> SUBSET c]
            /\ \A k \in Kinds : safe'[k] \subseteq of(k) /\ (stopped' \/ safe'[k] = of(k))
  BY <1>0
<1>2. /\ pc = "chunk" /\ pc' = "errors"
      /\ UNCHANGED <<unsynced, checkpoint, metricRows, metricLines, errorRows, final, kills>>
  BY DEF Fetch, rows, metrics
<1>3. IdsIn(safe) = {} /\ failed = {} /\ ~stopped /\ ~final
  BY <1>2 DEF DownInv
<1>4. c \subseteq todo /\ c \subseteq Ids /\ Cardinality(c) <= CallSize
  <2>1. c \subseteq todo /\ c \subseteq Ids /\ todo \subseteq Ids
        /\ Cardinality(c) = Min({CallSize, Cardinality(todo)})
    BY <1>1 DEF Calls, WorkerTypes
  <2>2. Cardinality(todo) \in Nat /\ CallSize \in Nat
    BY <2>1, IdsAreFinite, JournalsAssumption DEF JournalsAssumption
  <2>3. Min({CallSize, Cardinality(todo)}) <= CallSize
    <3> DEFINE n == Cardinality(todo)
    <3>1. \E x \in {CallSize, n} : \A y \in {CallSize, n} : x <= y
      BY <2>2
    <3> QED
      BY <2>2, <3>1 DEF Min
  <2> QED
    BY <2>1, <2>3
<1>5. /\ IdsIn(safe)' \subseteq c
      /\ ~stopped' => c \subseteq IdsIn(safe)' \cup failed'
  <2>1. IdsIn(safe)' \subseteq c
    BY <1>1 DEF IdsIn, Kinds
  <2>2. ASSUME ~stopped', NEW i \in c PROVE i \in IdsIn(safe)' \cup failed'
    BY <1>1, <2>2 DEF IdsIn, Kinds, Classes
  <2> QED
    BY <2>1, <2>2
<1>6. /\ Recorded' = Recorded /\ Measured' = Measured /\ Terminal' = Terminal
      /\ IdsIn(unsynced)' = IdsIn(unsynced)
  BY <1>2 DEF Recorded, Measured, Terminal, IdsIn
<1>7. WorkerTypes'
  BY <1>1, <1>2, <1>4 DEF WorkerTypes, Kinds
<1>8. DownInv' /\ MetricsInv' /\ RowsInv'
  BY <1>2, <1>3, <1>6 DEF DownInv, MetricsInv, RowsInv
<1>9. HandInv'
  <2>1. Cardinality(IdsIn(safe)') <= CallSize
    <3>1. Cardinality(IdsIn(safe)') <= Cardinality(c)
      BY <1>4, <1>5, FewerIds
    <3>2. IdsIn(safe)' \subseteq Ids
      BY <1>4, <1>5
    <3> QED
      BY <1>4, <3>1, <3>2, IdsAreFinite, JournalsAssumption DEF JournalsAssumption
  <2>2. todo' \subseteq todo /\ todo' \cap c = {} /\ todo \cap Recorded = {}
    BY <1>1 DEF HandInv
  <2> QED
    BY <1>2, <1>4, <1>5, <1>6, <2>1, <2>2 DEF HandInv
<1>10. ErrorsInv'
  <2>1. ~stopped' => OutOfSight' \subseteq OutOfSight
    BY <1>1, <1>2, <1>3, <1>5, <1>6 DEF OutOfSight
  <2>2. ~stopped' => /\ Cardinality(OutOfSight') <= Cardinality(OutOfSight)
                     /\ Cardinality(OutOfSight') \in Nat /\ Cardinality(OutOfSight) \in Nat
    BY <2>1, CountedSets, FewerIds, IdsAreFinite
  <2> QED
    BY <1>2, <1>3, <2>1, <2>2 DEF ErrorsInv, OpenLines
<1> QED
  BY <1>7, <1>8, <1>9, <1>10

LEMMA AppendErrorsKeeps ==
  ASSUME WorkerInv, AppendErrorJournal
  PROVE  WorkerInv'
<1> USE DEF WorkerInv
<1>1. /\ pc = "errors" /\ pc' = "metrics" /\ failed' = {}
      /\ errorRows' \in Appended(errorRows, failed)
      /\ UNCHANGED <<todo, safe, stopped, unsynced, checkpoint, metricRows, metricLines, final, kills>>
  BY DEF AppendErrorJournal, metrics
<1>2. /\ Recorded' = Recorded /\ Measured' = Measured /\ Terminal' = Terminal
      /\ IdsIn(unsynced)' = IdsIn(unsynced) /\ IdsIn(safe)' = IdsIn(safe)
  BY <1>1 DEF Recorded, Measured, Terminal, IdsIn
<1>3. failed \subseteq Ids /\ errorRows \in JournalValues
  BY DEF WorkerTypes
<1>4. /\ errorRows' \in JournalValues /\ errorRows.lines \subseteq errorRows'.lines
      /\ failed = {} => errorRows' = errorRows
      /\ failed # {} => ~errorRows'.open
      /\ ~errorRows.open => failed \subseteq errorRows'.lines
      /\ \E x : failed \subseteq errorRows'.lines \cup {x}
  BY <1>1, <1>3, AppendedJournal
<1>5. WorkerTypes' /\ DownInv'
  BY <1>1, <1>2, <1>4 DEF WorkerTypes, DownInv
<1>6. MetricsInv' /\ RowsInv' /\ HandInv'
  BY <1>1, <1>2 DEF MetricsInv, RowsInv, HandInv
<1>7. ErrorsInv'
  <2>1. PICK x : failed \subseteq errorRows'.lines \cup {x}
    BY <1>4
  <2>2. OutOfSight' \subseteq OutOfSight \cup {x} /\ (failed = {} \/ ~errorRows.open => OutOfSight' \subseteq OutOfSight)
    BY <1>1, <1>2, <1>4, <2>1 DEF OutOfSight
  <2>3. /\ Cardinality(OutOfSight') \in Nat /\ Cardinality(OutOfSight) \in Nat
        /\ Cardinality(OutOfSight') <= Cardinality(OutOfSight) + 1
        /\ failed = {} \/ ~errorRows.open => Cardinality(OutOfSight') <= Cardinality(OutOfSight)
    <3>1. OutOfSight \subseteq Ids /\ OutOfSight' \subseteq Ids
      BY DEF OutOfSight
    <3> QED
      BY <2>2, <3>1, OneMoreId, FewerIds, IdsAreFinite
  <2>4. ~final
    BY <1>1 DEF DownInv
  <2>5. CASE failed = {} \/ ~errorRows.open
    <3>1. errorRows'.open => errorRows.open
      BY <1>4, <2>5
    <3> QED
      BY <1>1, <2>2, <2>3, <2>4, <2>5, <3>1 DEF ErrorsInv, OpenLines, WorkerTypes
  <2>6. CASE failed # {} /\ errorRows.open
    BY <1>1, <1>4, <2>3, <2>4, <2>6 DEF ErrorsInv, OpenLines, WorkerTypes
  <2> QED
    BY <2>5, <2>6
<1> QED
  BY <1>5, <1>6, <1>7

LEMMA AppendMetricsKeeps ==
  ASSUME WorkerInv, AppendTerminalMetrics
  PROVE  WorkerInv'
<1> USE DEF WorkerInv
<1> DEFINE R == IdsIn(safe)
<1>1. /\ pc = "metrics" /\ pc' = "record"
      /\ metricRows' \in Appended(metricRows, R)
      /\ metricLines' = metricLines + Cardinality(R)
      /\ UNCHANGED <<todo, failed, safe, stopped, unsynced, checkpoint, errorRows, final, kills>>
  BY DEF AppendTerminalMetrics, call, MetricsOf
<1>2. /\ Recorded' = Recorded /\ Terminal' = Terminal /\ OutOfSight' = OutOfSight
      /\ IdsIn(unsynced)' = IdsIn(unsynced) /\ IdsIn(safe)' = R
      /\ Measured = Recorded /\ Measured' = Measured \cup R /\ Measured \cap R = {}
  BY <1>1 DEF Recorded, Measured, Terminal, IdsIn, OutOfSight, HandInv
<1>3. R \subseteq Ids /\ metricRows \in JournalValues /\ Measured \subseteq Ids
  BY CountedSets DEF WorkerTypes
<1>4. /\ metricRows' \in JournalValues /\ metricRows.lines \subseteq metricRows'.lines
      /\ R = {} => metricRows' = metricRows
      /\ R # {} => ~metricRows'.open
      /\ ~metricRows.open => R \subseteq metricRows'.lines
      /\ \E x : R \subseteq metricRows'.lines \cup {x}
  BY <1>1, <1>3, AppendedJournal
<1>5. Cardinality(R) \in Nat /\ Cardinality(Measured) \in Nat /\ Cardinality(Measured') \in Nat
      /\ Cardinality(Measured') = Cardinality(Measured) + Cardinality(R)
  BY <1>2, <1>3, UnionOfIds, IdsAreFinite
<1> HIDE DEF R
<1>6. WorkerTypes' /\ DownInv'
  BY <1>1, <1>2, <1>4, <1>5 DEF WorkerTypes, DownInv
<1>7. ErrorsInv' /\ HandInv'
  BY <1>1, <1>2 DEF ErrorsInv, HandInv, R
<1>8. RowsInv'
  <2>1. kills * LostWithAKill \in Nat
    BY JournalsAssumption DEF JournalsAssumption, LostWithAKill, WorkerTypes
  <2>2. (kills * LostWithAKill)' = kills * LostWithAKill
    BY <1>1 DEF LostWithAKill
  <2> DEFINE paid == kills * LostWithAKill
  <2>3. /\ Cardinality(Measured) <= metricLines /\ metricLines <= Cardinality(Measured) + paid
        /\ metricLines \in Nat
    BY DEF RowsInv, WorkerTypes
  <2>4. /\ Cardinality(Measured') <= metricLines'
        /\ metricLines' <= Cardinality(Measured') + paid
    <3> HIDE DEF paid
    <3> QED
      BY <1>1, <1>5, <2>1, <2>3 DEF paid
  <2> QED
    BY <2>2, <2>4 DEF RowsInv
<1>9. MetricsInv'
  <2> DEFINE old == Measured \ metricRows.lines
             new == Measured' \ metricRows'.lines
  <2>1. PICK x : R \subseteq metricRows'.lines \cup {x}
    BY <1>4
  <2>2. /\ new \subseteq old \cup {x} /\ old \subseteq Ids /\ new \subseteq Ids
        /\ R = {} \/ ~metricRows.open => new \subseteq old
    BY <1>2, <1>3, <1>4, <2>1
  <2> HIDE DEF old, new
  <2>3. /\ Cardinality(new) \in Nat /\ Cardinality(old) \in Nat
        /\ Cardinality(new) <= Cardinality(old) + 1
        /\ R = {} \/ ~metricRows.open => Cardinality(new) <= Cardinality(old)
    BY <2>2, OneMoreId, FewerIds, IdsAreFinite
  <2>4. Cardinality(old) + OpenLines(metricRows) <= kills
    BY DEF MetricsInv, old
  <2>5. Cardinality(new) + OpenLines(metricRows') <= kills'
    BY <1>1, <1>4, <2>3, <2>4 DEF OpenLines, WorkerTypes
  <2> QED
    BY <2>5 DEF MetricsInv, new, OpenLines
<1> QED
  BY <1>6, <1>7, <1>8, <1>9

LEMMA RecordKeeps ==
  ASSUME WorkerInv, NEW i \in Ids, NEW k \in Kinds, Record(i, k)
  PROVE  WorkerInv'
<1> USE DEF WorkerInv
<1> DEFINE appended == [unsynced EXCEPT ![k] = @ \cup {i}]
           syncs == Cardinality(IdsIn(appended)) >= SyncInterval
<1>1. /\ pc = "record" /\ pc' = "record" /\ i \in safe[k]
      /\ safe' = [safe EXCEPT ![k] = @ \ {i}]
      /\ unsynced' = IF syncs THEN Nothing ELSE appended
      /\ checkpoint' = IF syncs THEN Flushed(appended) ELSE checkpoint
      /\ UNCHANGED <<todo, failed, stopped, metricRows, metricLines, errorRows, final, kills>>
  BY DEF Record, rows, metrics
<1>2. /\ safe \in [Kinds -> SUBSET Ids] /\ unsynced \in [Kinds -> SUBSET Ids]
      /\ checkpoint \in [Kinds -> SUBSET Ids]
  BY DEF WorkerTypes
<1>3. /\ IdsIn(safe)' \subseteq IdsIn(safe) /\ i \in IdsIn(safe)
      /\ IdsIn(safe) \subseteq IdsIn(safe)' \cup {i}
  BY <1>1, <1>2 DEF IdsIn, Kinds
<1>4. appended \in [Kinds -> SUBSET Ids] /\ IdsIn(appended) = IdsIn(unsynced) \cup {i}
  BY <1>2 DEF IdsIn, Kinds
<1>5. Recorded' = Recorded \cup {i}
  <2>1. CASE syncs
    <3>1. checkpoint' = Flushed(appended) /\ unsynced' = Nothing
      BY <1>1, <2>1
    <3>2. Terminal' = Terminal \cup IdsIn(appended) /\ IdsIn(unsynced)' = {}
      BY <1>2, <1>4, <3>1 DEF Terminal, IdsIn, Flushed, Nothing, Kinds
    <3> QED
      BY <1>4, <3>2 DEF Recorded
  <2>2. CASE ~syncs
    BY <1>1, <1>4, <2>2 DEF Recorded, Terminal, IdsIn
  <2> QED
    BY <2>1, <2>2
<1>6. Cardinality(IdsIn(unsynced)') < SyncInterval
  <2>1. CASE syncs
    <3>1. IdsIn(unsynced)' = {}
      BY <1>1, <2>1 DEF IdsIn, Nothing, Kinds
    <3> QED
      BY <3>1, NoIds, JournalsAssumption DEF JournalsAssumption
  <2>2. CASE ~syncs
    <3>1. IdsIn(unsynced)' = IdsIn(appended) /\ IdsIn(appended) \subseteq Ids
      BY <1>1, <1>4, <2>2, CountedSets DEF IdsIn
    <3>2. Cardinality(IdsIn(appended)) \in Nat
      BY <3>1, IdsAreFinite
    <3> QED
      BY <2>2, <3>1, <3>2, JournalsAssumption DEF JournalsAssumption
  <2> QED
    BY <2>1, <2>2
<1>7. checkpoint' \in [Kinds -> SUBSET Ids] /\ unsynced' \in [Kinds -> SUBSET Ids]
      /\ safe' \in [Kinds -> SUBSET Ids]
  BY <1>1, <1>2, <1>4 DEF Flushed, Nothing
<1> HIDE DEF appended, syncs
<1>8. Measured' = Measured /\ OutOfSight' = OutOfSight /\ ~final
  BY <1>1, <1>3, <1>5 DEF Measured, OutOfSight, DownInv
<1>9. WorkerTypes' /\ DownInv'
  BY <1>1, <1>7, <1>8 DEF WorkerTypes, DownInv
<1>10. MetricsInv' /\ RowsInv' /\ ErrorsInv'
  BY <1>1, <1>8 DEF MetricsInv, RowsInv, ErrorsInv, LostWithAKill
<1>11. HandInv'
  <2>1. Cardinality(IdsIn(safe)') <= CallSize
    <3>1. IdsIn(safe) \subseteq Ids /\ IdsIn(safe)' \subseteq Ids
      BY <1>3, CountedSets
    <3>2. Cardinality(IdsIn(safe)') <= Cardinality(IdsIn(safe))
      BY <1>3, <3>1, FewerIds
    <3> QED
      BY <3>1, <3>2, IdsAreFinite, JournalsAssumption DEF JournalsAssumption, HandInv
  <2> QED
    BY <1>1, <1>3, <1>5, <1>6, <2>1 DEF HandInv
<1> QED
  BY <1>9, <1>10, <1>11

LEMMA EndCallKeeps ==
  ASSUME WorkerInv, EndCall
  PROVE  WorkerInv'
<1> USE DEF WorkerInv
<1>1. /\ pc = "record" /\ pc' = "chunk" /\ IdsIn(safe) = {} /\ ~stopped
      /\ UNCHANGED <<todo, failed, safe, stopped, unsynced, checkpoint, metricRows, metricLines,
                     errorRows, final, kills>>
  BY DEF EndCall, call, rows, metrics
<1>2. /\ Recorded' = Recorded /\ Measured' = Measured /\ Terminal' = Terminal
      /\ IdsIn(unsynced)' = IdsIn(unsynced) /\ IdsIn(safe)' = IdsIn(safe)
      /\ OutOfSight' = OutOfSight /\ ~final
  BY <1>1 DEF Recorded, Measured, Terminal, IdsIn, OutOfSight, DownInv
<1> QED
  BY <1>1, <1>2
     DEF WorkerTypes, DownInv, MetricsInv, RowsInv, HandInv, ErrorsInv, LostWithAKill

(* A batch is closed, and final if nothing was left to do.                 *)
LEMMA CloseKeeps ==
  ASSUME WorkerInv, LeaveResumable \/ Finalize
  PROVE  WorkerInv'
<1> USE DEF WorkerInv
<1>1. /\ pc \in {"record", "chunk"} /\ IdsIn(safe) = {} /\ pc' = "down"
      /\ todo' = {} /\ failed' = {} /\ safe' = Nothing /\ ~stopped'
      /\ checkpoint' = Flushed(unsynced) /\ unsynced' = Nothing
      /\ UNCHANGED <<metricRows, metricLines, errorRows, kills>>
  BY DEF LeaveResumable, Finalize, Close, ForgetCall, DownInv, rows, metrics
<1>2. /\ unsynced \in [Kinds -> SUBSET Ids] /\ checkpoint \in [Kinds -> SUBSET Ids]
  BY DEF WorkerTypes
<1>3. Terminal' = Recorded /\ IdsIn(unsynced)' = {} /\ IdsIn(safe)' = {}
  BY <1>1, <1>2 DEF Recorded, Terminal, IdsIn, Flushed, Nothing, Kinds
<1>4. Recorded' = Recorded /\ Measured' = Measured
  BY <1>1, <1>3 DEF Recorded, Measured
<1>5. ~final
  BY <1>1 DEF DownInv
<1>6. WorkerTypes' /\ DownInv'
  <2>1. checkpoint' \in [Kinds -> SUBSET Ids] /\ unsynced' \in [Kinds -> SUBSET Ids]
        /\ safe' \in [Kinds -> SUBSET Ids]
    BY <1>1, <1>2 DEF Flushed, Nothing
  <2> QED
    BY <1>1, <1>3, <2>1 DEF WorkerTypes, DownInv
<1>7. MetricsInv' /\ RowsInv'
  BY <1>1, <1>4 DEF MetricsInv, RowsInv, LostWithAKill
<1>8. HandInv'
  BY <1>1, <1>3, NoIds, JournalsAssumption DEF HandInv, JournalsAssumption
<1>9. ErrorsInv'
  <2>1. CASE final' = final
    BY <1>1, <1>5, <2>1 DEF ErrorsInv
  <2>2. CASE Finalize
    <3>1. pc = "chunk" /\ todo = {} /\ failed = {} /\ ~stopped
      BY <2>2 DEF Finalize, DownInv
    <3>2. OutOfSight = Ids \ (Recorded \cup errorRows.lines)
      BY <1>1, <3>1 DEF OutOfSight
    <3>3. Ids \ (Terminal' \cup errorRows'.lines) = OutOfSight
      BY <1>1, <1>3, <3>2
    <3>4. Cardinality(OutOfSight) \in Nat /\ Cardinality(OutOfSight) + OpenLines(errorRows) <= 1
          /\ (kills = 0 => OutOfSight = {})
      BY <3>1, CountedSets, IdsAreFinite DEF ErrorsInv
    <3>5. Cardinality(OutOfSight) <= 1
      BY <3>4 DEF OpenLines
    <3> QED
      BY <1>1, <3>3, <3>4, <3>5 DEF ErrorsInv
  <2> QED
    BY <2>1, <2>2 DEF LeaveResumable, Finalize
<1> QED
  BY <1>6, <1>7, <1>8, <1>9

(* A kill loses the unsynced tail and the call at hand, and leaves an open *)
(* line at most.                                                           *)
LEMMA KillKeeps ==
  ASSUME WorkerInv, Kill
  PROVE  WorkerInv'
<1> USE DEF WorkerInv
<1> DEFINE R == IF pc = "metrics" THEN IdsIn(safe) ELSE {}
           X == IF pc = "record" THEN IdsIn(safe) ELSE {}
<1>1. /\ pc # "down" /\ pc' = "down" /\ kills' = kills + 1
      /\ todo' = {} /\ failed' = {} /\ safe' = Nothing /\ ~stopped' /\ unsynced' = Nothing
      /\ final' = final /\ ~final
  BY DEF Kill, ForgetCall, DownInv
<1>2. /\ checkpoint' \in [Kinds -> SUBSET (Terminal \cup IdsIn(unsynced))]
      /\ \A k \in Kinds : checkpoint[k] \subseteq checkpoint'[k]
  BY DEF Kill
<1>3. errorRows' \in JournalValues
  <2>1. PICK left \in CutShort(errorRows, IF pc = "errors" THEN failed ELSE {}) : errorRows' = left[1]
    BY DEF Kill
  <2>2. (IF pc = "errors" THEN failed ELSE {}) \in SUBSET Ids /\ errorRows \in JournalValues
    BY DEF WorkerTypes
  <2> QED
    BY <2>1, <2>2, CutShortJournal
<1>4. PICK left \in CutShort(metricRows, R) : metricRows' = left[1] /\ metricLines' = metricLines + left[2]
  BY DEF Kill, MetricsOf
<1>5. R \subseteq Ids /\ X \subseteq Ids /\ metricRows \in JournalValues
  BY CountedSets DEF WorkerTypes
<1>6. /\ metricRows' \in JournalValues /\ metricRows.lines \subseteq metricRows'.lines
      /\ left[2] \in Nat /\ left[2] <= Cardinality(R)
  BY <1>4, <1>5, CutShortJournal
<1>7. IdsIn(safe)' = {} /\ IdsIn(unsynced)' = {}
  BY <1>1 DEF IdsIn, Nothing, Kinds
<1>8. Terminal \subseteq Terminal' /\ Terminal' \subseteq Recorded
  BY <1>2 DEF Terminal, IdsIn, Kinds, Recorded
<1>9. /\ Recorded' = Terminal' /\ Measured' = Terminal'
      /\ Measured' \subseteq Measured /\ Measured \subseteq Measured' \cup IdsIn(unsynced) \cup X
  BY <1>1, <1>7, <1>8 DEF Recorded, Measured
<1>10. WorkerTypes' /\ DownInv'
  <2>1. checkpoint' \in [Kinds -> SUBSET Ids]
    BY <1>2, CountedSets
  <2>2. safe' \in [Kinds -> SUBSET Ids] /\ unsynced' \in [Kinds -> SUBSET Ids]
    BY <1>1 DEF Nothing
  <2> QED
    BY <1>1, <1>3, <1>4, <1>6, <1>7, <2>1, <2>2 DEF WorkerTypes, DownInv
<1>11. HandInv'
  BY <1>1, <1>7, NoIds, JournalsAssumption DEF HandInv, JournalsAssumption
<1>12. ErrorsInv'
  BY <1>1 DEF ErrorsInv, WorkerTypes
<1>13. MetricsInv'
  <2> DEFINE old == Measured \ metricRows.lines
             new == Measured' \ metricRows'.lines
  <2>1. new \subseteq old /\ old \subseteq Ids
    BY <1>6, <1>9, CountedSets
  <2> HIDE DEF old, new
  <2>2. Cardinality(new) \in Nat /\ Cardinality(old) \in Nat /\ Cardinality(new) <= Cardinality(old)
    BY <2>1, FewerIds, IdsAreFinite
  <2>3. Cardinality(old) + OpenLines(metricRows) <= kills
    BY DEF MetricsInv, old
  <2>4. Cardinality(new) + OpenLines(metricRows') <= kills'
    BY <1>1, <2>2, <2>3 DEF OpenLines, WorkerTypes
  <2> QED
    BY <2>4 DEF MetricsInv, new, OpenLines
<1>14. RowsInv'
  <2> DEFINE K == LostWithAKill
             before == Cardinality(Measured)
             after == Cardinality(Measured')
             tail == Cardinality(IdsIn(unsynced))
             hand == Cardinality(X)
             written == Cardinality(R)
             paid == kills * K
  <2>1. Measured \subseteq Ids /\ Measured' \subseteq Ids /\ IdsIn(unsynced) \subseteq Ids
    BY <1>9, CountedSets
  <2>2. before \in Nat /\ after \in Nat /\ tail \in Nat /\ hand \in Nat /\ written \in Nat
    BY <1>5, <2>1, IdsAreFinite
  <2>3. K \in Nat /\ K = CallSize + SyncInterval - 1 /\ CallSize \in Nat /\ SyncInterval \in Nat
    BY JournalsAssumption DEF JournalsAssumption, LostWithAKill
  <2>4. tail < SyncInterval /\ hand + written <= CallSize
    <3>1. tail < SyncInterval /\ Cardinality(IdsIn(safe)) <= CallSize
      BY DEF HandInv
    <3>2. Cardinality(IdsIn(safe)) \in Nat /\ Cardinality({}) = 0
      BY NoIds, IdsAreFinite, CountedSets
    <3>3. \/ hand = Cardinality(IdsIn(safe)) /\ written = Cardinality({})
          \/ hand = Cardinality({}) /\ written = Cardinality(IdsIn(safe))
          \/ hand = Cardinality({}) /\ written = Cardinality({})
      OBVIOUS
    <3> HIDE DEF tail, hand, written
    <3> QED
      BY <2>3, <3>1, <3>2, <3>3
  <2>5. after <= before
    BY <1>9, <2>1, FewerIds
  <2>6. before <= after + tail + hand
    <3>1. Measured' \cup IdsIn(unsynced) \subseteq Ids
      BY <2>1
    <3>2. before <= Cardinality((Measured' \cup IdsIn(unsynced)) \cup X)
      BY <1>5, <1>9, <3>1, FewerIds
    <3>3. Cardinality((Measured' \cup IdsIn(unsynced)) \cup X)
            <= Cardinality(Measured' \cup IdsIn(unsynced)) + hand
      BY <1>5, <3>1, UnionOfIds
    <3>4. Cardinality(Measured' \cup IdsIn(unsynced)) <= after + tail
      BY <2>1, UnionOfIds
    <3>5. Cardinality(Measured' \cup IdsIn(unsynced)) \in Nat
          /\ Cardinality((Measured' \cup IdsIn(unsynced)) \cup X) \in Nat
      BY <1>5, <3>1, IdsAreFinite
    <3> QED
      BY <2>2, <3>2, <3>3, <3>4, <3>5
  <2>7. paid \in Nat /\ (kills + 1) * K = paid + K /\ LostWithAKill' = K
    BY <2>3 DEF WorkerTypes, LostWithAKill
  <2>8. before <= metricLines /\ metricLines <= before + paid /\ metricLines \in Nat
    BY DEF RowsInv, WorkerTypes
  <2> HIDE DEF K, before, after, tail, hand, written, paid
  <2>9. after <= metricLines + left[2] /\ metricLines + left[2] <= after + (paid + K)
    BY <1>6, <2>2, <2>3, <2>4, <2>5, <2>6, <2>7, <2>8 DEF written
  <2> QED
    BY <1>1, <1>4, <2>7, <2>9 DEF RowsInv, after
<1> QED
  BY <1>10, <1>11, <1>12, <1>13, <1>14

LEMMA WorkerStepKeepsInv ==
  ASSUME WorkerInv, WorkerStep
  PROVE  WorkerInv'
BY BeginKeeps, FetchKeeps, AppendErrorsKeeps, AppendMetricsKeeps, RecordKeeps, EndCallKeeps,
   CloseKeeps, KillKeeps
   DEF WorkerStep

LEMMA WorkerStutterKeeps ==
  ASSUME WorkerInv, UNCHANGED workerVars
  PROVE  WorkerInv'
<1>1. UNCHANGED <<pc, todo, failed, safe, stopped, unsynced, checkpoint, metricRows, metricLines,
                  errorRows, final, kills>>
  BY DEF workerVars, call, rows, metrics
<1>2. /\ Recorded' = Recorded /\ Measured' = Measured /\ Terminal' = Terminal
      /\ IdsIn(unsynced)' = IdsIn(unsynced) /\ IdsIn(safe)' = IdsIn(safe)
      /\ OutOfSight' = OutOfSight
  BY <1>1 DEF Recorded, Measured, Terminal, IdsIn, OutOfSight
<1> QED
  BY <1>1, <1>2
     DEF WorkerInv, WorkerTypes, DownInv, MetricsInv, RowsInv, HandInv, ErrorsInv, LostWithAKill

-----------------------------------------------------------------------------
(* After any number of kills, what the journals and the checkpoint of a    *)
(* batch lack of one another is what the kills have paid for.              *)
THEOREM WorkerInvariant == Spec => []WorkerInv
<1>1. WorkerInv /\ [WorkerStep \/ Skipped]_workerVars => WorkerInv'
  BY WorkerStepKeepsInv, WorkerStutterKeeps DEF Skipped
<1> QED
  BY <1>1, InitWorker, PTL DEF Spec

LEMMA InvBoundsLatencyLoss == WorkerInv => LatencyLossBounded
<1> SUFFICES ASSUME WorkerInv PROVE LatencyLossBounded
  OBVIOUS
<1>1. Terminal \ LatencyIds \subseteq Measured \ metricRows.lines
  BY DEF LatencyIds, Readable, Measured, Recorded
<1>2. Measured \ metricRows.lines \subseteq Ids
  BY CountedSets DEF WorkerInv
<1>3. /\ Cardinality(Terminal \ LatencyIds) <= Cardinality(Measured \ metricRows.lines)
      /\ Cardinality(Terminal \ LatencyIds) \in Nat
      /\ Cardinality(Measured \ metricRows.lines) \in Nat
  BY <1>1, <1>2, FewerIds, IdsAreFinite
<1> QED
  BY <1>3 DEF WorkerInv, MetricsInv, OpenLines, LatencyLossBounded, WorkerTypes

LEMMA InvBoundsErrorLoss == WorkerInv => ErrorLossBounded
<1> SUFFICES ASSUME WorkerInv, final PROVE ErrorLossBounded
  BY DEF ErrorLossBounded
<1> DEFINE lost == Ids \ (Terminal \cup Readable(errorRows))
           all == Ids \ (Terminal \cup errorRows.lines)
<1>1. lost \subseteq all /\ all \subseteq Ids
  BY DEF Readable
<1>2. /\ Cardinality(lost) <= Cardinality(all)
      /\ Cardinality(lost) \in Nat /\ Cardinality(all) \in Nat
  BY <1>1, FewerIds, IdsAreFinite
<1>3. Cardinality(all) <= 1 /\ (kills = 0 => all = {}) /\ kills \in Nat
  BY DEF WorkerInv, ErrorsInv, WorkerTypes
<1> HIDE DEF lost, all
<1>4. Cardinality(lost) <= Min({1, kills})
  BY <1>2, <1>3, NoIds, AtMostOne
<1> QED
  BY <1>4 DEF ErrorLossBounded, lost

LEMMA InvMatchesRows == WorkerInv => RowsMatchRecords
<1> SUFFICES ASSUME WorkerInv PROVE RowsMatchRecords
  OBVIOUS
<1>1. Recorded \subseteq Measured /\ Measured \subseteq Ids
  BY CountedSets DEF Measured, WorkerInv
<1>2. /\ Cardinality(Recorded) <= Cardinality(Measured)
      /\ Cardinality(Measured) <= Cardinality(Ids)
      /\ Cardinality(Recorded) \in Nat /\ Cardinality(Measured) \in Nat /\ Cardinality(Ids) \in Nat
  BY <1>1, FewerIds, IdsAreFinite
<1> DEFINE paid == kills * LostWithAKill
<1>3. paid \in Nat
  BY JournalsAssumption DEF JournalsAssumption, LostWithAKill, WorkerInv, WorkerTypes
<1>4. /\ Cardinality(Measured) <= metricLines /\ metricLines <= Cardinality(Measured) + paid
      /\ metricLines \in Nat
  BY DEF WorkerInv, RowsInv, WorkerTypes
<1> HIDE DEF paid
<1>5. Cardinality(Recorded) <= metricLines /\ metricLines <= Cardinality(Ids) + paid
  BY <1>2, <1>3, <1>4
<1> QED
  BY <1>5 DEF RowsMatchRecords, Recorded, paid, LostWithAKill

(* One latency per kill is lost, whatever the kills fell between.          *)
THEOREM LatencyLoss == Spec => []LatencyLossBounded
BY WorkerInvariant, InvBoundsLatencyLoss, PTL

(* A final batch has lost sight of one unresolved ID at most, however      *)
(* often it was killed before.                                             *)
THEOREM ErrorLoss == Spec => []ErrorLossBounded
BY WorkerInvariant, InvBoundsErrorLoss, PTL

(* The newlines that the monitor counts are never fewer than the records,  *)
(* and more by no more than each kill can add.                             *)
THEOREM RowsMatch == Spec => []RowsMatchRecords
BY WorkerInvariant, InvMatchesRows, PTL

=============================================================================
