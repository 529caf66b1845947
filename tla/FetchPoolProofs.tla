-------------------------- MODULE FetchPoolProofs --------------------------
(***************************************************************************)
(* The page's pool for calls of any size, any concurrency and any request  *)
(* timeout: which answer a slot carries, what stopped a page that asked    *)
(* for less than all, and how long the script may run.                     *)
(***************************************************************************)
EXTENDS FetchPool, FiniteSetTheorems, TLAPS

PoolTypes ==
  /\ pc \in {"page", "done"}
  /\ lag \in Nat
  /\ nextIndex \in Nat
  /\ challengeSeen \in BOOLEAN
  /\ inFlight \subseteq Slots
  /\ age \in [Slots -> Nat]
  /\ results \in [Slots -> Outcomes \cup {"hole"}]
  /\ clock \in Nat
  /\ answers \in [Slots -> Outcomes \cup {"none"}]

(* Slots are requested in order and once each; those that are not in       *)
(* flight any more have a result.                                          *)
SlotsInv ==
  /\ requests = [s \in Slots |-> IF s < nextIndex THEN 1 ELSE 0]
  /\ \A s \in inFlight : s < nextIndex
  /\ \A s \in Slots : results[s] = "hole" <=> s \in inFlight \/ s >= nextIndex

(* Every lane of the page is busy until a challenge is seen or no slot is  *)
(* left.                                                                   *)
LanesInv ==
  /\ challengeSeen => \E s \in Slots : results[s] = "challenge"
  /\ ~challengeSeen /\ nextIndex <= Size => Cardinality(inFlight) = Lanes

AnswersInv ==
  \A s \in Slots : results[s] \in Answers => answers[s] = results[s]

(* Without lag a slot is requested no later than its round begins if every *)
(* request before it lasts until its timer.                                *)
Rounds(n) == n \div Lanes

TimeInv ==
  lag = 0 =>
    /\ \A s \in inFlight : /\ age[s] <= RequestTimeout
                           /\ clock - age[s] <= RequestTimeout * Rounds(s - 1)
    /\ clock <= RequestTimeout * Rounds(Size + Lanes - 1)

PoolInv ==
  /\ PoolTypes
  /\ pc = "page" => SlotsInv /\ LanesInv /\ AnswersInv
  /\ pc = "page" => TimeInv
  /\ TerminalIsOwnAnswer
  /\ UnrequestedIsRetried
  /\ WithinScriptTimeout

-----------------------------------------------------------------------------
(* Counting.                                                               *)

LEMMA LanesType == Lanes \in Nat \ {0} /\ Lanes <= Size /\ Size \in Nat \ {0}
BY SizeAssumption, ConcurrencyAssumption DEF Lanes

LEMMA RoundsType ==
  ASSUME NEW n \in Nat
  PROVE  Rounds(n) \in Nat
BY LanesType DEF Rounds

LEMMA RoundsGrow ==
  ASSUME NEW m \in Nat, NEW n \in Nat, m <= n
  PROVE  Rounds(m) <= Rounds(n)
BY LanesType DEF Rounds

LEMMA NextRound ==
  ASSUME NEW n \in Nat
  PROVE  Rounds(n + Lanes) = Rounds(n) + 1
BY LanesType DEF Rounds

LEMMA FirstRound ==
  ASSUME NEW s \in 1 .. Lanes
  PROVE  Rounds(s - 1) = 0
BY LanesType DEF Rounds

LEMMA TimeGrows ==
  ASSUME NEW m \in Nat, NEW n \in Nat, m <= n
  PROVE  /\ RequestTimeout * m \in Nat
         /\ RequestTimeout * m <= RequestTimeout * n
         /\ RequestTimeout * (m + 1) = RequestTimeout * m + RequestTimeout
BY TimeAssumption

(* Among as many slots as there are lanes one is a round behind the next.  *)
LEMMA OldestInFlight ==
  ASSUME NEW n \in Nat, NEW F \in SUBSET (1 .. n - 1), Cardinality(F) = Lanes
  PROVE  \E t \in F : t + Lanes <= n
<1> SUFFICES ASSUME \A t \in F : t + Lanes > n PROVE FALSE
  BY LanesType
<1> DEFINE I == (n - Lanes + 1) .. (n - 1)
<1>1. F \subseteq I
  BY LanesType
<1>2. IsFiniteSet(I) /\ Cardinality(I) = IF n - Lanes + 1 > n - 1 THEN 0 ELSE Lanes - 1
  BY LanesType, FS_Interval
<1>3. Cardinality(F) <= Cardinality(I) /\ Cardinality(I) \in Nat
  BY <1>1, <1>2, FS_Subset, FS_CardinalityType
<1> HIDE DEF I
<1> QED
  BY <1>2, <1>3, LanesType

-----------------------------------------------------------------------------
LEMMA InitPool == Init => PoolInv
<1> SUFFICES ASSUME Init PROVE PoolInv
  OBVIOUS
<1>1. Lanes \in Nat \ {0} /\ Lanes <= Size /\ Size \in Nat \ {0}
  BY LanesType
<1>2. PoolTypes
  <2>1. /\ results \in [Slots -> Outcomes \cup {"hole"}] /\ age \in [Slots -> Nat]
        /\ answers \in [Slots -> Outcomes \cup {"none"}]
    BY DEF Init
  <2>2. inFlight \subseteq Slots /\ nextIndex \in Nat
    BY <1>1 DEF Init, Slots
  <2>3. lag \in Nat
    BY TimeAssumption DEF Init, TimeAssumption
  <2> QED
    BY <2>1, <2>2, <2>3 DEF Init, PoolTypes
<1>3. SlotsInv
  BY <1>1 DEF Init, SlotsInv, Slots
<1>4. LanesInv
  <2>1. Cardinality(1 .. Lanes) = Lanes
    BY <1>1, FS_Interval
  <2> QED
    BY <2>1 DEF Init, LanesInv
<1>5. AnswersInv
  BY DEF Init, AnswersInv, Answers
<1>6. TimeInv
  <2>1. ASSUME NEW s \in 1 .. Lanes
        PROVE  0 - 0 <= RequestTimeout * Rounds(s - 1)
    BY <1>1, <2>1, FirstRound, TimeAssumption
  <2>2. Rounds(Size + Lanes - 1) \in Nat
    BY <1>1, RoundsType
  <2>3. 0 <= RequestTimeout * Rounds(Size + Lanes - 1)
    BY <2>2, TimeGrows
  <2>4. \A s \in 1 .. Lanes : age[s] = 0
    BY <1>1 DEF Init, Slots
  <2> QED
    BY <2>1, <2>3, <2>4, TimeAssumption DEF Init, TimeInv
<1>7. WithinScriptTimeout
  <2>1. Rounds(Size + Lanes - 1) \in Nat
    BY <1>1, RoundsType
  <2>2. 0 <= RequestTimeout * Rounds(Size + Lanes - 1)
        /\ RequestTimeout * Rounds(Size + Lanes - 1) \in Nat
    BY <2>1, TimeGrows
  <2> QED
    BY <2>2, TimeAssumption DEF Init, WithinScriptTimeout, ScriptTimeout, Rounds
<1>8. pc = "page"
  BY DEF Init
<1> QED
  BY <1>2, <1>3, <1>4, <1>5, <1>6, <1>7, <1>8
     DEF PoolInv, TerminalIsOwnAnswer, UnrequestedIsRetried

(* While the page runs, nothing is classified.                             *)
LEMMA NotYetDone ==
  ASSUME pc' = "page"
  PROVE  TerminalIsOwnAnswer' /\ UnrequestedIsRetried'
BY DEF TerminalIsOwnAnswer, UnrequestedIsRetried

(* A page worker resumes, with an answer or aborted, and goes on.          *)
LEMMA ResumeKeeps ==
  ASSUME PoolInv, NEW s \in Slots, NEW answer \in Answers \cup {"timeout"}, Resume(s, answer)
  PROVE  PoolInv'
<1> DEFINE seen == challengeSeen \/ answer = "challenge"
           taken == IF ~seen /\ nextIndex <= Size THEN {nextIndex} ELSE {}
<1>1. /\ pc = "page" /\ s \in inFlight
      /\ results' = [results EXCEPT ![s] = answer]
      /\ answers' = [answers EXCEPT ![s] = answer]
      /\ challengeSeen' = seen
      /\ nextIndex' = IF seen THEN nextIndex ELSE nextIndex + 1
      /\ inFlight' = (inFlight \ {s}) \cup taken
      /\ age' = [t \in Slots |-> IF t \in taken THEN 0 ELSE age[t]]
      /\ requests' = [t \in Slots |-> IF t \in taken THEN requests[t] + 1 ELSE requests[t]]
      /\ pc' = pc /\ lag' = lag /\ clock' = clock /\ classes' = classes
  BY DEF Resume, LooksLikeChallenge, Leaves, SlotLeft, SlotOf
<1>2. PoolTypes /\ SlotsInv /\ LanesInv /\ AnswersInv /\ TimeInv
  BY <1>1 DEF PoolInv
<1>3. /\ inFlight \subseteq 1 .. nextIndex - 1 /\ nextIndex \in Nat
      /\ taken \subseteq Slots /\ taken \cap inFlight = {}
      /\ Size \in Nat \ {0} /\ Lanes \in Nat \ {0}
      /\ challengeSeen \in BOOLEAN /\ seen \in BOOLEAN
  <2>1. challengeSeen \in BOOLEAN /\ seen \in BOOLEAN
    BY <1>2 DEF PoolTypes
  <2>2. /\ inFlight \subseteq Slots /\ nextIndex \in Nat /\ \A t \in inFlight : t < nextIndex
    BY <1>2 DEF PoolTypes, SlotsInv
  <2>3. nextIndex > 0
    BY <1>1, <2>2 DEF Slots
  <2> QED
    BY <2>1, <2>2, <2>3, LanesType DEF Slots
<1>4. PoolTypes'
  <2>1. /\ results' \in [Slots -> Outcomes \cup {"hole"}]
    BY <1>1, <1>2 DEF PoolTypes, Outcomes
  <2>2. age' \in [Slots -> Nat] /\ inFlight' \subseteq Slots
        /\ answers' \in [Slots -> Outcomes \cup {"none"}]
    BY <1>1, <1>2, <1>3 DEF PoolTypes, Outcomes
  <2> HIDE DEF seen, taken
  <2> QED
    BY <1>1, <1>2, <1>3, <2>1, <2>2 DEF PoolTypes
<1>5. SlotsInv'
  <2>1. ASSUME NEW t \in Slots
        PROVE  requests'[t] = IF t < nextIndex' THEN 1 ELSE 0
    <3>1. requests[t] = IF t < nextIndex THEN 1 ELSE 0
      BY <1>2 DEF SlotsInv
    <3> QED
      BY <1>1, <1>3, <3>1 DEF Slots
  <2>2. \A t \in inFlight' : t < nextIndex'
    BY <1>1, <1>3
  <2>3. ASSUME NEW t \in Slots
        PROVE  results'[t] = "hole" <=> t \in inFlight' \/ t >= nextIndex'
    <3>1. results[t] = "hole" <=> t \in inFlight \/ t >= nextIndex
      BY <1>2 DEF SlotsInv
    <3>2. t \in Int
      BY DEF Slots
    <3>3. CASE t = s
      <4>1. results'[t] # "hole"
        BY <1>1, <1>2, <3>3 DEF PoolTypes, Answers
      <4>2. t < nextIndex
        BY <1>1, <1>2, <3>3 DEF SlotsInv
      <4> QED
        BY <1>1, <1>3, <3>2, <3>3, <4>1, <4>2
    <3>4. CASE t # s
      <4>1. results'[t] = results[t]
        BY <1>1, <1>2, <3>4 DEF PoolTypes
      <4>2. t \in inFlight' <=> t \in inFlight \/ t \in taken
        BY <1>1, <3>4
      <4> QED
        BY <1>1, <1>3, <3>1, <3>2, <4>1, <4>2 DEF Slots
    <3> QED
      BY <3>3, <3>4
  <2>4. requests' = [t \in Slots |-> IF t < nextIndex' THEN 1 ELSE 0]
    BY <1>1, <2>1
  <2> QED
    BY <2>2, <2>3, <2>4 DEF SlotsInv
<1>6. LanesInv'
  <2>1. seen => \E t \in Slots : results'[t] = "challenge"
    <3>1. CASE answer = "challenge"
      BY <1>1, <1>2, <3>1 DEF PoolTypes
    <3>2. CASE challengeSeen
      <4>1. PICK t \in Slots : results[t] = "challenge"
        BY <1>2, <3>2 DEF LanesInv
      <4>2. t # s
        BY <1>1, <1>2, <4>1 DEF SlotsInv
      <4> QED
        BY <1>1, <1>2, <4>1, <4>2 DEF PoolTypes
    <3> QED
      BY <3>1, <3>2
  <2>2. ASSUME ~seen, nextIndex + 1 <= Size
        PROVE  Cardinality(inFlight') = Lanes
    <3>1. inFlight' = (inFlight \ {s}) \cup {nextIndex} /\ nextIndex \notin inFlight \ {s}
      BY <1>1, <1>3, <2>2
    <3>2. IsFiniteSet(inFlight) /\ Cardinality(inFlight) = Lanes
      <4>1. IsFiniteSet(1 .. Size)
        BY <1>3, FS_Interval
      <4>2. IsFiniteSet(inFlight)
        BY <1>2, <4>1, FS_Subset DEF PoolTypes, Slots
      <4> QED
        BY <1>2, <1>3, <2>2, <4>2 DEF LanesInv
    <3>3. Cardinality(inFlight \ {s}) = Lanes - 1 /\ IsFiniteSet(inFlight \ {s})
      BY <1>1, <3>2, FS_RemoveElement
    <3>4. Cardinality(inFlight') = Cardinality(inFlight \ {s}) + 1
      BY <3>1, <3>3, FS_AddElement
    <3> QED
      BY <1>3, <3>3, <3>4
  <2> QED
    BY <1>1, <1>3, <2>1, <2>2 DEF LanesInv
<1>7. AnswersInv'
  <2>1. ASSUME NEW t \in Slots, results'[t] \in Answers
        PROVE  answers'[t] = results'[t]
    <3>1. CASE t = s
      <4>1. results'[t] = answer
        BY <1>1, <1>2, <3>1 DEF PoolTypes
      <4> QED
        BY <1>1, <1>2, <2>1, <3>1, <4>1 DEF PoolTypes
    <3>2. CASE t # s
      BY <1>1, <1>2, <2>1, <3>2 DEF AnswersInv, PoolTypes
    <3> QED
      BY <3>1, <3>2
  <2> QED
    BY <2>1 DEF AnswersInv
<1>8. TimeInv'
  <2> SUFFICES ASSUME lag = 0 PROVE TimeInv'
    BY <1>1 DEF TimeInv
  <2>1. /\ \A t \in inFlight : /\ age[t] <= RequestTimeout
                               /\ clock - age[t] <= RequestTimeout * Rounds(t - 1)
        /\ clock <= RequestTimeout * Rounds(Size + Lanes - 1)
    BY <1>2 DEF TimeInv
  <2>2. clock \in Nat /\ RequestTimeout \in Nat
    BY <1>2, TimeAssumption DEF PoolTypes
  <2>3. ASSUME NEW t \in inFlight \ {s}
        PROVE  age'[t] <= RequestTimeout /\ clock - age'[t] <= RequestTimeout * Rounds(t - 1)
    <3>1. t \in Slots /\ t \notin taken
      BY <1>2, <1>3 DEF PoolTypes
    <3>2. age'[t] = age[t]
      BY <1>1, <3>1
    <3> QED
      BY <2>1, <3>2
  <2>4. ASSUME NEW t \in taken
        PROVE  age'[t] <= RequestTimeout /\ clock - age'[t] <= RequestTimeout * Rounds(t - 1)
    <3>1. t = nextIndex /\ ~seen /\ nextIndex <= Size /\ t \in Slots /\ age'[t] = 0
      BY <1>1, <1>3
    <3>2. inFlight \in SUBSET (1 .. t - 1) /\ t \in Nat /\ Cardinality(inFlight) = Lanes
      BY <1>2, <1>3, <3>1 DEF LanesInv
    <3>3. PICK first \in inFlight : first + Lanes <= t
      BY <3>2, OldestInFlight
    <3>4. first \in Nat \ {0} /\ age[first] \in Nat
      BY <1>2, <1>3 DEF PoolTypes
    <3>5. clock <= RequestTimeout * Rounds(first - 1) + RequestTimeout
      <4> DEFINE begun == RequestTimeout * Rounds(first - 1)
      <4>1. clock - age[first] <= begun /\ age[first] <= RequestTimeout
        BY <2>1
      <4>2. begun \in Nat
        BY <3>4, RoundsType, TimeGrows
      <4> HIDE DEF begun
      <4>3. clock <= begun + RequestTimeout
        BY <2>2, <3>4, <4>1, <4>2
      <4> QED
        BY <4>3 DEF begun
    <3>6. RequestTimeout * Rounds(first - 1) + RequestTimeout <= RequestTimeout * Rounds(t - 1)
      <4>1. first - 1 \in Nat /\ t - 1 \in Nat /\ first - 1 + Lanes \in Nat
            /\ first - 1 + Lanes <= t - 1
        BY <1>3, <3>2, <3>3, <3>4
      <4>2. Rounds(first - 1 + Lanes) = Rounds(first - 1) + 1
        BY <4>1, NextRound
      <4>3. Rounds(first - 1) \in Nat /\ Rounds(t - 1) \in Nat
            /\ Rounds(first - 1) + 1 <= Rounds(t - 1)
        BY <4>1, <4>2, RoundsGrow, RoundsType
      <4>4. RequestTimeout * (Rounds(first - 1) + 1) <= RequestTimeout * Rounds(t - 1)
        BY <4>3, TimeGrows
      <4>5. RequestTimeout * (Rounds(first - 1) + 1)
              = RequestTimeout * Rounds(first - 1) + RequestTimeout
        BY <4>3, TimeGrows
      <4> QED
        BY <4>4, <4>5
    <3>7. RequestTimeout * Rounds(first - 1) \in Nat /\ RequestTimeout * Rounds(t - 1) \in Nat
      <4>1. first - 1 \in Nat /\ t - 1 \in Nat
        BY <3>2, <3>3, <3>4, LanesType
      <4> QED
        BY <4>1, RoundsType, TimeGrows
    <3>8. clock <= RequestTimeout * Rounds(t - 1)
      BY <2>2, <3>5, <3>6, <3>7
    <3> QED
      BY <2>2, <3>1, <3>8
  <2> HIDE DEF seen, taken
  <2> QED
    BY <1>1, <2>1, <2>3, <2>4 DEF TimeInv
<1>9. WithinScriptTimeout'
  BY <1>1 DEF PoolInv, WithinScriptTimeout
<1> QED
  BY <1>1, <1>4, <1>5, <1>6, <1>7, <1>8, <1>9, NotYetDone DEF PoolInv

LEMMA TickKeeps ==
  ASSUME PoolInv, Tick
  PROVE  PoolInv'
<1>1. /\ pc = "page" /\ inFlight # {} /\ clock' = clock + 1
      /\ \A s \in inFlight : age[s] < RequestTimeout + lag
      /\ age' = [s \in Slots |-> IF s \in inFlight THEN age[s] + 1 ELSE age[s]]
      /\ UNCHANGED <<pc, lag, nextIndex, challengeSeen, inFlight, results, classes,
                     requests, answers>>
  BY DEF Tick, history
<1>2. PoolTypes /\ SlotsInv /\ LanesInv /\ AnswersInv /\ TimeInv
  BY <1>1 DEF PoolInv
<1>3. PoolTypes'
  BY <1>1, <1>2 DEF PoolTypes
<1>4. SlotsInv' /\ LanesInv' /\ AnswersInv'
  BY <1>1, <1>2 DEF SlotsInv, LanesInv, AnswersInv
<1>5. clock \in Nat /\ RequestTimeout \in Nat \ {0} /\ inFlight \subseteq Slots
  BY <1>2, TimeAssumption DEF PoolTypes
<1>6. TimeInv'
  <2> SUFFICES ASSUME lag = 0 PROVE TimeInv'
    BY <1>1 DEF TimeInv
  <2>1. ASSUME NEW s \in inFlight
        PROVE  /\ age'[s] <= RequestTimeout
               /\ clock' - age'[s] <= RequestTimeout * Rounds(s - 1)
    <3>1. age'[s] = age[s] + 1 /\ age[s] \in Nat /\ age[s] < RequestTimeout
      BY <1>1, <1>2, <1>5 DEF PoolTypes
    <3>2. clock' - age'[s] = clock - age[s]
      BY <1>1, <1>5, <3>1
    <3> QED
      BY <1>2, <1>5, <3>1, <3>2 DEF TimeInv
  <2>2. clock' <= RequestTimeout * Rounds(Size + Lanes - 1)
    <3>1. PICK s \in inFlight : TRUE
      BY <1>1
    <3>2. s \in Slots /\ s - 1 \in Nat /\ Size - 1 \in Nat /\ s - 1 <= Size - 1
          /\ age[s] \in Nat /\ age[s] < RequestTimeout
      BY <1>1, <1>2, <1>5, LanesType DEF Slots, PoolTypes
    <3> DEFINE begun == RequestTimeout * Rounds(s - 1)
    <3>3. clock - age[s] <= begun
      BY <1>2 DEF TimeInv
    <3>4. Rounds(s - 1) \in Nat /\ Rounds(Size - 1) \in Nat /\ Rounds(s - 1) <= Rounds(Size - 1)
      BY <3>2, RoundsGrow, RoundsType
    <3>5. Rounds(Size + Lanes - 1) = Rounds(Size - 1) + 1
      <4>1. Size - 1 + Lanes = Size + Lanes - 1
        BY LanesType
      <4> QED
        BY <3>2, <4>1, NextRound
    <3>6. begun \in Nat /\ RequestTimeout * (Rounds(s - 1) + 1) = begun + RequestTimeout
      BY <3>4, TimeGrows
    <3>7. RequestTimeout * (Rounds(s - 1) + 1) <= RequestTimeout * Rounds(Size + Lanes - 1)
          /\ RequestTimeout * Rounds(Size + Lanes - 1) \in Nat
      BY <3>4, <3>5, TimeGrows
    <3> HIDE DEF begun
    <3>8. clock + 1 <= begun + RequestTimeout
      BY <1>5, <3>2, <3>3, <3>6
    <3>9. begun + RequestTimeout <= RequestTimeout * Rounds(Size + Lanes - 1)
      BY <3>6, <3>7
    <3> QED
      BY <1>1, <1>5, <3>6, <3>7, <3>8, <3>9
  <2> QED
    BY <1>1, <2>1, <2>2 DEF TimeInv
<1>7. WithinScriptTimeout'
  <2> SUFFICES ASSUME lag = 0 PROVE clock' < ScriptTimeout
    BY <1>1 DEF WithinScriptTimeout
  <2>1. Rounds(Size + Lanes - 1) \in Nat
    BY LanesType, RoundsType
  <2>2. clock' <= RequestTimeout * Rounds(Size + Lanes - 1) /\ clock' \in Nat
        /\ RequestTimeout * Rounds(Size + Lanes - 1) \in Nat
    BY <1>1, <1>5, <1>6, <2>1, TimeGrows DEF TimeInv
  <2>3. ScriptTimeout = RequestTimeout * Rounds(Size + Lanes - 1) + Slack
    BY DEF ScriptTimeout, Rounds
  <2> QED
    BY <2>2, <2>3, TimeAssumption
<1> QED
  BY <1>1, <1>3, <1>4, <1>6, <1>7, NotYetDone DEF PoolInv

(* What Python makes of what comes back, if a slot's own answer is kept    *)
(* and a slot without a request is known for one.                          *)
LEMMA ComeBackKeeps ==
  ASSUME PoolInv, NEW outcomes \in [Slots -> Outcomes \cup {"hole"}], ComeBack(outcomes),
         \A s \in Slots : outcomes[s] \in {"object", "notFound"} => outcomes[s] = results[s],
         \A s \in Slots : requests[s] = 0 => outcomes[s] \in TransientOutcomes \cup {"broken"},
         \A s \in Slots : requests[s] = 0 /\ outcomes[s] = "skipped" =>
           \E t \in Slots : outcomes[t] = "challenge"
  PROVE  PoolInv'
<1>1. /\ pc = "page" /\ pc' = "done" /\ results' = outcomes
      /\ classes' = [s \in Slots |-> Classify(outcomes[s])]
      /\ UNCHANGED <<lag, nextIndex, challengeSeen, inFlight, age, clock, requests, answers>>
  BY DEF ComeBack, history
<1>2. PoolTypes'
  BY <1>1 DEF PoolInv, PoolTypes
<1>3. TerminalIsOwnAnswer'
  <2> SUFFICES ASSUME NEW s \in Slots
               PROVE  /\ classes'[s] = "success" => answers[s] = "object"
                      /\ classes'[s] = "not-found" => answers[s] = "notFound"
    BY <1>1 DEF TerminalIsOwnAnswer
  <2>1. /\ classes'[s] = "success" => outcomes[s] = "object"
        /\ classes'[s] = "not-found" => outcomes[s] = "notFound"
    BY <1>1 DEF Classify
  <2> QED
    BY <1>1, <2>1 DEF PoolInv, AnswersInv, Answers
<1>4. UnrequestedIsRetried'
  <2> SUFFICES ASSUME "broken" \notin {outcomes[t] : t \in Slots}, NEW s \in Slots,
                      requests[s] = 0
               PROVE  /\ classes'[s] = "error" /\ outcomes[s] \in TransientOutcomes
                      /\ outcomes[s] = "skipped" => \E t \in Slots : classes'[t] = "waf"
    BY <1>1 DEF UnrequestedIsRetried
  <2>1. outcomes[s] \in TransientOutcomes
    OBVIOUS
  <2>2. classes'[s] = "error"
    BY <1>1, <2>1 DEF Classify, TransientOutcomes
  <2>3. \A t \in Slots : outcomes[t] = "challenge" => classes'[t] = "waf"
    BY <1>1 DEF Classify
  <2> QED
    BY <2>1, <2>2, <2>3
<1>5. WithinScriptTimeout'
  BY <1>1 DEF PoolInv, WithinScriptTimeout
<1> QED
  BY <1>1, <1>2, <1>3, <1>4, <1>5 DEF PoolInv

LEMMA PageDoneKeeps ==
  ASSUME PoolInv, PageDone
  PROVE  PoolInv'
<1> DEFINE outcomes == [s \in Slots |-> IF results[s] = "hole" THEN "skipped" ELSE results[s]]
<1>1. inFlight = {} /\ ComeBack(outcomes) /\ pc = "page"
  BY DEF PageDone, ComeBack
<1>2. PoolTypes /\ SlotsInv /\ LanesInv
  BY <1>1 DEF PoolInv
<1>3. outcomes \in [Slots -> Outcomes \cup {"hole"}]
  BY <1>2 DEF PoolTypes, Outcomes
<1>4. \A s \in Slots : outcomes[s] \in {"object", "notFound"} => outcomes[s] = results[s]
  OBVIOUS
<1>5. ASSUME NEW s \in Slots, requests[s] = 0
      PROVE  outcomes[s] = "skipped" /\ \E t \in Slots : outcomes[t] = "challenge"
  <2>1. s >= nextIndex /\ nextIndex <= Size
    BY <1>2, <1>5, LanesType DEF SlotsInv, PoolTypes, Slots
  <2>2. results[s] = "hole"
    BY <1>2, <2>1 DEF SlotsInv
  <2>3. challengeSeen
    <3>1. Cardinality(inFlight) = 0
      BY <1>1, FS_EmptySet
    <3> QED
      BY <1>2, <2>1, <3>1, LanesType DEF LanesInv
  <2>4. PICK t \in Slots : results[t] = "challenge"
    BY <1>2, <2>3 DEF LanesInv
  <2> QED
    BY <2>2, <2>4
<1> HIDE DEF outcomes
<1> QED
  BY <1>1, <1>3, <1>4, <1>5, ComeBackKeeps DEF TransientOutcomes

LEMMA TransportKeeps ==
  ASSUME PoolInv, DriverFails \/ ScriptTimesOut
  PROVE  PoolInv'
<1>1. PICK outcome \in {"broken", "empty", "scriptTimeout"} :
        ComeBack([s \in Slots |-> outcome])
  BY DEF DriverFails, ScriptTimesOut
<1> DEFINE outcomes == [s \in Slots |-> outcome]
<1>2. outcomes \in [Slots -> Outcomes \cup {"hole"}] /\ \A s \in Slots : outcomes[s] = outcome
  BY DEF Outcomes
<1> HIDE DEF outcomes
<1> QED
  BY <1>1, <1>2, ComeBackKeeps DEF TransientOutcomes, outcomes

LEMMA PoolStutter ==
  ASSUME PoolInv, UNCHANGED vars
  PROVE  PoolInv'
BY DEF PoolInv, PoolTypes, SlotsInv, LanesInv, AnswersInv, TimeInv, TerminalIsOwnAnswer,
       UnrequestedIsRetried, WithinScriptTimeout, vars, pageVars, history

-----------------------------------------------------------------------------
(* Which slots the page has requested and filled, with whose answers, and  *)
(* by when.                                                                *)
THEOREM PoolInvariant == Spec => []PoolInv
<1>1. ASSUME PoolInv, [Next]_vars PROVE PoolInv'
  <2>1. ASSUME NEW s \in Slots, Answered(s) \/ Aborted(s) PROVE PoolInv'
    <3>1. PICK answer \in Answers \cup {"timeout"} : Resume(s, answer)
      BY <2>1 DEF Answered, Aborted
    <3> QED
      BY <1>1, <3>1, ResumeKeeps
  <2> QED
    BY <1>1, <2>1, TickKeeps, PageDoneKeeps, TransportKeeps, PoolStutter DEF Next, Returned
<1> QED
  BY <1>1, InitPool, PTL DEF Spec

(* A terminal class is the server's answer for that very ID.               *)
THEOREM TerminalIsOwn == Spec => []TerminalIsOwnAnswer
<1>1. PoolInv => TerminalIsOwnAnswer
  BY DEF PoolInv
<1> QED
  BY <1>1, PoolInvariant, PTL

(* An ID that was never requested is retried, after the challenge that     *)
(* stopped the page has been reported with it.                             *)
THEOREM UnrequestedRetries == Spec => []UnrequestedIsRetried
<1>1. PoolInv => UnrequestedIsRetried
  BY DEF PoolInv
<1> QED
  BY <1>1, PoolInvariant, PTL

(* The rounds of request timeouts that a call may need fit into the script *)
(* timeout, for every number of IDs, lanes and every timeout.              *)
THEOREM ScriptTimeoutSuffices == Spec => []WithinScriptTimeout
<1>1. PoolInv => WithinScriptTimeout
  BY DEF PoolInv
<1> QED
  BY <1>1, PoolInvariant, PTL

(* A page that has seen a challenge opens no further request.              *)
THEOREM ChallengeStops == Spec => ChallengeStopsPage
<1>1. ASSUME PoolInv, [Next]_vars, challengeSeen PROVE inFlight' \subseteq inFlight
  <2>1. ASSUME NEW s \in Slots, NEW answer, Resume(s, answer) PROVE inFlight' \subseteq inFlight
    BY <1>1, <2>1 DEF Resume, Leaves
  <2> QED
    BY <1>1, <2>1
       DEF Next, Answered, Aborted, Tick, PageDone, DriverFails, ScriptTimesOut, ComeBack,
           Returned, vars, pageVars
<1>2. PoolInv /\ [Next]_vars => [challengeSeen => inFlight' \subseteq inFlight]_vars
  BY <1>1
<1> QED
  BY <1>2, PoolInvariant, PTL DEF Spec, ChallengeStopsPage

=============================================================================
