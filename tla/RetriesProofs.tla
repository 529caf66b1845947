--------------------------- MODULE RetriesProofs ----------------------------
(***************************************************************************)
(* Proofs about Retries for any IDs of a call and any number of delays.    *)
(***************************************************************************)
EXTENDS Retries, TLAPS

(* The loop counter stays within the delays of its loop, and points at one *)
(* of them wherever the worker waits or fetches.                           *)
CounterInv ==
  /\ attempt <= Delays + 1
  /\ pc \in {"wait", "fetch"} => attempt <= Delays

(* In a loop for challenges, an ID that is still challenged was part of    *)
(* every attempt so far; in the transient loop the same holds of an ID     *)
(* that is still transient.  Short retries are for that loop only.         *)
Tried ==
  /\ loop # "transient" => \A i \in OfClass("waf") : cooldowns[i] = attempt - 1
  /\ loop = "transient" => \A i \in OfClass("transient") : backoffs[i] = attempt - 1

AttemptsInv ==
  /\ pc = "first" => loop = "waf" /\ attempt = 1 /\ \A i \in Ids : cooldowns[i] = 0
  /\ loop = "waf" => \A i \in Ids : backoffs[i] = 0
  /\ pc \notin {"first", "done"} => Tried

(* An error that is transient in the last loop came from the transient     *)
(* loop, which had no attempt left for it, or from a retry of this one.    *)
CarriedInv ==
  loop = "again" =>
    \A i \in OfClass("transient") : backoffs[i] = TransientDelays \/ cooldowns[i] > 0

(* A loop that was left without a stop has nothing to retry any more, or   *)
(* no attempt.                                                             *)
LeftInv ==
  ~stopped =>
    /\ pc = "after" => Matching = {} \/ attempt = Delays + 1
    /\ pc = "done" => NothingGivenUpEarly

(* A call that begins after the stop is the last one.                      *)
LateInv ==
  /\ lateCalls <= 1
  /\ ~stopped \/ pc \in {"first", "fetch"} => lateCalls = 0

RetryInv == CounterInv /\ AttemptsInv /\ CarriedInv /\ LeftInv /\ LateInv

-----------------------------------------------------------------------------
LEMMA InitType == Init => TypeOK
<1> SUFFICES ASSUME Init PROVE TypeOK
  OBVIOUS
<1>1. 1 \in 1 .. (IF WafDelays > TransientDelays THEN WafDelays ELSE TransientDelays) + 1
  BY DelaysAssumption
<1>2. results \in [Ids -> Classes] /\ cooldowns \in [Ids -> Nat] /\ backoffs \in [Ids -> Nat]
  BY DEF Init, Classes
<1> QED
  BY <1>1, <1>2 DEF Init, TypeOK, Loops

LEMMA StepType ==
  ASSUME TypeOK, CounterInv, [Next]_vars
  PROVE  TypeOK'
<1> USE DelaysAssumption DEF TypeOK
<1>1. CASE FirstFetch
  BY <1>1 DEF FirstFetch, LateCall
<1>2. CASE StartWait \/ LeaveLoop \/ WaitInterrupted \/ WaitOver \/ Return \/ OtherStops
  BY <1>2 DEF StartWait, LeaveLoop, WaitInterrupted, WaitOver, Return, OtherStops, history
<1>3. CASE RetryFetch
  <2>1. results' \in [Ids -> Classes]
    BY <1>3 DEF RetryFetch
  <2>2. cooldowns' \in [Ids -> Nat] /\ backoffs' \in [Ids -> Nat]
    BY <1>3 DEF RetryFetch, Counted
  <2>3. attempt' \in 1 .. (IF WafDelays > TransientDelays THEN WafDelays ELSE TransientDelays) + 1
    BY <1>3 DEF RetryFetch, CounterInv, Delays
  <2> QED
    BY <1>3, <2>1, <2>2, <2>3 DEF RetryFetch, LateCall
<1>4. CASE NextLoop
  BY <1>4 DEF NextLoop, FirstAttempt, Loops
<1>5. CASE UNCHANGED vars
  BY <1>5 DEF vars, history
<1> QED
  BY <1>1, <1>2, <1>3, <1>4, <1>5 DEF Next, Step, Returned

-----------------------------------------------------------------------------
LEMMA InitInv == Init => RetryInv
BY DelaysAssumption
   DEF Init, RetryInv, CounterInv, AttemptsInv, CarriedInv, LeftInv, LateInv, Delays, OfClass

LEMMA StepCounter ==
  ASSUME TypeOK, RetryInv, [Next]_vars
  PROVE  CounterInv'
<1> USE DelaysAssumption DEF TypeOK, RetryInv, CounterInv
<1>1. CASE FirstFetch
  BY <1>1 DEF FirstFetch, Delays, AttemptsInv
<1>2. CASE StartWait \/ LeaveLoop \/ WaitInterrupted \/ WaitOver \/ Return \/ OtherStops
  BY <1>2 DEF StartWait, LeaveLoop, WaitInterrupted, WaitOver, Return, OtherStops, history,
              Exhausted, Delays
<1>3. CASE RetryFetch
  BY <1>3 DEF RetryFetch, Delays
<1>4. CASE NextLoop
  BY <1>4 DEF NextLoop, FirstAttempt, Delays
<1>5. CASE UNCHANGED vars
  BY <1>5 DEF vars, history, Delays
<1> QED
  BY <1>1, <1>2, <1>3, <1>4, <1>5 DEF Next, Step, Returned

LEMMA StepAttempts ==
  ASSUME TypeOK, RetryInv, [Next]_vars
  PROVE  AttemptsInv'
<1> USE DelaysAssumption DEF TypeOK, RetryInv, AttemptsInv
<1>1. CASE FirstFetch
  BY <1>1 DEF FirstFetch, Tried, OfClass
<1>2. CASE StartWait \/ LeaveLoop \/ WaitInterrupted \/ WaitOver \/ Return \/ OtherStops
  BY <1>2 DEF StartWait, LeaveLoop, WaitInterrupted, WaitOver, Return, OtherStops, history,
              Tried, OfClass
<1>3. CASE RetryFetch
  <2>1. PICK answer \in [Matching -> Classes] :
          results' = [i \in Ids |-> IF i \in Matching THEN answer[i] ELSE results[i]]
    BY <1>3 DEF RetryFetch
  <2>2. pc = "fetch" /\ pc' = "check" /\ loop' = loop /\ attempt' = attempt + 1 /\ Tried
    BY <1>3 DEF RetryFetch
  <2>3. CASE loop = "transient"
    <3>1. Matching = OfClass("transient")
      BY <2>3 DEF Matching, TransientErrors
    <3>2. backoffs' = [i \in Ids |-> IF i \in Matching THEN backoffs[i] + 1 ELSE backoffs[i]]
      BY <1>3, <2>3 DEF RetryFetch, Counted
    <3>3. \A i \in OfClass("transient")' : i \in Matching
      BY <2>1, <3>1 DEF OfClass
    <3>4. \A i \in OfClass("transient")' : backoffs'[i] = attempt' - 1
      BY <2>2, <2>3, <3>1, <3>2, <3>3 DEF Tried, OfClass
    <3> QED
      BY <2>2, <2>3, <3>4 DEF Tried
  <2>4. CASE loop # "transient"
    <3>1. Matching = OfClass("waf")
      BY <2>4 DEF Matching
    <3>2. cooldowns' = [i \in Ids |-> IF i \in Matching THEN cooldowns[i] + 1 ELSE cooldowns[i]]
      BY <1>3, <2>4 DEF RetryFetch, Counted
    <3>3. \A i \in OfClass("waf")' : i \in Matching
      BY <2>1, <3>1 DEF OfClass
    <3>4. \A i \in OfClass("waf")' : cooldowns'[i] = attempt' - 1
      BY <2>2, <2>4, <3>1, <3>2, <3>3 DEF Tried, OfClass
    <3>5. backoffs' = backoffs
      BY <1>3, <2>4 DEF RetryFetch
    <3> QED
      BY <2>2, <2>4, <3>4, <3>5 DEF Tried
  <2> QED
    BY <2>3, <2>4
<1>4. CASE NextLoop
  BY <1>4 DEF NextLoop, FirstAttempt, Tried, OfClass, ReturnsAfter, Loops
<1>5. CASE UNCHANGED vars
  BY <1>5 DEF vars, history, Tried, OfClass
<1> QED
  BY <1>1, <1>2, <1>3, <1>4, <1>5 DEF Next, Step, Returned

LEMMA StepCarried ==
  ASSUME TypeOK, RetryInv, [Next]_vars
  PROVE  CarriedInv'
<1> USE DelaysAssumption DEF TypeOK, RetryInv, CarriedInv
<1>1. CASE FirstFetch
  BY <1>1 DEF FirstFetch, AttemptsInv
<1>2. CASE StartWait \/ LeaveLoop \/ WaitInterrupted \/ WaitOver \/ Return \/ OtherStops
  BY <1>2 DEF StartWait, LeaveLoop, WaitInterrupted, WaitOver, Return, OtherStops, history, OfClass
<1>3. CASE RetryFetch
  <2> SUFFICES ASSUME loop = "again", NEW i \in Ids, results'[i] = "transient"
               PROVE  backoffs'[i] = TransientDelays \/ cooldowns'[i] > 0
    BY <1>3 DEF RetryFetch, OfClass
  <2>1. PICK answer \in [Matching -> Classes] :
          results' = [j \in Ids |-> IF j \in Matching THEN answer[j] ELSE results[j]]
    BY <1>3 DEF RetryFetch
  <2>2. /\ cooldowns' = [j \in Ids |-> IF j \in Matching THEN cooldowns[j] + 1 ELSE cooldowns[j]]
        /\ backoffs' = backoffs
    BY <1>3 DEF RetryFetch, Counted
  <2>3. CASE i \in Matching
    BY <2>2, <2>3
  <2>4. CASE i \notin Matching
    BY <2>1, <2>2, <2>4 DEF OfClass
  <2> QED
    BY <2>3, <2>4
<1>4. CASE NextLoop
  <2> SUFFICES ASSUME loop = "transient", NEW i \in OfClass("transient")
               PROVE  backoffs[i] = TransientDelays
    BY <1>4 DEF NextLoop, OfClass, ReturnsAfter, Loops
  <2>1. pc = "after" /\ ~stopped
    BY <1>4 DEF NextLoop, ReturnsAfter, StopSeen
  <2> QED
    BY <2>1 DEF LeftInv, AttemptsInv, Tried, Matching, TransientErrors, Delays
<1>5. CASE UNCHANGED vars
  BY <1>5 DEF vars, history, OfClass
<1> QED
  BY <1>1, <1>2, <1>3, <1>4, <1>5 DEF Next, Step, Returned

LEMMA StepLeft ==
  ASSUME TypeOK, RetryInv, [Next]_vars
  PROVE  LeftInv'
<1> USE DelaysAssumption DEF TypeOK, RetryInv, LeftInv
<1>1. CASE FirstFetch \/ StartWait \/ WaitInterrupted \/ WaitOver \/ RetryFetch \/ NextLoop \/ OtherStops
  BY <1>1 DEF FirstFetch, StartWait, WaitInterrupted, WaitOver, RetryFetch, NextLoop, OtherStops,
              StopSeen
<1>2. CASE LeaveLoop
  BY <1>2 DEF LeaveLoop, Exhausted, CounterInv, StopSeen, Matching, TransientErrors, OfClass,
              Delays, history
<1>3. CASE Return
  <2>1. UNCHANGED <<stopped, loop, attempt, results, history>> /\ pc = "after" /\ pc' = "done"
    BY <1>3 DEF Return
  <2>2. ASSUME ~stopped
        PROVE  /\ \A i \in OfClass("waf") : cooldowns[i] = WafDelays
               /\ \A i \in OfClass("transient") :
                    \/ backoffs[i] = TransientDelays
                    \/ OfClass("waf") # {}
                    \/ loop = "again" /\ cooldowns[i] > 0
    <3>1. CASE loop = "transient"
      <4>1. OfClass("waf") = {}
        BY <1>3, <2>2, <3>1 DEF Return, ReturnsAfter, StopSeen
      <4>2. \A i \in OfClass("transient") : backoffs[i] = TransientDelays
        BY <2>1, <2>2, <3>1 DEF AttemptsInv, Tried, Matching, TransientErrors, Delays
      <4> QED
        BY <4>1, <4>2
    <3>2. CASE loop # "transient"
      <4>1. \A i \in OfClass("waf") : cooldowns[i] = WafDelays
        BY <2>1, <2>2, <3>2 DEF Matching, Delays, AttemptsInv, Tried
      <4>2. loop = "waf" => OfClass("waf") # {}
        BY <1>3, <2>2 DEF Return, ReturnsAfter, StopSeen
      <4> QED
        BY <3>2, <4>1, <4>2 DEF CarriedInv, Loops
    <3> QED
      BY <3>1, <3>2
  <2> QED
    BY <2>1, <2>2 DEF NothingGivenUpEarly, OfClass, history
<1>4. CASE UNCHANGED vars
  BY <1>4 DEF vars, history, Matching, TransientErrors, OfClass, Delays, NothingGivenUpEarly
<1> QED
  BY <1>1, <1>2, <1>3, <1>4 DEF Next, Step, Returned

LEMMA StepLate ==
  ASSUME TypeOK, RetryInv, [Next]_vars
  PROVE  LateInv'
BY DEF TypeOK, RetryInv, LateInv, Next, Step, Returned, vars, history, LateCall, FirstFetch,
       StartWait, LeaveLoop, WaitInterrupted, WaitOver, RetryFetch, Return, NextLoop, OtherStops,
       StopSeen

-----------------------------------------------------------------------------
(* Every variable of fetch_with_retries keeps its type, and with it the    *)
(* inductive invariant about attempts, stops and late calls.               *)
THEOREM RetryInvariant == Spec => [](TypeOK /\ RetryInv)
<1>1. Init => TypeOK /\ RetryInv
  BY InitType, InitInv
<1>2. TypeOK /\ RetryInv /\ [Next]_vars => (TypeOK /\ RetryInv)'
  BY StepType, StepCounter, StepAttempts, StepCarried, StepLeft, StepLate DEF RetryInv
<1> QED
  BY <1>1, <1>2, PTL DEF Spec

(* Without a stop a challenge is returned only after every cooldown, and a *)
(* transient error only after every backoff, beside a challenge, or as the *)
(* answer to a retry of a challenge in the last loop.                      *)
THEOREM NothingEarly == Spec => []NothingGivenUpEarly
<1>1. TypeOK /\ RetryInv => NothingGivenUpEarly
  BY DEF RetryInv, LeftInv, NothingGivenUpEarly
<1> QED
  BY <1>1, RetryInvariant, PTL

(* After a stop of another worker at most one more Selenium call begins.   *)
THEOREM OneLateCall == Spec => []AtMostOneLateCall
<1>1. TypeOK /\ RetryInv => AtMostOneLateCall
  BY DEF RetryInv, LateInv, AtMostOneLateCall
<1> QED
  BY <1>1, RetryInvariant, PTL

(* No retry touches a terminal answer.                                     *)
THEOREM TerminalStays == Spec => TerminalKept
<1>1. TypeOK /\ [Next]_vars =>
        [pc # "first" => \A i \in OfClass("terminal") : results'[i] = "terminal"]_vars
  <2> SUFFICES ASSUME TypeOK, Next, pc # "first", NEW i \in OfClass("terminal")
               PROVE  results'[i] = "terminal"
    OBVIOUS
  <2>1. CASE RetryFetch
    <3>1. i \in Ids /\ i \notin Matching
      BY DEF Matching, TransientErrors, OfClass
    <3> QED
      BY <2>1, <3>1 DEF RetryFetch, OfClass
  <2>2. CASE results' = results
    BY <2>2 DEF OfClass
  <2> QED
    BY <2>1, <2>2 DEF Next, Step, Returned, vars, FirstFetch, StartWait, LeaveLoop,
                      WaitInterrupted, WaitOver, Return, NextLoop, OtherStops
<1> QED
  BY <1>1, RetryInvariant, PTL DEF Spec, TerminalKept

=============================================================================
