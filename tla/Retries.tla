------------------------------ MODULE Retries ------------------------------
(***************************************************************************)
(* fetch_with_retries of collector/execution/worker.py: the cooldowns and  *)
(* backoffs one worker goes through for the IDs of one Selenium call,      *)
(* while another worker may set the shared stop event at any instant.      *)
(*                                                                         *)
(* The three calls of retry_matching_results are three loops: "waf", then  *)
(* "transient", then "again" for challenges met while retrying transients. *)
(* A delay is a wait that ends; its length does not matter.  The order of  *)
(* results is that of the IDs throughout, so results is a function.        *)
(***************************************************************************)
EXTENDS Naturals

CONSTANTS
  Ids,             \* product IDs of the call
  WafDelays,       \* length of WAF_RETRY_DELAYS_SECONDS
  TransientDelays  \* MAX_RETRY_ATTEMPTS

ASSUME DelaysAssumption == WafDelays \in Nat /\ TransientDelays \in Nat

VARIABLES
  stopped,    \* StopState.event
  pc,         \* where the worker is
  loop,       \* which retry_matching_results call
  attempt,    \* its loop counter
  results,    \* classification of each ID so far
  cooldowns,  \* history: WAF retries of each ID in the current WAF loop
  backoffs,   \* history: short retries of each ID
  lateCalls   \* history: Selenium calls begun after the stop

history == <<cooldowns, backoffs, lateCalls>>
vars == <<stopped, pc, loop, attempt, results, history>>

(* should_retry tells the errors that retrying may help ("transient") from *)
(* the others ("error"); success and not-found are "terminal".             *)
Classes == {"terminal", "waf", "transient", "error"}
Loops == {"waf", "transient", "again"}

OfClass(class) == {i \in Ids : results[i] = class}

(* The predicates the three calls are given.                               *)
AnyError == OfClass("transient") \cup OfClass("error") \cup OfClass("terminal")
TransientErrors == OfClass("transient")

Matching == IF loop = "transient" THEN TransientErrors ELSE OfClass("waf")

Delays == IF loop = "transient" THEN TransientDelays ELSE WafDelays

Init ==
  /\ stopped = FALSE
  /\ pc = "first"
  /\ loop = "waf"
  /\ attempt = 1
  /\ results = [i \in Ids |-> "error"]
  /\ cooldowns = [i \in Ids |-> 0]
  /\ backoffs = [i \in Ids |-> 0]
  /\ lateCalls = 0

LateCall == lateCalls' = IF stopped THEN lateCalls + 1 ELSE lateCalls

FirstFetch ==
  /\ pc = "first"
  /\ pc' = "check"
  /\ results' \in [Ids -> Classes]
  /\ LateCall
  /\ UNCHANGED <<stopped, loop, attempt, cooldowns, backoffs>>

(* The event, as a worker sees it.                                         *)
StopUnseen == FALSE
StopSeen == stopped

(* enumerate(delays, start=1) has run out.                                 *)
OneDelayLess == attempt >= Delays
Exhausted == attempt > Delays

(* The top of a retry loop: something to retry, and nobody has stopped.    *)
StartWait ==
  /\ pc = "check"
  /\ ~Exhausted /\ Matching # {} /\ ~StopSeen
  /\ pc' = "wait"
  /\ UNCHANGED <<stopped, loop, attempt, results, history>>

LeaveLoop ==
  /\ pc = "check"
  /\ Exhausted \/ Matching = {} \/ StopSeen
  /\ pc' = "after"
  /\ UNCHANGED <<stopped, loop, attempt, results, history>>

(* event.wait(delay): true at once if the event is set, false when the     *)
(* delay has passed without it.                                            *)
WaitInterrupted ==
  /\ pc = "wait" /\ StopSeen
  /\ pc' = "after"
  /\ UNCHANGED <<stopped, loop, attempt, results, history>>

WaitOver ==
  /\ pc = "wait" /\ ~StopSeen
  /\ pc' = "fetch"
  /\ UNCHANGED <<stopped, loop, attempt, results, history>>

Counted(count) == [i \in Ids |-> IF i \in Matching THEN count[i] + 1 ELSE count[i]]

(* Only the matching IDs are requested again, and only they are replaced.  *)
RetryFetch ==
  /\ pc = "fetch"
  /\ pc' = "check"
  /\ \E answer \in [Matching -> Classes] :
       results' = [i \in Ids |-> IF i \in Matching THEN answer[i] ELSE results[i]]
  /\ attempt' = attempt + 1
  /\ cooldowns' = IF loop = "transient" THEN cooldowns ELSE Counted(cooldowns)
  /\ backoffs' = IF loop = "transient" THEN Counted(backoffs) ELSE backoffs
  /\ LateCall
  /\ UNCHANGED <<stopped, loop>>

(* What follows each loop: return, or enter the next one.                  *)
UntilNoChallenge ==
  \/ StopSeen
  \/ loop = "waf" /\ OfClass("waf") # {}
  \/ loop # "waf" /\ OfClass("waf") = {}

ReturnsAfter ==
  \/ StopSeen
  \/ loop = "waf" /\ OfClass("waf") # {}
  \/ loop = "transient" /\ OfClass("waf") = {}
  \/ loop = "again"

Return ==
  /\ pc = "after" /\ ReturnsAfter
  /\ pc' = "done"
  /\ UNCHANGED <<stopped, loop, attempt, results, history>>

FirstAttempt == 1

NextLoop ==
  /\ pc = "after" /\ ~ReturnsAfter
  /\ pc' = "check"
  /\ loop' = IF loop = "waf" THEN "transient" ELSE "again"
  /\ attempt' = FirstAttempt
  /\ cooldowns' = [i \in Ids |-> 0]
  /\ UNCHANGED <<stopped, results, backoffs, lateCalls>>

(* Another worker makes its stop decision.                                 *)
OtherStops ==
  /\ ~stopped
  /\ stopped' = TRUE
  /\ UNCHANGED <<pc, loop, attempt, results, history>>

Returned == pc = "done" /\ UNCHANGED vars

Step ==
  \/ FirstFetch \/ StartWait \/ LeaveLoop \/ WaitInterrupted \/ WaitOver
  \/ RetryFetch \/ Return \/ NextLoop

Next == Step \/ OtherStops \/ Returned

Spec == Init /\ [][Next]_vars

(* A delay passes and a Selenium call returns; nobody has to stop.         *)
FairSpec == Spec /\ WF_vars(Step)

-----------------------------------------------------------------------------
(* Every variable has its type.                                            *)
TypeOK ==
  /\ stopped \in BOOLEAN
  /\ pc \in {"first", "check", "wait", "fetch", "after", "done"}
  /\ loop \in Loops
  /\ attempt \in 1 .. (IF WafDelays > TransientDelays THEN WafDelays ELSE TransientDelays) + 1
  /\ results \in [Ids -> Classes]
  /\ cooldowns \in [Ids -> Nat]
  /\ backoffs \in [Ids -> Nat]
  /\ lateCalls \in Nat

(* What a call returns, if no other worker stopped.  A challenge, which    *)
(* stops the whole run, outlasted every cooldown of its loop: "only a WAF  *)
(* that remains after those attempts records the shared cutoff"            *)
(* (execution/README).  A transient error went through every backoff, but  *)
(* for two ways around them: it is returned beside a challenge that stops  *)
(* the run, or it is the answer to a retry of a challenge in the last      *)
(* loop, and so waited for one cooldown at least.                          *)
NothingGivenUpEarly ==
  pc = "done" /\ ~stopped =>
    /\ \A i \in OfClass("waf") : cooldowns[i] = WafDelays
    /\ \A i \in OfClass("transient") :
         \/ backoffs[i] = TransientDelays
         \/ OfClass("waf") # {}
         \/ loop = "again" /\ cooldowns[i] > 0

(* Once another worker has stopped, at most one more Selenium call begins  *)
(* here, although the stop may come at the end of a delay, between the     *)
(* worker's look at the event and its call.                                *)
AtMostOneLateCall == lateCalls <= 1

(* A terminal answer is never requested again ("checkpointed and never     *)
(* retried", README), whatever the other IDs of its call need.             *)
TerminalKept ==
  [][pc # "first" => \A i \in OfClass("terminal") : results'[i] = "terminal"]_vars

(* The call returns, however persistent the challenges and errors are.     *)
Returns == <>(pc = "done")

=============================================================================
