----------------------------- MODULE FetchPool -----------------------------
(***************************************************************************)
(* One Selenium call of a collector worker: the page's bounded pool of     *)
(* JavaScript workers (browser/scripts.py), the transport that runs it and *)
(* normalises what comes back (browser/client.py), and the classification  *)
(* of every slot (browser/classification.py).                              *)
(*                                                                         *)
(* A slot is the position of a product ID in the call; the IDs of a call   *)
(* are distinct.  JavaScript runs to completion between two awaits, so a   *)
(* page worker that resumes stores its result, looks at challengeSeen and  *)
(* takes its next slot in one step.  Time passes in ticks.                 *)
(***************************************************************************)
EXTENDS Integers, FiniteSets

CONSTANTS
  Size,            \* IDs in the call
  Concurrency,     \* --concurrency-per-browser
  RequestTimeout,  \* REQUEST_TIMEOUT_SECONDS, in ticks
  Slack,           \* the constant fetch_many adds to the script timeout
  MaxLag           \* bound: ticks by which a busy page may fire a timer late

ASSUME SizeAssumption == Size \in Nat \ {0}
ASSUME ConcurrencyAssumption == Concurrency \in Nat \ {0}
ASSUME TimeAssumption ==
  RequestTimeout \in Nat \ {0} /\ Slack \in Nat \ {0} /\ MaxLag \in Nat

VARIABLES
  pc,             \* "page" while the script runs, then "done"
  lag,            \* by how much the timers of this page may be late
  nextIndex,      \* the next slot a page worker takes
  challengeSeen,
  inFlight,       \* slots being requested
  age,            \* ticks since a slot's request began
  results,        \* what the page holds for each slot
  clock,          \* ticks since the script began
  classes,        \* the classification Python gives each slot, then
  requests,       \* history: how often each slot was requested
  answers         \* history: what the server answered each slot

pageVars == <<nextIndex, challengeSeen, inFlight, age, results>>
history == <<requests, answers>>
vars == <<pc, lag, pageVars, clock, classes, history>>

Slots == 1..Size

(* What one request may end in.  "invalid" is HTTP 200 with a JSON content *)
(* type and a body that is no JSON object; "challenge" is any other        *)
(* status, or HTTP 200 with another content type; "network" is any error   *)
(* of fetch() or text() other than an abort.                               *)
Answers == {"object", "invalid", "notFound", "challenge", "network"}

(* "timeout" is the page's AbortError, "skipped" skippedAfterChallenge's   *)
(* result; "empty" stands for the fallback of a script that returned no    *)
(* list and "broken" for that of a WebDriverException.                     *)
Outcomes == Answers \cup {"timeout", "skipped", "empty", "broken", "scriptTimeout"}

(* Math.min(concurrency, ids.length): the number of page workers.          *)
Lanes == IF Concurrency < Size THEN Concurrency ELSE Size

OneRequestBudget == RequestTimeout + Slack
ScriptTimeout == RequestTimeout * ((Size + Lanes - 1) \div Lanes) + Slack

-----------------------------------------------------------------------------
(* The page                                                                *)

(* The first synchronous run of every worker: each takes one slot.         *)
Init ==
  /\ pc = "page"
  /\ lag \in 0 .. MaxLag
  /\ nextIndex = Lanes + 1
  /\ challengeSeen = FALSE
  /\ inFlight = 1..Lanes
  /\ age = [s \in Slots |-> 0]
  /\ results = [s \in Slots |-> "hole"]
  /\ clock = 0
  /\ classes = [s \in Slots |-> "none"]
  /\ requests = [s \in Slots |-> IF s <= Lanes THEN 1 ELSE 0]
  /\ answers = [s \in Slots |-> "none"]

(* results[index] = result: a slot keeps its place, whatever the order in  *)
(* which the answers come.                                                 *)
CompletionOrder(s) == Cardinality({t \in Slots : results[t] # "hole"}) + 1
SlotOf(s) == s

(* What the page itself takes for a challenge.                             *)
NotFoundIsChallenge(answer) == answer \in {"challenge", "notFound"}
LooksLikeChallenge(answer) == answer = "challenge"

(* The loop of a page worker: leave once a challenge was seen or no slot   *)
(* is left.                                                                *)
NeverLeaves(seen) == FALSE
Leaves(seen) == seen

SlotLeft == nextIndex <= Size

(* A page worker resumes with an answer to slot s, and takes another slot  *)
(* if no challenge was seen and one is left.                               *)
Resume(s, answer) ==
  LET seen  == challengeSeen \/ LooksLikeChallenge(answer)
      taken == IF ~Leaves(seen) /\ SlotLeft THEN {nextIndex} ELSE {}
  IN /\ pc = "page" /\ s \in inFlight
     /\ results' = [results EXCEPT ![SlotOf(s)] = answer]
     /\ answers' = [answers EXCEPT ![s] = answer]
     /\ challengeSeen' = seen
     /\ nextIndex' = IF Leaves(seen) THEN nextIndex ELSE nextIndex + 1
     /\ inFlight' = (inFlight \ {s}) \cup taken
     /\ age' = [t \in Slots |-> IF t \in taken THEN 0 ELSE age[t]]
     /\ requests' = [t \in Slots |-> IF t \in taken THEN requests[t] + 1 ELSE requests[t]]
     /\ UNCHANGED <<pc, lag, clock, classes>>

Answered(s) == \E answer \in Answers : Resume(s, answer)

(* The AbortController's timer.                                            *)
NeverDue(s) == FALSE
TimerDue(s) == age[s] >= RequestTimeout

Aborted(s) == TimerDue(s) /\ Resume(s, "timeout")

(* Time passes, but no request outlives its timer by more than the lag.    *)
Tick ==
  /\ pc = "page" /\ inFlight # {}
  /\ \A s \in inFlight : age[s] < RequestTimeout + lag
  /\ clock' = clock + 1
  /\ age' = [s \in Slots |-> IF s \in inFlight THEN age[s] + 1 ELSE age[s]]
  /\ UNCHANGED <<pc, lag, nextIndex, challengeSeen, inFlight, results, classes, history>>

-----------------------------------------------------------------------------
(* The transport and the classification                                    *)

(* classify_product_response                                               *)
Classify(outcome) ==
  CASE outcome = "object"                   -> "success"
    [] outcome = "notFound"                 -> "not-found"
    [] outcome \in {"invalid", "challenge"} -> "waf"
    [] OTHER                                -> "error"

(* The errors should_retry is sure to know by their text; an empty slot of *)
(* the list is a MISSING_SCRIPT_ENTRY.                                     *)
TransientOutcomes == {"timeout", "scriptTimeout", "empty", "skipped", "hole"}

(* execute_async_script comes back, and every slot becomes a response.     *)
ComeBack(outcomes) ==
  /\ pc = "page"
  /\ pc' = "done"
  /\ results' = outcomes
  /\ classes' = [s \in Slots |-> Classify(outcomes[s])]
  /\ UNCHANGED <<lag, nextIndex, challengeSeen, inFlight, age, clock, history>>

(* Promise.all settles: slots without a result are filled and handed over. *)
PageDone ==
  /\ inFlight = {}
  /\ ComeBack([s \in Slots |-> IF results[s] = "hole" THEN "skipped" ELSE results[s]])

(* It raises, or returns no list: every ID gets the same fallback.         *)
DriverFails ==
  \E outcome \in {"broken", "empty"} : ComeBack([s \in Slots |-> outcome])

ScriptTimesOut ==
  clock >= ScriptTimeout /\ ComeBack([s \in Slots |-> "scriptTimeout"])

Returned == pc = "done" /\ UNCHANGED vars

Next ==
  \/ \E s \in Slots : Answered(s) \/ Aborted(s)
  \/ Tick \/ PageDone
  \/ DriverFails \/ ScriptTimesOut
  \/ Returned

Spec == Init /\ [][Next]_vars

(* Time passes and due timers fire; no answer ever has to come.            *)
FairSpec ==
  /\ Spec
  /\ WF_vars(Tick)
  /\ WF_vars(\E s \in Slots : Aborted(s))
  /\ WF_vars(PageDone)

-----------------------------------------------------------------------------
(* After the page has seen a challenge it opens no request: those in       *)
(* flight end and none replaces them.                                      *)
ChallengeStopsPage == [][challengeSeen => inFlight' \subseteq inFlight]_vars

(* A slot that Python calls terminal carries the terminal answer the       *)
(* server gave to the request for that very ID, in whatever order the      *)
(* answers came and however the call ended.                                *)
TerminalIsOwnAnswer ==
  pc = "done" =>
    \A s \in Slots :
      /\ classes[s] = "success" => answers[s] = "object"
      /\ classes[s] = "not-found" => answers[s] = "notFound"

(* An ID the page never requested comes back as an error that will be      *)
(* retried, and never alone: unless the transport itself failed, the same  *)
(* call returns the challenge that stopped the page, so that the cooldown  *)
(* precedes the retry.                                                     *)
UnrequestedIsRetried ==
  pc = "done" /\ "broken" \notin {results[s] : s \in Slots} =>
    \A s \in Slots :
      requests[s] = 0 =>
        /\ classes[s] = "error" /\ results[s] \in TransientOutcomes
        /\ results[s] = "skipped" => \E t \in Slots : classes[t] = "waf"

(* The script timeout fetch_many computes is never reached, so a slow      *)
(* server alone cannot cost a call the answers it already has: as many     *)
(* rounds of request timeouts as the page needs fit into it.  It is for a  *)
(* page that fires its timers on time.                                     *)
WithinScriptTimeout == lag = 0 => clock < ScriptTimeout

(* The call comes back, even if no server ever answers.                    *)
CallReturns == <>(pc = "done")

=============================================================================
