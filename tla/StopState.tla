------------------------------ MODULE StopState ------------------------------
(***************************************************************************)
(* The stop decision shared by all browser workers of one collection       *)
(* attempt (class StopState of collector/execution/worker.py).  It is a    *)
(* value, not a process: the object is guarded by one lock, so a call of   *)
(* stop() is one atomic step of the thread that makes it, and Stop below   *)
(* is the value the object has after that call.                            *)
(*                                                                         *)
(* Instants are natural numbers; the code compares ISO timestamps that     *)
(* Chrome wrote in one fixed UTC format, whose text order is time order.   *)
(***************************************************************************)
EXTENDS Integers

CONSTANT BrowserCount     \* number of Chrome workers of the run

ASSUME BrowserCountAssumption == BrowserCount \in Nat \ {0}

Browsers  == 1 .. BrowserCount
NoBrowser == 0
NoCutoff  == -1

Reasons == {"waf", "repeated_browser_errors", "browser_exception"}

StopStates ==
  [event  : BOOLEAN,
   reason : Reasons \cup {"none"},
   source : Browsers \cup {NoBrowser},
   cutoff : Nat \cup {NoCutoff}]

NotStopped ==
  [event |-> FALSE, reason |-> "none", source |-> NoBrowser, cutoff |-> NoCutoff]

(***************************************************************************)
(* stop(reason, browser, cutoff).  Stop keeps the first reason and moves   *)
(* the cutoff only to an earlier instant.  The first three definitions are *)
(* plausible slips of it, kept for mutation checks: the cutoff of a second *)
(* reporter is lost, the last reporter overwrites the first, and the two   *)
(* optional arguments are taken in the wrong order.                        *)
(***************************************************************************)
StopFirstCutoffOnly(s, reason, browser, cutoff) ==
  IF s.reason = "none"
    THEN [event |-> TRUE, reason |-> reason, source |-> browser, cutoff |-> cutoff]
    ELSE [s EXCEPT !.event = TRUE]

StopLastReporter(s, reason, browser, cutoff) ==
  [event |-> TRUE, reason |-> reason, source |-> browser, cutoff |-> cutoff]

StopSwapped(s, reason, browser, cutoff) ==
  [event |-> TRUE, reason |-> reason, source |-> cutoff, cutoff |-> browser]

Stop(s, reason, browser, cutoff) ==
  LET isEarlier == /\ cutoff # NoCutoff
                   /\ s.cutoff = NoCutoff \/ cutoff < s.cutoff
  IN  IF s.reason = "none"
        THEN [event |-> TRUE, reason |-> reason, source |-> browser, cutoff |-> cutoff]
        ELSE [s EXCEPT !.event  = TRUE,
                       !.cutoff = IF isEarlier THEN cutoff ELSE @]

=============================================================================
