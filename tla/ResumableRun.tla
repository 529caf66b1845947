---------------------------- MODULE ResumableRun ----------------------------
(***************************************************************************)
(* What a run directory promises to whoever reads it, at any instant and   *)
(* across any number of crashes and resumed attempts.  It says nothing of  *)
(* browsers, threads or buffers:                                           *)
(*                                                                         *)
(*   - a durable terminal record is never lost;                            *)
(*   - a shard is sealed (its final file exists) only when each of its     *)
(*     IDs has a terminal record or was given up with an error row;        *)
(*   - a sealed shard never changes again.                                 *)
(*                                                                         *)
(* An error row is one that was appended; this specification does not      *)
(* promise that it can be read.  Collector implements it for all shards of *)
(* a run, Checkpoint for one.                                              *)
(***************************************************************************)
CONSTANTS
  Ids,          \* product IDs of the run
  Shards,       \* one per (browser, batch) pair that has IDs
  AssignedIds   \* the IDs of each shard

VARIABLES
  terminal,     \* IDs with a durable success or not-found record
  journalled,   \* IDs an error row was appended for
  sealed        \* shards whose final file exists

runVars == <<terminal, journalled, sealed>>

Init ==
  /\ terminal = {}
  /\ journalled = {}
  /\ sealed = {}

SealedIds == UNION {AssignedIds[s] : s \in sealed}

(* Both journals only grow, and only for shards that are still open. *)
JournalsGrow ==
  /\ terminal' \in SUBSET Ids
  /\ terminal \subseteq terminal'
  /\ (terminal' \ terminal) \cap SealedIds = {}
  /\ journalled' \in SUBSET Ids
  /\ journalled \subseteq journalled'
  /\ (journalled' \ journalled) \cap SealedIds = {}

Advance ==
  /\ JournalsGrow
  /\ sealed' = sealed

Seal(s) ==
  /\ s \notin sealed
  /\ JournalsGrow
  /\ AssignedIds[s] \subseteq terminal' \cup journalled'
  /\ sealed' = sealed \cup {s}

Next == Advance \/ \E s \in Shards : Seal(s)

Spec == Init /\ [][Next]_runVars

=============================================================================
