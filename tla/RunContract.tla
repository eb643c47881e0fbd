----------------------------- MODULE RunContract -----------------------------
(***************************************************************************)
(* What the callers of task.Run rely on.  Each selected server is backed   *)
(* up at most once, no more than limit of them at a time (0: no limit),    *)
(* none is started after the cancel, and Run returns when every server has *)
(* its result, with exactly that result.                                   *)
(***************************************************************************)
EXTENDS Naturals, FiniteSets

CONSTANTS
  Jobs,     \* the selected servers
  None      \* Run has not returned

VARIABLES
  limit,    \* global.concurrency
  canceled, \* whether the context of the execution is canceled
  active,   \* the jobs whose backup is in progress
  outcome,  \* "none" until the result of a job is known
  returned  \* the report, a result for every job

vars == <<limit, canceled, active, outcome, returned>>

Results == {"ok", "failed"}

Init ==
  /\ limit \in Nat
  /\ canceled \in BOOLEAN
  /\ active = {}
  /\ outcome = [j \in Jobs |-> "none"]
  /\ returned = None

Cancel ==
  /\ canceled' = TRUE
  /\ UNCHANGED <<limit, active, outcome, returned>>

Start(j) ==
  /\ outcome[j] = "none" /\ j \notin active
  /\ ~canceled
  /\ active' = active \union {j}
  /\ limit > 0 => Cardinality(active') <= limit
  /\ UNCHANGED <<limit, canceled, outcome, returned>>

(* A job that never started can only fail.                                 *)
Decide(j) ==
  /\ outcome[j] = "none"
  /\ \E res \in Results :
       /\ res = "ok" => j \in active
       /\ outcome' = [outcome EXCEPT ![j] = res]
  /\ active' = active \ {j}
  /\ UNCHANGED <<limit, canceled, returned>>

Return ==
  /\ returned = None
  /\ \A j \in Jobs : outcome[j] # "none"
  /\ returned' = outcome
  /\ UNCHANGED <<limit, canceled, active, outcome>>

Next == Cancel \/ Return \/ \E j \in Jobs : Start(j) \/ Decide(j)

Spec == Init /\ [][Next]_vars
=============================================================================
