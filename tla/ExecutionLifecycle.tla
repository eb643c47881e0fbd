-------------------------- MODULE ExecutionLifecycle --------------------------
(***************************************************************************)
(* What the execution API promises about a row of the executions table, as *)
(* a client that polls GET /api/v1/executions/{id} may observe it.  The    *)
(* status only moves forward                                               *)
(*                                                                         *)
(*    absent -> pending -> running -> retrying -> canceled/success/failed  *)
(*                                                                         *)
(* (stages may be skipped: a write that the store refused is not repeated),*)
(* a finished row is final, the targets are fixed at creation, and the     *)
(* final status is backed by the results stored beside it.                 *)
(***************************************************************************)
EXTENDS Naturals

CONSTANTS
  ExecIds,   \* identifiers of executions
  Servers    \* names of the configured backup sources

VARIABLE rows

Live     == {"pending", "running", "retrying"}
Terminal == {"canceled", "success", "failed"}
Statuses == {"absent"} \union Live \union Terminal

(* The order in which a client may see the statuses of one row.            *)
Rank(s) ==
  CASE s = "absent"   -> 0
    [] s = "pending"  -> 1
    [] s = "running"  -> 2
    [] s = "retrying" -> 3
    [] OTHER          -> 4

(* A report: whether the backup of each server succeeded.                  *)
Reports  == UNION {[T -> BOOLEAN] : T \in SUBSET Servers}
NoReport == [s \in {} |-> TRUE]

Row == [status : Statuses, targets : SUBSET Servers, results : Reports]

NoRow == [status |-> "absent", targets |-> {}, results |-> NoReport]

(* A finished row tells what happened to every selected server: "success"  *)
(* means each of them was backed up, "failed" that one at least was not.   *)
Backed(row) ==
  row.status \in Terminal =>
    /\ DOMAIN row.results = row.targets
    /\ row.status = "success" => \A s \in row.targets : row.results[s]
    /\ row.status = "failed"  => \E s \in row.targets : ~row.results[s]

-----------------------------------------------------------------------------
Init == rows = [e \in ExecIds |-> NoRow]

Create(e) ==
  /\ rows[e] = NoRow
  /\ \E T \in (SUBSET Servers) \ {{}} :
       rows' = [rows EXCEPT ![e] =
                  [status |-> "pending", targets |-> T, results |-> NoReport]]

Advance(e) ==
  /\ rows[e].status \in Live
  /\ rows' = [rows EXCEPT ![e] = rows'[e]]
  /\ rows'[e] \in Row
  /\ rows'[e].targets = rows[e].targets
  /\ Rank(rows'[e].status) > Rank(rows[e].status)
  /\ Backed(rows'[e])

Next == \E e \in ExecIds : Create(e) \/ Advance(e)

Spec == Init /\ [][Next]_rows
=============================================================================
