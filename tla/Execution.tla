------------------------------- MODULE Execution -------------------------------
(***************************************************************************)
(* The life of a backup execution in internal/api/handler_backup.go: the   *)
(* handler (or the scheduler) that triggers it, the goroutine that runs    *)
(* it, the cancel and retry requests that race with both, the table of     *)
(* cancel functions they share, the executions table they all write, and   *)
(* a process that may stop at any point.                                   *)
(*                                                                         *)
(* pc[e] is the control state of whoever owns execution e:                 *)
(*   created, registered             TriggerExecution / startExecution     *)
(*   attempt, check, retry           the goroutine's attempt loop          *)
(*   read, decide, write, notify,    its epilogue                          *)
(*   cleanup                                                               *)
(*   done, leaked, gone              it returned; it returned early; the   *)
(*                                   process stopped                       *)
(* task.Run is one step that returns any report on the selected servers;   *)
(* TaskRunner models what happens inside it.                               *)
(***************************************************************************)
EXTENDS Naturals

CONSTANTS
  ExecIds,    \* identifiers of executions
  Servers,    \* names of the configured backup sources
  Selections, \* the sets of servers that requests and policies select
  MaxRetry,   \* largest retry_limit of a policy
  Silent,     \* servers that accept a connection and never answer
  Untimed,    \* executions that may be run without a timeout
  NoExec      \* "this execution is not a retry of another one"

ASSUME ExecutionAssumption ==
  /\ Selections \subseteq (SUBSET Servers) \ {{}}
  /\ MaxRetry \in Nat
  /\ Silent \subseteq Servers /\ Untimed \subseteq ExecIds
  /\ NoExec \notin ExecIds

VARIABLES
  rows,        \* the executions table, which outlives the process
  cancels,     \* Server.cancels: the executions that can be canceled
  ctxDone,     \* executions whose context is canceled
  pc,
  attempt, retryLimit, report,   \* locals of the goroutine
  untimed,     \* executions whose timeout is 0 or less, which is none
  outcome,     \* the final status it has decided on, "absent" before that
  \* history
  retryOf,     \* the execution that a retry request named
  notified,    \* the status the notifier was given, "absent" before that
  faulted,     \* executions with a store operation that failed
  lost         \* executions whose owner was stopped with the process

vars == <<rows, cancels, ctxDone, pc, attempt, retryLimit, report, untimed,
          outcome, retryOf, notified, faulted, lost>>

locals == <<attempt, retryLimit, report, untimed, outcome>>

Lifecycle == INSTANCE ExecutionLifecycle

Live     == Lifecycle!Live
Terminal == Lifecycle!Terminal
NoReport == Lifecycle!NoReport
NoRow    == Lifecycle!NoRow

Triggering == {"created", "registered"}
Running    == {"attempt", "check", "retry", "read", "decide"}
Epilogue   == {"write", "notify", "cleanup"}
Owned      == Triggering \union Running \union Epilogue

-----------------------------------------------------------------------------
(* The store.  A write may fail: the row stays as it was, and the callers  *)
(* modelled here ignore the error.                                         *)

UpdateExecution(e, row) ==
  \/ /\ rows' = [rows EXCEPT ![e] = row]
     /\ UNCHANGED faulted
  \/ /\ faulted' = faulted \union {e}
     /\ UNCHANGED rows

(* What is left of the locals of the executions in S when they go out of   *)
(* scope.                                                                  *)
ForgetLocals(S) ==
  /\ attempt' = [e \in ExecIds |-> IF e \in S THEN 0 ELSE attempt[e]]
  /\ retryLimit' = [e \in ExecIds |-> IF e \in S THEN 0 ELSE retryLimit[e]]
  /\ report' = [e \in ExecIds |-> IF e \in S THEN NoReport ELSE report[e]]
  /\ untimed' = untimed \ S
  /\ outcome' = [e \in ExecIds |-> IF e \in S THEN "absent" ELSE outcome[e]]

(* Report.ExitCode: 0 when nothing failed, 2 when everything did.          *)
ExitCode(rep) ==
  LET failed == {s \in DOMAIN rep : ~rep[s]}
  IN  IF failed = {} THEN 0 ELSE IF failed = DOMAIN rep THEN 2 ELSE 1

-----------------------------------------------------------------------------
Init ==
  /\ rows = [e \in ExecIds |-> NoRow]
  /\ cancels = {} /\ ctxDone = {}
  /\ pc = [e \in ExecIds |-> "none"]
  /\ attempt = [e \in ExecIds |-> 0]
  /\ retryLimit = [e \in ExecIds |-> 0]
  /\ report = [e \in ExecIds |-> NoReport]
  /\ untimed = {}
  /\ outcome = [e \in ExecIds |-> "absent"]
  /\ retryOf = [e \in ExecIds |-> NoExec]
  /\ notified = [e \in ExecIds |-> "absent"]
  /\ faulted = {} /\ lost = {}

(* TriggerExecution up to CreateExecution: the row is pending and nothing  *)
(* can cancel it yet.  The selection is any nonempty set of servers, the   *)
(* limit the policy's, a negative one counting as 0.  When CreateExecution *)
(* fails the request does, and nothing has changed.                        *)
TriggerExecution(e, targets, limit, parent) ==
  /\ pc[e] = "none"
  /\ rows' = [rows EXCEPT ![e] =
                [status |-> "pending", targets |-> targets, results |-> NoReport]]
  /\ pc' = [pc EXCEPT ![e] = "created"]
  /\ retryLimit' = [retryLimit EXCEPT ![e] = limit]
  /\ retryOf' = [retryOf EXCEPT ![e] = parent]
  /\ UNCHANGED <<cancels, ctxDone, attempt, report, untimed, outcome,
                 notified, faulted, lost>>

CreateRequest(e) ==
  \E targets \in Selections, limit \in 0..MaxRetry :
    TriggerExecution(e, targets, limit, NoExec)

(* handleRetryExecution refuses an execution that is pending or running.   *)
RetryAllowed(status) == status \notin {"absent", "pending", "running"}

RetryRequest(old, e) ==
  /\ RetryAllowed(rows[old].status)
  /\ \E targets \in Selections, limit \in 0..MaxRetry :
       TriggerExecution(e, targets, limit, old)

(* startExecution: the cancel function is registered under the mutex.      *)
Register(e) ==
  /\ pc[e] = "created"
  /\ cancels' = cancels \union {e}
  /\ pc' = [pc EXCEPT ![e] = "registered"]
  /\ UNCHANGED <<rows, ctxDone, locals, retryOf, notified, faulted,
                 lost>>

(* startExecution writes "running" from the row TriggerExecution made, and *)
(* starts the goroutine whether or not the write succeeded.  The timeout   *)
(* of its servers is the policy's or the configured one; "0s" is accepted  *)
(* as that (Validate only parses it) and runOne then sets none.            *)
MarkRunning(e) ==
  /\ pc[e] = "registered"
  /\ UpdateExecution(e, [rows[e] EXCEPT !.status = "running"])
  /\ pc' = [pc EXCEPT ![e] = "attempt"]
  /\ \E none \in SUBSET ({e} \intersect Untimed) : untimed' = untimed \union none
  /\ UNCHANGED <<cancels, ctxDone, attempt, retryLimit, report, outcome,
                 retryOf, notified, lost>>

(* task.Run returns a report with a result for every selected server.      *)
RunServers(e) ==
  /\ pc[e] = "attempt"
  /\ \E rep \in [rows[e].targets -> BOOLEAN] :
       report' = [report EXCEPT ![e] = rep]
  /\ pc' = [pc EXCEPT ![e] = "check"]
  /\ UNCHANGED <<rows, cancels, ctxDone, attempt, retryLimit, untimed, outcome,
                 retryOf, notified, faulted, lost>>

LoopEndsLate(e) ==  \* a mutant: the limit counts one attempt too many
  e \in ctxDone \/ ExitCode(report[e]) = 0 \/ attempt[e] > retryLimit[e]

(* The attempt loop ends on a cancel, on success, or after the last retry. *)
LoopEnds(e) ==
  e \in ctxDone \/ ExitCode(report[e]) = 0 \/ attempt[e] >= retryLimit[e]

CheckLoop(e) ==
  /\ pc[e] = "check"
  /\ \/ /\ LoopEnds(e)
        /\ pc' = [pc EXCEPT ![e] = "read"]
        /\ UNCHANGED attempt
     \/ /\ ~LoopEnds(e)
        /\ pc' = [pc EXCEPT ![e] = "retry"]
        /\ attempt' = [attempt EXCEPT ![e] = @ + 1]
  /\ UNCHANGED <<rows, cancels, ctxDone, retryLimit, report, untimed, outcome,
                 retryOf, notified, faulted, lost>>

(* Before a further attempt the goroutine reads its row and writes it back *)
(* as "retrying".  Nobody else writes the row, so the two calls are one    *)
(* step; when either fails the row stays as it was.                        *)
MarkRetrying(e) ==
  /\ pc[e] = "retry"
  /\ UpdateExecution(e, [rows[e] EXCEPT !.status = "retrying"])
  /\ pc' = [pc EXCEPT ![e] = "attempt"]
  /\ UNCHANGED <<cancels, ctxDone, locals, retryOf, notified, lost>>

ReadStoredUnlessCanceled(e) ==  \* a mutant: a canceled run returns at once
  /\ pc[e] = "read"
  /\ pc' = [pc EXCEPT ![e] = IF e \in ctxDone THEN "leaked" ELSE "decide"]
  /\ UNCHANGED <<rows, cancels, ctxDone, locals, retryOf, notified,
                 faulted, lost>>

(* After the loop the goroutine reads its row again.  When that fails it   *)
(* returns at once: the row keeps its live status and cancels its entry.   *)
ReadStored(e) ==
  /\ pc[e] = "read"
  /\ \/ /\ pc' = [pc EXCEPT ![e] = "decide"]
        /\ UNCHANGED <<faulted, locals>>
     \/ /\ pc' = [pc EXCEPT ![e] = "leaked"]
        /\ faulted' = faulted \union {e}
        /\ ForgetLocals({e})
  /\ UNCHANGED <<rows, cancels, ctxDone, retryOf, notified, lost>>

FinalStatusByReport(canceled, rep) ==  \* a mutant: success outranks a cancel
  IF ExitCode(rep) = 0 THEN "success"
  ELSE IF canceled THEN "canceled" ELSE "failed"

FinalStatusPartial(canceled, rep) ==  \* a mutant: only exit code 2 is a failure
  IF canceled THEN "canceled"
  ELSE IF ExitCode(rep) # 2 THEN "success" ELSE "failed"

(* A canceled context outranks the report: an execution whose servers were *)
(* all backed up before the cancel was seen is still "canceled".           *)
FinalStatus(canceled, rep) ==
  IF canceled THEN "canceled"
  ELSE IF ExitCode(rep) = 0 THEN "success" ELSE "failed"

Decide(e) ==
  /\ pc[e] = "decide"
  /\ outcome' = [outcome EXCEPT ![e] = FinalStatus(e \in ctxDone, report[e])]
  /\ pc' = [pc EXCEPT ![e] = "write"]
  /\ UNCHANGED <<rows, cancels, ctxDone, attempt, retryLimit, report, untimed,
                 retryOf, notified, faulted, lost>>

WriteFinalStatusOnly(e) ==  \* a mutant: the results are not stored
  /\ pc[e] = "write"
  /\ UpdateExecution(e, [rows[e] EXCEPT !.status = outcome[e]])
  /\ pc' = [pc EXCEPT ![e] = "notify"]
  /\ UNCHANGED <<cancels, ctxDone, locals, retryOf, notified, lost>>

WriteFinalAfterNotify(e) ==  \* a mutant: the goroutine notifies without writing
  /\ pc[e] = "write"
  /\ pc' = [pc EXCEPT ![e] = "notify"]
  /\ UNCHANGED <<rows, cancels, ctxDone, locals, retryOf, notified,
                 faulted, lost>>

(* The row the goroutine read has not changed since.                       *)
WriteFinal(e) ==
  /\ pc[e] = "write"
  /\ UpdateExecution(e, [rows[e] EXCEPT !.status = outcome[e],
                                        !.results = report[e]])
  /\ pc' = [pc EXCEPT ![e] = "notify"]
  /\ UNCHANGED <<cancels, ctxDone, locals, retryOf, notified, lost>>

(* NotifyExecution sends for success and failure only.  Whether it sends   *)
(* at all depends on the settings and on the suppression window, both of   *)
(* which may change while the execution runs.                              *)
Notifies(status) == status \in {"success", "failed"}

Notify(e) ==
  /\ pc[e] = "notify"
  /\ \/ /\ Notifies(outcome[e])
        /\ notified' = [notified EXCEPT ![e] = outcome[e]]
     \/ UNCHANGED notified
  /\ pc' = [pc EXCEPT ![e] = "cleanup"]
  /\ UNCHANGED <<rows, cancels, ctxDone, locals, retryOf, faulted,
                 lost>>

CleanupKeepsEntry(e) ==  \* a mutant: the cancel function is not removed
  /\ pc[e] = "cleanup"
  /\ ctxDone' = ctxDone \union {e}
  /\ pc' = [pc EXCEPT ![e] = "done"]
  /\ ForgetLocals({e})
  /\ UNCHANGED <<rows, cancels, retryOf, notified, faulted, lost>>

(* delete(s.cancels, id) under the mutex, then cancel().                   *)
Cleanup(e) ==
  /\ pc[e] = "cleanup"
  /\ cancels' = cancels \ {e}
  /\ ctxDone' = ctxDone \union {e}
  /\ pc' = [pc EXCEPT ![e] = "done"]
  /\ ForgetLocals({e})
  /\ UNCHANGED <<rows, retryOf, notified, faulted, lost>>

(* handleCancelExecution looks the cancel function up under the mutex and  *)
(* calls it after releasing it; one step, for a call that comes after      *)
(* Cleanup finds the context canceled already.  Without an entry it        *)
(* answers 200 and does nothing: a pending row is in that case until       *)
(* Register, and so is a row whose owner is gone.                          *)
CancelRequest(e) ==
  /\ rows[e].status # "absent"
  /\ e \in cancels
  /\ ctxDone' = ctxDone \union {e}
  /\ UNCHANGED <<rows, cancels, pc, locals, retryOf, notified, faulted, lost>>

(* The process stops, on a signal or by a crash: main returns as soon as   *)
(* the listener is closed and waits for no execution.  The next process    *)
(* starts with empty tables and does not look at the rows it finds.        *)
ProcessStop ==
  /\ cancels' = {} /\ ctxDone' = {}
  /\ lost' = lost \union {e \in ExecIds : pc[e] \in Owned}
  /\ pc' = [e \in ExecIds |->
              IF pc[e] \in Owned \union {"leaked"} THEN "gone" ELSE pc[e]]
  /\ ForgetLocals(ExecIds)
  /\ UNCHANGED <<rows, retryOf, notified, faulted>>

-----------------------------------------------------------------------------
(* The steps of an execution's owner; the rest belongs to its clients.     *)
Step(e) ==
  \/ Register(e) \/ MarkRunning(e)
  \/ RunServers(e) \/ CheckLoop(e) \/ MarkRetrying(e)
  \/ ReadStored(e) \/ Decide(e) \/ WriteFinal(e) \/ Notify(e) \/ Cleanup(e)

Next ==
  \/ \E e \in ExecIds :
       \/ CreateRequest(e)
       \/ \E old \in ExecIds : RetryRequest(old, e)
       \/ Step(e)
       \/ CancelRequest(e)
  \/ ProcessStop

Spec == Init /\ [][Next]_vars

(* task.Run can be relied on to return when all of its servers answer (the *)
(* connection looks neither at the timeout nor at a cancel) and the        *)
(* timeout or a cancel ends what their scripts leave open.                 *)
Answers(e) == rows[e].targets \intersect Silent = {}
RunEnds(e) == Answers(e) /\ (e \in untimed => e \in ctxDone)

(* A goroutine that can take a step takes it, except that it may stay in   *)
(* task.Run as long as nothing ends that.  Requests and stops are not fair.*)
FairStep(e) == Step(e) /\ (pc[e] = "attempt" => RunEnds(e))

FairSpec == Spec /\ \A e \in ExecIds : WF_vars(FairStep(e))

-----------------------------------------------------------------------------
(* The types of the variables.                                             *)
TypeOK ==
  /\ rows \in [ExecIds -> Lifecycle!Row]
  /\ outcome \in [ExecIds -> {"absent"} \union Terminal]
  /\ report \in [ExecIds -> Lifecycle!Reports]
  /\ pc \in [ExecIds -> Owned \union {"none", "done", "leaked", "gone"}]
  /\ attempt \in [ExecIds -> 0..MaxRetry]
  /\ retryLimit \in [ExecIds -> 0..MaxRetry]
  /\ retryOf \in [ExecIds -> ExecIds \union {NoExec}]
  /\ notified \in [ExecIds -> {"absent"} \union Terminal]
  /\ cancels \subseteq ExecIds /\ ctxDone \subseteq ExecIds
  /\ untimed \subseteq Untimed
  /\ faulted \subseteq ExecIds /\ lost \subseteq ExecIds

(* The executions table and Server.cancels agree.  A row that is shown as  *)
(* running or retrying can be canceled, and a live row has an owner that   *)
(* will finish it, unless the process stopped or the store failed under    *)
(* it; an entry of cancels belongs to an execution that is still owned,    *)
(* unless the goroutine could not read its row back.                       *)
LiveRowsAreOwned ==
  \A e \in ExecIds :
    /\ rows[e].status \in Live /\ e \notin lost \union faulted => pc[e] \in Owned
    /\ rows[e].status \in {"running", "retrying"} /\ e \notin lost \union faulted
         => e \in cancels
    /\ e \in cancels /\ e \notin faulted => pc[e] \in Owned \ {"created"}

(* A finished row is backed by its results: "success" means that every     *)
(* selected server was backed up, "failed" that one was not although the   *)
(* policy's retries are used up, and a result is stored for each server.   *)
OutcomeMatchesReport ==
  \A e \in ExecIds :
    /\ Lifecycle!Backed(rows[e])
    /\ outcome[e] = "failed" => attempt[e] = retryLimit[e]

(* The notifier is told what the executions table says, after it says it,  *)
(* unless the store failed: the goroutine ignores an error of the final    *)
(* write and notifies all the same.  The table then goes on showing a live *)
(* status; it never shows another outcome than the one notified.           *)
NotificationMatchesRow ==
  \A e \in ExecIds :
    notified[e] # "absent" =>
      \/ rows[e].status = notified[e]
      \/ rows[e].status \in Live /\ e \in faulted

(* What a client polls: the status never moves back and a finished row     *)
(* never changes, whatever cancels, retries, store failures and stops      *)
(* happen meanwhile.                                                       *)
ImplementsLifecycle == Lifecycle!Spec

(* Every execution whose servers answer finishes, unless it runs without a *)
(* timeout, the process stopped or the store failed under it.              *)
EveryExecutionEnds ==
  \A e \in ExecIds :
    rows[e].status # "absent" /\ Answers(e) ~>
      rows[e].status \in Terminal \/ e \in lost \union faulted \union untimed

(* A cancel that reaches the context before the goroutine decides on the   *)
(* outcome makes the execution end as canceled, even when every server was *)
(* backed up, and also when no timeout is set; if its servers answer, and  *)
(* unless the process stopped or the store failed under it.                *)
CancelWins ==
  \A e \in ExecIds :
    e \in ctxDone /\ pc[e] \in Running /\ Answers(e) ~>
      rows[e].status = "canceled" \/ e \in lost \union faulted

(* "execution is still running" (handler_backup.go:271): an execution is   *)
(* retried only when it is over.                                           *)
RetryOnlyWhenOver ==
  [][\A e, old \in ExecIds :
       retryOf[e] = NoExec /\ retryOf'[e] = old => rows[old].status \in Terminal]_vars
=============================================================================
