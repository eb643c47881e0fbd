--------------------------- MODULE ExecutionProofs ---------------------------
(***************************************************************************)
(* Proofs about Execution, for any sets of executions and servers and any  *)
(* retry limit.  The safety properties are not inductive: what a row may   *)
(* hold depends on where its owner is.  ControlInv says so, one execution  *)
(* at a time, and IInv is its conjunction with the type invariant.         *)
(***************************************************************************)
EXTENDS Execution, TLAPS

HasReport == {"check", "retry", "read", "decide", "write", "notify", "cleanup"}

(* Where the row stands while its owner is at pc[e].                       *)
RowInv(e) ==
  /\ pc[e] = "none" => rows[e] = NoRow
  /\ rows[e].status = "absent" => pc[e] = "none"
  /\ pc[e] \in Triggering => rows[e].status = "pending"
  /\ pc[e] \in Running \union {"write"} =>
       /\ rows[e].status \in Live
       /\ e \notin faulted => rows[e].status \in {"running", "retrying"}
  /\ pc[e] \in {"notify", "cleanup"} =>
       rows[e].status = outcome[e] \/ (rows[e].status \in Live /\ e \in faulted)
  /\ pc[e] = "done" => e \in faulted \/ rows[e].status \in Terminal
  /\ rows[e].status \in Terminal =>
       pc[e] \in {"notify", "cleanup", "done", "gone"}
  /\ Lifecycle!Backed(rows[e])

(* Which executions a stop or a store failure has cut off.                 *)
OwnerInv(e) ==
  /\ e \in lost => pc[e] = "gone"
  /\ pc[e] = "gone" => e \in lost \union faulted
  /\ pc[e] = "leaked" => e \in faulted
  /\ pc[e] \in Owned \ {"created"} => e \in cancels
  /\ e \in cancels => pc[e] \in (Owned \ {"created"}) \union {"leaked"}

(* What the locals of the goroutine say about its report.                  *)
LocalsInv(e) ==
  /\ attempt[e] <= retryLimit[e]
  /\ pc[e] \in Triggering \union {"none"} => attempt[e] = 0
  /\ pc[e] \in HasReport => DOMAIN report[e] = rows[e].targets
  /\ pc[e] \in {"read", "decide"} => LoopEnds(e)
  /\ pc[e] = "retry" => attempt[e] > 0
  /\ outcome[e] # "absent" <=> pc[e] \in Epilogue
  /\ outcome[e] = "success" => ExitCode(report[e]) = 0
  /\ outcome[e] = "failed" => /\ ExitCode(report[e]) # 0
                              /\ attempt[e] = retryLimit[e]

NotifyInv(e) ==
  notified[e] # "absent" =>
    /\ pc[e] \in {"cleanup", "done", "gone"}
    /\ rows[e].status = notified[e] \/ (rows[e].status \in Live /\ e \in faulted)

ControlInv(e) == RowInv(e) /\ OwnerInv(e) /\ LocalsInv(e) /\ NotifyInv(e)

IInv == TypeOK /\ \A e \in ExecIds : ControlInv(e)

-----------------------------------------------------------------------------
(* Rows and reports.                                                       *)

LEMMA ReportType ==
  ASSUME NEW T \in SUBSET Servers, NEW rep \in [T -> BOOLEAN]
  PROVE  rep \in Lifecycle!Reports
  BY DEF Lifecycle!Reports

LEMMA NoRowType ==
  /\ NoReport \in Lifecycle!Reports
  /\ NoRow \in Lifecycle!Row
<1>1. NoReport \in [{} -> BOOLEAN]
  BY DEF NoReport, Lifecycle!NoReport
<1>2. NoReport \in Lifecycle!Reports
  BY <1>1, ReportType
<1>3. QED
  BY <1>2 DEF NoRow, NoReport, Lifecycle!NoRow, Lifecycle!Row,
              Lifecycle!Statuses, Lifecycle!NoReport

LEMMA RowStatus ==
  ASSUME NEW row \in Lifecycle!Row, NEW s \in Lifecycle!Statuses
  PROVE  [row EXCEPT !.status = s] \in Lifecycle!Row
  BY DEF Lifecycle!Row

LEMMA RowFinish ==
  ASSUME NEW row \in Lifecycle!Row, NEW s \in Lifecycle!Statuses,
         NEW rep \in Lifecycle!Reports
  PROVE  [row EXCEPT !.status = s, !.results = rep] \in Lifecycle!Row
  BY DEF Lifecycle!Row

(* The names of the statuses and of the control states.                    *)
LEMMA Vocabulary ==
  /\ Live = {"pending", "running", "retrying"}
  /\ Terminal = {"canceled", "success", "failed"}
  /\ Lifecycle!Statuses = {"absent"} \union Live \union Terminal
  BY DEF Live, Terminal, Lifecycle!Live, Lifecycle!Terminal, Lifecycle!Statuses

-----------------------------------------------------------------------------
(* What the operators shared by several actions preserve.                  *)

LEMMA UpdateType ==
  ASSUME TypeOK, NEW e \in ExecIds, NEW row \in Lifecycle!Row,
         UpdateExecution(e, row)
  PROVE  /\ rows' \in [ExecIds -> Lifecycle!Row]
         /\ faulted' \subseteq ExecIds
  BY DEF TypeOK, UpdateExecution

LEMMA ForgetType ==
  ASSUME TypeOK, NEW S, ForgetLocals(S)
  PROVE  /\ attempt' \in [ExecIds -> 0..MaxRetry]
         /\ retryLimit' \in [ExecIds -> 0..MaxRetry]
         /\ report' \in [ExecIds -> Lifecycle!Reports]
         /\ outcome' \in [ExecIds -> {"absent"} \union Terminal]
         /\ untimed' \subseteq Untimed
<1>1. 0 \in 0..MaxRetry
  BY ExecutionAssumption
<1>2. QED
  BY <1>1, NoRowType DEF TypeOK, ForgetLocals

LEMMA TriggerType ==
  ASSUME TypeOK, NEW e \in ExecIds, NEW targets \in Selections,
         NEW limit \in 0..MaxRetry, NEW parent \in ExecIds \union {NoExec},
         TriggerExecution(e, targets, limit, parent)
  PROVE  TypeOK'
<1>1. targets \subseteq Servers
  BY ExecutionAssumption
<1>2. [status |-> "pending", targets |-> targets, results |-> NoReport]
        \in Lifecycle!Row
  BY <1>1, NoRowType, Vocabulary DEF Lifecycle!Row
<1>3. QED
  BY <1>2 DEF TypeOK, TriggerExecution, Owned, Triggering

-----------------------------------------------------------------------------
LEMMA InitTypeOK == Init => TypeOK
<1>1. 0 \in 0..MaxRetry
  BY ExecutionAssumption
<1>2. QED
  BY <1>1, NoRowType DEF Init, TypeOK

LEMMA StepTypeOK ==
  ASSUME TypeOK, NEW e \in ExecIds, Step(e)
  PROVE  TypeOK'
<1> USE DEF Owned, Triggering, Running, Epilogue
<1>a. rows[e] \in Lifecycle!Row
  BY DEF TypeOK
<1>1. CASE Register(e)
  BY <1>1 DEF TypeOK, Register, locals
<1>2. CASE MarkRunning(e)
  <2>1. [rows[e] EXCEPT !.status = "running"] \in Lifecycle!Row
    BY <1>a, RowStatus, Vocabulary
  <2>2. rows' \in [ExecIds -> Lifecycle!Row] /\ faulted' \subseteq ExecIds
    BY <1>2, <2>1, UpdateType DEF MarkRunning
  <2>3. QED
    BY <1>2, <2>2 DEF TypeOK, MarkRunning, locals
<1>3. CASE RunServers(e)
  <2>1. PICK rep \in [rows[e].targets -> BOOLEAN] :
          report' = [report EXCEPT ![e] = rep]
    BY <1>3 DEF RunServers
  <2>2. rep \in Lifecycle!Reports
    BY <1>a, ReportType DEF Lifecycle!Row
  <2>3. QED
    BY <1>3, <2>1, <2>2 DEF TypeOK, RunServers
<1>4. CASE CheckLoop(e)
  <2>1. ~LoopEnds(e) => attempt[e] + 1 \in 0..MaxRetry
    BY ExecutionAssumption DEF TypeOK, LoopEnds
  <2>2. QED
    BY <1>4, <2>1 DEF TypeOK, CheckLoop
<1>5. CASE MarkRetrying(e)
  <2>1. [rows[e] EXCEPT !.status = "retrying"] \in Lifecycle!Row
    BY <1>a, RowStatus, Vocabulary
  <2>2. rows' \in [ExecIds -> Lifecycle!Row] /\ faulted' \subseteq ExecIds
    BY <1>5, <2>1, UpdateType DEF MarkRetrying
  <2>3. QED
    BY <1>5, <2>2 DEF TypeOK, MarkRetrying, locals
<1>6. CASE ReadStored(e)
  <2>1. CASE UNCHANGED locals
    BY <1>6, <2>1 DEF TypeOK, ReadStored, locals
  <2>2. CASE ForgetLocals({e})
    BY <1>6, <2>2, ForgetType DEF TypeOK, ReadStored
  <2>3. QED
    BY <1>6, <2>1, <2>2 DEF ReadStored
<1>7. CASE Decide(e)
  <2>1. FinalStatus(e \in ctxDone, report[e]) \in Terminal
    BY Vocabulary DEF FinalStatus
  <2>2. QED
    BY <1>7, <2>1 DEF TypeOK, Decide
<1>8. CASE WriteFinal(e)
  <2>0. outcome[e] \in Lifecycle!Statuses /\ report[e] \in Lifecycle!Reports
    BY Vocabulary DEF TypeOK
  <2>1. [rows[e] EXCEPT !.status = outcome[e], !.results = report[e]]
          \in Lifecycle!Row
    BY <1>a, <2>0, RowFinish
  <2>2. rows' \in [ExecIds -> Lifecycle!Row] /\ faulted' \subseteq ExecIds
    BY <1>8, <2>1, UpdateType DEF WriteFinal
  <2>3. QED
    BY <1>8, <2>2 DEF TypeOK, WriteFinal, locals
<1>9. CASE Notify(e)
  <2>1. Notifies(outcome[e]) => outcome[e] \in Terminal
    BY Vocabulary DEF Notifies
  <2>2. QED
    BY <1>9, <2>1 DEF TypeOK, Notify, locals
<1>10. CASE Cleanup(e)
  BY <1>10, ForgetType DEF TypeOK, Cleanup
<1>11. QED
  BY <1>1, <1>2, <1>3, <1>4, <1>5, <1>6, <1>7, <1>8, <1>9, <1>10 DEF Step

LEMMA NextTypeOK == TypeOK /\ [Next]_vars => TypeOK'
<1> SUFFICES ASSUME TypeOK, [Next]_vars PROVE TypeOK'
  OBVIOUS
<1>1. CASE \E e \in ExecIds : CreateRequest(e)
  BY <1>1, TriggerType DEF CreateRequest
<1>2. CASE \E e, old \in ExecIds : RetryRequest(old, e)
  BY <1>2, TriggerType DEF RetryRequest
<1>3. CASE \E e \in ExecIds : Step(e)
  BY <1>3, StepTypeOK
<1>4. CASE \E e \in ExecIds : CancelRequest(e)
  BY <1>4 DEF TypeOK, CancelRequest, locals
<1>5. CASE ProcessStop
  <2>1. pc' \in [ExecIds -> Owned \union {"none", "done", "leaked", "gone"}]
    BY <1>5 DEF ProcessStop, TypeOK
  <2>2. QED
    BY <1>5, <2>1, ForgetType DEF ProcessStop, TypeOK
<1>6. CASE UNCHANGED vars
  BY <1>6 DEF TypeOK, vars
<1>7. QED
  BY <1>1, <1>2, <1>3, <1>4, <1>5, <1>6 DEF Next

(* The variables keep their types.                                         *)
THEOREM TypeCorrect == Spec => []TypeOK
  BY InitTypeOK, NextTypeOK, PTL DEF Spec

-----------------------------------------------------------------------------
(* ControlInv(f) speaks of f alone: a step that changes nothing of f, but  *)
(* for canceling its context, preserves it.                                *)
SameFor(f) ==
  /\ rows'[f] = rows[f] /\ pc'[f] = pc[f] /\ notified'[f] = notified[f]
  /\ attempt'[f] = attempt[f] /\ retryLimit'[f] = retryLimit[f]
  /\ report'[f] = report[f] /\ outcome'[f] = outcome[f]
  /\ f \in cancels' <=> f \in cancels
  /\ f \in faulted' <=> f \in faulted
  /\ f \in lost' <=> f \in lost
  /\ f \in ctxDone => f \in ctxDone'

LEMMA Frame ==
  ASSUME NEW f \in ExecIds, ControlInv(f), SameFor(f)
  PROVE  ControlInv(f)'
<1> USE DEF SameFor, ControlInv
<1>1. RowInv(f)'
  BY DEF RowInv, Lifecycle!Backed
<1>2. OwnerInv(f)'
  BY DEF OwnerInv
<1>3. LocalsInv(f)'
  BY DEF LocalsInv, LoopEnds
<1>4. NotifyInv(f)'
  BY DEF NotifyInv
<1>5. QED
  BY <1>1, <1>2, <1>3, <1>4

LEMMA StepFrame ==
  ASSUME TypeOK, NEW e \in ExecIds, Step(e), NEW f \in ExecIds, f # e
  PROVE  SameFor(f)
<1> USE DEF TypeOK, SameFor, locals, UpdateExecution, ForgetLocals
<1>1. CASE Register(e)
  BY <1>1 DEF Register
<1>2. CASE MarkRunning(e)
  BY <1>2 DEF MarkRunning
<1>3. CASE RunServers(e)
  BY <1>3 DEF RunServers
<1>4. CASE CheckLoop(e)
  BY <1>4 DEF CheckLoop
<1>5. CASE MarkRetrying(e)
  BY <1>5 DEF MarkRetrying
<1>6. CASE ReadStored(e)
  BY <1>6 DEF ReadStored
<1>7. CASE Decide(e)
  BY <1>7 DEF Decide
<1>8. CASE WriteFinal(e)
  BY <1>8 DEF WriteFinal
<1>9. CASE Notify(e)
  BY <1>9 DEF Notify
<1>10. CASE Cleanup(e)
  BY <1>10 DEF Cleanup
<1>11. QED
  BY <1>1, <1>2, <1>3, <1>4, <1>5, <1>6, <1>7, <1>8, <1>9, <1>10 DEF Step

(* ExitCode is 0 exactly when every server of the report was backed up.    *)
LEMMA ExitCodeZero ==
  ASSUME NEW T, NEW rep \in [T -> BOOLEAN]
  PROVE  ExitCode(rep) = 0 <=> \A s \in T : rep[s]
<1> DEFINE failed == {s \in DOMAIN rep : ~rep[s]}
<1>1. ExitCode(rep) = 0 <=> failed = {}
  BY DEF ExitCode
<1>2. failed = {} <=> \A s \in T : rep[s]
  OBVIOUS
<1>3. QED
  BY <1>1, <1>2

(* The final status is backed by the report it was decided on.             *)
LEMMA FinalBacked ==
  ASSUME TypeOK, NEW e \in ExecIds, LocalsInv(e), pc[e] = "write",
         NEW row, row.status = outcome[e], row.results = report[e],
         row.targets = rows[e].targets
  PROVE  Lifecycle!Backed(row)
<1>1. report[e] \in Lifecycle!Reports
  BY DEF TypeOK
<1>2. PICK T \in SUBSET Servers : report[e] \in [T -> BOOLEAN]
  BY <1>1 DEF Lifecycle!Reports
<1>3. T = rows[e].targets
  BY <1>2 DEF LocalsInv, HasReport
<1>4. ExitCode(report[e]) = 0 <=> \A s \in T : report[e][s]
  BY <1>2, ExitCodeZero
<1>5. QED
  BY <1>2, <1>3, <1>4 DEF LocalsInv, Lifecycle!Backed

LEMMA StepControl ==
  ASSUME TypeOK, NEW e \in ExecIds, ControlInv(e), Step(e)
  PROVE  ControlInv(e)'
<1> USE Vocabulary DEF TypeOK, ControlInv, locals, UpdateExecution, ForgetLocals,
      Owned, Triggering, Running, Epilogue, HasReport
<1>1. CASE Register(e)
  <2>1. RowInv(e)'
    BY <1>1 DEF Register, RowInv, LocalsInv, Lifecycle!Backed, Lifecycle!Row
  <2>2. OwnerInv(e)'
    BY <1>1 DEF Register, OwnerInv
  <2>3. LocalsInv(e)'
    BY <1>1 DEF Register, LocalsInv, RowInv, LoopEnds, Lifecycle!Row
  <2>4. NotifyInv(e)'
    BY <1>1 DEF Register, NotifyInv, RowInv, Notifies
  <2>5. QED
    BY <2>1, <2>2, <2>3, <2>4
<1>2. CASE MarkRunning(e)
  <2>1. RowInv(e)'
    <3>1. pc'[e] = "attempt" /\ pc[e] = "registered"
      BY <1>2 DEF MarkRunning
    <3>2. rows[e].status \in Live
      BY <3>1 DEF RowInv
    <3>3. [rows[e] EXCEPT !.status = "running"].status = "running"
      BY DEF Lifecycle!Row
    <3>4. CASE rows'[e].status = "running"
      BY <3>1, <3>4 DEF RowInv, Lifecycle!Backed, Lifecycle!Terminal
    <3>5. CASE rows'[e] = rows[e] /\ e \in faulted'
      BY <3>1, <3>2, <3>5 DEF RowInv, Lifecycle!Backed
    <3>6. QED
      BY <1>2, <3>3, <3>4, <3>5 DEF MarkRunning
  <2>2. OwnerInv(e)'
    BY <1>2 DEF MarkRunning, OwnerInv
  <2>3. LocalsInv(e)'
    BY <1>2 DEF MarkRunning, LocalsInv, RowInv, LoopEnds, Lifecycle!Row
  <2>4. NotifyInv(e)'
    BY <1>2 DEF MarkRunning, NotifyInv, RowInv, Notifies
  <2>5. QED
    BY <2>1, <2>2, <2>3, <2>4
<1>3. CASE RunServers(e)
  <2>1. RowInv(e)'
    BY <1>3 DEF RunServers, RowInv, LocalsInv, Lifecycle!Backed, Lifecycle!Row
  <2>2. OwnerInv(e)'
    BY <1>3 DEF RunServers, OwnerInv
  <2>3. LocalsInv(e)'
    BY <1>3 DEF RunServers, LocalsInv, RowInv, LoopEnds, Lifecycle!Row
  <2>4. NotifyInv(e)'
    BY <1>3 DEF RunServers, NotifyInv, RowInv, Notifies
  <2>5. QED
    BY <2>1, <2>2, <2>3, <2>4
<1>4. CASE CheckLoop(e)
  <2>1. RowInv(e)'
    BY <1>4 DEF CheckLoop, RowInv, LocalsInv, Lifecycle!Backed, Lifecycle!Row
  <2>2. OwnerInv(e)'
    BY <1>4 DEF CheckLoop, OwnerInv
  <2>3. LocalsInv(e)'
    BY <1>4 DEF CheckLoop, LocalsInv, RowInv, LoopEnds, Lifecycle!Row
  <2>4. NotifyInv(e)'
    BY <1>4 DEF CheckLoop, NotifyInv, RowInv, Notifies
  <2>5. QED
    BY <2>1, <2>2, <2>3, <2>4
<1>5. CASE MarkRetrying(e)
  <2>1. RowInv(e)'
    <3>1. pc'[e] = "attempt" /\ pc[e] = "retry"
      BY <1>5 DEF MarkRetrying
    <3>2. rows[e].status \in Live
      BY <3>1 DEF RowInv
    <3>3. [rows[e] EXCEPT !.status = "retrying"].status = "retrying"
      BY DEF Lifecycle!Row
    <3>4. CASE rows'[e].status = "retrying"
      BY <3>1, <3>4 DEF RowInv, Lifecycle!Backed, Lifecycle!Terminal
    <3>5. CASE rows'[e] = rows[e] /\ e \in faulted'
      BY <3>1, <3>2, <3>5 DEF RowInv, Lifecycle!Backed
    <3>6. QED
      BY <1>5, <3>3, <3>4, <3>5 DEF MarkRetrying
  <2>2. OwnerInv(e)'
    BY <1>5 DEF MarkRetrying, OwnerInv
  <2>3. LocalsInv(e)'
    BY <1>5 DEF MarkRetrying, LocalsInv, RowInv, LoopEnds, Lifecycle!Row
  <2>4. NotifyInv(e)'
    BY <1>5 DEF MarkRetrying, NotifyInv, RowInv, Notifies
  <2>5. QED
    BY <2>1, <2>2, <2>3, <2>4
<1>6. CASE ReadStored(e)
  <2>1. RowInv(e)'
    BY <1>6 DEF ReadStored, RowInv, LocalsInv, Lifecycle!Backed, Lifecycle!Row
  <2>2. OwnerInv(e)'
    BY <1>6 DEF ReadStored, OwnerInv
  <2>3. LocalsInv(e)'
    BY <1>6 DEF ReadStored, LocalsInv, RowInv, LoopEnds, Lifecycle!Row
  <2>4. NotifyInv(e)'
    BY <1>6 DEF ReadStored, NotifyInv, RowInv, Notifies
  <2>5. QED
    BY <2>1, <2>2, <2>3, <2>4
<1>7. CASE Decide(e)
  <2>1. RowInv(e)'
    BY <1>7 DEF Decide, RowInv, LocalsInv, Lifecycle!Backed, Lifecycle!Row
  <2>2. OwnerInv(e)'
    BY <1>7 DEF Decide, OwnerInv
  <2>3. LocalsInv(e)'
    <3>1. /\ pc[e] = "decide" /\ pc'[e] = "write"
          /\ outcome'[e] = FinalStatus(e \in ctxDone, report[e])
          /\ UNCHANGED <<rows, attempt, retryLimit, report, ctxDone>>
      BY <1>7 DEF Decide
    <3>2. e \in ctxDone \/ ExitCode(report[e]) = 0 \/ attempt[e] = retryLimit[e]
      BY <3>1 DEF LocalsInv, LoopEnds
    <3>3. /\ outcome'[e] \in Terminal
          /\ outcome'[e] = "success" => ExitCode(report[e]) = 0
          /\ outcome'[e] = "failed" => /\ ExitCode(report[e]) # 0
                                       /\ attempt[e] = retryLimit[e]
      BY <3>1, <3>2 DEF FinalStatus
    <3>4. (ExitCode(report[e]) = 0)' <=> ExitCode(report[e]) = 0
      BY <3>1 DEF ExitCode
    <3>5. QED
      BY <3>1, <3>3, <3>4 DEF LocalsInv
  <2>4. NotifyInv(e)'
    BY <1>7 DEF Decide, NotifyInv, RowInv, Notifies
  <2>5. QED
    BY <2>1, <2>2, <2>3, <2>4
<1>8. CASE WriteFinal(e)
  <2>1. RowInv(e)'
    <3> DEFINE row == [rows[e] EXCEPT !.status = outcome[e],
                                      !.results = report[e]]
    <3>1. pc'[e] = "notify" /\ pc[e] = "write" /\ outcome'[e] = outcome[e]
      BY <1>8 DEF WriteFinal
    <3>2. outcome[e] \in Terminal /\ rows[e].status \in Live
      BY <3>1 DEF RowInv, LocalsInv
    <3>3. /\ row.status = outcome[e] /\ row.results = report[e]
          /\ row.targets = rows[e].targets
      BY DEF Lifecycle!Row
    <3>4. Lifecycle!Backed(row)
      BY <3>1, <3>3, FinalBacked
    <3>5. CASE rows'[e] = row
      <4>1. Lifecycle!Backed(rows[e])'
        BY <3>4, <3>5 DEF Lifecycle!Backed
      <4>2. QED
        BY <3>1, <3>2, <3>3, <3>5, <4>1 DEF RowInv
    <3>6. CASE rows'[e] = rows[e] /\ e \in faulted'
      BY <3>1, <3>2, <3>6 DEF RowInv, Lifecycle!Backed
    <3>7. QED
      BY <1>8, <3>5, <3>6 DEF WriteFinal
  <2>2. OwnerInv(e)'
    BY <1>8 DEF WriteFinal, OwnerInv
  <2>3. LocalsInv(e)'
    BY <1>8 DEF WriteFinal, LocalsInv, RowInv, LoopEnds, Lifecycle!Row
  <2>4. NotifyInv(e)'
    BY <1>8 DEF WriteFinal, NotifyInv, RowInv, Notifies
  <2>5. QED
    BY <2>1, <2>2, <2>3, <2>4
<1>9. CASE Notify(e)
  <2>1. RowInv(e)'
    BY <1>9 DEF Notify, RowInv, LocalsInv, Lifecycle!Backed, Lifecycle!Row
  <2>2. OwnerInv(e)'
    BY <1>9 DEF Notify, OwnerInv
  <2>3. LocalsInv(e)'
    BY <1>9 DEF Notify, LocalsInv, RowInv, LoopEnds, Lifecycle!Row
  <2>4. NotifyInv(e)'
    BY <1>9 DEF Notify, NotifyInv, RowInv, Notifies
  <2>5. QED
    BY <2>1, <2>2, <2>3, <2>4
<1>10. CASE Cleanup(e)
  <2>1. RowInv(e)'
    BY <1>10 DEF Cleanup, RowInv, LocalsInv, Lifecycle!Backed, Lifecycle!Row
  <2>2. OwnerInv(e)'
    BY <1>10 DEF Cleanup, OwnerInv
  <2>3. LocalsInv(e)'
    BY <1>10 DEF Cleanup, LocalsInv, RowInv, LoopEnds, Lifecycle!Row
  <2>4. NotifyInv(e)'
    BY <1>10 DEF Cleanup, NotifyInv, RowInv, Notifies
  <2>5. QED
    BY <2>1, <2>2, <2>3, <2>4
<1>11. QED
  BY <1>1, <1>2, <1>3, <1>4, <1>5, <1>6, <1>7, <1>8, <1>9, <1>10 DEF Step

LEMMA TriggerControl ==
  ASSUME IInv, NEW e \in ExecIds, NEW targets \in Selections,
         NEW limit \in 0..MaxRetry, NEW parent,
         TriggerExecution(e, targets, limit, parent), NEW f \in ExecIds
  PROVE  ControlInv(f)'
<1> USE DEF IInv, TypeOK
<1>1. CASE f = e
  <2>1. RowInv(e)'
    BY DEF TriggerExecution, RowInv, Lifecycle!Backed, Lifecycle!Terminal,
           Triggering, Running, Terminal
  <2>2. OwnerInv(e)'
    BY DEF TriggerExecution, ControlInv, OwnerInv, Owned, Triggering, Running,
           Epilogue
  <2>3. LocalsInv(e)'
    <3>1. attempt[e] <= limit
      <4>1. attempt[e] = 0
        BY DEF TriggerExecution, ControlInv, LocalsInv
      <4>2. QED
        BY <4>1, ExecutionAssumption
    <3>2. QED
      BY <3>1 DEF TriggerExecution, ControlInv, LocalsInv, HasReport, Epilogue
  <2>4. NotifyInv(e)'
    BY DEF TriggerExecution, ControlInv, NotifyInv
  <2>5. QED
    BY <1>1, <2>1, <2>2, <2>3, <2>4 DEF ControlInv
<1>2. CASE f # e
  BY <1>2, Frame DEF TriggerExecution, SameFor
<1>3. QED
  BY <1>1, <1>2

LEMMA StopControl ==
  ASSUME IInv, ProcessStop, NEW f \in ExecIds
  PROVE  ControlInv(f)'
<1> USE Vocabulary DEF IInv, TypeOK, ControlInv, ProcessStop, Owned, Triggering,
      Running, Epilogue
<1>1. RowInv(f)'
  BY DEF RowInv, NotifyInv, Lifecycle!Backed
<1>2. OwnerInv(f)'
  BY DEF OwnerInv
<1>3. LocalsInv(f)'
  <2>1. pc'[f] \in {"none", "done", "gone"}
    OBVIOUS
  <2>2. attempt'[f] = 0 /\ retryLimit'[f] = 0 /\ outcome'[f] = "absent"
    BY DEF ForgetLocals
  <2>3. QED
    BY <2>1, <2>2 DEF LocalsInv, HasReport
<1>4. NotifyInv(f)'
  BY DEF NotifyInv
<1>5. QED
  BY <1>1, <1>2, <1>3, <1>4

-----------------------------------------------------------------------------
LEMMA InitIInv == Init => IInv
<1> SUFFICES ASSUME Init, NEW e \in ExecIds PROVE ControlInv(e)
  BY InitTypeOK DEF IInv
<1>1. RowInv(e)
  BY DEF Init, RowInv, NoRow, Lifecycle!NoRow, Lifecycle!Backed, Terminal,
         Lifecycle!Terminal, Triggering, Running
<1>2. OwnerInv(e)
  BY DEF Init, OwnerInv, Owned, Triggering, Running, Epilogue
<1>3. LocalsInv(e)
  BY DEF Init, LocalsInv, HasReport, Epilogue
<1>4. NotifyInv(e)
  BY DEF Init, NotifyInv
<1>5. QED
  BY <1>1, <1>2, <1>3, <1>4 DEF ControlInv

LEMMA NextIInv == IInv /\ [Next]_vars => IInv'
<1> SUFFICES ASSUME IInv, [Next]_vars, NEW f \in ExecIds PROVE ControlInv(f)'
  BY NextTypeOK DEF IInv
<1>0. TypeOK /\ ControlInv(f)
  BY DEF IInv
<1>1. CASE \E e \in ExecIds : CreateRequest(e)
  BY <1>1, TriggerControl DEF CreateRequest
<1>2. CASE \E e, old \in ExecIds : RetryRequest(old, e)
  BY <1>2, TriggerControl DEF RetryRequest
<1>3. CASE \E e \in ExecIds : Step(e)
  <2>1. PICK e \in ExecIds : Step(e)
    BY <1>3
  <2>2. CASE e = f
    BY <1>0, <2>1, <2>2, StepControl
  <2>3. CASE e # f
    BY <1>0, <2>1, <2>3, StepFrame, Frame
  <2>4. QED
    BY <2>2, <2>3
<1>4. CASE \E e \in ExecIds : CancelRequest(e)
  BY <1>0, <1>4, Frame DEF CancelRequest, SameFor, locals
<1>5. CASE ProcessStop
  BY <1>5, StopControl
<1>6. CASE UNCHANGED vars
  BY <1>0, <1>6, Frame DEF vars, SameFor
<1>7. QED
  BY <1>1, <1>2, <1>3, <1>4, <1>5, <1>6 DEF Next

LEMMA Invariance == Spec => []IInv
  BY InitIInv, NextIInv, PTL DEF Spec

(* The executions table and Server.cancels agree: a live row has an owner  *)
(* and, once running, a cancel function, unless the process stopped or the *)
(* store failed under it.                                                  *)
THEOREM LiveRowsAreOwnedHolds == Spec => []LiveRowsAreOwned
<1>1. ASSUME IInv, NEW e \in ExecIds
      PROVE  /\ rows[e].status \in Live /\ e \notin lost \union faulted
                  => pc[e] \in Owned
             /\ rows[e].status \in {"running", "retrying"} /\ e \notin lost \union faulted
                  => e \in cancels
             /\ e \in cancels /\ e \notin faulted => pc[e] \in Owned \ {"created"}
  <2>1. /\ pc[e] \in Owned \union {"none", "done", "leaked", "gone"}
        /\ RowInv(e) /\ OwnerInv(e)
    BY <1>1 DEF IInv, TypeOK, ControlInv
  <2>2. NoRow.status = "absent"
    BY DEF NoRow, Lifecycle!NoRow
  <2>3. rows[e].status \in Live /\ e \notin lost \union faulted => pc[e] \in Owned
    BY <2>1, <2>2, Vocabulary DEF RowInv, OwnerInv
  <2>4. rows[e].status \in {"running", "retrying"} => pc[e] # "created"
    BY <2>1 DEF RowInv, Triggering
  <2>5. rows[e].status \in {"running", "retrying"} => rows[e].status \in Live
    BY Vocabulary
  <2>6. /\ pc[e] \in Owned \ {"created"} => e \in cancels
        /\ e \in cancels /\ e \notin faulted => pc[e] \in Owned \ {"created"}
    BY <2>1 DEF OwnerInv
  <2>7. QED
    BY <2>3, <2>4, <2>5, <2>6
<1>2. IInv => LiveRowsAreOwned
  BY <1>1 DEF LiveRowsAreOwned
<1>3. QED
  BY <1>2, Invariance, PTL

(* "success" and "failed" are what the stored results say, and "failed" is *)
(* only decided when the retries of the policy are used up.                *)
THEOREM OutcomeMatchesReportHolds == Spec => []OutcomeMatchesReport
<1>1. IInv => OutcomeMatchesReport
  BY DEF IInv, ControlInv, RowInv, LocalsInv, OutcomeMatchesReport
<1>2. QED
  BY <1>1, Invariance, PTL

(* The notifier is told the status that the executions table shows, or,    *)
(* where the store has failed, the outcome that a row which stays live     *)
(* ought to show; never one that the table contradicts with another.       *)
THEOREM NotificationMatchesRowHolds == Spec => []NotificationMatchesRow
<1>1. IInv => NotificationMatchesRow
  BY DEF IInv, ControlInv, NotifyInv, NotificationMatchesRow
<1>2. QED
  BY <1>1, Invariance, PTL

-----------------------------------------------------------------------------
(* Refinement: every step is a step of ExecutionLifecycle or leaves the    *)
(* executions table alone.                                                 *)

LEMMA AdvanceStep ==
  ASSUME IInv, NEW e \in ExecIds, NEW row \in Lifecycle!Row,
         UpdateExecution(e, row),
         rows[e].status \in Live, row.targets = rows[e].targets,
         \/ Lifecycle!Rank(row.status) > Lifecycle!Rank(rows[e].status)
         \/ row = rows[e],
         Lifecycle!Backed(row)
  PROVE  Lifecycle!Next \/ UNCHANGED rows
<1>1. CASE rows' = [rows EXCEPT ![e] = row]
  <2>1. rows'[e] = row
    BY <1>1 DEF IInv, TypeOK
  <2>2. CASE row = rows[e]
    BY <1>1, <2>2 DEF IInv, TypeOK
  <2>3. CASE Lifecycle!Rank(row.status) > Lifecycle!Rank(rows[e].status)
    <3>1. Lifecycle!Advance(e)
      BY <1>1, <2>1, <2>3 DEF Lifecycle!Advance, Live
    <3>2. QED
      BY <3>1 DEF Lifecycle!Next
  <2>4. QED
    BY <2>2, <2>3
<1>2. CASE UNCHANGED rows
  BY <1>2
<1>3. QED
  BY <1>1, <1>2 DEF UpdateExecution

LEMMA TriggerStep ==
  ASSUME IInv, NEW e \in ExecIds, NEW targets \in Selections,
         NEW limit, NEW parent, TriggerExecution(e, targets, limit, parent)
  PROVE  Lifecycle!Next
<1>1. rows[e] = NoRow
  BY DEF IInv, ControlInv, RowInv, TriggerExecution
<1>2. targets \in (SUBSET Servers) \ {{}}
  BY ExecutionAssumption
<1>3. Lifecycle!Create(e)
  BY <1>1, <1>2 DEF Lifecycle!Create, TriggerExecution, NoRow, NoReport
<1>4. QED
  BY <1>3 DEF Lifecycle!Next

LEMMA StepRefines ==
  ASSUME IInv, NEW e \in ExecIds, Step(e)
  PROVE  Lifecycle!Next \/ UNCHANGED rows
<1>1. TypeOK /\ ControlInv(e) /\ rows[e] \in Lifecycle!Row
  BY DEF IInv, TypeOK
<1>2. CASE MarkRunning(e)
  <2> DEFINE row == [rows[e] EXCEPT !.status = "running"]
  <2>1. row \in Lifecycle!Row
    BY <1>1, RowStatus, Vocabulary
  <2>2. row.status = "running" /\ row.targets = rows[e].targets
    BY <1>1 DEF Lifecycle!Row
  <2>3. rows[e].status = "pending"
    BY <1>1, <1>2 DEF ControlInv, RowInv, MarkRunning, Triggering
  <2>4. Lifecycle!Backed(row)
    BY <2>2 DEF Lifecycle!Backed, Lifecycle!Terminal
  <2>5. Lifecycle!Rank(row.status) > Lifecycle!Rank(rows[e].status)
    BY <2>2, <2>3 DEF Lifecycle!Rank
  <2>6. UpdateExecution(e, row)
    BY <1>2 DEF MarkRunning
  <2>7. QED
    BY <2>1, <2>2, <2>3, <2>4, <2>5, <2>6, AdvanceStep, Vocabulary
<1>3. CASE MarkRetrying(e)
  <2> DEFINE row == [rows[e] EXCEPT !.status = "retrying"]
  <2>1. row \in Lifecycle!Row
    BY <1>1, RowStatus, Vocabulary
  <2>2. row.status = "retrying" /\ row.targets = rows[e].targets
    BY <1>1 DEF Lifecycle!Row
  <2>3. rows[e].status \in {"pending", "running", "retrying"}
    BY <1>1, <1>3, Vocabulary DEF ControlInv, RowInv, MarkRetrying, Running
  <2>4. Lifecycle!Backed(row)
    BY <2>2 DEF Lifecycle!Backed, Lifecycle!Terminal
  <2>5. \/ Lifecycle!Rank(row.status) > Lifecycle!Rank(rows[e].status)
        \/ row = rows[e]
    <3>1. rows[e].status = "retrying" => row = rows[e]
      BY <1>1 DEF Lifecycle!Row
    <3>2. QED
      BY <2>2, <2>3, <3>1 DEF Lifecycle!Rank
  <2>6. UpdateExecution(e, row)
    BY <1>3 DEF MarkRetrying
  <2>7. QED
    BY <2>1, <2>2, <2>3, <2>4, <2>5, <2>6, AdvanceStep, Vocabulary
<1>4. CASE WriteFinal(e)
  <2> DEFINE row == [rows[e] EXCEPT !.status = outcome[e], !.results = report[e]]
  <2>1. outcome[e] \in Terminal /\ report[e] \in Lifecycle!Reports
    BY <1>1, <1>4 DEF ControlInv, LocalsInv, WriteFinal, TypeOK, Epilogue
  <2>2. row \in Lifecycle!Row
    BY <1>1, <2>1, RowFinish, Vocabulary
  <2>3. /\ row.status = outcome[e] /\ row.results = report[e]
        /\ row.targets = rows[e].targets
    BY <1>1 DEF Lifecycle!Row
  <2>4. rows[e].status \in {"pending", "running", "retrying"}
    BY <1>1, <1>4, Vocabulary DEF ControlInv, RowInv, WriteFinal
  <2>5. Lifecycle!Backed(row)
    BY <1>1, <1>4, <2>3, FinalBacked DEF ControlInv, WriteFinal
  <2>6. Lifecycle!Rank(row.status) > Lifecycle!Rank(rows[e].status)
    BY <2>1, <2>3, <2>4, Vocabulary DEF Lifecycle!Rank
  <2>7. UpdateExecution(e, row)
    BY <1>4 DEF WriteFinal
  <2>8. QED
    BY <2>2, <2>3, <2>4, <2>5, <2>6, <2>7, AdvanceStep, Vocabulary
<1>5. CASE ~(MarkRunning(e) \/ MarkRetrying(e) \/ WriteFinal(e))
  BY <1>5 DEF Step, Register, RunServers, CheckLoop, ReadStored, Decide, Notify,
              Cleanup
<1>6. QED
  BY <1>2, <1>3, <1>4, <1>5

LEMMA NextRefines == IInv /\ [Next]_vars => [Lifecycle!Next]_rows
<1> SUFFICES ASSUME IInv, [Next]_vars PROVE Lifecycle!Next \/ UNCHANGED rows
  OBVIOUS
<1>1. CASE \E e \in ExecIds : CreateRequest(e)
  BY <1>1, TriggerStep DEF CreateRequest
<1>2. CASE \E e, old \in ExecIds : RetryRequest(old, e)
  BY <1>2, TriggerStep DEF RetryRequest
<1>3. CASE \E e \in ExecIds : Step(e)
  BY <1>3, StepRefines
<1>4. CASE \E e \in ExecIds : CancelRequest(e)
  BY <1>4 DEF CancelRequest
<1>5. CASE ProcessStop
  BY <1>5 DEF ProcessStop
<1>6. CASE UNCHANGED vars
  BY <1>6 DEF vars
<1>7. QED
  BY <1>1, <1>2, <1>3, <1>4, <1>5, <1>6 DEF Next

(* A client that polls an execution sees its status move forward only and  *)
(* a finished row never change, whatever requests, store failures and      *)
(* stops happen: Execution implements ExecutionLifecycle.                  *)
THEOREM Refinement == Spec => ImplementsLifecycle
<1>1. Init => Lifecycle!Init
  BY DEF Init, Lifecycle!Init, NoRow
<1>2. QED
  BY <1>1, NextRefines, Invariance, PTL DEF Spec, ImplementsLifecycle, Lifecycle!Spec
=============================================================================
