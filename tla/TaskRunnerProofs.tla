--------------------------- MODULE TaskRunnerProofs ---------------------------
(***************************************************************************)
(* Proofs about TaskRunner, for any set of servers and any limits.  The    *)
(* bound on the backups in progress follows from counting the holders of a *)
(* slot (SlotsMatchHolders); that the report is complete follows from what *)
(* the slice holds once a goroutine has appended to it (ResultsInv).  An   *)
(* SSH session is where TaskRunner has its job (SessionInv), and each of   *)
(* its steps is a step of TaskRunner or none.                              *)
(***************************************************************************)
EXTENDS SshSession, FiniteSetTheorems, TLAPS

Working  == {"acquire", "check", "connect", "execute"}
Recorded == {"release", "exited"}

(* The slice holds the result of every job that has appended one, and      *)
(* nothing else; a job has a result once it no longer works.               *)
ResultsInv ==
  /\ \A i \in DOMAIN results :
       /\ pc[results[i].job] \in Recorded
       /\ results[i].res = outcome[results[i].job]
  /\ \A j \in Jobs :
       /\ pc[j] \in Recorded => \E i \in DOMAIN results : results[i].job = j
       /\ outcome[j] = "none" <=> pc[j] \in Working

IInv == TypeOK /\ SlotsMatchHolders /\ ResultsInv

ResultType == [job : Jobs, res : {"ok", "failed"}]

-----------------------------------------------------------------------------
(* Facts about slots and about the slice.                                  *)

(* A set of jobs is finite and its cardinality a number.                   *)
LEMMA JobsFinite ==
  ASSUME NEW S \in SUBSET Jobs
  PROVE  IsFiniteSet(S) /\ Cardinality(S) \in Nat
BY RunnerAssumption, FS_Subset, FS_CardinalityType

(* Taking a slot and giving it back move the count by one.                 *)
LEMMA HolderCount ==
  ASSUME NEW S \in SUBSET Jobs, NEW j \in Jobs
  PROVE  /\ j \notin S => Cardinality(S \union {j}) = Cardinality(S) + 1
         /\ j \in S => Cardinality(S \ {j}) = Cardinality(S) - 1
         /\ j \notin S => S \ {j} = S
BY JobsFinite, FS_AddElement, FS_RemoveElement

(* Once every job has appended its result the report is what they decided. *)
LEMMA ReportIsOutcome ==
  ASSUME ResultsInv, TypeOK, \A j \in Jobs : pc[j] = "exited"
  PROVE  /\ ReportOf(results) = outcome
         /\ outcome \in [Jobs -> {"ok", "failed"}]
<1>1. ASSUME NEW j \in Jobs
      PROVE  /\ ReportOf(results)[j] = outcome[j]
             /\ outcome[j] \in {"ok", "failed"}
  <2>1. \E i \in DOMAIN results : results[i].job = j
    BY DEF ResultsInv, Recorded
  <2>2. DEFINE k == CHOOSE i \in DOMAIN results : results[i].job = j
  <2>3. k \in DOMAIN results /\ results[k].job = j
    BY <2>1
  <2>4. results[k].res = outcome[j]
    BY <2>3 DEF ResultsInv
  <2>5. ReportOf(results)[j] = results[k].res
    BY <2>1 DEF ReportOf
  <2>6. outcome[j] # "none"
    BY DEF ResultsInv, Working
  <2> QED BY <2>4, <2>5, <2>6 DEF TypeOK
<1>2. outcome = [j \in Jobs |-> outcome[j]]
  BY DEF TypeOK
<1>3. ReportOf(results) = [j \in Jobs |-> ReportOf(results)[j]]
  BY DEF ReportOf
<1> QED BY <1>1, <1>2, <1>3

-----------------------------------------------------------------------------
(* The invariant.                                                          *)

LEMMA InitIInv == Init => IInv
<1> SUFFICES ASSUME Init PROVE IInv
  OBVIOUS
<1> USE RunnerAssumption DEF Init
<1>1. TypeOK
  BY DEF TypeOK, Stages
<1>2. SlotsMatchHolders
  BY FS_EmptySet DEF SlotsMatchHolders
<1>3. ResultsInv
  BY DEF ResultsInv, Recorded, Working
<1> QED BY <1>1, <1>2, <1>3 DEF IInv

LEMMA NextTypeOK == IInv /\ [Next]_vars => TypeOK'
<1> SUFFICES ASSUME IInv, [Next]_vars PROVE TypeOK'
  OBVIOUS
<1> USE RunnerAssumption DEF IInv, TypeOK, Stages, config
<1>1. CASE Cancel
  BY <1>1 DEF Cancel
<1>2. CASE Wait
  BY <1>2, ReportIsOutcome DEF Wait
<1>3. ASSUME NEW j \in Jobs, Acquire(j) PROVE TypeOK'
  BY <1>3 DEF Acquire
<1>4. ASSUME NEW j \in Jobs, GiveUp(j) PROVE TypeOK'
  BY <1>4 DEF GiveUp
<1>5. ASSUME NEW j \in Jobs, Begin(j) PROVE TypeOK'
  BY <1>5 DEF Begin
<1>6. ASSUME NEW j \in Jobs, AppendResult(j) PROVE TypeOK'
  <2>1. [job |-> j, res |-> outcome[j]] \in ResultType
    BY <1>6 DEF AppendResult, ResultsInv, ResultType, Working
  <2>2. results' \in Seq(ResultType)
    BY <1>6, <2>1 DEF AppendResult, ResultType
  <2> QED BY <1>6, <2>2 DEF AppendResult, ResultType
<1>7. ASSUME NEW j \in Jobs, Release(j) PROVE TypeOK'
  <2>1. j \in held => Cardinality(held) = Cardinality(held \ {j}) + 1
    <3>1. held \in SUBSET Jobs
      OBVIOUS
    <3>2. Cardinality(held) \in Nat
      BY <3>1, JobsFinite
    <3>3. j \in held => Cardinality(held \ {j}) = Cardinality(held) - 1
      BY <3>1, HolderCount
    <3> QED BY ONLY <3>2, <3>3, SMT
  <2>2. Cardinality(held \ {j}) \in Nat
    BY JobsFinite
  <2>3. j \in held => sem > 0
    BY <2>1, <2>2 DEF SlotsMatchHolders
  <2> QED BY <1>7, <2>3 DEF Release
<1>8. ASSUME NEW j \in Jobs, Expire(j) PROVE TypeOK'
  BY <1>8 DEF Expire
<1>9. ASSUME NEW j \in Jobs, Execute(j) PROVE TypeOK'
  BY <1>9 DEF Execute
<1>10. ASSUME NEW j \in Jobs, Connect(j) PROVE TypeOK'
  BY <1>10 DEF Connect
<1>11. CASE UNCHANGED vars
  BY <1>11 DEF vars
<1> QED BY <1>1, <1>2, <1>3, <1>4, <1>5, <1>6, <1>7, <1>8, <1>9, <1>10, <1>11
        DEF Next, Job

LEMMA NextSlots == IInv /\ [Next]_vars => SlotsMatchHolders'
<1> SUFFICES ASSUME IInv, [Next]_vars PROVE SlotsMatchHolders'
  OBVIOUS
<1> USE RunnerAssumption DEF IInv, SlotsMatchHolders, TypeOK, config
<1>1. CASE Cancel \/ Wait
  BY <1>1 DEF Cancel, Wait
<1>2. ASSUME NEW j \in Jobs, Acquire(j) PROVE SlotsMatchHolders'
  <2>1. j \notin held
    BY <1>2 DEF Acquire
  <2>2. Cardinality(held \union {j}) = sem + 1
    BY <2>1, HolderCount
  <2>3. limit' = limit /\ pc' = [pc EXCEPT ![j] = "check"]
    BY <1>2 DEF Acquire
  <2>4. CASE limit = 0 /\ UNCHANGED <<sem, held>>
    BY <2>3, <2>4
  <2>5. CASE sem < limit /\ sem' = sem + 1 /\ held' = held \union {j}
    <3>1. limit > 0
      BY <2>5
    <3> QED BY <2>2, <2>3, <2>5, <3>1
  <2> QED BY <1>2, <2>4, <2>5 DEF Acquire
<1>3. ASSUME NEW j \in Jobs, GiveUp(j) \/ Begin(j) \/ Connect(j)
      PROVE  SlotsMatchHolders'
  BY <1>3 DEF GiveUp, Begin, Connect
<1>4. ASSUME NEW j \in Jobs, AppendResult(j) \/ Expire(j) \/ Execute(j)
      PROVE  SlotsMatchHolders'
  BY <1>4 DEF AppendResult, Expire, Execute
<1>5. ASSUME NEW j \in Jobs, Release(j) PROVE SlotsMatchHolders'
  <2>1. sem' = Cardinality(held')
    BY <1>5, HolderCount DEF Release
  <2> QED BY <1>5, <2>1 DEF Release
<1>6. CASE UNCHANGED vars
  BY <1>6 DEF vars
<1> QED BY <1>1, <1>2, <1>3, <1>4, <1>5, <1>6 DEF Next, Job

LEMMA NextResults == IInv /\ [Next]_vars => ResultsInv'
<1> SUFFICES ASSUME IInv, [Next]_vars PROVE ResultsInv'
  OBVIOUS
<1> USE DEF IInv, ResultsInv, Recorded, Working, TypeOK
<1>0. \A i \in DOMAIN results : results[i].job \in Jobs
  <2>1. results \in Seq(ResultType)
    BY DEF ResultType
  <2>2. \A i \in DOMAIN results : results[i] \in ResultType
    BY <2>1
  <2> QED BY <2>2 DEF ResultType
<1>1. CASE Cancel \/ Wait
  BY <1>1 DEF Cancel, Wait
<1>2. ASSUME NEW j \in Jobs, Acquire(j) \/ GiveUp(j) \/ Begin(j) PROVE ResultsInv'
  BY <1>0, <1>2 DEF Acquire, GiveUp, Begin
<1>3. ASSUME NEW j \in Jobs, Connect(j) \/ Expire(j) \/ Execute(j)
      PROVE  ResultsInv'
  BY <1>0, <1>3 DEF Connect, Expire, Execute
<1>4. ASSUME NEW j \in Jobs, AppendResult(j) PROVE ResultsInv'
  <2>1. DEFINE r == [job |-> j, res |-> outcome[j]]
  <2>2. results \in Seq(ResultType) /\ r \in ResultType
    BY <1>4 DEF AppendResult, ResultType
  <2>3. /\ DOMAIN results' = 1..(Len(results) + 1)
        /\ DOMAIN results = 1..Len(results)
        /\ Len(results) \in Nat
        /\ \A i \in DOMAIN results : results'[i] = results[i]
        /\ results'[Len(results) + 1] = r
    BY <1>4, <2>2 DEF AppendResult
  <2>4. pc' = [pc EXCEPT ![j] = "release"] /\ outcome' = outcome
    BY <1>4 DEF AppendResult
  <2>5. \A i \in DOMAIN results' :
          /\ pc'[results'[i].job] \in Recorded
          /\ results'[i].res = outcome'[results'[i].job]
    BY <1>0, <2>3, <2>4
  <2>6. \A k \in Jobs :
          pc'[k] \in Recorded => \E i \in DOMAIN results' : results'[i].job = k
    <3>1. results'[Len(results) + 1].job = j
      BY <2>3
    <3>2. ASSUME NEW k \in Jobs \ {j}, pc'[k] \in Recorded
          PROVE  \E i \in DOMAIN results : results[i].job = k
      BY <2>4, <3>2
    <3>3. Len(results) + 1 \in DOMAIN results' /\ DOMAIN results \subseteq DOMAIN results'
      BY <2>3
    <3> QED BY <2>3, <3>1, <3>2, <3>3
  <2>7. \A k \in Jobs :
          outcome'[k] = "none" <=> pc'[k] \in Working
    BY <1>4, <2>4 DEF AppendResult
  <2> QED BY <2>5, <2>6, <2>7
<1>5. ASSUME NEW j \in Jobs, Release(j) PROVE ResultsInv'
  BY <1>0, <1>5 DEF Release
<1>6. CASE UNCHANGED vars
  BY <1>6 DEF vars
<1> QED BY <1>1, <1>2, <1>3, <1>4, <1>5, <1>6 DEF Next, Job

LEMMA Invariance == Spec => []IInv
<1>1. IInv /\ [Next]_vars => IInv'
  BY NextTypeOK, NextSlots, NextResults DEF IInv
<1> QED BY InitIInv, <1>1, PTL DEF Spec

(* In every behaviour the variables keep their types; in particular the    *)
(* semaphore never holds more slots than it has.                           *)
THEOREM TypeCorrect == Spec => []TypeOK
BY Invariance, PTL DEF IInv

(* No slot of the semaphore is lost or given back twice, whichever way a   *)
(* goroutine leaves.                                                       *)
THEOREM SlotsMatchHoldersHolds == Spec => []SlotsMatchHolders
BY Invariance, PTL DEF IInv

-----------------------------------------------------------------------------
(* The refinement.                                                         *)

Executing == {j \in Jobs : pc[j] \in {"connect", "execute"}}

(* Starting a job keeps the number of backups in progress under the limit. *)
LEMMA ActiveBound ==
  ASSUME IInv, NEW j \in Jobs, pc[j] = "check", limit > 0
  PROVE  Cardinality(Executing \union {j}) <= limit
<1>1. Executing \union {j} \subseteq held /\ held \subseteq Jobs
  BY DEF IInv, TypeOK, SlotsMatchHolders, Executing
<1>2. Cardinality(Executing \union {j}) <= Cardinality(held)
  BY <1>1, JobsFinite, FS_Subset
<1>3. /\ Cardinality(held) = sem /\ sem \in Nat
      /\ sem <= limit /\ limit \in Nat
  BY RunnerAssumption DEF IInv, TypeOK, SlotsMatchHolders
<1>4. Cardinality(Executing \union {j}) \in Nat
  BY <1>1, JobsFinite
<1> QED BY <1>2, <1>3, <1>4

(* The jobs that execute after job j has moved to another stage.           *)
LEMMA ExecutingAfter ==
  ASSUME TypeOK, NEW j \in Jobs
  PROVE  /\ pc' = [pc EXCEPT ![j] = "connect"] => Executing' = Executing \union {j}
         /\ pc' = [pc EXCEPT ![j] = "append"] => Executing' = Executing \ {j}
         /\ pc[j] = "connect" /\ pc' = [pc EXCEPT ![j] = "execute"]
              => Executing' = Executing
         /\ pc[j] \notin {"connect", "execute"} =>
              \A stage \in {"check", "release", "exited"} :
                pc' = [pc EXCEPT ![j] = stage] => Executing' = Executing
BY DEF TypeOK, Executing

(* The contract counts with the same operator.                             *)
LEMMA SameCount == \A S : Contract!Cardinality(S) = Cardinality(S)
BY DEF Contract!Cardinality, Cardinality

LEMMA StepImplements == IInv /\ [Next]_vars => [Contract!Next]_(Contract!vars)
<1> SUFFICES ASSUME IInv, [Next]_vars
             PROVE  Contract!Next \/ UNCHANGED Contract!vars
  BY DEF Contract!vars
<1> USE DEF config, Contract!vars
<1>0. TypeOK /\ ResultsInv
  BY DEF IInv
<1>1. CASE Cancel
  BY <1>1 DEF Cancel, Contract!Next, Contract!Cancel
<1>2. CASE Wait
  <2>1. ReportOf(results) = outcome /\ \A j \in Jobs : outcome[j] # "none"
    BY <1>0, <1>2, ReportIsOutcome DEF Wait
  <2> QED BY <1>2, <2>1 DEF Wait, Contract!Next, Contract!Return
<1>3. ASSUME NEW j \in Jobs, Acquire(j) PROVE UNCHANGED Contract!vars
  <2>1. Executing' = Executing
    BY <1>0, <1>3, ExecutingAfter DEF Acquire
  <2> QED BY <1>3, <2>1 DEF Acquire, Executing
<1>4. ASSUME NEW j \in Jobs, GiveUp(j) PROVE Contract!Decide(j)
  <2>1. Executing' = Executing \ {j}
    BY <1>0, <1>4, ExecutingAfter DEF GiveUp
  <2>2. outcome[j] = "none"
    BY <1>0, <1>4 DEF GiveUp, ResultsInv, Working
  <2> QED BY <1>4, <2>1, <2>2 DEF GiveUp, Executing, Contract!Decide, Contract!Results
<1>5. ASSUME NEW j \in Jobs, Begin(j) PROVE Contract!Start(j) \/ Contract!Decide(j)
  <2>1. outcome[j] = "none" /\ j \notin Executing
    BY <1>0, <1>5 DEF Begin, ResultsInv, Working, Executing
  <2>2. CASE pc' = [pc EXCEPT ![j] = "connect"] /\ ~ctxDone /\ UNCHANGED outcome
    <3>1. Executing' = Executing \union {j}
      BY <1>0, <2>2, ExecutingAfter
    <3>2. limit > 0 => Cardinality(Executing') <= limit
      BY <1>5, <3>1, ActiveBound DEF Begin
    <3>3. UNCHANGED <<limit, ctxDone, returned>>
      BY <1>5 DEF Begin
    <3> QED BY <2>1, <2>2, <3>1, <3>2, <3>3, SameCount DEF Executing, Contract!Start
  <2>3. CASE /\ outcome' = [outcome EXCEPT ![j] = "failed"]
             /\ pc' = [pc EXCEPT ![j] = "append"]
    <3>1. Executing' = Executing \ {j}
      BY <1>0, <2>3, ExecutingAfter
    <3> QED BY <1>5, <2>1, <2>3, <3>1
            DEF Begin, Executing, Contract!Decide, Contract!Results
  <2> QED BY <1>5, <2>2, <2>3 DEF Begin
<1>6. ASSUME NEW j \in Jobs, Expire(j) PROVE UNCHANGED Contract!vars
  BY <1>6 DEF Expire
<1>7. ASSUME NEW j \in Jobs, Execute(j) PROVE Contract!Decide(j)
  <2>1. Executing' = Executing \ {j}
    BY <1>0, <1>7, ExecutingAfter DEF Execute
  <2>2. outcome[j] = "none" /\ j \in Executing
    BY <1>0, <1>7 DEF Execute, ResultsInv, Working, Executing
  <2> QED BY <1>7, <2>1, <2>2
          DEF Execute, Executing, Contract!Decide, Contract!Results
<1>8. ASSUME NEW j \in Jobs, AppendResult(j) PROVE UNCHANGED Contract!vars
  <2>1. Executing' = Executing
    BY <1>0, <1>8, ExecutingAfter DEF AppendResult
  <2> QED BY <1>8, <2>1 DEF AppendResult, Executing
<1>9. ASSUME NEW j \in Jobs, Release(j) PROVE UNCHANGED Contract!vars
  <2>1. Executing' = Executing
    BY <1>0, <1>9, ExecutingAfter DEF Release
  <2> QED BY <1>9, <2>1 DEF Release, Executing
<1>10. ASSUME NEW j \in Jobs, Connect(j)
       PROVE  Contract!Decide(j) \/ UNCHANGED Contract!vars
  <2>1. outcome[j] = "none" /\ j \in Executing
    BY <1>0, <1>10 DEF Connect, ResultsInv, Working, Executing
  <2>2. CASE pc' = [pc EXCEPT ![j] = "execute"] /\ UNCHANGED outcome
    <3>1. Executing' = Executing
      BY <1>0, <1>10, <2>2, ExecutingAfter DEF Connect
    <3> QED BY <1>10, <2>2, <3>1 DEF Connect, Executing
  <2>3. CASE /\ pc' = [pc EXCEPT ![j] = "append"]
             /\ outcome' = [outcome EXCEPT ![j] = "failed"]
    <3>1. Executing' = Executing \ {j}
      BY <1>0, <2>3, ExecutingAfter
    <3> QED BY <1>10, <2>1, <2>3, <3>1
            DEF Connect, Executing, Contract!Decide, Contract!Results
  <2> QED BY <1>10, <2>2, <2>3 DEF Connect
<1>11. CASE UNCHANGED vars
  BY <1>11 DEF vars
<1> QED BY <1>1, <1>2, <1>3, <1>4, <1>5, <1>6, <1>7, <1>8, <1>9, <1>10, <1>11
        DEF Next, Job, Contract!Next

(* task.Run keeps its contract: no server is backed up twice or after the  *)
(* cancel, never more than the limit at a time, and the report has exactly *)
(* one result, the right one, for every server.                            *)
THEOREM Refinement == Spec => ImplementsContract
<1>1. Init => Contract!Init
  BY RunnerAssumption DEF Init, Contract!Init
<1>2. IInv /\ [Next]_vars => [Contract!Next]_(Contract!vars)
  BY StepImplements
<1> QED BY <1>1, <1>2, Invariance, PTL DEF Spec, ImplementsContract, Contract!Spec

-----------------------------------------------------------------------------
(* The session of one of the jobs.                                         *)

Places == {"idle", "select", "signal", "write", "returned"}

(* RunScript runs, with a connection, while its job executes; it has heard *)
(* from the shell before it looks at the write, and what it makes of both  *)
(* is what they say.                                                       *)
SessionInv ==
  /\ at \in Places /\ shell \in {"none", "running"} \union Outcomes
  /\ writeDone \in {"none"} \union Outcomes
  /\ waitDone # "none" => waitDone = shell /\ shell \in Outcomes
  /\ copying \subseteq Streams /\ open \in BOOLEAN
  /\ open <=> at \in {"select", "signal", "write"}
  /\ open <=> pc[Followed] = "execute"
  /\ at = "idle" =>
       /\ shell = "none" /\ writeDone = "none" /\ waitDone = "none" /\ copying = {}
       /\ outcome[Followed] # "ok"
  /\ at # "idle" => shell # "none"
  /\ at = "returned" => pc[Followed] \in {"append"} \union Recorded
  /\ at = "write" => waitDone # "none"

(* A server has success only if its shell ended well, with the whole       *)
(* script, and the connection is gone with RunScript.                      *)
OkIsEarned ==
  /\ outcome[Followed] = "ok" => shell = "ok" /\ writeDone = "ok"
  /\ pc[Followed] # "execute" => ~open

LEMMA SessionInitInv == SessionInit => SessionInv /\ OkIsEarned
BY FollowedAssumption DEF SessionInit, Init, SessionInv, OkIsEarned, Places

(* What the other jobs and the caller of Run do.                           *)
LEMMA RunGoesOn ==
  ASSUME TypeOK, SessionInv, OkIsEarned, UNCHANGED session,
         \/ Cancel \/ Wait
         \/ \E j \in Jobs : Around(j) \/ Expire(j)
         \/ \E j \in Others : Connect(j) \/ Execute(j)
  PROVE  Next /\ (SessionInv /\ OkIsEarned)'
<1>1. Next
  BY DEF Next, Job, Around, Others
<1>2. /\ pc \in [Jobs -> Stages] /\ outcome \in [Jobs -> {"none", "ok", "failed"}]
      /\ Followed \in Jobs /\ UNCHANGED <<at, shell, writeDone, waitDone, copying, open>>
  BY FollowedAssumption DEF TypeOK, session, goroutines
<1>3. \/ pc'[Followed] = pc[Followed] /\ outcome'[Followed] = outcome[Followed]
      \/ /\ pc[Followed] \in {"acquire", "check"}
         /\ \/ pc'[Followed] \in {"check", "connect"} /\ outcome'[Followed] = outcome[Followed]
            \/ pc'[Followed] = "append" /\ outcome'[Followed] = "failed"
      \/ /\ pc[Followed] \in {"append", "release"} /\ pc'[Followed] \in {"release", "exited"}
         /\ outcome'[Followed] = outcome[Followed]
  <2>1. CASE Cancel \/ Wait
    BY <2>1 DEF Cancel, Wait
  <2>2. ASSUME NEW j \in Jobs, Acquire(j)
        PROVE  pc[j] = "acquire" /\ pc' = [pc EXCEPT ![j] = "check"] /\ outcome' = outcome
    BY <2>2 DEF Acquire
  <2>3. ASSUME NEW j \in Jobs, GiveUp(j)
        PROVE  /\ pc[j] = "acquire" /\ pc' = [pc EXCEPT ![j] = "append"]
               /\ outcome' = [outcome EXCEPT ![j] = "failed"]
    BY <2>3 DEF GiveUp
  <2>4. ASSUME NEW j \in Jobs, Begin(j)
        PROVE  /\ pc[j] = "check"
               /\ \/ pc' = [pc EXCEPT ![j] = "connect"] /\ outcome' = outcome
                  \/ /\ pc' = [pc EXCEPT ![j] = "append"]
                     /\ outcome' = [outcome EXCEPT ![j] = "failed"]
    BY <2>4 DEF Begin
  <2>5. ASSUME NEW j \in Jobs, AppendResult(j) \/ Release(j)
        PROVE  /\ pc[j] \in {"append", "release"} /\ outcome' = outcome
               /\ \E stage \in {"release", "exited"} : pc' = [pc EXCEPT ![j] = stage]
    BY <2>5 DEF AppendResult, Release
  <2>6. ASSUME NEW j \in Jobs, Expire(j)
        PROVE  pc' = pc /\ outcome' = outcome
    BY <2>6 DEF Expire
  <2>7. ASSUME NEW j \in Others, Connect(j) \/ Execute(j)
        PROVE  pc'[Followed] = pc[Followed] /\ outcome'[Followed] = outcome[Followed]
    BY <1>2, <2>7 DEF Connect, Execute, Others
  <2>8. CASE \E j \in Jobs : Around(j)
    <3>1. PICK j \in Jobs : Around(j)
      BY <2>8
    <3>2. CASE j # Followed
      <4>1. pc'[Followed] = pc[Followed] /\ outcome'[Followed] = outcome[Followed]
        BY <1>2, <2>2, <2>3, <2>4, <2>5, <3>1, <3>2 DEF Around
      <4> QED BY <4>1
    <3>3. CASE j = Followed
      BY <1>2, <2>2, <2>3, <2>4, <2>5, <3>1, <3>3 DEF Around
    <3> QED BY <3>2, <3>3
  <2> QED BY <2>1, <2>6, <2>7, <2>8
<1>4. SessionInv' /\ OkIsEarned'
  BY <1>2, <1>3 DEF SessionInv, OkIsEarned, Places, Recorded, Outcomes, Streams
<1> QED BY <1>1, <1>4

LEMMA SessionStep ==
  ASSUME TypeOK, SessionInv, OkIsEarned, [SessionNext]_sessionVars
  PROVE  [Next]_vars /\ (SessionInv /\ OkIsEarned)'
<1>0. /\ pc \in [Jobs -> Stages] /\ outcome \in [Jobs -> {"none", "ok", "failed"}]
      /\ Followed \in Jobs
  BY FollowedAssumption DEF TypeOK
<1>1. CASE Start
  <2>1. Connect(Followed)
    BY <1>1 DEF Start
  <2>2. pc[Followed] = "connect" /\ at = "idle"
    BY <2>1 DEF Connect, SessionInv, Places, Recorded
  <2>3. CASE pc' = [pc EXCEPT ![Followed] = "execute"] /\ UNCHANGED outcome
    <3>1. /\ at' = "select" /\ shell' = "running" /\ open' = TRUE /\ copying' = Streams
          /\ UNCHANGED <<writeDone, waitDone>>
      BY <1>0, <1>1, <2>3 DEF Start
    <3> QED BY <1>0, <2>1, <2>2, <2>3, <3>1
            DEF Next, Job, SessionInv, OkIsEarned, Places, Recorded, Outcomes, Streams
  <2>4. CASE pc' = [pc EXCEPT ![Followed] = "append"] /\ outcome' = [outcome EXCEPT ![Followed] = "failed"]
    <3>1. UNCHANGED <<at, shell, writeDone, waitDone, copying, open>>
      BY <1>0, <1>1, <2>4 DEF Start, session, goroutines
    <3> QED BY <1>0, <2>1, <2>2, <2>4, <3>1
            DEF Next, Job, SessionInv, OkIsEarned, Places, Recorded, Outcomes, Streams
  <2> QED BY <2>1, <2>3, <2>4 DEF Connect
<1>2. CASE ShellEnds \/ ChannelLost
  <2>1. UNCHANGED vars /\ UNCHANGED <<pc, outcome, at, writeDone, waitDone, copying, open>>
    BY <1>2 DEF ShellEnds, ChannelLost, goroutines, vars
  <2>2. shell = "running" /\ shell' \in Outcomes
    BY <1>2 DEF ShellEnds, ChannelLost, Outcomes
  <2>3. waitDone = "none"
    BY <2>2 DEF SessionInv, Outcomes
  <2>4. outcome[Followed] # "ok"
    BY <2>2 DEF OkIsEarned
  <2> QED BY <2>1, <2>2, <2>3, <2>4 DEF SessionInv, OkIsEarned, Outcomes
<1>3. CASE WriteEnds
  <2>1. UNCHANGED vars /\ UNCHANGED <<pc, outcome, at, shell, waitDone, copying, open>>
    BY <1>3 DEF WriteEnds, vars
  <2>2. at # "idle" /\ writeDone = "none" /\ writeDone' \in Outcomes
    BY <1>3 DEF WriteEnds, Outcomes
  <2>3. outcome[Followed] # "ok"
    BY <2>2 DEF OkIsEarned
  <2> QED BY <2>1, <2>2, <2>3 DEF SessionInv, OkIsEarned
<1>4. CASE WaitEnds \/ \E stream \in Streams : CopyEnds(stream)
  <2>1. /\ UNCHANGED vars /\ UNCHANGED <<pc, outcome, at, shell, writeDone, open>>
        /\ shell \in Outcomes
    BY <1>4 DEF WaitEnds, CopyEnds, vars
  <2>2. /\ waitDone' = waitDone \/ waitDone' = shell
        /\ copying' \subseteq copying
    BY <1>4 DEF WaitEnds, CopyEnds
  <2> QED BY <2>1, <2>2 DEF SessionInv, OkIsEarned, Outcomes
<1>5. CASE Collect \/ Interrupt
  <2>1. /\ UNCHANGED vars /\ UNCHANGED <<pc, outcome, shell, writeDone, waitDone, copying, open>>
        /\ at = "select" /\ at' \in {"write", "signal"}
        /\ at' = "write" => waitDone # "none"
    BY <1>5 DEF Collect, Interrupt, goroutines, vars
  <2> QED BY <2>1 DEF SessionInv, OkIsEarned, Places
<1>6. ASSUME NEW res, Returns(res), Closing, at \in {"write", "signal"},
             res = "ok" => writeDone = "ok" /\ shell = "ok"
      PROVE  Next /\ (SessionInv /\ OkIsEarned)'
  <2>1. /\ Execute(Followed) /\ outcome'[Followed] = res /\ at' = "returned" /\ ~open'
        /\ UNCHANGED <<shell, writeDone, waitDone, copying>> /\ pc'[Followed] = "append"
    BY <1>0, <1>6 DEF Returns, Closing, goroutines, Execute
  <2>2. Next
    BY <1>0, <2>1 DEF Next
  <2>3. at # "idle" /\ at' # "idle" /\ at' # "write" /\ at' \in Places /\ open' \in BOOLEAN
    BY <1>6, <2>1 DEF Places, Closing
  <2>4. SessionInv'
    BY <2>1, <2>3 DEF SessionInv, Recorded
  <2>5. OkIsEarned'
    BY <1>6, <2>1 DEF OkIsEarned
  <2> QED BY <2>2, <2>4, <2>5
<1>7. CASE Report
  <2>1. PICK res : res = IF writeDone = "ok" /\ waitDone = "ok" THEN "ok" ELSE "failed"
    OBVIOUS
  <2>2. Returns(res) /\ Closing /\ at = "write"
    BY <1>7, <2>1 DEF Report
  <2>3. res = "ok" => writeDone = "ok" /\ shell = "ok"
    BY <2>1 DEF SessionInv
  <2> QED BY <1>6, <2>2, <2>3
<1>8. CASE Kill
  BY <1>6, <1>8 DEF Kill
<1>9. CASE UNCHANGED sessionVars
  <2>1. UNCHANGED vars /\ UNCHANGED <<pc, outcome, at, shell, writeDone, waitDone, copying, open>>
    BY <1>9 DEF sessionVars, session, goroutines, vars
  <2> QED BY <2>1 DEF SessionInv, OkIsEarned
<1> QED BY <1>1, <1>2, <1>3, <1>4, <1>5, <1>7, <1>8, <1>9, RunGoesOn DEF SessionNext, RunScript

LEMMA SessionInvariance == SessionSpec => Spec /\ []SessionInv /\ []OkIsEarned
<1> DEFINE Inv == IInv /\ SessionInv /\ OkIsEarned
<1>1. SessionInit => Init /\ Inv
  BY SessionInitInv, InitIInv DEF SessionInit
<1>2. Inv /\ [SessionNext]_sessionVars => Inv' /\ [Next]_vars
  BY SessionStep, NextTypeOK, NextSlots, NextResults DEF IInv
<1>3. Inv => SessionInv /\ OkIsEarned
  OBVIOUS
<1> HIDE DEF Inv
<1> QED BY <1>1, <1>2, <1>3, PTL DEF SessionSpec, Spec

(* Every step of RunScript and of its goroutines is a step of task.Run, or *)
(* none that it sees: with a session in it, a run keeps its contract.      *)
THEOREM SessionIsARun == SessionSpec => Spec /\ ImplementsContract
BY SessionInvariance, Refinement, PTL

(* A server is reported backed up only if its shell ended well and was     *)
(* sent all of the script, whatever the goroutines' order; and RunScript   *)
(* leaves no connection behind.                                            *)
THEOREM SuccessIsEarned == SessionSpec => []OkIsEarned
BY SessionInvariance, PTL
=============================================================================
