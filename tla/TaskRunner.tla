------------------------------ MODULE TaskRunner ------------------------------
(***************************************************************************)
(* One call of task.Run in internal/task/runner.go: a goroutine for every  *)
(* selected server, a channel used as a semaphore, a context that may be   *)
(* canceled at any time, a timeout for every server, a slice of results    *)
(* behind a mutex and a wait group.                                        *)
(*                                                                         *)
(* pc[j] follows the goroutine of job j:                                   *)
(*   acquire   in the select on the semaphore and the context              *)
(*   check     at the start of runOne, holding a slot                      *)
(*   connect   in NewClient, which is not given the context                *)
(*   execute   in RunScript                                                *)
(*   append    its result is known                                         *)
(*   release   its result is in the slice                                  *)
(*   exited    it has called wg.Done                                       *)
(***************************************************************************)
EXTENDS Naturals, Sequences, FiniteSets

CONSTANTS
  Jobs,     \* the selected servers, at least one (errNoServers otherwise)
  Limits,   \* the values of global.concurrency, 0 for no limit
  Hangs,    \* the sets of servers that may accept a connection and then be
            \*   silent
  None      \* Run has not returned

ASSUME RunnerAssumption ==
  /\ Jobs # {} /\ IsFiniteSet(Jobs)
  /\ Limits \subseteq Nat
  /\ Hangs \subseteq SUBSET Jobs
  /\ \A f \in [Jobs -> {"none", "ok", "failed"}] : f # None

VARIABLES
  limit,       \* global.concurrency and whether global.timeout is positive,
  hasTimeout,  \*   both fixed for the call
  silent,      \* the servers that do not answer the SSH handshake
  ctxDone,     \* the context of the execution is canceled
  expired,     \* the jobs whose own context has timed out
  pc,
  sem,         \* the slots taken in the semaphore channel
  held,        \* the jobs whose goroutine defers the release of a slot
  outcome,     \* the local Result of a job
  results,     \* the slice of results
  returned     \* the report of the call

config == <<limit, hasTimeout, silent>>

vars == <<config, ctxDone, expired, pc, sem, held, outcome, results, returned>>

Init ==
  /\ limit \in Limits
  /\ hasTimeout \in BOOLEAN
  /\ silent \in Hangs
  /\ ctxDone \in BOOLEAN
  /\ expired = {}
  /\ pc = [j \in Jobs |-> "acquire"]
  /\ sem = 0
  /\ held = {}
  /\ outcome = [j \in Jobs |-> "none"]
  /\ results = <<>>
  /\ returned = None

AcquireOneMore(j) ==  \* a mutant: the channel has room for one job too many
  /\ pc[j] = "acquire"
  /\ \/ /\ limit = 0
        /\ UNCHANGED <<sem, held>>
     \/ /\ limit > 0 /\ sem <= limit
        /\ sem' = sem + 1
        /\ held' = held \union {j}
  /\ pc' = [pc EXCEPT ![j] = "check"]
  /\ UNCHANGED <<config, ctxDone, expired, outcome, results, returned>>

(* The send on the semaphore channel.  With no limit the channel is nil    *)
(* and the goroutine goes straight on.                                     *)
Acquire(j) ==
  /\ pc[j] = "acquire"
  /\ \/ /\ limit = 0
        /\ UNCHANGED <<sem, held>>
     \/ /\ sem < limit
        /\ sem' = sem + 1
        /\ held' = held \union {j}
  /\ pc' = [pc EXCEPT ![j] = "check"]
  /\ UNCHANGED <<config, ctxDone, expired, outcome, results, returned>>

(* The other branch of the select: the job fails without holding a slot.   *)
GiveUp(j) ==
  /\ pc[j] = "acquire"
  /\ limit > 0 /\ ctxDone
  /\ outcome' = [outcome EXCEPT ![j] = "failed"]
  /\ pc' = [pc EXCEPT ![j] = "append"]
  /\ UNCHANGED <<config, ctxDone, expired, sem, held, results, returned>>

(* runOne looks at the context before it starts; GenerateScript may fail.  *)
Begin(j) ==
  /\ pc[j] = "check"
  /\ \/ /\ ~ctxDone
        /\ pc' = [pc EXCEPT ![j] = "connect"]
        /\ UNCHANGED outcome
     \/ /\ outcome' = [outcome EXCEPT ![j] = "failed"]
        /\ pc' = [pc EXCEPT ![j] = "append"]
  /\ UNCHANGED <<config, ctxDone, expired, sem, held, results, returned>>

(* context.WithTimeout of one server.                                      *)
Expire(j) ==
  /\ hasTimeout
  /\ pc[j] \in {"connect", "execute"}
  /\ expired' = expired \union {j}
  /\ UNCHANGED <<config, ctxDone, pc, sem, held, outcome, results, returned>>

(* SSHExecutor.Execute dials and shakes hands without the context: the     *)
(* TCP connection has a timeout of its own (connectTimeout); the handshake *)
(* and the requests that open the session have none and wait for the       *)
(* server.                                                                 *)
Connect(j) ==
  /\ pc[j] = "connect"
  /\ j \notin silent
  /\ \/ /\ pc' = [pc EXCEPT ![j] = "execute"]
        /\ UNCHANGED outcome
     \/ /\ pc' = [pc EXCEPT ![j] = "append"]
        /\ outcome' = [outcome EXCEPT ![j] = "failed"]
  /\ UNCHANGED <<config, ctxDone, expired, sem, held, results, returned>>

(* RunScript may return, with or without an error, at any time.            *)
Execute(j) ==
  /\ pc[j] = "execute"
  /\ \E res \in {"ok", "failed"} : outcome' = [outcome EXCEPT ![j] = res]
  /\ pc' = [pc EXCEPT ![j] = "append"]
  /\ UNCHANGED <<config, ctxDone, expired, sem, held, results, returned>>

AppendUnlocked(j) ==  \* a mutant: without the mutex an append can be lost
  /\ pc[j] = "append"
  /\ \E n \in 0..Len(results) :
       results' = Append(SubSeq(results, 1, n), [job |-> j, res |-> outcome[j]])
  /\ pc' = [pc EXCEPT ![j] = "release"]
  /\ UNCHANGED <<config, ctxDone, expired, sem, held, outcome, returned>>

(* appendResult, under the mutex.                                          *)
AppendResult(j) ==
  /\ pc[j] = "append"
  /\ results' = Append(results, [job |-> j, res |-> outcome[j]])
  /\ pc' = [pc EXCEPT ![j] = "release"]
  /\ UNCHANGED <<config, ctxDone, expired, sem, held, outcome, returned>>

ReleaseAlways(j) ==  \* a mutant: the release is deferred before the select
  /\ pc[j] = "release"
  /\ limit > 0 => sem > 0
  /\ sem' = IF limit > 0 THEN sem - 1 ELSE sem
  /\ held' = held \ {j}
  /\ pc' = [pc EXCEPT ![j] = "exited"]
  /\ UNCHANGED <<config, ctxDone, expired, outcome, results, returned>>

ReleaseOnSuccess(j) ==  \* a mutant: a job that failed keeps its slot
  /\ pc[j] = "release"
  /\ sem' = IF j \in held /\ outcome[j] = "ok" THEN sem - 1 ELSE sem
  /\ held' = IF outcome[j] = "ok" THEN held \ {j} ELSE held
  /\ pc' = [pc EXCEPT ![j] = "exited"]
  /\ UNCHANGED <<config, ctxDone, expired, outcome, results, returned>>

(* The deferred calls: the slot, if one was taken, and then wg.Done.       *)
Release(j) ==
  /\ pc[j] = "release"
  /\ sem' = IF j \in held THEN sem - 1 ELSE sem
  /\ held' = held \ {j}
  /\ pc' = [pc EXCEPT ![j] = "exited"]
  /\ UNCHANGED <<config, ctxDone, expired, outcome, results, returned>>

(* What a caller reads from the slice: the result of each server.          *)
ReportOf(seq) ==
  [j \in Jobs |->
     IF \E i \in DOMAIN seq : seq[i].job = j
     THEN seq[CHOOSE i \in DOMAIN seq : seq[i].job = j].res
     ELSE "none"]

(* wg.Wait returns; the slice is sorted by name and handed over.           *)
Wait ==
  /\ returned = None
  /\ \A j \in Jobs : pc[j] = "exited"
  /\ returned' = ReportOf(results)
  /\ UNCHANGED <<config, ctxDone, expired, pc, sem, held, outcome, results>>

(* The execution is canceled (Execution: CancelRequest).                   *)
Cancel ==
  /\ ctxDone' = TRUE
  /\ UNCHANGED <<config, expired, pc, sem, held, outcome, results, returned>>

Job(j) ==
  \/ Acquire(j) \/ GiveUp(j) \/ Begin(j) \/ Connect(j)
  \/ AppendResult(j) \/ Release(j)

Next == Cancel \/ Wait \/ \E j \in Jobs : Job(j) \/ Expire(j) \/ Execute(j)

Spec == Init /\ [][Next]_vars

(* Goroutines and timers make progress.  RunScript is only sure to return  *)
(* when its context is done: the SSH session is then killed.               *)
FairSpec ==
  /\ Spec
  /\ WF_vars(Wait)
  /\ \A j \in Jobs :
       /\ WF_vars(Job(j)) /\ WF_vars(Expire(j))
       /\ WF_vars((ctxDone \/ j \in expired) /\ Execute(j))

-----------------------------------------------------------------------------
Stages ==
  {"acquire", "check", "connect", "execute", "append", "release", "exited"}

(* The types of the variables.                                             *)
TypeOK ==
  /\ limit \in Limits
  /\ hasTimeout \in BOOLEAN
  /\ silent \subseteq Jobs
  /\ ctxDone \in BOOLEAN
  /\ expired \subseteq Jobs
  /\ pc \in [Jobs -> Stages]
  /\ sem \in 0..limit
  /\ held \subseteq Jobs
  /\ outcome \in [Jobs -> {"none", "ok", "failed"}]
  /\ results \in Seq([job : Jobs, res : {"ok", "failed"}])
  /\ returned \in [Jobs -> {"ok", "failed"}] \union {None}

(* The semaphore counts its holders: a job that works holds a slot (with a *)
(* limit), and one that waits, gave up or is over holds none, so that no   *)
(* slot is lost or given back twice on the paths that return early.        *)
SlotsMatchHolders ==
  /\ sem = Cardinality(held)
  /\ \A j \in Jobs :
       /\ limit > 0 /\ pc[j] \in {"check", "connect", "execute"} => j \in held
       /\ j \in held => limit > 0 /\ pc[j] \notin {"acquire", "exited"}

(* What the callers of Run rely on, whatever the order in which the        *)
(* goroutines run, time out and see the cancel: RunContract.               *)
Contract == INSTANCE RunContract
              WITH canceled <- ctxDone,
                   active <- {j \in Jobs : pc[j] \in {"connect", "execute"}}

ImplementsContract == Contract!Spec

(* Run returns when it is canceled, and when a timeout is configured, if   *)
(* each server answers or refuses the handshake; in particular, no job     *)
(* waits for a slot that nobody gives back.                                *)
RunReturns ==
  (hasTimeout \/ ctxDone) /\ silent = {} ~> returned # None

(* "Concurrent runner with timeout" (README.md:10): with a timeout, Run    *)
(* returns.                                                                *)
TimeoutEndsRun == hasTimeout ~> returned # None
=============================================================================
