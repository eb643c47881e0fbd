------------------------------ MODULE SshSession ------------------------------
(***************************************************************************)
(* RunScript of internal/ssh/client.go, for one job of a run: the function *)
(* and the four goroutines it starts, which write the script, wait for the *)
(* shell, and copy its two streams.  The other jobs are TaskRunner's, and  *)
(* what RunScript returns is its Execute.                                  *)
(*                                                                         *)
(* The library and the server are external.  When the shell ends, or the   *)
(* connection is closed, the channel is closed: whoever reads from it or   *)
(* writes to it returns.  A shell need not end, nor obey a signal; one     *)
(* that reads nothing may hold up who writes.                              *)
(***************************************************************************)
EXTENDS TaskRunner

CONSTANT Followed  \* the job whose session this is

ASSUME FollowedAssumption == Followed \in Jobs

VARIABLES
  at,        \* where RunScript is: not called, at its select, at the select
             \* after the signal, at the receive of writeDone, returned
  shell,     \* running, or how it ended
  writeDone, \* what the goroutines have sent: each has a channel with room
  waitDone,  \* for one value
  copying,   \* the streams that are copied
  open       \* the connection

goroutines == <<writeDone, waitDone, copying>>
session    == <<at, shell, goroutines, open>>
sessionVars == <<vars, session>>

Streams == {"stdout", "stderr"}
Outcomes == {"ok", "failed"}

SessionInit ==
  /\ Init
  /\ at = "idle" /\ shell = "none"
  /\ writeDone = "none" /\ waitDone = "none" /\ copying = {}
  /\ open = FALSE

(* The context of the server: canceled, or timed out.                      *)
Done == ctxDone \/ Followed \in expired

-----------------------------------------------------------------------------
(* The shell.                                                              *)

Start ==
  /\ Connect(Followed)
  /\ IF pc'[Followed] = "execute"
     THEN /\ at' = "select" /\ shell' = "running" /\ open' = TRUE
          /\ copying' = Streams
          /\ UNCHANGED <<writeDone, waitDone>>
     ELSE UNCHANGED session

ShellEnds ==
  /\ shell = "running" /\ open
  /\ shell' \in Outcomes
  /\ UNCHANGED <<vars, at, goroutines, open>>

(* Without a connection Wait returns an error, whatever the shell does.    *)
ChannelLost ==
  /\ shell = "running" /\ ~open
  /\ shell' = "failed"
  /\ UNCHANGED <<vars, at, goroutines, open>>

-----------------------------------------------------------------------------
(* The goroutines.                                                         *)

(* A write fails only when the channel is closed; a shell that ends before *)
(* it has read all of the script may have been sent all of it.             *)
WriteEnds ==
  /\ at # "idle" /\ writeDone = "none"
  /\ writeDone' \in IF shell = "running" THEN {"ok"} ELSE Outcomes
  /\ UNCHANGED <<vars, at, shell, waitDone, copying, open>>

WaitEnds ==
  /\ shell \in Outcomes /\ waitDone = "none"
  /\ waitDone' = shell
  /\ UNCHANGED <<vars, at, shell, writeDone, copying, open>>

(* Nobody waits for the copies: what they still read is appended to the    *)
(* log, after RunScript has returned and even after the execution's end.   *)
CopyEnds(stream) ==
  /\ shell \in Outcomes
  /\ stream \in copying
  /\ copying' = copying \ {stream}
  /\ UNCHANGED <<vars, at, shell, writeDone, waitDone, open>>

-----------------------------------------------------------------------------
(* RunScript itself.                                                       *)

Collect ==
  /\ at = "select" /\ waitDone # "none"
  /\ at' = "write"
  /\ UNCHANGED <<vars, shell, goroutines, open>>

Interrupt ==
  /\ at = "select" /\ Done
  /\ at' = "signal"
  /\ UNCHANGED <<vars, shell, goroutines, open>>

(* The deferred calls of RunScript and of SSHExecutor.Execute.             *)
Closing == open' = FALSE

Returns(res) ==
  /\ Execute(Followed) /\ outcome'[Followed] = res
  /\ at' = "returned"
  /\ UNCHANGED <<shell, goroutines>>

Report ==
  /\ at = "write" /\ writeDone # "none"
  /\ Returns(IF writeDone = "ok" /\ waitDone = "ok" THEN "ok" ELSE "failed")
  /\ Closing

KillWhenOver ==  \* a mutant: the signal is trusted to end the shell
  /\ at = "signal" /\ waitDone # "none"
  /\ Returns("failed")
  /\ Closing

KillLeaving ==  \* a mutant: the connection is left to the server
  /\ at = "signal"
  /\ Returns("failed")
  /\ UNCHANGED open

(* The shell has ended, or killWait has passed.                            *)
Kill ==
  /\ at = "signal"
  /\ Returns("failed")
  /\ Closing

-----------------------------------------------------------------------------
(* The rest of the run.                                                    *)

Around(j) == Acquire(j) \/ GiveUp(j) \/ Begin(j) \/ AppendResult(j) \/ Release(j)

Others == Jobs \ {Followed}

RunScript == Collect \/ Interrupt \/ Report \/ Kill

SessionNext ==
  \/ (Cancel \/ Wait) /\ UNCHANGED session
  \/ \E j \in Jobs : (Around(j) \/ Expire(j)) /\ UNCHANGED session
  \/ \E j \in Others : (Connect(j) \/ Execute(j)) /\ UNCHANGED session
  \/ Start \/ ShellEnds \/ ChannelLost
  \/ WriteEnds \/ WaitEnds \/ \E stream \in Streams : CopyEnds(stream)
  \/ RunScript

SessionSpec == SessionInit /\ [][SessionNext]_sessionVars

(* As in TaskRunner; and each goroutine of the session goes on, but for a  *)
(* write to a shell that may not read.  The timer of killWait runs.        *)
SessionFairSpec ==
  /\ SessionSpec
  /\ WF_sessionVars(Wait /\ UNCHANGED session)
  /\ \A j \in Others :
       /\ WF_sessionVars(Job(j) /\ UNCHANGED session)
       /\ WF_sessionVars((ctxDone \/ j \in expired) /\ Execute(j) /\ UNCHANGED session)
  /\ \A j \in Jobs : WF_sessionVars(Expire(j) /\ UNCHANGED session)
  /\ WF_sessionVars(Around(Followed) /\ UNCHANGED session)
  /\ WF_sessionVars(Start)
  /\ WF_sessionVars(ChannelLost)
  /\ WF_sessionVars(shell \in Outcomes /\ WriteEnds) /\ WF_sessionVars(WaitEnds)
  /\ \A stream \in Streams : WF_sessionVars(CopyEnds(stream))
  /\ WF_sessionVars(RunScript)

-----------------------------------------------------------------------------
(* The session keeps what TaskRunner takes for granted: RunScript returns  *)
(* once, with a result, and it does return when its context is done, even  *)
(* if the shell obeys no signal and the server says nothing more.          *)
ImplementsRunner == FairSpec

(* Once its context is done, RunScript leaves none of its goroutines       *)
(* behind: neither at a channel whose reader has returned, nor at a        *)
(* connection that nobody closes.                                          *)
SessionEnds ==
  at = "select" /\ Done
    ~> at = "returned" /\ copying = {} /\ writeDone # "none" /\ waitDone # "none"
=============================================================================
