# Rana-Remote in TLA+

Rana-Remote is a Go service that backs up remote servers over SSH: operators,
or a scheduler, start *executions*, a runner runs a script on every selected
server, and a web console follows the output. This directory holds TLA+ models
of the parts of it where the order of events matters, the TLC configurations
that check them, and proofs of their main properties. Paths below are relative
to the repository, whose root is `src/` in `PROJECT.json`.

## The system

| Component | State | Operations | Works with |
|---|---|---|---|
| Executions (`internal/api/handler_backup.go`) | the executions table; `Server.cancels`, a map of cancel functions under `s.mu`; one goroutine per execution | create, cancel, retry; attempt loop, final write, notification, cleanup | the runner (call), the log (call), the notifier (call), the scheduler (callback), the store |
| Task runner (`internal/task/runner.go`) | a semaphore channel, a slice of results under a mutex, a wait group, one context per server | `Run` and what its goroutines do | SSH sessions (call) |
| SSH session (`internal/ssh/client.go`) | four goroutines per session (write the script, wait, copy two streams), two channels with room for one value, the connection | connect, `RunScript`, close | the runner (return value), the log, through writers |
| Log and SSE (`internal/api/logs.go`) | the `execution_logs` table; `Server.streams`, the channels of the clients under `s.mu` | append, list, replay, subscribe, unsubscribe | the goroutines of sessions, HTTP clients |
| Scheduler (`internal/scheduler/scheduler.go`, `internal/api/handler_schedule.go`) | the schedules table, the listing a tick works on | tick, create, update, delete | executions (callback), the store |
| Cron expressions (`NextRunAt`) | none | parse, search for the next minute | the scheduler |
| Inventory (`handler_server.go`, `handler_policy.go`, `selectServers*`) | servers and policies tables | create, update, delete with checks of references, selection | schedules, executions |
| Accounts (`handler_user.go`, `handler_auth.go`, `internal/auth`, `ensureAdmin`) | the users table, signed tokens that outlive what they say | login, refresh, create, update, delete, reset and change of a password; the first administrator | every request |
| Settings (`handler_settings.go`, `internal/config`) | `*s.cfg` in memory, a row in the database | read, update; load at start | everything that reads `s.cfg` |
| Gateway (`middleware.go`, `router.go`) | the idempotency cache, the login limiter's windows | filters around every request | every handler |
| Notifier (`internal/notify/webhook.go`) | the time of the last failure sent | send or suppress | executions |
| Store (`internal/store`) | SQLite tables (`sqlite_repository.go`), or maps with indexes under a mutex (`repository.go`) | a call is one or two statements, or one critical section; migration when a file is opened | everything |
| Audit log (`CreateAuditLog` in most handlers) | a table that is appended to and listed | append, list, retention | the store |
| Process (`cmd/rana-api/main.go`, `internal/module`) | registered modules | start in order, stop in reverse order | everything |

What is hard in it:

* **Concurrency.** An execution is touched by the request that creates it, its
  goroutine, cancel and retry requests and the scheduler; `s.mu` protects the
  maps and nothing protects the rows. Schedules, settings and users are updated
  by reading a row and writing all of it back.
* **Failure.** Most store errors are logged or ignored and the caller goes on.
  The process does not wait for executions when it stops, and does not look at
  the rows that were live when it starts again.
* **Ordering.** Log lines are stamped, inserted and published in three steps; a
  client of the stream lists and subscribes in two.
* **Time.** Timeouts and cancels race with results; a schedule that is late is
  run or skipped; a tick triggers first and records afterwards.

What makes each component correct:

* *Executions*: the status a client polls only moves forward and a finished row
  never changes; it is backed by the results stored with it; a live row has an
  owner that will finish it and can be canceled; the notifier contradicts no
  final row; an execution whose servers answer in time ends; a cancel in time
  decides how.
* *Runner*: each server is backed up at most once, never more than the limit at
  a time, none is started after a cancel, and the report has exactly one result
  for each; slots are not lost; `Run` returns.
* *Log*: what a client is sent, exactly once and in order, and when it may not
  be; no send on a closed channel; clients never hold up the runner.
* *Scheduler*: an edit stands; a due time runs once; a disabled schedule runs
  never; nothing stays due.
* *Inventory*: schedules and policies name servers that exist, whoever writes
  them, requests or the scheduler; an execution runs on the servers its policy
  allows.
* *Session*: `RunScript` returns once, with a result, also when the shell obeys
  no signal, and leaves no goroutine behind.
* *Accounts*: a password that was set stands unless an update had already read
  the row; nobody acts for long with a role
  that was taken away; there stays an administrator.
* *Settings*: what is saved was validated, and what is used if nobody writes it
  meanwhile; memory and row agree, and what was acknowledged is kept, while
  requests do not overlap and the row can be written and read. *Gateway*: a key runs one request a day; no interval
  admits more logins than the limit.
* *Store*: the two drivers are interchangeable; every file that an earlier
  version left opens; a table and its index agree; retention is by age.

## Modules

`ExecutionLifecycle` is what the API promises about a row of the executions
table: absent, pending, running, retrying, and one of three final statuses, in
that order, stages possibly skipped; a finished row is final and backed by its
results. `Execution` is `handler_backup.go`, and implements it.

| `Execution` | Code |
|---|---|
| `rows`, `UpdateExecution` | the table; a write may fail, then nothing changes (`faulted` remembers it) |
| `cancels`, `ctxDone` | `Server.cancels`; the contexts that are done |
| `pc` | where the owner of an execution is; `leaked` after the early return at `handler_backup.go:152`, `gone` after a stop of the process |
| `TriggerExecution`, `CreateRequest`, `RetryRequest`, `Register`, `MarkRunning` | `TriggerExecution` and `startExecution` up to `go func()` |
| `untimed` | executions that got no timeout: `runner.go:125` sets none for a policy or setting of `0s` |
| `RunServers`, `CheckLoop`, `MarkRetrying` | the attempt loop; `task.Run` is one step here, which may be the last |
| `ReadStored`, `Decide`, `WriteFinal`, `Notify`, `Cleanup` | the epilogue, in the order of the code |
| `CancelRequest`, `ProcessStop` | `handleCancelExecution`; the end of `main` |

The history variables `retryOf`, `notified`, `faulted` and `lost` are not in
the code. Requests name sets of servers: a name that a request repeats counts
as one server here (the code would run it twice). `Silent` and `Untimed` say
which servers never answer and which executions may be run without a timeout:
what `task.Run` needs to return (`RunEnds`) is that its servers answer and that
there is a timeout or a cancel.

The final write is the one whose failure the code ignores: the goroutine
notifies, cleans up and leaves the row `running` (`handler_backup.go:176`).
`NotificationMatchesRow` therefore says that the row shows what was notified or,
after a failed write, is still live.

`RunContract` is what the callers of `task.Run` rely on; `TaskRunner` is one
call of it and implements the contract. `pc[j]` follows the goroutine of a
server through the `select` on the semaphore and the context, `runOne`,
connecting, running the script, `appendResult` and the deferred calls. The
cancel may come at any time, also before the call. `Connect` and `Execute` are
separate because only the second looks at the context; `silent` is the set of
servers that accept a connection and never answer. `GenerateScript` is a
failure that `Begin` may choose.

`LogStream` is the log of one execution. Writers are the goroutines that copy
the output of a server; a line is an author, a number and a time stamp.
`Stamp`, `Insert` and `Publish` are `appendExecutionLog`; the table is kept in
the order in which it is listed (`ORDER BY timestamp, id`). `List`, `Replay`,
`Subscribe`, `Deliver`, `Leave` and `Close` are `handleExecutionStream`, with a
`Last-Event-ID` that need not fit. Event ids are not kept: only their use as an
index is.

`Scheduler` is `Runner.tick` and the handlers that edit schedules. A tick takes
a listing (`StartTick`) and handles the rows of it one after the other, in any
order: `Wait`, `Replan`, or `Trigger` followed by `Record`, which writes the
whole row of the *listing* back. An update is two steps as well, `ReadRow` and
`WriteRow`. `NextRunAt` is a constant operator: all that is assumed of it, and
all that the proofs use, is that it returns a later time or an error. `fired` counts the executions started
for a due time, `wanted` is the row that was asked for last; `raced`, `spoiled`
and `exhausted` name the schedules for which the code promises less: an edit
that overlapped a tick or another edit, a row that could not be recorded, an
expression without a next run.

`Inventory` is the tables that `Scheduler` and `Execution` take for granted:
servers, policies and schedules, which refer to servers by *name* and to
policies by identifier. `req[r]` is a request between two of its store calls: a delete of a server goes through
`DeleteServer`, `CheckSchedules`, `CheckPolicies` and `RemoveServer`, a create
or an update through `CreateServer` or `UpdateServer`, then `FindByName` and
`WriteServer` (the two statements of `UpsertServer`; SQLite runs one at a
time). Policies, schedules and triggers are cut in the same way. A request may
end anywhere (`Finish`), which covers every refusal and every error. `Restart`
seeds the servers of the configuration file by name: one that was deleted comes
back and one that was changed is overwritten. `raced` and `renamed` name what
the handlers do not protect: two requests about the same thing that overlap,
and the old name of a server that was renamed, since `PUT` checks no
references. `SelectServers` yields the set of servers that `Execution` is
given. Schedules are here without their times, and servers without what only
the SSH session reads.

The tick of the scheduler is a writer too, although it means to change times
only: it lists all schedules (`StartTick`, into `listed`), and of those that it
plans or has triggered it writes the whole row of the listing back
(`WriteBack`), names of servers and policy included; the others it leaves as
they are (`PassOver`). A schedule that was edited away from a server or a policy
between the two is edited back, also when what it named has passed every check
of references and been deleted. No two requests need overlap for that.
`revived` is what such a write names again, the third exception of
`ReferencesResolve`.

`Cron` is `NextRunAt`: `every` expressions, and five fields, each a set of items
with a range and a step; `Matches` is `matchesCron` and `NextMatch` the search,
a minute at a time, that gives up after a year. An expression is given by its
parts; cutting text at commas, slashes and dashes and the names of months and
weekdays are left out, durations count whole minutes. The calendar is a
parameter (`Local`, `Least`, `Most`), so that a time that is skipped, a day that
does not come every year and a small week are a matter of the instance.
`MCScheduler` gives `Scheduler` this `NextRunAt`.

`SshSession` extends `TaskRunner` and replaces the `Execute` of one job by
`RunScript` and its goroutines: `Start`, the shell at the other end
(`ShellEnds`, which need not happen, `ChannelLost`), `WriteEnds`, `WaitEnds`,
`CopyEnds`, and the function itself at its two `select`s and its receive:
`Collect`, `Interrupt`, `Report`, `Kill`. The signal is not a step of its own: a
shell need not obey it, and one that does is `ShellEnds`. With the job's other
steps and the other jobs as they were, it implements `TaskRunner` with its
fairness.

`Store` is the rows. `MemoryRepository` is the driver of `repository.go`, a call
a step; it serves as the specification of both. `SQLiteRepository` is the other
one: statements, with two-statement calls (`UpdateUser`, `UpsertServer`,
`UpdatePolicy`) cut in two and in flight beside others, identifiers never
reused, times cut to milliseconds, and `Migrate`, which opens a file that any
earlier version left: in one transaction a table that is missing is made, with
all its columns (`Made`), and a column that came later is added; where it is
there already (`Duplicates`) the statement fails, and the error is looked for
(`isIgnorableMigrationErr`). No statement is about two tables, so their sequence
is written as what it amounts to. The log is a set of lines, each with the
number of its row. The refinement mapping computes the indexes from the tables. `Differs` lists the steps in which the drivers are *not* the same:
an update without a password that loses one set meanwhile (`HashIsStale`), an
upsert whose name has another owner by then (`OwnerIsStale`), the listing of log
lines that were inserted out of the order of their times (`OutOfOrder`), and
retention of lines of an execution that is gone (`OrphansGo`). Sub-millisecond
differences are not compared. Nothing in the program calls `ApplyRetention`,
only tests do, and no handler sends `UpdateUser` an empty password; both are
modelled as the drivers have them. `TraceID` of an audit row, which the sqlite
driver does not keep, is among the fields left out.

`Accounts` is users, passwords and tokens. A row keeps name, role and password.
A request is cut at its calls of the store: an update reads and later writes the
whole row (`ReadUpdate`, `WriteUpdate`), a delete counts the administrators and
deletes afterwards (`CountAdmins`, `DeleteUser`), the caller's own password is
checked and then set, a login or refresh reads the row and then issues a pair of
tokens. Tokens say a role and a time, and nobody looks at the row when they are
used (`Acting`), only when they are renewed. `Restart` runs `ensureAdmin`.
`passwords`, `raced` and `lost` are history.

`Gateway` is the two filters that keep state: the idempotency cache
(`withIdempotency`: `Lookup`, `Handle`, `Remember`) and the limiter of logins,
which reads the clock (`ReadClock`) before it takes the mutex (`Allow`). The
times that the limiter remembers of an address are a set, a number telling those
of one instant apart: the code looks at nothing of its slice but the length.
Both are in memory only. CORS, the list of addresses, CSRF and trace ids keep no
state and are left out.

`Settings` is the struct that every handler shares without a lock, and its row.
A request copies the struct and later writes it back, a field at a time
(`CopyField`, `InstallField`), which is what a data race may look like; between
the two it changes, defaults and validates (`Apply`). It installs *before* it
saves (`Save`, `SaveFails`). An execution copies the struct while a request may
be writing (`Run`). Three fields stand for all: a duration with a default, and a
pair whose validity depends on both. `Restart` is the start that loads the row;
it may fail to read it (`RestartUnread`).

`Service` puts the three together: `about` says which of them a behaviour is
about, since they share no variable.

## Checks

Run `tlc -workers 2 -config X.cfg M` for a row of this table.

| Run | Module, configuration | Shows |
|---|---|---|
| execution | `MCExecution`, `MCExecution.cfg` | `TypeOK`, `LiveRowsAreOwned`, `OutcomeMatchesReport`, `NotificationMatchesRow`, `ImplementsLifecycle` |
| execution_live | `MCExecution`, `MCExecutionLive.cfg` | `EveryExecutionEnds`, `CancelWins` |
| runner | `MCSshSession`, `MCSshSession.cfg` | `TypeOK`, `SlotsMatchHolders`, `ImplementsContract`, `RunReturns`, `ImplementsRunner`, `SessionEnds` |
| logstream | `MCLogStream`, `MCLogStream.cfg` | `TypeOK`, `StreamsAreOpen`, `DeliveredOnce`, `WriterOrderKept`, `AppendsEnd` |
| scheduler | `MCScheduler`, `MCScheduler.cfg` | `TypeOK`, `LastEditStands`, `FiresOncePerDue`, `PlansItsOwn`, `DisabledStaysQuiet`, `DueIsHandled` |
| inventory | `MCInventory`, `MCInventory.cfg` | `TypeOK`, `ReferencesResolve`, `CreatesReplaceNothing` |
| stores | `MCSQLiteRepository`, `MCSQLiteRepository.cfg` | `TypeOK`, `EveryFileOpens`, `ImplementsMemory`, `RetentionIsByAge` |
| service | `MCService`, `MCService.cfg` | `ServiceTypeOK`, `PasswordStands`, `RoleIsRecent`, `LastAdminStays`, `KeyedRunsOnce`, `AtMostLimitPerWindow`, `OnlyCheckedIsUsed`, `MemoryMatchesRow`, `AcknowledgedSurvives` |
| retry | `MCExecution`, `MCRetry.cfg` | violates `RetryOnlyWhenOver` |
| silent | `MCTaskRunner`, `MCSilent.cfg` | violates `TimeoutEndsRun` |
| leap_day | `MCScheduler`, `MCLeapDay.cfg` | violates `CronFiresOncePerDue` |
| selection | `MCInventory`, `MCSelection.cfg` | violates `SelectionIsAsAsked` |

**Bounds.** *execution*: two executions, so that one may be the retry of the
other while both run, and two servers, so that a report may be a success, a
partial failure and a failure; one retry reaches every branch of the loop. Here
every server answers: the safety properties do not ask for a step to be taken.
*execution_live*: one execution with two retries, run with a timeout or without,
on a server that answers, on one that is silent, or on both. Executions share
nothing but the process, so that two show what any number can. *runner*: two servers, without a
limit and with one slot, for which the second waits; the session of the first is
followed goroutine by goroutine, and it may be silent instead. *logstream*: two writers of two lines, two
time stamps so that lines tie and cross, a client with two connections so that
it resumes, a channel for one line so that it fills up; `Last-Event-ID` is
absent or 1. The bounds end the behaviour, so deadlock is not checked there.
*scheduler*: one schedule (schedules share nothing but the tick), an edit, a
stop, a clock of four steps with `pollEvery` one, and expressions of `Cron` that
repeat after an interval, on a grid, and not within the year, in a calendar of
three minutes an hour: a run, a late run and a run after a restart all fit. An
assumption that TLC evaluates (`CronExamples`) has expressions that parse and
that do not. With one edit `raced` can only be the tick's doing.
*inventory*: two requests at a time, four in all: enough for a policy, a
schedule on it, and a delete that overlaps a third write; and for a schedule, an
edit of it after a tick has listed it, and the delete of what it named, before
the tick writes it back; one server is
configured, a second name is free, a third identifier is left for a server that
comes back after the restart. The bound ends the behaviour, so deadlock is not
checked there either. *stores*: two rows of each kind, two calls in flight, a
clock that ticks twice in a millisecond, row numbers 1 to 3 for log lines, so
that there are two of one execution and one of another; the tables have nothing
to do with each other except the lines and their executions, so that a behaviour
fills the tables of one kind (`about`). What the last call returned has no
bearing on the next and is not part of the view. *service*: two requests at a
time; accounts in three workloads, passwords among administrators, roles, and
how long a role shows (`MCWorkloads`), with tokens that live for one and two
steps of a clock; two keys, a limit of two logins in two steps; six changes of
settings that are valid, invalid, or valid only together. Expired, used up and
full states end the behaviour in both, so deadlock is not checked.

**Fairness.** A goroutine that can take a step takes it
(`WF(Step(e))`, `WF(Job(j))`, `WF(AppendLine(w))`): Go's scheduler runs every
goroutine that is ready, and no action under fairness waits for a client.
`Expire` is fair because it is a timer, where there is one (`hasTimeout`). A script ends only because its session
is killed, so `Execute` is fair only once its context is done; a connection to a
silent server never ends. In `SshSession` this is not assumed but shown: fair are
the function, the timer of `killWait`, and the goroutines whose channel is
closed; a write to a shell that may not read is not, nor is the end of a shell.
`Signal` and `Close`, a packet each, are taken not to block. In `Execution` the
step that stands for `task.Run` is fair only under `RunEnds` (`FairStep`): all
servers of the execution answer, and it has a timeout or was canceled. That much
`RunReturns` shows of the runner. `EveryExecutionEnds` says nothing of an
execution with a silent server, or of one without a timeout; `CancelWins` says
nothing of the former, and holds of the latter, since a cancel is as good as a
timeout. The ticker and the
handling of a row are fair in `Scheduler`. Requests, edits, clients, output and
stops are never fair.

**Findings.**

* *retry.* The handler refuses to retry an execution that "is still running",
  looks for `pending` and `running`, and so accepts `retrying`
  (`handler_backup.go:270`): two executions of the same servers run at once.
* *silent.* `NewClient` is called without the context (`runner.go:40`). The
  timeout and a cancel take effect once the session runs; a server that accepts
  the connection and is then silent keeps its slot and the execution for ever.
* *leap_day.* When a schedule has no next run after one that was just
  triggered, `tick` leaves the row as it was (`scheduler.go:94-98`), due, and
  triggers it again every minute. `0 0 29 2 *` gets there.
* *selection.* `selectServersByPolicy` intersects the policy's names with those
  of the trigger; an empty intersection reaches `selectServers` as "no
  restriction" and every enabled server is backed up (`handler_backup.go:368`).
  A policy that is given other servers does this to the schedules that copied
  the old ones, and to retries.

Disagreements that no run shows: a tick undoes an edit that it overlaps and may
bring back the name of a server or a policy that was deleted since
(`scheduler.go:98-100`; `raced` in `Scheduler`, `revived` in `Inventory`); a
timeout of `0s` passes validation (`config.go:434`) and is none
(`runner.go:125`), so that a script that hangs holds its execution until it is
canceled (`untimed` in `Execution`); `README.md:164` of the
repository offers `5m` as a schedule, which `NextRunAt` refuses; its
`implementation_status.md:63` has settings saved before memory is changed,
while the code changes memory first (a save that fails leaves the two apart,
`apart` in `Settings`); and a login that is overtaken between the clock and the
mutex may come in addition to the limit (`latest` in `Gateway`).

## Proofs

They hold for any constants that satisfy the named assumptions of the modules:
numbers are numbers, selections are nonempty sets of servers, there are finitely
many servers and at least one in a run, every field of a cron expression has a
least and a greatest value, and the value `None` is not also a row.

* `ExecutionProofs`: `TypeCorrect`, `LiveRowsAreOwnedHolds`,
  `OutcomeMatchesReportHolds`, `NotificationMatchesRowHolds` and `Refinement`.
  None of the properties is inductive: what a row may show depends on how far
  its owner is. The second but last says that a row and what was notified of it
  never contradict each other: where they differ the final write failed and the
  row is live. The invariant says, for each control state, which statuses the
  row may have, whether the entry in `cancels` is there, what report and outcome
  are, and that an outcome is backed by the report. From it each write of a row
  moves its rank forward, which is the refinement.
* `TaskRunnerProofs`: `TypeCorrect`, `SlotsMatchHoldersHolds`, `Refinement`,
  and with a session in the run `SessionIsARun` and `SuccessIsEarned`.
  The bound on the backups in progress is a fact about cardinalities: those that
  connect or execute hold a slot, and the semaphore counts the holders. That the
  report is complete follows from `ResultsInv`: the slice holds the result of
  every goroutine that has appended, and nothing else. Every step of
  `SshSession` is a step of the run or invisible to it (`SessionInv`: the session
  has a connection exactly while its job executes), so the run keeps its contract
  whatever the shell does; and a server is reported backed up only if its shell
  ended well and was sent all of the script (`OkIsEarned`).
* `LogStreamProofs`: `LogStreamTypeOK`, `StreamsStayOpen`,
  `WritersAreHeardInOrder`, `LinesComeOnce`. The table is sorted by time, and by
  number for each writer, because a writer inserts its line before it stamps the
  next (`StoredInv`). What a live client has been sent and is going to be splits
  in two (`LiveInv`): a part of the table, up to the line each writer was at when
  the client subscribed, and what was published from that line on. Each part has
  a number once; only the line at the seam can be in both; what was complete
  when the table was read is never published again.
* `SchedulerProofs`: `SchedulerTypeOK`, `EditsStand`, `DueTimesFireOnce`,
  `RowsPlanTheirOwn`, `DisabledStarts`. A tick may write its listing back because
  the row it has listed and not yet handled is the row in the table
  (`SeenIsStored`), unless the schedule is marked as raced. A due time fires once
  because all that was fired lies before the run that is planned next. Of `Cron`:
  `CronFindsTheFirst`, the search returns the first minute that matches or finds
  none in the year, in any calendar; `CronIsLater` is what `Scheduler` assumes of
  `NextRunAt`; and a field that parses has a value, and only values in its range
  (`FieldValues`, `WeekdayValues`).
* `InventoryProofs`: `InventoryTypeOK`, `ReferencesStand`, `CreatesOnlyCreate`.
  The invariant says what a request in flight has found and may still rely on;
  whoever takes it away overlaps the request, or renames a server. The listing of
  a tick relies on nothing (`ListedInv`): `ReferencesStand` allows for what a
  stale row names again (`WriteBackInv`), and for nothing else that it writes.
* `ServiceProofs`, of accounts: `AccountsTypeOK`, `PasswordsStand`,
  `RolesAreRecent`, `LastAdminGoesByRace`. What a request has read stands until
  somebody marks it late; `PasswordsStand` excepts the users (`raced`) whose
  password was set while an update of them, or another change, was under way:
  the update writes the old one back; a token that shows a role its user no longer has is no
  younger than the loss of it (`SessionInv`). Of the gateway: `KeysRunOnce` from
  `CacheInv` (an answer that is not too old is still cached), and
  `LoginsAreLimited` from `LimiterInv`: a login that another could still be
  counted with, one that is no earlier than all others so far, is among those
  the limiter remembers, so that the limiter's count bounds the logins of every
  interval; the rest is cardinalities. Of the settings: `UsedIsChecked`,
  `RowsMatchMemory` and `ChangesSurvive` from `SettingsInv`, which says of each
  field of a copy where it comes from, and that a request that was alone has
  written what it made of all that had been acknowledged. `UsedIsChecked` is
  about what is saved, without exception, and about the copies of executions
  that no install overlapped: one that was may hold halves of two
  configurations. `ChangesSurvive` excepts requests that overlap, a save that
  fails and a start that cannot read the row (`RestartUnread`). `ServiceTypes` is the
  type invariant of the three.
* `MemoryRepositoryProofs`: `IndexesStand`. In the memory driver a map and its
  index by name never disagree, whatever is created, renamed and deleted. No run
  has this module as its specification; the refinement of the sqlite driver
  computes the indexes and needs them right.
* `SQLiteRepositoryProofs`: `Inductive`, and from it `StoreTypes`, `FilesOpen`,
  `DriversAgree` and `RetentionKeepsTheYoung`. `DriversAgree` is the refinement:
  every step is a call of the memory driver, a stutter, or one of `Differs`. The
  invariant (`IInv`) says what a caller between two statements has found and how
  far that still holds: an update of a user has a complete row (`UserPending`),
  an upsert has the identifier of the owner or one that is nobody's, not even
  another caller's (`ServerPending`), an update of a policy has the time of
  creation that is stored, if the row is (`PolicyPending`). Names being unique,
  the computed index of a table changes with a row as the memory driver changes
  its own (`PutRow`, `DropRow`). A step of another caller either leaves what was
  found as it is or is what `Differs` lists; the theorem shows that list to be
  complete, for any number of callers. `RetentionKeepsTheYoung` is about the
  cutoffs of one transaction.

Every safety property that a run checks is thus a theorem. Only model-checked:
liveness (`EveryExecutionEnds`, `CancelWins`, `RunReturns`, `SessionEnds`,
`AppendsEnd`, `DueIsHandled`) and the fairness in `ImplementsRunner`, whose
safety is `SessionIsARun`: the prover does not do ENABLED.

## Order of the work

1. `ExecutionLifecycle`, `Execution`, `RunContract`, `TaskRunner`: the core, and
   its proofs.
2. `LogStream`, `Scheduler`, `Inventory`: what works on the same rows.
3. `SshSession` and `Cron`: what those had taken for granted.
4. `Store`, `MemoryRepository`, `SQLiteRepository`: what all of them call.
5. `Accounts`, `Gateway`, `Settings`, composed in `Service`.
6. The proofs of 2, 4 and 5.
7. The proofs of 3 and of the sqlite driver against the memory driver.

What could follow: the window of the notifier; the windows of the day that a
clock change skips or repeats, in `Cron` with a calendar that has them.

## Not modelled

* The notifier's suppression window (`webhook.go:185`): one time stamp that
  nothing else depends on; nothing says what a suppressed failure is owed.
  Whether to notify, and what, is in `Execution`.
* Audit rows as handlers write them: errors are ignored, and nothing reads the
  rows but the listing. The rows and their retention are in the stores.
* `Persist` and the YAML of the configuration file, which only the first start
  writes, and paths; defaults and validation are in `Settings`.
* The order in which modules start and stop: it is sequential. What a start does
  to the rows, and a stop to what is under way, are actions of `Execution`,
  `Scheduler`, `Inventory`, `Accounts`, `Settings`, `Gateway` and
  `SQLiteRepository`.
* Pagination and filters of listings, script text, translations, logging,
  encryption of secrets: functions of their input without state.
* The command line tool, which is one call of `task.Run`, and the web console.
