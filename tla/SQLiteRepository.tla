--------------------------- MODULE SQLiteRepository ---------------------------
(***************************************************************************)
(* The sqlite driver of the store (internal/store/sqlite_repository.go).   *)
(* One connection: a statement, or a transaction, is one step.  Most calls *)
(* are one statement; UpdateUser, UpsertServer and UpdatePolicy read a row *)
(* and then write one, and other calls come between the two.  Times are    *)
(* kept in milliseconds; the clock here ticks twice in one.                *)
(*                                                                         *)
(* The tables have nothing to do with each other except execution_logs,    *)
(* which names executions: a behaviour fills the tables of one kind.       *)
(* Every call is held against the memory driver's: see ImplementsMemory.   *)
(***************************************************************************)
EXTENDS Store

CONSTANTS
  Callers,   \* calls of two statements that are in flight
  MaxClock   \* bound of the clock

VARIABLES
  users, servers, policies, schedules, executions, audit_logs,  \* by their primary key
  execution_logs,   \* numbered as they are inserted
  system_settings,  \* the row: what it says, and whether it was ever saved
  schema,     \* what the file has: tables, and columns that were added to them
  open,       \* closed, open, or failed: NewSQLiteRepository returned an error
  pending,    \* the first statement of a caller's call, once it is done
  call, answer,  \* the last call that ended, and what it returned
  clock,
  used,       \* identifiers of rows that were inserted: a uuid does not come again
  about       \* the kind of rows that this behaviour is about

logs   == <<execution_logs, audit_logs>>
tables == <<users, servers, policies, schedules, executions, logs, system_settings>>
process == <<schema, open, clock, about>>
vars   == <<tables, process, pending, call, answer, used>>

Millis(t) == t \div 2  \* toMillis; fromMillis returns what is left
Now       == Millis(clock)
Instants  == {Millis(t) : t \in 2 .. MaxClock}

Settings  == [says : Contents \union {None}, saved : BOOLEAN]

ASSUME ClockAssumption == MaxClock \in Nat /\ MaxClock >= 2
ASSUME NoneIsNoRow == None \notin Settings \union Execution(Instants)

(* The memory driver, at the precision of this one.                        *)
Index(table) ==
  [n \in Names |->
     IF \E i \in Ids : table[i] # None /\ table[i].name = n
     THEN CHOOSE i \in Ids : table[i] # None /\ table[i].name = n
     ELSE None]

Of(i) == {log \in execution_logs : log.execution = i}

Saved == IF system_settings # None /\ system_settings.saved THEN system_settings.says ELSE None

Memory == INSTANCE MemoryRepository WITH
  usersByName  <- Index(users),
  serverByName <- Index(servers),
  execLogs     <- [i \in Ids |-> Of(i)],
  auditLogs    <- audit_logs,
  settings     <- Saved,
  now          <- Now

-----------------------------------------------------------------------------
(* Opening a file runs the statements of the schema, in one transaction.   *)
(* No statement is about two tables: each table is made, with all columns, *)
(* if it is not there, and one in Late is then given its late column.  The *)
(* indexes are left out: they need nothing that a version lacked.          *)

Late  == {"servers", "schedules", "executions"}  \* have a column that came later
Known == Late \union {"users", "policies", "execution_logs", "audit_logs", "system_settings"}

Current == [tables |-> Known, columns |-> Late]

Fresh == [says |-> None, saved |-> FALSE]  \* updated_at = 0

isIgnorableOfTwo(t) ==  \* a mutant: one of the columns is forgotten
  t \in {"servers", "schedules"}

(* ALTER TABLE t ADD COLUMN, when it is there already, is an error, which  *)
(* is looked for.                                                          *)
isIgnorableMigrationErr(t) == t \in Late

Made       == Known \ schema.tables  \* by CREATE TABLE IF NOT EXISTS
Duplicates == schema.columns \union (Made \intersect Late)

MigrateReplacing ==  \* a mutant: INSERT OR REPLACE
  /\ open = "closed"
  /\ open' = "open" /\ schema' = Current /\ system_settings' = Fresh
  /\ UNCHANGED <<users, servers, policies, schedules, executions, logs,
                 pending, call, answer, clock, used, about>>

(* INSERT OR IGNORE leaves the row of the settings alone, if there is one. *)
Migrate ==
  /\ open = "closed"
  /\ IF \E t \in Duplicates : ~isIgnorableMigrationErr(t)
     THEN open' = "failed" /\ UNCHANGED <<schema, system_settings>>
     ELSE /\ open' = "open"
          /\ schema' = [tables  |-> schema.tables \union Made,
                        columns |-> schema.columns \union Late]
          /\ system_settings' = IF system_settings = None THEN Fresh ELSE system_settings
  /\ UNCHANGED <<users, servers, policies, schedules, executions, logs,
                 pending, call, answer, clock, used, about>>

(* A transaction that is not committed and the calls in flight are lost.   *)
Restart ==
  /\ open = "open"
  /\ open' = "closed"
  /\ pending' = [p \in Callers |-> None]
  /\ UNCHANGED <<tables, schema, call, answer, clock, used, about>>

Kinds == {"users", "servers", "policies", "schedules", "executions", "audit", "settings"}

Timed == {"policies", "schedules", "executions", "audit"}  \* rows that hold times

(* A file that an earlier version has left, with at most one row in it.    *)
Holding(kind, Row) ==
  {[i \in Ids |-> None]} \union
  IF about = kind /\ kind \in schema.tables
  THEN {[i \in Ids |-> IF i = j THEN row ELSE None] : j \in Ids, row \in Row}
  ELSE {}

Init ==
  /\ about \in Kinds
  /\ schema \in [tables : SUBSET Known, columns : SUBSET Late]
  /\ schema.columns \subseteq schema.tables
  /\ system_settings \in
       IF "system_settings" \notin schema.tables THEN {None}
       ELSE {Fresh} \union [says : Contents, saved : {TRUE}]
  /\ users \in Holding("users", User) /\ servers \in Holding("servers", Server)
  /\ policies \in Holding("policies", Policy({1}))
  /\ schedules \in Holding("schedules", Schedule({1}))
  /\ executions \in Holding("executions", Execution({1}))
  /\ execution_logs = {} /\ audit_logs = [i \in Ids |-> None]
  /\ used = UNION {Memory!Stored(t) : t \in {users, servers, policies, schedules, executions}}
  /\ open = "closed"
  /\ pending = [p \in Callers |-> None]
  /\ call = <<>> /\ answer = [err |-> "nil", value |-> <<>>, turn |-> 0]
  /\ clock = 2

-----------------------------------------------------------------------------
(* What statements do.                                                     *)

Serving(kind) == open = "open" /\ about = kind

InFlight == {p \in Callers : pending[p] # None}

Reply(what, err, value) ==
  /\ call' = what
  /\ answer' = [err |-> err, value |-> value, turn |-> 1 - answer.turn]
  /\ UNCHANGED process

(* UNIQUE(name)                                                            *)
Unique(table, i, n) == \A j \in Memory!Stored(table) \ {i} : table[j].name # n

(* WHERE id = i: a statement that affects no row is "not found".           *)
Affects(table, i, changed, what) ==
  IF table[i] = None THEN Reply(what, "not found", <<>>) /\ table' = table
  ELSE Reply(what, "nil", <<>>) /\ table' = [table EXCEPT ![i] = changed]

Updates(table, i, row, what) ==
  IF table[i] # None /\ ~Unique(table, i, row.name)
  THEN Reply(what, "already exists", <<>>) /\ table' = table
  ELSE Affects(table, i, row, what)

Inserts(table, i, row, unique, what) ==
  IF unique
  THEN /\ table' = [table EXCEPT ![i] = row] /\ used' = used \union {i}
       /\ Reply(what, "nil", <<i>>)
  ELSE Reply(what, "already exists", <<>>) /\ UNCHANGED <<table, used>>

(* A query changes nothing.                                                *)
Queries(kind, err, value, what) ==
  /\ Serving(kind)
  /\ Reply(what, err, value)
  /\ UNCHANGED <<tables, pending, used>>

-----------------------------------------------------------------------------
(* Users.                                                                  *)

NotUsers == <<servers, policies, schedules, executions, logs, system_settings>>

CreateUser(i, u) ==
  /\ Serving("users") /\ i \notin used
  /\ Inserts(users, i, u, Unique(users, i, u.name), <<"CreateUser", i, u>>)
  /\ UNCHANGED <<NotUsers, pending>>

ReadUserAsIs(p, i, u) ==  \* a mutant: an empty hash is written
  /\ Serving("users") /\ i \in used /\ pending[p] = None /\ users[i] # None
  /\ pending' = [pending EXCEPT ![p] =
       [id |-> i, row |-> u, call |-> <<"UpdateUser", i, u>>]]
  /\ UNCHANGED <<call, answer, process, tables, used>>

(* The row that is written is complete once the stored one has been read:  *)
(* an empty hash is replaced by the one that was stored then.              *)
ReadUser(p, i, u) ==
  /\ Serving("users") /\ i \in used /\ pending[p] = None
  /\ IF users[i] = None
     THEN Reply(<<"UpdateUser", i, u>>, "not found", <<>>) /\ pending' = pending
     ELSE /\ pending' = [pending EXCEPT ![p] =
               [id |-> i, row |-> [u EXCEPT !.hash = IF @ = None THEN users[i].hash ELSE @],
                call |-> <<"UpdateUser", i, u>>]]
          /\ UNCHANGED <<call, answer, process>>
  /\ UNCHANGED <<tables, used>>

WriteUser(p) ==
  /\ Serving("users") /\ pending[p] # None
  /\ Updates(users, pending[p].id, pending[p].row, pending[p].call)
  /\ pending' = [pending EXCEPT ![p] = None]
  /\ UNCHANGED <<NotUsers, used>>

UpdateUserPassword(i, hash) ==
  /\ Serving("users") /\ i \in used
  /\ Affects(users, i, [users[i] EXCEPT !.hash = hash], <<"UpdateUserPassword", i, hash>>)
  /\ UNCHANGED <<NotUsers, pending, used>>

(* UpdateUserLogin and UpdateUserLocale.                                   *)
UpdateUserContent(i, c) ==
  /\ Serving("users") /\ i \in used
  /\ Affects(users, i, [users[i] EXCEPT !.content = c], <<"UpdateUserContent", i, c>>)
  /\ UNCHANGED <<NotUsers, pending, used>>

DeleteUser(i) ==
  /\ Serving("users") /\ i \in used
  /\ Affects(users, i, None, <<"DeleteUser", i>>)
  /\ UNCHANGED <<NotUsers, pending, used>>

GetUserByUsername(n) ==
  LET found == {i \in Memory!Stored(users) : users[i].name = n}
  IN  \/ found = {} /\ Queries("users", "not found", <<>>, <<"GetUserByUsername", n>>)
      \/ \E i \in found : Queries("users", "nil", <<users[i]>>, <<"GetUserByUsername", n>>)

ListUsers ==
  LET Before(i, j) == users[i].name < users[j].name  \* ORDER BY username ASC
  IN  \E q \in Memory!Listings(Memory!Stored(users), Before) : Queries("users", "nil", q, <<"ListUsers">>)

UserCalls ==
  \/ \E i \in Ids, u \in User : CreateUser(i, u)
  \/ \E p \in Callers, i \in Ids, n \in Names, h \in Hashes \union {None}, c \in Contents :
       ReadUser(p, i, [name |-> n, hash |-> h, content |-> c])
  \/ \E p \in Callers : WriteUser(p)
  \/ \E i \in Ids : \/ \E h \in Hashes : UpdateUserPassword(i, h)
                    \/ \E c \in Contents : UpdateUserContent(i, c)
                    \/ DeleteUser(i)
  \/ \E n \in Names : GetUserByUsername(n)
  \/ ListUsers

-----------------------------------------------------------------------------
(* Servers.                                                                *)

NotServers == <<users, policies, schedules, executions, logs, system_settings>>

(* findServerIDByName: the identifier of that name, or none.               *)
Owner(n) == Index(servers)[n]

(* Without an identifier the row of that name, or a new one, is chosen.    *)
FindServer(p, id, s) ==
  /\ Serving("servers") /\ id \in used \union {None} /\ pending[p] = None
  /\ IF id # None /\ Owner(s.name) \notin {None, id}
     THEN Reply(<<"UpsertServer", id, s>>, "already exists", <<>>) /\ pending' = pending
     ELSE \E i \in Ids :
            /\ CASE id # None -> i = id
                 [] id = None /\ Owner(s.name) # None -> i = Owner(s.name)
                 [] OTHER -> i \notin used \union {pending[q].id : q \in InFlight}
            /\ pending' = [pending EXCEPT ![p] =
                 [id |-> i, row |-> s, owner |-> Owner(s.name),
                  call |-> <<"UpsertServer", id, s>>]]
            /\ UNCHANGED <<call, answer, process>>
  /\ UNCHANGED <<tables, used>>

(* ON CONFLICT(id) DO UPDATE; a name that another row has is a conflict    *)
(* of the other constraint.                                                *)
WriteServer(p) ==
  /\ Serving("servers") /\ pending[p] # None
  /\ Inserts(servers, pending[p].id, pending[p].row,
             Unique(servers, pending[p].id, pending[p].row.name), pending[p].call)
  /\ pending' = [pending EXCEPT ![p] = None]
  /\ UNCHANGED NotServers

DeleteServer(i) ==
  /\ Serving("servers") /\ i \in used
  /\ Affects(servers, i, None, <<"DeleteServer", i>>)
  /\ UNCHANGED <<NotServers, pending, used>>

ListServers ==
  LET Before(i, j) == servers[i].name < servers[j].name  \* ORDER BY name ASC
  IN  \E q \in Memory!Listings(Memory!Stored(servers), Before) : Queries("servers", "nil", q, <<"ListServers">>)

ServerCalls ==
  \/ \E p \in Callers, id \in Ids \union {None}, s \in Server : FindServer(p, id, s)
  \/ \E p \in Callers : WriteServer(p)
  \/ \E i \in Ids : DeleteServer(i)
  \/ ListServers

-----------------------------------------------------------------------------
(* Policies and schedules.                                                 *)

NotPolicies  == <<users, servers, schedules, executions, logs, system_settings>>
NotSchedules == <<users, servers, policies, executions, logs, system_settings>>

Plan(n, c, created) == [name |-> n, content |-> c, created |-> created]

CreatePolicy(i, n, c) ==
  /\ Serving("policies") /\ i \notin used
  /\ Inserts(policies, i, Plan(n, c, Now), Unique(policies, i, n), <<"CreatePolicy", i, n, c>>)
  /\ UNCHANGED <<NotPolicies, pending>>

ReadPolicy(p, i, n, c) ==
  /\ Serving("policies") /\ i \in used /\ pending[p] = None
  /\ IF policies[i] = None
     THEN Reply(<<"UpdatePolicy", i, n, c>>, "not found", <<>>) /\ pending' = pending
     ELSE /\ pending' = [pending EXCEPT ![p] =
               [id |-> i, row |-> Plan(n, c, policies[i].created),
                call |-> <<"UpdatePolicy", i, n, c>>]]
          /\ UNCHANGED <<call, answer, process>>
  /\ UNCHANGED <<tables, used>>

WritePolicy(p) ==
  /\ Serving("policies") /\ pending[p] # None
  /\ Updates(policies, pending[p].id, pending[p].row, pending[p].call)
  /\ pending' = [pending EXCEPT ![p] = None]
  /\ UNCHANGED <<NotPolicies, used>>

DeletePolicy(i) ==
  /\ Serving("policies") /\ i \in used
  /\ Affects(policies, i, None, <<"DeletePolicy", i>>)
  /\ UNCHANGED <<NotPolicies, pending, used>>

CreateSchedule(i, n, c) ==
  /\ Serving("schedules") /\ i \notin used
  /\ Inserts(schedules, i, Plan(n, c, Now), TRUE, <<"CreateSchedule", i, n, c>>)
  /\ UNCHANGED <<NotSchedules, pending>>

(* The time of creation is the one of the row that the caller has read.    *)
UpdateSchedule(i, n, c) ==
  /\ Serving("schedules") /\ i \in used
  /\ Affects(schedules, i, Plan(n, c, schedules[i].created), <<"UpdateSchedule", i, n, c>>)
  /\ UNCHANGED <<NotSchedules, pending, used>>

DeleteSchedule(i) ==
  /\ Serving("schedules") /\ i \in used
  /\ Affects(schedules, i, None, <<"DeleteSchedule", i>>)
  /\ UNCHANGED <<NotSchedules, pending, used>>

(* ORDER BY created_at ASC, name ASC                                       *)
ListPlans(kind, table, what) ==
  LET Before(i, j) == \/ table[i].created < table[j].created
                      \/ table[i].created = table[j].created /\ table[i].name < table[j].name
  IN  \E q \in Memory!Listings(Memory!Stored(table), Before) : Queries(kind, "nil", q, what)

ListPolicies  == ListPlans("policies", policies, <<"ListPolicies">>)
ListSchedules == ListPlans("schedules", schedules, <<"ListSchedules">>)

PlanCalls ==
  \/ \E i \in Ids, n \in Names, c \in Contents :
       \/ CreatePolicy(i, n, c)
       \/ \E p \in Callers : ReadPolicy(p, i, n, c)
       \/ CreateSchedule(i, n, c) \/ UpdateSchedule(i, n, c)
  \/ \E p \in Callers : WritePolicy(p)
  \/ \E i \in Ids : DeletePolicy(i) \/ DeleteSchedule(i)
  \/ ListPolicies \/ ListSchedules

-----------------------------------------------------------------------------
(* Executions, their logs, and the audit log.                              *)

NotHistory == <<users, servers, policies, schedules, system_settings>>

CreateExecution(i, c) ==
  /\ Serving("executions") /\ i \notin used
  /\ Inserts(executions, i, [content |-> c, started |-> Now], TRUE, <<"CreateExecution", i, c>>)
  /\ UNCHANGED <<NotHistory, logs, pending>>

UpdateExecution(i, c) ==
  /\ Serving("executions") /\ i \in used
  /\ Affects(executions, i, [executions[i] EXCEPT !.content = c], <<"UpdateExecution", i, c>>)
  /\ UNCHANGED <<NotHistory, logs, pending, used>>

ListExecutions ==  \* ORDER BY started_at DESC
  LET Before(i, j) == executions[i].started > executions[j].started
  IN  \E q \in Memory!Listings(Memory!Stored(executions), Before) : Queries("executions", "nil", q, <<"ListExecutions">>)

(* The caller may have taken the time before others appended theirs.       *)
AppendExecutionLog(i, nr, t, line) ==
  /\ Serving("executions") /\ i \in used /\ t <= clock
  /\ \A old \in execution_logs : old.nr < nr
  /\ execution_logs' = execution_logs \union
       {[nr |-> nr, execution |-> i, at |-> Millis(t), line |-> line]}
  /\ Reply(<<"AppendExecutionLog", i, [at |-> Millis(t), line |-> line]>>, "nil", <<>>)
  /\ UNCHANGED <<NotHistory, executions, audit_logs, pending, used>>

ListExecutionLogs(i) ==  \* ORDER BY timestamp ASC, id ASC
  LET Before(old, log) == old.at < log.at \/ (old.at = log.at /\ old.nr < log.nr)
  IN  \E q \in Memory!Listings(Of(i), Before) :
        Queries("executions", "nil", [k \in DOMAIN q |-> Plain(q[k])], <<"ListExecutionLogs", i>>)

CreateAuditLog(i, t, line) ==
  /\ Serving("audit") /\ i \notin used /\ t <= clock
  /\ audit_logs' = [audit_logs EXCEPT ![i] = [at |-> Millis(t), line |-> line]]
  /\ used' = used \union {i}
  /\ Reply(<<"CreateAuditLog", [at |-> Millis(t), line |-> line]>>, "nil", <<>>)
  /\ UNCHANGED <<NotHistory, executions, execution_logs, pending>>

ListAuditLogs ==  \* ORDER BY timestamp DESC
  LET Before(i, j) == audit_logs[i].at > audit_logs[j].at
  IN  \E q \in Memory!Listings(Memory!Stored(audit_logs), Before) :
        Queries("audit", "nil", [k \in DOMAIN q |-> audit_logs[q[k]]], <<"ListAuditLogs">>)

(* The executions that started before.                                     *)
Old(cutoff) == {i \in Memory!Stored(executions) : executions[i].started < Millis(cutoff)}

ApplyRetentionLogsFirst(executionCutoff, logCutoff, auditCutoff) ==
  \* a mutant: logs without an execution go before executions do
  /\ open = "open" /\ about = "executions"
  /\ executions' = [i \in Ids |-> IF i \in Old(executionCutoff) THEN None ELSE executions[i]]
  /\ execution_logs' = {log \in execution_logs :
       log.at >= Millis(logCutoff) /\ executions[log.execution] # None}
  /\ Reply(<<>>, "nil", <<>>)
  /\ UNCHANGED <<NotHistory, audit_logs, pending, used>>

(* The last statement of the transaction deletes the logs of executions    *)
(* that are not there, whatever their age.                                 *)
ApplyRetention(executionCutoff, logCutoff, auditCutoff) ==
  /\ open = "open" /\ about \in {"executions", "audit"}
  /\ executions' = [i \in Ids |-> IF i \in Old(executionCutoff) THEN None ELSE executions[i]]
  /\ execution_logs' = {log \in execution_logs :
       log.at >= Millis(logCutoff) /\ executions'[log.execution] # None}
  /\ audit_logs' = [i \in Ids |->
       IF audit_logs[i] # None /\ audit_logs[i].at < Millis(auditCutoff) THEN None
       ELSE audit_logs[i]]
  /\ Reply(<<"ApplyRetention", Millis(executionCutoff), Millis(logCutoff), Millis(auditCutoff)>>,
           "nil", <<>>)
  /\ UNCHANGED <<NotHistory, pending, used>>

HistoryCalls ==
  \/ \E i \in Ids, c \in Contents :
       \/ CreateExecution(i, c) \/ UpdateExecution(i, c)
       \/ \E nr \in Numbers, t \in 2 .. MaxClock : AppendExecutionLog(i, nr, t, c)
       \/ \E t \in 2 .. MaxClock : CreateAuditLog(i, t, c)
  \/ \E i \in Ids : ListExecutionLogs(i)
  \/ ListExecutions
  \/ ListAuditLogs
  \/ \E e, l \in 2 .. MaxClock : ApplyRetention(e, l, l)  \* audit logs are apart

-----------------------------------------------------------------------------
(* Settings: the row with id = 1.                                          *)

SaveSettings(s) ==
  /\ Serving("settings")
  /\ system_settings' = [says |-> s, saved |-> TRUE]
  /\ Reply(<<"SaveSettings", s>>, "nil", <<>>)
  /\ UNCHANGED <<users, servers, policies, schedules, executions, logs, pending, used>>

(* A row that was never saved has no time of its last change.              *)
GetSettings == Queries("settings", "nil", <<Saved>>, <<"GetSettings">>)

(* A statement fails, or the caller's context is over before the second.   *)
Abandon(p) ==
  /\ pending[p] # None
  /\ pending' = [pending EXCEPT ![p] = None]
  /\ UNCHANGED <<tables, process, call, answer, used>>

Tick ==
  /\ open = "open" /\ clock < MaxClock /\ about \in Timed
  /\ clock' = clock + 1
  /\ UNCHANGED <<tables, schema, open, about, pending, call, answer, used>>

Next ==
  \/ Migrate \/ Restart
  \/ UserCalls \/ ServerCalls \/ PlanCalls \/ HistoryCalls
  \/ (\E s \in Contents : SaveSettings(s)) \/ GetSettings
  \/ \E p \in Callers : Abandon(p)
  \/ Tick

Spec == Init /\ [][Next]_vars

-----------------------------------------------------------------------------
(* The calls of two statements that are between them.                      *)
Update  == [name : Names, hash : Hashes \union {None}, content : Contents]
Pending ==
  [id : Ids, row : User, call : {"UpdateUser"} \X Ids \X Update]
    \union [id : Ids, row : Server, owner : Ids \union {None},
            call : {"UpsertServer"} \X (Ids \union {None}) \X Server]
    \union [id : Ids, row : Policy(Instants),
            call : {"UpdatePolicy"} \X Ids \X Names \X Contents]

TypeOK ==
  /\ users \in [Ids -> User \union {None}]
  /\ servers \in [Ids -> Server \union {None}]
  /\ policies \in [Ids -> Policy(Instants) \union {None}]
  /\ schedules \in [Ids -> Schedule(Instants) \union {None}]
  /\ executions \in [Ids -> Execution(Instants) \union {None}]
  /\ audit_logs \in [Ids -> Audit(Instants) \union {None}]
  /\ execution_logs \subseteq Line(Instants)
  /\ system_settings \in Settings \union {None}
  /\ schema \in [tables : SUBSET Known, columns : SUBSET Late]
  /\ open \in {"closed", "open", "failed"}
  /\ about \in Kinds /\ clock \in 2 .. MaxClock
  /\ pending \in [Callers -> Pending \union {None}]
  /\ used \subseteq Ids
  /\ \A table \in {users, servers, policies, schedules, executions, audit_logs} :
       Memory!Stored(table) \subseteq used

(* A file of any earlier version opens and then has everything, and so     *)
(* does a file that was opened before.                                     *)
EveryFileOpens ==
  /\ open # "failed"
  /\ open = "open" => schema = Current /\ system_settings # None

(* The steps in which the drivers are known to differ.  The first three    *)
(* are second statements that act on what the first has found: an empty    *)
(* hash that was changed since, a name whose owner is another since.  The  *)
(* listing of logs is in the order of their times here, in the order of    *)
(* insertion there.  Retention deletes young logs of an execution that is  *)
(* gone here; there they stay.                                             *)
HashIsStale(p) ==
  /\ pending[p] # None /\ pending[p].call[3].hash = None
  /\ users[pending[p].id] # None /\ users[pending[p].id].hash # pending[p].row.hash

OwnerIsStale(p) ==
  /\ pending[p] # None /\ pending[p].call[2] = None
  /\ Owner(pending[p].row.name) # pending[p].owner

OutOfOrder == \E old, log \in execution_logs :
  /\ old.nr < log.nr /\ old.execution = log.execution
  /\ old.at > log.at

(* Lines of executions that are not there go.                              *)
OrphansGo == \E log \in execution_logs \ execution_logs' : executions[log.execution] = None

Differs ==
  \/ about = "users" /\ \E p \in Callers : HashIsStale(p) /\ pending'[p] = None
  \/ about = "servers" /\ \E p \in Callers : OwnerIsStale(p) /\ pending'[p] = None
  \/ OutOfOrder /\ UNCHANGED tables
  \/ OrphansGo

(* The drivers are interchangeable: what a call of the sqlite driver does  *)
(* and returns is what the memory driver would, with its indexes right,    *)
(* except in those steps; and neither opening a file nor losing the calls  *)
(* in flight changes a row.                                                *)
ImplementsMemory == [][Memory!Next \/ Differs]_Memory!vars

(* Retention is by age, and leaves no log without its execution: when rows *)
(* of executions or of their logs go, each is older than any that stays,   *)
(* or its execution goes.                                                  *)
Gone(i) == executions[i] # None /\ executions'[i] = None

RetentionIsByAge ==
  [][ (\E i \in Ids : Gone(i)) \/ ~(execution_logs \subseteq execution_logs') =>
        /\ \A i \in Ids, j \in Memory!Stored(executions') :
             Gone(i) => executions[i].started < executions[j].started
        /\ \A log \in execution_logs' : executions'[log.execution] # None
        /\ \A old, log \in execution_logs :
             /\ log \in execution_logs' /\ executions'[old.execution] # None
             /\ old.at >= log.at
             => old \in execution_logs' ]_vars
=============================================================================
