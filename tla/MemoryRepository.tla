--------------------------- MODULE MemoryRepository ---------------------------
(***************************************************************************)
(* The memory driver of the store (internal/store/repository.go): maps     *)
(* under one mutex, so that a call is one step.  Users and servers have an *)
(* index by name beside them.  The module is what a caller may expect of a *)
(* driver; SQLiteRepository is the other driver, and is held against it.   *)
(*                                                                         *)
(* answer is what the last call returned; its turn makes every call a      *)
(* change.                                                                 *)
(***************************************************************************)
EXTENDS Store

CONSTANT Instants  \* points in time

VARIABLES
  users, usersByName, servers, serverByName, policies, schedules,
  executions, execLogs, auditLogs, settings,
  now,     \* the clock
  call,    \* the last call: its name and its arguments
  answer   \* what it returned

accounts == <<users, usersByName>>
hosts    == <<servers, serverByName>>
plans    == <<policies, schedules>>
history  == <<executions, execLogs, auditLogs>>
vars     == <<accounts, hosts, plans, history, settings, now, call, answer>>

TypeOK ==
  /\ users \in [Ids -> User \union {None}]
  /\ usersByName \in [Names -> Ids \union {None}]
  /\ servers \in [Ids -> Server \union {None}]
  /\ serverByName \in [Names -> Ids \union {None}]
  /\ policies \in [Ids -> Policy(Instants) \union {None}]
  /\ schedules \in [Ids -> Schedule(Instants) \union {None}]
  /\ executions \in [Ids -> Execution(Instants) \union {None}]
  /\ execLogs \in [Ids -> SUBSET Line(Instants)]
  /\ auditLogs \in [Ids -> Audit(Instants) \union {None}]
  /\ settings \in Contents \union {None}

Stored(table) == {i \in DOMAIN table : table[i] # None}

(* What sort.Slice may make of the identifiers S: ties come in any order.  *)
Listings(S, Before(_, _)) ==
  {q \in SetToSeqs(S) : \A i, j \in DOMAIN q : i < j => ~Before(q[j], q[i])}

Reply(err, value, unchanged) ==
  /\ answer' = [err |-> err, value |-> value, turn |-> 1 - answer.turn]
  /\ UNCHANGED <<now, unchanged>>

Done(unchanged)          == Reply("nil", <<>>, unchanged)
Found(value, unchanged)  == Reply("nil", value, unchanged)
ErrNotFound(unchanged)   == Reply("not found", <<>>, unchanged)
ErrAlreadyExists(unchanged) == Reply("already exists", <<>>, unchanged)

Init ==
  /\ users = [i \in Ids |-> None]      /\ usersByName = [n \in Names |-> None]
  /\ servers = [i \in Ids |-> None]    /\ serverByName = [n \in Names |-> None]
  /\ policies = [i \in Ids |-> None]   /\ schedules = [i \in Ids |-> None]
  /\ executions = [i \in Ids |-> None] /\ execLogs = [i \in Ids |-> {}]
  /\ auditLogs = [i \in Ids |-> None]
  /\ settings = None
  /\ now \in Instants
  /\ call = <<>> /\ answer = [err |-> "nil", value |-> <<>>, turn |-> 0]

-----------------------------------------------------------------------------
(* Users.                                                                  *)

NotUsers == <<hosts, plans, history, settings>>

CreateUser(i, u) ==
  /\ call' = <<"CreateUser", i, u>>
  /\ users[i] = None
  /\ IF usersByName[u.name] # None
     THEN ErrAlreadyExists(<<accounts, NotUsers>>)
     ELSE /\ users' = [users EXCEPT ![i] = u]
          /\ usersByName' = [usersByName EXCEPT ![u.name] = i]
          /\ Found(<<i>>, NotUsers)

(* An empty hash keeps the stored one.                                     *)
UpdateUser(i, u) ==
  /\ call' = <<"UpdateUser", i, u>>
  /\ \/ users[i] = None /\ ErrNotFound(<<accounts, NotUsers>>)
     \/ /\ users[i] # None
        /\ usersByName[u.name] \notin {None, i}
        /\ ErrAlreadyExists(<<accounts, NotUsers>>)
     \/ /\ users[i] # None
        /\ usersByName[u.name] \in {None, i}
        /\ usersByName' = [usersByName EXCEPT ![users[i].name] = None, ![u.name] = i]
        /\ users' = [users EXCEPT ![i] = [u EXCEPT !.hash = IF @ = None THEN users[i].hash ELSE @]]
        /\ Done(NotUsers)

(* UpdateUserPassword, UpdateUserLogin and UpdateUserLocale.               *)
SetInUser(i, changed(_)) ==
  \/ users[i] = None /\ ErrNotFound(<<accounts, NotUsers>>)
  \/ /\ users[i] # None
     /\ users' = [users EXCEPT ![i] = changed(@)]
     /\ Done(<<usersByName, NotUsers>>)

UpdateUserPassword(i, hash) ==
  /\ call' = <<"UpdateUserPassword", i, hash>>
  /\ LET Set(u) == [u EXCEPT !.hash = hash] IN SetInUser(i, Set)
UpdateUserContent(i, c) ==
  /\ call' = <<"UpdateUserContent", i, c>>
  /\ LET Set(u) == [u EXCEPT !.content = c] IN SetInUser(i, Set)

DeleteUser(i) ==
  /\ call' = <<"DeleteUser", i>>
  /\ \/ users[i] = None /\ ErrNotFound(<<accounts, NotUsers>>)
     \/ /\ users[i] # None
        /\ users' = [users EXCEPT ![i] = None]
        /\ usersByName' = [usersByName EXCEPT ![users[i].name] = None]
        /\ Done(NotUsers)

GetUserByUsername(n) ==
  /\ call' = <<"GetUserByUsername", n>>
  /\ LET i == usersByName[n]
     IN  IF i = None \/ users[i] = None THEN ErrNotFound(<<accounts, NotUsers>>)
         ELSE Found(<<users[i]>>, <<accounts, NotUsers>>)

ListUsers ==
  /\ call' = <<"ListUsers">>
  /\ LET Before(i, j) == users[i].name < users[j].name
     IN  \E q \in Listings(Stored(users), Before) : Found(q, <<accounts, NotUsers>>)

UserCalls ==
  \/ \E i \in Ids, u \in User : CreateUser(i, u)
  \/ \E i \in Ids, n \in Names, h \in Hashes \union {None}, c \in Contents :
       UpdateUser(i, [name |-> n, hash |-> h, content |-> c])
  \/ \E i \in Ids, h \in Hashes : UpdateUserPassword(i, h)
  \/ \E i \in Ids, c \in Contents : UpdateUserContent(i, c)
  \/ \E i \in Ids : DeleteUser(i)
  \/ \E n \in Names : GetUserByUsername(n)
  \/ ListUsers

-----------------------------------------------------------------------------
(* Servers.  Without an identifier the row of that name is replaced.       *)

NotServers == <<accounts, plans, history, settings>>

UpsertServer(id, s) ==
  /\ call' = <<"UpsertServer", id, s>>
  /\ LET owner == serverByName[s.name]
         old   == servers[id]
     IN  \/ /\ id # None /\ owner \notin {None, id}
            /\ ErrAlreadyExists(<<hosts, NotServers>>)
         \/ /\ id # None /\ owner \in {None, id}
            /\ servers' = [servers EXCEPT ![id] = s]
            /\ serverByName' =
                 [n \in Names |-> IF n = s.name THEN id
                                  ELSE IF old # None /\ n = old.name THEN None
                                  ELSE serverByName[n]]
            /\ Found(<<id>>, NotServers)
         \/ /\ id = None
            /\ \E i \in Ids :
                 /\ IF owner = None THEN servers[i] = None ELSE i = owner
                 /\ servers' = [servers EXCEPT ![i] = s]
                 /\ serverByName' = [serverByName EXCEPT ![s.name] = i]
                 /\ Found(<<i>>, NotServers)

DeleteServer(i) ==
  /\ call' = <<"DeleteServer", i>>
  /\ \/ servers[i] = None /\ ErrNotFound(<<hosts, NotServers>>)
     \/ /\ servers[i] # None
        /\ servers' = [servers EXCEPT ![i] = None]
        /\ serverByName' = [serverByName EXCEPT ![servers[i].name] = None]
        /\ Done(NotServers)

ListServers ==
  /\ call' = <<"ListServers">>
  /\ LET Before(i, j) == servers[i].name < servers[j].name
     IN  \E q \in Listings(Stored(servers), Before) : Found(q, <<hosts, NotServers>>)

ServerCalls ==
  \/ \E id \in Ids \union {None}, s \in Server : UpsertServer(id, s)
  \/ \E i \in Ids : DeleteServer(i)
  \/ ListServers

-----------------------------------------------------------------------------
(* Policies and schedules.  Only a policy has its name for itself.         *)

NotPlans == <<accounts, hosts, history, settings>>

NameTaken(i, n) == \E j \in Stored(policies) \ {i} : policies[j].name = n

CreatePolicy(i, n, c) ==
  /\ call' = <<"CreatePolicy", i, n, c>>
  /\ policies[i] = None
  /\ IF NameTaken(i, n) THEN ErrAlreadyExists(<<plans, NotPlans>>)
     ELSE /\ policies' = [policies EXCEPT ![i] = [name |-> n, content |-> c, created |-> now]]
          /\ Found(<<i>>, <<schedules, NotPlans>>)

UpdatePolicy(i, n, c) ==
  /\ call' = <<"UpdatePolicy", i, n, c>>
  /\ \/ policies[i] = None /\ ErrNotFound(<<plans, NotPlans>>)
     \/ /\ policies[i] # None /\ NameTaken(i, n)
        /\ ErrAlreadyExists(<<plans, NotPlans>>)
     \/ /\ policies[i] # None /\ ~NameTaken(i, n)
        /\ policies' = [policies EXCEPT ![i] = [name |-> n, content |-> c, created |-> @.created]]
        /\ Done(<<schedules, NotPlans>>)

DeletePolicy(i) ==
  /\ call' = <<"DeletePolicy", i>>
  /\ \/ policies[i] = None /\ ErrNotFound(<<plans, NotPlans>>)
     \/ /\ policies[i] # None
        /\ policies' = [policies EXCEPT ![i] = None]
        /\ Done(<<schedules, NotPlans>>)

CreateSchedule(i, n, c) ==
  /\ call' = <<"CreateSchedule", i, n, c>>
  /\ schedules[i] = None
  /\ schedules' = [schedules EXCEPT ![i] = [name |-> n, content |-> c, created |-> now]]
  /\ Found(<<i>>, <<policies, NotPlans>>)

UpdateSchedule(i, n, c) ==
  /\ call' = <<"UpdateSchedule", i, n, c>>
  /\ \/ schedules[i] = None /\ ErrNotFound(<<plans, NotPlans>>)
     \/ /\ schedules[i] # None
        /\ schedules' = [schedules EXCEPT ![i] = [name |-> n, content |-> c, created |-> @.created]]
        /\ Done(<<policies, NotPlans>>)

DeleteSchedule(i) ==
  /\ call' = <<"DeleteSchedule", i>>
  /\ \/ schedules[i] = None /\ ErrNotFound(<<plans, NotPlans>>)
     \/ /\ schedules[i] # None
        /\ schedules' = [schedules EXCEPT ![i] = None]
        /\ Done(<<policies, NotPlans>>)

(* Oldest first, then by name.                                             *)
ListPlans(table, what) ==
  /\ call' = what
  /\ LET Before(i, j) ==
           \/ table[i].created < table[j].created
           \/ table[i].created = table[j].created /\ table[i].name < table[j].name
     IN  \E q \in Listings(Stored(table), Before) : Found(q, <<plans, NotPlans>>)

ListPolicies  == ListPlans(policies, <<"ListPolicies">>)
ListSchedules == ListPlans(schedules, <<"ListSchedules">>)

PlanCalls ==
  \/ \E i \in Ids, n \in Names, c \in Contents :
       \/ CreatePolicy(i, n, c)   \/ UpdatePolicy(i, n, c)
       \/ CreateSchedule(i, n, c) \/ UpdateSchedule(i, n, c)
  \/ \E i \in Ids : DeletePolicy(i) \/ DeleteSchedule(i)
  \/ ListPolicies \/ ListSchedules

-----------------------------------------------------------------------------
(* Executions, their logs, and the audit log.                              *)

NotHistory == <<accounts, hosts, plans, settings>>

CreateExecution(i, c) ==
  /\ call' = <<"CreateExecution", i, c>>
  /\ executions[i] = None
  /\ executions' = [executions EXCEPT ![i] = [content |-> c, started |-> now]]
  /\ Found(<<i>>, <<execLogs, auditLogs, NotHistory>>)

UpdateExecution(i, c) ==
  /\ call' = <<"UpdateExecution", i, c>>
  /\ \/ executions[i] = None /\ ErrNotFound(<<history, NotHistory>>)
     \/ /\ executions[i] # None
        /\ executions' = [executions EXCEPT ![i].content = c]
        /\ Done(<<execLogs, auditLogs, NotHistory>>)

(* Youngest first.                                                         *)
ListExecutions ==
  /\ call' = <<"ListExecutions">>
  /\ LET Before(i, j) == executions[i].started > executions[j].started
     IN  \E q \in Listings(Stored(executions), Before) : Found(q, <<history, NotHistory>>)

(* The slice of an execution is the set of its lines: its order is theirs. *)
AppendExecutionLog(log) ==
  /\ call' = <<"AppendExecutionLog", log.execution, Plain(log)>>
  /\ \A old \in execLogs[log.execution] : old.nr < log.nr
  /\ execLogs' = [execLogs EXCEPT ![log.execution] = @ \union {log}]
  /\ Done(<<executions, auditLogs, NotHistory>>)

ListExecutionLogs(i) ==
  /\ call' = <<"ListExecutionLogs", i>>
  /\ LET Before(old, log) == old.nr < log.nr
     IN  \E q \in Listings(execLogs[i], Before) :
           Found([k \in DOMAIN q |-> Plain(q[k])], <<history, NotHistory>>)

CreateAuditLog(i, log) ==
  /\ call' = <<"CreateAuditLog", log>>
  /\ auditLogs[i] = None
  /\ auditLogs' = [auditLogs EXCEPT ![i] = log]
  /\ Done(<<executions, execLogs, NotHistory>>)

ListAuditLogs ==
  /\ call' = <<"ListAuditLogs">>
  /\ LET Before(i, j) == auditLogs[i].at > auditLogs[j].at
     IN  \E q \in Listings(Stored(auditLogs), Before) :
           Found([k \in DOMAIN q |-> auditLogs[q[k]]], <<history, NotHistory>>)

(* The logs of the executions that go go with them.                        *)
ApplyRetention(executionCutoff, logCutoff, auditCutoff) ==
  /\ call' = <<"ApplyRetention", executionCutoff, logCutoff, auditCutoff>>
  /\ LET gone == {i \in Stored(executions) : executions[i].started < executionCutoff}
         old  == {i \in Stored(auditLogs) : auditLogs[i].at < auditCutoff}
     IN  /\ executions' = [i \in Ids |-> IF i \in gone THEN None ELSE executions[i]]
         /\ execLogs' = [i \in Ids |-> IF i \in gone THEN {}
                                       ELSE {log \in execLogs[i] : log.at >= logCutoff}]
         /\ auditLogs' = [i \in Ids |-> IF i \in old THEN None ELSE auditLogs[i]]
         /\ Done(NotHistory)

HistoryCalls ==
  \/ \E i \in Ids, c \in Contents : CreateExecution(i, c) \/ UpdateExecution(i, c)
  \/ ListExecutions \/ ListAuditLogs
  \/ \E log \in Line(Instants) : AppendExecutionLog(log)
  \/ \E i \in Ids : ListExecutionLogs(i)
  \/ \E i \in Ids, log \in Audit(Instants) : CreateAuditLog(i, log)
  \/ \E e, l, a \in Instants : ApplyRetention(e, l, a)

-----------------------------------------------------------------------------
SaveSettings(s) ==
  /\ call' = <<"SaveSettings", s>>
  /\ settings' = s
  /\ Done(<<accounts, hosts, plans, history>>)

GetSettings ==
  /\ call' = <<"GetSettings">>
  /\ Found(<<settings>>, <<accounts, hosts, plans, history, settings>>)

Pass ==
  /\ now' \in {t \in Instants : t >= now}
  /\ UNCHANGED <<accounts, hosts, plans, history, settings, call, answer>>

Next ==
  \/ UserCalls \/ ServerCalls \/ PlanCalls \/ HistoryCalls
  \/ (\E s \in Contents : SaveSettings(s)) \/ GetSettings
  \/ Pass

Spec == Init /\ [][Next]_vars

-----------------------------------------------------------------------------
(* An index and its map agree: a name leads to the row that has it, and a  *)
(* row is found by its name.  Each update of a name changes both, in more  *)
(* than one assignment.                                                    *)
IndexesMatch ==
  /\ \A n \in Names, i \in Ids :
       usersByName[n] = i <=> users[i] # None /\ users[i].name = n
  /\ \A n \in Names, i \in Ids :
       serverByName[n] = i <=> servers[i] # None /\ servers[i].name = n
=============================================================================
