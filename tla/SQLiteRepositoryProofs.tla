------------------------- MODULE SQLiteRepositoryProofs -------------------------
(***************************************************************************)
(* Proofs about SQLiteRepository, for any identifiers, names, contents,    *)
(* callers and times: every file opens, retention is by age, and every     *)
(* step is one of the memory driver, but for the listed differences.       *)
(*                                                                         *)
(* The invariant says what a caller that is between its two statements has *)
(* found, and how far that still holds when the second one comes: the row  *)
(* that is to be written was complete (UserPending), the identifier that   *)
(* was chosen is nobody's yet, or is the owner's (ServerPending), the time *)
(* of creation has not changed (PolicyPending).                            *)
(***************************************************************************)
EXTENDS SQLiteRepository, TLAPS

(* A table has rows under identifiers that were used.                      *)
Holds(table, Row, ids) ==
  /\ table \in [Ids -> Row \union {None}]
  /\ \A i \in Ids \ ids : table[i] = None

(* The constraint of a column that is UNIQUE.                              *)
UniqueNames(table) ==
  \A i, j \in Ids : table[i] # None /\ table[j] # None /\ table[i].name = table[j].name => i = j

TablesHold ==
  /\ Holds(users, User, used) /\ Holds(servers, Server, used)
  /\ Holds(policies, Policy(Instants), used) /\ Holds(schedules, Schedule(Instants), used)
  /\ Holds(executions, Execution(Instants), used) /\ Holds(audit_logs, Audit(Instants), used)
  /\ execution_logs \subseteq Line(Instants)
  /\ used \subseteq Ids

FileInv ==
  /\ system_settings \in Settings \union {None}
  /\ schema \in [tables : SUBSET Known, columns : SUBSET Late]
  /\ open \in {"closed", "open"}
  /\ open = "open" => schema = Current /\ system_settings # None

UserPending(q) ==
  LET wish == q.call[3]
  IN  /\ q.id \in used /\ q.row \in User /\ wish \in Update
      /\ q.call = <<"UpdateUser", q.id, wish>>
      /\ q.row = [wish EXCEPT !.hash = IF @ = None THEN q.row.hash ELSE @]

(* Without an identifier the owner is written, or a row of a new one.      *)
ServerPending(q) ==
  /\ q.id \in Ids /\ q.row \in Server /\ q.owner \in Ids \union {None}
  /\ \/ q.call = <<"UpsertServer", q.id, q.row>> /\ q.id \in used
     \/ /\ q.call = <<"UpsertServer", None, q.row>>
        /\ q.owner # None => q.id = q.owner /\ q.id \in used
        /\ q.owner = None => q.id \notin used

New(q) == q.call[2] = None /\ q.owner = None

PolicyPending(q) ==
  /\ q.id \in used /\ q.row \in Policy(Instants)
  /\ q.call = <<"UpdatePolicy", q.id, q.row.name, q.row.content>>
  /\ policies[q.id] # None => policies[q.id].created = q.row.created

PendingInv ==
  /\ pending \in [Callers -> Pending \union {None}]
  /\ \A p \in Callers : pending[p] # None =>
       /\ about = "users"    => UserPending(pending[p])
       /\ about = "servers"  => ServerPending(pending[p])
       /\ about = "policies" => PolicyPending(pending[p])
  /\ about = "servers" =>
       \A p, r \in Callers :
         p # r /\ pending[p] # None /\ pending[r] # None /\ New(pending[p]) =>
           pending[r].id # pending[p].id

IInv ==
  /\ TablesHold /\ UniqueNames(users) /\ UniqueNames(servers)
  /\ FileInv /\ PendingInv
  /\ about \in Kinds /\ clock \in 2 .. MaxClock

-----------------------------------------------------------------------------
(* Facts about tables.                                                     *)

LEMMA SetRow ==
  ASSUME NEW Row, NEW ids, NEW table, Holds(table, Row, ids),
         NEW i \in Ids, NEW r \in Row \union {None}, r # None => i \in ids
  PROVE  Holds([table EXCEPT ![i] = r], Row, ids)
BY DEF Holds

LEMMA MoreIds ==
  ASSUME NEW Row, NEW ids, NEW table, Holds(table, Row, ids), NEW more, ids \subseteq more
  PROVE  Holds(table, Row, more)
BY DEF Holds

(* The computed index of a column with a UNIQUE constraint.                *)
LEMMA IndexIs ==
  ASSUME NEW table, UniqueNames(table)
  PROVE  \A n \in Names :
           /\ Index(table)[n] \in Ids \union {None}
           /\ \A i \in Ids : Index(table)[n] = i <=> table[i] # None /\ table[i].name = n
<1> TAKE n \in Names
<1> DEFINE Is(i) == table[i] # None /\ table[i].name = n
<1>1. Index(table)[n] = IF \E i \in Ids : Is(i) THEN CHOOSE i \in Ids : Is(i) ELSE None
  BY DEF Index
<1>2. \A i, j \in Ids : Is(i) /\ Is(j) => i = j
  BY DEF UniqueNames
<1> HIDE DEF Is
<1>3. /\ Index(table)[n] \in Ids \union {None}
      /\ \A i \in Ids : Index(table)[n] = i <=> Is(i)
  <2>1. CASE \E i \in Ids : Is(i)
    <3>1. PICK j : j = CHOOSE i \in Ids : Is(i)
      OBVIOUS
    <3>2. j \in Ids /\ Is(j) /\ Index(table)[n] = j
      BY <1>1, <2>1, <3>1
    <3> QED BY <1>2, <3>2
  <2>2. CASE ~\E i \in Ids : Is(i)
    BY <1>1, <2>2, RowsAssumption
  <2> QED BY <2>1, <2>2
<1> QED BY <1>3 DEF Is

(* A function of names is the index if it says so of each.                 *)
LEMMA IndexOnly ==
  ASSUME NEW table, UniqueNames(table), NEW byName \in [Names -> Ids \union {None}],
         \A n \in Names, i \in Ids : byName[n] = i <=> table[i] # None /\ table[i].name = n
  PROVE  Index(table) = byName
<1>1. \A n \in Names : Index(table)[n] = byName[n]
  BY IndexIs
<1>2. Index(table) = [n \in Names |-> Index(table)[n]]
  BY DEF Index
<1> QED BY <1>1, <1>2

LEMMA UniqueIs ==
  ASSUME NEW Row, NEW ids, NEW table, Holds(table, Row, ids), UniqueNames(table),
         NEW i \in Ids, NEW n \in Names
  PROVE  Unique(table, i, n) <=> Index(table)[n] \in {None, i}
<1>1. DOMAIN table = Ids
  BY DEF Holds
<1>2. Unique(table, i, n) <=> \A j \in Ids \ {i} : table[j] # None => table[j].name # n
  BY <1>1 DEF Unique, Memory!Stored
<1>3. PICK o : o = Index(table)[n]
  OBVIOUS
<1>4. o \in Ids \union {None} /\ \A j \in Ids : o = j <=> table[j] # None /\ table[j].name = n
  BY <1>3, IndexIs
<1>5. o \in {None, i} => \A j \in Ids \ {i} : table[j] # None => table[j].name # n
  BY <1>4, RowsAssumption
<1>6. o \notin {None, i} => o \in Ids \ {i} /\ table[o] # None /\ table[o].name = n
  BY <1>4
<1> QED BY <1>2, <1>3, <1>5, <1>6

LEMMA PutRow ==
  ASSUME NEW Row, None \notin Row, \A r \in Row : r.name \in Names,
         NEW ids, NEW table, Holds(table, Row, ids), UniqueNames(table),
         NEW i \in Ids, NEW r \in Row, Index(table)[r.name] \in {None, i}
  PROVE  /\ UniqueNames([table EXCEPT ![i] = r])
         /\ Index([table EXCEPT ![i] = r]) =
              [n \in Names |-> IF n = r.name THEN i
                              ELSE IF table[i] # None /\ n = table[i].name THEN None
                              ELSE Index(table)[n]]
<1> DEFINE table2 == [table EXCEPT ![i] = r]
           byName == [n \in Names |-> IF n = r.name THEN i
                              ELSE IF table[i] # None /\ n = table[i].name THEN None
                              ELSE Index(table)[n]]
<1>1. table2[i] = r /\ \A j \in Ids \ {i} : table2[j] = table[j]
  BY DEF Holds
<1>2. \A n \in Names :
        /\ Index(table)[n] \in Ids \union {None}
        /\ \A j \in Ids : Index(table)[n] = j <=> table[j] # None /\ table[j].name = n
  BY IndexIs
<1>3. \A j \in Ids : table[j] # None => table[j].name \in Names
  BY DEF Holds
<1>4. UniqueNames(table2)
  <2> SUFFICES ASSUME NEW j \in Ids, NEW k \in Ids, table2[j] # None, table2[k] # None,
                      table2[j].name = table2[k].name
               PROVE  j = k
    BY DEF UniqueNames
  <2> QED BY <1>1, <1>2, <1>3, RowsAssumption DEF UniqueNames
<1>5. byName \in [Names -> Ids \union {None}]
  BY <1>2
<1>6. ASSUME NEW n \in Names, NEW j \in Ids
      PROVE  byName[n] = j <=> table2[j] # None /\ table2[j].name = n
  <2>1. CASE j = i
    BY <1>1, <1>2, <2>1, RowsAssumption
  <2>2. CASE j # i
    BY <1>1, <1>2, <2>2, RowsAssumption
  <2> QED BY <2>1, <2>2
<1> HIDE DEF byName, table2
<1>7. Index(table2) = byName
  BY <1>4, <1>5, <1>6, IndexOnly
<1> QED BY <1>4, <1>7 DEF byName, table2

LEMMA DropRow ==
  ASSUME NEW Row, None \notin Row, \A r \in Row : r.name \in Names,
         NEW ids, NEW table, Holds(table, Row, ids), UniqueNames(table),
         NEW i \in Ids, table[i] # None
  PROVE  /\ UniqueNames([table EXCEPT ![i] = None])
         /\ Index([table EXCEPT ![i] = None]) = [Index(table) EXCEPT ![table[i].name] = None]
<1> DEFINE table2 == [table EXCEPT ![i] = None]
           byName == [Index(table) EXCEPT ![table[i].name] = None]
<1>1. table2[i] = None /\ \A j \in Ids \ {i} : table2[j] = table[j]
  BY DEF Holds
<1>2. /\ \A n \in Names :
           /\ Index(table)[n] \in Ids \union {None}
           /\ \A j \in Ids : Index(table)[n] = j <=> table[j] # None /\ table[j].name = n
      /\ DOMAIN Index(table) = Names
  BY IndexIs DEF Index
<1>3. table[i].name \in Names
  BY DEF Holds
<1>4. UniqueNames(table2)
  BY <1>1 DEF UniqueNames
<1>5. /\ byName \in [Names -> Ids \union {None}]
      /\ \A n \in Names : byName[n] = IF n = table[i].name THEN None ELSE Index(table)[n]
  <2>1. Index(table) \in [Names -> Ids \union {None}]
    <3>1. Index(table) = [n \in Names |-> Index(table)[n]]
      BY DEF Index
    <3> QED BY <1>2, <3>1
  <2> QED BY <1>3, <2>1
<1> HIDE DEF byName, table2
<1>6. ASSUME NEW n \in Names, NEW j \in Ids
      PROVE  byName[n] = j <=> table2[j] # None /\ table2[j].name = n
  <2>1. CASE j = i
    BY <1>1, <1>2, <1>5, <2>1, RowsAssumption
  <2>2. CASE j # i
    BY <1>1, <1>2, <1>5, <2>2, RowsAssumption
  <2> QED BY <2>1, <2>2
<1>7. Index(table2) = byName
  BY <1>4, <1>5, <1>6, IndexOnly
<1> QED BY <1>4, <1>7 DEF byName, table2

LEMMA Rows ==
  /\ None \notin User /\ \A u \in User : u.name \in Names
  /\ None \notin Server /\ \A s \in Server : s.name \in Names
  /\ None \notin Ids
BY RowsAssumption DEF User, Server

-----------------------------------------------------------------------------
(* A file as it is found, and opening it.                                  *)

LEMMA InstantsAre ==
  /\ \A t \in 2 .. MaxClock : Millis(t) \in Instants
  /\ Instants \subseteq Nat /\ 1 \in Instants
<1>1. Millis(2) = 1 /\ 2 \in 2 .. MaxClock
  BY ClockAssumption DEF Millis
<1>2. \A t \in 2 .. MaxClock : Millis(t) \in Nat
  BY ClockAssumption DEF Millis
<1> QED BY <1>1, <1>2 DEF Instants

LEMMA FirstRow ==
  ASSUME NEW Row, NEW First, First \subseteq Row, NEW kind, NEW table, table \in Holding(kind, First)
  PROVE  table \in [Ids -> Row \union {None}] /\ UniqueNames(table)
<1>1. CASE table = [i \in Ids |-> None]
  BY <1>1 DEF UniqueNames
<1>2. ASSUME NEW j \in Ids, NEW row \in First, table = [i \in Ids |-> IF i = j THEN row ELSE None]
      PROVE  table \in [Ids -> Row \union {None}] /\ UniqueNames(table)
  <2>1. table \in [Ids -> Row \union {None}]
    BY <1>2
  <2>2. \A i \in Ids : table[i] # None => i = j
    BY <1>2
  <2> QED BY <2>1, <2>2 DEF UniqueNames
<1> QED BY <1>1, <1>2 DEF Holding

LEMMA SettingsAre ==
  /\ \A c \in Contents \union {None}, b \in BOOLEAN : [says |-> c, saved |-> b] \in Settings
  /\ Fresh \in Settings /\ ~Fresh.saved /\ None \notin Settings
<1>1. \A c \in Contents \union {None}, b \in BOOLEAN : [says |-> c, saved |-> b] \in Settings
  BY DEF Settings
<1> QED BY <1>1, NoneIsNoRow DEF Fresh

LEMMA InitInv == Init => IInv
<1> SUFFICES ASSUME Init PROVE IInv
  OBVIOUS
<1>1. /\ users \in Holding("users", User) /\ servers \in Holding("servers", Server)
      /\ policies \in Holding("policies", Policy({1}))
      /\ schedules \in Holding("schedules", Schedule({1}))
      /\ executions \in Holding("executions", Execution({1}))
  BY DEF Init
<1>2. /\ about \in Kinds /\ clock = 2 /\ open = "closed" /\ pending = [p \in Callers |-> None]
      /\ execution_logs = {} /\ audit_logs = [i \in Ids |-> None]
      /\ used = UNION {Memory!Stored(t) : t \in {users, servers, policies, schedules, executions}}
  BY DEF Init
<1>3. /\ Policy({1}) \subseteq Policy(Instants) /\ Schedule({1}) \subseteq Schedule(Instants)
      /\ Execution({1}) \subseteq Execution(Instants)
  BY InstantsAre DEF Policy, Schedule, Execution
<1>4. /\ users \in [Ids -> User \union {None}] /\ UniqueNames(users)
      /\ servers \in [Ids -> Server \union {None}] /\ UniqueNames(servers)
  BY <1>1, FirstRow
<1>5. /\ policies \in [Ids -> Policy(Instants) \union {None}]
      /\ schedules \in [Ids -> Schedule(Instants) \union {None}]
      /\ executions \in [Ids -> Execution(Instants) \union {None}]
  BY <1>1, <1>3, FirstRow
<1>6. \A table \in {users, servers, policies, schedules, executions} :
        Memory!Stored(table) \subseteq used
  BY <1>2
<1>7. used \subseteq Ids
  <2>1. \A table \in {users, servers, policies, schedules, executions} :
          Memory!Stored(table) \subseteq Ids
    BY <1>4, <1>5 DEF Memory!Stored
  <2> QED BY <1>2, <2>1
<1>8. TablesHold
  BY <1>2, <1>4, <1>5, <1>6, <1>7 DEF TablesHold, Holds, Memory!Stored
<1>9. FileInv
  <2>1. [says : Contents, saved : {TRUE}] \subseteq Settings
    BY DEF Settings
  <2> QED BY <1>2, <2>1, SettingsAre DEF Init, FileInv
<1>10. PendingInv
  BY <1>2 DEF PendingInv
<1> QED BY <1>2, <1>4, <1>8, <1>9, <1>10, ClockAssumption DEF IInv

(* The rows that a caller can see.                                         *)
LEMMA RowsStay ==
  ASSUME UNCHANGED <<users, servers, policies, schedules, executions, logs>>, Saved' = Saved
  PROVE  /\ UNCHANGED <<Memory!accounts, Memory!hosts, Memory!plans, Memory!history>>
         /\ UNCHANGED <<Memory!NotUsers, Memory!NotServers, Memory!NotPlans, Memory!NotHistory>>
BY DEF Memory!accounts, Memory!hosts, Memory!plans, Memory!history, Memory!NotUsers,
       Memory!NotServers, Memory!NotPlans, Memory!NotHistory, logs, Index, Of

(* Opening and closing change nothing that the memory driver has.          *)
LEMMA FileKept ==
  ASSUME IInv, Migrate \/ Restart
  PROVE  IInv' /\ UNCHANGED Memory!vars
<1>0. TablesHold /\ FileInv /\ PendingInv
  BY DEF IInv
<1>1. CASE Migrate
  <2>1. \A t \in Duplicates : isIgnorableMigrationErr(t)
    BY <1>0 DEF FileInv, Duplicates, Made, isIgnorableMigrationErr
  <2>2. /\ open' = "open"
        /\ schema' = [tables  |-> schema.tables \union Made,
                      columns |-> schema.columns \union Late]
        /\ system_settings' = IF system_settings = None THEN Fresh ELSE system_settings
        /\ UNCHANGED <<users, servers, policies, schedules, executions, logs,
                       pending, call, answer, clock, used, about>>
    BY <1>1, <2>1 DEF Migrate
  <2>3. schema' = Current
    BY <1>0, <2>2 DEF FileInv, Made, Current
  <2>4. Fresh \in Settings /\ Fresh # None /\ ~Fresh.saved
    BY SettingsAre
  <2>5. FileInv'
    BY <1>0, <2>2, <2>3, <2>4 DEF FileInv, Current, Known, Late
  <2>6. Saved' = Saved
    BY <1>0, <2>2, <2>4 DEF Saved, FileInv
  <2>7. IInv'
    BY <2>2, <2>5 DEF IInv, TablesHold, PendingInv, PolicyPending, UserPending, ServerPending, logs
  <2>8. UNCHANGED Memory!vars
    BY <2>2, <2>6, RowsStay DEF Memory!vars, Now
  <2> QED BY <2>7, <2>8
<1>2. CASE Restart
  <2>1. /\ open' = "closed" /\ pending' = [p \in Callers |-> None]
        /\ UNCHANGED <<users, servers, policies, schedules, executions, logs, system_settings,
                       schema, call, answer, clock, used, about>>
    BY <1>2 DEF Restart, tables
  <2>2. FileInv' /\ PendingInv'
    BY <1>0, <2>1 DEF FileInv, PendingInv
  <2>3. IInv'
    BY <2>1, <2>2 DEF IInv, TablesHold, logs, UniqueNames
  <2>4. Saved' = Saved
    BY <2>1 DEF Saved
  <2>5. UNCHANGED Memory!vars
    BY <2>1, <2>4, RowsStay DEF Memory!vars, Now
  <2> QED BY <2>3, <2>5
<1> QED BY <1>1, <1>2

-----------------------------------------------------------------------------
(* Users.                                                                  *)

Step == Memory!Next \/ Differs \/ UNCHANGED Memory!vars

(* The instance has the operators of Store under names of their own.       *)
LEMMA SameRows ==
  /\ Memory!User = User /\ Memory!Server = Server
  /\ \A times : Memory!Audit(times) = Audit(times) /\ Memory!Line(times) = Line(times)
  /\ \A log : Memory!Plain(log) = Plain(log)
BY DEF Memory!User, User, Memory!Server, Server, Memory!Audit, Audit, Memory!Line, Line,
       Memory!Plain, Plain

LEMMA UserFrame ==
  ASSUME IInv, UNCHANGED <<NotUsers, process>>
  PROVE  UNCHANGED Memory!NotUsers /\ Now' = Now /\ (users' = users => UNCHANGED Memory!accounts)
BY DEF NotUsers, process, Memory!NotUsers, Memory!hosts, Memory!plans, Memory!history,
       Memory!accounts, Index, Of, Saved, Now, logs

LEMMA UsersKeep ==
  ASSUME IInv, UNCHANGED <<NotUsers, process>>, PendingInv',
         Holds(users', User, used'), UniqueNames(users'), used \subseteq used', used' \subseteq Ids
  PROVE  IInv'
<1>1. /\ TablesHold /\ UniqueNames(servers) /\ FileInv /\ about \in Kinds /\ clock \in 2 .. MaxClock
      /\ UNCHANGED <<servers, policies, schedules, executions, execution_logs, audit_logs,
                     system_settings, schema, open, clock, about>>
  BY DEF IInv, NotUsers, process, logs
<1>2. TablesHold'
  BY <1>1, MoreIds DEF TablesHold
<1>3. FileInv' /\ UniqueNames(servers)'
  BY <1>1 DEF FileInv, UniqueNames
<1> QED BY <1>1, <1>2, <1>3 DEF IInv

LEMMA PendingKept ==
  ASSUME IInv, UNCHANGED <<pending, about, policies>>, used \subseteq used',
         about = "servers" => used' = used
  PROVE  PendingInv'
BY DEF IInv, PendingInv, UserPending, ServerPending, PolicyPending

LEMMA UsersRead ==
  ASSUME IInv, Serving("users"), UNCHANGED <<tables, pending, used, process>>
  PROVE  IInv' /\ UNCHANGED <<Memory!accounts, Memory!NotUsers>> /\ Now' = Now
<1>1. /\ UNCHANGED <<NotUsers, process>> /\ users' = users /\ used' = used
      /\ UNCHANGED <<pending, about, policies>>
  BY DEF tables, NotUsers, process
<1>2. Holds(users, User, used) /\ UniqueNames(users) /\ used \subseteq Ids
  BY DEF IInv, TablesHold
<1> QED BY <1>1, <1>2, UserFrame, UsersKeep, PendingKept

(* One statement that changes a row, or finds none.                        *)
LEMMA UserAffected ==
  ASSUME IInv, Serving("users"), NEW i \in used, NEW u, NEW what,
         users[i] # None => u \in User /\ u.name = users[i].name,
         Affects(users, i, u, what), UNCHANGED <<NotUsers, pending, used>>
  PROVE  /\ IInv' /\ call' = what
         /\ \/ users[i] = None /\ Memory!ErrNotFound(<<Memory!accounts, Memory!NotUsers>>)
            \/ /\ users[i] # None /\ users' = [users EXCEPT ![i] = u]
               /\ Memory!Done(<<Index(users), Memory!NotUsers>>)
<1>0. /\ Holds(users, User, used) /\ UniqueNames(users) /\ used \subseteq Ids
      /\ call' = what /\ UNCHANGED process
  BY DEF IInv, TablesHold, Affects, Reply
<1>1. PendingInv'
  BY <1>0, PendingKept DEF NotUsers, process
<1>2. CASE users[i] = None
  <2>1. users' = users /\ answer' = [err |-> "not found", value |-> <<>>, turn |-> 1 - answer.turn]
    BY <1>2 DEF Affects, Reply
  <2>2. IInv'
    BY <1>0, <1>1, <2>1, UsersKeep
  <2>3. Memory!ErrNotFound(<<Memory!accounts, Memory!NotUsers>>)
    BY <1>0, <2>1, UserFrame DEF Memory!ErrNotFound, Memory!Reply
  <2> QED BY <1>0, <1>2, <2>2, <2>3
<1>3. CASE users[i] # None
  <2>1. /\ users' = [users EXCEPT ![i] = u]
        /\ answer' = [err |-> "nil", value |-> <<>>, turn |-> 1 - answer.turn]
    BY <1>3 DEF Affects, Reply
  <2>2. i \in Ids /\ u \in User /\ u.name = users[i].name /\ u.name \in Names
        /\ Index(users)[u.name] = i
    BY <1>0, <1>3, Rows, IndexIs
  <2>3. /\ UniqueNames(users')
        /\ Index(users') = [n \in Names |-> IF n = u.name THEN i
                              ELSE IF users[i] # None /\ n = users[i].name THEN None
                              ELSE Index(users)[n]]
    <3>1. Index(users)[u.name] \in {None, i}
      BY <2>2
    <3>2. /\ UniqueNames([users EXCEPT ![i] = u])
          /\ Index([users EXCEPT ![i] = u]) =
               [n \in Names |-> IF n = u.name THEN i
                               ELSE IF users[i] # None /\ n = users[i].name THEN None
                               ELSE Index(users)[n]]
      BY <1>0, <2>2, <3>1, Rows, PutRow
    <3> QED BY <2>1, <3>2
  <2>4. Index(users)' = Index(users)
    <3>1. Index(users') = [n \in Names |-> Index(users)[n]]
      BY <2>2, <2>3
    <3>2. Index(users) = [n \in Names |-> Index(users)[n]]
      BY DEF Index
    <3>3. Index(users)' = Index(users')
      BY DEF Index
    <3> QED BY <3>1, <3>2, <3>3
  <2>5. Holds(users', User, used)
    BY <1>0, <2>1, <2>2, SetRow
  <2>6. IInv'
    BY <1>0, <1>1, <2>3, <2>5, UsersKeep
  <2>7. Memory!Done(<<Index(users), Memory!NotUsers>>)
    BY <1>0, <2>1, <2>4, UserFrame DEF Memory!Done, Memory!Reply
  <2> QED BY <1>0, <1>3, <2>1, <2>6, <2>7
<1> QED BY <1>2, <1>3

LEMMA CreateUserStep ==
  ASSUME IInv, NEW i \in Ids, NEW u \in User, CreateUser(i, u)
  PROVE  IInv' /\ Step
<1>0. /\ Holds(users, User, used) /\ UniqueNames(users) /\ used \subseteq Ids
      /\ about = "users" /\ i \notin used /\ users[i] = None /\ u.name \in Names
      /\ Index(users)[u.name] # i
      /\ call' = <<"CreateUser", i, u>> /\ UNCHANGED <<NotUsers, process, pending, about, policies>>
  <2>1. /\ Holds(users, User, used) /\ UniqueNames(users) /\ used \subseteq Ids /\ i \notin used
    BY DEF IInv, TablesHold, CreateUser
  <2>2. users[i] = None /\ u.name \in Names /\ Index(users)[u.name] # i
    BY <2>1, Rows, IndexIs DEF Holds
  <2> QED BY <2>1, <2>2 DEF CreateUser, Inserts, Reply, Serving, NotUsers, process
<1>1. CASE Unique(users, i, u.name)
  <2>1. /\ users' = [users EXCEPT ![i] = u] /\ used' = used \union {i}
        /\ answer' = [err |-> "nil", value |-> <<i>>, turn |-> 1 - answer.turn]
    BY <1>1 DEF CreateUser, Inserts, Reply
  <2>2. Index(users)[u.name] = None
    BY <1>0, <1>1, UniqueIs
  <2>3. /\ UniqueNames([users EXCEPT ![i] = u])
        /\ Index([users EXCEPT ![i] = u]) =
             [n \in Names |-> IF n = u.name THEN i
                             ELSE IF users[i] # None /\ n = users[i].name THEN None
                             ELSE Index(users)[n]]
    BY <1>0, <2>2, Rows, PutRow
  <2>4. Index(users)' = [Index(users) EXCEPT ![u.name] = i]
    <3>1. Index(users)' = Index([users EXCEPT ![i] = u])
      BY <2>1 DEF Index
    <3>2. Index(users) = [n \in Names |-> Index(users)[n]]
      BY DEF Index
    <3> QED BY <1>0, <2>3, <3>1, <3>2
  <2>5. Holds(users', User, used') /\ used' \subseteq Ids
    BY <1>0, <2>1, MoreIds, SetRow
  <2>6. IInv'
    <3>1. PendingInv'
      BY <1>0, <2>1, PendingKept
    <3> QED BY <1>0, <2>1, <2>3, <2>5, <3>1, UsersKeep
  <2>7. Memory!CreateUser(i, u)
    BY <1>0, <2>1, <2>2, <2>4, UserFrame DEF Memory!CreateUser, Memory!Found, Memory!Reply
  <2> QED BY <2>6, <2>7, SameRows DEF Step, Memory!Next, Memory!UserCalls
<1>2. CASE ~Unique(users, i, u.name)
  <2>1. /\ UNCHANGED <<users, used>>
        /\ answer' = [err |-> "already exists", value |-> <<>>, turn |-> 1 - answer.turn]
    BY <1>2 DEF CreateUser, Inserts, Reply
  <2>2. Index(users)[u.name] # None
    BY <1>0, <1>2, UniqueIs
  <2>3. IInv'
    BY <1>0, <2>1, PendingKept, UsersKeep
  <2>4. Memory!CreateUser(i, u)
    BY <1>0, <2>1, <2>2, UserFrame DEF Memory!CreateUser, Memory!ErrAlreadyExists, Memory!Reply
  <2> QED BY <2>3, <2>4, SameRows DEF Step, Memory!Next, Memory!UserCalls
<1> QED BY <1>1, <1>2

(* The first statement of UpdateUser completes the row.                    *)
LEMMA ReadUserStep ==
  ASSUME IInv, NEW p \in Callers, NEW i \in Ids, NEW u \in Update, ReadUser(p, i, u)
  PROVE  IInv' /\ Step
<1>0. /\ Holds(users, User, used) /\ UniqueNames(users) /\ used \subseteq Ids
      /\ about = "users" /\ i \in used /\ pending[p] = None /\ PendingInv
      /\ UNCHANGED <<tables, used, process>> /\ UNCHANGED <<NotUsers, about, users, policies>>
  BY DEF IInv, TablesHold, ReadUser, Reply, Serving, tables, NotUsers, process
<1>1. CASE users[i] = None
  <2>1. /\ call' = <<"UpdateUser", i, u>> /\ pending' = pending
        /\ answer' = [err |-> "not found", value |-> <<>>, turn |-> 1 - answer.turn]
    BY <1>1 DEF ReadUser, Reply
  <2>2. IInv' /\ UNCHANGED <<Memory!accounts, Memory!NotUsers>> /\ Now' = Now
    BY <1>0, <2>1, UsersRead DEF ReadUser
  <2>3. Memory!UpdateUser(i, u)
    BY <1>0, <1>1, <2>1, <2>2 DEF Memory!UpdateUser, Memory!ErrNotFound, Memory!Reply
  <2>4. Memory!UserCalls
    <3>1. \E n \in Names, h \in Hashes \union {None}, c \in Contents :
            u = [name |-> n, hash |-> h, content |-> c]
      BY DEF Update
    <3> QED BY <2>3, <3>1 DEF Memory!UserCalls
  <2> QED BY <2>2, <2>4 DEF Step, Memory!Next
<1>2. CASE users[i] # None
  <2>1. PICK row : row = [u EXCEPT !.hash = IF @ = None THEN users[i].hash ELSE @]
    OBVIOUS
  <2>2. PICK q : q = [id |-> i, row |-> row, call |-> <<"UpdateUser", i, u>>]
    OBVIOUS
  <2>3. pending' = [pending EXCEPT ![p] = q] /\ UNCHANGED <<call, answer>>
    BY <1>2, <2>1, <2>2 DEF ReadUser
  <2>4. row \in User /\ row = [u EXCEPT !.hash = IF @ = None THEN row.hash ELSE @]
    <3>1. users[i].hash \in Hashes
      BY <1>0, <1>2 DEF Holds, User
    <3> QED BY <2>1, <3>1, RowsAssumption DEF User, Update
  <2>5. q \in Pending /\ UserPending(q) /\ q.call = <<"UpdateUser", i, u>>
    BY <1>0, <2>2, <2>4 DEF Pending, UserPending
  <2>6. PendingInv'
    <3>1. /\ pending' \in [Callers -> Pending \union {None}] /\ pending'[p] = q
          /\ \A r \in Callers \ {p} : pending'[r] = pending[r]
      BY <1>0, <2>3, <2>5 DEF PendingInv
    <3>2. ASSUME NEW r \in Callers, pending'[r] # None PROVE UserPending(pending[r])'
      BY <1>0, <2>5, <3>1, <3>2 DEF PendingInv, UserPending
    <3> QED BY <1>0, <3>1, <3>2 DEF PendingInv
  <2>7. IInv'
    BY <1>0, <2>6, UsersKeep
  <2>8. UNCHANGED Memory!vars
    BY <1>0, <2>3, RowsStay DEF Memory!vars, tables, Saved, Now, process
  <2> QED BY <2>7, <2>8 DEF Step
<1> QED BY <1>1, <1>2

(* The second writes it, if the row is still there.                        *)
LEMMA WriteUserStep ==
  ASSUME IInv, NEW p \in Callers, WriteUser(p)
  PROVE  IInv' /\ Step
<1>1. PICK q, i, u : q = pending[p] /\ i = q.id /\ u = q.call[3]
  OBVIOUS
<1>2. /\ Holds(users, User, used) /\ UniqueNames(users) /\ used \subseteq Ids /\ PendingInv
      /\ about = "users" /\ q # None /\ pending' = [pending EXCEPT ![p] = None]
      /\ UNCHANGED <<NotUsers, used, process, about, policies>>
      /\ Updates(users, i, q.row, q.call)
  BY <1>1 DEF IInv, TablesHold, WriteUser, Updates, Affects, Reply, Serving, NotUsers, process
<1>3. UserPending(q)
  BY <1>1, <1>2 DEF PendingInv
<1>4. /\ i \in Ids /\ i \in used /\ u \in Update /\ q.row \in User /\ q.row.name = u.name
      /\ q.call = <<"UpdateUser", i, u>> /\ u.name \in Names
      /\ q.row = [u EXCEPT !.hash = IF @ = None THEN q.row.hash ELSE @]
  <2>1. /\ i \in Ids /\ i \in used /\ u \in Update /\ q.row \in User
        /\ q.call = <<"UpdateUser", i, u>>
        /\ q.row = [u EXCEPT !.hash = IF @ = None THEN q.row.hash ELSE @]
    BY <1>1, <1>2, <1>3 DEF UserPending
  <2>2. q.row.name = u.name
    BY <2>1 DEF Update
  <2> QED BY <2>1, <2>2, Rows
<1>5. PendingInv'
  <2>1. /\ pending' \in [Callers -> Pending \union {None}] /\ pending'[p] = None
        /\ \A r \in Callers \ {p} : pending'[r] = pending[r]
    BY <1>2 DEF PendingInv
  <2> QED BY <1>2, <2>1 DEF PendingInv, UserPending
<1>6. Memory!UpdateUser(i, u) => Step
  <2>1. \E n \in Names, h \in Hashes \union {None}, c \in Contents :
          u = [name |-> n, hash |-> h, content |-> c]
    BY <1>4 DEF Update
  <2> QED BY <1>4, <2>1 DEF Memory!UserCalls, Step, Memory!Next
<1>7. Unique(users, i, u.name) <=> Index(users)[u.name] \in {None, i}
  BY <1>2, <1>4, UniqueIs
<1>8. CASE users[i] # None /\ ~Unique(users, i, u.name)
  <2>1. /\ users' = users /\ call' = <<"UpdateUser", i, u>>
        /\ answer' = [err |-> "already exists", value |-> <<>>, turn |-> 1 - answer.turn]
    BY <1>2, <1>4, <1>8 DEF Updates, Reply
  <2>2. IInv'
    BY <1>2, <1>5, <2>1, UsersKeep
  <2>3. Memory!UpdateUser(i, u)
    BY <1>2, <1>7, <1>8, <2>1, UserFrame
       DEF Memory!UpdateUser, Memory!ErrAlreadyExists, Memory!Reply
  <2> QED BY <1>6, <2>2, <2>3
<1>9. CASE users[i] = None
  <2>1. /\ users' = users /\ call' = <<"UpdateUser", i, u>>
        /\ answer' = [err |-> "not found", value |-> <<>>, turn |-> 1 - answer.turn]
    BY <1>2, <1>4, <1>9 DEF Updates, Affects, Reply
  <2>2. IInv'
    BY <1>2, <1>5, <2>1, UsersKeep
  <2>3. Memory!UpdateUser(i, u)
    BY <1>2, <1>9, <2>1, UserFrame DEF Memory!UpdateUser, Memory!ErrNotFound, Memory!Reply
  <2> QED BY <1>6, <2>2, <2>3
<1>10. CASE users[i] # None /\ Unique(users, i, u.name)
  <2>1. /\ users' = [users EXCEPT ![i] = q.row] /\ call' = <<"UpdateUser", i, u>>
        /\ answer' = [err |-> "nil", value |-> <<>>, turn |-> 1 - answer.turn]
    BY <1>2, <1>4, <1>10 DEF Updates, Affects, Reply
  <2>2. /\ UniqueNames([users EXCEPT ![i] = q.row])
        /\ Index([users EXCEPT ![i] = q.row]) =
             [n \in Names |-> IF n = u.name THEN i
                             ELSE IF users[i] # None /\ n = users[i].name THEN None
                             ELSE Index(users)[n]]
    BY <1>2, <1>4, <1>7, <1>10, Rows, PutRow
  <2>3. Index(users)' = [Index(users) EXCEPT ![users[i].name] = None, ![u.name] = i]
    <3>1. Index(users)' = Index([users EXCEPT ![i] = q.row])
      BY <2>1 DEF Index
    <3>2. Index(users) = [n \in Names |-> Index(users)[n]] /\ users[i].name \in Names
      BY <1>2, <1>4, <1>10, Rows DEF Index, Holds
    <3> QED BY <1>4, <1>10, <2>2, <3>1, <3>2
  <2>4. IInv'
    <3>1. Holds(users', User, used)
      BY <1>2, <1>4, <2>1, SetRow
    <3> QED BY <1>2, <1>5, <2>1, <2>2, <3>1, UsersKeep
  <2>5. CASE HashIsStale(p)
    <3>1. pending'[p] = None
      BY <1>2 DEF PendingInv
    <3> QED BY <1>2, <2>4, <2>5, <3>1 DEF Step, Differs
  <2>6. CASE ~HashIsStale(p)
    <3>1. u.hash = None => q.row.hash = users[i].hash
      BY <1>1, <1>2, <1>10, <2>6 DEF HashIsStale
    <3>2. q.row = [u EXCEPT !.hash = IF @ = None THEN users[i].hash ELSE @]
      BY <1>4, <3>1
    <3>3. Memory!UpdateUser(i, u)
      BY <1>2, <1>7, <1>10, <2>1, <2>3, <3>2, UserFrame
         DEF Memory!UpdateUser, Memory!Done, Memory!Reply
    <3> QED BY <1>6, <2>4, <3>3
  <2> QED BY <2>5, <2>6
<1> QED BY <1>8, <1>9, <1>10

LEMMA DeleteUserStep ==
  ASSUME IInv, NEW i \in Ids, DeleteUser(i)
  PROVE  IInv' /\ Step
<1>0. /\ Holds(users, User, used) /\ UniqueNames(users) /\ used \subseteq Ids
      /\ about = "users" /\ call' = <<"DeleteUser", i>> /\ i \in used
      /\ UNCHANGED <<NotUsers, process, pending, about, policies, used>>
  BY DEF IInv, TablesHold, DeleteUser, Affects, Reply, Serving, NotUsers, process
<1>1. PendingInv'
  BY <1>0, PendingKept
<1>2. CASE users[i] = None
  <2>1. users' = users /\ answer' = [err |-> "not found", value |-> <<>>, turn |-> 1 - answer.turn]
    BY <1>2 DEF DeleteUser, Affects, Reply
  <2>2. IInv'
    BY <1>0, <1>1, <2>1, UsersKeep
  <2>3. Memory!DeleteUser(i)
    BY <1>0, <1>2, <2>1, UserFrame DEF Memory!DeleteUser, Memory!ErrNotFound, Memory!Reply
  <2> QED BY <2>2, <2>3 DEF Step, Memory!Next, Memory!UserCalls
<1>3. CASE users[i] # None
  <2>1. /\ users' = [users EXCEPT ![i] = None]
        /\ answer' = [err |-> "nil", value |-> <<>>, turn |-> 1 - answer.turn]
    BY <1>3 DEF DeleteUser, Affects, Reply
  <2>2. /\ UniqueNames([users EXCEPT ![i] = None])
        /\ Index([users EXCEPT ![i] = None]) = [Index(users) EXCEPT ![users[i].name] = None]
    BY <1>0, <1>3, Rows, DropRow
  <2>3. Index(users)' = [Index(users) EXCEPT ![users[i].name] = None]
    BY <2>1, <2>2 DEF Index
  <2>4. Holds(users', User, used)
    BY <1>0, <2>1, SetRow
  <2>5. IInv'
    BY <1>0, <1>1, <2>1, <2>2, <2>4, UsersKeep
  <2>6. Memory!DeleteUser(i)
    BY <1>0, <1>3, <2>1, <2>3, UserFrame DEF Memory!DeleteUser, Memory!Done, Memory!Reply
  <2> QED BY <2>5, <2>6 DEF Step, Memory!Next, Memory!UserCalls
<1> QED BY <1>2, <1>3

LEMMA UsersStep ==
  ASSUME IInv, UserCalls
  PROVE  IInv' /\ Step
<1>0. /\ Holds(users, User, used) /\ UniqueNames(users)
  BY DEF IInv, TablesHold
<1>1. ASSUME NEW i \in Ids, NEW h \in Hashes, UpdateUserPassword(i, h) PROVE IInv' /\ Step
  <2>1. PICK u : u = [users[i] EXCEPT !.hash = h]
    OBVIOUS
  <2>2. /\ Serving("users") /\ i \in used /\ UNCHANGED <<NotUsers, pending, used>>
        /\ Affects(users, i, u, <<"UpdateUserPassword", i, h>>)
    BY <1>1, <2>1 DEF UpdateUserPassword
  <2>3. users[i] # None => u \in User /\ u.name = users[i].name
    BY <1>0, <2>1 DEF Holds, User
  <2>4. /\ IInv' /\ call' = <<"UpdateUserPassword", i, h>>
        /\ \/ users[i] = None /\ Memory!ErrNotFound(<<Memory!accounts, Memory!NotUsers>>)
           \/ /\ users[i] # None /\ users' = [users EXCEPT ![i] = u]
              /\ Memory!Done(<<Index(users), Memory!NotUsers>>)
    BY <2>2, <2>3, UserAffected
  <2>5. Memory!UpdateUserPassword(i, h)
    BY <2>1, <2>4 DEF Memory!UpdateUserPassword, Memory!SetInUser
  <2> QED BY <2>4, <2>5 DEF Step, Memory!Next, Memory!UserCalls
<1>2. ASSUME NEW i \in Ids, NEW c \in Contents, UpdateUserContent(i, c) PROVE IInv' /\ Step
  <2>1. PICK u : u = [users[i] EXCEPT !.content = c]
    OBVIOUS
  <2>2. /\ Serving("users") /\ i \in used /\ UNCHANGED <<NotUsers, pending, used>>
        /\ Affects(users, i, u, <<"UpdateUserContent", i, c>>)
    BY <1>2, <2>1 DEF UpdateUserContent
  <2>3. users[i] # None => u \in User /\ u.name = users[i].name
    BY <1>0, <2>1 DEF Holds, User
  <2>4. /\ IInv' /\ call' = <<"UpdateUserContent", i, c>>
        /\ \/ users[i] = None /\ Memory!ErrNotFound(<<Memory!accounts, Memory!NotUsers>>)
           \/ /\ users[i] # None /\ users' = [users EXCEPT ![i] = u]
              /\ Memory!Done(<<Index(users), Memory!NotUsers>>)
    BY <2>2, <2>3, UserAffected
  <2>5. Memory!UpdateUserContent(i, c)
    BY <2>1, <2>4 DEF Memory!UpdateUserContent, Memory!SetInUser
  <2> QED BY <2>4, <2>5 DEF Step, Memory!Next, Memory!UserCalls
<1>3. ASSUME NEW n \in Names, GetUserByUsername(n) PROVE IInv' /\ Step
  <2>1. PICK o : o = Index(users)[n]
    OBVIOUS
  <2>2. o \in Ids \union {None} /\ \A i \in Ids : o = i <=> users[i] # None /\ users[i].name = n
    BY <1>0, <2>1, IndexIs
  <2>3. {i \in Memory!Stored(users) : users[i].name = n} = {i \in Ids : o = i}
    BY <1>0, <2>2 DEF Memory!Stored, Holds
  <2>4. /\ Serving("users") /\ UNCHANGED <<tables, pending, used, process>>
        /\ call' = <<"GetUserByUsername", n>>
        /\ \/ /\ o = None
              /\ answer' = [err |-> "not found", value |-> <<>>, turn |-> 1 - answer.turn]
           \/ /\ o \in Ids
              /\ answer' = [err |-> "nil", value |-> <<users[o]>>, turn |-> 1 - answer.turn]
    BY <1>3, <2>2, <2>3 DEF GetUserByUsername, Queries, Reply
  <2>5. IInv' /\ UNCHANGED <<Memory!accounts, Memory!NotUsers>> /\ Now' = Now
    BY <2>4, UsersRead
  <2>6. Memory!GetUserByUsername(n)
    BY <2>1, <2>2, <2>4, <2>5, Rows
       DEF Memory!GetUserByUsername, Memory!ErrNotFound, Memory!Found, Memory!Reply
  <2> QED BY <2>5, <2>6 DEF Step, Memory!Next, Memory!UserCalls
<1>4. ASSUME ListUsers PROVE IInv' /\ Step
  <2>1. /\ Serving("users") /\ UNCHANGED <<tables, pending, used, process>>
        /\ call' = <<"ListUsers">>
    BY <1>4 DEF ListUsers, Queries, Reply
  <2>2. IInv' /\ UNCHANGED <<Memory!accounts, Memory!NotUsers>> /\ Now' = Now
    BY <2>1, UsersRead
  <2>3. Memory!ListUsers
    BY <1>4, <2>1, <2>2
       DEF ListUsers, Queries, Reply, Memory!ListUsers, Memory!Found, Memory!Reply, Memory!Listings
  <2> QED BY <2>2, <2>3 DEF Step, Memory!Next, Memory!UserCalls
<1>5. ASSUME NEW p \in Callers, NEW i \in Ids, NEW n \in Names, NEW h \in Hashes \union {None},
             NEW c \in Contents, ReadUser(p, i, [name |-> n, hash |-> h, content |-> c])
      PROVE  IInv' /\ Step
  <2>1. [name |-> n, hash |-> h, content |-> c] \in Update
    BY DEF Update
  <2> QED BY <1>5, <2>1, ReadUserStep
<1> QED BY <1>1, <1>2, <1>3, <1>4, <1>5, CreateUserStep, WriteUserStep, DeleteUserStep DEF UserCalls

-----------------------------------------------------------------------------
(* Servers.                                                                *)

LEMMA ServerFrame ==
  ASSUME IInv, UNCHANGED <<NotServers, process>>
  PROVE  UNCHANGED Memory!NotServers /\ Now' = Now /\ (servers' = servers => UNCHANGED Memory!hosts)
BY DEF NotServers, process, Memory!NotServers, Memory!accounts, Memory!plans, Memory!history,
       Memory!hosts, Index, Of, Saved, Now, logs

LEMMA ServersKeep ==
  ASSUME IInv, UNCHANGED <<NotServers, process>>, PendingInv',
         Holds(servers', Server, used'), UniqueNames(servers'),
         used \subseteq used', used' \subseteq Ids
  PROVE  IInv'
<1>1. /\ TablesHold /\ UniqueNames(users) /\ FileInv /\ about \in Kinds /\ clock \in 2 .. MaxClock
      /\ UNCHANGED <<users, policies, schedules, executions, execution_logs, audit_logs,
                     system_settings, schema, open, clock, about>>
  BY DEF IInv, NotServers, process, logs
<1>2. TablesHold'
  BY <1>1, MoreIds DEF TablesHold
<1>3. FileInv' /\ UniqueNames(users)'
  BY <1>1 DEF FileInv, UniqueNames
<1> QED BY <1>1, <1>2, <1>3 DEF IInv

LEMMA ServersRead ==
  ASSUME IInv, UNCHANGED <<tables, pending, used, process>>
  PROVE  IInv' /\ UNCHANGED <<Memory!hosts, Memory!NotServers>> /\ Now' = Now
<1>1. /\ UNCHANGED <<NotServers, process>> /\ servers' = servers /\ used' = used
      /\ UNCHANGED <<pending, about, policies>>
  BY DEF tables, NotServers, process
<1>2. Holds(servers, Server, used) /\ UniqueNames(servers) /\ used \subseteq Ids
  BY DEF IInv, TablesHold
<1> QED BY <1>1, <1>2, ServerFrame, ServersKeep, PendingKept

(* The first statement of UpsertServer chooses the row.                    *)
LEMMA FindServerStep ==
  ASSUME IInv, NEW p \in Callers, NEW id \in Ids \union {None}, NEW s \in Server,
         FindServer(p, id, s)
  PROVE  IInv' /\ Step
<1>0. /\ Holds(servers, Server, used) /\ UniqueNames(servers) /\ used \subseteq Ids
      /\ about = "servers" /\ id \in used \union {None} /\ pending[p] = None /\ PendingInv
      /\ UNCHANGED <<tables, used, process>> /\ UNCHANGED <<NotServers, about, servers, policies>>
  BY DEF IInv, TablesHold, FindServer, Reply, Serving, tables, NotServers, process
<1>1. PICK o : o = Owner(s.name)
  OBVIOUS
<1>2. /\ s.name \in Names /\ o = Index(servers)[s.name] /\ o \in Ids \union {None}
      /\ o # None => o \in used
  <2>1. s.name \in Names /\ o = Index(servers)[s.name]
    BY <1>1, Rows DEF Owner
  <2>2. o \in Ids \union {None} /\ (o # None => servers[o] # None)
    BY <1>0, <2>1, IndexIs
  <2> QED BY <1>0, <2>1, <2>2 DEF Holds
<1>3. CASE id # None /\ o \notin {None, id}
  <2>1. /\ call' = <<"UpsertServer", id, s>> /\ pending' = pending
        /\ answer' = [err |-> "already exists", value |-> <<>>, turn |-> 1 - answer.turn]
    BY <1>1, <1>3 DEF FindServer, Reply
  <2>2. IInv' /\ UNCHANGED <<Memory!hosts, Memory!NotServers>> /\ Now' = Now
    BY <1>0, <2>1, ServersRead
  <2>3. Memory!UpsertServer(id, s)
    BY <1>2, <1>3, <2>1, <2>2 DEF Memory!UpsertServer, Memory!ErrAlreadyExists, Memory!Reply
  <2> QED BY <2>2, <2>3, SameRows DEF Step, Memory!Next, Memory!ServerCalls
<1>4. CASE ~(id # None /\ o \notin {None, id})
  <2>1. PICK i \in Ids :
          /\ CASE id # None -> i = id
               [] id = None /\ o # None -> i = o
               [] OTHER -> i \notin used \union {pending[q].id : q \in InFlight}
          /\ pending' = [pending EXCEPT ![p] =
               [id |-> i, row |-> s, owner |-> o, call |-> <<"UpsertServer", id, s>>]]
          /\ UNCHANGED <<call, answer, process>>
    BY <1>1, <1>4 DEF FindServer
  <2>2. PICK q : q = [id |-> i, row |-> s, owner |-> o, call |-> <<"UpsertServer", id, s>>]
    OBVIOUS
  <2>3. /\ q.id = i /\ q.row = s /\ q.owner = o /\ q.call = <<"UpsertServer", id, s>>
        /\ q.call[2] = id /\ q \in Pending
    BY <1>2, <2>2 DEF Pending
  <2>4. \/ id # None /\ i = id /\ i \in used
        \/ id = None /\ o # None /\ i = o /\ i \in used
        \/ /\ id = None /\ o = None /\ i \notin used
           /\ \A r \in Callers : pending[r] # None => pending[r].id # i
    BY <1>0, <1>2, <2>1 DEF InFlight
  <2>5. /\ pending' \in [Callers -> Pending \union {None}] /\ pending'[p] = q
        /\ \A r \in Callers \ {p} : pending'[r] = pending[r]
    BY <1>0, <2>1, <2>2, <2>3 DEF PendingInv
  <2>6. ServerPending(q)
    BY <1>2, <2>3, <2>4 DEF ServerPending
  <2>7. ASSUME NEW r \in Callers, pending'[r] # None PROVE ServerPending(pending[r])'
    BY <1>0, <2>5, <2>6, <2>7 DEF PendingInv, ServerPending
  <2>8. ASSUME NEW r \in Callers, NEW t \in Callers, r # t, pending'[r] # None, pending'[t] # None,
               New(pending[r])'
        PROVE  pending'[t].id # pending'[r].id
    <3>1. CASE r = p
      BY <2>3, <2>4, <2>5, <2>8, <3>1 DEF New
    <3>2. CASE t = p
      <4>1. New(pending[r]) /\ pending[r] # None /\ ServerPending(pending[r]) /\ r # p
        BY <1>0, <2>5, <2>8, <3>2 DEF New, PendingInv
      <4>2. pending[r].id \notin used
        BY <4>1, Rows DEF New, ServerPending
      <4> QED BY <2>3, <2>4, <2>5, <3>2, <4>1, <4>2
    <3>3. CASE r # p /\ t # p
      BY <1>0, <2>5, <2>8, <3>3 DEF PendingInv, New
    <3> QED BY <3>1, <3>2, <3>3
  <2>9. PendingInv'
    BY <1>0, <2>5, <2>7, <2>8 DEF PendingInv
  <2>10. IInv'
    BY <1>0, <2>9, ServersKeep
  <2>11. UNCHANGED Memory!vars
    BY <1>0, <2>1, RowsStay DEF Memory!vars, tables, Saved, Now, process
  <2> QED BY <2>10, <2>11 DEF Step
<1> QED BY <1>3, <1>4

(* What the callers that are left have chosen stays: nobody else has a new *)
(* identifier.                                                             *)
LEMMA ServersPending ==
  ASSUME IInv, about = "servers", about' = about, NEW p \in Callers, pending[p] # None,
         pending' = [pending EXCEPT ![p] = None], used' \in {used, used \union {pending[p].id}}
  PROVE  PendingInv'
<1>1. /\ pending' \in [Callers -> Pending \union {None}] /\ pending'[p] = None
      /\ \A r \in Callers \ {p} : pending'[r] = pending[r]
  BY DEF IInv, PendingInv
<1>2. ASSUME NEW r \in Callers, pending'[r] # None
      PROVE  ServerPending(pending[r])'
  <2>1. PICK t : t = pending[r]
    OBVIOUS
  <2>2. r # p /\ pending'[r] = t /\ t # None /\ ServerPending(t)
    BY <1>1, <1>2, <2>1 DEF IInv, PendingInv
  <2>3. New(t) => t.id # pending[p].id
    BY <2>1, <2>2 DEF IInv, PendingInv
  <2>4. t.call = <<"UpsertServer", None, t.row>> /\ t.owner = None => New(t)
    BY DEF New
  <2> QED BY <2>2, <2>3, <2>4 DEF ServerPending
<1>3. ASSUME NEW r \in Callers, NEW t \in Callers, r # t, pending'[r] # None, pending'[t] # None,
             New(pending[r])'
      PROVE  pending'[t].id # pending'[r].id
  BY <1>1, <1>3 DEF IInv, PendingInv, New
<1> QED BY <1>1, <1>2, <1>3 DEF PendingInv

(* The second writes it, if nobody else has the name by now.               *)
LEMMA WriteServerStep ==
  ASSUME IInv, NEW p \in Callers, WriteServer(p)
  PROVE  IInv' /\ Step
<1>1. PICK q, i, s : q = pending[p] /\ i = q.id /\ s = q.row
  OBVIOUS
<1>2. /\ Holds(servers, Server, used) /\ UniqueNames(servers) /\ used \subseteq Ids /\ PendingInv
      /\ about = "servers" /\ about' = about /\ q # None
      /\ pending' = [pending EXCEPT ![p] = None]
      /\ Inserts(servers, i, s, Unique(servers, i, s.name), q.call)
      /\ UNCHANGED <<NotServers, process>>
  BY <1>1 DEF IInv, TablesHold, WriteServer, Inserts, Reply, Serving, process
<1>3. ServerPending(q) /\ i \in Ids /\ s \in Server /\ s.name \in Names /\ i # None
  BY <1>1, <1>2, Rows DEF PendingInv, ServerPending
<1>4. PICK o : o = Index(servers)[s.name]
  OBVIOUS
<1>5. /\ Unique(servers, i, s.name) <=> o \in {None, i}
      /\ o \in Ids => servers[o] # None /\ servers[o].name = s.name
  BY <1>2, <1>3, <1>4, UniqueIs, IndexIs
<1>6. ASSUME NEW id \in Ids \union {None}, Memory!UpsertServer(id, s) PROVE Step
  BY <1>3, <1>6, SameRows DEF Step, Memory!Next, Memory!ServerCalls
<1>7. CASE ~Unique(servers, i, s.name)
  <2>1. /\ UNCHANGED <<servers, used>> /\ call' = q.call
        /\ answer' = [err |-> "already exists", value |-> <<>>, turn |-> 1 - answer.turn]
    BY <1>2, <1>7 DEF Inserts, Reply
  <2>2. IInv'
    BY <1>1, <1>2, <2>1, ServersPending, ServersKeep
  <2>3. CASE q.call = <<"UpsertServer", i, s>>
    <3>1. Memory!UpsertServer(i, s)
      BY <1>2, <1>3, <1>4, <1>5, <1>7, <2>1, <2>3, ServerFrame
         DEF Memory!UpsertServer, Memory!ErrAlreadyExists, Memory!Reply
    <3> QED BY <1>3, <1>6, <2>2, <3>1
  <2>4. CASE q.call = <<"UpsertServer", None, s>>
    <3>1. o # q.owner
      BY <1>1, <1>3, <1>5, <1>7, <2>4 DEF ServerPending
    <3>2. pending'[p] = None
      BY <1>2 DEF PendingInv
    <3>3. OwnerIsStale(p)
      BY <1>1, <1>2, <1>4, <2>4, <3>1 DEF OwnerIsStale, Owner
    <3> QED BY <1>2, <2>2, <3>2, <3>3 DEF Step, Differs
  <2> QED BY <1>1, <1>3, <2>3, <2>4 DEF ServerPending
<1>8. CASE Unique(servers, i, s.name)
  <2>1. /\ servers' = [servers EXCEPT ![i] = s] /\ used' = used \union {i} /\ call' = q.call
        /\ answer' = [err |-> "nil", value |-> <<i>>, turn |-> 1 - answer.turn]
    BY <1>2, <1>8 DEF Inserts, Reply
  <2>2. /\ UniqueNames([servers EXCEPT ![i] = s])
        /\ Index([servers EXCEPT ![i] = s]) =
             [n \in Names |-> IF n = s.name THEN i
                             ELSE IF servers[i] # None /\ n = servers[i].name THEN None
                             ELSE Index(servers)[n]]
    BY <1>2, <1>3, <1>4, <1>5, <1>8, Rows, PutRow
  <2>3. /\ UniqueNames(servers)'
        /\ Index(servers)' =
             [n \in Names |-> IF n = s.name THEN i
                             ELSE IF servers[i] # None /\ n = servers[i].name THEN None
                             ELSE Index(servers)[n]]
    <3>1. Index(servers)' = Index([servers EXCEPT ![i] = s])
      BY <2>1 DEF Index
    <3> QED BY <2>1, <2>2, <3>1
  <2>4. Holds(servers', Server, used') /\ used' \subseteq Ids
    BY <1>2, <1>3, <2>1, MoreIds, SetRow
  <2>5. IInv'
    <3>1. PendingInv'
      BY <1>1, <1>2, <2>1, ServersPending
    <3> QED BY <1>2, <2>1, <2>3, <2>4, <3>1, ServersKeep
  <2>6. CASE q.call = <<"UpsertServer", i, s>>
    <3>1. Memory!UpsertServer(i, s)
      BY <1>2, <1>3, <1>4, <1>5, <1>8, <2>1, <2>3, <2>6, ServerFrame
         DEF Memory!UpsertServer, Memory!Found, Memory!Reply
    <3> QED BY <1>3, <1>6, <2>5, <3>1
  <2>7. CASE q.call = <<"UpsertServer", None, s>> /\ OwnerIsStale(p)
    <3>1. pending'[p] = None
      BY <1>2 DEF PendingInv
    <3> QED BY <1>2, <2>5, <2>7, <3>1 DEF Step, Differs
  <2>8. CASE q.call = <<"UpsertServer", None, s>> /\ ~OwnerIsStale(p)
    <3>1. o = q.owner
      BY <1>1, <1>2, <1>4, <2>8 DEF OwnerIsStale, Owner
    <3>2. /\ IF o = None THEN servers[i] = None ELSE i = o
          /\ servers[i] # None => servers[i].name = s.name
      BY <1>1, <1>2, <1>3, <1>5, <2>8, <3>1 DEF ServerPending, Holds
    <3>3. Index(servers)' = [Index(servers) EXCEPT ![s.name] = i]
      <4>1. Index(servers) = [n \in Names |-> Index(servers)[n]]
        BY DEF Index
      <4> QED BY <1>3, <2>3, <3>2, <4>1
    <3>4. Memory!UpsertServer(None, s)
      BY <1>2, <1>3, <1>4, <2>1, <2>8, <3>2, <3>3, ServerFrame
         DEF Memory!UpsertServer, Memory!Found, Memory!Reply
    <3> QED BY <1>6, <2>5, <3>4
  <2> QED BY <1>1, <1>3, <2>6, <2>7, <2>8 DEF ServerPending
<1> QED BY <1>7, <1>8

LEMMA DeleteServerStep ==
  ASSUME IInv, NEW i \in Ids, DeleteServer(i)
  PROVE  IInv' /\ Step
<1>0. /\ Holds(servers, Server, used) /\ UniqueNames(servers) /\ used \subseteq Ids
      /\ call' = <<"DeleteServer", i>> /\ i \in used
      /\ UNCHANGED <<NotServers, process, pending, about, policies, used>>
  BY DEF IInv, TablesHold, DeleteServer, Affects, Reply, Serving, NotServers, process
<1>1. PendingInv'
  BY <1>0, PendingKept
<1>2. CASE servers[i] = None
  <2>1. servers' = servers /\ answer' = [err |-> "not found", value |-> <<>>, turn |-> 1 - answer.turn]
    BY <1>2 DEF DeleteServer, Affects, Reply
  <2>2. IInv'
    BY <1>0, <1>1, <2>1, ServersKeep
  <2>3. Memory!DeleteServer(i)
    BY <1>0, <1>2, <2>1, ServerFrame DEF Memory!DeleteServer, Memory!ErrNotFound, Memory!Reply
  <2> QED BY <2>2, <2>3 DEF Step, Memory!Next, Memory!ServerCalls
<1>3. CASE servers[i] # None
  <2>1. /\ servers' = [servers EXCEPT ![i] = None]
        /\ answer' = [err |-> "nil", value |-> <<>>, turn |-> 1 - answer.turn]
    BY <1>3 DEF DeleteServer, Affects, Reply
  <2>2. /\ UniqueNames([servers EXCEPT ![i] = None])
        /\ Index([servers EXCEPT ![i] = None]) = [Index(servers) EXCEPT ![servers[i].name] = None]
    BY <1>0, <1>3, Rows, DropRow
  <2>3. Index(servers)' = [Index(servers) EXCEPT ![servers[i].name] = None]
    BY <2>1, <2>2 DEF Index
  <2>4. Holds(servers', Server, used)
    BY <1>0, <2>1, SetRow
  <2>5. IInv'
    BY <1>0, <1>1, <2>1, <2>2, <2>4, ServersKeep
  <2>6. Memory!DeleteServer(i)
    BY <1>0, <1>3, <2>1, <2>3, ServerFrame DEF Memory!DeleteServer, Memory!Done, Memory!Reply
  <2> QED BY <2>5, <2>6 DEF Step, Memory!Next, Memory!ServerCalls
<1> QED BY <1>2, <1>3

LEMMA ServersStep ==
  ASSUME IInv, ServerCalls
  PROVE  IInv' /\ Step
<1>1. ASSUME ListServers PROVE IInv' /\ Step
  <2>1. /\ UNCHANGED <<tables, pending, used, process>> /\ call' = <<"ListServers">>
    BY <1>1 DEF ListServers, Queries, Reply
  <2>2. IInv' /\ UNCHANGED <<Memory!hosts, Memory!NotServers>> /\ Now' = Now
    BY <2>1, ServersRead
  <2>3. Memory!ListServers
    BY <1>1, <2>1, <2>2
       DEF ListServers, Queries, Reply, Memory!ListServers, Memory!Found, Memory!Reply, Memory!Listings
  <2> QED BY <2>2, <2>3 DEF Step, Memory!Next, Memory!ServerCalls
<1> QED BY <1>1, FindServerStep, WriteServerStep, DeleteServerStep DEF ServerCalls

-----------------------------------------------------------------------------
(* Policies and schedules.                                                 *)

NotBoth == <<users, servers, executions, logs, system_settings>>

LEMMA PlansKeep ==
  ASSUME IInv, UNCHANGED <<NotBoth, process>>, PendingInv',
         Holds(policies', Policy(Instants), used'), Holds(schedules', Schedule(Instants), used'),
         used \subseteq used', used' \subseteq Ids
  PROVE  /\ IInv' /\ UNCHANGED Memory!NotPlans /\ Now' = Now
         /\ UNCHANGED <<policies, schedules>> => UNCHANGED Memory!plans
<1>1. /\ TablesHold /\ UniqueNames(users) /\ UniqueNames(servers) /\ FileInv
      /\ about \in Kinds /\ clock \in 2 .. MaxClock
      /\ UNCHANGED <<users, servers, executions, execution_logs, audit_logs,
                     system_settings, schema, open, clock, about>>
  BY DEF IInv, NotBoth, process, logs
<1>2. TablesHold'
  BY <1>1, MoreIds DEF TablesHold
<1>3. FileInv' /\ UniqueNames(users)' /\ UniqueNames(servers)'
  BY <1>1 DEF FileInv, UniqueNames
<1>4. IInv'
  BY <1>1, <1>2, <1>3 DEF IInv
<1>5. UNCHANGED Memory!NotPlans /\ Now' = Now
  BY <1>1 DEF Memory!NotPlans, Memory!accounts, Memory!hosts, Memory!history, Index, Of, Saved, Now
<1>6. UNCHANGED <<policies, schedules>> => UNCHANGED Memory!plans
  BY DEF Memory!plans
<1> QED BY <1>4, <1>5, <1>6

LEMMA PlansRead ==
  ASSUME IInv, UNCHANGED <<tables, pending, used, process>>
  PROVE  IInv' /\ UNCHANGED <<Memory!plans, Memory!NotPlans>> /\ Now' = Now
<1>1. /\ UNCHANGED <<NotBoth, process>> /\ UNCHANGED <<policies, schedules, used, pending, about>>
  BY DEF tables, NotBoth, process
<1>2. /\ Holds(policies, Policy(Instants), used) /\ Holds(schedules, Schedule(Instants), used)
      /\ used \subseteq Ids
  BY DEF IInv, TablesHold
<1>3. PendingInv'
  BY <1>1, PendingKept
<1> QED BY <1>1, <1>2, <1>3, PlansKeep

LEMMA PlanChanged ==
  ASSUME NEW table, NEW ids, Holds(table, Policy(Instants), ids), NEW i \in Ids, table[i] # None,
         NEW n \in Names, NEW c \in Contents
  PROVE  Plan(n, c, table[i].created) \in Policy(Instants)
BY DEF Holds, Plan, Policy

(* No statement changes the time of creation of a policy that is there.    *)
LEMMA PoliciesPending ==
  ASSUME IInv, about = "policies", about' = about, used \subseteq used',
         pending' = pending \/ \E p \in Callers : pending' = [pending EXCEPT ![p] = None],
         \A i \in used : policies'[i] # None =>
           policies[i] # None /\ policies'[i].created = policies[i].created
  PROVE  PendingInv'
<1>1. /\ pending' \in [Callers -> Pending \union {None}]
      /\ \A r \in Callers : pending'[r] # None => pending'[r] = pending[r]
  BY DEF IInv, PendingInv
<1>2. ASSUME NEW r \in Callers, pending'[r] # None
      PROVE  PolicyPending(pending[r])'
  <2>1. PICK t : t = pending[r]
    OBVIOUS
  <2>2. pending'[r] = t /\ t # None /\ PolicyPending(t)
    BY <1>1, <1>2, <2>1 DEF IInv, PendingInv
  <2> QED BY <2>2 DEF PolicyPending
<1> QED BY <1>1, <1>2 DEF PendingInv

LEMMA CreatePolicyStep ==
  ASSUME IInv, NEW i \in Ids, NEW n \in Names, NEW c \in Contents, CreatePolicy(i, n, c)
  PROVE  IInv' /\ Step
<1>0. /\ Holds(policies, Policy(Instants), used) /\ Holds(schedules, Schedule(Instants), used)
      /\ used \subseteq Ids /\ about = "policies" /\ about' = about /\ i \notin used
      /\ policies[i] = None /\ call' = <<"CreatePolicy", i, n, c>> /\ schedules' = schedules
      /\ pending' = pending /\ UNCHANGED <<NotBoth, process>>
  BY DEF IInv, TablesHold, Holds, CreatePolicy, Inserts, Reply, Serving, NotPolicies, NotBoth, process
<1>1. CASE Unique(policies, i, n)
  <2>1. /\ policies' = [policies EXCEPT ![i] = Plan(n, c, Now)] /\ used' = used \union {i}
        /\ answer' = [err |-> "nil", value |-> <<i>>, turn |-> 1 - answer.turn]
    BY <1>1 DEF CreatePolicy, Inserts, Reply
  <2>2. Plan(n, c, Now) \in Policy(Instants)
    BY InstantsAre DEF IInv, Plan, Policy, Now
  <2>3. /\ Holds(policies', Policy(Instants), used') /\ Holds(schedules', Schedule(Instants), used')
        /\ used' \subseteq Ids /\ used \subseteq used'
    BY <1>0, <2>1, <2>2, MoreIds, SetRow
  <2>4. PendingInv'
    <3>1. \A j \in used : policies'[j] = policies[j]
      BY <1>0, <2>1 DEF Holds
    <3> QED BY <1>0, <2>3, <3>1, PoliciesPending
  <2>5. IInv' /\ UNCHANGED Memory!NotPlans /\ Now' = Now
    BY <1>0, <2>3, <2>4, PlansKeep
  <2>6. Memory!CreatePolicy(i, n, c)
    BY <1>0, <1>1, <2>1, <2>5
       DEF Memory!CreatePolicy, Memory!Found, Memory!Reply, Memory!NameTaken, Unique, Plan
  <2> QED BY <2>5, <2>6 DEF Step, Memory!Next, Memory!PlanCalls
<1>2. CASE ~Unique(policies, i, n)
  <2>1. /\ UNCHANGED <<policies, used>>
        /\ answer' = [err |-> "already exists", value |-> <<>>, turn |-> 1 - answer.turn]
    BY <1>2 DEF CreatePolicy, Inserts, Reply
  <2>2. IInv' /\ UNCHANGED Memory!NotPlans /\ Now' = Now /\ UNCHANGED Memory!plans
    BY <1>0, <2>1, PendingKept, PlansKeep
  <2>3. Memory!CreatePolicy(i, n, c)
    BY <1>0, <1>2, <2>1, <2>2
       DEF Memory!CreatePolicy, Memory!ErrAlreadyExists, Memory!Reply, Memory!NameTaken, Unique
  <2> QED BY <2>2, <2>3 DEF Step, Memory!Next, Memory!PlanCalls
<1> QED BY <1>1, <1>2

(* The first statement of UpdatePolicy keeps the time of creation.         *)
LEMMA ReadPolicyStep ==
  ASSUME IInv, NEW p \in Callers, NEW i \in Ids, NEW n \in Names, NEW c \in Contents,
         ReadPolicy(p, i, n, c)
  PROVE  IInv' /\ Step
<1>0. /\ Holds(policies, Policy(Instants), used) /\ Holds(schedules, Schedule(Instants), used)
      /\ used \subseteq Ids /\ about = "policies" /\ i \in used /\ pending[p] = None /\ PendingInv
      /\ UNCHANGED <<tables, used, process>>
      /\ UNCHANGED <<NotBoth, about, policies, schedules>>
  BY DEF IInv, TablesHold, ReadPolicy, Reply, Serving, tables, NotBoth, process
<1>1. CASE policies[i] = None
  <2>1. /\ call' = <<"UpdatePolicy", i, n, c>> /\ pending' = pending
        /\ answer' = [err |-> "not found", value |-> <<>>, turn |-> 1 - answer.turn]
    BY <1>1 DEF ReadPolicy, Reply
  <2>2. IInv' /\ UNCHANGED <<Memory!plans, Memory!NotPlans>> /\ Now' = Now
    BY <1>0, <2>1, PlansRead
  <2>3. Memory!UpdatePolicy(i, n, c)
    BY <1>0, <1>1, <2>1, <2>2 DEF Memory!UpdatePolicy, Memory!ErrNotFound, Memory!Reply
  <2> QED BY <2>2, <2>3 DEF Step, Memory!Next, Memory!PlanCalls
<1>2. CASE policies[i] # None
  <2>1. PICK row : row = Plan(n, c, policies[i].created)
    OBVIOUS
  <2>2. PICK q : q = [id |-> i, row |-> row, call |-> <<"UpdatePolicy", i, n, c>>]
    OBVIOUS
  <2>3. pending' = [pending EXCEPT ![p] = q] /\ UNCHANGED <<call, answer>>
    BY <1>2, <2>1, <2>2 DEF ReadPolicy
  <2>4. row \in Policy(Instants) /\ row.created = policies[i].created /\ row.name = n /\ row.content = c
    BY <1>0, <1>2, <2>1, PlanChanged DEF Plan
  <2>5. q \in Pending /\ PolicyPending(q)
    BY <1>0, <2>2, <2>4 DEF Pending, PolicyPending
  <2>6. PendingInv'
    <3>1. /\ pending' \in [Callers -> Pending \union {None}] /\ pending'[p] = q
          /\ \A r \in Callers \ {p} : pending'[r] = pending[r]
      BY <1>0, <2>3, <2>5 DEF PendingInv
    <3>2. ASSUME NEW r \in Callers, pending'[r] # None PROVE PolicyPending(pending[r])'
      BY <1>0, <2>5, <3>1, <3>2 DEF PendingInv, PolicyPending
    <3> QED BY <1>0, <3>1, <3>2 DEF PendingInv
  <2>7. IInv'
    BY <1>0, <2>6, PlansKeep
  <2>8. UNCHANGED Memory!vars
    BY <1>0, <2>3, RowsStay DEF Memory!vars, tables, Saved, Now, process
  <2> QED BY <2>7, <2>8 DEF Step
<1> QED BY <1>1, <1>2

(* The second writes it, if the row is still there.                        *)
LEMMA WritePolicyStep ==
  ASSUME IInv, NEW p \in Callers, WritePolicy(p)
  PROVE  IInv' /\ Step
<1>1. PICK q, i, n, c : q = pending[p] /\ i = q.id /\ n = q.row.name /\ c = q.row.content
  OBVIOUS
<1>2. /\ Holds(policies, Policy(Instants), used) /\ Holds(schedules, Schedule(Instants), used)
      /\ used \subseteq Ids /\ PendingInv /\ about = "policies" /\ about' = about /\ q # None
      /\ pending' = [pending EXCEPT ![p] = None] /\ used' = used /\ schedules' = schedules
      /\ Updates(policies, i, q.row, q.call) /\ UNCHANGED <<NotBoth, process>>
  BY <1>1 DEF IInv, TablesHold, WritePolicy, Updates, Affects, Reply, Serving, NotPolicies, NotBoth, process
<1>3. PolicyPending(q)
  BY <1>1, <1>2 DEF PendingInv
<1>4. /\ i \in Ids /\ i \in used /\ q.row \in Policy(Instants) /\ n \in Names /\ c \in Contents
      /\ q.call = <<"UpdatePolicy", i, n, c>>
      /\ policies[i] # None => q.row.created = policies[i].created
  BY <1>1, <1>2, <1>3 DEF PolicyPending, Policy
<1>5. Unique(policies, i, n) <=> ~Memory!NameTaken(i, n)
  BY DEF Unique, Memory!NameTaken
<1>6. Memory!UpdatePolicy(i, n, c) => Step
  BY <1>4 DEF Step, Memory!Next, Memory!PlanCalls
<1>7. CASE policies[i] # None /\ ~Unique(policies, i, n)
  <2>1. /\ policies' = policies /\ call' = <<"UpdatePolicy", i, n, c>>
        /\ answer' = [err |-> "already exists", value |-> <<>>, turn |-> 1 - answer.turn]
    BY <1>1, <1>2, <1>4, <1>7 DEF Updates, Reply
  <2>2. IInv' /\ UNCHANGED Memory!NotPlans /\ Now' = Now /\ UNCHANGED Memory!plans
    BY <1>2, <2>1, PoliciesPending, PlansKeep
  <2>3. Memory!UpdatePolicy(i, n, c)
    BY <1>5, <1>7, <2>1, <2>2 DEF Memory!UpdatePolicy, Memory!ErrAlreadyExists, Memory!Reply
  <2> QED BY <1>6, <2>2, <2>3
<1>8. CASE policies[i] = None
  <2>1. /\ policies' = policies /\ call' = <<"UpdatePolicy", i, n, c>>
        /\ answer' = [err |-> "not found", value |-> <<>>, turn |-> 1 - answer.turn]
    BY <1>2, <1>4, <1>8 DEF Updates, Affects, Reply
  <2>2. IInv' /\ UNCHANGED Memory!NotPlans /\ Now' = Now /\ UNCHANGED Memory!plans
    BY <1>2, <2>1, PoliciesPending, PlansKeep
  <2>3. Memory!UpdatePolicy(i, n, c)
    BY <1>8, <2>1, <2>2 DEF Memory!UpdatePolicy, Memory!ErrNotFound, Memory!Reply
  <2> QED BY <1>6, <2>2, <2>3
<1>9. CASE policies[i] # None /\ Unique(policies, i, n)
  <2>1. /\ policies' = [policies EXCEPT ![i] = q.row] /\ call' = <<"UpdatePolicy", i, n, c>>
        /\ answer' = [err |-> "nil", value |-> <<>>, turn |-> 1 - answer.turn]
    BY <1>1, <1>2, <1>4, <1>9 DEF Updates, Affects, Reply
  <2>2. q.row = Plan(n, c, policies[i].created)
    BY <1>1, <1>4, <1>9 DEF Plan, Policy
  <2>3. policies' = [policies EXCEPT ![i] = [name |-> n, content |-> c, created |-> @.created]]
    BY <2>1, <2>2 DEF Plan
  <2>4. Holds(policies', Policy(Instants), used)
    BY <1>2, <1>4, <2>1, SetRow
  <2>5. PendingInv'
    <3>1. \A j \in used : policies'[j] # None =>
            policies[j] # None /\ policies'[j].created = policies[j].created
      BY <1>2, <1>4, <1>9, <2>1 DEF Holds
    <3> QED BY <1>2, <3>1, PoliciesPending
  <2>6. IInv' /\ UNCHANGED Memory!NotPlans /\ Now' = Now
    BY <1>2, <2>4, <2>5, PlansKeep
  <2>7. Memory!UpdatePolicy(i, n, c)
    BY <1>2, <1>5, <1>9, <2>1, <2>3, <2>6 DEF Memory!UpdatePolicy, Memory!Done, Memory!Reply
  <2> QED BY <1>6, <2>6, <2>7
<1> QED BY <1>7, <1>8, <1>9

LEMMA DeletePolicyStep ==
  ASSUME IInv, NEW i \in Ids, DeletePolicy(i)
  PROVE  IInv' /\ Step
<1>0. /\ Holds(policies, Policy(Instants), used) /\ Holds(schedules, Schedule(Instants), used)
      /\ used \subseteq Ids /\ i \in used /\ used' = used /\ about = "policies" /\ about' = about
      /\ call' = <<"DeletePolicy", i>> /\ schedules' = schedules
      /\ pending' = pending /\ UNCHANGED <<NotBoth, process>>
  BY DEF IInv, TablesHold, DeletePolicy, Affects, Reply, Serving, NotPolicies, NotBoth, process
<1>1. CASE policies[i] = None
  <2>1. policies' = policies /\ answer' = [err |-> "not found", value |-> <<>>, turn |-> 1 - answer.turn]
    BY <1>1 DEF DeletePolicy, Affects, Reply
  <2>2. IInv' /\ UNCHANGED Memory!NotPlans /\ Now' = Now /\ UNCHANGED Memory!plans
    BY <1>0, <2>1, PoliciesPending, PlansKeep
  <2>3. Memory!DeletePolicy(i)
    BY <1>0, <1>1, <2>1, <2>2 DEF Memory!DeletePolicy, Memory!ErrNotFound, Memory!Reply
  <2> QED BY <2>2, <2>3 DEF Step, Memory!Next, Memory!PlanCalls
<1>2. CASE policies[i] # None
  <2>1. /\ policies' = [policies EXCEPT ![i] = None]
        /\ answer' = [err |-> "nil", value |-> <<>>, turn |-> 1 - answer.turn]
    BY <1>2 DEF DeletePolicy, Affects, Reply
  <2>2. Holds(policies', Policy(Instants), used)
    BY <1>0, <2>1, SetRow
  <2>3. PendingInv'
    <3>1. \A j \in used : policies'[j] # None => policies'[j] = policies[j]
      BY <1>0, <2>1 DEF Holds
    <3> QED BY <1>0, <3>1, PoliciesPending
  <2>4. IInv' /\ UNCHANGED Memory!NotPlans /\ Now' = Now
    BY <1>0, <2>2, <2>3, PlansKeep
  <2>5. Memory!DeletePolicy(i)
    BY <1>0, <1>2, <2>1, <2>4 DEF Memory!DeletePolicy, Memory!Done, Memory!Reply
  <2> QED BY <2>4, <2>5 DEF Step, Memory!Next, Memory!PlanCalls
<1> QED BY <1>1, <1>2

LEMMA CreateScheduleStep ==
  ASSUME IInv, NEW i \in Ids, NEW n \in Names, NEW c \in Contents, CreateSchedule(i, n, c)
  PROVE  IInv' /\ Step
<1>1. /\ Holds(policies, Policy(Instants), used) /\ Holds(schedules, Policy(Instants), used)
      /\ used \subseteq Ids /\ about = "schedules" /\ i \notin used /\ schedules[i] = None
      /\ UNCHANGED <<policies, pending, about>> /\ UNCHANGED <<NotBoth, process>>
  BY DEF IInv, TablesHold, Holds, Schedule, CreateSchedule, Inserts, Reply, Serving, NotSchedules,
         NotBoth, process
<1>2. /\ schedules' = [schedules EXCEPT ![i] = Plan(n, c, Now)] /\ used' = used \union {i}
      /\ call' = <<"CreateSchedule", i, n, c>>
      /\ answer' = [err |-> "nil", value |-> <<i>>, turn |-> 1 - answer.turn]
  BY DEF CreateSchedule, Inserts, Reply
<1>3. Plan(n, c, Now) \in Policy(Instants)
  BY InstantsAre DEF IInv, Plan, Policy, Now
<1>4. /\ Holds(policies', Policy(Instants), used') /\ Holds(schedules', Schedule(Instants), used')
      /\ used' \subseteq Ids /\ used \subseteq used'
  BY <1>1, <1>2, <1>3, MoreIds, SetRow DEF Schedule
<1>5. IInv' /\ UNCHANGED Memory!NotPlans /\ Now' = Now
  BY <1>1, <1>4, PendingKept, PlansKeep
<1>6. Memory!CreateSchedule(i, n, c)
  BY <1>1, <1>2, <1>5 DEF Memory!CreateSchedule, Memory!Found, Memory!Reply, Plan
<1> QED BY <1>5, <1>6 DEF Step, Memory!Next, Memory!PlanCalls

(* One statement that changes or drops a schedule, or finds none.          *)
LEMMA ScheduleAffected ==
  ASSUME IInv, Serving("schedules"), NEW i \in used, NEW row \in Policy(Instants) \union {None},
         NEW what, Affects(schedules, i, row, what), UNCHANGED <<NotSchedules, pending, used>>
  PROVE  /\ IInv' /\ call' = what
         /\ \/ schedules[i] = None /\ Memory!ErrNotFound(<<Memory!plans, Memory!NotPlans>>)
            \/ /\ schedules[i] # None /\ schedules' = [schedules EXCEPT ![i] = row]
               /\ Memory!Done(<<policies, Memory!NotPlans>>)
<1>1. /\ Holds(policies, Policy(Instants), used) /\ Holds(schedules, Policy(Instants), used)
      /\ used \subseteq Ids /\ call' = what
      /\ UNCHANGED <<policies, pending, about, used>> /\ UNCHANGED <<NotBoth, process>>
  BY DEF IInv, TablesHold, Schedule, Affects, Reply, NotSchedules, NotBoth, process
<1>2. PendingInv'
  BY <1>1, PendingKept
<1>3. CASE schedules[i] = None
  <2>1. schedules' = schedules
        /\ answer' = [err |-> "not found", value |-> <<>>, turn |-> 1 - answer.turn]
    BY <1>3 DEF Affects, Reply
  <2>2. IInv' /\ UNCHANGED Memory!NotPlans /\ Now' = Now /\ UNCHANGED Memory!plans
    BY <1>1, <1>2, <2>1, PlansKeep DEF Schedule
  <2> QED BY <1>1, <1>3, <2>1, <2>2 DEF Memory!ErrNotFound, Memory!Reply
<1>4. CASE schedules[i] # None
  <2>1. /\ schedules' = [schedules EXCEPT ![i] = row]
        /\ answer' = [err |-> "nil", value |-> <<>>, turn |-> 1 - answer.turn]
    BY <1>4 DEF Affects, Reply
  <2>2. Holds(schedules', Schedule(Instants), used)
    BY <1>1, <2>1, SetRow DEF Schedule
  <2>3. IInv' /\ UNCHANGED Memory!NotPlans /\ Now' = Now
    BY <1>1, <1>2, <2>2, PlansKeep
  <2> QED BY <1>1, <1>4, <2>1, <2>3 DEF Memory!Done, Memory!Reply
<1> QED BY <1>3, <1>4

LEMMA UpdateScheduleStep ==
  ASSUME IInv, NEW i \in Ids, NEW n \in Names, NEW c \in Contents, UpdateSchedule(i, n, c)
  PROVE  IInv' /\ Step
<1>1. /\ Serving("schedules") /\ i \in used /\ UNCHANGED <<NotSchedules, pending, used>>
      /\ Affects(schedules, i, Plan(n, c, schedules[i].created), <<"UpdateSchedule", i, n, c>>)
  BY DEF UpdateSchedule
<1>2. PICK row : row = IF schedules[i] = None THEN None ELSE Plan(n, c, schedules[i].created)
  OBVIOUS
<1>3. row \in Policy(Instants) \union {None}
  <2>1. Holds(schedules, Policy(Instants), used)
    BY DEF IInv, TablesHold, Schedule
  <2> QED BY <1>2, <2>1, PlanChanged
<1>4. Affects(schedules, i, row, <<"UpdateSchedule", i, n, c>>)
  BY <1>1, <1>2 DEF Affects
<1>5. /\ IInv' /\ call' = <<"UpdateSchedule", i, n, c>>
      /\ \/ schedules[i] = None /\ Memory!ErrNotFound(<<Memory!plans, Memory!NotPlans>>)
         \/ /\ schedules[i] # None /\ schedules' = [schedules EXCEPT ![i] = row]
            /\ Memory!Done(<<policies, Memory!NotPlans>>)
  BY <1>1, <1>3, <1>4, ScheduleAffected
<1>6. Memory!UpdateSchedule(i, n, c)
  BY <1>2, <1>5 DEF Memory!UpdateSchedule, Plan
<1> QED BY <1>5, <1>6 DEF Step, Memory!Next, Memory!PlanCalls

LEMMA PlansStep ==
  ASSUME IInv, PlanCalls
  PROVE  IInv' /\ Step
<1>1. ASSUME NEW i \in Ids, DeleteSchedule(i) PROVE IInv' /\ Step
  <2>1. /\ Serving("schedules") /\ i \in used /\ UNCHANGED <<NotSchedules, pending, used>>
        /\ Affects(schedules, i, None, <<"DeleteSchedule", i>>)
    BY <1>1 DEF DeleteSchedule
  <2>2. /\ IInv' /\ call' = <<"DeleteSchedule", i>>
        /\ \/ schedules[i] = None /\ Memory!ErrNotFound(<<Memory!plans, Memory!NotPlans>>)
           \/ /\ schedules[i] # None /\ schedules' = [schedules EXCEPT ![i] = None]
              /\ Memory!Done(<<policies, Memory!NotPlans>>)
    BY <2>1, ScheduleAffected
  <2>3. Memory!DeleteSchedule(i)
    BY <2>2 DEF Memory!DeleteSchedule
  <2> QED BY <2>2, <2>3 DEF Step, Memory!Next, Memory!PlanCalls
<1>2. ASSUME ListPolicies PROVE IInv' /\ Step
  <2>1. /\ UNCHANGED <<tables, pending, used, process>> /\ call' = <<"ListPolicies">>
    BY <1>2 DEF ListPolicies, ListPlans, Queries, Reply
  <2>2. IInv' /\ UNCHANGED <<Memory!plans, Memory!NotPlans>> /\ Now' = Now
    BY <2>1, PlansRead
  <2>3. Memory!ListPolicies
    BY <1>2, <2>1, <2>2
       DEF ListPolicies, ListPlans, Queries, Reply, Memory!ListPolicies, Memory!ListPlans,
           Memory!Found, Memory!Reply, Memory!Listings
  <2> QED BY <2>2, <2>3 DEF Step, Memory!Next, Memory!PlanCalls
<1>3. ASSUME ListSchedules PROVE IInv' /\ Step
  <2>1. /\ UNCHANGED <<tables, pending, used, process>> /\ call' = <<"ListSchedules">>
    BY <1>3 DEF ListSchedules, ListPlans, Queries, Reply
  <2>2. IInv' /\ UNCHANGED <<Memory!plans, Memory!NotPlans>> /\ Now' = Now
    BY <2>1, PlansRead
  <2>3. Memory!ListSchedules
    BY <1>3, <2>1, <2>2
       DEF ListSchedules, ListPlans, Queries, Reply, Memory!ListSchedules, Memory!ListPlans,
           Memory!Found, Memory!Reply, Memory!Listings
  <2> QED BY <2>2, <2>3 DEF Step, Memory!Next, Memory!PlanCalls
<1> QED BY <1>1, <1>2, <1>3, CreatePolicyStep, ReadPolicyStep, WritePolicyStep, DeletePolicyStep,
           CreateScheduleStep, UpdateScheduleStep DEF PlanCalls

-----------------------------------------------------------------------------
(* Executions, their logs, and the audit log.                              *)

LEMMA HistoryKeeps ==
  ASSUME IInv, UNCHANGED <<NotHistory, process, pending>>,
         Holds(executions', Execution(Instants), used'), Holds(audit_logs', Audit(Instants), used'),
         execution_logs' \subseteq Line(Instants), used \subseteq used', used' \subseteq Ids,
         about = "servers" => used' = used
  PROVE  /\ IInv' /\ UNCHANGED Memory!NotHistory /\ Now' = Now
         /\ execution_logs' = execution_logs => UNCHANGED [i \in Ids |-> Of(i)]
<1>1. /\ TablesHold /\ UniqueNames(users) /\ UniqueNames(servers) /\ FileInv
      /\ about \in Kinds /\ clock \in 2 .. MaxClock
      /\ UNCHANGED <<users, servers, policies, schedules, system_settings, schema, open, clock,
                     about, pending>>
  BY DEF IInv, NotHistory, process
<1>2. TablesHold'
  BY <1>1, MoreIds DEF TablesHold
<1>3. FileInv' /\ UniqueNames(users)' /\ UniqueNames(servers)'
  BY <1>1 DEF FileInv, UniqueNames
<1>4. PendingInv'
  BY <1>1, PendingKept
<1>5. IInv'
  BY <1>1, <1>2, <1>3, <1>4 DEF IInv
<1>6. UNCHANGED Memory!NotHistory /\ Now' = Now
  BY <1>1 DEF Memory!NotHistory, Memory!accounts, Memory!hosts, Memory!plans, Index, Saved, Now
<1>7. execution_logs' = execution_logs => UNCHANGED [i \in Ids |-> Of(i)]
  BY DEF Of
<1> QED BY <1>5, <1>6, <1>7

LEMMA HistoryRead ==
  ASSUME IInv, UNCHANGED <<tables, pending, used, process>>
  PROVE  IInv' /\ UNCHANGED <<Memory!history, Memory!NotHistory>> /\ Now' = Now
<1>1. /\ UNCHANGED <<NotHistory, process, pending>>
      /\ UNCHANGED <<executions, execution_logs, audit_logs, used>>
  BY DEF tables, logs, NotHistory
<1>2. /\ Holds(executions, Execution(Instants), used) /\ Holds(audit_logs, Audit(Instants), used)
      /\ execution_logs \subseteq Line(Instants) /\ used \subseteq Ids
  BY DEF IInv, TablesHold
<1> QED BY <1>1, <1>2, HistoryKeeps DEF Memory!history

LEMMA CreateExecutionStep ==
  ASSUME IInv, NEW i \in Ids, NEW c \in Contents, CreateExecution(i, c)
  PROVE  IInv' /\ Step
<1>1. /\ Holds(executions, Execution(Instants), used) /\ Holds(audit_logs, Audit(Instants), used)
      /\ execution_logs \subseteq Line(Instants) /\ used \subseteq Ids
      /\ about = "executions" /\ i \notin used /\ executions[i] = None
      /\ UNCHANGED <<NotHistory, process, pending>> /\ UNCHANGED <<execution_logs, audit_logs>>
  BY DEF IInv, TablesHold, Holds, CreateExecution, Inserts, Reply, Serving, process, logs
<1>2. /\ executions' = [executions EXCEPT ![i] = [content |-> c, started |-> Now]]
      /\ used' = used \union {i} /\ call' = <<"CreateExecution", i, c>>
      /\ answer' = [err |-> "nil", value |-> <<i>>, turn |-> 1 - answer.turn]
  BY DEF CreateExecution, Inserts, Reply
<1>3. [content |-> c, started |-> Now] \in Execution(Instants)
  BY InstantsAre DEF IInv, Execution, Now
<1>4. /\ Holds(executions', Execution(Instants), used') /\ Holds(audit_logs', Audit(Instants), used')
      /\ used' \subseteq Ids /\ used \subseteq used'
  BY <1>1, <1>2, <1>3, MoreIds, SetRow
<1>5. IInv' /\ UNCHANGED Memory!NotHistory /\ Now' = Now /\ UNCHANGED [j \in Ids |-> Of(j)]
  BY <1>1, <1>4, HistoryKeeps
<1>6. Memory!CreateExecution(i, c)
  BY <1>1, <1>2, <1>5 DEF Memory!CreateExecution, Memory!Found, Memory!Reply
<1> QED BY <1>5, <1>6 DEF Step, Memory!Next, Memory!HistoryCalls

LEMMA UpdateExecutionStep ==
  ASSUME IInv, NEW i \in Ids, NEW c \in Contents, UpdateExecution(i, c)
  PROVE  IInv' /\ Step
<1>1. /\ Holds(executions, Execution(Instants), used) /\ Holds(audit_logs, Audit(Instants), used)
      /\ execution_logs \subseteq Line(Instants) /\ used \subseteq Ids /\ i \in used
      /\ UNCHANGED <<NotHistory, process, pending>> /\ UNCHANGED <<execution_logs, audit_logs, used>>
      /\ call' = <<"UpdateExecution", i, c>>
  BY DEF IInv, TablesHold, UpdateExecution, Affects, Reply, process, logs
<1>2. CASE executions[i] = None
  <2>1. executions' = executions
        /\ answer' = [err |-> "not found", value |-> <<>>, turn |-> 1 - answer.turn]
    BY <1>2 DEF UpdateExecution, Affects, Reply
  <2>2. IInv' /\ UNCHANGED Memory!NotHistory /\ Now' = Now /\ UNCHANGED Memory!history
    BY <1>1, <2>1, HistoryKeeps DEF Memory!history
  <2>3. Memory!UpdateExecution(i, c)
    BY <1>1, <1>2, <2>1, <2>2 DEF Memory!UpdateExecution, Memory!ErrNotFound, Memory!Reply
  <2> QED BY <2>2, <2>3 DEF Step, Memory!Next, Memory!HistoryCalls
<1>3. CASE executions[i] # None
  <2>1. PICK row : row = [executions[i] EXCEPT !.content = c]
    OBVIOUS
  <2>2. /\ executions' = [executions EXCEPT ![i] = row]
        /\ answer' = [err |-> "nil", value |-> <<>>, turn |-> 1 - answer.turn]
    BY <1>3, <2>1 DEF UpdateExecution, Affects, Reply
  <2>3. row \in Execution(Instants)
    BY <1>1, <1>3, <2>1 DEF Execution, Holds
  <2>4. Holds(executions', Execution(Instants), used)
    BY <1>1, <2>2, <2>3, SetRow
  <2>5. IInv' /\ UNCHANGED Memory!NotHistory /\ Now' = Now /\ UNCHANGED [j \in Ids |-> Of(j)]
    BY <1>1, <2>4, HistoryKeeps
  <2>6. Memory!UpdateExecution(i, c)
    BY <1>1, <1>3, <2>1, <2>2, <2>5 DEF Memory!UpdateExecution, Memory!Done, Memory!Reply
  <2> QED BY <2>5, <2>6 DEF Step, Memory!Next, Memory!HistoryCalls
<1> QED BY <1>2, <1>3

LEMMA AppendExecutionLogStep ==
  ASSUME IInv, NEW i \in Ids, NEW nr \in Numbers, NEW t \in 2 .. MaxClock, NEW line \in Contents,
         AppendExecutionLog(i, nr, t, line)
  PROVE  IInv' /\ Step
<1>1. PICK log : log = [nr |-> nr, execution |-> i, at |-> Millis(t), line |-> line]
  OBVIOUS
<1>2. /\ Holds(executions, Execution(Instants), used) /\ Holds(audit_logs, Audit(Instants), used)
      /\ execution_logs \subseteq Line(Instants) /\ used \subseteq Ids
      /\ UNCHANGED <<NotHistory, process, pending>> /\ UNCHANGED <<executions, audit_logs, used>>
      /\ \A old \in execution_logs : old.nr < nr
      /\ execution_logs' = execution_logs \union {log}
      /\ call' = <<"AppendExecutionLog", i, [at |-> Millis(t), line |-> line]>>
      /\ answer' = [err |-> "nil", value |-> <<>>, turn |-> 1 - answer.turn]
  BY <1>1 DEF IInv, TablesHold, AppendExecutionLog, Reply, process
<1>3. /\ log \in Line(Instants) /\ log.execution = i /\ log.nr = nr
      /\ Plain(log) = [at |-> Millis(t), line |-> line]
  BY <1>1, InstantsAre DEF Line, Plain
<1>4. IInv' /\ UNCHANGED Memory!NotHistory /\ Now' = Now
  BY <1>2, <1>3, HistoryKeeps
<1>5. PICK byId : byId = [j \in Ids |-> Of(j)]
  OBVIOUS
<1>6. [j \in Ids |-> Of(j)]' = [byId EXCEPT ![i] = @ \union {log}]
  <2>1. \A j \in Ids : Of(j)' = IF j = i THEN Of(j) \union {log} ELSE Of(j)
    BY <1>2, <1>3 DEF Of
  <2> QED BY <1>5, <2>1
<1>7. Memory!AppendExecutionLog(log)
  <2>1. \A old \in byId[i] : old.nr < log.nr
    BY <1>2, <1>3, <1>5 DEF Of
  <2>2. Memory!Plain(log) = [at |-> Millis(t), line |-> line]
    BY <1>3, SameRows
  <2> QED BY <1>2, <1>3, <1>4, <1>5, <1>6, <2>1, <2>2
          DEF Memory!AppendExecutionLog, Memory!Done, Memory!Reply
<1> QED BY <1>3, <1>4, <1>7, SameRows DEF Step, Memory!Next, Memory!HistoryCalls

(* Lines that are in the order of their times are in that of their numbers,*)
(* unless some were appended out of order.                                 *)
LEMMA ListExecutionLogsStep ==
  ASSUME IInv, NEW i \in Ids, ListExecutionLogs(i)
  PROVE  IInv' /\ Step
<1>1. PICK q :
        /\ q \in Memory!SetToSeqs(Of(i))
        /\ \A j, k \in DOMAIN q : j < k =>
             ~(q[k].at < q[j].at \/ (q[k].at = q[j].at /\ q[k].nr < q[j].nr))
        /\ Queries("executions", "nil", [k \in DOMAIN q |-> Plain(q[k])], <<"ListExecutionLogs", i>>)
  BY DEF ListExecutionLogs, Memory!Listings
<1>2. PICK told : told = [k \in DOMAIN q |-> Plain(q[k])]
  OBVIOUS
<1>3. /\ UNCHANGED <<tables, pending, used, process>> /\ call' = <<"ListExecutionLogs", i>>
      /\ answer' = [err |-> "nil", value |-> told, turn |-> 1 - answer.turn]
  BY <1>1, <1>2 DEF Queries, Reply
<1>4. IInv' /\ UNCHANGED <<Memory!history, Memory!NotHistory>> /\ Now' = Now
  BY <1>3, HistoryRead
<1>5. CASE OutOfOrder
  BY <1>3, <1>4, <1>5 DEF Step, Differs
<1>6. CASE ~OutOfOrder
  <2>1. \A k \in DOMAIN q : q[k] \in Of(i)
    BY <1>1 DEF Memory!SetToSeqs
  <2>2. \A k \in DOMAIN q :
          /\ q[k] \in execution_logs /\ q[k].execution = i
          /\ q[k].at \in Nat /\ q[k].nr \in Nat
    <3>1. execution_logs \subseteq Line(Instants)
      BY DEF IInv, TablesHold
    <3> QED BY <2>1, <3>1, InstantsAre, RowsAssumption DEF Of, Line
  <2>3. \A j, k \in DOMAIN q : j < k => ~(q[k].nr < q[j].nr)
    <3>1. TAKE j, k \in DOMAIN q
    <3>2. HAVE j < k
    <3>3. PICK old, log : old = q[k] /\ log = q[j]
      OBVIOUS
    <3>4. /\ ~(old.at < log.at) /\ ~(old.at = log.at /\ old.nr < log.nr)
          /\ old \in execution_logs /\ log \in execution_logs /\ old.execution = log.execution
          /\ old.at \in Nat /\ log.at \in Nat
      BY <1>1, <2>2, <3>2, <3>3
    <3>5. old.nr < log.nr => ~(old.at > log.at)
      BY <1>6, <3>4 DEF OutOfOrder
    <3>6. ~(old.nr < log.nr)
      BY <3>4, <3>5
    <3> QED BY <3>3, <3>6
  <2>4. told = [k \in DOMAIN q |-> Memory!Plain(q[k])]
    BY <1>2, SameRows
  <2>5. [j \in Ids |-> Of(j)][i] = Of(i)
    OBVIOUS
  <2>6. Memory!ListExecutionLogs(i)
    BY <1>1, <1>3, <1>4, <2>3, <2>4, <2>5
       DEF Memory!ListExecutionLogs, Memory!Listings, Memory!Found, Memory!Reply
  <2> QED BY <1>4, <2>6 DEF Step, Memory!Next, Memory!HistoryCalls
<1> QED BY <1>5, <1>6

LEMMA CreateAuditLogStep ==
  ASSUME IInv, NEW i \in Ids, NEW t \in 2 .. MaxClock, NEW line \in Contents,
         CreateAuditLog(i, t, line)
  PROVE  IInv' /\ Step
<1>1. PICK log : log = [at |-> Millis(t), line |-> line]
  OBVIOUS
<1>2. /\ Holds(executions, Execution(Instants), used) /\ Holds(audit_logs, Audit(Instants), used)
      /\ execution_logs \subseteq Line(Instants) /\ used \subseteq Ids
      /\ about = "audit" /\ i \notin used /\ audit_logs[i] = None
      /\ UNCHANGED <<NotHistory, process, pending>> /\ UNCHANGED <<executions, execution_logs>>
      /\ audit_logs' = [audit_logs EXCEPT ![i] = log] /\ used' = used \union {i}
      /\ call' = <<"CreateAuditLog", log>>
      /\ answer' = [err |-> "nil", value |-> <<>>, turn |-> 1 - answer.turn]
  BY <1>1 DEF IInv, TablesHold, Holds, CreateAuditLog, Reply, Serving, process
<1>3. log \in Audit(Instants)
  BY <1>1, InstantsAre DEF Audit
<1>4. /\ Holds(executions', Execution(Instants), used') /\ Holds(audit_logs', Audit(Instants), used')
      /\ used' \subseteq Ids /\ used \subseteq used'
  BY <1>2, <1>3, MoreIds, SetRow
<1>5. IInv' /\ UNCHANGED Memory!NotHistory /\ Now' = Now /\ UNCHANGED [j \in Ids |-> Of(j)]
  BY <1>2, <1>4, HistoryKeeps
<1>6. Memory!CreateAuditLog(i, log)
  BY <1>2, <1>5 DEF Memory!CreateAuditLog, Memory!Done, Memory!Reply
<1> QED BY <1>3, <1>5, <1>6, SameRows DEF Step, Memory!Next, Memory!HistoryCalls

(* Only lines of an execution that was not there go here and stay there.   *)
LEMMA ApplyRetentionStep ==
  ASSUME IInv, NEW e \in 2 .. MaxClock, NEW l \in 2 .. MaxClock, NEW a \in 2 .. MaxClock,
         ApplyRetention(e, l, a)
  PROVE  IInv' /\ Step
<1>1. /\ Holds(executions, Execution(Instants), used) /\ Holds(audit_logs, Audit(Instants), used)
      /\ execution_logs \subseteq Line(Instants) /\ used \subseteq Ids
      /\ UNCHANGED <<NotHistory, process, pending>> /\ used' = used
      /\ call' = <<"ApplyRetention", Millis(e), Millis(l), Millis(a)>>
      /\ answer' = [err |-> "nil", value |-> <<>>, turn |-> 1 - answer.turn]
  BY DEF IInv, TablesHold, ApplyRetention, Reply, process
<1>2. /\ executions' = [i \in Ids |-> IF i \in Old(e) THEN None ELSE executions[i]]
      /\ execution_logs' = {log \in execution_logs :
           log.at >= Millis(l) /\ executions'[log.execution] # None}
      /\ audit_logs' = [i \in Ids |->
           IF audit_logs[i] # None /\ audit_logs[i].at < Millis(a) THEN None ELSE audit_logs[i]]
  BY DEF ApplyRetention
<1>3. Holds(executions', Execution(Instants), used) /\ Holds(audit_logs', Audit(Instants), used)
  BY <1>1, <1>2 DEF Holds
<1>4. IInv' /\ UNCHANGED Memory!NotHistory /\ Now' = Now
  BY <1>1, <1>2, <1>3, HistoryKeeps
<1>5. CASE OrphansGo
  BY <1>4, <1>5 DEF Step, Differs
<1>6. CASE ~OrphansGo
  <2>1. ASSUME NEW i \in Ids
        PROVE  Of(i)' = IF i \in Old(e) THEN {} ELSE {log \in Of(i) : log.at >= Millis(l)}
    <3>1. Of(i)' = {log \in Of(i) : log.at >= Millis(l) /\ executions'[i] # None}
      BY <1>2 DEF Of
    <3>2. CASE executions'[i] # None
      BY <1>2, <3>1, <3>2
    <3>3. CASE executions'[i] = None /\ i \notin Old(e)
      <4>1. executions[i] = None
        BY <1>2, <3>3
      <4>2. \A log \in Of(i) : log \notin execution_logs'
        BY <1>2, <3>3 DEF Of
      <4>3. Of(i) = {}
        BY <1>6, <4>1, <4>2 DEF OrphansGo, Of
      <4> QED BY <3>1, <3>3, <4>3
    <3>4. CASE i \in Old(e)
      BY <1>2, <3>1, <3>4
    <3> QED BY <3>2, <3>3, <3>4
  <2>2. [i \in Ids |-> Of(i)]' =
          [i \in Ids |-> IF i \in Old(e) THEN {}
                         ELSE {log \in [j \in Ids |-> Of(j)][i] : log.at >= Millis(l)}]
    BY <2>1
  <2>3. Old(e) = {i \in Memory!Stored(executions) : executions[i].started < Millis(e)}
    BY DEF Old
  <2>4. audit_logs' =
          [i \in Ids |-> IF i \in {j \in Memory!Stored(audit_logs) : audit_logs[j].at < Millis(a)}
                         THEN None ELSE audit_logs[i]]
    BY <1>1, <1>2 DEF Memory!Stored, Holds
  <2>5. Memory!ApplyRetention(Millis(e), Millis(l), Millis(a))
    BY <1>1, <1>2, <1>4, <2>2, <2>3, <2>4
       DEF Memory!ApplyRetention, Memory!Done, Memory!Reply
  <2> QED BY <1>4, <2>5, InstantsAre DEF Step, Memory!Next, Memory!HistoryCalls
<1> QED BY <1>5, <1>6

LEMMA HistoryStep ==
  ASSUME IInv, HistoryCalls
  PROVE  IInv' /\ Step
<1>1. ASSUME ListExecutions PROVE IInv' /\ Step
  <2>1. /\ UNCHANGED <<tables, pending, used, process>> /\ call' = <<"ListExecutions">>
    BY <1>1 DEF ListExecutions, Queries, Reply
  <2>2. IInv' /\ UNCHANGED <<Memory!history, Memory!NotHistory>> /\ Now' = Now
    BY <2>1, HistoryRead
  <2>3. Memory!ListExecutions
    BY <1>1, <2>1, <2>2
       DEF ListExecutions, Queries, Reply, Memory!ListExecutions, Memory!Found, Memory!Reply,
           Memory!Listings
  <2> QED BY <2>2, <2>3 DEF Step, Memory!Next, Memory!HistoryCalls
<1>2. ASSUME ListAuditLogs PROVE IInv' /\ Step
  <2>1. /\ UNCHANGED <<tables, pending, used, process>> /\ call' = <<"ListAuditLogs">>
    BY <1>2 DEF ListAuditLogs, Queries, Reply
  <2>2. IInv' /\ UNCHANGED <<Memory!history, Memory!NotHistory>> /\ Now' = Now
    BY <2>1, HistoryRead
  <2>3. Memory!ListAuditLogs
    BY <1>2, <2>1, <2>2
       DEF ListAuditLogs, Queries, Reply, Memory!ListAuditLogs, Memory!Found, Memory!Reply,
           Memory!Listings
  <2> QED BY <2>2, <2>3 DEF Step, Memory!Next, Memory!HistoryCalls
<1> QED BY <1>1, <1>2, CreateExecutionStep, UpdateExecutionStep, AppendExecutionLogStep,
           ListExecutionLogsStep, CreateAuditLogStep, ApplyRetentionStep DEF HistoryCalls

-----------------------------------------------------------------------------
(* Settings, a call that is given up, and the clock.                       *)

LEMMA SettingsStep ==
  ASSUME IInv, (\E s \in Contents : SaveSettings(s)) \/ GetSettings
  PROVE  IInv' /\ Step
<1>1. ASSUME NEW s \in Contents, SaveSettings(s) PROVE IInv' /\ Step
  <2>1. /\ UNCHANGED <<users, servers, policies, schedules, executions, logs>>
        /\ UNCHANGED <<pending, used, process>> /\ UNCHANGED <<schema, open, clock, about>>
        /\ system_settings' = [says |-> s, saved |-> TRUE] /\ call' = <<"SaveSettings", s>>
        /\ answer' = [err |-> "nil", value |-> <<>>, turn |-> 1 - answer.turn]
    BY <1>1 DEF SaveSettings, Reply, process
  <2>2. /\ system_settings' \in Settings /\ system_settings' # None
        /\ system_settings'.says = s /\ system_settings'.saved
    BY <2>1, SettingsAre
  <2>3. Saved' = s
    BY <2>2 DEF Saved
  <2>4. IInv'
    <3>1. FileInv'
      BY <2>1, <2>2 DEF IInv, FileInv
    <3>2. PendingInv'
      BY <2>1, PendingKept
    <3> QED BY <2>1, <3>1, <3>2 DEF IInv, TablesHold, UniqueNames, logs
  <2>5. /\ UNCHANGED <<Memory!accounts, Memory!hosts, Memory!plans, Memory!history>>
        /\ Now' = Now
    BY <2>1 DEF Memory!accounts, Memory!hosts, Memory!plans, Memory!history, logs, Index, Of, Now
  <2>6. Memory!SaveSettings(s)
    BY <2>1, <2>3, <2>5 DEF Memory!SaveSettings, Memory!Done, Memory!Reply
  <2> QED BY <2>4, <2>6 DEF Step, Memory!Next
<1>2. ASSUME GetSettings PROVE IInv' /\ Step
  <2>1. /\ UNCHANGED <<tables, pending, used, process>> /\ call' = <<"GetSettings">>
        /\ answer' = [err |-> "nil", value |-> <<Saved>>, turn |-> 1 - answer.turn]
    BY <1>2 DEF GetSettings, Queries, Reply
  <2>2. IInv' /\ UNCHANGED <<Memory!history, Memory!NotHistory>> /\ Now' = Now
    BY <2>1, HistoryRead
  <2>3. Memory!GetSettings
    BY <2>1, <2>2 DEF Memory!GetSettings, Memory!Found, Memory!Reply, Memory!NotHistory
  <2> QED BY <2>2, <2>3 DEF Step, Memory!Next
<1> QED BY <1>1, <1>2

LEMMA AbandonStep ==
  ASSUME IInv, NEW p \in Callers, Abandon(p)
  PROVE  IInv' /\ Step
<1>1. /\ pending[p] # None /\ pending' = [pending EXCEPT ![p] = None]
      /\ UNCHANGED <<users, servers, policies, schedules, executions, logs, system_settings>>
      /\ UNCHANGED <<schema, open, clock, about, call, answer, used>>
  BY DEF Abandon, tables, process
<1>2. PendingInv'
  <2>1. /\ pending' \in [Callers -> Pending \union {None}] /\ pending'[p] = None
        /\ \A r \in Callers \ {p} : pending'[r] = pending[r]
    BY <1>1 DEF IInv, PendingInv
  <2>2. ASSUME NEW r \in Callers, pending'[r] # None
        PROVE  /\ pending'[r] # None => r # p
               /\ about = "users" => UserPending(pending[r])'
               /\ about = "servers" => ServerPending(pending[r])'
               /\ about = "policies" => PolicyPending(pending[r])'
    BY <1>1, <2>1, <2>2 DEF IInv, PendingInv, UserPending, ServerPending, PolicyPending
  <2>3. about = "servers" => PendingInv'
    BY <1>1, ServersPending
  <2> QED BY <1>1, <2>1, <2>2, <2>3 DEF PendingInv
<1>3. IInv'
  BY <1>1, <1>2 DEF IInv, TablesHold, FileInv, UniqueNames, logs
<1>4. UNCHANGED Memory!vars
  BY <1>1, RowsStay DEF Memory!vars, Saved, Now
<1> QED BY <1>3, <1>4 DEF Step

LEMMA TickStep ==
  ASSUME IInv, Tick
  PROVE  IInv' /\ Step
<1>1. /\ clock \in 2 .. MaxClock /\ clock' = clock + 1 /\ clock' \in 2 .. MaxClock
      /\ UNCHANGED <<users, servers, policies, schedules, executions, logs, system_settings>>
      /\ UNCHANGED <<schema, open, about, call, answer, used, pending>>
  BY ClockAssumption DEF IInv, Tick, tables
<1>2. PendingInv'
  BY <1>1, PendingKept
<1>3. IInv'
  BY <1>1, <1>2 DEF IInv, TablesHold, FileInv, UniqueNames, logs
<1>4. /\ UNCHANGED <<Memory!accounts, Memory!hosts, Memory!plans, Memory!history>>
      /\ Saved' = Saved
  BY <1>1, RowsStay DEF Saved
<1>5. Now' \in {t \in Instants : t >= Now}
  <2>1. Millis(clock') >= Millis(clock)
    BY <1>1, ClockAssumption DEF Millis
  <2> QED BY <1>1, <2>1, InstantsAre DEF Now
<1>6. Memory!Pass
  BY <1>1, <1>4, <1>5 DEF Memory!Pass
<1> QED BY <1>3, <1>6 DEF Step, Memory!Next

-----------------------------------------------------------------------------
LEMMA Invariance ==
  ASSUME IInv, [Next]_vars
  PROVE  IInv' /\ Step
<1>1. CASE Migrate \/ Restart
  BY <1>1, FileKept DEF Step
<1>2. CASE UNCHANGED vars
  <2>1. /\ UNCHANGED <<users, servers, policies, schedules, executions, logs, system_settings>>
        /\ UNCHANGED <<schema, open, clock, about, call, answer, used, pending>>
    BY <1>2 DEF vars, tables, process
  <2>2. PendingInv'
    BY <2>1, PendingKept
  <2>3. IInv'
    BY <2>1, <2>2 DEF IInv, TablesHold, FileInv, UniqueNames, logs
  <2>4. UNCHANGED Memory!vars
    BY <2>1, RowsStay DEF Memory!vars, Saved, Now
  <2> QED BY <2>3, <2>4 DEF Step
<1> QED BY <1>1, <1>2, UsersStep, ServersStep, PlansStep, HistoryStep, SettingsStep, AbandonStep,
           TickStep DEF Next

THEOREM Inductive == Spec => []IInv
<1>1. IInv /\ [Next]_vars => IInv'
  BY Invariance
<1> QED BY <1>1, InitInv, PTL DEF Spec

(* Every table holds rows, under identifiers that were used, and a call    *)
(* that is between its statements has read what it needs.                  *)
THEOREM StoreTypes == Spec => []TypeOK
<1>1. IInv => TypeOK
  BY DEF IInv, TablesHold, Holds, FileInv, PendingInv, TypeOK, Memory!Stored
<1> QED BY <1>1, Inductive, PTL

(* NewSQLiteRepository succeeds on the file of every version, whatever of  *)
(* the schema it has, and the schema is complete then.                     *)
THEOREM FilesOpen == Spec => []EveryFileOpens
<1>1. IInv => EveryFileOpens
  BY DEF IInv, FileInv, EveryFileOpens
<1> QED BY <1>1, Inductive, PTL

(* The drivers are interchangeable, but for the listed steps: each call of *)
(* the sqlite driver, however the statements of several callers alternate, *)
(* does and returns what the memory driver would.                          *)
THEOREM DriversAgree == Spec => ImplementsMemory
<1>1. IInv /\ [Next]_vars => [Memory!Next \/ Differs]_Memory!vars
  BY Invariance DEF Step
<1> QED BY <1>1, Inductive, PTL DEF Spec, ImplementsMemory

(* Nothing else touches executions and their lines.                        *)
LEMMA OthersKeep ==
  ASSUME [Next]_vars, ~HistoryCalls
  PROVE  executions' = executions /\ execution_logs' = execution_logs
<1>1. CASE Migrate \/ Restart \/ (\E p \in Callers : Abandon(p)) \/ Tick \/ UNCHANGED vars
  BY <1>1 DEF Migrate, Restart, Abandon, Tick, vars, tables, logs
<1>2. CASE UserCalls
  BY <1>2 DEF UserCalls, CreateUser, ReadUser, WriteUser, UpdateUserPassword, UpdateUserContent,
              DeleteUser, GetUserByUsername, ListUsers, Queries, NotUsers, tables, logs
<1>3. CASE ServerCalls
  BY <1>3 DEF ServerCalls, FindServer, WriteServer, DeleteServer, ListServers, Queries,
              NotServers, tables, logs
<1>4. CASE PlanCalls
  <2>1. ASSUME NEW i \in Ids, NEW n \in Names, NEW c \in Contents,
               CreatePolicy(i, n, c) \/ CreateSchedule(i, n, c) \/ UpdateSchedule(i, n, c)
        PROVE  executions' = executions /\ execution_logs' = execution_logs
    BY <2>1 DEF CreatePolicy, CreateSchedule, UpdateSchedule, NotPolicies, NotSchedules, logs
  <2>2. ASSUME NEW p \in Callers, NEW i \in Ids, NEW n \in Names, NEW c \in Contents,
               ReadPolicy(p, i, n, c)
        PROVE  executions' = executions /\ execution_logs' = execution_logs
    BY <2>2 DEF ReadPolicy, tables, logs
  <2>3. ASSUME NEW p \in Callers, WritePolicy(p)
        PROVE  executions' = executions /\ execution_logs' = execution_logs
    BY <2>3 DEF WritePolicy, NotPolicies, logs
  <2>4. ASSUME NEW i \in Ids, DeletePolicy(i) \/ DeleteSchedule(i)
        PROVE  executions' = executions /\ execution_logs' = execution_logs
    BY <2>4 DEF DeletePolicy, DeleteSchedule, NotPolicies, NotSchedules, logs
  <2>5. CASE ListPolicies \/ ListSchedules
    BY <2>5 DEF ListPolicies, ListSchedules, ListPlans, Queries, tables, logs
  <2> QED BY <1>4, <2>1, <2>2, <2>3, <2>4, <2>5 DEF PlanCalls
<1>5. CASE (\E s \in Contents : SaveSettings(s)) \/ GetSettings
  BY <1>5 DEF SaveSettings, GetSettings, Queries, tables, logs
<1> QED BY <1>1, <1>2, <1>3, <1>4, <1>5 DEF Next

(* Nor does any other call of their own remove one.                        *)
LEMMA OnlyRetention ==
  ASSUME IInv, [Next]_vars,
         ~\E e, l \in 2 .. MaxClock : ApplyRetention(e, l, l)
  PROVE  (~\E i \in Ids : Gone(i)) /\ execution_logs \subseteq execution_logs'
<1>0. Holds(executions, Execution(Instants), used)
  BY DEF IInv, TablesHold
<1>1. CASE UNCHANGED <<executions, execution_logs>>
  BY <1>1 DEF Gone
<1>2. ASSUME NEW i \in Ids, NEW c \in Contents, CreateExecution(i, c)
      PROVE  (~\E j \in Ids : Gone(j)) /\ execution_logs' = execution_logs
  <2>1. /\ executions[i] = None /\ execution_logs' = execution_logs
        /\ \A j \in Ids \ {i} : executions'[j] = executions[j]
    BY <1>0, <1>2 DEF CreateExecution, Inserts, Holds, logs
  <2> QED BY <2>1 DEF Gone
<1>3. ASSUME NEW i \in Ids, NEW c \in Contents, UpdateExecution(i, c)
      PROVE  (~\E j \in Ids : Gone(j)) /\ execution_logs' = execution_logs
  <2>1. /\ execution_logs' = execution_logs
        /\ executions[i] # None => executions' = [executions EXCEPT ![i] = [@ EXCEPT !.content = c]]
        /\ executions[i] = None => executions' = executions
    BY <1>3 DEF UpdateExecution, Affects, logs
  <2>2. executions[i] # None => [executions[i] EXCEPT !.content = c] \in Execution(Instants)
    BY <1>0 DEF Holds, Execution
  <2>3. \A j \in Ids : executions[j] # None => executions'[j] # None
    BY <1>0, <2>1, <2>2, NoneIsNoRow DEF Holds
  <2> QED BY <2>1, <2>3 DEF Gone
<1>4. ASSUME NEW i \in Ids, NEW c \in Contents, NEW nr, NEW t,
             AppendExecutionLog(i, nr, t, c) \/ CreateAuditLog(i, t, c)
      PROVE  (~\E j \in Ids : Gone(j)) /\ execution_logs \subseteq execution_logs'
  BY <1>4 DEF AppendExecutionLog, CreateAuditLog, Gone
<1>5. CASE ListExecutions \/ ListAuditLogs \/ \E i \in Ids : ListExecutionLogs(i)
  BY <1>1, <1>5 DEF ListExecutions, ListAuditLogs, ListExecutionLogs, Queries, tables, logs
<1> QED BY <1>1, <1>2, <1>3, <1>4, <1>5, OthersKeep DEF HistoryCalls

(* Retention by age, as of one statement of the transaction after another. *)
LEMMA RetentionStep ==
  ASSUME IInv, NEW e \in 2 .. MaxClock, NEW l \in 2 .. MaxClock, ApplyRetention(e, l, l)
  PROVE  /\ \A i \in Ids, j \in Memory!Stored(executions') :
              Gone(i) => executions[i].started < executions[j].started
         /\ \A log \in execution_logs' : executions'[log.execution] # None
         /\ \A old, log \in execution_logs :
              /\ log \in execution_logs' /\ executions'[old.execution] # None
              /\ old.at >= log.at
              => old \in execution_logs'
<1>1. /\ Holds(executions, Execution(Instants), used) /\ execution_logs \subseteq Line(Instants)
      /\ executions' = [i \in Ids |-> IF i \in Old(e) THEN None ELSE executions[i]]
      /\ execution_logs' = {log \in execution_logs :
           log.at >= Millis(l) /\ executions'[log.execution] # None}
  BY DEF IInv, TablesHold, ApplyRetention
<1>2. Millis(e) \in Nat /\ Millis(l) \in Nat
  BY InstantsAre
<1>3. ASSUME NEW i \in Ids, NEW j \in Memory!Stored(executions'), Gone(i)
      PROVE  executions[i].started < executions[j].started
  <2>1. i \in Old(e)
    BY <1>1, <1>3 DEF Gone
  <2>2. j \in Ids /\ j \notin Old(e) /\ executions[j] # None
    BY <1>1 DEF Memory!Stored
  <2>3. i \in Ids /\ executions[i] # None /\ executions[i].started < Millis(e)
    BY <1>3, <2>1 DEF Old, Gone
  <2>4. ~(executions[j].started < Millis(e))
    BY <1>1, <2>2 DEF Old, Memory!Stored, Holds
  <2>5. executions[i].started \in Nat /\ executions[j].started \in Nat
    BY <1>1, <2>2, <2>3, InstantsAre DEF Holds, Execution
  <2> QED BY <1>2, <2>3, <2>4, <2>5
<1>4. ASSUME NEW old \in execution_logs, NEW log \in execution_logs,
             log \in execution_logs', executions'[old.execution] # None, old.at >= log.at
      PROVE  old \in execution_logs'
  <2>1. old.at \in Nat /\ log.at \in Nat
    BY <1>1, InstantsAre DEF Line
  <2>2. log.at >= Millis(l)
    BY <1>1, <1>4
  <2>3. old.at >= Millis(l)
    BY <1>2, <1>4, <2>1, <2>2
  <2> QED BY <1>1, <1>4, <2>3
<1> QED BY <1>1, <1>3, <1>4

(* Executions and their lines go by age: what ApplyRetention removes is    *)
(* older than all that stays, or a line whose execution goes; nothing else *)
(* removes any, and no line is left without its execution.                 *)
THEOREM RetentionKeepsTheYoung == Spec => RetentionIsByAge
<1>1. ASSUME IInv, [Next]_vars, (\E i \in Ids : Gone(i)) \/ ~(execution_logs \subseteq execution_logs')
      PROVE  /\ \A i \in Ids, j \in Memory!Stored(executions') :
                  Gone(i) => executions[i].started < executions[j].started
             /\ \A log \in execution_logs' : executions'[log.execution] # None
             /\ \A old, log \in execution_logs :
                  /\ log \in execution_logs' /\ executions'[old.execution] # None
                  /\ old.at >= log.at
                  => old \in execution_logs'
  <2>1. PICK e \in 2 .. MaxClock, l \in 2 .. MaxClock : ApplyRetention(e, l, l)
    BY <1>1, OnlyRetention
  <2> QED BY <1>1, <2>1, RetentionStep
<1>2. IInv /\ [Next]_vars =>
        [ (\E i \in Ids : Gone(i)) \/ ~(execution_logs \subseteq execution_logs') =>
            /\ \A i \in Ids, j \in Memory!Stored(executions') :
                 Gone(i) => executions[i].started < executions[j].started
            /\ \A log \in execution_logs' : executions'[log.execution] # None
            /\ \A old, log \in execution_logs :
                 /\ log \in execution_logs' /\ executions'[old.execution] # None
                 /\ old.at >= log.at
                 => old \in execution_logs' ]_vars
  BY <1>1
<1> QED BY <1>2, Inductive, PTL DEF Spec, RetentionIsByAge
================================================================================
