------------------------ MODULE MemoryRepositoryProofs ------------------------
(***************************************************************************)
(* Proofs about MemoryRepository, for any identifiers, names and contents: *)
(* the maps of users and of servers, and the index by name that each has   *)
(* beside it, never disagree.  SQLiteRepository, which has a unique column *)
(* instead, computes the index from the table and relies on this.          *)
(***************************************************************************)
EXTENDS MemoryRepository, TLAPS

(* A table and its index, whatever the rows are.                           *)
Matches(table, byName, Row) ==
  /\ table \in [Ids -> Row \union {None}]
  /\ byName \in [Names -> Ids \union {None}]
  /\ \A n \in Names, i \in Ids : byName[n] = i <=> table[i] # None /\ table[i].name = n

IInv == Matches(users, usersByName, User) /\ Matches(servers, serverByName, Server)

-----------------------------------------------------------------------------
(* What the calls do to a table and its index.                             *)

(* A row is inserted, or replaced, under a name that no other row has.     *)
LEMMA PutMatches ==
  ASSUME NEW Row, None \notin Row, \A r \in Row : r.name \in Names,
         NEW table, NEW byName, Matches(table, byName, Row),
         NEW i \in Ids, NEW r \in Row, byName[r.name] \in {None, i},
         NEW byName2 \in [Names -> Ids \union {None}],
         \A n \in Names : byName2[n] = IF n = r.name THEN i
                                       ELSE IF table[i] # None /\ n = table[i].name THEN None
                                       ELSE byName[n]
  PROVE  Matches([table EXCEPT ![i] = r], byName2, Row)
<1> DEFINE table2 == [table EXCEPT ![i] = r]
<1>0. /\ table \in [Ids -> Row \union {None}] /\ None \notin Ids
      /\ byName \in [Names -> Ids \union {None}]
      /\ \A n \in Names, j \in Ids : byName[n] = j <=> table[j] # None /\ table[j].name = n
      /\ r.name \in Names
  BY RowsAssumption DEF Matches
<1>1. /\ table2 \in [Ids -> Row \union {None}] /\ table2[i] = r
      /\ \A j \in Ids \ {i} : table2[j] = table[j]
  BY <1>0
<1>2. ASSUME NEW n \in Names, NEW j \in Ids
      PROVE  byName2[n] = j <=> table2[j] # None /\ table2[j].name = n
  <2>1. CASE j = i
    BY <1>0, <1>1, <2>1
  <2>2. CASE j # i
    BY <1>0, <1>1, <2>2
  <2> QED BY <2>1, <2>2
<1> QED BY <1>1, <1>2 DEF Matches

LEMMA DropMatches ==
  ASSUME NEW Row, None \notin Row, \A r \in Row : r.name \in Names,
         NEW table, NEW byName, Matches(table, byName, Row),
         NEW i \in Ids, table[i] # None
  PROVE  Matches([table EXCEPT ![i] = None], [byName EXCEPT ![table[i].name] = None], Row)
<1> DEFINE table2 == [table EXCEPT ![i] = None]
           byName2 == [byName EXCEPT ![table[i].name] = None]
<1>0. /\ table \in [Ids -> Row \union {None}] /\ None \notin Ids
      /\ byName \in [Names -> Ids \union {None}]
      /\ \A n \in Names, j \in Ids : byName[n] = j <=> table[j] # None /\ table[j].name = n
      /\ table[i].name \in Names
  BY RowsAssumption DEF Matches
<1>1. /\ table2 \in [Ids -> Row \union {None}] /\ table2[i] = None
      /\ \A j \in Ids \ {i} : table2[j] = table[j]
      /\ byName2 \in [Names -> Ids \union {None}]
      /\ \A n \in Names : byName2[n] = IF n = table[i].name THEN None ELSE byName[n]
  BY <1>0
<1>2. ASSUME NEW n \in Names, NEW j \in Ids
      PROVE  byName2[n] = j <=> table2[j] # None /\ table2[j].name = n
  <2>1. CASE j = i
    BY <1>0, <1>1, <2>1
  <2>2. CASE j # i
    BY <1>0, <1>1, <2>2
  <2> QED BY <2>1, <2>2
<1> QED BY <1>1, <1>2 DEF Matches

LEMMA Rows ==
  /\ None \notin User /\ \A u \in User : u.name \in Names
  /\ None \notin Server /\ \A s \in Server : s.name \in Names
BY RowsAssumption DEF User, Server

-----------------------------------------------------------------------------
LEMMA InitInv == Init => IInv
BY RowsAssumption DEF Init, IInv, Matches

LEMMA UsersKept ==
  ASSUME IInv, UserCalls
  PROVE  IInv'
<1>0. /\ Matches(users, usersByName, User) /\ Matches(servers, serverByName, Server)
      /\ users \in [Ids -> User \union {None}]
      /\ usersByName \in [Names -> Ids \union {None}] /\ None \notin Ids
  BY RowsAssumption DEF IInv, Matches
<1>1. SUFFICES Matches(users', usersByName', User) /\ UNCHANGED hosts
  BY <1>0 DEF IInv, Matches, hosts
<1>2. ASSUME UNCHANGED <<accounts, NotUsers>>
      PROVE  Matches(users', usersByName', User) /\ UNCHANGED hosts
  BY <1>0, <1>2 DEF accounts, NotUsers
<1>3. ASSUME NEW i \in Ids, NEW u \in User, CreateUser(i, u)
      PROVE  Matches(users', usersByName', User) /\ UNCHANGED hosts
  <2>1. CASE usersByName[u.name] # None
    BY <1>2, <1>3, <2>1 DEF CreateUser, ErrAlreadyExists, Reply
  <2>2. CASE usersByName[u.name] = None
    <3>1. /\ users[i] = None /\ users' = [users EXCEPT ![i] = u]
          /\ usersByName' = [usersByName EXCEPT ![u.name] = i] /\ UNCHANGED hosts
      BY <1>3, <2>2 DEF CreateUser, Found, Reply, NotUsers
    <3>2. /\ usersByName' \in [Names -> Ids \union {None}]
          /\ \A n \in Names : usersByName'[n] = IF n = u.name THEN i
                                       ELSE IF users[i] # None /\ n = users[i].name THEN None
                                       ELSE usersByName[n]
      BY <1>0, <3>1, Rows
    <3>3. Matches([users EXCEPT ![i] = u], usersByName', User)
      BY <1>0, <2>2, <3>2, Rows, PutMatches
    <3> QED BY <3>1, <3>3
  <2> QED BY <2>1, <2>2
<1>4. ASSUME NEW i \in Ids, NEW n \in Names, NEW h \in Hashes \union {None}, NEW c \in Contents,
             UpdateUser(i, [name |-> n, hash |-> h, content |-> c])
      PROVE  Matches(users', usersByName', User) /\ UNCHANGED hosts
  <2> DEFINE u == [name |-> n, hash |-> h, content |-> c]
             w == [u EXCEPT !.hash = IF h = None THEN users[i].hash ELSE h]
  <2>1. CASE UNCHANGED <<accounts, NotUsers>>
    BY <1>2, <2>1
  <2>2. CASE /\ users[i] # None /\ usersByName[n] \in {None, i}
             /\ usersByName' = [usersByName EXCEPT ![users[i].name] = None, ![n] = i]
             /\ users' = [users EXCEPT ![i] = w]
             /\ UNCHANGED hosts
    <3>1. users[i] \in User /\ users[i].name \in Names /\ users[i].hash \in Hashes
      BY <1>0, <2>2 DEF User
    <3>2. w = [name |-> n, hash |-> IF h = None THEN users[i].hash ELSE h, content |-> c]
      OBVIOUS
    <3>3. w \in User /\ w.name = n
      BY <3>1, <3>2 DEF User
    <3> HIDE DEF w
    <3>4. /\ usersByName' \in [Names -> Ids \union {None}]
          /\ \A m \in Names : usersByName'[m] = IF m = w.name THEN i
                                       ELSE IF users[i] # None /\ m = users[i].name THEN None
                                       ELSE usersByName[m]
      BY <1>0, <2>2, <3>1, <3>3
    <3>5. Matches([users EXCEPT ![i] = w], usersByName', User)
      BY <1>0, <2>2, <3>3, <3>4, Rows, PutMatches
    <3> QED BY <2>2, <3>5
  <2> QED BY <1>4, <2>1, <2>2
          DEF UpdateUser, ErrNotFound, ErrAlreadyExists, Done, Reply, NotUsers
<1>5. ASSUME NEW i \in Ids, NEW v \in User, users[i] # None, v.name = users[i].name,
             users' = [users EXCEPT ![i] = v], UNCHANGED <<usersByName, hosts>>
      PROVE  Matches(users', usersByName', User) /\ UNCHANGED hosts
  <2>1. /\ users[i].name \in Names /\ usersByName[v.name] = i
        /\ \A m \in Names : usersByName'[m] = IF m = v.name THEN i
                                       ELSE IF users[i] # None /\ m = users[i].name THEN None
                                       ELSE usersByName[m]
    BY <1>0, <1>5, Rows DEF Matches
  <2>2. Matches([users EXCEPT ![i] = v], usersByName', User)
    BY <1>0, <1>5, <2>1, Rows, PutMatches
  <2> QED BY <1>5, <2>2
<1>6. ASSUME NEW i \in Ids, NEW h \in Hashes, UpdateUserPassword(i, h)
      PROVE  Matches(users', usersByName', User) /\ UNCHANGED hosts
  <2>1. CASE UNCHANGED <<accounts, NotUsers>>
    BY <1>2, <2>1
  <2>2. CASE /\ users[i] # None /\ users' = [users EXCEPT ![i] = [users[i] EXCEPT !.hash = h]]
             /\ UNCHANGED <<usersByName, hosts>>
    <3>1. [users[i] EXCEPT !.hash = h] \in User /\ [users[i] EXCEPT !.hash = h].name = users[i].name
      BY <1>0, <2>2 DEF User
    <3> QED BY <1>5, <2>2, <3>1
  <2> QED BY <1>0, <1>6, <2>1, <2>2
          DEF UpdateUserPassword, SetInUser, ErrNotFound, Done, Reply, NotUsers
<1>7. ASSUME NEW i \in Ids, NEW c \in Contents, UpdateUserContent(i, c)
      PROVE  Matches(users', usersByName', User) /\ UNCHANGED hosts
  <2>1. CASE UNCHANGED <<accounts, NotUsers>>
    BY <1>2, <2>1
  <2>2. CASE /\ users[i] # None /\ users' = [users EXCEPT ![i] = [users[i] EXCEPT !.content = c]]
             /\ UNCHANGED <<usersByName, hosts>>
    <3>1. /\ [users[i] EXCEPT !.content = c] \in User
          /\ [users[i] EXCEPT !.content = c].name = users[i].name
      BY <1>0, <2>2 DEF User
    <3> QED BY <1>5, <2>2, <3>1
  <2> QED BY <1>0, <1>7, <2>1, <2>2
          DEF UpdateUserContent, SetInUser, ErrNotFound, Done, Reply, NotUsers
<1>8. ASSUME NEW i \in Ids, DeleteUser(i)
      PROVE  Matches(users', usersByName', User) /\ UNCHANGED hosts
  <2>1. CASE UNCHANGED <<accounts, NotUsers>>
    BY <1>2, <2>1
  <2>2. CASE /\ users[i] # None /\ users' = [users EXCEPT ![i] = None]
             /\ usersByName' = [usersByName EXCEPT ![users[i].name] = None]
             /\ UNCHANGED hosts
    <3>1. Matches([users EXCEPT ![i] = None], [usersByName EXCEPT ![users[i].name] = None], User)
      BY <1>0, <2>2, Rows, DropMatches
    <3> QED BY <2>2, <3>1
  <2> QED BY <1>8, <2>1, <2>2 DEF DeleteUser, ErrNotFound, Done, Reply, NotUsers
<1>9. ASSUME (\E n \in Names : GetUserByUsername(n)) \/ ListUsers
      PROVE  Matches(users', usersByName', User) /\ UNCHANGED hosts
  <2>1. UNCHANGED <<accounts, NotUsers>>
    BY <1>9 DEF GetUserByUsername, ListUsers, ErrNotFound, Found, Reply
  <2> QED BY <1>2, <2>1
<1> QED BY <1>3, <1>4, <1>6, <1>7, <1>8, <1>9 DEF UserCalls

LEMMA ServersKept ==
  ASSUME IInv, ServerCalls
  PROVE  IInv'
<1>0. /\ Matches(users, usersByName, User) /\ Matches(servers, serverByName, Server)
      /\ servers \in [Ids -> Server \union {None}]
      /\ serverByName \in [Names -> Ids \union {None}] /\ None \notin Ids
      /\ \A n \in Names, i \in Ids :
           serverByName[n] = i <=> servers[i] # None /\ servers[i].name = n
  BY RowsAssumption DEF IInv, Matches
<1>1. SUFFICES Matches(servers', serverByName', Server) /\ UNCHANGED accounts
  BY <1>0 DEF IInv, Matches, accounts
<1>2. ASSUME UNCHANGED <<hosts, NotServers>>
      PROVE  Matches(servers', serverByName', Server) /\ UNCHANGED accounts
  BY <1>0, <1>2 DEF hosts, NotServers
<1>3. ASSUME NEW id \in Ids \union {None}, NEW s \in Server, UpsertServer(id, s)
      PROVE  Matches(servers', serverByName', Server) /\ UNCHANGED accounts
  <2>1. CASE UNCHANGED <<hosts, NotServers>>
    BY <1>2, <2>1
  <2>2. CASE /\ id # None /\ serverByName[s.name] \in {None, id}
             /\ servers' = [servers EXCEPT ![id] = s]
             /\ serverByName' =
                  [n \in Names |-> IF n = s.name THEN id
                                   ELSE IF servers[id] # None /\ n = servers[id].name THEN None
                                   ELSE serverByName[n]]
             /\ UNCHANGED accounts
    <3>1. id \in Ids /\ serverByName' \in [Names -> Ids \union {None}]
      BY <1>0, <2>2
    <3>2. \A n \in Names : serverByName'[n] =
            IF n = s.name THEN id
            ELSE IF servers[id] # None /\ n = servers[id].name THEN None ELSE serverByName[n]
      BY <2>2
    <3>3. Matches([servers EXCEPT ![id] = s], serverByName', Server)
      BY <1>0, <2>2, <3>1, <3>2, Rows, PutMatches
    <3> QED BY <2>2, <3>3
  <2>3. ASSUME NEW i \in Ids, id = None,
               IF serverByName[s.name] = None THEN servers[i] = None ELSE i = serverByName[s.name],
               servers' = [servers EXCEPT ![i] = s],
               serverByName' = [serverByName EXCEPT ![s.name] = i], UNCHANGED accounts
        PROVE  Matches(servers', serverByName', Server) /\ UNCHANGED accounts
    <3>1. serverByName[s.name] \in {None, i} /\ s.name \in Names
      BY <2>3, Rows
    <3>2. servers[i] = None \/ servers[i].name = s.name
      BY <1>0, <2>3, <3>1
    <3>3. /\ serverByName' \in [Names -> Ids \union {None}]
          /\ \A n \in Names : serverByName'[n] =
               IF n = s.name THEN i
               ELSE IF servers[i] # None /\ n = servers[i].name THEN None ELSE serverByName[n]
      BY <1>0, <2>3, <3>1, <3>2
    <3>4. Matches([servers EXCEPT ![i] = s], serverByName', Server)
      BY <1>0, <3>1, <3>3, Rows, PutMatches
    <3> QED BY <2>3, <3>4
  <2> QED BY <1>3, <2>1, <2>2, <2>3 DEF UpsertServer, ErrAlreadyExists, Found, Reply, NotServers
<1>4. ASSUME NEW i \in Ids, DeleteServer(i)
      PROVE  Matches(servers', serverByName', Server) /\ UNCHANGED accounts
  <2>1. CASE UNCHANGED <<hosts, NotServers>>
    BY <1>2, <2>1
  <2>2. CASE /\ servers[i] # None /\ servers' = [servers EXCEPT ![i] = None]
             /\ serverByName' = [serverByName EXCEPT ![servers[i].name] = None]
             /\ UNCHANGED accounts
    <3>1. Matches([servers EXCEPT ![i] = None], [serverByName EXCEPT ![servers[i].name] = None],
                  Server)
      BY <1>0, <2>2, Rows, DropMatches
    <3> QED BY <2>2, <3>1
  <2> QED BY <1>4, <2>1, <2>2 DEF DeleteServer, ErrNotFound, Done, Reply, NotServers
<1>5. ASSUME ListServers
      PROVE  Matches(servers', serverByName', Server) /\ UNCHANGED accounts
  <2>1. UNCHANGED <<hosts, NotServers>>
    BY <1>5 DEF ListServers, Found, Reply
  <2> QED BY <1>2, <2>1
<1> QED BY <1>3, <1>4, <1>5 DEF ServerCalls

(* The other calls touch neither.                                          *)
LEMMA OthersKept ==
  ASSUME IInv,
         PlanCalls \/ HistoryCalls \/ (\E s \in Contents : SaveSettings(s)) \/ GetSettings
           \/ Pass \/ UNCHANGED vars
  PROVE  IInv'
<1>1. ASSUME UNCHANGED <<accounts, hosts>> PROVE IInv'
  BY <1>1 DEF IInv, Matches, accounts, hosts
<1>2. PlanCalls => UNCHANGED <<accounts, hosts>>
  <2>1. ASSUME NEW i \in Ids, NEW n \in Names, NEW c \in Contents,
               CreatePolicy(i, n, c) \/ UpdatePolicy(i, n, c)
        PROVE  UNCHANGED <<accounts, hosts>>
    BY <2>1 DEF CreatePolicy, UpdatePolicy, Done, Found, ErrNotFound, ErrAlreadyExists, Reply,
                NotPlans
  <2>2. ASSUME NEW i \in Ids, NEW n \in Names, NEW c \in Contents,
               CreateSchedule(i, n, c) \/ UpdateSchedule(i, n, c)
        PROVE  UNCHANGED <<accounts, hosts>>
    BY <2>2 DEF CreateSchedule, UpdateSchedule, Done, Found, ErrNotFound, Reply, NotPlans
  <2>3. ASSUME NEW i \in Ids, DeletePolicy(i) \/ DeleteSchedule(i)
        PROVE  UNCHANGED <<accounts, hosts>>
    BY <2>3 DEF DeletePolicy, DeleteSchedule, Done, ErrNotFound, Reply, NotPlans
  <2>4. ListPolicies \/ ListSchedules => UNCHANGED <<accounts, hosts>>
    BY DEF ListPolicies, ListSchedules, ListPlans, Found, Reply, NotPlans
  <2> QED BY <2>1, <2>2, <2>3, <2>4 DEF PlanCalls
<1>3. HistoryCalls => UNCHANGED <<accounts, hosts>>
  BY DEF HistoryCalls, CreateExecution, UpdateExecution, ListExecutions, ListAuditLogs,
         AppendExecutionLog, ListExecutionLogs, CreateAuditLog, ApplyRetention, Done, Found,
         ErrNotFound, Reply, NotHistory
<1>4. (\E s \in Contents : SaveSettings(s)) \/ GetSettings \/ Pass \/ UNCHANGED vars
        => UNCHANGED <<accounts, hosts>>
  BY DEF SaveSettings, GetSettings, Pass, Done, Found, Reply, vars
<1> QED BY <1>1, <1>2, <1>3, <1>4

-----------------------------------------------------------------------------
(* Whatever is created, renamed, replaced and deleted, each name leads to  *)
(* the row that has it and to no other, so that two users or two servers   *)
(* never share a name.                                                     *)
THEOREM IndexesStand == Spec => []IndexesMatch
<1>1. Init => IInv
  BY InitInv
<1>2. IInv /\ [Next]_vars => IInv'
  BY UsersKept, ServersKept, OthersKept DEF Next
<1>3. IInv => IndexesMatch
  BY DEF IInv, Matches, IndexesMatch
<1> QED BY <1>1, <1>2, <1>3, PTL DEF Spec
================================================================================
