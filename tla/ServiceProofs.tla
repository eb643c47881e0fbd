----------------------------- MODULE ServiceProofs -----------------------------
(***************************************************************************)
(* Proofs about Service and the parts of it: the accounts, the gateway and *)
(* the settings, for any users, roles, passwords, lifetimes of tokens,     *)
(* keys, clients, limits, requests and changes.                            *)
(*                                                                         *)
(* Accounts: what a request in flight has read stands as long as nobody    *)
(* marks it late (RowIsFresh, CountIsFresh); a token that shows a role its *)
(* user no longer has is no younger than the loss (SessionInv).  Gateway:  *)
(* an answer that was cached at most a day ago is still there (CacheInv);  *)
(* a login that another may still have to be counted with is remembered    *)
(* (LimiterInv).  Settings: a request that was alone has written, and has  *)
(* saved, what it made of all that was acknowledged before (SettingsInv).  *)
(***************************************************************************)
EXTENDS Service, Sequences, FiniteSetTheorems, TLAPS

-----------------------------------------------------------------------------
(* The accounts.                                                           *)

UpdateRequest == [do : {"update"}, id : Ids, row : User, late : BOOLEAN]
DeleteRequest == [do : {"delete"}, id : Ids, late : BOOLEAN]
OtherRequest  == [do : {"password"}, id : Ids, hash : Hashes]
                   \union [do : {"issue"}, id : Ids, role : Roles]

(* A row that an update has read has the password that is stored.          *)
RowIsFresh ==
  \A r \in Requests : requests[r] # None /\ requests[r].do = "update" =>
    /\ requests[r].id \in used
    /\ ~requests[r].late /\ users[requests[r].id] # None =>
         requests[r].row.hash = users[requests[r].id].hash

(* The administrators that a delete has counted are not the user alone.    *)
CountIsFresh ==
  \A r \in Requests : requests[r] # None /\ requests[r].do = "delete" /\ ~requests[r].late =>
    Admins # {requests[r].id}

Has(i, role) == users[i] # None /\ users[i].role = role
WillHave(i, role) == users'[i] # None /\ users'[i].role = role

SessionInv ==
  /\ \A t \in pairs : t.at <= clock
  /\ \A t \in pairs : Live(t) =>
       \/ Has(t.user, t.role)
       \/ lost[t.user][t.role] # None /\ t.at <= lost[t.user][t.role]
  /\ \A r \in Requests : requests[r] # None /\ requests[r].do = "issue" =>
       Has(requests[r].id, requests[r].role) \/ lost[requests[r].id][requests[r].role] = clock

IInv == TypeOK /\ RowIsFresh /\ CountIsFresh /\ PasswordStands /\ SessionInv

-----------------------------------------------------------------------------
(* Facts about requests.                                                   *)

LEMMA RequestKinds ==
  /\ Request = UpdateRequest \union DeleteRequest \union OtherRequest
  /\ None \notin Request /\ None \notin User /\ None \notin 0 .. MaxClock
BY NoneAssumption DEF Request, UpdateRequest, DeleteRequest, OtherRequest

LEMMA RequestFields ==
  ASSUME NEW q \in Request
  PROVE  /\ q.id \in Ids
         /\ q.do = "update" <=> q \in UpdateRequest
         /\ q.do = "delete" <=> q \in DeleteRequest
         /\ q \in UpdateRequest => q.row \in User /\ q.late \in BOOLEAN
         /\ q \in DeleteRequest => q.late \in BOOLEAN
         /\ q.do = "password" => q.hash \in Hashes
         /\ q.do = "issue" => q.role \in Roles
         /\ "late" \in DOMAIN q <=> q \in UpdateRequest \union DeleteRequest
BY RequestKinds DEF UpdateRequest, DeleteRequest, OtherRequest

(* The step of another request leaves a request as it is, but for late.    *)
SameButLate(q, p) ==
  /\ q \in Request /\ p \in Request
  /\ q.do = p.do /\ q.id = p.id
  /\ q.do = "update" => q.row = p.row
  /\ q.do = "issue" => q.role = p.role

LEMMA Overtakes ==
  ASSUME TypeOK, NEW r \in Requests, requests' = Overtaken(r)
  PROVE  /\ requests' \in [Requests -> Request \union {None}]
         /\ requests'[r] = None
         /\ \A q \in Requests : requests'[q] # None =>
              /\ q # r /\ requests[q] # None
              /\ SameButLate(requests'[q], requests[q])
              /\ requests[q].do = "update" /\ ~requests'[q].late =>
                   ~requests[q].late /\ ~Rehashed(requests[q].id)
              /\ requests[q].do = "delete" /\ ~requests'[q].late =>
                   ~requests[q].late /\ Admins' = Admins
<1> DEFINE late(q) == \/ requests[q].late
                      \/ requests[q].do = "delete" /\ Admins' # Admins
                      \/ requests[q].do = "update" /\ Rehashed(requests[q].id)
<1>1. ASSUME NEW q \in Requests, requests'[q] # None
      PROVE  /\ q # r /\ requests[q] # None /\ requests[q] \in Request
             /\ \/ requests[q] \in UpdateRequest \union DeleteRequest
                   /\ requests'[q] = [requests[q] EXCEPT !.late = late(q)]
                \/ requests[q] \in OtherRequest /\ requests'[q] = requests[q]
  <2>1. q # r /\ requests[q] # None /\ requests[q] \in Request
    BY <1>1 DEF Overtaken, TypeOK
  <2>2. CASE "late" \in DOMAIN requests[q]
    <3>1. requests'[q] = [requests[q] EXCEPT !.late = late(q)]
      BY <2>1, <2>2 DEF Overtaken
    <3> QED BY <2>1, <2>2, <3>1, RequestFields
  <2>3. CASE "late" \notin DOMAIN requests[q]
    <3>1. requests'[q] = requests[q]
      BY <2>1, <2>3 DEF Overtaken
    <3> QED BY <2>1, <2>3, <3>1, RequestFields, RequestKinds
  <2> QED BY <2>2, <2>3
<1>2. ASSUME NEW q \in Requests, requests'[q] # None
      PROVE  /\ requests'[q] \in Request
             /\ SameButLate(requests'[q], requests[q])
             /\ requests[q].do = "update" /\ ~requests'[q].late =>
                  ~requests[q].late /\ ~Rehashed(requests[q].id)
             /\ requests[q].do = "delete" /\ ~requests'[q].late =>
                  ~requests[q].late /\ Admins' = Admins
  <2> DEFINE l == late(q)
  <2>0. l \in BOOLEAN
    <3>1. requests[q] \in UpdateRequest \union DeleteRequest => requests[q].late \in BOOLEAN
      BY <1>1, <1>2, RequestFields
    <3> QED BY <3>1
  <2>1. CASE requests[q] \in UpdateRequest /\ requests'[q] = [requests[q] EXCEPT !.late = l]
    <3> HIDE DEF l
    <3>1. requests'[q] \in UpdateRequest /\ requests'[q].late = l
          /\ requests'[q].do = "update" /\ requests[q].do = "update"
          /\ requests'[q].id = requests[q].id /\ requests'[q].row = requests[q].row
      BY <2>0, <2>1 DEF UpdateRequest
    <3>2. ~l => ~requests[q].late /\ ~Rehashed(requests[q].id)
      BY <3>1 DEF l
    <3> QED BY <3>1, <3>2, <1>1, <1>2, RequestKinds DEF SameButLate
  <2>2. CASE requests[q] \in DeleteRequest /\ requests'[q] = [requests[q] EXCEPT !.late = l]
    <3> HIDE DEF l
    <3>1. requests'[q] \in DeleteRequest /\ requests'[q].late = l
          /\ requests'[q].do = "delete" /\ requests[q].do = "delete"
          /\ requests'[q].id = requests[q].id
      BY <2>0, <2>2 DEF DeleteRequest
    <3>2. ~l => ~requests[q].late /\ Admins' = Admins
      BY <3>1 DEF l
    <3> QED BY <3>1, <3>2, <1>1, <1>2, RequestKinds DEF SameButLate
  <2>3. CASE requests[q] \in OtherRequest /\ requests'[q] = requests[q]
    BY <2>3, RequestKinds DEF SameButLate, OtherRequest
  <2> QED BY <1>1, <1>2, <2>1, <2>2, <2>3
<1>3. requests' \in [Requests -> Request \union {None}] /\ requests'[r] = None
  BY <1>2 DEF Overtaken
<1> QED BY <1>1, <1>2, <1>3
(* What a handler's first call makes of the request.                       *)
LEMMA Asked ==
  ASSUME TypeOK, NEW r \in Requests, NEW q \in Request \union {None},
         requests' = [requests EXCEPT ![r] = q]
  PROVE  /\ requests' \in [Requests -> Request \union {None}]
         /\ requests'[r] = q
         /\ \A p \in Requests \ {r} : requests'[p] = requests[p]
BY DEF TypeOK

-----------------------------------------------------------------------------
(* The types of the variables.                                             *)

LEMMA InitIInv == Init => IInv
<1> SUFFICES ASSUME Init PROVE IInv
  OBVIOUS
<1>0. PICK i \in Ids :
        /\ users = [j \in Ids |-> IF j # i THEN None
                                  ELSE [name |-> Bootstrap, role |-> "admin", hash |-> FirstHash]]
        /\ used = {i}
        /\ passwords = [j \in Ids |-> IF j = i THEN FirstHash ELSE None]
  BY DEF Init
<1>1. TypeOK
  BY <1>0, AccountsAssumption DEF Init, TypeOK, User
<1>2. RowIsFresh /\ CountIsFresh /\ SessionInv
  BY DEF Init, RowIsFresh, CountIsFresh, SessionInv
<1>3. PasswordStands
  BY <1>0 DEF PasswordStands, Stored
<1> QED BY <1>1, <1>2, <1>3 DEF IInv

(* A loss is noted at the time of the clock.                               *)
LEMMA LosesType ==
  ASSUME TypeOK, NEW i \in Ids, NEW role \in Roles, Loses(i, role)
  PROVE  /\ lost' \in [Ids -> [Roles -> 0 .. MaxClock \union {None}]]
         /\ lost'[i][role] = clock
         /\ \A j \in Ids, any \in Roles : j # i \/ any # role => lost'[j][any] = lost[j][any]
BY DEF TypeOK, Loses

(* What the requests ask for is of the right type.                         *)
LEMMA WorkloadType ==
  ASSUME TypeOK
  PROVE  /\ given.names \subseteq Names /\ given.roles \subseteq Roles
         /\ given.hashes \subseteq Hashes /\ given.last \in 0 .. MaxClock
BY WorkloadsAssumption DEF TypeOK, Workload

LEMMA UserType ==
  ASSUME TypeOK, NEW i \in Ids, users[i] # None
  PROVE  users[i] \in User /\ users[i].role \in Roles /\ users[i].hash \in Hashes
BY DEF TypeOK, User

(* The actions, with what a proof needs to know of each.                   *)
LEMMA NextCases ==
  ASSUME TypeOK, [Next]_vars, NEW ACTION G,
         \A r \in Requests, i \in Ids, u \in User : CreateUser(r, i, u) => G,
         \A r \in Requests, i \in Ids, n \in Names \union {None}, o \in Roles \union {None} :
           ReadUpdate(r, i, n, o) => G,
         \A r \in Requests, i \in Ids : CountAdmins(r, i) => G,
         \A r \in Requests, i \in Ids, h \in Hashes : SetPassword(r, i, h) => G,
         \A r \in Requests, i \in Ids, h \in Hashes : CheckOldPassword(r, i, h) => G,
         \A r \in Requests : WriteUpdate(r) => G,
         \A r \in Requests : DeleteUser(r) => G,
         \A r \in Requests :
           requests' = [requests EXCEPT ![r] = None] /\ UNCHANGED <<rows, pairs, clock, history>> => G,
         \A r \in Requests, i \in Ids : Login(r, i) => G,
         \A r \in Requests : Issue(r) => G,
         \A i \in Ids : Restart(i) => G,
         Tick => G,
         UNCHANGED vars => G
  PROVE  G
<1>1. CASE UserRequests
  <2>1. ASSUME NEW r \in Requests, NEW i \in Ids, NEW n \in given.names, NEW o \in given.roles,
               NEW h \in given.hashes, CreateUser(r, i, [name |-> n, role |-> o, hash |-> h])
        PROVE  G
    <3>1. [name |-> n, role |-> o, hash |-> h] \in User
      BY WorkloadType DEF User
    <3> QED BY <2>1, <3>1
  <2>2. ASSUME NEW r \in Requests, SetMyPassword(r) PROVE G
    <3>1. requests[r] \in Request /\ requests[r].do = "password"
      BY <2>2 DEF SetMyPassword, Free, TypeOK
    <3>2. requests[r].id \in Ids /\ requests[r].hash \in Hashes
      BY <3>1, RequestFields
    <3> QED BY <2>2, <3>2 DEF SetMyPassword
  <2> QED BY <1>1, <2>1, <2>2, WorkloadType DEF UserRequests, ResetPassword
<1>2. CASE SessionRequests
  <2>1. ASSUME NEW r \in Requests, NEW t \in pairs, Refresh(r, t) PROVE G
    <3>1. t.user \in Ids
      BY DEF TypeOK, Pair
    <3>2. Login(r, t.user)
      BY <2>1 DEF Refresh, Login
    <3> QED BY <3>1, <3>2
  <2> QED BY <1>2, <2>1 DEF SessionRequests
<1> QED BY <1>1, <1>2 DEF Next

LEMMA NextTypeOK == IInv /\ [Next]_vars => TypeOK'
<1> SUFFICES ASSUME IInv, [Next]_vars PROVE TypeOK'
  OBVIOUS
<1>a. TypeOK
  BY DEF IInv
<1> USE <1>a
<1>1. ASSUME NEW r \in Requests, NEW i \in Ids, NEW u \in User, CreateUser(r, i, u)
      PROVE  TypeOK'
  <2>1. requests' \in [Requests -> Request \union {None}]
    BY <1>1, Overtakes DEF CreateUser
  <2>2. users' \in [Ids -> User \union {None}]
    BY <1>1 DEF CreateUser, TypeOK
  <2>3. passwords' \in [Ids -> Hashes \union {None}]
    BY <1>1 DEF CreateUser, TypeOK, User
  <2>4. used' \subseteq Ids /\ \A j \in Ids : users'[j] # None => j \in used'
    BY <1>1 DEF CreateUser, TypeOK
  <2> QED BY <1>1, <2>1, <2>2, <2>3, <2>4 DEF CreateUser, TypeOK
<1>2. ASSUME NEW r \in Requests, NEW q \in Request \union {None},
             requests' = [requests EXCEPT ![r] = q], UNCHANGED <<rows, pairs, clock, history>>
      PROVE  TypeOK'
  BY <1>2, Asked DEF TypeOK, rows, history
<1>3. ASSUME NEW r \in Requests, NEW i \in Ids, NEW n \in Names \union {None},
             NEW o \in Roles \union {None}, ReadUpdate(r, i, n, o)
      PROVE  TypeOK'
  <2> DEFINE made == [users[i] EXCEPT !.name = IF n = None THEN @ ELSE n,
                                     !.role = IF o = None THEN @ ELSE o]
             q == [do |-> "update", id |-> i, late |-> FALSE, row |-> made]
  <2>1. users[i] \in User
    BY <1>3, UserType DEF ReadUpdate
  <2>2. made \in User
    BY <2>1 DEF User
  <2>3. q \in Request
    BY <2>2 DEF Request
  <2> QED BY <1>2, <1>3, <2>3 DEF ReadUpdate
<1>4. ASSUME NEW r \in Requests, NEW i \in Ids, CountAdmins(r, i) PROVE TypeOK'
  <2>1. [do |-> "delete", id |-> i, late |-> FALSE] \in Request
    BY DEF Request
  <2> QED BY <1>2, <1>4, <2>1 DEF CountAdmins
<1>5. ASSUME NEW r \in Requests, NEW i \in Ids, NEW h \in Hashes, SetPassword(r, i, h)
      PROVE  TypeOK'
  <2>1. requests' \in [Requests -> Request \union {None}]
    BY <1>5, Overtakes DEF SetPassword
  <2>2. users[i] \in User
    BY <1>5, UserType DEF SetPassword
  <2>3. [users[i] EXCEPT !.hash = h] \in User
    BY <2>2 DEF User
  <2>4. users' \in [Ids -> User \union {None}]
        /\ \A j \in Ids : users'[j] # None => users[j] # None
    BY <1>5, <2>3 DEF SetPassword, TypeOK
  <2>5. passwords' \in [Ids -> Hashes \union {None}]
    BY <1>5 DEF SetPassword, TypeOK
  <2> QED BY <1>5, <2>1, <2>4, <2>5 DEF SetPassword, TypeOK
<1>6. ASSUME NEW r \in Requests, NEW i \in Ids, NEW h \in Hashes, CheckOldPassword(r, i, h)
      PROVE  TypeOK'
  <2>1. [do |-> "password", id |-> i, hash |-> h] \in Request
    BY DEF Request
  <2> QED BY <1>2, <1>6, <2>1 DEF CheckOldPassword
<1>7. ASSUME NEW r \in Requests, WriteUpdate(r) PROVE TypeOK'
  <2> DEFINE i == requests[r].id
             made == requests[r].row
  <2>1. i \in Ids /\ made \in User
    BY <1>7, RequestFields DEF WriteUpdate, Free, TypeOK
  <2>2. CASE users[i] = None \/ Named(made.name) \ {i} # {}
    BY <1>2, <1>7, <2>2 DEF WriteUpdate, rows, history
  <2>3. CASE ~(users[i] = None \/ Named(made.name) \ {i} # {})
    <3>1. /\ users' = [users EXCEPT ![i] = made]
          /\ raced' = IF requests[r].late THEN raced \union {i} ELSE raced
          /\ requests' = Overtaken(r)
          /\ IF made.role = users[i].role THEN lost' = lost ELSE Loses(i, users[i].role)
          /\ UNCHANGED <<given, used, pairs, clock, passwords>>
      BY <1>7, <2>3 DEF WriteUpdate
    <3>2. requests' \in [Requests -> Request \union {None}]
      BY <3>1, Overtakes
    <3>3. users' \in [Ids -> User \union {None}]
          /\ \A j \in Ids : users'[j] # None => users[j] # None
      BY <2>1, <2>3, <3>1 DEF TypeOK
    <3>4. raced' \subseteq Ids
      BY <2>1, <3>1 DEF TypeOK
    <3>5. lost' \in [Ids -> [Roles -> 0 .. MaxClock \union {None}]]
      <4>1. users[i].role \in Roles
        BY <2>1, <2>3, UserType
      <4> QED BY <2>1, <3>1, <4>1, LosesType DEF TypeOK
    <3> QED BY <3>1, <3>2, <3>3, <3>4, <3>5 DEF TypeOK
  <2> QED BY <2>2, <2>3
<1>8. ASSUME NEW r \in Requests, DeleteUser(r) PROVE TypeOK'
  <2> DEFINE i == requests[r].id
  <2>1. i \in Ids
    BY <1>8, RequestFields DEF DeleteUser, Free, TypeOK
  <2>2. CASE users[i] = None
    BY <1>2, <1>8, <2>2 DEF DeleteUser, rows, history
  <2>3. CASE users[i] # None
    <3>1. /\ users' = [users EXCEPT ![i] = None]
          /\ requests' = Overtaken(r)
          /\ Loses(i, users[i].role)
          /\ UNCHANGED <<given, used, pairs, clock, passwords, raced>>
      BY <1>8, <2>3 DEF DeleteUser
    <3>2. requests' \in [Requests -> Request \union {None}]
      BY <3>1, Overtakes
    <3>3. users' \in [Ids -> User \union {None}]
          /\ \A j \in Ids : users'[j] # None => users[j] # None
      BY <2>1, <3>1 DEF TypeOK
    <3>4. lost' \in [Ids -> [Roles -> 0 .. MaxClock \union {None}]]
      BY <2>1, <2>3, <3>1, UserType, LosesType
    <3> QED BY <3>1, <3>2, <3>3, <3>4 DEF TypeOK
  <2> QED BY <2>2, <2>3
<1>9. ASSUME NEW r \in Requests, NEW i \in Ids, Login(r, i) PROVE TypeOK'
  <2>1. users[i].role \in Roles
    BY <1>9, UserType DEF Login
  <2>2. [do |-> "issue", id |-> i, role |-> users[i].role] \in Request
    BY <2>1 DEF Request
  <2> QED BY <1>2, <1>9, <2>2 DEF Login
<1>10. ASSUME NEW r \in Requests, Issue(r) PROVE TypeOK'
  <2>1. requests[r].id \in Ids /\ requests[r].role \in Roles
    BY <1>10, RequestFields DEF Issue, Free, TypeOK
  <2>2. pairs' \subseteq Pair
    BY <1>10, <2>1 DEF Issue, TypeOK, Pair
  <2>3. requests' \in [Requests -> Request \union {None}]
    BY <1>10, Asked DEF Issue
  <2> QED BY <1>10, <2>2, <2>3 DEF Issue, TypeOK, rows, history
<1>11. ASSUME NEW i \in Ids, Restart(i) PROVE TypeOK'
  <2>1. [name |-> Bootstrap, role |-> "admin", hash |-> FirstHash] \in User
    BY AccountsAssumption DEF User
  <2> QED BY <1>11, <2>1, AccountsAssumption DEF Restart, EnsureAdmin, TypeOK
<1>12. CASE Tick
  <2>1. clock' \in 0 .. MaxClock
    <3>1. clock \in Nat /\ given.last \in Nat /\ given.last <= MaxClock /\ clock < given.last
          /\ clock' = clock + 1 /\ MaxClock \in Nat
      BY <1>12, WorkloadType, AccountsAssumption DEF Tick, TypeOK
    <3> QED BY ONLY <3>1, SMT
  <2> QED BY <1>12, <2>1 DEF Tick, TypeOK, rows
<1>13. CASE UNCHANGED vars
  BY <1>13 DEF vars, rows, history, TypeOK
<1> QED BY <1>1, <1>2, <1>3, <1>4, <1>5, <1>6, <1>7, <1>8, <1>9, <1>10, <1>11, <1>12, <1>13,
     NextCases
-----------------------------------------------------------------------------
(* What requests have read.                                                *)

LEMMA RowStaysFresh ==
  ASSUME TypeOK, RowIsFresh, NEW r \in Requests, requests' = Overtaken(r),
         used \subseteq used', \A j \in used : users'[j] # None => users[j] # None
  PROVE  RowIsFresh'
<1> SUFFICES ASSUME NEW q \in Requests, requests'[q] # None, requests'[q].do = "update"
             PROVE  /\ requests'[q].id \in used'
                    /\ ~requests'[q].late /\ users'[requests'[q].id] # None =>
                         requests'[q].row.hash = users'[requests'[q].id].hash
  BY DEF RowIsFresh
<1>1. /\ requests[q] # None /\ requests[q].do = "update" /\ requests'[q].id = requests[q].id
      /\ requests'[q].row = requests[q].row
      /\ ~requests'[q].late => ~requests[q].late /\ ~Rehashed(requests[q].id)
  BY Overtakes DEF SameButLate
<1>2. requests[q].id \in used
  BY <1>1 DEF RowIsFresh
<1> QED BY <1>1, <1>2 DEF RowIsFresh, Rehashed

LEMMA CountStaysFresh ==
  ASSUME TypeOK, CountIsFresh, NEW r \in Requests, requests' = Overtaken(r)
  PROVE  CountIsFresh'
BY Overtakes DEF CountIsFresh, SameButLate

LEMMA NextFresh == IInv /\ [Next]_vars => RowIsFresh' /\ CountIsFresh'
<1> SUFFICES ASSUME IInv, [Next]_vars PROVE RowIsFresh' /\ CountIsFresh'
  OBVIOUS
<1> DEFINE G == RowIsFresh' /\ CountIsFresh'
<1>a. TypeOK /\ RowIsFresh /\ CountIsFresh
  BY DEF IInv
<1> USE <1>a
<1>1. ASSUME NEW r \in Requests, NEW i \in Ids, NEW u \in User, CreateUser(r, i, u) PROVE G
  <2>1. used \subseteq used' /\ \A j \in used : users'[j] # None => users[j] # None
    BY <1>1 DEF CreateUser, TypeOK
  <2> QED BY <1>1, <2>1, RowStaysFresh, CountStaysFresh DEF CreateUser
<1>2. ASSUME NEW r \in Requests, NEW q \in Request \union {None},
             requests' = [requests EXCEPT ![r] = q], UNCHANGED <<users, used>>,
             q # None /\ q.do = "update" =>
               q.id \in used /\ (users[q.id] # None => q.row.hash = users[q.id].hash),
             q # None /\ q.do = "delete" => Admins # {q.id}
      PROVE  G
  <2>1. /\ requests'[r] = q
        /\ \A p \in Requests \ {r} : requests'[p] = requests[p]
    BY <1>2, Asked
  <2>2. RowIsFresh'
    BY <1>2, <2>1 DEF RowIsFresh
  <2>3. CountIsFresh'
    BY <1>2, <2>1 DEF CountIsFresh, Admins, Stored
  <2> QED BY <2>2, <2>3
<1>3. ASSUME NEW r \in Requests, NEW i \in Ids, NEW n \in Names \union {None},
             NEW o \in Roles \union {None}, ReadUpdate(r, i, n, o)
      PROVE  G
  <2> DEFINE made == [users[i] EXCEPT !.name = IF n = None THEN @ ELSE n,
                                     !.role = IF o = None THEN @ ELSE o]
             q == [do |-> "update", id |-> i, late |-> FALSE, row |-> made]
  <2>1. users[i] \in User
    BY <1>3, UserType DEF ReadUpdate
  <2>2. made \in User /\ made.hash = users[i].hash
    BY <2>1 DEF User
  <2>3. q \in Request /\ q.id \in used
    BY <1>3, <2>2 DEF Request, ReadUpdate, TypeOK
  <2> QED BY <1>2, <1>3, <2>2, <2>3 DEF ReadUpdate, rows
<1>4. ASSUME NEW r \in Requests, NEW i \in Ids, CountAdmins(r, i) PROVE G
  <2>1. [do |-> "delete", id |-> i, late |-> FALSE] \in Request
    BY DEF Request
  <2> QED BY <1>2, <1>4, <2>1 DEF CountAdmins, rows
<1>5. ASSUME NEW r \in Requests, NEW i \in Ids, NEW h \in Hashes, SetPassword(r, i, h) PROVE G
  <2>1. used \subseteq used' /\ \A j \in used : users'[j] # None => users[j] # None
    BY <1>5 DEF SetPassword, TypeOK
  <2> QED BY <1>5, <2>1, RowStaysFresh, CountStaysFresh DEF SetPassword
<1>6. ASSUME NEW r \in Requests, NEW i \in Ids, NEW h \in Hashes, CheckOldPassword(r, i, h)
      PROVE  G
  <2>1. [do |-> "password", id |-> i, hash |-> h] \in Request
    BY DEF Request
  <2> QED BY <1>2, <1>6, <2>1 DEF CheckOldPassword, rows
<1>7. ASSUME NEW r \in Requests, WriteUpdate(r) PROVE G
  <2>1. CASE requests' = [requests EXCEPT ![r] = None] /\ users' = users
    BY <1>2, <1>7, <2>1 DEF WriteUpdate
  <2>2. CASE requests' = Overtaken(r)
    <3>1. requests[r].id \in Ids
      BY <1>7, RequestFields DEF WriteUpdate, Free, TypeOK
    <3>2. used \subseteq used' /\ \A j \in used : users'[j] # None => users[j] # None
      BY <1>7, <3>1 DEF WriteUpdate, TypeOK
    <3> QED BY <2>2, <3>2, RowStaysFresh, CountStaysFresh
  <2> QED BY <1>7, <2>1, <2>2 DEF WriteUpdate
<1>8. ASSUME NEW r \in Requests, DeleteUser(r) PROVE G
  <2>1. CASE requests' = [requests EXCEPT ![r] = None] /\ users' = users
    BY <1>2, <1>8, <2>1 DEF DeleteUser
  <2>2. CASE requests' = Overtaken(r)
    <3>1. used \subseteq used' /\ \A j \in used : users'[j] # None => users[j] # None
      BY <1>8 DEF DeleteUser, TypeOK
    <3> QED BY <2>2, <3>1, RowStaysFresh, CountStaysFresh
  <2> QED BY <1>8, <2>1, <2>2 DEF DeleteUser
<1>9. ASSUME NEW r \in Requests, NEW i \in Ids, Login(r, i) PROVE G
  <2>1. users[i].role \in Roles
    BY <1>9, UserType DEF Login
  <2>2. [do |-> "issue", id |-> i, role |-> users[i].role] \in Request
    BY <2>1 DEF Request
  <2> QED BY <1>2, <1>9, <2>2 DEF Login, rows
<1>10. ASSUME NEW r \in Requests, Issue(r) PROVE G
  BY <1>2, <1>10 DEF Issue, rows
<1>11. ASSUME NEW r \in Requests, requests' = [requests EXCEPT ![r] = None],
              UNCHANGED <<rows, pairs, clock, history>>
       PROVE  G
  BY <1>2, <1>11 DEF rows
<1>12. ASSUME NEW i \in Ids, Restart(i) PROVE G
  BY <1>12 DEF Restart, RowIsFresh, CountIsFresh
<1>13. ASSUME UNCHANGED <<users, used, requests>> PROVE G
  BY <1>13 DEF RowIsFresh, CountIsFresh, Admins, Stored
<1>14. Tick \/ UNCHANGED vars => G
  BY <1>13 DEF Tick, vars, rows
<1> HIDE DEF G
<1>15. G
  BY <1>1, <1>3, <1>4, <1>5, <1>6, <1>7, <1>8, <1>9, <1>10, <1>11, <1>12, <1>14, NextCases
<1> QED BY <1>15 DEF G

-----------------------------------------------------------------------------
(* The passwords.                                                          *)
LEMMA NextPasswordStands == IInv /\ [Next]_vars => PasswordStands'
<1> SUFFICES ASSUME IInv, [Next]_vars PROVE PasswordStands'
  OBVIOUS
<1>a. TypeOK /\ RowIsFresh /\ PasswordStands
  BY DEF IInv
<1> USE <1>a DEF PasswordStands, Stored
<1>1. ASSUME UNCHANGED <<users, passwords, raced>> PROVE PasswordStands'
  BY <1>1
<1>2. ASSUME NEW r \in Requests, NEW i \in Ids, NEW u \in User, CreateUser(r, i, u)
      PROVE  PasswordStands'
  BY <1>2 DEF CreateUser, TypeOK
<1>3. ASSUME NEW r \in Requests, NEW i \in Ids, NEW h \in Hashes, SetPassword(r, i, h)
      PROVE  PasswordStands'
  <2>1. users[i] \in User
    BY <1>3, UserType DEF SetPassword
  <2>2. users'[i].hash = h /\ \A j \in Ids \ {i} : users'[j] = users[j]
    BY <1>3, <2>1 DEF SetPassword, TypeOK, User
  <2> QED BY <1>3, <2>2 DEF SetPassword, TypeOK
<1>4. ASSUME NEW r \in Requests, WriteUpdate(r) PROVE PasswordStands'
  <2> DEFINE i == requests[r].id
  <2>1. i \in Ids
    BY <1>4, RequestFields DEF WriteUpdate, Free, TypeOK
  <2>2. CASE users' = users /\ raced' = raced
    BY <1>1, <1>4, <2>2 DEF WriteUpdate
  <2>3. CASE /\ users[i] # None
             /\ users' = [users EXCEPT ![i] = requests[r].row]
             /\ raced' = IF requests[r].late THEN raced \union {i} ELSE raced
    <3>1. ~requests[r].late => requests[r].row.hash = users[i].hash
      BY <1>4, <2>3 DEF WriteUpdate, Free, RowIsFresh
    <3> QED BY <1>4, <2>1, <2>3, <3>1 DEF WriteUpdate, TypeOK
  <2> QED BY <1>4, <2>2, <2>3 DEF WriteUpdate
<1>5. ASSUME NEW r \in Requests, DeleteUser(r) PROVE PasswordStands'
  BY <1>5 DEF DeleteUser, TypeOK
<1>6. ASSUME NEW i \in Ids, Restart(i) PROVE PasswordStands'
  <2>1. [name |-> Bootstrap, role |-> "admin", hash |-> FirstHash].hash = FirstHash
    OBVIOUS
  <2> QED BY <1>6, <2>1 DEF Restart, EnsureAdmin, TypeOK
<1>7. ASSUME UNCHANGED <<rows, history>> PROVE PasswordStands'
  BY <1>1, <1>7 DEF rows, history
<1>8. \A r \in Requests, i \in Ids, n \in Names \union {None}, o \in Roles \union {None} :
        ReadUpdate(r, i, n, o) => PasswordStands'
  BY <1>7 DEF ReadUpdate
<1>9. \A r \in Requests, i \in Ids :
        /\ CountAdmins(r, i) \/ Login(r, i) => PasswordStands'
        /\ \A h \in Hashes : CheckOldPassword(r, i, h) => PasswordStands'
  BY <1>7 DEF CountAdmins, Login, CheckOldPassword
<1>10. \A r \in Requests :
         /\ Issue(r) => PasswordStands'
         /\ requests' = [requests EXCEPT ![r] = None] /\ UNCHANGED <<rows, pairs, clock, history>>
              => PasswordStands'
  BY <1>7 DEF Issue
<1>11. Tick \/ UNCHANGED vars => PasswordStands'
  BY <1>1 DEF Tick, vars, rows, history
<1> HIDE DEF PasswordStands
<1> QED BY <1>2, <1>3, <1>4, <1>5, <1>6, <1>8, <1>9, <1>10, <1>11, NextCases
-----------------------------------------------------------------------------
(* The tokens.                                                             *)

(* A step gives out no token: whoever ceases to have a role is noted.      *)
LEMMA SessionsStay ==
  ASSUME TypeOK, SessionInv, pairs' = pairs, clock' = clock,
         \A i \in Ids, role \in Roles :
           /\ lost'[i][role] = lost[i][role] \/ lost'[i][role] = clock
           /\ Has(i, role) => WillHave(i, role) \/ lost'[i][role] = clock,
         \A q \in Requests : requests'[q] # None /\ requests'[q].do = "issue" =>
           /\ requests'[q].id \in Ids /\ requests'[q].role \in Roles
           /\ \/ WillHave(requests'[q].id, requests'[q].role)
              \/ /\ requests[q] # None /\ requests[q].do = "issue"
                 /\ requests'[q].id = requests[q].id
                 /\ requests'[q].role = requests[q].role
  PROVE  SessionInv'
<1>1. clock \in Nat /\ clock # None
  BY RequestKinds DEF TypeOK
<1>2. ASSUME NEW t \in pairs, Live(t)
      PROVE  \/ WillHave(t.user, t.role)
             \/ lost'[t.user][t.role] # None /\ t.at <= lost'[t.user][t.role]
  <2>1. t.user \in Ids /\ t.role \in Roles /\ t.at <= clock
    BY DEF TypeOK, Pair, SessionInv
  <2>2. CASE Has(t.user, t.role)
    BY <1>1, <2>1, <2>2
  <2>3. CASE lost[t.user][t.role] # None /\ t.at <= lost[t.user][t.role]
    BY <1>1, <2>1, <2>3
  <2> QED BY <1>2, <2>2, <2>3 DEF SessionInv
<1>3. \A q \in Requests : requests'[q] # None /\ requests'[q].do = "issue" =>
        \/ WillHave(requests'[q].id, requests'[q].role)
        \/ lost'[requests'[q].id][requests'[q].role] = clock
  BY DEF SessionInv
<1>4. \A t \in pairs' : Live(t)' <=> Live(t)
  BY DEF Live
<1> QED BY <1>2, <1>3, <1>4 DEF SessionInv, Has, WillHave

LEMMA NextSessionInv == IInv /\ [Next]_vars => SessionInv'
<1> SUFFICES ASSUME IInv, [Next]_vars PROVE SessionInv'
  OBVIOUS
<1>a. TypeOK /\ SessionInv
  BY DEF IInv
<1> USE <1>a
<1>t. TypeOK'
  BY NextTypeOK
(* Those that change nothing but requests.                                 *)
<1>1. ASSUME NEW r \in Requests, NEW q \in Request \union {None},
             requests' = [requests EXCEPT ![r] = q],
             UNCHANGED <<users, pairs, clock, lost>>,
             q # None /\ q.do = "issue" => Has(q.id, q.role)
      PROVE  SessionInv'
  <2>1. /\ requests'[r] = q
        /\ \A p \in Requests \ {r} : requests'[p] = requests[p]
    BY <1>1, Asked
  <2>2. \A p \in Requests : requests'[p] # None /\ requests'[p].do = "issue" =>
          /\ requests'[p].id \in Ids /\ requests'[p].role \in Roles
          /\ \/ WillHave(requests'[p].id, requests'[p].role)
             \/ /\ requests[p] # None /\ requests[p].do = "issue"
                /\ requests'[p].id = requests[p].id
                /\ requests'[p].role = requests[p].role
    <3> SUFFICES ASSUME NEW p \in Requests, requests'[p] # None, requests'[p].do = "issue"
                 PROVE  /\ requests'[p].id \in Ids /\ requests'[p].role \in Roles
                        /\ \/ WillHave(requests'[p].id, requests'[p].role)
                           \/ /\ requests[p] # None /\ requests[p].do = "issue"
                              /\ requests'[p].id = requests[p].id
                              /\ requests'[p].role = requests[p].role
      OBVIOUS
    <3>1. requests'[p] \in Request
      BY <1>t DEF TypeOK
    <3>2. requests'[p].id \in Ids /\ requests'[p].role \in Roles
      BY <3>1, RequestFields
    <3> QED BY <1>1, <2>1, <3>2 DEF Has, WillHave
  <2>3. \A i \in Ids, role \in Roles :
          /\ lost'[i][role] = lost[i][role]
          /\ Has(i, role) => WillHave(i, role)
    BY <1>1 DEF Has, WillHave
  <2> QED BY <1>1, <2>2, <2>3, SessionsStay
(* Those that change a row.                                                *)
<1>2. ASSUME NEW r \in Requests, requests' = Overtaken(r), pairs' = pairs, clock' = clock,
             \A i \in Ids, role \in Roles :
               /\ lost'[i][role] = lost[i][role] \/ lost'[i][role] = clock
               /\ Has(i, role) => WillHave(i, role) \/ lost'[i][role] = clock
      PROVE  SessionInv'
  <2>1. \A q \in Requests : requests'[q] # None /\ requests'[q].do = "issue" =>
          /\ requests'[q].id \in Ids /\ requests'[q].role \in Roles
          /\ requests[q] # None /\ requests[q].do = "issue"
          /\ requests'[q].id = requests[q].id
          /\ requests'[q].role = requests[q].role
    BY <1>2, Overtakes, RequestFields DEF SameButLate
  <2> QED BY <1>2, <2>1, SessionsStay
<1>3. ASSUME NEW r \in Requests, NEW i \in Ids, NEW u \in User, CreateUser(r, i, u)
      PROVE  SessionInv'
  <2>1. users[i] = None
    BY <1>3 DEF CreateUser, TypeOK
  <2> QED BY <1>2, <1>3, <2>1 DEF CreateUser, Has, WillHave, TypeOK
<1>4. ASSUME NEW r \in Requests, NEW i \in Ids, NEW n \in Names \union {None},
             NEW o \in Roles \union {None}, ReadUpdate(r, i, n, o)
      PROVE  SessionInv'
  <2> DEFINE made == [users[i] EXCEPT !.name = IF n = None THEN @ ELSE n,
                                     !.role = IF o = None THEN @ ELSE o]
             q == [do |-> "update", id |-> i, late |-> FALSE, row |-> made]
  <2>1. users[i] \in User
    BY <1>4, UserType DEF ReadUpdate
  <2>2. made \in User
    BY <2>1 DEF User
  <2>3. q \in Request
    BY <2>2 DEF Request
  <2> QED BY <1>1, <1>4, <2>3 DEF ReadUpdate, rows, history
<1>5. ASSUME NEW r \in Requests, NEW i \in Ids, CountAdmins(r, i) PROVE SessionInv'
  <2>1. [do |-> "delete", id |-> i, late |-> FALSE] \in Request
    BY DEF Request
  <2> QED BY <1>1, <1>5, <2>1 DEF CountAdmins, rows, history
<1>6. ASSUME NEW r \in Requests, NEW i \in Ids, NEW h \in Hashes, SetPassword(r, i, h)
      PROVE  SessionInv'
  <2>1. users[i] \in User
    BY <1>6, UserType DEF SetPassword
  <2>2. /\ users'[i] \in User /\ users'[i].role = users[i].role
        /\ \A j \in Ids \ {i} : users'[j] = users[j]
    BY <1>6, <2>1 DEF SetPassword, TypeOK, User
  <2>3. \A j \in Ids, role \in Roles : Has(j, role) => WillHave(j, role)
    BY <2>1, <2>2, RequestKinds DEF Has, WillHave
  <2> QED BY <1>2, <1>6, <2>3 DEF SetPassword
<1>7. ASSUME NEW r \in Requests, NEW i \in Ids, NEW h \in Hashes, CheckOldPassword(r, i, h)
      PROVE  SessionInv'
  <2>1. [do |-> "password", id |-> i, hash |-> h] \in Request
    BY DEF Request
  <2> QED BY <1>1, <1>7, <2>1 DEF CheckOldPassword, rows, history
<1>8. ASSUME NEW r \in Requests, WriteUpdate(r) PROVE SessionInv'
  <2> DEFINE i == requests[r].id
             made == requests[r].row
  <2>1. i \in Ids /\ made \in User
    BY <1>8, RequestFields DEF WriteUpdate, Free, TypeOK
  <2>2. CASE requests' = [requests EXCEPT ![r] = None] /\ UNCHANGED <<users, lost>>
    BY <1>1, <1>8, <2>2 DEF WriteUpdate
  <2>3. CASE /\ users[i] # None
             /\ users' = [users EXCEPT ![i] = made]
             /\ requests' = Overtaken(r)
             /\ IF made.role = users[i].role THEN lost' = lost ELSE Loses(i, users[i].role)
    <3>1. /\ users'[i] = made /\ made # None
          /\ \A j \in Ids \ {i} : users'[j] = users[j]
      BY <2>1, <2>3, RequestKinds DEF TypeOK
    <3>2. CASE made.role = users[i].role
      <4>1. lost' = lost
        BY <2>3, <3>2
      <4>2. \A j \in Ids, role \in Roles : Has(j, role) => WillHave(j, role)
        BY <3>1, <3>2 DEF Has, WillHave
      <4> QED BY <1>2, <1>8, <2>3, <4>1, <4>2 DEF WriteUpdate
    <3>3. CASE made.role # users[i].role
      <4>1. users[i].role \in Roles
        BY <2>1, <2>3, UserType
      <4>2. /\ lost'[i][users[i].role] = clock
            /\ \A j \in Ids, any \in Roles : j # i \/ any # users[i].role =>
                 lost'[j][any] = lost[j][any]
        BY <2>1, <2>3, <3>3, <4>1, LosesType
      <4>3. \A j \in Ids, role \in Roles :
              /\ lost'[j][role] = lost[j][role] \/ lost'[j][role] = clock
              /\ Has(j, role) => WillHave(j, role) \/ lost'[j][role] = clock
        BY <3>1, <4>2 DEF Has, WillHave
      <4> QED BY <1>2, <1>8, <2>3, <4>3 DEF WriteUpdate
    <3> QED BY <3>2, <3>3
  <2> QED BY <1>8, <2>2, <2>3 DEF WriteUpdate
<1>9. ASSUME NEW r \in Requests, DeleteUser(r) PROVE SessionInv'
  <2> DEFINE i == requests[r].id
  <2>1. i \in Ids
    BY <1>9, RequestFields DEF DeleteUser, Free, TypeOK
  <2>2. CASE requests' = [requests EXCEPT ![r] = None] /\ UNCHANGED <<users, lost>>
    BY <1>1, <1>9, <2>2 DEF DeleteUser
  <2>3. CASE /\ users[i] # None
             /\ users' = [users EXCEPT ![i] = None]
             /\ requests' = Overtaken(r)
             /\ Loses(i, users[i].role)
    <3>1. users[i].role \in Roles
      BY <2>1, <2>3, UserType
    <3>2. /\ lost'[i][users[i].role] = clock
          /\ \A j \in Ids, any \in Roles : j # i \/ any # users[i].role =>
               lost'[j][any] = lost[j][any]
      BY <2>1, <2>3, <3>1, LosesType
    <3>3. \A j \in Ids \ {i} : users'[j] = users[j]
      BY <2>3 DEF TypeOK
    <3>4. \A j \in Ids, role \in Roles :
            /\ lost'[j][role] = lost[j][role] \/ lost'[j][role] = clock
            /\ Has(j, role) => WillHave(j, role) \/ lost'[j][role] = clock
      BY <3>2, <3>3 DEF Has, WillHave
    <3> QED BY <1>2, <1>9, <2>3, <3>4 DEF DeleteUser
  <2> QED BY <1>9, <2>2, <2>3 DEF DeleteUser
<1>10. ASSUME NEW r \in Requests, NEW i \in Ids, Login(r, i) PROVE SessionInv'
  <2> DEFINE q == [do |-> "issue", id |-> i, role |-> users[i].role]
  <2>1. users[i].role \in Roles
    BY <1>10, UserType DEF Login
  <2>2. q \in Request
    BY <2>1 DEF Request
  <2>3. Has(q.id, q.role)
    BY <1>10 DEF Login, Has
  <2> QED BY <1>1, <1>10, <2>2, <2>3 DEF Login, rows, history
(* The new token is as young as the loss of its role, if there was one.    *)
<1>11. ASSUME NEW r \in Requests, Issue(r) PROVE SessionInv'
  <2> DEFINE new == [user |-> requests[r].id, role |-> requests[r].role, at |-> clock]
  <2>1. /\ requests[r] # None /\ requests[r].do = "issue"
        /\ pairs' = pairs \union {new}
        /\ requests' = [requests EXCEPT ![r] = None]
        /\ UNCHANGED <<users, clock, lost>>
    BY <1>11 DEF Issue, Free, rows, history
  <2>2. clock \in Nat /\ clock # None /\ clock <= clock
    BY RequestKinds DEF TypeOK
  <2>3. Has(new.user, new.role) \/ lost[new.user][new.role] = clock
    BY <2>1 DEF SessionInv
  <2>4. \A t \in pairs' :
          /\ t.at <= clock
          /\ Live(t) => \/ Has(t.user, t.role)
                        \/ lost[t.user][t.role] # None /\ t.at <= lost[t.user][t.role]
    BY <2>1, <2>2, <2>3 DEF SessionInv
  <2>5. \A q \in Requests : requests'[q] # None => requests'[q] = requests[q]
    BY <2>1 DEF TypeOK
  <2> QED BY <2>1, <2>4, <2>5 DEF SessionInv, Has, WillHave, Live
<1>12. ASSUME NEW r \in Requests, requests' = [requests EXCEPT ![r] = None],
              UNCHANGED <<rows, pairs, clock, history>>
       PROVE  SessionInv'
  BY <1>1, <1>12 DEF rows, history
<1>13. ASSUME NEW i \in Ids, Restart(i) PROVE SessionInv'
  <2>1. \A j \in Ids : users[j] # None => users'[j] = users[j]
    BY <1>13 DEF Restart, EnsureAdmin, TypeOK, Named, Stored
  <2>2. \A j \in Ids, role \in Roles : Has(j, role) => WillHave(j, role)
    BY <2>1 DEF Has, WillHave
  <2>3. \A q \in Requests : requests'[q] = None
    BY <1>13 DEF Restart
  <2>4. UNCHANGED <<pairs, clock, lost>>
    BY <1>13 DEF Restart
  <2> QED BY <2>2, <2>3, <2>4, SessionsStay
(* What a live token needs is not forgotten.                               *)
<1>14. CASE Tick
  <2>1. /\ clock' = clock + 1 /\ users' = users /\ requests' = requests
        /\ pairs' \subseteq pairs
        /\ \A r \in Requests : requests[r] # None => requests[r].do # "issue"
    BY <1>14 DEF Tick, rows, Free
  <2>2. ASSUME NEW t \in pairs, Live(t)'
        PROVE  \/ Has(t.user, t.role)
               \/ lost'[t.user][t.role] # None /\ t.at <= lost'[t.user][t.role]
    <3>1. t.user \in Ids /\ t.role \in Roles /\ t.at \in Nat
      BY DEF TypeOK, Pair
    <3>2. clock \in Nat /\ AccessTTL \in Nat
      BY AccountsAssumption DEF TypeOK
    <3>3. clock + 1 < t.at + AccessTTL
      BY <2>1, <2>2 DEF Live
    <3>4. clock < t.at + AccessTTL
      BY ONLY <3>1, <3>2, <3>3, SMT
    <3>5. CASE Has(t.user, t.role)
      BY <3>5
    <3>6. CASE lost[t.user][t.role] # None /\ t.at <= lost[t.user][t.role]
      <4> DEFINE l == lost[t.user][t.role]
      <4>1. l \in Nat
        BY <3>1, <3>6 DEF TypeOK
      <4>2. clock + 1 < l + AccessTTL
        <5> HIDE DEF l
        <5>1. t.at <= l
          BY <3>6 DEF l
        <5> QED BY ONLY <3>1, <3>2, <3>3, <4>1, <5>1, SMT
      <4>3. lost'[t.user][t.role] = l
        BY <1>14, <3>1, <3>6, <4>2 DEF Tick
      <4> QED BY <3>6, <4>3
    <3> QED BY <3>4, <3>5, <3>6 DEF SessionInv, Live
  <2>3. \A t \in pairs' : t.at <= clock'
    <3> SUFFICES ASSUME NEW t \in pairs PROVE t.at <= clock + 1
      BY <2>1
    <3>1. t.at \in Nat /\ clock \in Nat /\ t.at <= clock
      BY DEF TypeOK, Pair, SessionInv
    <3> QED BY ONLY <3>1, SMT
  <2> QED BY <2>1, <2>2, <2>3 DEF SessionInv, Has, WillHave
<1>15. CASE UNCHANGED vars
  BY <1>15 DEF vars, rows, history, SessionInv, Has, WillHave, Live
<1> QED BY <1>3, <1>4, <1>5, <1>6, <1>7, <1>8, <1>9, <1>10, <1>11, <1>12, <1>13, <1>14, <1>15,
     NextCases

-----------------------------------------------------------------------------
LEMMA Invariance == Spec => []IInv
<1>1. IInv /\ [Next]_vars => IInv'
  BY NextTypeOK, NextFresh, NextPasswordStands, NextSessionInv DEF IInv
<1> QED BY InitIInv, <1>1, PTL DEF Spec

(* The types of the variables, for any number of users and requests.       *)
THEOREM AccountsTypeOK == Spec => []TypeOK
<1>1. IInv => TypeOK
  BY DEF IInv
<1> QED BY Invariance, <1>1, PTL

(* A password that was set for a user stays until another is set, through  *)
(* starts and through every change of the row but one: an update that had  *)
(* read the row before the password was set writes the old one back, and   *)
(* nothing in the code stops it (handleUserByID); its user is in raced.    *)
THEOREM PasswordsStand == Spec => []PasswordStands
<1>1. IInv => PasswordStands
  BY DEF IInv
<1> QED BY Invariance, <1>1, PTL

(* A role that was lost shows no longer than an access token lives, for    *)
(* any lifetimes and however often a session is renewed.                   *)
THEOREM RolesAreRecent == Spec => []RoleIsRecent
<1>1. IInv => RoleIsRecent
  BY DEF IInv, SessionInv, Has, Stored, TypeOK, Pair, RoleIsRecent
<1> QED BY Invariance, <1>1, PTL

(* The last administrator goes by a change of role, or by a delete that    *)
(* another change of the administrators had overtaken.                     *)
THEOREM LastAdminGoesByRace == Spec => LastAdminStays
<1> DEFINE Excused ==
      \E r \in Requests :
        /\ requests[r] # None /\ requests'[r] = None
        /\ \/ requests[r].do = "update"
           \/ requests[r].do = "delete" /\ requests[r].late
    Falls == Admins # {} /\ Admins' = {}
<1>1. ASSUME IInv, [Next]_vars, Falls PROVE Excused
  <2>a. TypeOK /\ CountIsFresh
    BY <1>1 DEF IInv
  <2>b. Admins' # Admins
    BY <1>1
  <2>1. ASSUME \A j \in Ids : users[j] # None => users'[j] # None /\ users'[j].role = users[j].role
        PROVE  FALSE
    BY <1>1, <2>1 DEF Admins, Stored
  <2>2. \A r \in Requests, i \in Ids, u \in User : CreateUser(r, i, u) => FALSE
    BY <2>a, <2>1 DEF CreateUser, TypeOK
  <2>3. ASSUME NEW r \in Requests, NEW i \in Ids, NEW h \in Hashes, SetPassword(r, i, h)
        PROVE  FALSE
    <3>1. users[i] \in User
      BY <2>a, <2>3, UserType DEF SetPassword
    <3>2. /\ users'[i] \in User /\ users'[i].role = users[i].role
          /\ \A j \in Ids \ {i} : users'[j] = users[j]
      BY <2>a, <2>3, <3>1 DEF SetPassword, TypeOK, User
    <3> QED BY <2>1, <3>2, RequestKinds
  <2>4. ASSUME NEW r \in Requests, WriteUpdate(r) PROVE Excused
    <3>1. requests' = Overtaken(r) \/ requests' = [requests EXCEPT ![r] = None]
      BY <2>4 DEF WriteUpdate
    <3>2. requests'[r] = None
      BY <2>a, <3>1, Overtakes DEF TypeOK
    <3> QED BY <2>4, <3>2 DEF WriteUpdate, Free
  <2>5. ASSUME NEW r \in Requests, DeleteUser(r) PROVE Excused
    <3> DEFINE i == requests[r].id
    <3>1. users' # users
      BY <2>b DEF Admins, Stored
    <3>2. users' = [users EXCEPT ![i] = None] /\ requests' = Overtaken(r)
      BY <2>5, <3>1 DEF DeleteUser
    <3>3. Admins \subseteq {i}
      BY <1>1, <2>a, <3>2 DEF Admins, Stored, TypeOK
    <3>4. requests[r].late
      BY <1>1, <2>5, <2>a, <3>3 DEF DeleteUser, Free, CountIsFresh
    <3>5. requests'[r] = None
      BY <2>a, <3>2, Overtakes
    <3> QED BY <2>5, <3>4, <3>5 DEF DeleteUser, Free
  <2>6. \A i \in Ids : Restart(i) => FALSE
    <3>1. ASSUME NEW i \in Ids, Restart(i), NEW j \in Ids, users[j] # None
          PROVE  users'[j] = users[j]
      BY <2>a, <3>1 DEF Restart, EnsureAdmin, TypeOK, Named, Stored
    <3> QED BY <2>1, <3>1
  <2>7. UNCHANGED rows => FALSE
    BY <2>b DEF rows, Admins, Stored
  <2>8. \A r \in Requests, i \in Ids :
          /\ \A n \in Names \union {None}, o \in Roles \union {None} : ~ReadUpdate(r, i, n, o)
          /\ \A h \in Hashes : ~CheckOldPassword(r, i, h)
          /\ ~CountAdmins(r, i) /\ ~Login(r, i)
    BY <2>7 DEF ReadUpdate, CheckOldPassword, CountAdmins, Login
  <2>9. /\ \A r \in Requests : ~Issue(r)
        /\ ~Tick /\ ~UNCHANGED vars
    BY <2>7 DEF Issue, Tick, vars
  <2> HIDE DEF Excused
  <2> QED BY <1>1, <2>a, <2>2, <2>3, <2>4, <2>5, <2>6, <2>7, <2>8, <2>9, NextCases
<1>2. IInv /\ [Next]_vars => [Falls => Excused]_vars
  BY <1>1
<1> QED BY Invariance, <1>2, PTL DEF Spec, LastAdminStays

-----------------------------------------------------------------------------
(* The gateway.                                                            *)

Handled == {"handler", "success"}

CacheInv ==
  /\ time \in 0 .. Horizon
  /\ inflight \in [Clients -> Gateway!InFlight \union {None}]
  /\ idempotency \in [Keys -> 0 .. Horizon \union {None}]
  /\ answered \in [Keys -> 0 .. Horizon \union {None}]
  /\ \A k \in Keys : answered[k] # None /\ ~Gateway!Old(answered[k]) =>
       idempotency[k] = answered[k]
  /\ \A c \in Clients : inflight[c] # None /\ inflight[c].at \in Handled => ~inflight[c].seen

LEMMA InitCache == Gateway!Init => CacheInv
BY ServiceAssumption DEF Gateway!Init, Gateway!Empty, CacheInv

LEMMA FlightKinds ==
  ASSUME NEW q \in Gateway!InFlight
  PROVE  \/ /\ q \in [at : Handled, key : Keys, seen : BOOLEAN]
            /\ q.at \in Handled /\ q.key \in Keys /\ q.seen \in BOOLEAN
         \/ q \in [at : {"limiter"}, ip : Ips, now : 0 .. Horizon] /\ q.at \notin Handled
BY DEF Gateway!InFlight, Handled

LEMMA NextCache ==
  ASSUME CacheInv, Gateway!Next
  PROVE  CacheInv'
<1> USE DEF CacheInv
(* A key whose answer is young is found.                                   *)
<1>1. ASSUME NEW c \in Clients, NEW k \in Keys, Gateway!Lookup(c, k) PROVE CacheInv'
  <2> DEFINE young == answered[k] # None /\ ~Gateway!Old(answered[k])
             new   == [at |-> "handler", key |-> k, seen |-> FALSE]
  <2>1. UNCHANGED <<time, answered>> /\ \A j : Gateway!Old(j)' <=> Gateway!Old(j)
    BY <1>1 DEF Gateway!Lookup, Gateway!limiter, Gateway!Old
  <2>2. idempotency' = [j \in Keys |-> IF Gateway!Old(idempotency[j]) THEN None ELSE idempotency[j]]
    BY <1>1 DEF Gateway!Lookup
  <2>3. \A j \in Keys : answered[j] # None /\ ~Gateway!Old(answered[j]) =>
          idempotency'[j] = answered[j]
    BY <2>2
  <2>4. inflight' = inflight \/ inflight' = [inflight EXCEPT ![c] = new]
    <3>1. CASE idempotency'[k] # None
      BY <1>1, <3>1 DEF Gateway!Lookup
    <3>2. CASE idempotency'[k] = None
      <4>1. young = FALSE
        BY <2>3, <3>2
      <4>2. inflight' = [inflight EXCEPT ![c] = [at |-> "handler", key |-> k, seen |-> young]]
        BY <1>1, <3>2 DEF Gateway!Lookup
      <4> QED BY <4>1, <4>2
    <3> QED BY <3>1, <3>2
  <2>5. new \in Gateway!InFlight
    BY DEF Gateway!InFlight
  <2>6. inflight' \in [Clients -> Gateway!InFlight \union {None}]
    BY <2>4, <2>5
  <2>7. \A d \in Clients : inflight'[d] # None /\ inflight'[d].at \in Handled => ~inflight'[d].seen
    BY <2>4
  <2> QED BY <2>1, <2>2, <2>3, <2>6, <2>7
<1>2. ASSUME NEW c \in Clients, Gateway!Handle(c) PROVE CacheInv'
  <2>1. UNCHANGED <<time, idempotency, answered>>
    BY <1>2 DEF Gateway!Handle, Gateway!cache, Gateway!limiter
  <2>2. inflight[c] \in [at : Handled, key : Keys, seen : BOOLEAN] /\ ~inflight[c].seen
    BY <1>2, FlightKinds DEF Gateway!Handle, Handled
  <2>3. CASE inflight' = [inflight EXCEPT ![c] = None]
    BY <2>1, <2>3 DEF Gateway!Old
  <2>4. CASE inflight' = [inflight EXCEPT ![c].at = "success"]
    <3>1. inflight'[c] \in [at : Handled, key : Keys, seen : BOOLEAN] /\ ~inflight'[c].seen
      BY <2>2, <2>4 DEF Handled
    <3>2. inflight' \in [Clients -> Gateway!InFlight \union {None}]
      BY <2>4, <3>1 DEF Gateway!InFlight, Handled
    <3> QED BY <2>1, <2>4, <3>1, <3>2 DEF Gateway!Old
  <2> QED BY <1>2, <2>3, <2>4 DEF Gateway!Handle
<1>3. ASSUME NEW c \in Clients, Gateway!Remember(c) PROVE CacheInv'
  <2> DEFINE k == inflight[c].key
  <2>1. k \in Keys
    BY <1>3, FlightKinds DEF Gateway!Remember, Handled
  <2> QED BY <1>3, <2>1 DEF Gateway!Remember, Gateway!limiter, Gateway!Old
<1>4. ASSUME NEW c \in Clients, NEW ip \in Ips, Gateway!ReadClock(c, ip)
      PROVE  CacheInv'
  <2>1. [at |-> "limiter", ip |-> ip, now |-> time] \in Gateway!InFlight
    BY <1>4 DEF Gateway!InFlight
  <2> QED BY <1>4, <2>1 DEF Gateway!ReadClock, Gateway!cache, Gateway!limiter, Gateway!Old, Handled
<1>5. ASSUME NEW c \in Clients, Gateway!Allow(c) PROVE CacheInv'
  <2>1. UNCHANGED <<time, idempotency, answered>> /\ inflight' = [inflight EXCEPT ![c] = None]
    BY <1>5 DEF Gateway!Allow, Gateway!cache
  <2> QED BY <2>1 DEF Gateway!Old
<1>6. CASE Gateway!Restart
  BY <1>6 DEF Gateway!Restart, Gateway!Empty
(* What is old stays old.                                                  *)
<1>7. CASE Gateway!Tick
  <2>1. /\ UNCHANGED <<inflight, idempotency, answered>> /\ time' = time + 1
        /\ time' \in 0 .. Horizon
    BY <1>7, ServiceAssumption DEF Gateway!Tick, Gateway!cache
  <2>2. ASSUME NEW k \in Keys, answered[k] # None, ~Gateway!Old(answered[k])'
        PROVE  ~Gateway!Old(answered[k])
    <3> DEFINE a == answered[k]
    <3>1. a \in Nat /\ ~(time + 1 - a > Day)
      BY <2>1, <2>2 DEF Gateway!Old
    <3> HIDE DEF a
    <3>2. ~(time - a > Day)
      BY <3>1, ServiceAssumption
    <3> QED BY <3>2 DEF Gateway!Old, a
  <2> QED BY <2>1, <2>2
<1> QED BY <1>1, <1>2, <1>3, <1>4, <1>5, <1>6, <1>7 DEF Gateway!Next

(* The limiter.  A login that was let in and may still have to be counted  *)
(* with another, which is no earlier than the latest, is remembered.       *)
Inside(S, t) == {login \in S : t - Window < login.at /\ login.at <= t}
Young(S, t)  == {login \in S : login.at > t - Window}

LimiterOf(ip) ==
  /\ records[ip] \in SUBSET Gateway!Login /\ logins[ip] \in SUBSET Gateway!Login
  /\ latest[ip] \in 0 .. Horizon
  /\ IsFiniteSet(records[ip]) /\ Cardinality(records[ip]) <= Limit
  /\ Young(logins[ip], latest[ip]) \subseteq records[ip]
  /\ \A t \in 0 .. Horizon :
       IsFiniteSet(Inside(logins[ip], t)) /\ Cardinality(Inside(logins[ip], t)) <= Limit

LimiterInv ==
  /\ records = [ip \in Ips |-> records[ip]] /\ logins = [ip \in Ips |-> logins[ip]]
  /\ latest = [ip \in Ips |-> latest[ip]]
  /\ \A ip \in Ips : LimiterOf(ip)

(* The instance has the operator of the library under a name of its own.   *)
LEMMA SameCardinality == \A S : Gateway!Cardinality(S) = Cardinality(S)
BY DEF Cardinality, Gateway!Cardinality

(* There is a number left for a login, if there are fewer than the limit.  *)
LEMMA EntryIsNew ==
  ASSUME NEW now \in 0 .. Horizon, NEW S, IsFiniteSet(S), Cardinality(S) < Limit
  PROVE  /\ Gateway!Entry(now, S) \in Gateway!Login /\ Gateway!Entry(now, S).at = now
         /\ Gateway!Entry(now, S) \notin S
<1> DEFINE T == [at : {now}, nr : 1 .. Limit]
           f == [n \in 1 .. Limit |-> [at |-> now, nr |-> n]]
<1>1. \E login \in T : login \notin S
  <2> SUFFICES ASSUME \A login \in T : login \in S PROVE FALSE
    OBVIOUS
  <2>1. f \in Injection(1 .. Limit, S)
    <3>1. f \in [1 .. Limit -> S]
      OBVIOUS
    <3>2. \A a, b \in 1 .. Limit : f[a] = f[b] => a = b
      OBVIOUS
    <3> QED BY <3>1, <3>2 DEF Injection, IsInjective
  <2>2. Cardinality(1 .. Limit) <= Cardinality(S)
    BY <2>1, FS_Injection
  <2>3. Cardinality(1 .. Limit) = Limit
    <3>1. Limit \in Int /\ 1 \in Int /\ ~(1 > Limit)
      BY ServiceAssumption
    <3>2. Cardinality(1 .. Limit) = IF 1 > Limit THEN 0 ELSE Limit - 1 + 1
      BY <3>1, FS_Interval, Zenon
    <3> QED BY <3>1, <3>2
  <2>4. Cardinality(S) \in Nat
    BY FS_CardinalityType
  <2> QED BY <2>2, <2>3, <2>4, ServiceAssumption
<1>2. Gateway!Entry(now, S) \in T /\ Gateway!Entry(now, S) \notin S
  BY <1>1 DEF Gateway!Entry
<1> QED BY <1>2 DEF Gateway!Login

LEMMA LoginParts == \A login \in Gateway!Login : login.at \in 0 .. Horizon
BY DEF Gateway!Login

(* One login, let in or not, of one address.                               *)
LEMMA AllowOne ==
  ASSUME NEW ip \in Ips, LimiterOf(ip), NEW now \in 0 .. Horizon, NEW entry,
         NEW filtered, filtered = Young(records[ip], now),
         latest'[ip] = (IF now > latest[ip] THEN now ELSE latest[ip]),
         \/ /\ records'[ip] = filtered /\ logins'[ip] = logins[ip]
         \/ /\ Cardinality(filtered) < Limit /\ entry = Gateway!Entry(now, filtered)
            /\ records'[ip] = filtered \union {entry}
            /\ logins'[ip] = IF now >= latest[ip] THEN logins[ip] \union {entry} ELSE logins[ip]
  PROVE  LimiterOf(ip)'
<1> DEFINE R == records[ip]
           L == logins[ip]
           m == latest[ip]
           n == latest'[ip]
<1>1. /\ R \in SUBSET Gateway!Login /\ L \in SUBSET Gateway!Login /\ m \in 0 .. Horizon
      /\ IsFiniteSet(R) /\ Cardinality(R) <= Limit /\ Young(L, m) \subseteq R
      /\ \A t \in 0 .. Horizon : IsFiniteSet(Inside(L, t)) /\ Cardinality(Inside(L, t)) <= Limit
  BY DEF LimiterOf
<1>2. /\ \A login \in R \union L : login.at \in Int
      /\ now \in Int /\ m \in Int /\ Window \in Nat \ {0} /\ Limit \in Nat /\ Horizon \in Nat
  BY <1>1, LoginParts, ServiceAssumption
<1>3. n \in 0 .. Horizon /\ n >= m /\ n >= now /\ n \in Int
  BY <1>1, <1>2
<1>4. /\ filtered \in SUBSET R /\ IsFiniteSet(filtered)
      /\ Cardinality(filtered) <= Limit /\ Cardinality(filtered) \in Nat
  <2>1. filtered \in SUBSET R
    BY DEF Young
  <2>2. /\ IsFiniteSet(filtered) /\ Cardinality(filtered) <= Cardinality(R)
        /\ Cardinality(filtered) \in Nat /\ Cardinality(R) \in Nat
    BY <1>1, <2>1, FS_Subset, FS_CardinalityType
  <2> QED BY <1>1, <1>2, <2>1, <2>2
<1>5. Young(L, n) \subseteq filtered
  <2> SUFFICES ASSUME NEW login \in L, login.at > n - Window PROVE login \in filtered
    BY DEF Young
  <2>1. login.at > m - Window /\ login.at > now - Window
    BY <1>2, <1>3
  <2>2. login \in R
    BY <1>1, <2>1 DEF Young
  <2> QED BY <2>1, <2>2 DEF Young
<1> HIDE DEF n
<1>6. CASE records'[ip] = filtered /\ logins'[ip] = L
  BY <1>1, <1>3, <1>4, <1>5, <1>6 DEF LimiterOf, n
<1>7. CASE /\ Cardinality(filtered) < Limit /\ entry = Gateway!Entry(now, filtered)
           /\ records'[ip] = filtered \union {entry}
           /\ logins'[ip] = IF now >= m THEN L \union {entry} ELSE L
  <2>1. entry \in Gateway!Login /\ entry.at = now /\ entry \notin filtered
    BY <1>4, <1>7, EntryIsNew
  <2>2. /\ IsFiniteSet(filtered \union {entry})
        /\ Cardinality(filtered \union {entry}) = Cardinality(filtered) + 1
    BY <1>4, <2>1, FS_AddElement
  <2>3. /\ records'[ip] \in SUBSET Gateway!Login /\ IsFiniteSet(records'[ip])
        /\ Cardinality(records'[ip]) <= Limit
    BY <1>1, <1>2, <1>4, <1>7, <2>1, <2>2
  <2>4. CASE now < m
    <3>1. logins'[ip] = L
      BY <1>2, <1>7, <2>4
    <3> QED BY <1>1, <1>3, <1>5, <1>7, <2>3, <3>1 DEF LimiterOf, n, Young
  <2>5. CASE now >= m
    <3>1. logins'[ip] = L \union {entry} /\ n = now
      BY <1>2, <1>7, <2>5 DEF n
    <3>2. Young(L \union {entry}, n) \subseteq filtered \union {entry}
      BY <1>5 DEF Young
    <3>3. ASSUME NEW t \in 0 .. Horizon
          PROVE  /\ IsFiniteSet(Inside(L \union {entry}, t))
                 /\ Cardinality(Inside(L \union {entry}, t)) <= Limit
      <4>1. CASE t < now
        <5>1. Inside(L \union {entry}, t) = Inside(L, t)
          BY <1>2, <2>1, <3>3, <4>1 DEF Inside
        <5> QED BY <1>1, <3>3, <5>1
      <4>2. CASE t >= now
        <5>1. Inside(L \union {entry}, t) \in SUBSET (filtered \union {entry})
          <6> SUFFICES ASSUME NEW login \in L, t - Window < login.at PROVE login \in filtered
            BY DEF Inside
          <6>1. login.at > n - Window
            BY <1>2, <3>1, <3>3, <4>2
          <6> QED BY <1>5, <6>1 DEF Young
        <5>2. /\ IsFiniteSet(Inside(L \union {entry}, t))
              /\ Cardinality(Inside(L \union {entry}, t)) <= Cardinality(filtered \union {entry})
              /\ Cardinality(Inside(L \union {entry}, t)) \in Nat
          BY <2>2, <5>1, FS_Subset, FS_CardinalityType
        <5> QED BY <1>2, <1>4, <1>7, <2>2, <5>2
      <4> QED BY <1>2, <3>3, <4>1, <4>2
    <3>4. L \union {entry} \in SUBSET Gateway!Login
      BY <1>1, <2>1
    <3> HIDE DEF R, L
    <3>5. Young(L \union {entry}, n) \subseteq records'[ip]
      BY <1>7, <3>2
    <3> QED BY <1>3, <2>3, <3>1, <3>3, <3>4, <3>5 DEF LimiterOf, n
  <2> QED BY <1>2, <2>4, <2>5
<1> QED BY <1>6, <1>7

LEMMA InitLimiter == Gateway!Init => LimiterInv
<1> SUFFICES ASSUME Gateway!Init PROVE LimiterInv
  OBVIOUS
<1>1. /\ records = [ip \in Ips |-> {}] /\ logins = [ip \in Ips |-> {}]
      /\ latest = [ip \in Ips |-> 0]
  BY DEF Gateway!Init, Gateway!Empty
<1>2. \A ip \in Ips : LimiterOf(ip)
  BY <1>1, FS_EmptySet, ServiceAssumption DEF LimiterOf, Young, Inside
<1> QED BY <1>1, <1>2 DEF LimiterInv

LEMMA RestartLimiter ==
  ASSUME Gateway!Restart
  PROVE  LimiterInv'
<1>1. /\ records' = [ip \in Ips |-> {}] /\ logins' = [ip \in Ips |-> {}]
      /\ latest' = [ip \in Ips |-> 0]
  BY DEF Gateway!Restart, Gateway!Empty
<1>2. \A ip \in Ips : LimiterOf(ip)'
  BY <1>1, FS_EmptySet, ServiceAssumption DEF LimiterOf, Young, Inside
<1> QED BY <1>1, <1>2 DEF LimiterInv

LEMMA LimiterStays ==
  ASSUME LimiterInv, UNCHANGED <<records, latest, logins>>
  PROVE  LimiterInv'
BY DEF LimiterInv, LimiterOf, Young, Inside

LEMMA NextLimiter ==
  ASSUME LimiterInv, CacheInv, Gateway!Next
  PROVE  LimiterInv'
<1>1. CASE UNCHANGED <<records, latest, logins>>
  BY <1>1, LimiterStays
<1>2. ASSUME NEW c \in Clients, Gateway!Allow(c) PROVE LimiterInv'
  <2>1. PICK ip \in Ips, now \in 0 .. Horizon : ip = inflight[c].ip /\ now = inflight[c].now
    <3>1. inflight[c] \in Gateway!InFlight /\ inflight[c].at = "limiter"
      BY <1>2 DEF Gateway!Allow, CacheInv
    <3>2. inflight[c].at \notin Handled
      BY <3>1 DEF Handled
    <3>3. inflight[c] \in [at : {"limiter"}, ip : Ips, now : 0 .. Horizon]
      BY <3>1, <3>2, FlightKinds
    <3> QED BY <3>3
  <2>2. PICK filtered, entry :
          filtered = Young(records[ip], now) /\ entry = Gateway!Entry(now, filtered)
    OBVIOUS
  <2> DEFINE allowed == Cardinality(filtered) < Limit
  <2>3. /\ records' = [records EXCEPT ![ip] = IF allowed THEN filtered \union {entry} ELSE filtered]
        /\ latest' = [latest EXCEPT ![ip] = IF now > latest[ip] THEN now ELSE latest[ip]]
        /\ logins' = [logins EXCEPT ![ip] =
             IF allowed /\ now >= latest[ip] THEN logins[ip] \union {entry} ELSE logins[ip]]
    <3>1. filtered = {login \in records[inflight[c].ip] : login.at > inflight[c].now - Window}
      BY <2>1, <2>2 DEF Young
    <3> HIDE DEF allowed
    <3>2. allowed <=> Gateway!Cardinality(filtered) < Limit
      BY SameCardinality DEF allowed
    <3> QED BY <1>2, <2>1, <2>2, <3>1, <3>2 DEF Gateway!Allow
  <2>4. /\ DOMAIN records = Ips /\ DOMAIN latest = Ips /\ DOMAIN logins = Ips
        /\ \A i \in Ips : LimiterOf(i)
    BY DEF LimiterInv
  <2>5. /\ records'[ip] = (IF allowed THEN filtered \union {entry} ELSE filtered)
        /\ latest'[ip] = (IF now > latest[ip] THEN now ELSE latest[ip])
        /\ logins'[ip] =
             (IF allowed /\ now >= latest[ip] THEN logins[ip] \union {entry} ELSE logins[ip])
    BY <2>3, <2>4
  <2>6. \/ /\ records'[ip] = filtered /\ logins'[ip] = logins[ip]
        \/ /\ Cardinality(filtered) < Limit /\ entry = Gateway!Entry(now, filtered)
           /\ records'[ip] = filtered \union {entry}
           /\ logins'[ip] = IF now >= latest[ip] THEN logins[ip] \union {entry} ELSE logins[ip]
    BY <2>2, <2>5
  <2>7. LimiterOf(ip)'
    BY <2>2, <2>4, <2>5, <2>6, AllowOne
  <2>8. ASSUME NEW i \in Ips, i # ip PROVE LimiterOf(i)'
    <3>1. records'[i] = records[i] /\ latest'[i] = latest[i] /\ logins'[i] = logins[i]
      BY <2>3, <2>4, <2>8
    <3> QED BY <2>4, <3>1 DEF LimiterOf, Young, Inside
  <2>9. /\ records' = [i \in Ips |-> records'[i]] /\ logins' = [i \in Ips |-> logins'[i]]
        /\ latest' = [i \in Ips |-> latest'[i]]
    BY <2>3, <2>4
  <2>10. \A i \in Ips : LimiterOf(i)'
    BY <2>7, <2>8
  <2> QED BY <2>9, <2>10 DEF LimiterInv
<1>3. CASE Gateway!Restart
  BY <1>3, RestartLimiter
<1>4. \/ UNCHANGED <<records, latest, logins>> \/ Gateway!Restart
      \/ \E c \in Clients : Gateway!Allow(c)
  BY DEF Gateway!Next, Gateway!Lookup, Gateway!Handle, Gateway!Remember, Gateway!ReadClock,
         Gateway!Tick, Gateway!limiter
<1> QED BY <1>1, <1>2, <1>3, <1>4

-----------------------------------------------------------------------------
(* The settings.                                                           *)

InFlight == Settings!InFlight
Order    == Settings!Order
Fields   == Settings!Fields
Known    == [Fields -> Settings!Values]

Writing  == {"install", "save"}

(* The fields that were handled so far are the same in the copy and in the *)
(* struct.                                                                 *)
Agrees(c) == \A j \in 1 .. 3 : j <= copies[c].done => copies[c].got[Order[j]] = cfg[Order[j]]

SettingsTypes ==
  /\ cfg \in Known /\ cfg["timeout"] # ""
  /\ row \in Known \union {None} /\ (row # None => Settings!Valid(row))
  /\ copies \in [Copies -> Settings!Copy \union {None}]
  /\ acked \in [Fields -> Settings!Values \union {None}]
  /\ apart \in BOOLEAN /\ mixed \in BOOLEAN

(* A copy that is alone or clean.                                          *)
CopyInv(c) ==
  /\ copies[c].at = "install" => copies[c].done < 3
  /\ copies[c].at = "copy" =>
       \A j \in 1 .. 3 : j <= copies[c].done => copies[c].got[Order[j]] \in Settings!Values
  /\ copies[c].at \in Writing =>
       Settings!Asks(c) /\ copies[c].got \in Known /\ Settings!Valid(copies[c].got)
  /\ copies[c].clean => ~Settings!Asks(c)
  /\ copies[c].alone /\ Settings!Asks(c) => Settings!Asking = {c}
  /\ copies[c].at = "copy" /\ (copies[c].clean \/ (copies[c].alone /\ Settings!Asks(c))) => Agrees(c)
  /\ copies[c].at = "copy" /\ copies[c].clean => Settings!Valid(cfg)
  /\ copies[c].at = "run" /\ copies[c].clean => Settings!Valid(copies[c].got)
  /\ copies[c].at = "install" /\ copies[c].alone => Agrees(c)
  /\ copies[c].at = "save" /\ copies[c].alone => cfg = copies[c].got
  /\ copies[c].at \in Writing /\ copies[c].alone =>
       \A f \in Fields : f \notin DOMAIN copies[c].change => acked[f] \in {None, copies[c].got[f]}

CopiesInv == \A c \in Copies : copies[c] # None => CopyInv(c)

Nobody(S) == \A c \in Copies : copies[c] # None => copies[c].at \notin S

StructInv ==
  /\ ~mixed /\ Nobody({"install"}) => Settings!Valid(cfg)
  /\ ~apart => cfg = Settings!Load
  /\ Nobody(Writing) => \A f \in Fields : acked[f] \in {None, cfg[f]}
  /\ \A f \in Fields : acked[f] \in {None, Settings!Load[f]}

SettingsInv == SettingsTypes /\ CopiesInv /\ StructInv

LEMMA FieldNames ==
  /\ Fields = {"timeout", "enabled", "host"}
  /\ Len(Order) = 3 /\ Order[1] = "timeout" /\ Order[2] = "enabled" /\ Order[3] = "host"
<1>1. Len(Order) = 3 /\ Order[1] = "timeout" /\ Order[2] = "enabled" /\ Order[3] = "host"
      /\ DOMAIN Order = 1 .. 3
  BY DEF Order, Settings!Order
<1>2. Fields = {Order[j] : j \in DOMAIN Order}
  BY DEF Fields, Order, Settings!Fields, Settings!Order, Settings!Range
<1> QED BY <1>1, <1>2

LEMMA FieldRanges ==
  /\ Settings!Checked["timeout"] = {"default", "other"}
  /\ Settings!Checked["enabled"] = {"on", "off"} /\ Settings!Checked["host"] = {"smtp", ""}
  /\ \A f \in Fields : Settings!Asked[f] =
       Settings!Checked[f] \union IF f = "timeout" THEN {"wrong", ""} ELSE {}
  /\ \A f \in Fields : Settings!Asked[f] \subseteq Settings!Values
<1> DEFINE C == Settings!Checked
           A == Settings!Asked
<1>1. /\ C["timeout"] = {"default", "other"} /\ C["enabled"] = {"on", "off"}
      /\ C["host"] = {"smtp", ""}
  BY DEF Settings!Checked
<1>2. /\ A["timeout"] = C["timeout"] \union {"wrong", ""}
      /\ A["enabled"] = C["enabled"] /\ A["host"] = C["host"]
  BY DEF Settings!Asked, Settings!Checked
<1> HIDE DEF C, A
<1>3. \A f \in Fields : A[f] = C[f] \union IF f = "timeout" THEN {"wrong", ""} ELSE {}
  BY <1>2, FieldNames
<1>4. \A f \in Fields : A[f] \subseteq Settings!Values
  BY <1>1, <1>2, FieldNames DEF Settings!Values
<1> QED BY <1>1, <1>3, <1>4 DEF C, A

LEMMA FileIsValid ==
  /\ Settings!File \in Known /\ Settings!Valid(Settings!File)
  /\ Settings!File["timeout"] # ""
<1> DEFINE F == Settings!File
<1>1. F = [timeout |-> "default", enabled |-> "off", host |-> ""]
  BY DEF Settings!File
<1>2. F \in [{"timeout", "enabled", "host"} -> Settings!Values]
  <2>1. F = [f \in {"timeout", "enabled", "host"} |-> F[f]]
    BY <1>1
  <2>2. F["timeout"] \in Settings!Values /\ F["enabled"] \in Settings!Values
        /\ F["host"] \in Settings!Values
    BY <1>1 DEF Settings!Values
  <2> HIDE DEF F
  <2> QED BY <2>1, <2>2
<1>3. F["timeout"] # "" /\ Settings!Valid(F)
  BY <1>1 DEF Settings!Valid
<1> QED BY <1>2, <1>3, FieldNames DEF Known

LEMMA InitSettings == Settings!Init => SettingsInv
<1> SUFFICES ASSUME Settings!Init PROVE SettingsInv
  OBVIOUS
<1>1. SettingsTypes
  BY FileIsValid, ServiceAssumption DEF Settings!Init, SettingsTypes, Known
<1>2. CopiesInv
  BY DEF Settings!Init, CopiesInv
<1>3. StructInv
  BY FileIsValid DEF Settings!Init, StructInv, Settings!Load
<1> QED BY <1>1, <1>2, <1>3 DEF SettingsInv

LEMMA CopyParts ==
  ASSUME NEW q \in Settings!Copy
  PROVE  /\ q.at \in {"copy", "install", "save", "run"} /\ q.done \in 0 .. 3
         /\ q.got \in [Fields -> Settings!Values \union {None}]
         /\ q.change \in Changes \union {None} /\ q.alone \in BOOLEAN /\ q.clean \in BOOLEAN
BY FieldNames DEF Settings!Copy, Order, Fields

LEMMA CopyMade ==
  ASSUME NEW q,
         q = [at |-> q.at, done |-> q.done, got |-> q.got, change |-> q.change,
              alone |-> q.alone, clean |-> q.clean],
         q.at \in {"copy", "install", "save", "run"}, q.done \in 0 .. 3,
         q.got \in [Fields -> Settings!Values \union {None}],
         q.change \in Changes \union {None}, q.alone \in BOOLEAN, q.clean \in BOOLEAN
  PROVE  q \in Settings!Copy /\ q # None
BY FieldNames, ServiceAssumption DEF Settings!Copy, Order, Fields

(* A request begins, or an execution.                                      *)
LEMMA BeginSettings ==
  ASSUME SettingsInv, NEW c \in Copies, NEW change \in Changes \union {None},
         Settings!Begin(c, change)
  PROVE  SettingsInv'
<1> DEFINE new == [at |-> "copy", done |-> 0, got |-> [f \in Settings!Fields |-> None],
                   change |-> change, alone |-> Settings!Asking = {} \/ change = None,
                   clean |-> change = None /\ ~mixed
                             /\ \A d \in InFlight : copies[d].at # "install"]
           late(d) == d \in Settings!Asking /\ change # None
<1>0. /\ SettingsTypes /\ CopiesInv /\ StructInv
      /\ copies \in [Copies -> Settings!Copy \union {None}] /\ mixed \in BOOLEAN
  BY DEF SettingsInv, SettingsTypes
<1>1. /\ copies[c] = None /\ UNCHANGED <<cfg, row, apart, mixed, acked>>
      /\ copies' = [d \in Copies |-> IF d = c THEN new
                      ELSE IF late(d) THEN [copies[d] EXCEPT !.alone = FALSE] ELSE copies[d]]
  BY <1>0 DEF Settings!Begin, Settings!history, InFlight
<1>2. new \in Settings!Copy /\ new # None
  <2>1. new.got \in [Fields -> Settings!Values \union {None}]
    BY DEF Fields
  <2>2. new.alone \in BOOLEAN /\ new.clean \in BOOLEAN
    OBVIOUS
  <2>3. /\ new.at = "copy" /\ new.done = 0 /\ new.change = change
        /\ new = [at |-> new.at, done |-> new.done, got |-> new.got, change |-> new.change,
                  alone |-> new.alone, clean |-> new.clean]
    OBVIOUS
  <2> HIDE DEF new
  <2> QED BY <2>1, <2>2, <2>3, CopyMade
<1>3. ASSUME NEW d \in Copies, d # c
      PROVE  /\ copies[d] = None <=> copies'[d] = None
             /\ copies'[d] \in Settings!Copy \union {None}
             /\ copies[d] # None =>
                  /\ copies'[d].at = copies[d].at /\ copies'[d].done = copies[d].done
                  /\ copies'[d].got = copies[d].got /\ copies'[d].change = copies[d].change
                  /\ copies'[d].clean = copies[d].clean
                  /\ copies'[d].alone = (copies[d].alone /\ ~late(d))
  <2>1. CASE late(d)
    <3>1. copies[d] \in Settings!Copy /\ copies[d] # None
      BY <1>0, <2>1 DEF Settings!Asking, Settings!InFlight
    <3>2. copies'[d] = [copies[d] EXCEPT !.alone = FALSE]
      BY <1>1, <1>3, <2>1
    <3>3. copies'[d] \in Settings!Copy
      BY <3>1, <3>2 DEF Settings!Copy
    <3> QED BY <3>1, <3>2, <3>3, <2>1, ServiceAssumption, CopyParts DEF Settings!Copy
  <2>2. CASE ~late(d)
    <3>1. copies'[d] = copies[d]
      BY <1>1, <1>3, <2>2
    <3> QED BY <1>0, <3>1, <2>2, CopyParts
  <2> QED BY <2>1, <2>2
<1>4. SettingsTypes'
  BY <1>0, <1>1, <1>2, <1>3 DEF SettingsTypes, Settings!Valid
<1>5. Settings!Asking' = IF change = None THEN Settings!Asking ELSE Settings!Asking \union {c}
  BY <1>1, <1>2, <1>3 DEF Settings!Asking, Settings!InFlight, Settings!Asks
<1>6. CopiesInv'
  <2> SUFFICES ASSUME NEW d \in Copies, copies'[d] # None PROVE CopyInv(d)'
    BY DEF CopiesInv
  <2>1. CASE d = c
    <3>1. /\ copies'[c].at = "copy" /\ copies'[c].done = 0 /\ copies'[c].change = change
          /\ copies'[c].clean = new.clean /\ copies'[c].alone = new.alone
      BY <1>1
    <3>2. Agrees(c)'
      <4>1. copies'[c].done = 0
        BY <1>1
      <4> QED BY <4>1 DEF Agrees
    <3>3. new.clean => Settings!Valid(cfg)
      BY <1>0 DEF StructInv, Nobody, InFlight, Settings!InFlight
    <3>4. new.clean => change = None
      OBVIOUS
    <3>5. new.alone /\ change # None => Settings!Asking' = {c}
      BY <1>5
    <3>6. \A j \in 1 .. 3 : ~(j <= copies'[c].done)
      <4>1. copies'[c].done = 0
        BY <3>1
      <4> QED BY <4>1
    <3>7. ("copy" \notin Writing) /\ (Settings!Asks(c)' <=> change # None)
      BY <3>1 DEF Writing, Settings!Asks
    <3> HIDE DEF new
    <3> QED BY <1>1, <2>1, <3>1, <3>2, <3>3, <3>4, <3>5, <3>6, <3>7 DEF CopyInv, Settings!Valid
  <2>2. CASE d # c
    <3>1. CopyInv(d)
      BY <1>0, <1>3, <2>2 DEF CopiesInv
    <3>2. Settings!Asks(d)' <=> Settings!Asks(d)
      BY <1>3, <2>2 DEF Settings!Asks
    <3>3. Agrees(d)' <=> Agrees(d)
      BY <1>1, <1>3, <2>2 DEF Agrees
    <3>4. copies'[d].alone /\ Settings!Asks(d) => copies[d].alone /\ Settings!Asking' = {d}
      BY <1>3, <1>5, <2>2, <3>1 DEF CopyInv, Settings!Asking, Settings!InFlight
    <3> QED BY <1>1, <1>3, <2>2, <3>1, <3>2, <3>3, <3>4 DEF CopyInv, Writing, Settings!Valid
  <2> QED BY <2>1, <2>2
<1>7. StructInv'
  <2>1. \A S : "copy" \notin S => (Nobody(S)' <=> Nobody(S))
    BY <1>1, <1>2, <1>3 DEF Nobody
  <2> QED BY <1>0, <1>1, <2>1 DEF StructInv, Writing, Settings!Valid, Settings!Load
<1> QED BY <1>4, <1>6, <1>7 DEF SettingsInv

(* One copy is changed, or given up.                                       *)
LEMMA AskingNow ==
  ASSUME SettingsInv, NEW c \in Copies, copies[c] # None, NEW q \in Settings!Copy \union {None},
         copies' = [copies EXCEPT ![c] = q], q # None => q.change = copies[c].change
  PROVE  Settings!Asking' = Settings!Asking \ (IF q = None THEN {c} ELSE {})
<1>1. copies \in [Copies -> Settings!Copy \union {None}]
  BY DEF SettingsInv, SettingsTypes
<1> QED BY <1>1 DEF Settings!Asking, Settings!InFlight, Settings!Asks

LEMMA OthersKept ==
  ASSUME CopiesInv, NEW d \in Copies, copies'[d] # None, copies'[d] = copies[d],
         Settings!Asking' \subseteq Settings!Asking,
         d \in Settings!Asking => d \in Settings!Asking',
         UNCHANGED cfg, UNCHANGED acked \/ Settings!Asking # {d}
  PROVE  CopyInv(d)'
<1>1. CopyInv(d)
  BY DEF CopiesInv
<1>2. (Settings!Asks(d)' <=> Settings!Asks(d)) /\ (Agrees(d)' <=> Agrees(d))
  BY DEF Settings!Asks, Agrees
<1>3. copies[d].alone /\ Settings!Asks(d) => Settings!Asking' = {d}
  BY <1>1 DEF CopyInv
<1>4. copies[d].at \in Writing /\ copies[d].alone => UNCHANGED acked
  BY <1>1 DEF CopyInv
<1> QED BY <1>1, <1>2, <1>3, <1>4 DEF CopyInv, Settings!Valid

(* What one that does not write does to its own copy.                      *)
LEMMA OwnCopy ==
  ASSUME SettingsInv, NEW c \in Copies, copies[c] # None, copies[c].at \notin Writing,
         NEW q \in Settings!Copy \union {None},
         copies' = [copies EXCEPT ![c] = q], q # None => q.change = copies[c].change,
         UNCHANGED <<cfg, row, apart, mixed, acked>>,
         q # None => CopyInv(c)'
  PROVE  SettingsInv'
<1>0. /\ SettingsTypes /\ CopiesInv /\ StructInv
      /\ copies \in [Copies -> Settings!Copy \union {None}]
  BY DEF SettingsInv, SettingsTypes
<1>1. SettingsTypes'
  BY <1>0 DEF SettingsTypes, Settings!Valid
<1>2. CopiesInv'
  <2> SUFFICES ASSUME NEW d \in Copies, copies'[d] # None PROVE CopyInv(d)'
    BY DEF CopiesInv
  <2>1. CASE d = c
    BY <1>0, <2>1
  <2>2. CASE d # c
    <3>1. copies'[d] = copies[d]
      BY <1>0, <2>2
    <3>2. Settings!Asking' = Settings!Asking \ (IF q = None THEN {c} ELSE {})
      BY AskingNow
    <3> QED BY <1>0, <2>2, <3>1, <3>2, OthersKept
  <2> QED BY <2>1, <2>2
<1>3. (Nobody(Writing)' => Nobody(Writing)) /\ (Nobody({"install"})' => Nobody({"install"}))
  BY <1>0 DEF Nobody, Writing
<1>4. StructInv'
  BY <1>0, <1>3 DEF StructInv, Writing, Settings!Valid, Settings!Load
<1> QED BY <1>1, <1>2, <1>4 DEF SettingsInv

LEMMA CopyFieldSettings ==
  ASSUME SettingsInv, NEW c \in Copies, Settings!CopyField(c)
  PROVE  SettingsInv'
<1> DEFINE n == copies[c].done
           f == Order[n + 1]
<1>q. PICK q : q = [copies[c] EXCEPT !.got[f] = cfg[f], !.done = @ + 1]
  OBVIOUS
<1>0. /\ SettingsTypes /\ CopiesInv /\ cfg \in Known
      /\ copies \in [Copies -> Settings!Copy \union {None}]
  BY DEF SettingsInv, SettingsTypes
<1>1. /\ copies[c] \in Settings!Copy /\ copies[c] # None /\ CopyInv(c)
      /\ copies[c].at = "copy" /\ n \in 0 .. 2
  BY <1>0, CopyParts, FieldNames DEF Settings!CopyField, Settings!InFlight, CopiesInv, Order
<1>2. copies' = [copies EXCEPT ![c] = q] /\ UNCHANGED <<cfg, row, apart, mixed, acked>>
  BY <1>0, <1>1, <1>q DEF Settings!CopyField, Settings!history, Order
<1>3. f \in Fields /\ cfg[f] \in Settings!Values
  BY <1>0, <1>1, FieldNames DEF Known
<1>4. /\ q.at = "copy" /\ q.done = n + 1 /\ q.got = [copies[c].got EXCEPT ![f] = cfg[f]]
      /\ q.change = copies[c].change /\ q.alone = copies[c].alone /\ q.clean = copies[c].clean
      /\ q = [at |-> q.at, done |-> q.done, got |-> q.got, change |-> q.change,
              alone |-> q.alone, clean |-> q.clean]
  <2>1. PICK r, g, v : r = copies[c] /\ g = f /\ v = cfg[f]
    OBVIOUS
  <2>2. q = [r EXCEPT !.got[g] = v, !.done = @ + 1] /\ r \in Settings!Copy
    BY <1>1, <1>q, <2>1
  <2>3. /\ q.at = r.at /\ q.done = r.done + 1 /\ q.got = [r.got EXCEPT ![g] = v]
        /\ q.change = r.change /\ q.alone = r.alone /\ q.clean = r.clean
        /\ q = [at |-> q.at, done |-> q.done, got |-> q.got, change |-> q.change,
                alone |-> q.alone, clean |-> q.clean]
    BY <2>2 DEF Settings!Copy
  <2> QED BY <1>1, <2>1, <2>3
<1>5. q \in Settings!Copy /\ q # None
  <2>1. q.got \in [Fields -> Settings!Values \union {None}]
    BY <1>1, <1>3, <1>4, CopyParts
  <2>2. /\ q.at \in {"copy", "install", "save", "run"} /\ q.done \in 0 .. 3
        /\ q.change \in Changes \union {None} /\ q.alone \in BOOLEAN /\ q.clean \in BOOLEAN
    BY <1>1, <1>4, CopyParts
  <2> QED BY <1>4, <2>1, <2>2, CopyMade
<1>6. copies'[c] = q
  BY <1>0, <1>2
<1>7. \A j \in 1 .. 3 : j <= n + 1 => q.got[Order[j]] =
        IF j = n + 1 THEN cfg[Order[j]] ELSE copies[c].got[Order[j]]
  <2>1. copies[c].got \in [Fields -> Settings!Values \union {None}]
    BY <1>1, CopyParts
  <2> QED BY <1>1, <1>3, <1>4, <2>1, FieldNames
<1>8. CopyInv(c)'
  <2>1. Settings!Asking' = Settings!Asking /\ (Settings!Asks(c)' <=> Settings!Asks(c))
    BY <1>1, <1>2, <1>4, <1>5, <1>6, AskingNow DEF Settings!Asks
  <2>2. \A j \in 1 .. 3 : j <= q.done => q.got[Order[j]] \in Settings!Values
    BY <1>1, <1>3, <1>4, <1>7 DEF CopyInv
  <2>3. Agrees(c) => Agrees(c)'
    <3>1. ASSUME Agrees(c), NEW j \in 1 .. 3, j <= n + 1 PROVE q.got[Order[j]] = cfg[Order[j]]
      <4>1. CASE j = n + 1
        BY <1>7, <3>1, <4>1
      <4>2. CASE j # n + 1
        <5>1. j <= n
          BY <1>1, <3>1, <4>2
        <5> QED BY <1>7, <3>1, <4>2, <5>1 DEF Agrees
      <4> QED BY <4>1, <4>2
    <3> QED BY <1>2, <1>4, <1>6, <3>1 DEF Agrees
  <2> QED BY <1>1, <1>2, <1>4, <1>6, <2>1, <2>2, <2>3 DEF CopyInv, Writing, Settings!Valid
<1> QED BY <1>1, <1>2, <1>4, <1>5, <1>8, OwnCopy DEF Writing

(* The struct with what was asked for.                                     *)
LEMMA ChangedParts ==
  ASSUME NEW c \in Copies, copies[c] \in Settings!Copy, Settings!Asks(c), copies[c].got \in Known
  PROVE  /\ Settings!Changed(c) \in Known
         /\ \A f \in Fields : f \notin DOMAIN copies[c].change /\ copies[c].got["timeout"] # "" =>
              Settings!Changed(c)[f] = copies[c].got[f]
<1> DEFINE merged == [f \in Settings!Fields |->
             IF f \in DOMAIN copies[c].change THEN copies[c].change[f] ELSE copies[c].got[f]]
<1>1. copies[c].change \in Changes
  BY CopyParts DEF Settings!Asks
<1>2. merged \in Known
  BY <1>1, ServiceAssumption, FieldRanges DEF Known, Fields
<1>3. "default" \in Settings!Values
  BY DEF Settings!Values
<1>4. Settings!Changed(c) = [merged EXCEPT !["timeout"] = IF @ = "" THEN "default" ELSE @]
  BY DEF Settings!Changed, Settings!WithDefaults
<1>5. Settings!Changed(c) \in Known
  <2> HIDE DEF merged
  <2> QED BY <1>2, <1>3, <1>4 DEF Known
<1>6. ASSUME NEW f \in Fields, f \notin DOMAIN copies[c].change, copies[c].got["timeout"] # ""
      PROVE  Settings!Changed(c)[f] = copies[c].got[f]
  <2>1. merged[f] = copies[c].got[f]
    BY <1>6 DEF Fields
  <2> HIDE DEF merged
  <2> QED BY <1>2, <1>4, <1>6, <2>1 DEF Known
<1> QED BY <1>5, <1>6

LEMMA ApplySettings ==
  ASSUME SettingsInv, NEW c \in Copies, Settings!Apply(c)
  PROVE  SettingsInv'
<1> DEFINE got == copies[c].got
<1>0. /\ CopiesInv /\ StructInv /\ cfg \in Known /\ cfg["timeout"] # ""
      /\ copies \in [Copies -> Settings!Copy \union {None}]
  BY DEF SettingsInv, SettingsTypes
<1>1. /\ copies[c] \in Settings!Copy /\ copies[c] # None /\ CopyInv(c)
      /\ copies[c].at = "copy" /\ copies[c].done = 3
  BY <1>0, FieldNames DEF Settings!Apply, Settings!InFlight, CopiesInv, Order
<1>2. got \in Known
  <2>1. got \in [Fields -> Settings!Values \union {None}]
    BY <1>1, CopyParts
  <2>2. \A j \in 1 .. 3 : got[Order[j]] \in Settings!Values
    BY <1>1 DEF CopyInv
  <2> QED BY <2>1, <2>2, FieldNames DEF Known
<1>3. Agrees(c) => got = cfg
  <2> SUFFICES ASSUME Agrees(c) PROVE got = cfg
    OBVIOUS
  <2>1. \A j \in 1 .. 3 : got[Order[j]] = cfg[Order[j]]
    BY <1>1 DEF Agrees
  <2>2. \A f \in Fields : got[f] = cfg[f]
    BY <2>1, FieldNames
  <2>3. got = [f \in Fields |-> got[f]] /\ cfg = [f \in Fields |-> cfg[f]]
    BY <1>0, <1>2 DEF Known
  <2> HIDE DEF got
  <2> QED BY <2>2, <2>3
<1>4. UNCHANGED <<cfg, row, apart, mixed, acked>>
  BY DEF Settings!Apply, Settings!history
<1>5. "copy" \notin Writing
  BY DEF Writing
<1>6. CASE ~Settings!Asks(c)
  <2>1. PICK q : q = [copies[c] EXCEPT !.at = "run", !.done = 0]
    OBVIOUS
  <2>2. copies' = [copies EXCEPT ![c] = q]
    BY <1>1, <1>6, <2>1 DEF Settings!Apply
  <2>3. /\ q \in Settings!Copy /\ q # None /\ q.at = "run" /\ q.done = 0 /\ q.got = got
        /\ q.change = copies[c].change /\ q.clean = copies[c].clean
    <3>1. PICK r : r = copies[c]
      OBVIOUS
    <3>2. q = [r EXCEPT !.at = "run", !.done = 0] /\ r \in Settings!Copy
      BY <1>1, <2>1, <3>1
    <3>3. /\ q.at = "run" /\ q.done = 0 /\ q.got = r.got
          /\ q.change = r.change /\ q.alone = r.alone /\ q.clean = r.clean
          /\ q = [at |-> q.at, done |-> q.done, got |-> q.got, change |-> q.change,
                  alone |-> q.alone, clean |-> q.clean]
      BY <3>2 DEF Settings!Copy
    <3>4. q \in Settings!Copy /\ q # None
      BY <3>2, <3>3, CopyParts, CopyMade
    <3> QED BY <3>1, <3>3, <3>4
  <2>4. copies'[c] = q
    BY <1>0, <2>2
  <2>5. q.clean => Settings!Valid(got)
    BY <1>1, <1>3, <2>3 DEF CopyInv
  <2>6. ~Settings!Asks(c)' /\ "run" \notin Writing
    BY <1>6, <2>3, <2>4 DEF Settings!Asks, Writing
  <2>7. CopyInv(c)'
    BY <2>3, <2>4, <2>5, <2>6 DEF CopyInv, Settings!Valid
  <2> QED BY <1>1, <1>4, <1>5, <2>2, <2>3, <2>7, OwnCopy
<1>7. CASE Settings!Asks(c) /\ Settings!Valid(Settings!Changed(c))
  <2> DEFINE new == Settings!Changed(c)
  <2>1. PICK q : q = [copies[c] EXCEPT !.at = "install", !.done = 0, !.got = new]
    OBVIOUS
  <2>2. copies' = [copies EXCEPT ![c] = q]
    BY <1>1, <1>7, <2>1 DEF Settings!Apply
  <2>3. new \in Known /\ (got["timeout"] # "" =>
          \A f \in Fields : f \notin DOMAIN copies[c].change => new[f] = got[f])
    BY <1>1, <1>2, <1>7, ChangedParts
  <2>4. /\ q.at = "install" /\ q.done = 0 /\ q.got = new /\ q.change = copies[c].change
        /\ q.alone = copies[c].alone /\ q.clean = copies[c].clean
        /\ q = [at |-> q.at, done |-> q.done, got |-> q.got, change |-> q.change,
                alone |-> q.alone, clean |-> q.clean]
    <3>1. PICK r, g : r = copies[c] /\ g = new
      OBVIOUS
    <3>2. q = [r EXCEPT !.at = "install", !.done = 0, !.got = g] /\ r \in Settings!Copy
      BY <1>1, <2>1, <3>1
    <3>3. /\ q.at = "install" /\ q.done = 0 /\ q.got = g /\ q.change = r.change
          /\ q.alone = r.alone /\ q.clean = r.clean
          /\ q = [at |-> q.at, done |-> q.done, got |-> q.got, change |-> q.change,
                  alone |-> q.alone, clean |-> q.clean]
      BY <3>2 DEF Settings!Copy
    <3> QED BY <3>1, <3>3
  <2>5. q \in Settings!Copy /\ q # None
    <3>1. q.got \in [Fields -> Settings!Values \union {None}]
      BY <2>3, <2>4 DEF Known
    <3>2. /\ q.at \in {"copy", "install", "save", "run"} /\ q.done \in 0 .. 3
          /\ q.change \in Changes \union {None} /\ q.alone \in BOOLEAN /\ q.clean \in BOOLEAN
      BY <1>1, <2>4, CopyParts
    <3> QED BY <2>4, <3>1, <3>2, CopyMade
  <2>6. copies'[c] = q
    BY <1>0, <2>2
  <2>7. Settings!Asks(c)' /\ ~q.clean
    BY <1>1, <1>7, <2>4, <2>6 DEF Settings!Asks, CopyInv
  <2>8. q.alone => Settings!Asking = {c} /\ Agrees(c)
    BY <1>1, <1>7, <2>4 DEF CopyInv
  <2>9. q.alone => \A f \in Fields : f \notin DOMAIN q.change => acked[f] \in {None, new[f]}
    <3> SUFFICES ASSUME q.alone, NEW f \in Fields, f \notin DOMAIN q.change
                 PROVE  acked[f] \in {None, new[f]}
      OBVIOUS
    <3>1. Nobody(Writing)
      <4>1. ASSUME NEW d \in Copies, copies[d] # None, copies[d].at \in Writing PROVE d = c
        <5>1. Settings!Asks(d)
          BY <1>0, <4>1 DEF CopiesInv, CopyInv
        <5> QED BY <2>8, <4>1, <5>1 DEF Settings!Asking, Settings!InFlight
      <4> QED BY <1>1, <1>5, <4>1 DEF Nobody
    <3>2. acked[f] \in {None, cfg[f]}
      BY <1>0, <3>1 DEF StructInv
    <3>3. new[f] = got[f] /\ got = cfg
      BY <1>0, <1>3, <2>3, <2>4, <2>8
    <3> QED BY <3>2, <3>3
  <2>10. Settings!Asking' = Settings!Asking
    BY <1>1, <2>2, <2>4, <2>5, AskingNow
  <2>11. CopyInv(c)'
    <3>1. q.alone => Agrees(c)'
      BY <2>4, <2>6, FieldNames DEF Agrees
    <3>2. Settings!Valid(new)
      BY <1>7
    <3>3. q.at = "install" /\ q.done < 3 /\ q.got \in Known /\ Settings!Valid(q.got)
      <4>1. q.at = "install" /\ q.done = 0 /\ q.got = new
        BY <2>4
      <4>2. Settings!Valid(q.got)
        BY <3>2, <4>1
      <4>3. q.done < 3
        BY <4>1
      <4>4. q.got \in Known
        BY <2>3, <4>1
      <4> QED BY <4>1, <4>2, <4>3, <4>4
    <3>4. q.alone => Settings!Asking' = {c}
      BY <2>8, <2>10
    <3>5. q.alone => \A f \in Fields : f \notin DOMAIN q.change => acked'[f] \in {None, q.got[f]}
      BY <1>4, <2>4, <2>9
    <3> HIDE DEF new
    <3> QED BY <2>6, <2>7, <3>1, <3>3, <3>4, <3>5 DEF CopyInv, Writing, Settings!Valid
  <2> QED BY <1>1, <1>4, <1>5, <2>2, <2>4, <2>5, <2>11, OwnCopy
<1>8. CASE Settings!Asks(c) /\ ~Settings!Valid(Settings!Changed(c))
  <2>1. copies' = [copies EXCEPT ![c] = None]
    BY <1>8 DEF Settings!Apply
  <2> QED BY <1>1, <1>4, <1>5, <2>1, OwnCopy
<1> QED BY <1>6, <1>7, <1>8

LEMMA RunSettings ==
  ASSUME SettingsInv, NEW c \in Copies, Settings!Run(c)
  PROVE  SettingsInv'
<1>1. copies' = [copies EXCEPT ![c] = None] /\ UNCHANGED <<cfg, row, apart, mixed, acked>>
  BY DEF Settings!Run, Settings!history
<1>2. copies[c] # None /\ copies[c].at \notin Writing
  BY DEF Settings!Run, Settings!InFlight, Writing
<1> QED BY <1>1, <1>2, OwnCopy

(* Who writes, and is alone, is the only one that asks.                    *)
LEMMA WriterAsks ==
  ASSUME CopiesInv, NEW c \in Copies, copies[c] # None, copies[c].at \in Writing
  PROVE  /\ c \in Settings!Asking /\ (copies[c].alone => Settings!Asking = {c})
         /\ copies[c].got \in Known /\ Settings!Valid(copies[c].got)
<1>1. CopyInv(c)
  BY DEF CopiesInv
<1> QED BY <1>1 DEF CopyInv, Settings!Asking, Settings!InFlight

(* The struct is overwritten, one field more.                              *)
LEMMA InstallSettings ==
  ASSUME SettingsInv, NEW c \in Copies, Settings!InstallField(c)
  PROVE  SettingsInv'
<1> DEFINE got == copies[c].got
           n == copies[c].done
           f == Order[n + 1]
           last == n + 1 = 3
           disturbed(d) == copies[d] # None /\ copies[d].at = "copy"
<1>0. /\ CopiesInv /\ StructInv /\ cfg \in Known /\ cfg["timeout"] # ""
      /\ copies \in [Copies -> Settings!Copy \union {None}]
  BY DEF SettingsInv, SettingsTypes
<1>1. /\ copies[c] \in Settings!Copy /\ copies[c] # None /\ CopyInv(c)
      /\ copies[c].at = "install" /\ n \in 0 .. 2 /\ "install" \in Writing /\ "save" \in Writing
  <2>1. copies[c] \in Settings!Copy /\ copies[c] # None /\ copies[c].at = "install"
    BY <1>0 DEF Settings!InstallField, Settings!InFlight
  <2>2. CopyInv(c)
    BY <1>0, <2>1 DEF CopiesInv
  <2>3. n \in 0 .. 3 /\ n < 3
    BY <2>1, <2>2, CopyParts DEF CopyInv
  <2>4. "install" \in Writing /\ "save" \in Writing
    BY DEF Writing
  <2> QED BY <2>1, <2>2, <2>3, <2>4
<1>2. /\ c \in Settings!Asking /\ (copies[c].alone => Settings!Asking = {c})
      /\ got \in Known /\ Settings!Valid(got)
  BY <1>0, <1>1, WriterAsks
<1>3. f \in Fields
  BY <1>1, FieldNames
<1>4. /\ cfg' = [cfg EXCEPT ![f] = got[f]] /\ apart' = TRUE /\ UNCHANGED <<row, acked>>
      /\ mixed' = (~copies[c].alone \/ (mixed /\ ~last))
  BY <1>1, FieldNames DEF Settings!InstallField, Order
<1>5. PICK q : q = [copies[c] EXCEPT !.done = IF last THEN 0 ELSE @ + 1,
                                     !.at = IF last THEN "save" ELSE @]
  OBVIOUS
<1>6. copies' = [d \in Copies |-> IF d = c THEN q
                   ELSE IF disturbed(d) THEN [copies[d] EXCEPT !.clean = FALSE] ELSE copies[d]]
  BY <1>5, FieldNames DEF Settings!InstallField, Settings!InFlight, Order
<1>7. /\ q.at = (IF last THEN "save" ELSE "install") /\ q.done = (IF last THEN 0 ELSE n + 1)
      /\ q.got = got /\ q.change = copies[c].change
      /\ q.alone = copies[c].alone /\ q.clean = copies[c].clean
      /\ q \in Settings!Copy /\ q # None
  <2>1. PICK r, l : r = copies[c] /\ l = last
    OBVIOUS
  <2>2. /\ q = [r EXCEPT !.done = IF l THEN 0 ELSE @ + 1, !.at = IF l THEN "save" ELSE @]
        /\ r \in Settings!Copy
    BY <1>1, <1>5, <2>1
  <2>3. /\ q.at = (IF l THEN "save" ELSE r.at) /\ q.done = (IF l THEN 0 ELSE r.done + 1)
        /\ q.got = r.got /\ q.change = r.change /\ q.alone = r.alone /\ q.clean = r.clean
        /\ q = [at |-> q.at, done |-> q.done, got |-> q.got, change |-> q.change,
                alone |-> q.alone, clean |-> q.clean]
    BY <2>2 DEF Settings!Copy
  <2>4. q.at \in {"copy", "install", "save", "run"} /\ q.done \in 0 .. 3
    BY <1>1, <2>1, <2>3
  <2>5. q \in Settings!Copy /\ q # None
    BY <2>2, <2>3, <2>4, CopyParts, CopyMade
  <2> QED BY <1>1, <2>1, <2>3, <2>5
<1>8. copies'[c] = q
  BY <1>6
<1>9. ASSUME NEW d \in Copies, d # c
      PROVE  /\ copies[d] = None <=> copies'[d] = None
             /\ copies'[d] \in Settings!Copy \union {None}
             /\ copies[d] # None =>
                  /\ copies'[d].at = copies[d].at /\ copies'[d].done = copies[d].done
                  /\ copies'[d].got = copies[d].got /\ copies'[d].change = copies[d].change
                  /\ copies'[d].alone = copies[d].alone
                  /\ copies'[d].clean = (copies[d].clean /\ copies[d].at # "copy")
  <2>1. CASE disturbed(d)
    <3>1. copies[d] \in Settings!Copy
      BY <1>0, <2>1
    <3>2. copies'[d] = [copies[d] EXCEPT !.clean = FALSE]
      BY <1>6, <1>9, <2>1
    <3>3. copies'[d] \in Settings!Copy
      BY <3>1, <3>2 DEF Settings!Copy
    <3> QED BY <3>1, <3>2, <3>3, <2>1, ServiceAssumption, CopyParts DEF Settings!Copy
  <2>2. CASE ~disturbed(d)
    <3>1. copies'[d] = copies[d]
      BY <1>6, <1>9, <2>2
    <3> QED BY <1>0, <3>1, <2>2, CopyParts
  <2> QED BY <2>1, <2>2
<1>10. cfg' \in Known /\ cfg'["timeout"] # ""
  BY <1>0, <1>2, <1>3, <1>4, FieldNames DEF Known, Settings!Valid
<1>11. SettingsTypes'
  BY <1>4, <1>6, <1>7, <1>9, <1>10 DEF SettingsInv, SettingsTypes, Settings!Valid
<1>12. Settings!Asking' = Settings!Asking
  <2>1. ASSUME NEW d \in Copies
        PROVE  /\ copies'[d] # None <=> copies[d] # None
               /\ copies[d] # None => copies'[d].change = copies[d].change
    BY <1>1, <1>7, <1>8, <1>9
  <2> HIDE DEF got, n, f, last, disturbed
  <2> QED BY <2>1 DEF Settings!Asking, Settings!InFlight, Settings!Asks
<1>13. copies[c].alone => \A j \in 1 .. 3 : j <= n + 1 => got[Order[j]] = cfg'[Order[j]]
  <2> SUFFICES ASSUME copies[c].alone, NEW j \in 1 .. 3, j <= n + 1
               PROVE  got[Order[j]] = cfg'[Order[j]]
    OBVIOUS
  <2>1. Order[j] \in Fields
    BY FieldNames
  <2>2. CASE j = n + 1
    BY <1>0, <1>4, <2>1, <2>2 DEF Known
  <2>3. CASE j # n + 1
    <3>1. j <= n
      BY <1>1, <2>3
    <3>2. got[Order[j]] = cfg[Order[j]]
      BY <1>1, <3>1 DEF CopyInv, Agrees
    <3>3. cfg'[Order[j]] = cfg[Order[j]] \/ Order[j] = f
      BY <1>0, <1>4, <2>1 DEF Known
    <3> QED BY <1>0, <1>3, <1>4, <3>2, <3>3 DEF Known
  <2> QED BY <2>2, <2>3
<1>14. copies[c].alone /\ last => cfg' = got
  <2> SUFFICES ASSUME copies[c].alone, last PROVE cfg' = got
    OBVIOUS
  <2>1. \A j \in 1 .. 3 : got[Order[j]] = cfg'[Order[j]]
    BY <1>13
  <2>2. \A g \in Fields : got[g] = cfg'[g]
    BY <2>1, FieldNames
  <2>3. got = [g \in Fields |-> got[g]] /\ cfg' = [g \in Fields |-> cfg'[g]]
    BY <1>2, <1>10 DEF Known
  <2> HIDE DEF got
  <2> QED BY <2>2, <2>3
<1>15. CopiesInv'
  <2> SUFFICES ASSUME NEW d \in Copies, copies'[d] # None PROVE CopyInv(d)'
    BY DEF CopiesInv
  <2>1. CASE d = c
    <3>1. q.at \in Writing /\ q.at # "copy" /\ q.at # "run" /\ (q.at = "install" => q.done < 3)
      BY <1>1, <1>7
    <3>2. Settings!Asks(c)' /\ ~q.clean
      BY <1>1, <1>7, <1>8 DEF CopyInv, Settings!Asks
    <3>3. q.got \in Known /\ Settings!Valid(q.got)
      <4>1. q.got = got
        BY <1>7
      <4> HIDE DEF got
      <4> QED BY <1>2, <4>1
    <3>4. q.alone => Settings!Asking' = {c}
      BY <1>2, <1>7, <1>12
    <3>5. q.at = "install" /\ q.alone => Agrees(c)'
      <4> SUFFICES ASSUME q.at = "install", q.alone PROVE Agrees(c)'
        OBVIOUS
      <4>1. q.done = n + 1 /\ q.got = got /\ copies[c].alone
        BY <1>7
      <4> HIDE DEF got, n
      <4> QED BY <1>8, <1>13, <4>1 DEF Agrees
    <3>6. q.at = "save" /\ q.alone => cfg' = q.got
      BY <1>7, <1>14
    <3>7. q.alone => \A g \in Fields : g \notin DOMAIN q.change => acked'[g] \in {None, q.got[g]}
      BY <1>1, <1>4, <1>7 DEF CopyInv
    <3> HIDE DEF got, n, f, last
    <3> QED BY <1>8, <2>1, <3>1, <3>2, <3>3, <3>4, <3>5, <3>6, <3>7 DEF CopyInv, Settings!Valid
  <2>2. CASE d # c
    <3>1. /\ CopyInv(d) /\ copies[d] # None
      BY <1>0, <1>9, <2>2 DEF CopiesInv
    <3>2. Settings!Asks(d)' <=> Settings!Asks(d)
      BY <1>9, <2>2, <3>1 DEF Settings!Asks
    <3>3. ~(copies[d].alone /\ Settings!Asks(d))
      BY <1>2, <2>2, <3>1 DEF CopyInv
    <3>4. copies[d].at \in Writing => Settings!Asks(d)
      BY <3>1 DEF CopyInv
    <3>5. "copy" \notin Writing
      BY DEF Writing
    <3> HIDE DEF got, n, f, last, disturbed
    <3>6. ~(copies'[d].alone /\ Settings!Asks(d)') /\ (copies'[d].at \in Writing => Settings!Asks(d)')
      BY <1>9, <2>2, <3>1, <3>2, <3>3, <3>4
    <3>7. copies'[d].clean => copies[d].clean /\ copies'[d].at # "copy"
      BY <1>9, <2>2, <3>1
    <3>8. /\ copies'[d].at = "install" => copies'[d].done < 3
          /\ copies'[d].at = "copy" => \A j \in 1 .. 3 :
               j <= copies'[d].done => copies'[d].got[Order[j]] \in Settings!Values
          /\ copies'[d].at \in Writing => copies'[d].got \in Known /\ Settings!Valid(copies'[d].got)
          /\ copies'[d].clean => ~Settings!Asks(d)'
          /\ copies'[d].at = "run" /\ copies'[d].clean => Settings!Valid(copies'[d].got)
      BY <1>9, <2>2, <3>1, <3>2, <3>7 DEF CopyInv, Settings!Valid
    <3> QED BY <1>1, <3>6, <3>7, <3>8 DEF CopyInv, Settings!Valid
  <2> QED BY <2>1, <2>2
<1>16. StructInv'
  <2>1. q.at \in Writing /\ (q.at = "install" \/ last)
    BY <1>1, <1>7
  <2>2. ~Nobody(Writing)' /\ (Nobody({"install"})' => last)
    BY <1>7, <1>8, <2>1 DEF Nobody
  <2>3. ~mixed' /\ last => cfg' = got
    BY <1>4, <1>14
  <2>4. ~mixed' /\ Nobody({"install"})' => Settings!Valid(cfg)'
    BY <1>2, <2>2, <2>3 DEF Settings!Valid
  <2>5. \A g \in Fields : acked'[g] \in {None, Settings!Load'[g]}
    BY <1>0, <1>4 DEF StructInv, Settings!Load
  <2> QED BY <1>4, <2>2, <2>4, <2>5 DEF StructInv
<1> QED BY <1>11, <1>15, <1>16 DEF SettingsInv

(* A request ends, saved or not: what it leaves in the row, and of what    *)
(* was acknowledged.                                                       *)
LEMMA EndsSettings ==
  ASSUME SettingsInv, NEW c \in Copies, copies[c] # None, copies[c].at = "save",
         copies' = [copies EXCEPT ![c] = None], UNCHANGED <<cfg, mixed>>,
         \/ row' = copies[c].got /\ apart' = ~copies[c].alone
         \/ UNCHANGED <<row, apart>>,
         acked' \in [Fields -> Settings!Values \union {None}],
         ~copies[c].alone => \A f \in Fields : acked'[f] = None,
         copies[c].alone => \A f \in Fields :
           /\ acked'[f] \in {None, copies[c].got[f]}
           /\ row' # copies[c].got => acked'[f] \in {None, acked[f]}
  PROVE  SettingsInv'
<1> DEFINE got == copies[c].got
<1>0. /\ SettingsTypes /\ CopiesInv /\ StructInv
      /\ copies \in [Copies -> Settings!Copy \union {None}]
  BY DEF SettingsInv, SettingsTypes
<1>1. copies[c].at \in Writing
  BY DEF Writing
<1>2. /\ c \in Settings!Asking /\ (copies[c].alone => Settings!Asking = {c})
      /\ got \in Known /\ Settings!Valid(got) /\ got # None
  BY <1>0, <1>1, WriterAsks, ServiceAssumption DEF Known, Fields
<1>3. copies[c].alone \in BOOLEAN /\ (copies[c].alone => cfg = got)
  BY <1>0, CopyParts DEF CopiesInv, CopyInv
<1>4. row' = got \/ row' = row
  OBVIOUS
<1>5. row' \in Known \union {None} /\ (row' # None => Settings!Valid(row'))
  <2>1. CASE row' = got
    BY <1>2, <2>1
  <2>2. CASE row' = row
    BY <1>0, <2>2 DEF SettingsTypes
  <2> QED BY <1>4, <2>1, <2>2
<1>6. SettingsTypes'
  BY <1>0, <1>3, <1>5 DEF SettingsTypes, Settings!Valid
<1>7. CopiesInv'
  <2> SUFFICES ASSUME NEW d \in Copies, copies'[d] # None PROVE CopyInv(d)'
    BY DEF CopiesInv
  <2>1. d # c /\ copies'[d] = copies[d]
    BY <1>0
  <2>2. Settings!Asking' = Settings!Asking \ {c}
    BY AskingNow
  <2>3. Settings!Asking # {d}
    BY <1>2, <2>1
  <2> QED BY <1>0, <2>1, <2>2, <2>3, OthersKept
<1>8. Settings!Load' = IF row' = got THEN got ELSE Settings!Load
  <2>1. CASE row' = got
    BY <1>2, <2>1 DEF Settings!Load
  <2>2. CASE row' # got
    BY <1>4, <2>2 DEF Settings!Load
  <2> QED BY <2>1, <2>2
<1>9. Nobody({"install"})' => Nobody({"install"})
  BY <1>0 DEF Nobody
<1>10. ~apart' => cfg' = Settings!Load'
  <2>1. CASE row' = got /\ apart' = ~copies[c].alone
    BY <1>3, <1>8, <2>1
  <2>2. CASE UNCHANGED <<row, apart>>
    BY <1>0, <2>2 DEF StructInv, Settings!Load
  <2> QED BY <2>1, <2>2
<1>11. \A f \in Fields : acked'[f] \in {None, cfg'[f]}
  BY <1>3
<1>12. \A f \in Fields : acked'[f] \in {None, Settings!Load'[f]}
  <2> SUFFICES ASSUME NEW f \in Fields, copies[c].alone
               PROVE  acked'[f] \in {None, Settings!Load'[f]}
    BY <1>3
  <2>1. CASE row' = got
    BY <1>8, <2>1
  <2>2. CASE row' # got
    BY <1>0, <1>4, <1>8, <2>2 DEF StructInv
  <2> QED BY <2>1, <2>2
<1>13. StructInv'
  BY <1>0, <1>9, <1>10, <1>11, <1>12 DEF StructInv, Settings!Valid
<1> QED BY <1>6, <1>7, <1>13 DEF SettingsInv

LEMMA SaveSettings ==
  ASSUME SettingsInv, NEW c \in Copies, Settings!Save(c) \/ Settings!SaveFails(c)
  PROVE  SettingsInv'
<1> DEFINE got == copies[c].got
<1>0. /\ CopiesInv /\ acked \in [Fields -> Settings!Values \union {None}]
      /\ copies \in [Copies -> Settings!Copy \union {None}]
  BY DEF SettingsInv, SettingsTypes
<1>1. /\ copies[c] # None /\ copies[c].at = "save" /\ copies[c].at \in Writing
      /\ copies' = [copies EXCEPT ![c] = None] /\ UNCHANGED <<cfg, mixed>>
  BY DEF Settings!Save, Settings!Saves, Settings!SaveFails, Settings!InFlight, Writing
<1>2. got \in Known
  BY <1>0, <1>1, WriterAsks
<1>3. copies[c].alone =>
        \A f \in Fields : f \notin DOMAIN copies[c].change => acked[f] \in {None, got[f]}
  BY <1>0, <1>1 DEF CopiesInv, CopyInv
<1>4. CASE Settings!Save(c)
  <2>1. row' = got /\ apart' = ~copies[c].alone
    BY <1>4 DEF Settings!Save, Settings!Saves
  <2>2. /\ ~copies[c].alone => acked' = [f \in Fields |-> None]
        /\ copies[c].alone => acked' = [f \in Fields |->
             IF f \in DOMAIN copies[c].change THEN got[f] ELSE acked[f]]
    BY <1>4 DEF Settings!Save, Settings!Saves, Settings!Acknowledged, Settings!Unsure, Fields
  <2>3. acked' \in [Fields -> Settings!Values \union {None}]
    BY <1>0, <1>2, <2>2 DEF Known
  <2>4. copies[c].alone => \A f \in Fields : acked'[f] \in {None, got[f]}
    BY <1>3, <2>2
  <2>5. ~copies[c].alone => \A f \in Fields : acked'[f] = None
    BY <2>2
  <2> QED BY <1>1, <2>1, <2>3, <2>4, <2>5, EndsSettings
<1>5. CASE Settings!SaveFails(c)
  <2>1. UNCHANGED <<row, apart>>
    BY <1>5 DEF Settings!SaveFails
  <2>2. /\ ~copies[c].alone => acked' = [f \in Fields |-> None]
        /\ copies[c].alone => acked' = [f \in Fields |->
             IF f \in DOMAIN copies[c].change THEN None ELSE acked[f]]
    BY <1>5 DEF Settings!SaveFails, Settings!Unsure, Fields
  <2>3. acked' \in [Fields -> Settings!Values \union {None}]
    BY <1>0, <2>2
  <2>4. copies[c].alone => \A f \in Fields :
          acked'[f] \in {None, got[f]} /\ acked'[f] \in {None, acked[f]}
    BY <1>3, <2>2
  <2>5. ~copies[c].alone => \A f \in Fields : acked'[f] = None
    BY <2>2
  <2> QED BY <1>1, <2>1, <2>3, <2>4, <2>5, EndsSettings
<1> QED BY <1>4, <1>5

LEMMA RestartSettings ==
  ASSUME SettingsInv, Settings!Restart \/ Settings!RestartUnread
  PROVE  SettingsInv'
<1>0. SettingsTypes /\ StructInv
  BY DEF SettingsInv
<1>1. /\ copies' = [c \in Copies |-> None] /\ UNCHANGED row /\ mixed' = FALSE
      /\ apart' \in BOOLEAN
  BY DEF Settings!Restart, Settings!RestartUnread
<1>2. /\ Settings!Load \in Known /\ Settings!Valid(Settings!Load)
      /\ Settings!Load["timeout"] # ""
  <2>1. CASE row = None
    BY <2>1, FileIsValid DEF Settings!Load
  <2>2. CASE row # None
    BY <1>0, <2>2 DEF Settings!Load, SettingsTypes, Settings!Valid
  <2> QED BY <2>1, <2>2
<1>3. cfg' = Settings!Load \/ cfg' = Settings!File
  BY DEF Settings!Restart, Settings!RestartUnread
<1>4. cfg' \in Known /\ cfg'["timeout"] # "" /\ Settings!Valid(cfg)'
  <2>1. CASE cfg' = Settings!Load
    BY <1>2, <2>1 DEF Settings!Valid
  <2>2. CASE cfg' = Settings!File
    BY <2>2, FileIsValid DEF Settings!Valid
  <2> QED BY <1>3, <2>1, <2>2
<1>5. \/ cfg' = Settings!Load /\ UNCHANGED acked
      \/ apart' = TRUE /\ acked' = [f \in Fields |-> None]
  BY DEF Settings!Restart, Settings!RestartUnread, Settings!Unsure, Fields
<1>6. SettingsTypes'
  BY <1>0, <1>1, <1>4, <1>5 DEF SettingsTypes, Settings!Valid
<1>7. CopiesInv'
  BY <1>1 DEF CopiesInv
<1>8. StructInv'
  BY <1>0, <1>1, <1>4, <1>5 DEF StructInv, Settings!Load
<1> QED BY <1>6, <1>7, <1>8 DEF SettingsInv

LEMMA NextSettings ==
  ASSUME SettingsInv, Settings!Next
  PROVE  SettingsInv'
BY BeginSettings, CopyFieldSettings, ApplySettings, InstallSettings, SaveSettings, RunSettings,
   RestartSettings DEF Settings!Next

(* What a field may have.  The struct, the row and what is on its way to   *)
(* them have passed Validate, field by field.                              *)
Good(f, v) == v \in Settings!Checked[f]

GoodCopy(c) ==
  /\ copies[c].at = "copy" =>
       \A j \in 1 .. 3 : j <= copies[c].done => Good(Order[j], copies[c].got[Order[j]])
  /\ copies[c].at \in Writing => \A f \in Fields : Good(f, copies[c].got[f])

ValuesInv ==
  /\ \A f \in Fields : Good(f, cfg[f])
  /\ row # None => \A f \in Fields : Good(f, row[f])
  /\ \A c \in Copies : copies[c] # None => GoodCopy(c)

LEMMA FileIsGood == \A f \in Fields : Good(f, Settings!File[f])
<1>1. /\ Settings!File["timeout"] = "default" /\ Settings!File["enabled"] = "off"
      /\ Settings!File["host"] = ""
  BY DEF Settings!File
<1> QED BY <1>1, FieldNames, FieldRanges DEF Good

LEMMA ChangedIsGood ==
  ASSUME NEW c \in Copies, copies[c] \in Settings!Copy, Settings!Asks(c),
         \A f \in Fields : Good(f, copies[c].got[f]), Settings!Valid(Settings!Changed(c)),
         Settings!Changed(c) \in Known
  PROVE  \A f \in Fields : Good(f, Settings!Changed(c)[f])
<1> DEFINE merged == [f \in Settings!Fields |->
             IF f \in DOMAIN copies[c].change THEN copies[c].change[f] ELSE copies[c].got[f]]
           new == Settings!Changed(c)
<1>1. copies[c].change \in Changes
  BY CopyParts DEF Settings!Asks
<1>2. ASSUME NEW f \in Fields PROVE merged[f] \in Settings!Asked[f]
  <2>1. CASE f \in DOMAIN copies[c].change
    BY <1>1, <1>2, <2>1, ServiceAssumption DEF Fields
  <2>2. CASE f \notin DOMAIN copies[c].change
    BY <1>2, <2>2, FieldRanges DEF Good, Fields
  <2> QED BY <2>1, <2>2
<1>3. new = [merged EXCEPT !["timeout"] = IF @ = "" THEN "default" ELSE @]
  BY DEF Settings!Changed, Settings!WithDefaults
<1>4. DOMAIN merged = Fields
  BY DEF Fields
<1> HIDE DEF merged
<1>5. ASSUME NEW f \in Fields, f # "timeout" PROVE new[f] \in Settings!Asked[f]
  BY <1>2, <1>3, <1>4, <1>5
<1>6. new["timeout"] \in Settings!Asked["timeout"]
  <2>1. "timeout" \in Fields /\ "default" \in Settings!Asked["timeout"]
    BY FieldNames, FieldRanges
  <2> QED BY <1>2, <1>3, <1>4, <2>1
<1>7. new["timeout"] \notin {"wrong", ""}
  BY DEF Settings!Valid
<1> QED BY <1>5, <1>6, <1>7, FieldNames, FieldRanges DEF Good

LEMMA InitValues == Settings!Init => ValuesInv
BY FileIsGood DEF Settings!Init, ValuesInv

(* One copy is changed, or given up; the struct and the row are as good.   *)
LEMMA NextValues ==
  ASSUME ValuesInv, SettingsInv, Settings!Next
  PROVE  ValuesInv'
<1>0. /\ SettingsTypes /\ CopiesInv /\ cfg \in Known
      /\ copies \in [Copies -> Settings!Copy \union {None}]
      /\ "copy" \notin Writing /\ "run" \notin Writing /\ "install" \in Writing
      /\ "save" \in Writing
  BY DEF SettingsInv, SettingsTypes, Writing
<1>1. ASSUME NEW c \in Copies, UNCHANGED <<cfg, row>>,
             \A d \in Copies \ {c} : copies'[d] # None =>
               /\ copies[d] # None /\ copies'[d].at = copies[d].at
               /\ copies'[d].done = copies[d].done /\ copies'[d].got = copies[d].got,
             copies'[c] # None => GoodCopy(c)'
      PROVE  ValuesInv'
  BY <1>1 DEF ValuesInv, GoodCopy
<1>2. ASSUME NEW c \in Copies, NEW q, copies' = [copies EXCEPT ![c] = q],
             UNCHANGED <<cfg, row>>, q # None => GoodCopy(c)'
      PROVE  ValuesInv'
  <2>1. copies'[c] = q /\ \A d \in Copies \ {c} : copies'[d] = copies[d]
    BY <1>0, <1>2
  <2> QED BY <1>1, <1>2, <2>1
<1>3. ASSUME NEW c \in Copies, NEW change \in Changes \union {None}, Settings!Begin(c, change)
      PROVE  ValuesInv'
  <2>0. PICK new : /\ new.at = "copy" /\ new.done = 0
                   /\ copies' = [d \in Copies |-> IF d = c THEN new
                        ELSE IF d \in Settings!Asking /\ change # None
                        THEN [copies[d] EXCEPT !.alone = FALSE] ELSE copies[d]]
    BY <1>3 DEF Settings!Begin
  <2>1. /\ UNCHANGED <<cfg, row>> /\ copies'[c].at = "copy" /\ copies'[c].done = 0
        /\ \A d \in Copies \ {c} : copies'[d] = copies[d]
             \/ (copies[d] # None /\ copies'[d] = [copies[d] EXCEPT !.alone = FALSE])
    <3>1. UNCHANGED <<cfg, row>> /\ copies'[c].at = "copy"
          /\ copies'[c].done = 0
      BY <1>3, <2>0 DEF Settings!Begin
    <3>2. ASSUME NEW d \in Copies \ {c}, d \in Settings!Asking /\ change # None
          PROVE  copies[d] # None /\ copies'[d] = [copies[d] EXCEPT !.alone = FALSE]
      BY <2>0, <3>2 DEF Settings!Asking, Settings!InFlight
    <3>3. ASSUME NEW d \in Copies \ {c}, ~(d \in Settings!Asking /\ change # None)
          PROVE  copies'[d] = copies[d]
      BY <2>0, <3>3
    <3>4. ASSUME NEW d \in Copies \ {c}
          PROVE  copies'[d] = copies[d]
                 \/ (copies[d] # None /\ copies'[d] = [copies[d] EXCEPT !.alone = FALSE])
      <4>1. CASE d \in Settings!Asking /\ change # None
        BY <3>2, <4>1
      <4>2. CASE ~(d \in Settings!Asking /\ change # None)
        BY <3>3, <4>2
      <4> QED BY <4>1, <4>2
    <3> QED BY <3>1, <3>4
  <2>2. \A j \in 1 .. 3 : ~(j <= 0)
    OBVIOUS
  <2>3. GoodCopy(c)'
    BY <1>0, <2>1, <2>2 DEF GoodCopy
  <2>4. ASSUME NEW d \in Copies \ {c}, copies'[d] # None
        PROVE  /\ copies[d] # None /\ copies'[d].at = copies[d].at
               /\ copies'[d].done = copies[d].done /\ copies'[d].got = copies[d].got
    <3>1. copies'[d] = copies[d] \/ (copies[d] \in Settings!Copy /\ copies[d] # None
                                     /\ copies'[d] = [copies[d] EXCEPT !.alone = FALSE])
      BY <1>0, <2>1
    <3> QED BY <2>4, <3>1 DEF Settings!Copy
  <2> QED BY <1>1, <2>1, <2>3, <2>4
<1>4. ASSUME NEW c \in Copies, Settings!CopyField(c) PROVE ValuesInv'
  <2>1. /\ copies[c] \in Settings!Copy /\ copies[c] # None /\ copies[c].at = "copy"
        /\ copies[c].done \in 0 .. 2 /\ UNCHANGED <<cfg, row>>
    BY <1>0, <1>4, CopyParts, FieldNames DEF Settings!CopyField, Settings!InFlight, Order
  <2>2. PICK r, n, f, v : r = copies[c] /\ n = r.done /\ f = Order[n + 1] /\ v = cfg[f]
    OBVIOUS
  <2>3. PICK q : q = [r EXCEPT !.got[f] = v, !.done = @ + 1]
    OBVIOUS
  <2>4. copies' = [copies EXCEPT ![c] = q]
    BY <1>0, <1>4, <2>1, <2>2, <2>3 DEF Settings!CopyField, Order
  <2>5. /\ q.at = "copy" /\ q.done = n + 1 /\ q.got = [r.got EXCEPT ![f] = v]
        /\ q.change = r.change /\ q.alone = r.alone /\ q.clean = r.clean
        /\ q = [at |-> q.at, done |-> q.done, got |-> q.got, change |-> q.change,
                alone |-> q.alone, clean |-> q.clean]
    BY <2>1, <2>2, <2>3 DEF Settings!Copy
  <2>6. f \in Fields /\ Good(f, v) /\ v \in Settings!Values /\ GoodCopy(c) /\ n \in 0 .. 2
    BY <1>0, <2>1, <2>2, FieldNames DEF ValuesInv, Known
  <2>7. r.got \in [Fields -> Settings!Values \union {None}] /\ q # None /\ copies'[c] = q
    <3>1. r.got \in [Fields -> Settings!Values \union {None}]
      BY <2>1, <2>2, CopyParts
    <3>2. /\ q.got \in [Fields -> Settings!Values \union {None}]
          /\ q.at \in {"copy", "install", "save", "run"} /\ q.done \in 0 .. 3
          /\ q.change \in Changes \union {None} /\ q.alone \in BOOLEAN /\ q.clean \in BOOLEAN
      BY <2>1, <2>2, <2>5, <2>6, <3>1, CopyParts
    <3> QED BY <1>0, <2>4, <2>5, <3>1, <3>2, CopyMade
  <2>8. ASSUME NEW j \in 1 .. 3, j <= n + 1 PROVE Good(Order[j], q.got[Order[j]])
    <3>1. CASE j = n + 1
      BY <2>2, <2>5, <2>6, <2>7, <3>1
    <3>2. CASE j # n + 1
      <4>1. j <= n /\ Order[j] \in Fields
        BY <2>6, <2>8, <3>2, FieldNames
      <4>2. Good(Order[j], r.got[Order[j]])
        BY <2>1, <2>2, <2>6, <2>8, <4>1 DEF GoodCopy
      <4>3. q.got[Order[j]] = r.got[Order[j]] \/ (Order[j] = f /\ q.got[Order[j]] = v)
        BY <2>5, <2>6, <2>7, <4>1
      <4> QED BY <2>6, <4>2, <4>3
    <3> QED BY <3>1, <3>2
  <2>9. GoodCopy(c)'
    BY <1>0, <2>5, <2>7, <2>8 DEF GoodCopy
  <2> QED BY <1>2, <2>1, <2>4, <2>9
<1>5. ASSUME NEW c \in Copies, Settings!Apply(c) PROVE ValuesInv'
  <2>1. /\ copies[c] \in Settings!Copy /\ copies[c] # None /\ copies[c].at = "copy"
        /\ copies[c].done = 3 /\ GoodCopy(c) /\ CopyInv(c) /\ UNCHANGED <<cfg, row>>
    BY <1>0, <1>5, FieldNames
       DEF Settings!Apply, Settings!InFlight, Settings!history, Order, ValuesInv, CopiesInv
  <2>2. /\ \A f \in Fields : Good(f, copies[c].got[f])
        /\ copies[c].got \in Known
    <3>1. \A j \in 1 .. 3 : Good(Order[j], copies[c].got[Order[j]])
      BY <2>1 DEF GoodCopy
    <3>2. \A j \in 1 .. 3 : copies[c].got[Order[j]] \in Settings!Values
      BY <2>1 DEF CopyInv
    <3>3. copies[c].got \in [Fields -> Settings!Values \union {None}]
      BY <2>1, CopyParts
    <3> QED BY <3>1, <3>2, <3>3, FieldNames DEF Known
  <2>3. PICK q : /\ copies' = [copies EXCEPT ![c] = q]
                 /\ q = IF ~Settings!Asks(c) THEN [copies[c] EXCEPT !.at = "run", !.done = 0]
                        ELSE IF Settings!Valid(Settings!Changed(c))
                        THEN [copies[c] EXCEPT !.at = "install", !.done = 0,
                                               !.got = Settings!Changed(c)]
                        ELSE None
    BY <1>0, <1>5, <2>1 DEF Settings!Apply
  <2>4. copies'[c] = q
    BY <1>0, <2>3
  <2>5. q # None => GoodCopy(c)'
    <3>1. CASE ~Settings!Asks(c)
      <4>1. q.at = "run"
        BY <2>1, <2>3, <3>1 DEF Settings!Copy
      <4> QED BY <1>0, <2>4, <4>1 DEF GoodCopy
    <3>2. CASE Settings!Asks(c) /\ Settings!Valid(Settings!Changed(c))
      <4>1. PICK g : g = Settings!Changed(c)
        OBVIOUS
      <4>2. q.at = "install" /\ q.got = g
        BY <2>1, <2>3, <3>2, <4>1 DEF Settings!Copy
      <4>3. \A f \in Fields : Good(f, g[f])
        BY <2>1, <2>2, <3>2, <4>1, ChangedParts, ChangedIsGood
      <4> QED BY <1>0, <2>4, <4>2, <4>3 DEF GoodCopy
    <3>3. CASE Settings!Asks(c) /\ ~Settings!Valid(Settings!Changed(c))
      BY <2>3, <3>3
    <3> QED BY <3>1, <3>2, <3>3
  <2> QED BY <1>2, <2>1, <2>3, <2>5
<1>6. ASSUME NEW c \in Copies, Settings!InstallField(c) PROVE ValuesInv'
  <2>1. /\ copies[c] \in Settings!Copy /\ copies[c] # None /\ copies[c].at = "install"
        /\ GoodCopy(c) /\ CopyInv(c) /\ copies[c].done \in 0 .. 3 /\ row' = row
    BY <1>0, <1>6, CopyParts
       DEF Settings!InstallField, Settings!InFlight, ValuesInv, CopiesInv
  <2>2. PICK got, n, f : got = copies[c].got /\ n = copies[c].done /\ f = Order[n + 1]
    OBVIOUS
  <2>3. /\ n \in 0 .. 2 /\ f \in Fields /\ cfg' = [cfg EXCEPT ![f] = got[f]]
    BY <1>0, <1>6, <2>1, <2>2, FieldNames DEF Settings!InstallField, CopyInv, Order
  <2>4. \A g \in Fields : Good(g, got[g])
    BY <1>0, <2>1, <2>2 DEF GoodCopy
  <2>5. \A g \in Fields : Good(g, cfg'[g])
    <3>1. \A g \in Fields : cfg'[g] = IF g = f THEN got[f] ELSE cfg[g]
      BY <1>0, <2>3 DEF Known
    <3> QED BY <2>3, <2>4, <3>1 DEF ValuesInv
  <2>6. ASSUME NEW d \in Copies, copies'[d] # None PROVE GoodCopy(d)'
    <3>1. CASE d = c
      <4>1. PICK last : last = (n + 1 = Len(Settings!Order))
        OBVIOUS
      <4>2. copies'[c] = [copies[c] EXCEPT !.done = IF last THEN 0 ELSE @ + 1,
                                           !.at = IF last THEN "save" ELSE @]
        BY <1>6, <2>2, <4>1 DEF Settings!InstallField
      <4>3. copies'[c].got = got /\ copies'[c].at \in Writing
        BY <1>0, <2>1, <2>2, <4>2 DEF Settings!Copy
      <4> QED BY <1>0, <2>4, <3>1, <4>3 DEF GoodCopy
    <3>2. CASE d # c
      <4>0. PICK q : copies' = [e \in Copies |-> IF e = c THEN q
                       ELSE IF copies[e] # None /\ copies[e].at = "copy"
                       THEN [copies[e] EXCEPT !.clean = FALSE] ELSE copies[e]]
        BY <1>6 DEF Settings!InstallField, Settings!InFlight
      <4>1. copies'[d] = copies[d]
            \/ (copies[d] # None /\ copies'[d] = [copies[d] EXCEPT !.clean = FALSE])
        <5>1. CASE copies[d] # None /\ copies[d].at = "copy"
          BY <3>2, <4>0, <5>1
        <5>2. CASE ~(copies[d] # None /\ copies[d].at = "copy")
          <6>1. copies'[d] = copies[d]
            BY <3>2, <4>0, <5>2
          <6> QED BY <6>1
        <5> QED BY <5>1, <5>2
      <4>2. /\ copies[d] # None /\ copies'[d].at = copies[d].at
            /\ copies'[d].done = copies[d].done /\ copies'[d].got = copies[d].got
        <5>1. copies[d] # None /\ copies[d] \in Settings!Copy
          BY <1>0, <2>6, <4>1
        <5> QED BY <4>1, <5>1 DEF Settings!Copy
      <4> QED BY <2>6, <4>2 DEF ValuesInv, GoodCopy
    <3> QED BY <3>1, <3>2
  <2> QED BY <2>1, <2>5, <2>6 DEF ValuesInv
<1>7. ASSUME NEW c \in Copies, Settings!Save(c) \/ Settings!SaveFails(c) PROVE ValuesInv'
  <2>1. /\ copies[c] # None /\ copies[c].at = "save" /\ cfg' = cfg
        /\ copies' = [copies EXCEPT ![c] = None] /\ (row' = row \/ row' = copies[c].got)
    BY <1>7 DEF Settings!Save, Settings!Saves, Settings!SaveFails, Settings!InFlight
  <2>2. \A f \in Fields : Good(f, copies[c].got[f])
    BY <1>0, <2>1 DEF ValuesInv, GoodCopy
  <2>3. row' # None => \A f \in Fields : Good(f, row'[f])
    BY <2>1, <2>2 DEF ValuesInv
  <2>4. \A d \in Copies : copies'[d] # None => copies'[d] = copies[d]
    BY <1>0, <2>1
  <2> QED BY <2>1, <2>3, <2>4 DEF ValuesInv, GoodCopy
<1>8. ASSUME NEW c \in Copies, Settings!Run(c) PROVE ValuesInv'
  BY <1>2, <1>8 DEF Settings!Run, Settings!history
<1>9. ASSUME Settings!Restart \/ Settings!RestartUnread PROVE ValuesInv'
  <2>1. /\ copies' = [c \in Copies |-> None] /\ row' = row
        /\ \/ cfg' = Settings!File \/ (row # None /\ cfg' = row)
    BY <1>9 DEF Settings!Restart, Settings!RestartUnread, Settings!Load
  <2> QED BY <2>1, FileIsGood DEF ValuesInv
<1> QED BY <1>3, <1>4, <1>5, <1>6, <1>7, <1>8, <1>9 DEF Settings!Next

-----------------------------------------------------------------------------
(* What is around an execution: every step is a step of one part.          *)

LEMMA CacheIsKept == ServiceSpec => []CacheInv
<1>1. ServiceInit => CacheInv
  BY InitCache DEF ServiceInit
<1>2. CacheInv /\ [ServiceNext]_serviceVars => CacheInv'
  <2> SUFFICES ASSUME CacheInv, [ServiceNext]_serviceVars PROVE CacheInv'
    OBVIOUS
  <2>1. CASE Gateway!Next
    BY <2>1, NextCache
  <2>2. CASE UNCHANGED gatewayVars
    BY <2>2 DEF gatewayVars, CacheInv, Gateway!Old
  <2> QED BY <2>1, <2>2 DEF ServiceNext, Elsewhere, serviceVars
<1> QED BY <1>1, <1>2, PTL DEF ServiceSpec

LEMMA SettingsAreKept == ServiceSpec => []SettingsInv
<1>1. ServiceInit => SettingsInv
  BY InitSettings DEF ServiceInit
<1>2. SettingsInv /\ [ServiceNext]_serviceVars => SettingsInv'
  <2> SUFFICES ASSUME SettingsInv, [ServiceNext]_serviceVars PROVE SettingsInv'
    OBVIOUS
  <2>1. CASE Settings!Next
    BY <2>1, NextSettings
  <2>2. CASE UNCHANGED settingsVars
    <3>1. SettingsTypes' /\ StructInv'
      BY <2>2 DEF settingsVars, SettingsInv, SettingsTypes, StructInv, Nobody,
                  Settings!Load, Settings!Valid
    <3>2. CopiesInv'
      <4>1. Settings!Asking' = Settings!Asking
        BY <2>2 DEF settingsVars, Settings!Asking, Settings!InFlight, Settings!Asks
      <4> QED BY <2>2, <4>1, OthersKept DEF settingsVars, SettingsInv, CopiesInv
    <3> QED BY <3>1, <3>2 DEF SettingsInv
  <2> QED BY <2>1, <2>2 DEF ServiceNext, Elsewhere, serviceVars
<1> QED BY <1>1, <1>2, PTL DEF ServiceSpec

LEMMA LimitsAreKept == ServiceSpec => []LimiterInv
<1>1. ServiceInit => LimiterInv
  BY InitLimiter DEF ServiceInit
<1>2. LimiterInv /\ CacheInv /\ [ServiceNext]_serviceVars => LimiterInv'
  <2> SUFFICES ASSUME LimiterInv, CacheInv, [ServiceNext]_serviceVars PROVE LimiterInv'
    OBVIOUS
  <2>1. CASE Gateway!Next
    BY <2>1, NextLimiter
  <2>2. CASE UNCHANGED gatewayVars
    BY <2>2, LimiterStays DEF gatewayVars
  <2> QED BY <2>1, <2>2 DEF ServiceNext, Elsewhere, serviceVars
<1> QED BY <1>1, <1>2, CacheIsKept, PTL DEF ServiceSpec

LEMMA ValuesAreKept == ServiceSpec => []ValuesInv
<1>1. ServiceInit => ValuesInv
  BY InitValues DEF ServiceInit
<1>2. ValuesInv /\ SettingsInv /\ [ServiceNext]_serviceVars => ValuesInv'
  <2> SUFFICES ASSUME ValuesInv, SettingsInv, [ServiceNext]_serviceVars PROVE ValuesInv'
    OBVIOUS
  <2>1. CASE Settings!Next
    BY <2>1, NextValues
  <2>2. CASE UNCHANGED settingsVars
    BY <2>2 DEF settingsVars, ValuesInv, GoodCopy
  <2> QED BY <2>1, <2>2 DEF ServiceNext, Elsewhere, serviceVars
<1> QED BY <1>1, <1>2, SettingsAreKept, PTL DEF ServiceSpec

(* The accounts take no step of another kind among the other parts.        *)
LEMMA AccountsAlone == ServiceSpec => Spec
<1>1. ServiceInit => Init
  BY DEF ServiceInit
<1>2. [ServiceNext]_serviceVars => [Next]_vars
  BY DEF ServiceNext, serviceVars, Next
<1> QED BY <1>1, <1>2, PTL DEF ServiceSpec, Spec

PartInv == about \in {"accounts", "gateway", "settings"}

LEMMA PartIsKept == ServiceSpec => []PartInv
<1>1. ServiceInit => PartInv
  BY DEF ServiceInit, PartInv
<1>2. PartInv /\ [ServiceNext]_serviceVars => PartInv'
  BY DEF ServiceNext, serviceVars, Elsewhere, PartInv
<1> QED BY <1>1, <1>2, PTL DEF ServiceSpec

LEMMA GatewayTypes == CacheInv /\ LimiterInv => Gateway!TypeOK
BY SameCardinality DEF CacheInv, LimiterInv, LimiterOf, Gateway!TypeOK

LEMMA SettingsTypesOK == SettingsInv /\ ValuesInv => Settings!TypeOK
<1> SUFFICES ASSUME SettingsInv, ValuesInv PROVE Settings!TypeOK
  OBVIOUS
<1>1. ASSUME NEW v \in Known, \A f \in Fields : Good(f, v[f]) PROVE v \in Settings!Config
  BY <1>1 DEF Known, Good, Settings!Config, Fields
<1>2. cfg \in Settings!Config /\ row \in Settings!Config \union {None}
  BY <1>1 DEF SettingsInv, SettingsTypes, ValuesInv
<1>3. ASSUME NEW c \in Settings!InFlight, copies[c].at \in {"install", "save"}
      PROVE  copies[c].got \in Settings!Config
  BY <1>1, <1>3 DEF SettingsInv, CopiesInv, CopyInv, ValuesInv, GoodCopy, Settings!InFlight, Writing
<1> QED BY <1>2, <1>3 DEF Settings!TypeOK, SettingsInv, SettingsTypes, Fields

(* The types of all that surrounds an execution: what the limiter keeps of *)
(* an address is never more than the limit, and what is on its way into    *)
(* struct and row has passed Validate, field by field.                     *)
THEOREM ServiceTypes == ServiceSpec => []ServiceTypeOK
<1>1. PartInv /\ TypeOK /\ CacheInv /\ LimiterInv /\ SettingsInv /\ ValuesInv => ServiceTypeOK
  BY GatewayTypes, SettingsTypesOK DEF ServiceTypeOK, PartInv
<1> QED BY <1>1, AccountsAlone, AccountsTypeOK, PartIsKept, CacheIsKept, LimitsAreKept,
           SettingsAreKept, ValuesAreKept, PTL

(* No interval sees more logins from one address than the limit, wherever  *)
(* it begins, and although the clock is read outside the mutex; but those  *)
(* that were overtaken come in addition (loginRateLimiter.allow).          *)
THEOREM LoginsAreLimited == ServiceSpec => []AtMostLimitPerWindow
<1>1. LimiterInv => AtMostLimitPerWindow
  BY SameCardinality
     DEF LimiterInv, LimiterOf, Inside, AtMostLimitPerWindow, Gateway!AtMostLimitPerWindow
<1> QED BY <1>1, LimitsAreKept, PTL

(* A request that succeeded does not run again within a day when its key   *)
(* comes again after its answer, whoever else uses the cache; a restart    *)
(* forgets both (the idempotency middleware).                              *)
THEOREM KeysRunOnce == ServiceSpec => []KeyedRunsOnce
<1>1. CacheInv => KeyedRunsOnce
  BY DEF CacheInv, KeyedRunsOnce, Gateway!KeyedRunsOnce, Handled
<1> QED BY <1>1, CacheIsKept, PTL

(* Saved settings are valid, whatever raced for the struct.  An execution  *)
(* runs with valid ones if no request was writing the struct while it was  *)
(* copied, and no two had written it together: a copy, a field at a time,  *)
(* that meets a write may have halves of two configurations                *)
(* (handleSettings, startExecution).                                       *)
THEOREM UsedIsChecked == ServiceSpec => []OnlyCheckedIsUsed
<1>1. SettingsInv => OnlyCheckedIsUsed
  BY DEF SettingsInv, SettingsTypes, CopiesInv, CopyInv, OnlyCheckedIsUsed,
         Settings!OnlyCheckedIsUsed, Settings!InFlight
<1> QED BY <1>1, SettingsAreKept, PTL

(* With nobody changing them, struct and row say the same, unless the last *)
(* change was not saved or met another (handleSettings, SaveSettings).     *)
THEOREM RowsMatchMemory == ServiceSpec => []MemoryMatchesRow
<1>1. SettingsInv => MemoryMatchesRow
  BY DEF SettingsInv, StructInv, MemoryMatchesRow, Settings!MemoryMatchesRow
<1> QED BY <1>1, SettingsAreKept, PTL

(* An acknowledged change is in the row, and so there after the next start,*)
(* whatever is changed in other fields.  It may be lost in three ways: the *)
(* request met another; a later one that asked for another value was not   *)
(* saved; or a start could not read the row, and the settings of the file  *)
(* are written over it (handleSettings, loadSettingsFromDB).               *)
THEOREM ChangesSurvive == ServiceSpec => []AcknowledgedSurvives
<1>1. SettingsInv => AcknowledgedSurvives
  BY DEF SettingsInv, StructInv, AcknowledgedSurvives, Settings!AcknowledgedSurvives, Fields
<1> QED BY <1>1, SettingsAreKept, PTL
================================================================================
