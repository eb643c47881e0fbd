-------------------------------- MODULE Accounts --------------------------------
(***************************************************************************)
(* Users, their passwords and their tokens: internal/api/handler_user.go,  *)
(* handler_auth.go, internal/auth/jwt.go and ensureAdmin of                *)
(* cmd/rana-api/main.go.  A handler makes one call of the store at a time, *)
(* and other handlers run between two of its calls.  A row keeps what      *)
(* decides who may do what; the locale and the time of the last login are  *)
(* left out, and so are audit rows, which nothing reads back.              *)
(***************************************************************************)
EXTENDS Naturals, FiniteSets

CONSTANTS
  Ids, Names, Roles, Hashes,
  Workloads,   \* bound: what the requests of one behaviour may ask for
  Bootstrap,   \* auth.bootstrap_admin.username
  FirstHash,   \* the hash of its password
  Requests,    \* requests in flight
  AccessTTL, RefreshTTL,
  MaxClock,    \* bound of the clock
  MaxPairs,    \* bound: pairs of tokens that have not expired
  None

ASSUME AccountsAssumption ==
  /\ "admin" \in Roles /\ Bootstrap \in Names /\ FirstHash \in Hashes
  /\ AccessTTL \in Nat \ {0} /\ RefreshTTL \in Nat \ {0} /\ MaxClock \in Nat

Workload == [names : SUBSET Names, roles : SUBSET Roles, hashes : SUBSET Hashes,
             last : 0 .. MaxClock]

User == [name : Names, role : Roles, hash : Hashes]

ASSUME WorkloadsAssumption == Workloads \subseteq Workload

VARIABLES
  given,      \* the workload of this behaviour
  users,      \* the table
  pairs,      \* tokens that were given out: an access and a refresh token each
  requests,   \* what a handler that has made its first call knows
  clock,
  used,       \* identifiers that were given: a uuid does not come again
  passwords,  \* history: the password that was last set for a user
  raced,      \* history: users whose row was written over a newer password
  lost        \* history: when a user ceased to have a role, for as long as an
              \* access token lives

rows    == <<given, users, used>>
history == <<passwords, raced, lost>>
vars    == <<rows, pairs, requests, clock, history>>

Pair == [user : Ids, role : Roles, at : 0 .. MaxClock]

(* late is history: the row of an update has a new password, or the        *)
(* administrators that a delete has counted are others.                    *)
Request ==
  [do : {"update"}, id : Ids, row : User, late : BOOLEAN]
    \union [do : {"delete"}, id : Ids, late : BOOLEAN]
    \union [do : {"password"}, id : Ids, hash : Hashes]
    \union [do : {"issue"}, id : Ids, role : Roles]

ASSUME NoneAssumption ==
  None \notin User \union Names \union Roles \union Request \union 0 .. MaxClock

TypeOK ==
  /\ given \in Workloads
  /\ users \in [Ids -> User \union {None}]
  /\ used \subseteq Ids /\ \A i \in Ids : users[i] # None => i \in used
  /\ pairs \subseteq Pair
  /\ requests \in [Requests -> Request \union {None}]
  /\ clock \in 0 .. MaxClock
  /\ passwords \in [Ids -> Hashes \union {None}]
  /\ raced \subseteq Ids
  /\ lost \in [Ids -> [Roles -> 0 .. MaxClock \union {None}]]

Stored      == {i \in Ids : users[i] # None}
Admins      == {i \in Stored : users[i].role = "admin"}
Named(n)    == {i \in Stored : users[i].name = n}

(* Parse: a token is good until it expires, whoever its user is by now.    *)
Live(t)     == clock < t.at + AccessTTL
Renewing(t) == clock < t.at + RefreshTTL

(* Middleware and RequirePermission go by what the token says.             *)
Acting(i)     == \E t \in pairs : Live(t) /\ t.user = i
MayWrite(i)   == \E t \in pairs : Live(t) /\ t.user = i /\ t.role = "admin"

Free(r) == requests[r] = None

Rehashed(i) == users'[i] # None /\ users[i] # None /\ users'[i].hash # users[i].hash

(* What a change of the table means for the requests in flight, but for    *)
(* the one that makes it.                                                  *)
Overtaken(r) ==
  [q \in Requests |->
     IF q = r THEN None
     ELSE IF requests[q] = None \/ "late" \notin DOMAIN requests[q] THEN requests[q]
     ELSE [requests[q] EXCEPT !.late =
       \/ @
       \/ requests[q].do = "delete" /\ Admins' # Admins
       \/ requests[q].do = "update" /\ Rehashed(requests[q].id)]]

Loses(i, role) == lost' = [lost EXCEPT ![i][role] = clock]

-----------------------------------------------------------------------------
(* The handlers of users, for an administrator; what they return is left   *)
(* out.  An error leaves everything as it is.                              *)

CreateUser(r, i, u) ==
  /\ Free(r) /\ (\E a \in Ids : MayWrite(a))
  /\ i \notin used /\ Named(u.name) = {}
  /\ users' = [users EXCEPT ![i] = u]
  /\ used' = used \union {i}
  /\ passwords' = [passwords EXCEPT ![i] = u.hash]
  /\ requests' = Overtaken(r)
  /\ UNCHANGED <<given, pairs, clock, raced, lost>>

(* PUT /users/{id}: the row is read, and changed where the request says    *)
(* something.                                                              *)
ReadUpdate(r, i, name, role) ==
  /\ Free(r) /\ (\E a \in Ids : MayWrite(a))
  /\ users[i] # None
  /\ requests' = [requests EXCEPT ![r] =
       [do |-> "update", id |-> i, late |-> FALSE,
        row |-> [users[i] EXCEPT !.name = IF name = None THEN @ ELSE name,
                                 !.role = IF role = None THEN @ ELSE role]]]
  /\ UNCHANGED <<rows, pairs, clock, history>>

(* All of the row is written.                                              *)
WriteUpdate(r) ==
  /\ ~Free(r) /\ requests[r].do = "update"
  /\ UNCHANGED <<given, used, pairs, clock, passwords>>
  /\ LET i == requests[r].id
         row == requests[r].row
     IN  IF users[i] = None \/ Named(row.name) \ {i} # {}
         THEN /\ requests' = [requests EXCEPT ![r] = None]
              /\ UNCHANGED <<users, raced, lost>>
         ELSE /\ users' = [users EXCEPT ![i] = row]
              /\ raced' = IF requests[r].late THEN raced \union {i} ELSE raced
              /\ requests' = Overtaken(r)
              /\ IF row.role = users[i].role THEN lost' = lost ELSE Loses(i, users[i].role)

CountAdminsAfter(r, i) ==  \* a mutant: the last administrator is not looked for
  /\ Free(r) /\ (\E a \in Ids \ {i} : MayWrite(a))
  /\ requests' = [requests EXCEPT ![r] = [do |-> "delete", id |-> i, late |-> FALSE]]
  /\ UNCHANGED <<rows, pairs, clock, history>>

(* DELETE /users/{id}: nobody deletes himself, or the last administrator.  *)
CountAdmins(r, i) ==
  /\ Free(r) /\ (\E a \in Ids \ {i} : MayWrite(a))
  /\ Admins # {i}
  /\ requests' = [requests EXCEPT ![r] = [do |-> "delete", id |-> i, late |-> FALSE]]
  /\ UNCHANGED <<rows, pairs, clock, history>>

DeleteUser(r) ==
  /\ ~Free(r) /\ requests[r].do = "delete"
  /\ UNCHANGED <<given, used, pairs, clock, passwords, raced>>
  /\ LET i == requests[r].id
     IN  IF users[i] = None
         THEN /\ requests' = [requests EXCEPT ![r] = None]
              /\ UNCHANGED <<users, lost>>
         ELSE /\ users' = [users EXCEPT ![i] = None]
              /\ requests' = Overtaken(r)
              /\ Loses(i, users[i].role)

SetPassword(r, i, hash) ==
  /\ users[i] # None
  /\ users' = [users EXCEPT ![i].hash = hash]
  /\ passwords' = [passwords EXCEPT ![i] = hash]
  /\ raced' = raced \ {i}
  /\ requests' = Overtaken(r)
  /\ UNCHANGED <<given, used, pairs, clock, lost>>

ResetPassword(r, i, hash) ==
  /\ Free(r) /\ (\E a \in Ids : MayWrite(a))
  /\ SetPassword(r, i, hash)

(* A user's own password: the old one, which a client knows, is checked    *)
(* before the new one is written.                                          *)
CheckOldPassword(r, i, hash) ==
  /\ Free(r) /\ Acting(i) /\ users[i] # None
  /\ requests' = [requests EXCEPT ![r] = [do |-> "password", id |-> i, hash |-> hash]]
  /\ UNCHANGED <<rows, pairs, clock, history>>

SetMyPassword(r) ==
  /\ ~Free(r) /\ requests[r].do = "password"
  /\ \/ SetPassword(r, requests[r].id, requests[r].hash)
     \/ /\ users[requests[r].id] = None
        /\ requests' = [requests EXCEPT ![r] = None]
        /\ UNCHANGED <<rows, pairs, clock, history>>

-----------------------------------------------------------------------------
(* Sessions.  A refresh token is not used up, and a logout revokes none.   *)

Login(r, i) ==
  /\ Free(r) /\ users[i] # None
  /\ requests' = [requests EXCEPT ![r] = [do |-> "issue", id |-> i, role |-> users[i].role]]
  /\ UNCHANGED <<rows, pairs, clock, history>>

RefreshAsBefore(r, t) ==  \* a mutant: the role is taken from the token
  /\ Free(r) /\ Renewing(t) /\ users[t.user] # None
  /\ requests' = [requests EXCEPT ![r] = [do |-> "issue", id |-> t.user, role |-> t.role]]
  /\ UNCHANGED <<rows, pairs, clock, history>>

Refresh(r, t) ==
  /\ Free(r) /\ Renewing(t) /\ users[t.user] # None
  /\ requests' = [requests EXCEPT ![r] =
                    [do |-> "issue", id |-> t.user, role |-> users[t.user].role]]
  /\ UNCHANGED <<rows, pairs, clock, history>>

(* Generate                                                                *)
Issue(r) ==
  /\ ~Free(r) /\ requests[r].do = "issue"
  /\ pairs' = pairs \union {[user |-> requests[r].id, role |-> requests[r].role, at |-> clock]}
  /\ Cardinality(pairs') <= MaxPairs
  /\ requests' = [requests EXCEPT ![r] = None]
  /\ UNCHANGED <<rows, clock, history>>

-----------------------------------------------------------------------------
EnsureAdminAlways(i) ==  \* a mutant: the configured password is set at every start
  /\ users' = [j \in Ids |->
       IF j \in Named(Bootstrap) THEN [users[j] EXCEPT !.hash = FirstHash]
       ELSE IF j = i /\ Named(Bootstrap) = {}
            THEN [name |-> Bootstrap, role |-> "admin", hash |-> FirstHash]
       ELSE users[j]]
  /\ IF Named(Bootstrap) = {}
     THEN used' = used \union {i} /\ passwords' = [passwords EXCEPT ![i] = FirstHash]
     ELSE UNCHANGED <<used, passwords>>

(* Only the name is looked for.                                            *)
EnsureAdmin(i) ==
  IF Named(Bootstrap) # {} THEN UNCHANGED <<users, used, passwords>>
  ELSE /\ users' = [users EXCEPT ![i] = [name |-> Bootstrap, role |-> "admin", hash |-> FirstHash]]
       /\ used' = used \union {i}
       /\ passwords' = [passwords EXCEPT ![i] = FirstHash]

(* The process ends and starts again.  Tokens stay good: the secret is the *)
(* environment's.                                                          *)
Restart(i) ==
  /\ i \notin used \/ Named(Bootstrap) # {}
  /\ EnsureAdmin(i)
  /\ requests' = [r \in Requests |-> None]
  /\ UNCHANGED <<given, pairs, clock, raced, lost>>

(* Handling a login takes no time beside a token's lifetime.  What has     *)
(* expired is forgotten.                                                   *)
Tick ==
  /\ clock < given.last
  /\ \A r \in Requests : ~Free(r) => requests[r].do # "issue"
  /\ clock' = clock + 1
  /\ pairs' = {t \in pairs : clock + 1 < t.at + AccessTTL \/ clock + 1 < t.at + RefreshTTL}
  /\ lost' = [i \in Ids |-> [role \in Roles |->
       IF lost[i][role] # None /\ clock + 1 < lost[i][role] + AccessTTL THEN lost[i][role] ELSE None]]
  /\ UNCHANGED <<rows, requests, passwords, raced>>

(* The first start has made the administrator.                             *)
Init ==
  /\ given \in Workloads
  /\ \E i \in Ids :
       /\ users = [j \in Ids |-> IF j # i THEN None
                                 ELSE [name |-> Bootstrap, role |-> "admin", hash |-> FirstHash]]
       /\ used = {i}
       /\ passwords = [j \in Ids |-> IF j = i THEN FirstHash ELSE None]
  /\ pairs = {} /\ requests = [r \in Requests |-> None]
  /\ clock = 0
  /\ raced = {} /\ lost = [i \in Ids |-> [role \in Roles |-> None]]

UserRequests ==
  \/ \E r \in Requests, i \in Ids :
       \/ \E n \in given.names, role \in given.roles, h \in given.hashes :
            CreateUser(r, i, [name |-> n, role |-> role, hash |-> h])
       \/ \E n \in given.names \union {None}, role \in given.roles \union {None} :
            ReadUpdate(r, i, n, role)
       \/ CountAdmins(r, i)
       \/ \E h \in given.hashes : ResetPassword(r, i, h) \/ CheckOldPassword(r, i, h)
  \/ \E r \in Requests : WriteUpdate(r) \/ DeleteUser(r) \/ SetMyPassword(r)

SessionRequests ==
  \/ \E r \in Requests, i \in Ids : Login(r, i)
  \/ \E r \in Requests, t \in pairs : Refresh(r, t)
  \/ \E r \in Requests : Issue(r)

Next ==
  \/ UserRequests \/ SessionRequests
  \/ \E i \in Ids : Restart(i)
  \/ Tick

Spec == Init /\ [][Next]_vars

-----------------------------------------------------------------------------
(* The last administrator goes only by being given another role, or by a   *)
(* delete that had counted administrators who were not the same any more:  *)
(* two of them may delete each other.                                      *)
LastAdminStays ==
  [][Admins # {} /\ Admins' = {} =>
       \E r \in Requests :
         /\ requests[r] # None /\ requests'[r] = None
         /\ \/ requests[r].do = "update"
            \/ requests[r].do = "delete" /\ requests[r].late]_vars

(* A password that was set is the one that is stored, whatever else is     *)
(* changed in the row and however often the process is started; an update  *)
(* that has read the row before the password was set takes it back.        *)
PasswordStands == \A i \in Stored \ raced : users[i].hash = passwords[i]

(* Who acts as something was that at most an access token's lifetime ago,  *)
(* however often its tokens were renewed; a user that was deleted, too.    *)
RoleIsRecent ==
  \A t \in pairs : Live(t) =>
    \/ t.user \in Stored /\ users[t.user].role = t.role
    \/ lost[t.user][t.role] # None
================================================================================
