---------------------------- MODULE InventoryProofs ----------------------------
(***************************************************************************)
(* Proofs about Inventory, for any servers, policies, schedules, requests  *)
(* and bounds.  What makes them work is what a request in flight has found *)
(* and may still rely on: everything that takes it away meanwhile is a     *)
(* request that overlaps it, and is recorded in raced, or renames a server *)
(* and is recorded in renamed, or is a tick and recorded in revived        *)
(* (RequestInv).                                                           *)
(***************************************************************************)
EXTENDS Inventory, TLAPS

Excused == raced \union renamed \union revived
There   == NamesIn(Stored(servers)) \union Excused

(* Name n is not relied on by a schedule, or a policy.                     *)
UnnamedBySchedules(n) == \A c \in Stored(schedules) : n \in schedules[c].names => n \in Excused
UnnamedByPolicies(n)  == \A p \in Stored(policies) : n \in policies[p].names => n \in Excused

(* A create that has found a server with its name has met another request  *)
(* with that name, or the server has been written since.                   *)
ServerInv(r) ==
  /\ req[r].asked # None => req[r].id = req[r].asked
  /\ req[r].asked = None /\ req[r].row.name \in NamesIn(Stored(servers)) =>
       req[r].row.name \in raced
  /\ req[r].asked = None /\ req[r].id # None =>
       \/ req[r].id \in raced
       \/ /\ req[r].row.name \in raced /\ req[r].id \in Stored(servers)
          /\ servers[req[r].id].name = req[r].row.name

(* What has been checked is still so; nor does anything rely on a name     *)
(* that the server has got since the request began.                        *)
DeleteServerInv(r) ==
  \A n \in NamesIn({req[r].id} \intersect Stored(servers)) :
    /\ "schedules" \notin req[r].left \/ n # req[r].name => UnnamedBySchedules(n)
    /\ "policies" \notin req[r].left \/ n # req[r].name => UnnamedByPolicies(n)

ScheduleInv(r) ==
  /\ req[r].checked => req[r].row.names \subseteq There
  /\ req[r].row.policy \in Stored(policies) \union raced \union {None}

DeletePolicyInv(r) ==
  \A c \in Stored(schedules) :
    schedules[c].policy = req[r].id => req[r].id \in raced \union revived

RequestInv(r) ==
  /\ req[r].kind = "server" => ServerInv(r)
  /\ req[r].kind = "deleteServer" => DeleteServerInv(r)
  /\ req[r].kind = "policy" => req[r].row.names \subseteq There
  /\ req[r].kind = "schedule" => ScheduleInv(r)
  /\ req[r].kind = "deletePolicy" => DeletePolicyInv(r)

RequestsInv == \A r \in Requests : req[r] # None => RequestInv(r)

IInv == TypeOK /\ ReferencesResolve /\ Stored(servers) \subseteq used /\ RequestsInv

-----------------------------------------------------------------------------
(* The types of what requests hold.                                        *)

LEMMA Nobody ==
  /\ None \notin Server /\ None \notin Policy /\ None \notin Schedule /\ None \notin Request
  /\ None \notin Servers /\ None \notin Policies /\ None \notin Schedules /\ None \notin Names
BY InventoryAssumption DEF Ids

LEMMA RequestParts ==
  ASSUME NEW q \in Request
  PROVE  /\ q.kind \in {"server", "deleteServer", "policy", "deletePolicy", "schedule",
                        "trigger", "execute"}
         /\ q.kind = "server" =>
              q \in [kind : {"server"}, asked : Servers \union {None},
                     id : Servers \union {None}, row : Server]
         /\ q.kind = "deleteServer" =>
              q \in [kind : {"deleteServer"}, id : Servers, name : Names,
                     left : SUBSET {"schedules", "policies"}]
         /\ q.kind = "policy" =>
              q \in [kind : {"policy"}, id : Policies, new : BOOLEAN, row : Policy]
         /\ q.kind = "deletePolicy" => q \in [kind : {"deletePolicy"}, id : Policies]
         /\ q.kind = "schedule" =>
              q \in [kind : {"schedule"}, id : Schedules, new : BOOLEAN, row : Schedule,
                     checked : BOOLEAN]
         /\ q.kind = "trigger" =>
              q \in [kind : {"trigger"}, id : Policies \union {None}, asked : SUBSET Names,
                     names : SUBSET Names]
BY DEF Request

LEMMA TablesTyped ==
  ASSUME TypeOK
  PROVE  /\ \A i \in Stored(servers) : i \in Servers /\ servers[i] \in Server
                                       /\ servers[i].name \in Names
         /\ \A p \in Stored(policies) : p \in Policies /\ policies[p] \in Policy
         /\ \A c \in Stored(schedules) : c \in Schedules /\ schedules[c] \in Schedule
         /\ \A r \in Requests : req[r] # None => req[r] \in Request
BY DEF TypeOK, Stored, Server

LEMMA OverlapsTyped == Overlaps \subseteq Ids \union Names
BY DEF Overlaps

(* What two requests are both about, one of which is a taker.              *)
LEMMA Overlapping ==
  ASSUME NEW q \in Requests, NEW r \in Requests, q # r, req[q] # None, req[r] # None,
         req[q].kind \in Takers, req[r].kind \in Writers,
         NEW x \in About(q), x \in About(r), x \in Ids \union Names
  PROVE  x \in Overlaps
BY DEF Overlaps, Pending

LEMMA AboutParts ==
  ASSUME NEW r \in Requests
  PROVE  /\ req[r].kind = "server" => About(r) = {req[r].id, req[r].row.name}
         /\ req[r].kind = "deleteServer" =>
              About(r) = {req[r].id, req[r].name} \union
                           NamesIn({req[r].id} \intersect Stored(servers))
         /\ req[r].kind = "policy" => About(r) = req[r].row.names
         /\ req[r].kind = "schedule" => About(r) = {req[r].row.policy} \union req[r].row.names
         /\ req[r].kind = "deletePolicy" => About(r) = {req[r].id}
BY DEF About

-----------------------------------------------------------------------------
(* A step of a request that writes no table.                               *)

LEMMA OwnRequest ==
  ASSUME IInv, NEW r \in Requests, NEW q \in Request \union {None},
         req' = [req EXCEPT ![r] = q], UNCHANGED <<tables, stops, tick, raced, renamed>>,
         begun' \in 0 .. MaxRequests,
         q # None => RequestInv(r)'
  PROVE  IInv'
<1>1. /\ req \in [Requests -> Request \union {None}] /\ TypeOK /\ ReferencesResolve
      /\ Stored(servers) \subseteq used /\ RequestsInv
  BY DEF IInv, TypeOK
<1>2. TypeOK'
  BY <1>1 DEF TypeOK, tables, tick, Stored
<1>3. ReferencesResolve' /\ (Stored(servers) \subseteq used)'
  BY <1>1 DEF ReferencesResolve, tables, tick, Stored, NamesIn
<1>4. ASSUME NEW k \in Requests, req'[k] # None PROVE RequestInv(k)'
  <2>1. CASE k = r
    BY <1>1, <1>4, <2>1
  <2>2. CASE k # r
    <3>1. req'[k] = req[k] /\ RequestInv(k)
      BY <1>1, <1>4, <2>2 DEF RequestsInv
    <3> QED BY <3>1 DEF RequestInv, ServerInv, DeleteServerInv, ScheduleInv, DeletePolicyInv,
            There, Excused, UnnamedBySchedules, UnnamedByPolicies, NamesIn, Stored, tables, tick
  <2> QED BY <2>1, <2>2
<1> QED BY <1>2, <1>3, <1>4 DEF IInv, RequestsInv

LEMMA Begins ==
  ASSUME IInv, NEW r \in Requests, NEW q \in Request, Begin(r, q), RequestInv(r)'
  PROVE  IInv'
<1>1. begun' \in 0 .. MaxRequests
  BY InventoryAssumption DEF IInv, TypeOK, Begin
<1> QED BY <1>1, OwnRequest DEF Begin

LEMMA Continues ==
  ASSUME IInv, NEW r \in Requests, NEW q \in Request \union {None}, Continue(r, q),
         q # None => RequestInv(r)'
  PROVE  IInv'
<1>1. begun' \in 0 .. MaxRequests
  BY DEF IInv, TypeOK, Continue, bounds
<1> QED BY <1>1, OwnRequest DEF Continue, bounds

LEMMA ServerReads ==
  ASSUME IInv, NEW r \in Requests,
         CreateServer(r) \/ UpdateServer(r) \/ FindByName(r)
  PROVE  IInv'
<1>0. /\ TypeOK /\ RequestsInv /\ req \in [Requests -> Request \union {None}]
  BY DEF IInv, TypeOK
<1>1. CASE CreateServer(r)
  <2>1. PICK n \in Names, on \in BOOLEAN :
          /\ n \notin NamesIn(Stored(servers))
          /\ Begin(r, [kind |-> "server", asked |-> None, id |-> None,
                       row |-> [name |-> n, enabled |-> on]])
    BY <1>1 DEF CreateServer
  <2>2. PICK q : q = [kind |-> "server", asked |-> None, id |-> None,
                      row |-> [name |-> n, enabled |-> on]]
    OBVIOUS
  <2>3. q \in Request /\ Begin(r, q)
    BY <2>1, <2>2 DEF Request, Server
  <2>4. req'[r] = q /\ UNCHANGED tables
    BY <1>0, <2>3 DEF Begin
  <2>5. /\ q.kind = "server" /\ q.asked = None /\ q.id = None /\ q.row.name = n
    BY <2>2
  <2>6. ServerInv(r)'
    BY <2>1, <2>4, <2>5 DEF ServerInv, tables, NamesIn, Stored
  <2>7. RequestInv(r)'
    BY <2>4, <2>5, <2>6 DEF RequestInv
  <2> QED BY <2>3, <2>7, Begins
<1>2. CASE UpdateServer(r)
  <2>1. PICK i \in Stored(servers), row \in Server :
          Begin(r, [kind |-> "server", asked |-> i, id |-> i, row |-> row])
    BY <1>2 DEF UpdateServer
  <2>2. PICK q : q = [kind |-> "server", asked |-> i, id |-> i, row |-> row]
    OBVIOUS
  <2>3. i \in Servers
    BY <1>0 DEF TypeOK, Stored
  <2>4. q \in Request /\ Begin(r, q)
    BY <2>1, <2>2, <2>3 DEF Request
  <2>5. req'[r] = q
    BY <1>0, <2>4 DEF Begin
  <2>6. q.kind = "server" /\ q.asked = i /\ q.id = i /\ i # None
    BY <2>2, <2>3, Nobody
  <2>7. RequestInv(r)'
    BY <2>5, <2>6 DEF RequestInv, ServerInv
  <2> QED BY <2>4, <2>7, Begins
<1>3. CASE FindByName(r)
  <2>1. r \in Pending({"server"})
    BY <1>3 DEF FindByName
  <2>2. PICK i \in Stored(servers) :
          /\ servers[i].name = req[r].row.name /\ req[r].id = None
          /\ Continue(r, [req[r] EXCEPT !.id = i])
    BY <1>3 DEF FindByName
  <2>3. PICK p : p = req[r]
    OBVIOUS
  <2>4. p \in [kind : {"server"}, asked : Servers \union {None}, id : Servers \union {None},
               row : Server]
    BY <1>0, <2>1, <2>3, RequestParts DEF Pending
  <2>5. PICK q : q = [p EXCEPT !.id = i]
    OBVIOUS
  <2>6. i \in Servers
    BY <1>0 DEF TypeOK, Stored
  <2>7. /\ q \in [kind : {"server"}, asked : Servers \union {None}, id : Servers \union {None},
                  row : Server]
        /\ q.kind = "server" /\ q.id = i /\ q.asked = p.asked /\ q.row = p.row
    BY <2>4, <2>5, <2>6
  <2>8. q \in Request /\ Continue(r, q)
    BY <2>2, <2>3, <2>5, <2>7 DEF Request
  <2>9. req'[r] = q /\ UNCHANGED <<tables, raced>>
    BY <1>0, <2>8 DEF Continue
  <2>10. ServerInv(r)
    BY <1>0, <2>1 DEF RequestsInv, RequestInv, Pending
  <2>11. p.asked = None
    BY <2>2, <2>3, <2>6, <2>10, Nobody DEF ServerInv
  <2>12. p.row.name \in NamesIn(Stored(servers)) /\ p.row.name \in raced
    BY <2>2, <2>3, <2>10, <2>11 DEF ServerInv, NamesIn
  <2>13. ServerInv(r)'
    BY <2>2, <2>3, <2>7, <2>9, <2>11, <2>12 DEF ServerInv, tables, Stored, NamesIn
  <2>14. RequestInv(r)'
    BY <2>7, <2>9, <2>13 DEF RequestInv
  <2> QED BY <2>8, <2>14, Continues
<1> QED BY <1>1, <1>2, <1>3

LEMMA DeleteReads ==
  ASSUME IInv, NEW r \in Requests,
         DeleteServer(r) \/ CheckSchedules(r) \/ CheckPolicies(r) \/ DeletePolicy(r)
  PROVE  IInv'
<1>0. /\ TypeOK /\ RequestsInv /\ req \in [Requests -> Request \union {None}]
  BY DEF IInv, TypeOK
<1>1. CASE DeleteServer(r)
  <2>1. PICK i \in Stored(servers) :
          Begin(r, [kind |-> "deleteServer", id |-> i, name |-> servers[i].name,
                    left |-> {"schedules", "policies"}])
    BY <1>1 DEF DeleteServer
  <2>2. PICK q : q = [kind |-> "deleteServer", id |-> i, name |-> servers[i].name,
                      left |-> {"schedules", "policies"}]
    OBVIOUS
  <2>3. i \in Servers /\ servers[i].name \in Names
    BY <1>0, TablesTyped
  <2>4. q \in Request /\ Begin(r, q)
    BY <2>1, <2>2, <2>3 DEF Request
  <2>5. req'[r] = q /\ UNCHANGED tables
    BY <1>0, <2>4 DEF Begin
  <2>6. /\ q.kind = "deleteServer" /\ q.id = i /\ q.name = servers[i].name
        /\ "schedules" \in q.left /\ "policies" \in q.left
    BY <2>2
  <2>7. DeleteServerInv(r)'
    BY <2>5, <2>6 DEF DeleteServerInv, tables, NamesIn
  <2>8. RequestInv(r)'
    BY <2>5, <2>6, <2>7 DEF RequestInv
  <2> QED BY <2>4, <2>8, Begins
<1>2. ASSUME r \in Pending({"deleteServer"}), NEW kind \in {"schedules", "policies"},
             Continue(r, [req[r] EXCEPT !.left = @ \ {kind}]),
             kind = "schedules" => \A c \in Stored(schedules) : req[r].name \notin schedules[c].names,
             kind = "policies" => \A p \in Stored(policies) : req[r].name \notin policies[p].names
      PROVE  IInv'
  <2>1. PICK p : p = req[r]
    OBVIOUS
  <2>2. p \in [kind : {"deleteServer"}, id : Servers, name : Names,
               left : SUBSET {"schedules", "policies"}]
    BY <1>0, <1>2, <2>1, RequestParts DEF Pending
  <2>3. PICK q : q = [p EXCEPT !.left = @ \ {kind}]
    OBVIOUS
  <2>4. /\ q \in [kind : {"deleteServer"}, id : Servers, name : Names,
                  left : SUBSET {"schedules", "policies"}]
        /\ q.kind = "deleteServer" /\ q.id = p.id /\ q.name = p.name /\ q.left = p.left \ {kind}
    BY <2>2, <2>3
  <2>5. q \in Request /\ Continue(r, q)
    BY <1>2, <2>1, <2>3, <2>4 DEF Request
  <2>6. req'[r] = q /\ UNCHANGED <<tables, tick, raced, renamed>>
    BY <1>0, <2>5 DEF Continue
  <2>7. DeleteServerInv(r)
    BY <1>0, <1>2 DEF RequestsInv, RequestInv, Pending
  <2>8. ASSUME NEW n \in NamesIn({p.id} \intersect Stored(servers))
        PROVE  /\ "schedules" \notin q.left \/ n # p.name => UnnamedBySchedules(n)
               /\ "policies" \notin q.left \/ n # p.name => UnnamedByPolicies(n)
    <3>1. CASE n # p.name
      BY <2>1, <2>7, <2>8, <3>1 DEF DeleteServerInv
    <3>2. CASE n = p.name
      <4>1. kind = "schedules" => UnnamedBySchedules(n)
        BY <1>2, <2>1, <3>2 DEF UnnamedBySchedules
      <4>2. kind = "policies" => UnnamedByPolicies(n)
        BY <1>2, <2>1, <3>2 DEF UnnamedByPolicies
      <4>3. \A x : x \notin q.left => x \notin p.left \/ x = kind
        BY <2>4
      <4> QED BY <2>1, <2>7, <2>8, <3>2, <4>1, <4>2, <4>3 DEF DeleteServerInv
    <3> QED BY <3>1, <3>2
  <2>9. DeleteServerInv(r)'
    BY <2>4, <2>6, <2>8
    DEF DeleteServerInv, UnnamedBySchedules, UnnamedByPolicies, Excused, tables, tick, NamesIn, Stored
  <2>10. RequestInv(r)'
    BY <2>4, <2>6, <2>9 DEF RequestInv
  <2> QED BY <2>5, <2>10, Continues
<1>3. CASE CheckSchedules(r)
  BY <1>2, <1>3 DEF CheckSchedules
<1>4. CASE CheckPolicies(r)
  <2>1. r \in Pending({"deleteServer"}) /\ req[r].left = {"policies"}
    BY <1>4 DEF CheckPolicies
  <2>2. req[r].left \ {"policies"} = {}
    BY <2>1
  <2>3. Continue(r, [req[r] EXCEPT !.left = req[r].left \ {"policies"}])
    BY <1>4, <2>2 DEF CheckPolicies
  <2>4. [req[r] EXCEPT !.left = req[r].left \ {"policies"}] = [req[r] EXCEPT !.left = @ \ {"policies"}]
    OBVIOUS
  <2> QED BY <1>2, <1>4, <2>1, <2>3, <2>4 DEF CheckPolicies
<1>5. CASE DeletePolicy(r)
  <2>1. PICK p \in Stored(policies) :
          /\ \A c \in Stored(schedules) : schedules[c].policy # p
          /\ Begin(r, [kind |-> "deletePolicy", id |-> p])
    BY <1>5 DEF DeletePolicy
  <2>2. PICK q : q = [kind |-> "deletePolicy", id |-> p]
    OBVIOUS
  <2>3. p \in Policies
    BY <1>0, TablesTyped
  <2>4. q \in Request /\ Begin(r, q)
    BY <2>1, <2>2, <2>3 DEF Request
  <2>5. req'[r] = q /\ UNCHANGED tables /\ q.kind = "deletePolicy" /\ q.id = p
    BY <1>0, <2>2, <2>4 DEF Begin
  <2>6. RequestInv(r)'
    BY <2>1, <2>5 DEF RequestInv, DeletePolicyInv, tables, Stored
  <2> QED BY <2>4, <2>6, Begins
<1> QED BY <1>1, <1>3, <1>4, <1>5

LEMMA EnabledAreThere == ASSUME NEW N, Available(N) PROVE N \subseteq There
BY DEF Available, There, NamesIn, Enabled

LEMMA ReferenceReads ==
  ASSUME IInv, NEW r \in Requests,
         ChangePolicy(r) \/ ChangeSchedule(r) \/ CheckTargets(r)
  PROVE  IInv'
<1>0. /\ TypeOK /\ RequestsInv /\ req \in [Requests -> Request \union {None}]
  BY DEF IInv, TypeOK
<1>1. CASE ChangePolicy(r)
  <2>1. PICK p \in Stored(policies) \union (Policies \ used), row \in Policy :
          /\ Available(row.names)
          /\ Begin(r, [kind |-> "policy", id |-> p, new |-> p \notin used, row |-> row])
    BY <1>1 DEF ChangePolicy
  <2>2. PICK q : q = [kind |-> "policy", id |-> p, new |-> p \notin used, row |-> row]
    OBVIOUS
  <2>3. p \in Policies
    BY <1>0, TablesTyped
  <2>4. q \in Request /\ Begin(r, q)
    BY <2>1, <2>2, <2>3 DEF Request
  <2>5. req'[r] = q /\ UNCHANGED <<tables, tick, raced, renamed>>
    BY <1>0, <2>4 DEF Begin
  <2>6. q.kind = "policy" /\ q.row = row
    BY <2>2
  <2>7. row.names \subseteq There'
    BY <2>1, <2>5, EnabledAreThere DEF There, Excused, tables, tick, NamesIn, Stored
  <2>8. RequestInv(r)'
    BY <2>5, <2>6, <2>7 DEF RequestInv
  <2> QED BY <2>4, <2>8, Begins
<1>2. CASE ChangeSchedule(r)
  <2>1. PICK c \in Stored(schedules) \union (Schedules \ used), row \in Schedule :
          /\ row.policy # None => row.policy \in Stored(policies)
          /\ Begin(r, [kind |-> "schedule", id |-> c, new |-> c \notin used, row |-> row,
                       checked |-> FALSE])
    BY <1>2 DEF ChangeSchedule
  <2>2. PICK q : q = [kind |-> "schedule", id |-> c, new |-> c \notin used, row |-> row,
                      checked |-> FALSE]
    OBVIOUS
  <2>3. c \in Schedules
    BY <1>0, TablesTyped
  <2>4. q \in Request /\ Begin(r, q)
    BY <2>1, <2>2, <2>3 DEF Request
  <2>5. req'[r] = q /\ UNCHANGED tables
    BY <1>0, <2>4 DEF Begin
  <2>6. q.kind = "schedule" /\ q.row = row /\ ~q.checked
    BY <2>2
  <2>7. ScheduleInv(r)'
    BY <2>1, <2>5, <2>6 DEF ScheduleInv, tables, Stored
  <2>8. RequestInv(r)'
    BY <2>5, <2>6, <2>7 DEF RequestInv
  <2> QED BY <2>4, <2>8, Begins
<1>3. CASE CheckTargets(r)
  <2>1. /\ r \in Pending({"schedule"}) /\ Available(req[r].row.names)
        /\ Continue(r, [req[r] EXCEPT !.checked = TRUE])
    BY <1>3 DEF CheckTargets
  <2>2. PICK p : p = req[r]
    OBVIOUS
  <2>3. p \in [kind : {"schedule"}, id : Schedules, new : BOOLEAN, row : Schedule,
               checked : BOOLEAN]
    BY <1>0, <2>1, <2>2, RequestParts DEF Pending
  <2>4. PICK q : q = [p EXCEPT !.checked = TRUE]
    OBVIOUS
  <2>5. /\ q \in [kind : {"schedule"}, id : Schedules, new : BOOLEAN, row : Schedule,
                  checked : BOOLEAN]
        /\ q.kind = "schedule" /\ q.row = p.row
    BY <2>3, <2>4
  <2>6. q \in Request /\ Continue(r, q)
    BY <2>1, <2>2, <2>4, <2>5 DEF Request
  <2>7. req'[r] = q /\ UNCHANGED <<tables, tick, raced, renamed>>
    BY <1>0, <2>6 DEF Continue
  <2>8. p.row.names \subseteq There'
    BY <2>1, <2>2, <2>7, EnabledAreThere DEF There, Excused, tables, tick, NamesIn, Stored
  <2>9. p.row.policy \in Stored(policies) \union raced \union {None}
    BY <1>0, <2>1, <2>2 DEF RequestsInv, RequestInv, Pending, ScheduleInv
  <2>10. ScheduleInv(r)'
    BY <2>5, <2>7, <2>8, <2>9 DEF ScheduleInv, tables, Stored
  <2>11. RequestInv(r)'
    BY <2>5, <2>7, <2>10 DEF RequestInv
  <2> QED BY <2>6, <2>11, Continues
<1> QED BY <1>1, <1>2, <1>3

(* The selection of servers, and the end of a request.                     *)
LEMMA ExecutionReads ==
  ASSUME IInv, NEW r \in Requests,
         TriggerExecution(r) \/ SelectServers(r) \/ Finish(r)
  PROVE  IInv'
<1>0. /\ TypeOK /\ req \in [Requests -> Request \union {None}]
  BY DEF IInv, TypeOK
<1>1. ASSUME NEW q \in Request, q.kind \in {"trigger", "execute"}, req'[r] = q
      PROVE  RequestInv(r)'
  BY <1>1 DEF RequestInv
<1>2. CASE TriggerExecution(r)
  <2>1. PICK p \in Policies \union {None}, asked \in SUBSET Names :
          /\ p # None => p \in Stored(policies)
          /\ Begin(r, [kind |-> "trigger", id |-> p, asked |-> asked,
                       names |-> IF p = None THEN asked ELSE Wanted(policies[p].names, asked)])
    BY <1>2 DEF TriggerExecution
  <2>2. PICK N : N = IF p = None THEN asked ELSE Wanted(policies[p].names, asked)
    OBVIOUS
  <2>3. N \subseteq Names
    BY <1>0, <2>1, <2>2, TablesTyped DEF Wanted, Policy
  <2>4. PICK q : q = [kind |-> "trigger", id |-> p, asked |-> asked, names |-> N]
    OBVIOUS
  <2>5. q \in Request /\ q.kind = "trigger" /\ Begin(r, q)
    BY <2>1, <2>2, <2>3, <2>4 DEF Request
  <2>6. req'[r] = q
    BY <1>0, <2>5 DEF Begin
  <2> QED BY <1>1, <2>5, <2>6, Begins
<1>3. CASE SelectServers(r)
  <2>1. r \in Pending({"trigger"})
    BY <1>3 DEF SelectServers
  <2>2. PICK N : /\ N \subseteq NamesIn(Stored(servers))
                 /\ Continue(r, [kind |-> "execute", asked |-> req[r].asked, names |-> N])
    BY <1>3 DEF SelectServers, NamesIn, Enabled
  <2>3. N \subseteq Names /\ req[r].asked \subseteq Names
    BY <1>0, <2>1, <2>2, TablesTyped, RequestParts DEF NamesIn, Pending
  <2>4. PICK q : q = [kind |-> "execute", asked |-> req[r].asked, names |-> N]
    OBVIOUS
  <2>5. q \in Request /\ q.kind = "execute" /\ Continue(r, q)
    BY <2>2, <2>3, <2>4 DEF Request
  <2>6. req'[r] = q
    BY <1>0, <2>5 DEF Continue
  <2> QED BY <1>1, <2>5, <2>6, Continues
<1>4. CASE Finish(r)
  BY <1>4, Continues DEF Finish
<1> QED BY <1>2, <1>3, <1>4

-----------------------------------------------------------------------------
(* A step of a request that writes a table.                                *)

LEMMA EndsRequest ==
  ASSUME IInv, NEW r \in Requests, req[r] # None, End(r)
  PROVE  /\ req' \in [Requests -> Request \union {None}] /\ req'[r] = None
         /\ \A k \in Requests : k # r => req'[k] = req[k]
         /\ raced \subseteq raced' /\ Overlaps \subseteq raced' /\ raced' \subseteq Ids \union Names
         /\ UNCHANGED <<begun, stops, listed, revived>>
BY OverlapsTyped DEF IInv, TypeOK, End, bounds, tick

(* The server that is written keeps its name, or it is renamed; the name   *)
(* that it gets was not there.                                             *)
LEMMA WriteServerInv ==
  ASSUME IInv, NEW r \in Requests, WriteServer(r)
  PROVE  IInv'
<1> DEFINE row == req[r].row
<1>0. /\ TypeOK /\ ReferencesResolve /\ RequestsInv /\ Stored(servers) \subseteq used
      /\ servers \in [Servers -> Server \union {None}] /\ used \subseteq Ids
      /\ renamed \subseteq Names
  BY DEF IInv, TypeOK
<1>1. /\ req[r] # None /\ req[r].kind = "server" /\ row \in Server /\ row.name \in Names
      /\ req[r].id \in Servers \union {None} /\ r \in Pending(Takers) /\ r \in Pending(Writers)
  <2>1. r \in Pending({"server"})
    BY DEF WriteServer
  <2>2. req[r] \in [kind : {"server"}, asked : Servers \union {None},
                    id : Servers \union {None}, row : Server]
    BY <1>0, <2>1, TablesTyped, RequestParts DEF Pending
  <2>3. \A s \in Server : s.name \in Names
    BY DEF Server
  <2> QED BY <2>1, <2>2, <2>3 DEF Pending, Takers, Writers
<1>2. PICK i \in IF req[r].id = None THEN Servers \ used ELSE {req[r].id} :
        /\ \A k \in Stored(servers) \ {i} : servers[k].name # row.name
        /\ servers' = [servers EXCEPT ![i] = row]
        /\ used' = used \union {i}
        /\ renamed' = renamed \union (NamesIn({i} \intersect Stored(servers)) \ {row.name})
  BY DEF WriteServer
<1>3. /\ i \in Servers /\ row # None /\ i \in Ids
      /\ i \in Stored(servers) => req[r].id = i
  BY <1>0, <1>1, <1>2, Nobody DEF Ids
<1>4. End(r) /\ UNCHANGED <<policies, schedules>>
  BY DEF WriteServer
<1>5. /\ req' \in [Requests -> Request \union {None}] /\ req'[r] = None
      /\ \A k \in Requests : k # r => req'[k] = req[k]
      /\ raced \subseteq raced' /\ Overlaps \subseteq raced' /\ raced' \subseteq Ids \union Names
      /\ UNCHANGED <<begun, stops, listed, revived>>
  BY <1>1, <1>4, EndsRequest
<1> HIDE DEF row
<1>6. /\ Stored(servers)' = Stored(servers) \union {i}
      /\ servers'[i] = row /\ \A k \in Servers : k # i => servers'[k] = servers[k]
  BY <1>0, <1>2, <1>3 DEF Stored
<1>7. NamesIn(Stored(servers))' = {servers'[k].name : k \in Stored(servers) \union {i}}
  BY <1>6 DEF NamesIn
<1>8. /\ \A n \in NamesIn(Stored(servers)) :
           n \in NamesIn(Stored(servers))' \/ n \in renamed'
      /\ \A n \in NamesIn(Stored(servers))' : n \in NamesIn(Stored(servers)) \/ n = row.name
  <2>1. ASSUME NEW k \in Stored(servers)
        PROVE  servers[k].name \in NamesIn(Stored(servers))' \/ servers[k].name \in renamed'
    <3>1. k \in Servers
      BY <1>0, <2>1, TablesTyped
    <3>2. CASE k # i
      BY <1>6, <1>7, <2>1, <3>1, <3>2
    <3>3. CASE k = i /\ servers[k].name = row.name
      BY <1>6, <1>7, <3>3
    <3>4. CASE k = i /\ servers[k].name # row.name
      BY <1>2, <2>1, <3>4 DEF NamesIn
    <3> QED BY <3>2, <3>3, <3>4
  <2>2. ASSUME NEW k \in Stored(servers) \union {i}
        PROVE  servers'[k].name \in NamesIn(Stored(servers)) \/ servers'[k].name = row.name
    <3>1. CASE k # i
      BY <1>0, <1>6, <2>2, <3>1, TablesTyped DEF NamesIn
    <3>2. CASE k = i
      BY <1>6, <3>2
    <3> QED BY <3>1, <3>2
  <2> QED BY <1>7, <2>1, <2>2 DEF NamesIn
<1>9. Excused \subseteq Excused' /\ There \subseteq There'
  BY <1>2, <1>5, <1>8 DEF Excused, There
<1>10. TypeOK'
  <2>1. servers' \in [Servers -> Server \union {None}]
    BY <1>0, <1>1, <1>2, <1>3
  <2>2. \A k, l \in Stored(servers)' : servers'[k].name = servers'[l].name => k = l
    BY <1>0, <1>2, <1>6, TablesTyped DEF TypeOK
  <2>3. used' \subseteq Ids /\ renamed' \subseteq Names
    BY <1>0, <1>2, <1>3, TablesTyped DEF NamesIn
  <2> QED BY <1>0, <1>4, <1>5, <2>1, <2>2, <2>3 DEF TypeOK
<1>11. ReferencesResolve'
  BY <1>0, <1>4, <1>5, <1>9 DEF ReferencesResolve, There, Excused, Stored
<1>12. (Stored(servers) \subseteq used)'
  BY <1>0, <1>2, <1>6
(* A name that was not there is not relied on.                             *)
<1>13. ASSUME NEW n, n \notin NamesIn(Stored(servers))
       PROVE  UnnamedBySchedules(n)' /\ UnnamedByPolicies(n)'
  BY <1>0, <1>4, <1>9, <1>13
  DEF ReferencesResolve, UnnamedBySchedules, UnnamedByPolicies, Excused, Stored
<1>14. ASSUME NEW n
       PROVE  /\ UnnamedBySchedules(n) => UnnamedBySchedules(n)'
              /\ UnnamedByPolicies(n) => UnnamedByPolicies(n)'
  BY <1>4, <1>9 DEF UnnamedBySchedules, UnnamedByPolicies, Stored
<1>15. ASSUME NEW k \in Requests, req'[k] # None PROVE RequestInv(k)'
  <2>1. k # r /\ req'[k] = req[k] /\ req[k] # None /\ RequestInv(k) /\ req[k] \in Request
    BY <1>0, <1>5, <1>15, TablesTyped DEF RequestsInv
  <2>2. CASE req[k].kind = "server"
    <3>1. /\ req[k].id \in Servers \union {None} /\ req[k].row.name \in Names /\ ServerInv(k)
          /\ req[k].kind \in Takers /\ req[r].kind \in Writers
      BY <1>1, <2>1, <2>2, RequestParts DEF RequestInv, Takers, Writers, Server, Pending
    <3>2. About(k) = {req[k].id, req[k].row.name} /\ About(r) = {req[r].id, row.name}
      BY <1>1, <2>2, AboutParts DEF row
    <3>3. \A x \in About(k) \intersect About(r) : x \in Ids \union Names => x \in raced'
      BY <1>1, <1>5, <2>1, <3>1, Overlapping
    <3>4. req[k].row.name = row.name => row.name \in raced'
      BY <1>1, <3>2, <3>3
    <3>5. req[k].id = i /\ i \in Stored(servers) => i \in raced'
      BY <1>3, <3>2, <3>3
    <3>6. ServerInv(k)'
      <4>1. req[k].row.name \in NamesIn(Stored(servers))' =>
              req[k].row.name \in NamesIn(Stored(servers)) \/ req[k].row.name \in raced'
        BY <1>8, <3>4
      <4>2. ASSUME req[k].id \in Stored(servers), servers[req[k].id].name = req[k].row.name
            PROVE  \/ req[k].id \in raced'
                   \/ req[k].id \in Stored(servers)' /\ servers'[req[k].id].name = req[k].row.name
        BY <1>0, <1>6, <3>5, <4>2, TablesTyped
      <4> QED BY <1>5, <2>1, <3>1, <4>1, <4>2 DEF ServerInv
    <3> QED BY <2>1, <2>2, <3>6 DEF RequestInv
  <2>3. CASE req[k].kind = "deleteServer"
    <3>1. DeleteServerInv(k)
      BY <2>1, <2>3 DEF RequestInv
    <3>2. ASSUME NEW n \in NamesIn({req[k].id} \intersect Stored(servers))'
          PROVE  \/ n \in NamesIn({req[k].id} \intersect Stored(servers))
                 \/ n \notin NamesIn(Stored(servers))
      <4>1. req[k].id \in Stored(servers)' /\ n = servers'[req[k].id].name
        BY <2>1, <3>2 DEF NamesIn
      <4>2. CASE req[k].id # i
        BY <1>0, <1>6, <4>1, <4>2, TablesTyped DEF NamesIn
      <4>3. CASE req[k].id = i
        BY <1>2, <1>6, <4>1, <4>3 DEF NamesIn
      <4> QED BY <4>2, <4>3
    <3>3. DeleteServerInv(k)'
      BY <1>13, <1>14, <2>1, <3>1, <3>2 DEF DeleteServerInv
    <3> QED BY <2>1, <2>3, <3>3 DEF RequestInv
  <2>4. CASE req[k].kind \notin {"server", "deleteServer"}
    BY <1>4, <1>5, <1>9, <2>1, <2>4 DEF RequestInv, ScheduleInv, DeletePolicyInv, Stored
  <2> QED BY <2>2, <2>3, <2>4
<1> QED BY <1>10, <1>11, <1>12, <1>15 DEF IInv, RequestsInv

(* What relied on the name of a server that is removed has raced with it.  *)
LEMMA RemoveServerInv ==
  ASSUME IInv, NEW r \in Requests, RemoveServer(r)
  PROVE  IInv'
<1> DEFINE i == req[r].id
<1>0. /\ TypeOK /\ ReferencesResolve /\ RequestsInv /\ Stored(servers) \subseteq used
      /\ servers \in [Servers -> Server \union {None}]
  BY DEF IInv, TypeOK
<1>1. /\ req[r] # None /\ req[r].kind = "deleteServer" /\ req[r].left = {}
      /\ i \in Stored(servers) /\ i \in Servers /\ i \in Ids /\ servers[i].name \in Names
      /\ req[r].kind \in Takers /\ DeleteServerInv(r)
  BY <1>0, TablesTyped DEF RemoveServer, Pending, Ids, Takers, RequestsInv, RequestInv
<1>2. /\ servers' = [servers EXCEPT ![i] = None]
      /\ End(r) /\ UNCHANGED <<policies, schedules, used, renamed>>
  BY DEF RemoveServer
<1>3. /\ req' \in [Requests -> Request \union {None}] /\ req'[r] = None
      /\ \A k \in Requests : k # r => req'[k] = req[k]
      /\ raced \subseteq raced' /\ Overlaps \subseteq raced' /\ raced' \subseteq Ids \union Names
      /\ UNCHANGED <<begun, stops, listed, revived>>
  BY <1>1, <1>2, EndsRequest
<1> DEFINE gone == servers[i].name
<1>4. About(r) = {i, req[r].name} \union {gone}
  BY <1>1, AboutParts DEF NamesIn
<1> HIDE DEF i
<1>5. /\ Stored(servers)' = Stored(servers) \ {i}
      /\ \A k \in Stored(servers) : k # i => servers'[k] = servers[k]
  BY <1>0, <1>1, <1>2, Nobody DEF Stored
<1>6. /\ \A n \in NamesIn(Stored(servers)) : n \in NamesIn(Stored(servers))' \/ n = gone
      /\ NamesIn(Stored(servers))' \subseteq NamesIn(Stored(servers))
  BY <1>5 DEF NamesIn
<1>7. Excused \subseteq Excused' /\ \A n \in There : n \in There' \/ n = gone
  BY <1>2, <1>3, <1>6 DEF Excused, There
<1>8. UnnamedBySchedules(gone) /\ UnnamedByPolicies(gone)
  BY <1>1 DEF DeleteServerInv, NamesIn, i
<1>9. TypeOK'
  <2>1. servers' \in [Servers -> Server \union {None}]
    BY <1>0, <1>1, <1>2
  <2>2. \A k, l \in Stored(servers)' : servers'[k].name = servers'[l].name => k = l
    BY <1>0, <1>5 DEF TypeOK
  <2> QED BY <1>0, <1>2, <1>3, <2>1, <2>2 DEF TypeOK
<1>10. ReferencesResolve'
  <2>1. \A p \in Stored(policies) : policies[p].names \subseteq There'
    BY <1>0, <1>7, <1>8 DEF ReferencesResolve, UnnamedByPolicies, There, Excused
  <2>2. \A c \in Stored(schedules) : schedules[c].names \subseteq There'
    BY <1>0, <1>7, <1>8 DEF ReferencesResolve, UnnamedBySchedules, There, Excused
  <2> QED BY <1>0, <1>2, <1>3, <2>1, <2>2 DEF ReferencesResolve, There, Excused, Stored
<1>11. (Stored(servers) \subseteq used)'
  BY <1>0, <1>2, <1>5
<1>12. ASSUME NEW n
       PROVE  /\ UnnamedBySchedules(n) => UnnamedBySchedules(n)'
              /\ UnnamedByPolicies(n) => UnnamedByPolicies(n)'
  BY <1>2, <1>7 DEF UnnamedBySchedules, UnnamedByPolicies, Stored
<1>13. ASSUME NEW k \in Requests, req'[k] # None PROVE RequestInv(k)'
  <2>1. k # r /\ req'[k] = req[k] /\ req[k] # None /\ RequestInv(k) /\ req[k] \in Request
    BY <1>0, <1>3, <1>13, TablesTyped DEF RequestsInv
  <2>2. \A x \in About(k) \intersect About(r) :
          req[k].kind \in Writers /\ x \in Ids \union Names => x \in raced'
    BY <1>1, <1>3, <2>1, Overlapping
  <2>3. CASE req[k].kind = "server"
    <3>1. ServerInv(k) /\ i \in About(r) /\ req[k].id \in About(k)
      BY <1>4, <2>1, <2>3, AboutParts DEF RequestInv
    <3>2. req[k].id = i => i \in raced'
      BY <1>1, <2>2, <2>3, <3>1 DEF Writers, Takers
    <3>3. ServerInv(k)'
      BY <1>3, <1>5, <1>6, <2>1, <3>1, <3>2 DEF ServerInv
    <3> QED BY <2>1, <2>3, <3>3 DEF RequestInv
  <2>4. CASE req[k].kind = "deleteServer"
    <3>1. DeleteServerInv(k)
      BY <2>1, <2>4 DEF RequestInv
    <3>2. \A n \in NamesIn({req[k].id} \intersect Stored(servers))' :
            n \in NamesIn({req[k].id} \intersect Stored(servers))
      BY <1>5, <2>1 DEF NamesIn
    <3>3. DeleteServerInv(k)'
      BY <1>12, <2>1, <3>1, <3>2 DEF DeleteServerInv
    <3> QED BY <2>1, <2>4, <3>3 DEF RequestInv
  <2>5. CASE req[k].kind = "policy"
    <3>1. gone \in req[k].row.names => gone \in raced'
      BY <1>1, <1>4, <2>2, <2>5, AboutParts DEF Writers
    <3>2. req[k].row.names \subseteq There'
      BY <1>7, <2>1, <2>5, <3>1 DEF RequestInv, There, Excused
    <3> QED BY <2>1, <2>5, <3>2 DEF RequestInv
  <2>6. CASE req[k].kind = "schedule"
    <3>1. gone \in req[k].row.names => gone \in raced'
      BY <1>1, <1>4, <2>2, <2>6, AboutParts DEF Writers
    <3>2. req[k].checked => req[k].row.names \subseteq There'
      BY <1>7, <2>1, <2>6, <3>1 DEF RequestInv, ScheduleInv, There, Excused
    <3>3. ScheduleInv(k)'
      BY <1>2, <1>3, <2>1, <2>6, <3>2 DEF RequestInv, ScheduleInv, Stored
    <3> QED BY <2>1, <2>6, <3>3 DEF RequestInv
  <2>7. CASE req[k].kind = "deletePolicy"
    BY <1>2, <1>3, <2>1, <2>7 DEF RequestInv, DeletePolicyInv, Stored
  <2>8. CASE req[k].kind \in {"trigger", "execute"}
    BY <2>1, <2>8 DEF RequestInv
  <2> QED BY <2>1, <2>3, <2>4, <2>5, <2>6, <2>7, <2>8, RequestParts
<1> QED BY <1>9, <1>10, <1>11, <1>13 DEF IInv, RequestsInv

(* What a policy or a schedule begins to rely on is there; who was about   *)
(* to take it away has raced with it.                                      *)
LEMMA WritePolicyInv ==
  ASSUME IInv, NEW r \in Requests, WritePolicy(r)
  PROVE  IInv'
<1> DEFINE p == req[r].id
           row == req[r].row
<1>0. /\ TypeOK /\ ReferencesResolve /\ RequestsInv /\ Stored(servers) \subseteq used
      /\ policies \in [Policies -> Policy \union {None}] /\ used \subseteq Ids
  BY DEF IInv, TypeOK
<1>1. /\ req[r] # None /\ req[r].kind = "policy" /\ req[r].kind \in Writers
      /\ p \in Policies /\ p \in Ids /\ row \in Policy /\ row # None /\ row.names \subseteq Names
      /\ row.names \subseteq There
  <2>1. r \in Pending({"policy"})
    BY DEF WritePolicy
  <2>2. req[r] \in [kind : {"policy"}, id : Policies, new : BOOLEAN, row : Policy]
    BY <1>0, <2>1, TablesTyped, RequestParts DEF Pending
  <2>3. \A q \in Policy : q.names \subseteq Names
    BY DEF Policy
  <2> QED BY <1>0, <2>1, <2>2, <2>3, Nobody DEF Pending, Writers, Ids, RequestsInv, RequestInv
<1>2. /\ policies' = [policies EXCEPT ![p] = row] /\ used' = used \union {p}
      /\ End(r) /\ UNCHANGED <<servers, schedules, renamed>>
  BY DEF WritePolicy
<1>3. /\ req' \in [Requests -> Request \union {None}] /\ req'[r] = None
      /\ \A k \in Requests : k # r => req'[k] = req[k]
      /\ raced \subseteq raced' /\ Overlaps \subseteq raced' /\ raced' \subseteq Ids \union Names
      /\ UNCHANGED <<begun, stops, listed, revived>>
  BY <1>1, <1>2, EndsRequest
<1>4. About(r) = row.names
  BY <1>1, AboutParts
<1> HIDE DEF p, row
<1>5. /\ Stored(policies)' = Stored(policies) \union {p} /\ policies'[p] = row
      /\ \A k \in Stored(policies) : k # p => policies'[k] = policies[k]
  BY <1>0, <1>1, <1>2 DEF Stored
<1>6. Excused \subseteq Excused' /\ There \subseteq There'
  BY <1>2, <1>3 DEF Excused, There, NamesIn, Stored
<1>7. TypeOK'
  BY <1>0, <1>1, <1>2, <1>3 DEF TypeOK, Stored
<1>8. ReferencesResolve'
  <2>1. \A k \in Stored(policies)' : policies'[k].names \subseteq There'
    BY <1>0, <1>1, <1>5, <1>6 DEF ReferencesResolve, There, Excused
  <2>2. \A c \in Stored(schedules) :
          /\ schedules[c].names \subseteq There'
          /\ schedules[c].policy \in Stored(policies)' \union raced' \union revived' \union {None}
    BY <1>0, <1>3, <1>5, <1>6 DEF ReferencesResolve, There, Excused
  <2> QED BY <1>2, <2>1, <2>2 DEF ReferencesResolve, There, Excused, Stored
<1>9. (Stored(servers) \subseteq used)'
  BY <1>0, <1>2 DEF Stored
<1>10. ASSUME NEW k \in Requests, req'[k] # None PROVE RequestInv(k)'
  <2>1. k # r /\ req'[k] = req[k] /\ req[k] # None /\ RequestInv(k) /\ req[k] \in Request
    BY <1>0, <1>3, <1>10, TablesTyped DEF RequestsInv
  <2>2. CASE req[k].kind = "server"
    BY <1>2, <1>3, <2>1, <2>2 DEF RequestInv, ServerInv, NamesIn, Stored
  <2>3. CASE req[k].kind = "deleteServer"
    <3>1. DeleteServerInv(k)
      BY <2>1, <2>3 DEF RequestInv
    <3>2. ASSUME NEW n \in NamesIn({req[k].id} \intersect Stored(servers)), n \in row.names
          PROVE  n \in Excused'
      <4>1. n \in About(k) /\ n \in About(r) /\ n \in Names
        BY <1>1, <1>4, <2>3, <3>2, AboutParts
      <4>2. req[k].kind \in Takers
        BY <2>3 DEF Takers
      <4> QED BY <1>1, <1>3, <2>1, <4>1, <4>2, Overlapping DEF Excused
    <3>3. ASSUME NEW n
          PROVE  /\ UnnamedBySchedules(n) => UnnamedBySchedules(n)'
                 /\ UnnamedByPolicies(n) /\ (n \in row.names => n \in Excused') =>
                      UnnamedByPolicies(n)'
      BY <1>2, <1>5, <1>6 DEF UnnamedBySchedules, UnnamedByPolicies, Stored
    <3>4. NamesIn({req[k].id} \intersect Stored(servers))' =
            NamesIn({req[k].id} \intersect Stored(servers))
      BY <1>2, <2>1 DEF NamesIn, Stored
    <3>5. DeleteServerInv(k)'
      BY <2>1, <3>1, <3>2, <3>3, <3>4 DEF DeleteServerInv
    <3> QED BY <2>1, <2>3, <3>5 DEF RequestInv
  <2>4. CASE req[k].kind \notin {"server", "deleteServer"}
    BY <1>2, <1>3, <1>5, <1>6, <2>1, <2>4 DEF RequestInv, ScheduleInv, DeletePolicyInv, Stored
  <2> QED BY <2>2, <2>3, <2>4
<1> QED BY <1>7, <1>8, <1>9, <1>10 DEF IInv, RequestsInv

LEMMA RemovePolicyInv ==
  ASSUME IInv, NEW r \in Requests, RemovePolicy(r)
  PROVE  IInv'
<1> DEFINE p == req[r].id
<1>0. /\ TypeOK /\ ReferencesResolve /\ RequestsInv /\ Stored(servers) \subseteq used
      /\ policies \in [Policies -> Policy \union {None}]
  BY DEF IInv, TypeOK
<1>1. /\ req[r] # None /\ req[r].kind = "deletePolicy" /\ req[r].kind \in Takers
      /\ p \in Stored(policies) /\ p \in Policies /\ p \in Ids /\ DeletePolicyInv(r)
  BY <1>0, TablesTyped DEF RemovePolicy, Pending, Ids, Takers, RequestsInv, RequestInv
<1>2. /\ policies' = [policies EXCEPT ![p] = None]
      /\ End(r) /\ UNCHANGED <<servers, schedules, used, renamed>>
  BY DEF RemovePolicy
<1>3. /\ req' \in [Requests -> Request \union {None}] /\ req'[r] = None
      /\ \A k \in Requests : k # r => req'[k] = req[k]
      /\ raced \subseteq raced' /\ Overlaps \subseteq raced' /\ raced' \subseteq Ids \union Names
      /\ UNCHANGED <<begun, stops, listed, revived>>
  BY <1>1, <1>2, EndsRequest
<1>4. About(r) = {p} /\ \A c \in Stored(schedules) : schedules[c].policy = p => p \in raced \union revived
  BY <1>1, AboutParts DEF DeletePolicyInv
<1> HIDE DEF p
<1>5. /\ Stored(policies)' = Stored(policies) \ {p}
      /\ \A k \in Stored(policies) : k # p => policies'[k] = policies[k]
  BY <1>0, <1>1, <1>2, Nobody DEF Stored
<1>6. Excused \subseteq Excused' /\ There \subseteq There'
  BY <1>2, <1>3 DEF Excused, There, NamesIn, Stored
<1>7. TypeOK'
  BY <1>0, <1>1, <1>2, <1>3 DEF TypeOK, Stored
<1>8. ReferencesResolve'
  <2>1. \A k \in Stored(policies)' : policies'[k].names \subseteq There'
    BY <1>0, <1>5, <1>6 DEF ReferencesResolve, There, Excused
  <2>2. \A c \in Stored(schedules) :
          /\ schedules[c].names \subseteq There'
          /\ schedules[c].policy \in Stored(policies)' \union raced' \union revived' \union {None}
    BY <1>0, <1>3, <1>4, <1>5, <1>6 DEF ReferencesResolve, There, Excused
  <2> QED BY <1>2, <2>1, <2>2 DEF ReferencesResolve, There, Excused, Stored
<1>9. (Stored(servers) \subseteq used)'
  BY <1>0, <1>2 DEF Stored
<1>10. ASSUME NEW k \in Requests, req'[k] # None PROVE RequestInv(k)'
  <2>1. k # r /\ req'[k] = req[k] /\ req[k] # None /\ RequestInv(k) /\ req[k] \in Request
    BY <1>0, <1>3, <1>10, TablesTyped DEF RequestsInv
  <2>2. CASE req[k].kind = "server"
    BY <1>2, <1>3, <2>1, <2>2 DEF RequestInv, ServerInv, NamesIn, Stored
  <2>3. CASE req[k].kind = "deleteServer"
    <3>1. DeleteServerInv(k)
      BY <2>1, <2>3 DEF RequestInv
    <3>2. ASSUME NEW n
          PROVE  /\ UnnamedBySchedules(n) => UnnamedBySchedules(n)'
                 /\ UnnamedByPolicies(n) => UnnamedByPolicies(n)'
      BY <1>2, <1>5, <1>6 DEF UnnamedBySchedules, UnnamedByPolicies, Stored
    <3>3. NamesIn({req[k].id} \intersect Stored(servers))' =
            NamesIn({req[k].id} \intersect Stored(servers))
      BY <1>2, <2>1 DEF NamesIn, Stored
    <3>4. DeleteServerInv(k)'
      BY <2>1, <3>1, <3>2, <3>3 DEF DeleteServerInv
    <3> QED BY <2>1, <2>3, <3>4 DEF RequestInv
  <2>4. CASE req[k].kind = "schedule"
    <3>1. req[k].row.policy \in About(k) /\ req[k].kind \in Writers
      BY <2>4, AboutParts DEF Writers
    <3>2. req[k].row.policy = p => p \in raced'
      BY <1>1, <1>3, <1>4, <2>1, <3>1, Overlapping
    <3>3. ScheduleInv(k)'
      BY <1>3, <1>5, <1>6, <2>1, <2>4, <3>2 DEF RequestInv, ScheduleInv
    <3> QED BY <2>1, <2>4, <3>3 DEF RequestInv
  <2>5. CASE req[k].kind \notin {"server", "deleteServer", "schedule"}
    BY <1>2, <1>3, <1>6, <2>1, <2>5 DEF RequestInv, DeletePolicyInv, Stored
  <2> QED BY <2>2, <2>3, <2>4, <2>5
<1> QED BY <1>7, <1>8, <1>9, <1>10 DEF IInv, RequestsInv

LEMMA WriteScheduleInv ==
  ASSUME IInv, NEW r \in Requests, WriteSchedule(r)
  PROVE  IInv'
<1> DEFINE s == req[r].id
           row == req[r].row
<1>0. /\ TypeOK /\ ReferencesResolve /\ RequestsInv /\ Stored(servers) \subseteq used
      /\ schedules \in [Schedules -> Schedule \union {None}] /\ used \subseteq Ids
  BY DEF IInv, TypeOK
<1>1. /\ req[r] # None /\ req[r].kind = "schedule" /\ req[r].kind \in Writers
      /\ s \in Schedules /\ s \in Ids /\ row \in Schedule /\ row # None
      /\ row.names \subseteq Names /\ row.policy \in Policies \union {None}
      /\ row.names \subseteq There /\ row.policy \in Stored(policies) \union raced \union {None}
  <2>1. r \in Pending({"schedule"}) /\ req[r].checked
    BY DEF WriteSchedule
  <2>2. req[r] \in [kind : {"schedule"}, id : Schedules, new : BOOLEAN, row : Schedule,
                    checked : BOOLEAN]
    BY <1>0, <2>1, TablesTyped, RequestParts DEF Pending
  <2>3. \A q \in Schedule : q.names \subseteq Names /\ q.policy \in Policies \union {None}
    BY DEF Schedule
  <2> QED BY <1>0, <2>1, <2>2, <2>3, Nobody
      DEF Pending, Writers, Ids, RequestsInv, RequestInv, ScheduleInv
<1>2. /\ schedules' = [schedules EXCEPT ![s] = row] /\ used' = used \union {s}
      /\ End(r) /\ UNCHANGED <<servers, policies, renamed>>
  BY DEF WriteSchedule
<1>3. /\ req' \in [Requests -> Request \union {None}] /\ req'[r] = None
      /\ \A k \in Requests : k # r => req'[k] = req[k]
      /\ raced \subseteq raced' /\ Overlaps \subseteq raced' /\ raced' \subseteq Ids \union Names
      /\ UNCHANGED <<begun, stops, listed, revived>>
  BY <1>1, <1>2, EndsRequest
<1>4. About(r) = {row.policy} \union row.names
  BY <1>1, AboutParts
<1> HIDE DEF s, row
<1>5. /\ Stored(schedules)' = Stored(schedules) \union {s} /\ schedules'[s] = row
      /\ \A k \in Stored(schedules) : k # s => schedules'[k] = schedules[k]
  BY <1>0, <1>1, <1>2 DEF Stored
<1>6. Excused \subseteq Excused' /\ There \subseteq There'
  BY <1>2, <1>3 DEF Excused, There, NamesIn, Stored
<1>7. TypeOK'
  BY <1>0, <1>1, <1>2, <1>3 DEF TypeOK, Stored
<1>8. ReferencesResolve'
  <2>1. \A k \in Stored(policies) : policies[k].names \subseteq There'
    BY <1>0, <1>6 DEF ReferencesResolve, There, Excused
  <2>2. ASSUME NEW c \in Stored(schedules)'
        PROVE  /\ schedules'[c].names \subseteq There'
               /\ schedules'[c].policy \in Stored(policies) \union raced' \union revived' \union {None}
    <3>1. CASE c = s
      BY <1>1, <1>3, <1>5, <1>6, <3>1
    <3>2. CASE c # s
      BY <1>0, <1>3, <1>5, <1>6, <2>2, <3>2 DEF ReferencesResolve, There, Excused
    <3> QED BY <3>1, <3>2
  <2> QED BY <1>2, <2>1, <2>2 DEF ReferencesResolve, There, Excused, Stored
<1>9. (Stored(servers) \subseteq used)'
  BY <1>0, <1>2 DEF Stored
<1>10. ASSUME NEW k \in Requests, req'[k] # None PROVE RequestInv(k)'
  <2>1. k # r /\ req'[k] = req[k] /\ req[k] # None /\ RequestInv(k) /\ req[k] \in Request
    BY <1>0, <1>3, <1>10, TablesTyped DEF RequestsInv
  <2>2. CASE req[k].kind = "server"
    BY <1>2, <1>3, <2>1, <2>2 DEF RequestInv, ServerInv, NamesIn, Stored
  <2>3. CASE req[k].kind = "deleteServer"
    <3>1. DeleteServerInv(k)
      BY <2>1, <2>3 DEF RequestInv
    <3>2. ASSUME NEW n \in NamesIn({req[k].id} \intersect Stored(servers)), n \in row.names
          PROVE  n \in Excused'
      <4>1. n \in About(k) /\ n \in About(r) /\ n \in Names
        BY <1>1, <1>4, <2>3, <3>2, AboutParts
      <4>2. req[k].kind \in Takers
        BY <2>3 DEF Takers
      <4> QED BY <1>1, <1>3, <2>1, <4>1, <4>2, Overlapping DEF Excused
    <3>3. ASSUME NEW n
          PROVE  /\ UnnamedBySchedules(n) /\ (n \in row.names => n \in Excused') =>
                      UnnamedBySchedules(n)'
                 /\ UnnamedByPolicies(n) => UnnamedByPolicies(n)'
      BY <1>2, <1>5, <1>6 DEF UnnamedBySchedules, UnnamedByPolicies, Stored
    <3>4. NamesIn({req[k].id} \intersect Stored(servers))' =
            NamesIn({req[k].id} \intersect Stored(servers))
      BY <1>2, <2>1 DEF NamesIn, Stored
    <3>5. DeleteServerInv(k)'
      BY <2>1, <3>1, <3>2, <3>3, <3>4 DEF DeleteServerInv
    <3> QED BY <2>1, <2>3, <3>5 DEF RequestInv
  <2>4. CASE req[k].kind = "deletePolicy"
    <3>1. req[k].id \in About(k) /\ req[k].kind \in Takers /\ req[k].id \in Ids
      BY <2>1, <2>4, AboutParts, RequestParts DEF Takers, Ids
    <3>2. row.policy = req[k].id => req[k].id \in raced'
      BY <1>1, <1>3, <1>4, <2>1, <3>1, Overlapping
    <3>3. DeletePolicyInv(k)'
      BY <1>3, <1>5, <2>1, <2>4, <3>2 DEF RequestInv, DeletePolicyInv
    <3> QED BY <2>1, <2>4, <3>3 DEF RequestInv
  <2>5. CASE req[k].kind \notin {"server", "deleteServer", "deletePolicy"}
    BY <1>2, <1>3, <1>6, <2>1, <2>5 DEF RequestInv, ScheduleInv, Stored
  <2> QED BY <2>2, <2>3, <2>4, <2>5
<1> QED BY <1>7, <1>8, <1>9, <1>10 DEF IInv, RequestsInv

LEMMA DeleteScheduleInv ==
  ASSUME IInv, NEW c \in Schedules, DeleteSchedule(c)
  PROVE  IInv'
<1>0. /\ TypeOK /\ ReferencesResolve /\ RequestsInv /\ Stored(servers) \subseteq used
      /\ schedules \in [Schedules -> Schedule \union {None}]
  BY DEF IInv, TypeOK
<1>1. /\ schedules' = [schedules EXCEPT ![c] = None]
      /\ UNCHANGED <<servers, policies, used, req, begun, stops, listed, revived, raced, renamed>>
  BY DEF DeleteSchedule, bounds, tick
<1>2. /\ Stored(schedules)' \subseteq Stored(schedules)
      /\ \A k \in Stored(schedules)' : schedules'[k] = schedules[k]
  BY <1>0, <1>1 DEF Stored
<1>3. TypeOK'
  BY <1>0, <1>1 DEF TypeOK, Stored
<1>4. There' = There /\ Excused' = Excused
  BY <1>1 DEF There, Excused, NamesIn, Stored
<1>5. ReferencesResolve'
  <2>1. \A p \in Stored(policies) : policies[p].names \subseteq There
    BY <1>0 DEF ReferencesResolve, There, Excused
  <2>2. \A k \in Stored(schedules) :
          /\ schedules[k].names \subseteq There
          /\ schedules[k].policy \in Stored(policies) \union raced \union revived \union {None}
    BY <1>0 DEF ReferencesResolve, There, Excused
  <2> QED BY <1>1, <1>2, <1>4, <2>1, <2>2 DEF ReferencesResolve, There, Excused, Stored
<1>6. ASSUME NEW n
      PROVE  /\ UnnamedBySchedules(n) => UnnamedBySchedules(n)'
             /\ UnnamedByPolicies(n) => UnnamedByPolicies(n)'
  BY <1>1, <1>2, <1>4 DEF UnnamedBySchedules, UnnamedByPolicies, Stored
<1>7. ASSUME NEW k \in Requests, req'[k] # None PROVE RequestInv(k)'
  <2>1. RequestInv(k) /\ req'[k] = req[k]
    BY <1>0, <1>1, <1>7 DEF RequestsInv
  <2>2. ServerInv(k) => ServerInv(k)'
    BY <1>1 DEF ServerInv, NamesIn, Stored
  <2>3. DeleteServerInv(k) => DeleteServerInv(k)'
    BY <1>1, <1>6 DEF DeleteServerInv, NamesIn, Stored
  <2>4. (ScheduleInv(k) => ScheduleInv(k)') /\ (DeletePolicyInv(k) => DeletePolicyInv(k)')
    BY <1>1, <1>2, <1>4 DEF ScheduleInv, DeletePolicyInv, Stored
  <2> QED BY <1>4, <2>1, <2>2, <2>3, <2>4 DEF RequestInv
<1> QED BY <1>0, <1>1, <1>3, <1>5, <1>7 DEF IInv, RequestsInv, Stored

-----------------------------------------------------------------------------
(* The tick of the scheduler.                                              *)

(* A listing takes rows of the table.                                      *)
LEMMA ListedInv ==
  ASSUME IInv, StartTick \/ \E c \in Schedules : PassOver(c)
  PROVE  IInv'
<1>1. TypeOK /\ ReferencesResolve /\ Stored(servers) \subseteq used /\ RequestsInv
  BY DEF IInv
<1>2. /\ listed' \in [Schedules -> Schedule \union {None}]
      /\ UNCHANGED <<servers, policies, schedules, used, req, begun, stops, raced, renamed, revived>>
  BY <1>1 DEF TypeOK, StartTick, PassOver, tables, bounds
<1>3. TypeOK'
  BY <1>1, <1>2 DEF TypeOK, Stored
<1>4. ReferencesResolve' /\ (Stored(servers) \subseteq used)'
  BY <1>1, <1>2 DEF ReferencesResolve, Stored, NamesIn
<1>5. ASSUME NEW k \in Requests, req'[k] # None PROVE RequestInv(k)'
  <2>1. RequestInv(k) /\ req'[k] = req[k]
    BY <1>1, <1>2, <1>5 DEF RequestsInv
  <2> QED BY <1>2, <2>1 DEF RequestInv, ServerInv, DeleteServerInv, ScheduleInv, DeletePolicyInv,
          There, Excused, UnnamedBySchedules, UnnamedByPolicies, NamesIn, Stored
<1> QED BY <1>3, <1>4, <1>5 DEF IInv, RequestsInv

(* What a row that is written back names is there and nobody is about to   *)
(* take it away, or the row in the table named it too, or it is revived.   *)
LEMMA WriteBackInv ==
  ASSUME IInv, NEW c \in Schedules, WriteBack(c)
  PROVE  IInv'
<1> DEFINE row == listed[c]
<1>0. /\ TypeOK /\ ReferencesResolve /\ RequestsInv /\ Stored(servers) \subseteq used
      /\ schedules \in [Schedules -> Schedule \union {None}]
      /\ listed \in [Schedules -> Schedule \union {None}]
  BY DEF IInv, TypeOK
<1>1. /\ c \in Stored(schedules) /\ row \in Schedule /\ row # None
      /\ row.names \subseteq Names /\ row.policy \in Policies \union {None}
  <2>1. c \in Stored(schedules) /\ row \in Schedule /\ row # None
    BY <1>0 DEF WriteBack, Stored
  <2> QED BY <2>1 DEF Schedule
<1>2. /\ schedules' = [schedules EXCEPT ![c] = row] /\ listed' = [listed EXCEPT ![c] = None]
      /\ revived' = revived \union Revived(c)
      /\ UNCHANGED <<servers, policies, used, req, begun, stops, raced, renamed>>
  BY DEF WriteBack, bounds
<1>3. /\ Stored(schedules)' = Stored(schedules) /\ schedules'[c] = row
      /\ \A k \in Stored(schedules) : k # c => schedules'[k] = schedules[k]
  BY <1>0, <1>1, <1>2 DEF Stored
<1>4. Revived(c) \subseteq Names \union Policies
  BY <1>1 DEF Revived
<1>5. /\ \A n \in row.names \ schedules[c].names : n \in NamesIn(Stored(servers)) \/ n \in revived'
      /\ row.policy \in {schedules[c].policy, None} \/ row.policy \in Stored(policies) \union revived'
  BY <1>2 DEF Revived
<1>6. ASSUME NEW k \in Pending({"deleteServer", "deletePolicy"}), NEW x \in About(k),
             x \in Ids \union Names
      PROVE  /\ x \in row.names \ schedules[c].names => x \in revived'
             /\ x = row.policy /\ x \notin {schedules[c].policy, None} => x \in revived'
  BY <1>2, <1>6 DEF Revived
<1> HIDE DEF row
<1>7. Excused \subseteq Excused' /\ There \subseteq There'
  BY <1>2 DEF Excused, There, NamesIn, Stored
<1>8. TypeOK'
  <2>1. schedules' \in [Schedules -> Schedule \union {None}]
    BY <1>0, <1>1, <1>2
  <2>2. listed' \in [Schedules -> Schedule \union {None}]
    BY <1>0, <1>2
  <2>3. revived' \subseteq Names \union Policies
    BY <1>0, <1>2, <1>4 DEF TypeOK
  <2> QED BY <1>0, <1>2, <2>1, <2>2, <2>3 DEF TypeOK, Stored
<1>9. ReferencesResolve'
  <2>1. \A p \in Stored(policies) : policies[p].names \subseteq There'
    BY <1>0, <1>7 DEF ReferencesResolve, There, Excused
  <2>2. \A k \in Stored(schedules) :
          /\ schedules[k].names \subseteq There'
          /\ schedules[k].policy \in Stored(policies) \union raced \union revived' \union {None}
    BY <1>0, <1>2, <1>7 DEF ReferencesResolve, There, Excused
  <2>3. row.names \subseteq There'
    BY <1>1, <1>2, <1>5, <2>2 DEF There, Excused, NamesIn, Stored
  <2>4. row.policy \in Stored(policies) \union raced \union revived' \union {None}
    BY <1>1, <1>5, <2>2
  <2>5. \A k \in Stored(schedules)' :
          /\ schedules'[k].names \subseteq There'
          /\ schedules'[k].policy \in Stored(policies) \union raced \union revived' \union {None}
    BY <1>3, <2>2, <2>3, <2>4
  <2> QED BY <1>2, <2>1, <2>5 DEF ReferencesResolve, There, Excused, Stored
<1>10. (Stored(servers) \subseteq used)'
  BY <1>0, <1>2 DEF Stored
<1>11. ASSUME NEW k \in Requests, req'[k] # None PROVE RequestInv(k)'
  <2>1. req'[k] = req[k] /\ req[k] # None /\ RequestInv(k) /\ req[k] \in Request
    BY <1>0, <1>2, <1>11, TablesTyped DEF RequestsInv
  <2>2. CASE req[k].kind = "server"
    BY <1>2, <2>1, <2>2 DEF RequestInv, ServerInv, NamesIn, Stored
  <2>3. CASE req[k].kind = "deleteServer"
    <3>1. DeleteServerInv(k)
      BY <2>1, <2>3 DEF RequestInv
    <3>2. ASSUME NEW n \in NamesIn({req[k].id} \intersect Stored(servers)), n \in row.names,
                 n \notin schedules[c].names
          PROVE  n \in Excused'
      <4>1. n \in About(k) /\ n \in Names /\ k \in Pending({"deleteServer", "deletePolicy"})
        BY <1>1, <2>1, <2>3, <3>2, AboutParts DEF Pending
      <4> QED BY <1>6, <3>2, <4>1 DEF Excused
    <3>3. ASSUME NEW n
          PROVE  /\ /\ UnnamedBySchedules(n)
                    /\ n \in row.names /\ n \notin schedules[c].names => n \in Excused'
                    => UnnamedBySchedules(n)'
                 /\ UnnamedByPolicies(n) => UnnamedByPolicies(n)'
      BY <1>1, <1>2, <1>3, <1>7 DEF UnnamedBySchedules, UnnamedByPolicies, Stored
    <3>4. NamesIn({req[k].id} \intersect Stored(servers))' =
            NamesIn({req[k].id} \intersect Stored(servers))
      BY <1>2, <2>1 DEF NamesIn, Stored
    <3>5. DeleteServerInv(k)'
      BY <2>1, <3>1, <3>2, <3>3, <3>4 DEF DeleteServerInv
    <3> QED BY <2>1, <2>3, <3>5 DEF RequestInv
  <2>4. CASE req[k].kind = "deletePolicy"
    <3>1. /\ req[k].id \in About(k) /\ req[k].id \in Ids /\ req[k].id # None
          /\ k \in Pending({"deleteServer", "deletePolicy"}) /\ DeletePolicyInv(k)
      BY <2>1, <2>4, AboutParts, RequestParts, Nobody DEF Ids, Pending, RequestInv
    <3>2. row.policy = req[k].id => row.policy = schedules[c].policy \/ req[k].id \in revived'
      BY <1>6, <3>1
    <3>3. DeletePolicyInv(k)'
      BY <1>1, <1>2, <1>3, <2>1, <3>1, <3>2 DEF DeletePolicyInv
    <3> QED BY <2>1, <2>4, <3>3 DEF RequestInv
  <2>5. CASE req[k].kind \notin {"server", "deleteServer", "deletePolicy"}
    BY <1>2, <1>7, <2>1, <2>5 DEF RequestInv, ScheduleInv, Stored
  <2> QED BY <2>2, <2>3, <2>4, <2>5
<1> QED BY <1>8, <1>9, <1>10, <1>11 DEF IInv, RequestsInv

-----------------------------------------------------------------------------
(* The start of the process.                                               *)

(* Table S has the servers of the table, named as they were, and the new.  *)
Refilled(table, S, new) ==
  /\ S \in [Servers -> Server \union {None}]
  /\ \A i \in Servers :
       /\ table[i] # None => S[i] # None /\ S[i].name = table[i].name
       /\ S[i] # None => table[i] # None \/ i \in Range(new)
  /\ \A i, k \in Servers : S[i] # None /\ S[k] # None /\ S[i].name = S[k].name => i = k

LEMMA SeedingKeeps ==
  ASSUME NEW table \in [Servers -> Server \union {None}], NEW N \in SUBSET Names,
         NEW T \in SUBSET Servers, NEW new \in Injection(N, T),
         \A t \in T : table[t] = None,
         \A i \in Servers : table[i] # None => table[i].name \notin N,
         \A i, k \in Servers :
           table[i] # None /\ table[k] # None /\ table[i].name = table[k].name => i = k
  PROVE  Refilled(table, Seeded(table, new), new) /\ Range(new) \subseteq T
<1> DEFINE S == Seeded(table, new)
           name(i) == Inverse(new, DOMAIN new, Servers)[i]
<1>1. /\ new \in [N -> T] /\ DOMAIN new = N /\ Range(new) \subseteq T
  BY DEF Injection, Range
<1>2. ASSUME NEW i \in Servers, i \in Range(new) PROVE name(i) \in N /\ new[name(i)] = i
  BY <1>1, <1>2 DEF Inverse, Range
<1>3. ASSUME NEW i \in Servers
      PROVE  S[i] = IF table[i] # None
                    THEN [table[i] EXCEPT !.enabled = @ \/ table[i].name \in Configured]
                    ELSE IF i \in Range(new) THEN [name |-> name(i), enabled |-> TRUE] ELSE None
  BY DEF Seeded
<1>4. DOMAIN S = Servers /\ S = [i \in Servers |-> S[i]]
  BY DEF Seeded
<1> HIDE DEF S, name
<1>5. ASSUME NEW i \in Servers, table[i] # None
      PROVE  S[i] \in Server /\ S[i] # None /\ S[i].name = table[i].name
  <2>1. PICK e : e = (table[i].enabled \/ table[i].name \in Configured)
    OBVIOUS
  <2>2. table[i] \in Server /\ e \in BOOLEAN
    BY <1>5, <2>1 DEF Server
  <2>3. S[i] = [table[i] EXCEPT !.enabled = e]
    BY <1>3, <1>5, <2>1
  <2> QED BY <2>2, <2>3, Nobody DEF Server
<1>6. ASSUME NEW i \in Servers, table[i] = None, i \in Range(new)
      PROVE  S[i] \in Server /\ S[i] # None /\ S[i].name = name(i) /\ name(i) \in N
  <2>1. PICK n \in N : n = name(i)
    BY <1>2, <1>6
  <2>2. S[i] = [name |-> n, enabled |-> TRUE]
    BY <1>3, <1>6, <2>1
  <2>3. S[i] \in Server
    BY <2>2 DEF Server
  <2>4. S[i].name = n
    BY <2>2
  <2> QED BY <2>1, <2>3, <2>4, Nobody
<1>7. ASSUME NEW i \in Servers, table[i] = None, i \notin Range(new) PROVE S[i] = None
  BY <1>3, <1>7
<1>8. S \in [Servers -> Server \union {None}]
  BY <1>4, <1>5, <1>6, <1>7
<1>9. ASSUME NEW i \in Servers, NEW k \in Servers, S[i] # None, S[k] # None, S[i].name = S[k].name
      PROVE  i = k
  <2>1. CASE table[i] # None /\ table[k] # None
    BY <1>5, <1>9, <2>1
  <2>2. CASE table[i] # None /\ table[k] = None
    BY <1>5, <1>6, <1>7, <1>9, <2>2
  <2>3. CASE table[i] = None /\ table[k] # None
    BY <1>5, <1>6, <1>7, <1>9, <2>3
  <2>4. CASE table[i] = None /\ table[k] = None
    BY <1>2, <1>6, <1>7, <1>9, <2>4
  <2> QED BY <2>1, <2>2, <2>3, <2>4
<1> QED BY <1>1, <1>5, <1>7, <1>8, <1>9 DEF S, Refilled

LEMMA RestartInv ==
  ASSUME IInv, Restart
  PROVE  IInv'
<1>0. /\ TypeOK /\ ReferencesResolve /\ Stored(servers) \subseteq used
      /\ servers \in [Servers -> Server \union {None}] /\ used \subseteq Ids
  BY DEF IInv, TypeOK
<1> DEFINE N == Configured \ NamesIn(Stored(servers))
<1>1. PICK new \in Injection(N, Servers \ used) :
        servers' = Seeded(servers, new) /\ used' = used \union Range(new)
  BY DEF Restart
<1>2. /\ req' = [r \in Requests |-> None] /\ stops' = stops + 1 /\ stops < MaxStops
      /\ UNCHANGED <<policies, schedules, begun, raced, renamed, revived>>
      /\ listed' = [c \in Schedules |-> None]
  BY DEF Restart
<1>3. /\ N \in SUBSET Names /\ Servers \ used \in SUBSET Servers
      /\ \A t \in Servers \ used : servers[t] = None
      /\ \A i \in Servers : servers[i] # None => servers[i].name \notin N
      /\ \A i, k \in Servers :
           servers[i] # None /\ servers[k] # None /\ servers[i].name = servers[k].name => i = k
  BY <1>0, InventoryAssumption DEF TypeOK, Stored, NamesIn
<1>4. Refilled(servers, servers', new) /\ Range(new) \subseteq Servers \ used
  <2> HIDE DEF N
  <2>1. PICK table \in [Servers -> Server \union {None}], M \in SUBSET Names,
             T \in SUBSET Servers :
          table = servers /\ M = N /\ T = Servers \ used
    BY <1>0, <1>3
  <2>2. Refilled(table, Seeded(table, new), new) /\ Range(new) \subseteq T
    BY <1>1, <1>3, <2>1, SeedingKeeps
  <2> QED BY <1>1, <2>1, <2>2
<1> HIDE DEF N
<1>5. There \subseteq There' /\ Excused' = Excused
  BY <1>0, <1>2, <1>4 DEF Refilled, There, Excused, NamesIn, Stored
<1>6. TypeOK'
  <2>1. stops' \in 0 .. MaxStops
    BY <1>0, <1>2, InventoryAssumption DEF TypeOK
  <2>2. \A i, k \in Stored(servers)' : servers'[i].name = servers'[k].name => i = k
    BY <1>4 DEF Refilled, Stored
  <2>3. used' \subseteq Ids
    BY <1>0, <1>1, <1>4 DEF Ids
  <2> QED BY <1>0, <1>2, <1>4, <2>1, <2>2, <2>3 DEF Refilled, TypeOK
<1>7. ReferencesResolve'
  BY <1>0, <1>2, <1>5 DEF ReferencesResolve, There, Excused, Stored
<1>8. (Stored(servers) \subseteq used)'
  BY <1>0, <1>1, <1>4 DEF Refilled, Stored
<1> QED BY <1>2, <1>6, <1>7, <1>8 DEF IInv, RequestsInv

LEMMA InitInv == Init => IInv
<1> SUFFICES ASSUME Init PROVE IInv
  OBVIOUS
<1> DEFINE empty == [i \in Servers |-> None]
<1>1. PICK new \in Injection(Configured, Servers) :
        servers = Seeded(empty, new) /\ used = Range(new)
  BY DEF Init
<1>2. /\ policies = [p \in Policies |-> None] /\ schedules = [c \in Schedules |-> None]
      /\ req = [r \in Requests |-> None] /\ begun = 0 /\ stops = 0 /\ raced = {} /\ renamed = {}
      /\ listed = [c \in Schedules |-> None] /\ revived = {}
  BY DEF Init
<1>3. /\ empty \in [Servers -> Server \union {None}] /\ Configured \in SUBSET Names
      /\ Servers \in SUBSET Servers /\ \A i \in Servers : empty[i] = None
  BY InventoryAssumption
<1>4. Refilled(empty, servers, new) /\ Range(new) \subseteq Servers
  <2> HIDE DEF empty
  <2>1. PICK T \in SUBSET Servers : T = Servers
    BY <1>3
  <2> QED BY <1>1, <1>3, <2>1, SeedingKeeps
<1>5. TypeOK
  <2>1. 0 \in 0 .. MaxRequests /\ 0 \in 0 .. MaxStops
    BY InventoryAssumption
  <2> QED BY <1>1, <1>2, <1>4, <2>1 DEF Refilled, TypeOK, Stored, Ids
<1>6. ReferencesResolve
  BY <1>2 DEF ReferencesResolve, Stored
<1>7. Stored(servers) \subseteq used
  BY <1>1, <1>4 DEF Refilled, Stored
<1> QED BY <1>2, <1>5, <1>6, <1>7 DEF IInv, RequestsInv

-----------------------------------------------------------------------------
LEMMA NextInv == IInv /\ [Next]_vars => IInv'
<1> SUFFICES ASSUME IInv, [Next]_vars PROVE IInv'
  OBVIOUS
<1>1. ASSUME NEW r \in Requests,
             \/ CreateServer(r) \/ UpdateServer(r) \/ FindByName(r) \/ WriteServer(r)
             \/ DeleteServer(r) \/ CheckSchedules(r) \/ CheckPolicies(r) \/ RemoveServer(r)
             \/ ChangePolicy(r) \/ WritePolicy(r) \/ DeletePolicy(r) \/ RemovePolicy(r)
             \/ ChangeSchedule(r) \/ CheckTargets(r) \/ WriteSchedule(r)
             \/ TriggerExecution(r) \/ SelectServers(r) \/ Finish(r)
      PROVE  IInv'
  BY <1>1, ServerReads, DeleteReads, ReferenceReads, ExecutionReads, WriteServerInv,
     RemoveServerInv, WritePolicyInv, RemovePolicyInv, WriteScheduleInv
<1>2. ASSUME NEW c \in Schedules, DeleteSchedule(c) PROVE IInv'
  BY <1>2, DeleteScheduleInv
<1>5. ASSUME NEW c \in Schedules, PassOver(c) \/ WriteBack(c) PROVE IInv'
  BY <1>5, ListedInv, WriteBackInv
<1>6. CASE StartTick
  BY <1>6, ListedInv
<1>3. CASE Restart
  BY <1>3, RestartInv
<1>4. CASE UNCHANGED vars
  <2>1. TypeOK' /\ ReferencesResolve' /\ (Stored(servers) \subseteq used)'
    BY <1>4 DEF IInv, TypeOK, ReferencesResolve, Stored, NamesIn, vars, tables, bounds, tick
  <2>2. ASSUME NEW k \in Requests, req'[k] # None PROVE RequestInv(k)'
    <3>1. RequestInv(k) /\ req'[k] = req[k]
      BY <1>4, <2>2 DEF IInv, RequestsInv, vars
    <3> QED BY <1>4, <3>1 DEF RequestInv, ServerInv, DeleteServerInv, ScheduleInv, DeletePolicyInv,
            There, Excused, UnnamedBySchedules, UnnamedByPolicies, NamesIn, Stored, vars, tables, tick
  <2> QED BY <2>1, <2>2 DEF IInv, RequestsInv
<1> QED BY <1>1, <1>2, <1>3, <1>4, <1>5, <1>6 DEF Next

LEMMA Inductive == Spec => []IInv
BY InitInv, NextInv, PTL DEF Spec

(* The tables hold rows of their types, and no two servers have one name:  *)
(* a start and a request may both be about to insert it (UpsertServer).    *)
THEOREM InventoryTypeOK == Spec => []TypeOK
<1>1. IInv => TypeOK
  BY DEF IInv
<1> QED BY <1>1, Inductive, PTL

(* What policies and schedules name is there, for any number of requests   *)
(* and however the ticks of the scheduler come between them, unless two    *)
(* requests about it overlapped, the server was renamed, or a tick wrote   *)
(* back a listing that an edit had overtaken, and so named again what was  *)
(* deleted or being deleted (deleteServer, deletePolicy,                   *)
(* resolveScheduleTarget, tick).                                           *)
THEOREM ReferencesStand == Spec => []ReferencesResolve
<1>1. IInv => ReferencesResolve
  BY DEF IInv
<1> QED BY <1>1, Inductive, PTL

(* A request to create a server replaces none, although it upserts by      *)
(* name, unless it met another request for that server or name             *)
(* (createServer, UpsertServer).                                           *)
THEOREM CreatesOnlyCreate == Spec => CreatesReplaceNothing
<1> DEFINE Kept ==
      \A i \in Stored(servers) :
        servers'[i] # servers[i] /\ stops' = stops /\ {i, servers[i].name} \intersect raced' = {}
          => \E r \in Pending({"server", "deleteServer"}) :
               /\ req'[r] = None
               /\ req[r].id = i
               /\ req[r].kind = "server" => req[r].asked = i
<1>1. IInv /\ [Next]_vars => [Kept]_vars
  <2> SUFFICES ASSUME IInv, Next, NEW i \in Stored(servers), servers'[i] # servers[i],
                      stops' = stops, {i, servers[i].name} \intersect raced' = {}
               PROVE  \E r \in Pending({"server", "deleteServer"}) :
                        /\ req'[r] = None
                        /\ req[r].id = i
                        /\ req[r].kind = "server" => req[r].asked = i
    OBVIOUS
  <2>0. /\ TypeOK /\ RequestsInv /\ Stored(servers) \subseteq used
        /\ servers \in [Servers -> Server \union {None}] /\ stops \in Nat
    BY InventoryAssumption DEF IInv, TypeOK
  <2>1. ~Restart
    BY <2>0 DEF Restart
  <2>2. \E r \in Requests : WriteServer(r) \/ RemoveServer(r)
    BY <2>1 DEF Next, Begin, Continue, tables, CreateServer, UpdateServer, FindByName,
       DeleteServer, CheckSchedules, CheckPolicies, ChangePolicy, WritePolicy, DeletePolicy,
       RemovePolicy, ChangeSchedule, CheckTargets, WriteSchedule, DeleteSchedule,
       TriggerExecution, SelectServers, Finish, StartTick, PassOver, WriteBack
  <2>3. PICK r \in Requests : WriteServer(r) \/ RemoveServer(r)
    BY <2>2
  <2>4. CASE WriteServer(r)
    <3>1. r \in Pending({"server"}) /\ req[r] # None /\ End(r) /\ ServerInv(r)
      BY <2>0, <2>4 DEF WriteServer, Pending, RequestsInv, RequestInv
    <3>2. req'[r] = None /\ raced \subseteq raced'
      BY <3>1, EndsRequest
    <3>3. req[r].id = i
      BY <2>0, <2>4 DEF WriteServer
    <3>4. i # None
      BY <2>0, Nobody DEF Stored
    <3>5. req[r].asked = i
      BY <3>1, <3>2, <3>3, <3>4 DEF ServerInv
    <3> QED BY <3>1, <3>2, <3>3, <3>5 DEF Pending
  <2>5. CASE RemoveServer(r)
    <3>1. r \in Pending({"deleteServer"}) /\ req[r] # None /\ End(r) /\ req[r].id = i
      BY <2>0, <2>5 DEF RemoveServer, Pending
    <3>2. req'[r] = None
      BY <3>1, EndsRequest
    <3> QED BY <3>1, <3>2 DEF Pending
  <2> QED BY <2>3, <2>4, <2>5
<1> QED BY <1>1, Inductive, PTL DEF Spec, CreatesReplaceNothing
================================================================================
