------------------------------- MODULE Inventory -------------------------------
(***************************************************************************)
(* Servers, policies and schedules (internal/api/handler_server.go,        *)
(* handler_policy.go, handler_schedule.go), which name one another, and    *)
(* the selection of the servers of an execution (handler_backup.go).  The  *)
(* store knows of no references: a handler lists tables, decides, and      *)
(* writes, each a call of its own, while other requests do the same.       *)
(*                                                                         *)
(* req[r] is what request r is about and what it has found in order so     *)
(* far; a request that is refused or fails is over.  An update may keep    *)
(* any field of the row it has read, so that what it writes is open.       *)
(*                                                                         *)
(* The tick of the scheduler writes schedules too: it lists them, and      *)
(* writes some of the rows that it has listed back, whole and unchecked    *)
(* (scheduler.go); the names and the policy in them are those of the       *)
(* listing.                                                                *)
(***************************************************************************)
EXTENDS Naturals, Functions

CONSTANTS
  Servers, Policies, Schedules,  \* identifiers
  Names,        \* names of servers
  Configured,   \* names of the servers of the configuration file
  Requests,     \* requests in flight
  MaxRequests,  \* bound: requests that are begun
  MaxStops,     \* bound: restarts of the process
  None          \* no row, no request, no policy

Ids == Servers \union Policies \union Schedules

Server   == [name : Names, enabled : BOOLEAN]
Policy   == [names : (SUBSET Names) \ {{}}, enabled : BOOLEAN]
Schedule == [policy : Policies \union {None}, names : (SUBSET Names) \ {{}}]

(* What a request holds after each of its steps.                           *)
Request ==
  [kind : {"server"}, asked : Servers \union {None}, id : Servers \union {None},
   row : Server]
  \union [kind : {"deleteServer"}, id : Servers, name : Names,
          left : SUBSET {"schedules", "policies"}]
  \union [kind : {"policy"}, id : Policies, new : BOOLEAN, row : Policy]
  \union [kind : {"deletePolicy"}, id : Policies]
  \union [kind : {"schedule"}, id : Schedules, new : BOOLEAN, row : Schedule,
          checked : BOOLEAN]
  \union [kind : {"trigger"}, id : Policies \union {None}, asked : SUBSET Names,
          names : SUBSET Names]
  \union [kind : {"execute"}, asked : SUBSET Names, names : SUBSET Names]

ASSUME InventoryAssumption ==
  /\ Configured \subseteq Names
  /\ MaxRequests \in Nat /\ MaxStops \in Nat
  /\ None \notin Ids \union Names \union Server \union Policy \union Schedule \union Request

VARIABLES
  servers, policies, schedules,  \* the tables
  used,      \* identifiers given out; they are not given out again
  req,
  listed,    \* the rows that the tick has listed and not yet handled
  begun, stops,
  \* history
  raced,     \* what overlapping requests were about, one of which may have
             \*   taken it away from the other
  renamed,   \* names that a server had before an update
  revived    \* what a tick named again after it was gone or while it went

tables == <<servers, policies, schedules, used>>
bounds == <<begun, stops>>
tick   == <<listed, revived>>
vars   == <<tables, req, bounds, tick, raced, renamed>>

Stored(table) == {x \in DOMAIN table : table[x] # None}
NamesIn(S)    == {servers[i].name : i \in S}
Enabled       == {i \in Stored(servers) : servers[i].enabled}
Available(N)  == N \subseteq NamesIn(Enabled)

Pending(kinds) == {r \in Requests : req[r] # None /\ req[r].kind \in kinds}

(* What a request in flight relies on or takes away.                       *)
About(r) ==
  CASE req[r].kind = "server"       -> {req[r].id, req[r].row.name}
    [] req[r].kind = "deleteServer" -> {req[r].id, req[r].name} \union
                                         NamesIn({req[r].id} \intersect Stored(servers))
    [] req[r].kind = "policy"       -> req[r].row.names
    [] req[r].kind = "schedule"     -> {req[r].row.policy} \union req[r].row.names
    [] OTHER                        -> {req[r].id}

(* Policies and schedules rely on the same names in peace.                 *)
Takers  == {"server", "deleteServer", "deletePolicy"}
Writers == Takers \union {"policy", "schedule"}

Overlaps ==
  {x \in Ids \union Names :
     \E q \in Pending(Takers), r \in Pending(Writers) :
       q # r /\ x \in About(q) \intersect About(r)}

(* What a row that the tick has listed names, the row in the table does    *)
(* not, and is gone, or is asked to be deleted: nobody looks for it again. *)
Revived(c) ==
  LET leaving == {x \in Ids \union Names :
                    \E r \in Pending({"deleteServer", "deletePolicy"}) : x \in About(r)}
      names   == listed[c].names \ schedules[c].names
      policy  == {listed[c].policy} \ {schedules[c].policy, None}
  IN  (names \ (NamesIn(Stored(servers)) \ leaving))
      \union (policy \ (Stored(policies) \ leaving))

Begin(r, what) ==
  /\ req[r] = None /\ begun < MaxRequests
  /\ req' = [req EXCEPT ![r] = what]
  /\ begun' = begun + 1
  /\ UNCHANGED <<tables, stops, tick, raced, renamed>>

Continue(r, what) ==
  /\ req' = [req EXCEPT ![r] = what]
  /\ UNCHANGED <<tables, bounds, tick, raced, renamed>>

(* The last step of a request that writes a table.                         *)
End(r) ==
  /\ req' = [req EXCEPT ![r] = None]
  /\ raced' = raced \union Overlaps
  /\ UNCHANGED <<bounds, tick>>

(* A start upserts the servers of the configuration file by their names:   *)
(* a row with one of them gets its configured content again, the others    *)
(* are inserted, under the identifiers new.                                *)
Seeded(table, new) ==
  [i \in Servers |->
     IF table[i] # None THEN [table[i] EXCEPT !.enabled = @ \/ table[i].name \in Configured]
     ELSE IF i \in Range(new) THEN [name |-> Inverse(new, DOMAIN new, Servers)[i],
                                    enabled |-> TRUE]
     ELSE None]

Init ==
  /\ \E new \in Injection(Configured, Servers) :
       /\ servers = Seeded([i \in Servers |-> None], new)
       /\ used = Range(new)
  /\ policies = [p \in Policies |-> None]
  /\ schedules = [c \in Schedules |-> None]
  /\ req = [r \in Requests |-> None]
  /\ listed = [c \in Schedules |-> None]
  /\ begun = 0 /\ stops = 0
  /\ raced = {} /\ renamed = {} /\ revived = {}

(* The requests and the tick in flight are lost.                           *)
Restart ==
  /\ stops < MaxStops
  /\ stops' = stops + 1
  /\ \E new \in Injection(Configured \ NamesIn(Stored(servers)), Servers \ used) :
       /\ servers' = Seeded(servers, new)
       /\ used' = used \union Range(new)
  /\ req' = [r \in Requests |-> None]
  /\ listed' = [c \in Schedules |-> None]
  /\ UNCHANGED <<policies, schedules, begun, raced, renamed, revived>>

-----------------------------------------------------------------------------
(* Servers.                                                                *)

CreateServerUnlisted(r) ==  \* a mutant: the servers are not listed
  \E row \in Server :
    Begin(r, [kind |-> "server", asked |-> None, id |-> None, row |-> row])

(* POST lists the servers and refuses a name that is taken.                *)
CreateServer(r) ==
  \E n \in Names, on \in BOOLEAN :
    /\ n \notin NamesIn(Stored(servers))
    /\ Begin(r, [kind |-> "server", asked |-> None, id |-> None,
                 row |-> [name |-> n, enabled |-> on]])

(* PUT reads the row.                                                      *)
UpdateServer(r) ==
  \E i \in Stored(servers), row \in Server :
    Begin(r, [kind |-> "server", asked |-> i, id |-> i, row |-> row])

(* UpsertServer looks for the name: a create takes the identifier of the   *)
(* server that has it, an update is refused when it is not the same one.   *)
FindByName(r) ==
  /\ r \in Pending({"server"})
  /\ \E i \in Stored(servers) :
       /\ servers[i].name = req[r].row.name
       /\ req[r].id = None
       /\ Continue(r, [req[r] EXCEPT !.id = i])

WriteServerTwice(r) ==  \* a mutant: names are not unique in the table
  /\ r \in Pending({"server"})
  /\ \E i \in IF req[r].id = None THEN Servers \ used ELSE {req[r].id} :
       /\ servers' = [servers EXCEPT ![i] = req[r].row]
       /\ used' = used \union {i}
       /\ renamed' = renamed \union NamesIn({i} \intersect Stored(servers))
  /\ End(r)
  /\ UNCHANGED <<policies, schedules>>

(* Then it inserts the row, or replaces the one with its identifier; names *)
(* are unique in the table.                                                *)
WriteServer(r) ==
  /\ r \in Pending({"server"})
  /\ LET row == req[r].row IN
     \E i \in IF req[r].id = None THEN Servers \ used ELSE {req[r].id} :
       /\ \A k \in Stored(servers) \ {i} : servers[k].name # row.name
       /\ servers' = [servers EXCEPT ![i] = row]
       /\ used' = used \union {i}
       /\ renamed' = renamed \union (NamesIn({i} \intersect Stored(servers)) \ {row.name})
  /\ End(r)
  /\ UNCHANGED <<policies, schedules>>

(* DELETE reads the row and looks for its name in all schedules, then in   *)
(* all policies.                                                           *)
DeleteServer(r) ==
  \E i \in Stored(servers) :
    Begin(r, [kind |-> "deleteServer", id |-> i, name |-> servers[i].name,
              left |-> {"schedules", "policies"}])

CheckPoliciesNot(r) ==  \* a mutant: only the schedules are looked at
  /\ r \in Pending({"deleteServer"})
  /\ req[r].left = {"policies"}
  /\ Continue(r, [req[r] EXCEPT !.left = {}])

CheckSchedules(r) ==
  /\ r \in Pending({"deleteServer"})
  /\ "schedules" \in req[r].left
  /\ \A c \in Stored(schedules) : req[r].name \notin schedules[c].names
  /\ Continue(r, [req[r] EXCEPT !.left = @ \ {"schedules"}])

CheckPolicies(r) ==
  /\ r \in Pending({"deleteServer"})
  /\ req[r].left = {"policies"}
  /\ \A p \in Stored(policies) : req[r].name \notin policies[p].names
  /\ Continue(r, [req[r] EXCEPT !.left = {}])

RemoveServer(r) ==
  /\ r \in Pending({"deleteServer"})
  /\ req[r].left = {}
  /\ req[r].id \in Stored(servers)
  /\ servers' = [servers EXCEPT ![req[r].id] = None]
  /\ End(r)
  /\ UNCHANGED <<policies, schedules, used, renamed>>

-----------------------------------------------------------------------------
(* Policies.                                                               *)

(* POST and PUT list the servers: each name has to be enabled.             *)
ChangePolicy(r) ==
  \E p \in Stored(policies) \union (Policies \ used), row \in Policy :
    /\ Available(row.names)
    /\ Begin(r, [kind |-> "policy", id |-> p, new |-> p \notin used, row |-> row])

(* CreatePolicy gives a new identifier; UpdatePolicy needs the row.        *)
WritePolicy(r) ==
  /\ r \in Pending({"policy"})
  /\ LET p == req[r].id IN
       /\ IF req[r].new THEN p \notin used ELSE p \in Stored(policies)
       /\ policies' = [policies EXCEPT ![p] = req[r].row]
       /\ used' = used \union {p}
  /\ End(r)
  /\ UNCHANGED <<servers, schedules, renamed>>

(* DELETE lists the schedules first.                                       *)
DeletePolicy(r) ==
  \E p \in Stored(policies) :
    /\ \A c \in Stored(schedules) : schedules[c].policy # p
    /\ Begin(r, [kind |-> "deletePolicy", id |-> p])

RemovePolicy(r) ==
  /\ r \in Pending({"deletePolicy"})
  /\ req[r].id \in Stored(policies)
  /\ policies' = [policies EXCEPT ![req[r].id] = None]
  /\ End(r)
  /\ UNCHANGED <<servers, schedules, used, renamed>>

-----------------------------------------------------------------------------
(* Schedules, as far as their targets go; Scheduler has the rest.          *)

(* With a policy, which has to be enabled, its names are copied.           *)
ChangeSchedule(r) ==
  \E c \in Stored(schedules) \union (Schedules \ used), row \in Schedule :
    /\ row.policy # None =>
         /\ row.policy \in Stored(policies) /\ policies[row.policy].enabled
         /\ row.names = policies[row.policy].names
    /\ Begin(r, [kind |-> "schedule", id |-> c, new |-> c \notin used, row |-> row,
                 checked |-> FALSE])

(* The servers are listed: each name has to be enabled.                    *)
CheckTargets(r) ==
  /\ r \in Pending({"schedule"})
  /\ ~req[r].checked
  /\ Available(req[r].row.names)
  /\ Continue(r, [req[r] EXCEPT !.checked = TRUE])

WriteSchedule(r) ==
  /\ r \in Pending({"schedule"})
  /\ req[r].checked
  /\ LET c == req[r].id IN
       /\ IF req[r].new THEN c \notin used ELSE c \in Stored(schedules)
       /\ schedules' = [schedules EXCEPT ![c] = req[r].row]
       /\ used' = used \union {c}
  /\ End(r)
  /\ UNCHANGED <<servers, policies, renamed>>

DeleteSchedule(c) ==
  /\ c \in Stored(schedules)
  /\ schedules' = [schedules EXCEPT ![c] = None]
  /\ UNCHANGED <<servers, policies, used, req, bounds, tick, raced, renamed>>

(* The tick lists the schedules, ...                                       *)
StartTick ==
  /\ Stored(listed) = {} /\ Stored(schedules) # {}
  /\ listed' = schedules
  /\ UNCHANGED <<tables, req, bounds, raced, renamed, revived>>

(* ... passes over those that are disabled, not due or without a next run, *)
(* and those whose write fails, as it does when the row is gone, ...       *)
PassOver(c) ==
  /\ c \in Stored(listed)
  /\ listed' = [listed EXCEPT ![c] = None]
  /\ UNCHANGED <<tables, req, bounds, raced, renamed, revived>>

(* ... and updates the others with all that it has listed of them.         *)
WriteBack(c) ==
  /\ c \in Stored(listed) /\ c \in Stored(schedules)
  /\ schedules' = [schedules EXCEPT ![c] = listed[c]]
  /\ revived' = revived \union Revived(c)
  /\ listed' = [listed EXCEPT ![c] = None]
  /\ UNCHANGED <<servers, policies, used, req, bounds, raced, renamed>>

-----------------------------------------------------------------------------
(* The selection of servers for an execution.                              *)

(* The names to look for: those of the policy that the trigger names too,  *)
(* all of them when it names none.                                         *)
Wanted(N, asked) == IF asked = {} THEN N ELSE N \intersect asked

(* A request, a retry or a schedule asks for a policy, for names of        *)
(* servers, for both or for neither; the policy is read and is enabled.    *)
TriggerExecution(r) ==
  \E p \in Policies \union {None}, asked \in SUBSET Names :
    /\ p # None => p \in Stored(policies) /\ policies[p].enabled
    /\ Begin(r, [kind |-> "trigger", id |-> p, asked |-> asked,
                 names |-> IF p = None THEN asked ELSE Wanted(policies[p].names, asked)])

(* selectServers lists the servers: without a name every enabled server is *)
(* selected; a name that is not there is passed over; none is an error.    *)
SelectServers(r) ==
  /\ r \in Pending({"trigger"})
  /\ LET found == {i \in Enabled : req[r].names = {} \/ servers[i].name \in req[r].names}
     IN  /\ found # {}
         /\ Continue(r, [kind |-> "execute", asked |-> req[r].asked,
                         names |-> NamesIn(found)])

(* A request that is refused or fails, or an execution that has started.   *)
Finish(r) ==
  /\ req[r] # None
  /\ Continue(r, None)

-----------------------------------------------------------------------------
Next ==
  \/ \E r \in Requests :
       \/ CreateServer(r) \/ UpdateServer(r) \/ FindByName(r) \/ WriteServer(r)
       \/ DeleteServer(r) \/ CheckSchedules(r) \/ CheckPolicies(r) \/ RemoveServer(r)
       \/ ChangePolicy(r) \/ WritePolicy(r) \/ DeletePolicy(r) \/ RemovePolicy(r)
       \/ ChangeSchedule(r) \/ CheckTargets(r) \/ WriteSchedule(r)
       \/ TriggerExecution(r) \/ SelectServers(r) \/ Finish(r)
  \/ \E c \in Schedules : DeleteSchedule(c) \/ PassOver(c) \/ WriteBack(c)
  \/ StartTick
  \/ Restart

Spec == Init /\ [][Next]_vars

-----------------------------------------------------------------------------
(* The types of the variables; no two servers have one name.               *)
TypeOK ==
  /\ servers \in [Servers -> Server \union {None}]
  /\ \A i, k \in Stored(servers) : servers[i].name = servers[k].name => i = k
  /\ policies \in [Policies -> Policy \union {None}]
  /\ schedules \in [Schedules -> Schedule \union {None}]
  /\ used \subseteq Ids
  /\ req \in [Requests -> Request \union {None}]
  /\ listed \in [Schedules -> Schedule \union {None}]
  /\ begun \in 0..MaxRequests /\ stops \in 0..MaxStops
  /\ raced \subseteq Ids \union Names
  /\ renamed \subseteq Names
  /\ revived \subseteq Names \union Policies

(* What policies and schedules name is there: a server is not deleted      *)
(* while one of them names it, nor a policy while a schedule does, and     *)
(* neither is named before it is there.  The exceptions: two requests      *)
(* about it overlapped; the server was renamed, which nobody checks; or a  *)
(* tick wrote back a row it had listed before an edit, and so named again  *)
(* what the edit had let go and a delete had taken away, or was about to.  *)
ReferencesResolve ==
  LET there == NamesIn(Stored(servers)) \union raced \union renamed \union revived IN
  /\ \A p \in Stored(policies) : policies[p].names \subseteq there
  /\ \A c \in Stored(schedules) :
       /\ schedules[c].names \subseteq there
       /\ schedules[c].policy \in Stored(policies) \union raced \union revived \union {None}

(* A request to create a server never replaces one, although the store     *)
(* upserts by name: while the process runs, a row is changed or deleted    *)
(* only by a request for it, unless the request overlapped one about the   *)
(* same name.                                                              *)
CreatesReplaceNothing ==
  [][\A i \in Stored(servers) :
       servers'[i] # servers[i] /\ stops' = stops /\ {i, servers[i].name} \intersect raced' = {}
         => \E r \in Pending({"server", "deleteServer"}) :
              /\ req'[r] = None
              /\ req[r].id = i
              /\ req[r].kind = "server" => req[r].asked = i]_vars

(* "no servers selected" (handler_backup.go:381) is the answer to a        *)
(* selection that comes out empty: an execution that is asked for with     *)
(* names of servers runs on these, or not at all.                          *)
SelectionIsAsAsked ==
  \A r \in Pending({"execute"}) : req[r].asked # {} => req[r].names \subseteq req[r].asked
=============================================================================
