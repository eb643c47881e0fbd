------------------------------ MODULE Scheduler ------------------------------
(***************************************************************************)
(* The scheduler of internal/scheduler/scheduler.go and the handlers of    *)
(* internal/api/handler_schedule.go that edit the same rows.  A tick works *)
(* on a listing of the table and writes whole rows back; so does an edit.  *)
(* Neither looks at what the other has written since it read, and the      *)
(* process may stop between starting an execution and recording it.        *)
(*                                                                         *)
(* A row keeps what the two disagree about: whether it is enabled, its     *)
(* expression (with the timezone), its misfire policy and its two times.   *)
(* The order of the listing is left open.  0 is the zero time.             *)
(***************************************************************************)
EXTENDS Naturals

CONSTANTS
  Schedules,       \* identifiers of schedules
  Editors,         \* requests that update a schedule
  Exprs,           \* expressions that parse
  NextRunAt(_, _), \* the first time after the given one, or 0 for an error
  Times,           \* the times that are told apart
  MaxTime,         \* bound: when the clock stops
  MaxEdits,        \* bound: updates that are begun
  MaxStops,        \* bound: stops of the process
  Poll,            \* pollEvery
  None             \* no row, no schedule, no request

ASSUME SchedulerAssumption ==
  /\ Times \subseteq Nat /\ 0..MaxTime \subseteq Times
  /\ MaxTime \in Nat \ {0} /\ MaxEdits \in Nat /\ MaxStops \in Nat /\ Poll \in Nat
  /\ \A x \in Exprs, t \in 0..MaxTime :
       NextRunAt(x, t) \in Times /\ (NextRunAt(x, t) = 0 \/ NextRunAt(x, t) > t)

Misfires == {"run_once", "skip"}

Row == [enabled : BOOLEAN, expr : Exprs, misfire : Misfires,
        last : Times, next : Times]

ASSUME NoneAssumption == None \notin Schedules /\ None \notin Row

VARIABLES
  clock,
  table,     \* the schedules table
  unused,    \* identifiers not given out yet
  tickAt,    \* the time the tick was given
  seen,      \* the rows of its listing
  todo,      \* the schedules of the listing that it has yet to handle
  current,   \* the schedule it has triggered and not yet recorded
  edit,      \* edit[p]: what request p is about to write
  edits, stops,
  \* history
  fired,     \* fired[s][d]: executions started for due time d, 2 for more
  wanted,    \* wanted[s]: the row that was last asked for
  raced,     \* schedules with overlapping read-modify-writes
  spoiled,   \* schedules that the runner failed to write, for a failure of
             \*   the store or a stop of the process
  exhausted  \* schedules that were due and had no next run

runner  == <<tickAt, seen, todo, current>>
request == <<edit, edits>>
history == <<fired, wanted, raced, spoiled, exhausted>>
vars    == <<clock, table, unused, runner, request, stops, history>>

Stored == {s \in Schedules : table[s] # None}

(* A row may be found without a next run: TestRunnerTick stores one, and   *)
(* the tick has a branch for it.                                           *)
Unplanned == {r \in Row : r.last = 0 /\ r.next = 0}

Init ==
  /\ clock = 1
  /\ \E S \in SUBSET Schedules, r \in Unplanned :
       /\ table = [s \in Schedules |-> IF s \in S THEN r ELSE None]
       /\ unused = Schedules \ S
  /\ tickAt = 0 /\ seen = table /\ todo = {} /\ current = None
  /\ edit = [p \in Editors |-> None]
  /\ edits = 0 /\ stops = 0
  /\ fired = [s \in Schedules |-> [d \in Times |-> 0]]
  /\ wanted = table
  /\ raced = {} /\ spoiled = {} /\ exhausted = {}

-----------------------------------------------------------------------------
(* One tick.                                                               *)

StartTickCached ==  \* a mutant: the listing is not read again
  /\ todo = {}
  /\ tickAt' = clock
  /\ seen' = IF \A s \in Schedules : seen[s] = None THEN table ELSE seen
  /\ todo' = {s \in Schedules : seen'[s] # None}
  /\ UNCHANGED <<clock, table, unused, current, request, stops, history>>

StartTickAll ==  \* a mutant: disabled schedules are handled too
  /\ todo = {}
  /\ tickAt' = clock
  /\ seen' = table
  /\ todo' = Stored
  /\ UNCHANGED <<clock, table, unused, current, request, stops, history>>

(* When ListSchedules fails the tick does nothing.  Rows that are not      *)
(* enabled in the listing are passed over.                                 *)
StartTick ==
  /\ todo = {}
  /\ tickAt' = clock
  /\ seen' = table
  /\ todo' = {s \in Stored : table[s].enabled}
  /\ UNCHANGED <<clock, table, unused, current, request, stops, history>>

Late(r) == r.misfire = "skip" /\ tickAt - r.next > Poll
Due(r)  == r.next # 0 /\ r.next <= tickAt

(* Edits of s that have read the row and not written it yet.               *)
Overlaps(s) == \E p \in Editors : edit[p] # None /\ edit[p].id = s

(* The runner's UpdateSchedule, which fails when the row is gone.          *)
WriteBack(s, row) ==
  /\ \/ /\ s \in Stored
        /\ table' = [table EXCEPT ![s] = row]
        /\ UNCHANGED spoiled
     \/ /\ spoiled' = spoiled \union {s}
        /\ UNCHANGED table
  /\ raced' = IF Overlaps(s) THEN raced \union {s} ELSE raced

Handling(s) == s \in todo /\ current = None

Wait(s) ==
  /\ Handling(s)
  /\ seen[s].next > tickAt
  /\ todo' = todo \ {s}
  /\ UNCHANGED <<clock, table, unused, tickAt, seen, current, request, stops,
                 history>>

ReplanNever(s) ==  \* a mutant: a late schedule is skipped and not planned
  /\ Handling(s)
  /\ seen[s].next = 0 \/ (Due(seen[s]) /\ Late(seen[s]))
  /\ todo' = todo \ {s}
  /\ UNCHANGED <<clock, table, unused, tickAt, seen, current, request, stops,
                 history>>

(* A row without a next run, or one that is skipped because it is late.    *)
(* When there is no next run either the row is left as it is.              *)
Replan(s) ==
  /\ Handling(s)
  /\ seen[s].next = 0 \/ (Due(seen[s]) /\ Late(seen[s]))
  /\ LET next == NextRunAt(seen[s].expr, tickAt)
     IN  \/ /\ next # 0
            /\ WriteBack(s, [seen[s] EXCEPT !.next = next])
            /\ UNCHANGED exhausted
         \/ /\ next = 0
            /\ exhausted' = exhausted \union {s}
            /\ UNCHANGED <<table, spoiled, raced>>
  /\ todo' = todo \ {s}
  /\ UNCHANGED <<clock, unused, tickAt, seen, current, request, stops, fired,
                 wanted>>

(* The trigger starts an execution (Execution: TriggerExecution) or fails; *)
(* the runner logs the error and goes on.                                  *)
Trigger(s) ==
  /\ Handling(s)
  /\ Due(seen[s]) /\ ~Late(seen[s])
  /\ \/ fired' = [fired EXCEPT ![s][seen[s].next] = IF @ = 2 THEN 2 ELSE @ + 1]
     \/ UNCHANGED fired
  /\ current' = s
  /\ UNCHANGED <<clock, table, unused, tickAt, seen, todo, request, stops,
                 wanted, raced, spoiled, exhausted>>

RecordLastOnly(s) ==  \* a mutant: the next run is not planned
  /\ current = s
  /\ WriteBack(s, [seen[s] EXCEPT !.last = tickAt])
  /\ current' = None /\ todo' = todo \ {s}
  /\ UNCHANGED <<clock, unused, tickAt, seen, request, stops, fired, wanted,
                 exhausted>>

RecordDue(s) ==  \* a mutant: the two times are swapped
  /\ current = s
  /\ WriteBack(s, [seen[s] EXCEPT !.last = NextRunAt(seen[s].expr, tickAt),
                                  !.next = tickAt])
  /\ current' = None /\ todo' = todo \ {s}
  /\ UNCHANGED <<clock, unused, tickAt, seen, request, stops, fired, wanted,
                 exhausted>>

RecordMerged(s) ==  \* a mutant: only the two times are written
  /\ current = s
  /\ LET next == NextRunAt(seen[s].expr, tickAt)
     IN  \/ /\ next # 0 /\ table[s] # None
            /\ WriteBack(s, [table[s] EXCEPT !.last = tickAt, !.next = next])
            /\ UNCHANGED exhausted
         \/ /\ next = 0
            /\ exhausted' = exhausted \union {s}
            /\ UNCHANGED <<table, spoiled, raced>>
  /\ current' = None /\ todo' = todo \ {s}
  /\ UNCHANGED <<clock, unused, tickAt, seen, request, stops, fired, wanted>>

(* After the trigger the row is written with both times; not at all when   *)
(* there is no next run.                                                   *)
Record(s) ==
  /\ current = s
  /\ LET next == NextRunAt(seen[s].expr, tickAt)
     IN  \/ /\ next # 0
            /\ WriteBack(s, [seen[s] EXCEPT !.last = tickAt, !.next = next])
            /\ UNCHANGED exhausted
         \/ /\ next = 0
            /\ exhausted' = exhausted \union {s}
            /\ UNCHANGED <<table, spoiled, raced>>
  /\ current' = None /\ todo' = todo \ {s}
  /\ UNCHANGED <<clock, unused, tickAt, seen, request, stops, fired, wanted>>

-----------------------------------------------------------------------------
(* The handlers.  buildScheduleRequest refuses an expression without a     *)
(* next run and plans every row it returns.                                *)

Create(s) ==
  /\ s \in unused
  /\ \E x \in Exprs, on \in BOOLEAN, m \in Misfires :
       /\ NextRunAt(x, clock) # 0
       /\ table' = [table EXCEPT ![s] =
            [enabled |-> on, expr |-> x, misfire |-> m, last |-> 0,
             next |-> NextRunAt(x, clock)]]
  /\ wanted' = [wanted EXCEPT ![s] = table'[s]]
  /\ unused' = unused \ {s}
  /\ UNCHANGED <<clock, runner, request, stops, fired, raced, spoiled, exhausted>>

(* PUT reads the row, applies the fields of the request and plans it.      *)
ReadRow(p, s) ==
  /\ edit[p] = None /\ edits < MaxEdits
  /\ s \in Stored
  /\ \E x \in Exprs, on \in BOOLEAN, m \in Misfires :
       /\ NextRunAt(x, clock) # 0
       /\ edit' = [edit EXCEPT ![p] = [id |-> s, row |->
            [enabled |-> on, expr |-> x, misfire |-> m, last |-> table[s].last,
             next |-> NextRunAt(x, clock)]]]
  /\ edits' = edits + 1
  /\ UNCHANGED <<clock, table, unused, runner, stops, history>>

(* The targets may be refused, the row be gone or the write fail.          *)
WriteRow(p) ==
  /\ edit[p] # None
  /\ LET s == edit[p].id
     IN  \/ /\ s \in Stored
            /\ table' = [table EXCEPT ![s] = edit[p].row]
            /\ wanted' = [wanted EXCEPT ![s] = edit[p].row]
            /\ raced' = IF s \in todo \/ \E q \in Editors \ {p} :
                                           edit[q] # None /\ edit[q].id = s
                        THEN raced \union {s} ELSE raced
         \/ UNCHANGED <<table, wanted, raced>>
  /\ edit' = [edit EXCEPT ![p] = None]
  /\ UNCHANGED <<clock, unused, runner, edits, stops, fired, spoiled, exhausted>>

(* DELETE; the identifier is not given out again.                          *)
Delete(s) ==
  /\ s \in Stored
  /\ table' = [table EXCEPT ![s] = None]
  /\ wanted' = [wanted EXCEPT ![s] = None]
  /\ raced' = IF s \in todo THEN raced \union {s} ELSE raced
  /\ UNCHANGED <<clock, unused, runner, request, stops, fired, spoiled, exhausted>>

-----------------------------------------------------------------------------
PassTime ==
  /\ clock < MaxTime
  /\ clock' = clock + 1
  /\ UNCHANGED <<table, unused, runner, request, stops, history>>

(* The process stops and is started again; the first tick comes at once.   *)
ProcessStop ==
  /\ stops < MaxStops
  /\ stops' = stops + 1
  /\ todo' = {} /\ current' = None
  /\ edit' = [p \in Editors |-> None]
  /\ spoiled' = IF current = None THEN spoiled ELSE spoiled \union {current}
  /\ UNCHANGED <<clock, table, unused, tickAt, seen, edits, fired, wanted,
                 raced, exhausted>>

Handle(s) == Wait(s) \/ Replan(s) \/ Trigger(s) \/ Record(s)

Next ==
  \/ StartTick
  \/ \E s \in Schedules : Handle(s) \/ Create(s) \/ Delete(s)
  \/ \E p \in Editors : WriteRow(p) \/ \E s \in Schedules : ReadRow(p, s)
  \/ PassTime \/ ProcessStop

Spec == Init /\ [][Next]_vars

(* The ticker keeps coming, and a tick handles every row of its listing.   *)
FairSpec ==
  /\ Spec
  /\ WF_vars(StartTick)
  /\ \A s \in Schedules : WF_vars(Handle(s))

-----------------------------------------------------------------------------
(* The types of the variables; a recorded run is never in the future.      *)
TypeOK ==
  /\ clock \in 1..MaxTime /\ tickAt \in 0..clock
  /\ table \in [Schedules -> Row \union {None}]
  /\ \A s \in Stored : table[s].last <= clock
  /\ seen \in [Schedules -> Row \union {None}]
  /\ wanted \in [Schedules -> Row \union {None}]
  /\ unused \subseteq Schedules /\ unused \intersect Stored = {}
  /\ \A s \in todo : s \in Schedules /\ seen[s] # None /\ seen[s].enabled
  /\ current \in todo \union {None}
  /\ edit \in [Editors -> [id : Schedules, row : Row] \union {None}]
  /\ edits \in 0..MaxEdits /\ stops \in 0..MaxStops
  /\ fired \in [Schedules -> [Times -> 0..2]]
  /\ raced \subseteq Schedules /\ spoiled \subseteq Schedules
  /\ exhausted \subseteq Schedules

(* An update that was answered stands: the ticks that follow it keep what  *)
(* it asked for, unless its read and write overlapped a tick that handled  *)
(* the row, or another update.                                             *)
LastEditStands ==
  \A s \in Stored \ raced :
    /\ table[s].enabled = wanted[s].enabled
    /\ table[s].expr = wanted[s].expr
    /\ table[s].misfire = wanted[s].misfire

(* A disabled or deleted schedule starts nothing, unless that happened     *)
(* while a tick that had listed it was under way.                          *)
DisabledStaysQuiet ==
  [][\A s \in Schedules \ raced :
       fired'[s] # fired[s] => s \in Stored /\ wanted[s].enabled]_vars

(* A due time starts one execution, however many ticks come while it is    *)
(* due, and across edits and restarts, unless the run could not be         *)
(* recorded, an edit overlapped, or the expression has no next run.        *)
FiresOncePerDue ==
  \A s \in Schedules \ (raced \union spoiled \union exhausted) :
    \A d \in Times : fired[s][d] <= 1

(* The run a row plans is one of its own expression's, however ticks and   *)
(* updates overlap: whoever writes one of the two writes the other.        *)
PlansItsOwn ==
  \A s \in Stored :
    table[s].next # 0 =>
      \E t \in 0 .. MaxTime : NextRunAt(table[s].expr, t) = table[s].next

(* "Schedule expressions support ... a cron subset" (README.md:164): a due *)
(* time of a supported expression starts one execution.                    *)
CronFiresOncePerDue ==
  \A s \in Schedules \ (raced \union spoiled) :
    \A d \in Times : fired[s][d] <= 1

(* An enabled schedule that is due does not stay due: it is run, or        *)
(* skipped as its misfire policy says, and planned again.                  *)
DueIsHandled ==
  \A s \in Schedules, d \in Times \ {0} :
    s \in Stored /\ d <= clock /\ table[s].enabled /\ table[s].next = d
      ~> \/ s \notin Stored \/ s \in spoiled \union exhausted
         \/ ~table[s].enabled \/ table[s].next # d
=============================================================================
