---------------------------- MODULE SchedulerProofs ----------------------------
(***************************************************************************)
(* Proofs about Scheduler, for any schedules, requests and expressions.    *)
(* That an edit stands follows from what a tick knows: the row it has      *)
(* listed and not yet handled is the one in the table (SeenIsStored),      *)
(* unless the schedule is marked as raced.  That a due time is run once    *)
(* follows from the order of time: all that has been fired for a schedule  *)
(* lies before the run that its row, or an edit of it, plans next.         *)
(*                                                                         *)
(* About Cron: the search returns the first minute that matches, or an     *)
(* error, so that it has what Scheduler assumes of its NextRunAt.          *)
(***************************************************************************)
EXTENDS Scheduler, Cron, WellFoundedInduction, TLAPS

Clean    == Schedules \ (raced \union spoiled \union exhausted)
Fired(s) == {d \in Times : fired[s][d] # 0}

(* A row that was recorded in the past, and plans a run of its own.        *)
Sane(r) ==
  /\ r.last <= clock
  /\ r.next # 0 => \E t \in 0 .. MaxTime : NextRunAt(r.expr, t) = r.next

RowsAreSane ==
  /\ \A s \in Schedules : table[s] # None => Sane(table[s])
  /\ \A s \in Schedules : seen[s] # None => Sane(seen[s])
  /\ \A p \in Editors : edit[p] # None => Sane(edit[p].row)

SeenIsStored == \A s \in todo \ raced : table[s] = seen[s]

UnusedIsNew == \A s \in unused : s \notin todo /\ Fired(s) = {}

FiredIsPast == \A s \in Schedules : \A d \in Fired(s) : d <= tickAt

NextIsNew ==
  \A s \in Clean : s \in Stored /\ s # current => \A d \in Fired(s) : d < table[s].next

EditIsNew ==
  \A p \in Editors : edit[p] # None /\ edit[p].id \in Clean /\ edit[p].id # current =>
    \A d \in Fired(edit[p].id) : d < edit[p].row.next

OnceInv == UnusedIsNew /\ FiredIsPast /\ NextIsNew /\ EditIsNew /\ FiresOncePerDue

IInv == TypeOK /\ RowsAreSane /\ SeenIsStored /\ LastEditStands /\ OnceInv

(* The part of TypeOK that is about the table.                             *)
TableOK ==
  /\ table \in [Schedules -> Row \union {None}]
  /\ \A s \in Stored : table[s].last <= clock
  /\ unused \intersect Stored = {}

EditType == [id : Schedules, row : Row]

-----------------------------------------------------------------------------
(* Facts about times and rows.                                             *)

(* The times up to the bound of the clock are natural numbers.             *)
LEMMA TimesAreNat ==
  /\ Times \subseteq Nat /\ MaxTime \in Nat \ {0} /\ 0 \in Times
  /\ MaxEdits \in Nat /\ MaxStops \in Nat
  /\ \A t \in 0 .. MaxTime : t \in Times /\ t \in Nat
BY SchedulerAssumption

(* What NextRunAt gives is a time, and one to come unless it is an error.  *)
LEMMA NextIsLater ==
  ASSUME NEW x \in Exprs, NEW t \in 0 .. MaxTime
  PROVE  NextRunAt(x, t) \in Times /\ (NextRunAt(x, t) # 0 => t < NextRunAt(x, t))
BY SchedulerAssumption

(* The tick was given a time, and not one to come.                         *)
LEMMA TickIsTime ==
  ASSUME TypeOK
  PROVE  /\ tickAt \in 0 .. MaxTime /\ clock \in 0 .. MaxTime /\ tickAt <= clock
         /\ tickAt \in Times
BY SchedulerAssumption DEF TypeOK

(* A schedule that is being handled has a row in the listing.              *)
LEMMA HandledIsSeen ==
  ASSUME TypeOK, NEW s \in todo
  PROVE  s \in Schedules /\ seen[s] \in Row /\ seen[s] # None /\ seen[s].enabled
BY DEF TypeOK

(* What Replan and Record do to the row: nothing, when there is no next    *)
(* run; or the row of the listing is written back with new times, unless   *)
(* the write fails.                                                        *)
WritesBack(s) ==
  \/ /\ exhausted' = exhausted \union {s}
     /\ UNCHANGED <<table, spoiled, raced>>
  \/ /\ exhausted' = exhausted
     /\ raced' = IF Overlaps(s) THEN raced \union {s} ELSE raced
     /\ \/ table' = table /\ spoiled' = spoiled \union {s}
        \/ /\ spoiled' = spoiled /\ s \in Stored
           /\ \E row \in Row :
                /\ table' = [table EXCEPT ![s] = row]
                /\ row.enabled = seen[s].enabled /\ row.expr = seen[s].expr
                /\ row.misfire = seen[s].misfire
                /\ row.last <= clock /\ row.next > tickAt
                /\ row.next = NextRunAt(row.expr, tickAt)

LEMMA ReplanWritesBack ==
  ASSUME TypeOK, RowsAreSane, NEW s \in Schedules, Replan(s)
  PROVE  s \in todo /\ WritesBack(s)
<1> DEFINE next == NextRunAt(seen[s].expr, tickAt)
           row  == [seen[s] EXCEPT !.next = next]
<1>1. s \in todo /\ seen[s] \in Row /\ seen[s] # None
  BY HandledIsSeen DEF Replan, Handling
<1>2. next \in Times /\ (next # 0 => tickAt < next)
  BY <1>1, NextIsLater, TickIsTime DEF Row
<1>3. /\ row \in Row /\ row.next = next /\ row.last = seen[s].last /\ row.expr = seen[s].expr
      /\ row.enabled = seen[s].enabled /\ row.misfire = seen[s].misfire
  BY <1>1, <1>2 DEF Row
<1>4. row.last <= clock
  BY <1>1, <1>3 DEF RowsAreSane, Sane
<1>5. CASE next = 0
  BY <1>1, <1>5 DEF Replan, WritesBack
<1>6. CASE next # 0
  <2>1. WriteBack(s, row) /\ UNCHANGED exhausted
    BY <1>6 DEF Replan
  <2>2. row.next = NextRunAt(row.expr, tickAt) /\ row.next > tickAt
    BY <1>2, <1>3, <1>6
  <2> QED BY ONLY <1>1, <1>3, <1>4, <2>1, <2>2 DEF WriteBack, WritesBack
<1> QED BY <1>5, <1>6

LEMMA RecordWritesBack ==
  ASSUME TypeOK, NEW s \in Schedules, Record(s)
  PROVE  s \in todo /\ WritesBack(s)
<1> DEFINE next == NextRunAt(seen[s].expr, tickAt)
           row  == [seen[s] EXCEPT !.last = tickAt, !.next = next]
<1>1. s \in todo /\ seen[s] \in Row /\ seen[s] # None
  <2>1. s \in todo
    BY NoneAssumption DEF Record, TypeOK
  <2> QED BY <2>1, HandledIsSeen
<1>2. next \in Times /\ (next # 0 => tickAt < next)
  BY <1>1, NextIsLater, TickIsTime DEF Row
<1>3. /\ row \in Row /\ row.next = next /\ row.last = tickAt /\ row.expr = seen[s].expr
      /\ row.enabled = seen[s].enabled /\ row.misfire = seen[s].misfire
  BY <1>1, <1>2, TickIsTime DEF Row
<1>4. row.last <= clock
  BY <1>3, TickIsTime
<1>5. CASE next = 0
  BY <1>1, <1>5 DEF Record, WritesBack
<1>6. CASE next # 0
  <2>1. WriteBack(s, row) /\ UNCHANGED exhausted
    BY <1>6 DEF Record
  <2>2. row.next = NextRunAt(row.expr, tickAt) /\ row.next > tickAt
    BY <1>2, <1>3, <1>6
  <2> QED BY ONLY <1>1, <1>3, <1>4, <2>1, <2>2 DEF WriteBack, WritesBack
<1> QED BY <1>5, <1>6
-----------------------------------------------------------------------------
(* The invariant holds at first.                                           *)

LEMMA InitIInv == Init => IInv
<1> SUFFICES ASSUME Init PROVE IInv
  OBVIOUS
<1>1. PICK S \in SUBSET Schedules, r \in Unplanned :
        /\ table = [s \in Schedules |-> IF s \in S THEN r ELSE None]
        /\ unused = Schedules \ S
  BY DEF Init
<1>2. r \in Row /\ r.last = 0 /\ r.next = 0
  BY DEF Unplanned
<1>3. \A s \in Schedules : Fired(s) = {}
  BY DEF Init, Fired
<1>4. TypeOK
  <2>1. table \in [Schedules -> Row \union {None}] /\ unused \intersect Stored = {}
    BY <1>1, <1>2 DEF Stored
  <2>2. \A s \in Stored : table[s].last = 0
    BY <1>1, <1>2 DEF Stored
  <2>3. clock \in 1 .. MaxTime /\ tickAt \in 0 .. clock /\ edits \in 0 .. MaxEdits
        /\ stops \in 0 .. MaxStops /\ \A s \in Stored : table[s].last <= clock
    <3>1. clock = 1 /\ tickAt = 0 /\ edits = 0 /\ stops = 0
      BY DEF Init
    <3> QED BY ONLY <2>2, <3>1, TimesAreNat
  <2>4. fired \in [Schedules -> [Times -> 0 .. 2]]
    BY DEF Init
  <2> QED BY ONLY Init, <1>1, <2>1, <2>3, <2>4 DEF Init, TypeOK
<1>5. RowsAreSane
  BY <1>1, <1>2, NoneAssumption DEF Init, RowsAreSane, Sane
<1>6. SeenIsStored /\ LastEditStands
  BY DEF Init, SeenIsStored, LastEditStands
<1>7. OnceInv
  BY <1>1, <1>3, TimesAreNat DEF Init, OnceInv, UnusedIsNew, FiredIsPast, NextIsNew,
     EditIsNew, FiresOncePerDue, Clean
<1> QED BY <1>4, <1>5, <1>6, <1>7 DEF IInv

-----------------------------------------------------------------------------
(* The invariant is kept.                                                  *)

LEMMA NextTypeOK == IInv /\ [Next]_vars => TypeOK'
<1> SUFFICES ASSUME IInv, [Next]_vars PROVE TypeOK'
  OBVIOUS
<1>a. TypeOK /\ RowsAreSane
  BY DEF IInv
<1> USE <1>a, SchedulerAssumption, NoneAssumption
<1>1. CASE StartTick
  BY <1>1 DEF StartTick, TypeOK, Stored, request, history
<1>2. ASSUME NEW s \in Schedules, Wait(s) PROVE TypeOK'
  BY <1>2 DEF Wait, Handling, TypeOK, Stored, request, history
<1>3. ASSUME NEW s \in Schedules, Replan(s) PROVE TypeOK'
  <2>1. s \in todo /\ WritesBack(s)
    BY <1>3, ReplanWritesBack
  <2>2. /\ todo' = todo \ {s} /\ current = None
        /\ UNCHANGED <<clock, unused, tickAt, seen, current, edit, edits, stops, fired,
                       wanted>>
    BY <1>3 DEF Replan, Handling, request
  <2>3. TableOK'
    <3>1. CASE table' = table
      BY ONLY TypeOK, <2>2, <3>1 DEF TypeOK, TableOK, Stored
    <3>2. ASSUME NEW row \in Row, table' = [table EXCEPT ![s] = row], s \in Stored,
                 row.last <= clock
          PROVE  TableOK'
      BY ONLY TypeOK, <2>2, <3>2, NoneAssumption DEF TypeOK, TableOK, Stored
    <3> QED BY ONLY <2>1, <3>1, <3>2 DEF WritesBack
  <2>4. raced' \subseteq Schedules /\ spoiled' \subseteq Schedules
        /\ exhausted' \subseteq Schedules
    BY ONLY TypeOK, <2>1 DEF WritesBack, TypeOK
  <2> QED BY ONLY TypeOK, <2>1, <2>2, <2>3, <2>4, NoneAssumption DEF TypeOK, TableOK
<1>4. ASSUME NEW s \in Schedules, Trigger(s) PROVE TypeOK'
  <2>1. s \in todo /\ seen[s].next \in Times
    BY <1>4, HandledIsSeen DEF Trigger, Handling, Row
  <2>2. fired' \in [Schedules -> [Times -> 0 .. 2]]
    BY <1>4, <2>1 DEF Trigger, TypeOK
  <2> QED BY <1>4, <2>1, <2>2 DEF Trigger, TypeOK, Stored, request
<1>5. ASSUME NEW s \in Schedules, Record(s) PROVE TypeOK'
  <2>1. s \in todo /\ WritesBack(s)
    BY <1>5, RecordWritesBack
  <2>2. /\ todo' = todo \ {s} /\ current' = None
        /\ UNCHANGED <<clock, unused, tickAt, seen, edit, edits, stops, fired, wanted>>
    BY <1>5 DEF Record, request
  <2>3. TableOK'
    <3>1. CASE table' = table
      BY ONLY TypeOK, <2>2, <3>1 DEF TypeOK, TableOK, Stored
    <3>2. ASSUME NEW row \in Row, table' = [table EXCEPT ![s] = row], s \in Stored,
                 row.last <= clock
          PROVE  TableOK'
      BY ONLY TypeOK, <2>2, <3>2, NoneAssumption DEF TypeOK, TableOK, Stored
    <3> QED BY ONLY <2>1, <3>1, <3>2 DEF WritesBack
  <2>4. raced' \subseteq Schedules /\ spoiled' \subseteq Schedules
        /\ exhausted' \subseteq Schedules
    BY ONLY TypeOK, <2>1 DEF WritesBack, TypeOK
  <2> QED BY ONLY TypeOK, <2>1, <2>2, <2>3, <2>4, NoneAssumption DEF TypeOK, TableOK
<1>6. ASSUME NEW s \in Schedules, Create(s) PROVE TypeOK'
  <2>1. PICK x \in Exprs, on \in BOOLEAN, m \in Misfires :
          table' = [table EXCEPT ![s] =
            [enabled |-> on, expr |-> x, misfire |-> m, last |-> 0,
             next |-> NextRunAt(x, clock)]]
    BY <1>6 DEF Create
  <2>2. table'[s] \in Row /\ table'[s].last = 0
    BY <2>1, NextIsLater, TickIsTime, TimesAreNat DEF Row, TypeOK
  <2> QED BY <1>6, <2>1, <2>2 DEF Create, TypeOK, Stored, runner, request
<1>7. ASSUME NEW s \in Schedules, Delete(s) PROVE TypeOK'
  BY <1>7 DEF Delete, TypeOK, Stored, runner, request
<1>8. ASSUME NEW p \in Editors, WriteRow(p) PROVE TypeOK'
  <2>1. edit[p] \in EditType /\ edit[p].row.last <= clock
    BY <1>8 DEF WriteRow, TypeOK, EditType, RowsAreSane, Sane
  <2>2. raced' \subseteq Schedules
    BY <1>8, <2>1 DEF WriteRow, TypeOK, EditType
  <2>3. /\ table' \in [Schedules -> Row \union {None}]
        /\ wanted' \in [Schedules -> Row \union {None}]
        /\ \A s \in Stored' : s \in Stored /\ table'[s].last <= clock
    BY <1>8, <2>1 DEF WriteRow, TypeOK, EditType, Stored
  <2>4. edit' \in [Editors -> EditType \union {None}]
    BY <1>8 DEF WriteRow, TypeOK, EditType
  <2> QED BY <1>8, <2>2, <2>3, <2>4 DEF WriteRow, TypeOK, EditType, runner
<1>9. ASSUME NEW p \in Editors, NEW s \in Schedules, ReadRow(p, s) PROVE TypeOK'
  <2>1. PICK x \in Exprs, on \in BOOLEAN, m \in Misfires :
          edit' = [edit EXCEPT ![p] = [id |-> s, row |->
            [enabled |-> on, expr |-> x, misfire |-> m, last |-> table[s].last,
             next |-> NextRunAt(x, clock)]]]
    BY <1>9 DEF ReadRow
  <2>2. table[s] \in Row
    BY <1>9 DEF ReadRow, Stored, TypeOK
  <2>3. edit'[p] \in EditType
    BY <2>1, <2>2, NextIsLater, TickIsTime DEF Row, TypeOK, EditType
  <2>4. edit' \in [Editors -> EditType \union {None}]
    BY <2>1, <2>3 DEF TypeOK, EditType
  <2> QED BY <1>9, <2>4 DEF ReadRow, TypeOK, EditType, Stored, runner, history
<1>10. CASE PassTime
  <2>1. \A s \in Stored : table[s].last \in Nat
    BY TimesAreNat DEF TypeOK, Stored, Row
  <2>2. clock' \in 1 .. MaxTime /\ tickAt \in 0 .. clock'
    BY <1>10 DEF PassTime, TypeOK
  <2>3. Stored' = Stored /\ \A s \in Stored : table[s].last <= clock'
    BY <1>10, <2>1 DEF PassTime, TypeOK, Stored
  <2> QED BY <1>10, <2>2, <2>3 DEF PassTime, TypeOK, runner, request, history
<1>11. CASE ProcessStop
  BY <1>11 DEF ProcessStop, TypeOK, Stored
<1>12. CASE UNCHANGED vars
  BY <1>12 DEF vars, TypeOK, Stored, runner, request, history
<1> QED BY <1>1, <1>2, <1>3, <1>4, <1>5, <1>6, <1>7, <1>8, <1>9, <1>10, <1>11, <1>12
     DEF Next, Handle
LEMMA NextRowsAreSane == IInv /\ [Next]_vars => RowsAreSane'
<1> SUFFICES ASSUME IInv, [Next]_vars PROVE RowsAreSane'
  OBVIOUS
<1>a. TypeOK /\ RowsAreSane
  BY DEF IInv
<1> USE <1>a, NoneAssumption
<1>1. CASE StartTick
  BY <1>1 DEF StartTick, RowsAreSane, Sane, request, history
<1>2. ASSUME NEW s \in Schedules, Wait(s) PROVE RowsAreSane'
  BY <1>2 DEF Wait, RowsAreSane, Sane, request, history
<1>3. ASSUME NEW s \in Schedules, WritesBack(s), s \in todo,
             UNCHANGED <<clock, seen, edit>>
      PROVE  RowsAreSane'
  <2>1. CASE table' = table
    BY <1>3, <2>1 DEF RowsAreSane, Sane
  <2>2. ASSUME NEW row \in Row,
               table' = [table EXCEPT ![s] = row],
               row.last <= clock, row.next = NextRunAt(row.expr, tickAt)
        PROVE  RowsAreSane'
    <3>1. Sane(row)
      BY <2>2, TickIsTime DEF Sane
    <3> QED BY <1>3, <2>2, <3>1 DEF RowsAreSane, Sane, TypeOK
  <2> QED BY <1>3, <2>1, <2>2 DEF WritesBack
<1>4. ASSUME NEW s \in Schedules, Trigger(s) PROVE RowsAreSane'
  BY <1>4 DEF Trigger, RowsAreSane, Sane, request
<1>6. ASSUME NEW s \in Schedules, Create(s) PROVE RowsAreSane'
  <2>1. PICK x \in Exprs, on \in BOOLEAN, m \in Misfires :
          table' = [table EXCEPT ![s] =
            [enabled |-> on, expr |-> x, misfire |-> m, last |-> 0,
             next |-> NextRunAt(x, clock)]]
    BY <1>6 DEF Create
  <2>2. Sane(table'[s])
    BY <2>1, TickIsTime, TimesAreNat DEF Sane, TypeOK
  <2> QED BY <1>6, <2>1, <2>2 DEF Create, RowsAreSane, Sane, TypeOK, runner, request
<1>7. ASSUME NEW s \in Schedules, Delete(s) PROVE RowsAreSane'
  BY <1>7 DEF Delete, RowsAreSane, Sane, TypeOK, runner, request
<1>8. ASSUME NEW p \in Editors, WriteRow(p) PROVE RowsAreSane'
  <2>1. Sane(edit[p].row)
    BY <1>8 DEF WriteRow, RowsAreSane
  <2>2. \A s \in Schedules : table'[s] # None => table'[s] = table[s] \/ table'[s] = edit[p].row
    BY <1>8 DEF WriteRow, TypeOK
  <2>3. \A q \in Editors : edit'[q] # None => edit'[q] = edit[q] /\ edit[q] # None
    BY <1>8 DEF WriteRow, TypeOK
  <2>4. clock' = clock /\ seen' = seen
    BY <1>8 DEF WriteRow, runner
  <2> QED BY ONLY RowsAreSane, <1>8, <2>1, <2>2, <2>3, <2>4 DEF RowsAreSane, Sane
<1>9. ASSUME NEW p \in Editors, NEW s \in Schedules, ReadRow(p, s) PROVE RowsAreSane'
  <2>1. PICK x \in Exprs, on \in BOOLEAN, m \in Misfires :
          edit' = [edit EXCEPT ![p] = [id |-> s, row |->
            [enabled |-> on, expr |-> x, misfire |-> m, last |-> table[s].last,
             next |-> NextRunAt(x, clock)]]]
    BY <1>9 DEF ReadRow
  <2>2. Sane(edit'[p].row)
    BY <1>9, <2>1, TickIsTime DEF ReadRow, Stored, RowsAreSane, Sane, TypeOK
  <2> QED BY <1>9, <2>1, <2>2 DEF ReadRow, RowsAreSane, Sane, TypeOK, runner, history
<1>10. CASE PassTime
  <2>1. ASSUME NEW r \in Row, Sane(r) PROVE r.last <= clock + 1
    <3>1. r.last \in Times /\ clock \in Nat
      BY TickIsTime DEF Row
    <3>2. r.last <= clock
      BY <2>1 DEF Sane
    <3>3. r.last \in Nat
      BY ONLY <3>1, TimesAreNat
    <3> QED BY ONLY <3>1, <3>2, <3>3, SMT
  <2> QED BY <1>10, <2>1 DEF PassTime, RowsAreSane, Sane, TypeOK, runner, request, history
<1>11. CASE ProcessStop
  BY <1>11 DEF ProcessStop, RowsAreSane, Sane
<1>12. CASE UNCHANGED vars
  BY <1>12 DEF vars, RowsAreSane, Sane, runner, request, history
<1>13. ASSUME NEW s \in Schedules, Replan(s) PROVE RowsAreSane'
  BY <1>3, <1>13, ReplanWritesBack DEF Replan, request
<1>14. ASSUME NEW s \in Schedules, Record(s) PROVE RowsAreSane'
  BY <1>3, <1>14, RecordWritesBack DEF Record, request
<1> QED BY <1>1, <1>2, <1>4, <1>6, <1>7, <1>8, <1>9, <1>10, <1>11, <1>12, <1>13, <1>14
     DEF Next, Handle
(* The row a tick has yet to handle changes only with the schedule marked. *)
LEMMA NextSeenIsStored == IInv /\ [Next]_vars => SeenIsStored'
<1> SUFFICES ASSUME IInv, [Next]_vars PROVE SeenIsStored'
  OBVIOUS
<1>a. TypeOK /\ RowsAreSane /\ SeenIsStored
  BY DEF IInv
<1>b. UnusedIsNew
  BY DEF IInv, OnceInv
<1> USE <1>a DEF SeenIsStored
<1>1. CASE StartTick
  BY <1>1 DEF StartTick, Stored, request, history
<1>2. ASSUME NEW s \in Schedules, Wait(s) PROVE SeenIsStored'
  BY <1>2 DEF Wait, history
<1>3. ASSUME NEW s \in Schedules, WritesBack(s), todo' = todo \ {s}, seen' = seen
      PROVE  SeenIsStored'
  <2>1. \A z \in Schedules \ {s} : table'[z] = table[z]
    BY <1>3 DEF WritesBack, TypeOK
  <2>2. raced \subseteq raced'
    BY <1>3 DEF WritesBack
  <2> QED BY <1>3, <2>1, <2>2 DEF TypeOK
<1>4. ASSUME NEW s \in Schedules, Trigger(s) PROVE SeenIsStored'
  BY <1>4 DEF Trigger
<1>5. ASSUME NEW s \in Schedules, Create(s) PROVE SeenIsStored'
  <2>1. s \notin todo
    BY <1>5, <1>b DEF Create, UnusedIsNew
  <2>2. \A z \in Schedules \ {s} : table'[z] = table[z]
    BY <1>5 DEF Create, TypeOK
  <2> QED BY <1>5, <2>1, <2>2 DEF Create, TypeOK, runner
<1>6. ASSUME NEW s \in Schedules, Delete(s) PROVE SeenIsStored'
  BY <1>6 DEF Delete, TypeOK, runner
<1>7. ASSUME NEW p \in Editors, WriteRow(p) PROVE SeenIsStored'
  <2>1. \A z \in Schedules \ {edit[p].id} : table'[z] = table[z]
    BY <1>7 DEF WriteRow, TypeOK
  <2>2. raced \subseteq raced'
    BY <1>7 DEF WriteRow
  <2>3. edit[p].id \in todo => table' = table \/ edit[p].id \in raced'
    BY <1>7 DEF WriteRow
  <2> QED BY <1>7, <2>1, <2>2, <2>3 DEF WriteRow, TypeOK, runner
<1>8. ASSUME NEW p \in Editors, NEW s \in Schedules, ReadRow(p, s) PROVE SeenIsStored'
  BY <1>8 DEF ReadRow, runner, history
<1>9. CASE PassTime
  BY <1>9 DEF PassTime, runner, history
<1>10. CASE ProcessStop
  BY <1>10 DEF ProcessStop
<1>11. CASE UNCHANGED vars
  BY <1>11 DEF vars, runner, history
<1>12. ASSUME NEW s \in Schedules, Replan(s) PROVE SeenIsStored'
  BY <1>3, <1>12, ReplanWritesBack DEF Replan
<1>13. ASSUME NEW s \in Schedules, Record(s) PROVE SeenIsStored'
  BY <1>3, <1>13, RecordWritesBack DEF Record
<1> QED BY <1>1, <1>2, <1>4, <1>5, <1>6, <1>7, <1>8, <1>9, <1>10, <1>11, <1>12, <1>13
     DEF Next, Handle

(* Whoever writes a row that is not marked writes the settings asked for   *)
(* last.                                                                   *)
LEMMA NextLastEditStands == IInv /\ [Next]_vars => LastEditStands'
<1> SUFFICES ASSUME IInv, [Next]_vars PROVE LastEditStands'
  OBVIOUS
<1>a. TypeOK /\ RowsAreSane /\ SeenIsStored /\ LastEditStands
  BY DEF IInv
<1> USE <1>a DEF LastEditStands
<1>1. ASSUME UNCHANGED <<table, wanted, raced>> PROVE LastEditStands'
  BY <1>1 DEF Stored
<1>2. ASSUME NEW s \in Schedules, WritesBack(s), s \in todo, wanted' = wanted
      PROVE  LastEditStands'
  <2> SUFFICES ASSUME NEW z \in Stored' \ raced'
               PROVE  /\ table'[z].enabled = wanted[z].enabled
                      /\ table'[z].expr = wanted[z].expr
                      /\ table'[z].misfire = wanted[z].misfire
    BY <1>2
  <2>1. z \in Schedules \ raced
    BY <1>2 DEF WritesBack, Stored
  <2>2. CASE table'[z] = table[z]
    BY <2>1, <2>2 DEF Stored
  <2>3. CASE table'[z] # table[z]
    <3>1. z = s /\ s \in Stored
      BY <1>2, <2>3, <2>1 DEF WritesBack, TypeOK
    <3>2. /\ table'[s].enabled = seen[s].enabled /\ table'[s].expr = seen[s].expr
          /\ table'[s].misfire = seen[s].misfire
      BY <1>2, <2>3, <3>1 DEF WritesBack, TypeOK
    <3>3. table[s] = seen[s]
      BY <1>2, <2>1, <3>1 DEF SeenIsStored
    <3> QED BY <2>1, <3>1, <3>2, <3>3
  <2> QED BY <2>2, <2>3
<1>3. ASSUME NEW s \in Schedules, Create(s) PROVE LastEditStands'
  BY <1>3 DEF Create, TypeOK, Stored
<1>4. ASSUME NEW s \in Schedules, Delete(s) PROVE LastEditStands'
  BY <1>4 DEF Delete, TypeOK, Stored
<1>5. ASSUME NEW p \in Editors, WriteRow(p) PROVE LastEditStands'
  <2>1. \/ UNCHANGED <<table, wanted, raced>>
        \/ /\ table' = [table EXCEPT ![edit[p].id] = edit[p].row]
           /\ wanted' = [wanted EXCEPT ![edit[p].id] = edit[p].row]
           /\ raced \subseteq raced'
    BY <1>5 DEF WriteRow
  <2> QED BY <1>1, <2>1 DEF TypeOK, Stored
<1>6. CASE StartTick \/ PassTime \/ UNCHANGED vars
  BY <1>1, <1>6 DEF StartTick, PassTime, vars, history
<1>7. CASE ProcessStop
  BY <1>1, <1>7 DEF ProcessStop
<1>8. ASSUME NEW s \in Schedules, Wait(s) \/ Trigger(s) PROVE LastEditStands'
  BY <1>1, <1>8 DEF Wait, Trigger, history
<1>9. ASSUME NEW p \in Editors, NEW s \in Schedules, ReadRow(p, s) PROVE LastEditStands'
  BY <1>1, <1>9 DEF ReadRow, history
<1>10. ASSUME NEW s \in Schedules, Replan(s) PROVE LastEditStands'
  BY <1>2, <1>10, ReplanWritesBack DEF Replan
<1>11. ASSUME NEW s \in Schedules, Record(s) PROVE LastEditStands'
  BY <1>2, <1>11, RecordWritesBack DEF Record
<1> QED BY <1>3, <1>4, <1>5, <1>6, <1>7, <1>8, <1>9, <1>10, <1>11 DEF Next, Handle
(* Marks are never taken back, and a schedule that was written to once too *)
(* often is not clean.                                                     *)
LEMMA CleanShrinks ==
  ASSUME [Next]_vars
  PROVE  Clean' \subseteq Clean
<1>1. raced \subseteq raced' /\ spoiled \subseteq spoiled' /\ exhausted \subseteq exhausted'
  BY DEF Next, vars, history, Handle, StartTick, Wait, Replan, Trigger, Record, Create,
     Delete, WriteRow, ReadRow, PassTime, ProcessStop, WriteBack
<1> QED BY <1>1 DEF Clean

(* When nothing is fired, what has been fired is still in the past and     *)
(* fired once; an identifier is given out and listed only after that.      *)
LEMMA PastStays ==
  ASSUME TypeOK, OnceInv, Clean' \subseteq Clean, fired' = fired, tickAt' \in Nat,
         tickAt <= tickAt', unused' \subseteq unused, unused' \intersect todo' = {}
  PROVE  UnusedIsNew' /\ FiredIsPast' /\ FiresOncePerDue'
<1>1. \A s : Fired(s)' = Fired(s)
  BY DEF Fired
<1>2. UnusedIsNew'
  BY <1>1 DEF OnceInv, UnusedIsNew
<1>3. FiredIsPast'
  <2> SUFFICES ASSUME NEW s \in Schedules, NEW d \in Fired(s) PROVE d <= tickAt'
    BY <1>1 DEF FiredIsPast
  <2>1. d <= tickAt
    BY DEF OnceInv, FiredIsPast
  <2>2. d \in Nat /\ tickAt \in Nat
    BY TimesAreNat, TickIsTime DEF Fired
  <2> QED BY ONLY <2>1, <2>2, tickAt <= tickAt', tickAt' \in Nat
<1>4. FiresOncePerDue'
  BY DEF OnceInv, FiresOncePerDue, Clean
<1> QED BY <1>2, <1>3, <1>4

(* A run that is planned after a tick is new.                              *)
LEMMA LaterIsNew ==
  ASSUME TypeOK, FiredIsPast, NEW s \in Schedules, NEW t \in 0 .. MaxTime, tickAt <= t,
         NEW n \in Times, t < n
  PROVE  \A d \in Fired(s) : d < n
<1> SUFFICES ASSUME NEW d \in Fired(s) PROVE d < n
  OBVIOUS
<1>1. d <= tickAt
  BY DEF FiredIsPast
<1>2. d \in Nat /\ tickAt \in Nat /\ n \in Nat /\ t \in Nat
  BY TimesAreNat, TickIsTime DEF Fired
<1> QED BY ONLY <1>1, <1>2, tickAt <= t, t < n

LEMMA NextOnceInv == IInv /\ [Next]_vars => OnceInv'
<1> SUFFICES ASSUME IInv, [Next]_vars PROVE OnceInv'
  OBVIOUS
<1>a. TypeOK /\ RowsAreSane /\ SeenIsStored /\ OnceInv /\ Clean' \subseteq Clean
  BY CleanShrinks DEF IInv
<1>b. UnusedIsNew /\ FiredIsPast /\ NextIsNew /\ EditIsNew /\ FiresOncePerDue
  BY <1>a DEF OnceInv
<1>c. tickAt \in Nat /\ clock \in Nat /\ tickAt <= clock /\ tickAt \in 0 .. MaxTime
      /\ clock \in 0 .. MaxTime
  BY <1>a, TickIsTime, TimesAreNat
<1>d. unused \intersect todo = {}
  BY <1>b DEF UnusedIsNew
<1>e. ASSUME fired' = fired PROVE \A s : Fired(s)' = Fired(s)
  BY <1>e DEF Fired
<1>f. current \notin Schedules => current = None
  BY <1>a DEF TypeOK
(* Nothing but the marks and the tick's own state changes.                 *)
<1>1. ASSUME UNCHANGED <<fired, table, edit, current>>, tickAt' \in Nat, tickAt <= tickAt',
             unused' \subseteq unused, unused' \intersect todo' = {}
      PROVE  OnceInv'
  <2>1. UnusedIsNew' /\ FiredIsPast' /\ FiresOncePerDue'
    BY <1>1, <1>a, PastStays
  <2>2. NextIsNew' /\ EditIsNew'
    BY <1>1, <1>a, <1>b, <1>e DEF NextIsNew, EditIsNew, Stored
  <2> QED BY <2>1, <2>2 DEF OnceInv
<1>2. CASE StartTick
  <2>1. tickAt' = clock /\ unused' = unused /\ todo' \subseteq Stored
    BY <1>2 DEF StartTick
  <2>2. unused' \intersect todo' = {}
    BY <2>1, <1>a DEF TypeOK
  <2> QED BY <1>1, <1>2, <1>c, <2>1, <2>2 DEF StartTick, request, history
<1>3. ASSUME NEW s \in Schedules, Wait(s) PROVE OnceInv'
  BY <1>1, <1>3, <1>c, <1>d DEF Wait, request, history
(* A handled row plans a run that is new, or is marked.                    *)
<1>4. ASSUME NEW s \in Schedules, WritesBack(s), s \in todo, todo' = todo \ {s},
             current = s \/ current = None, current' = None,
             UNCHANGED <<fired, edit, tickAt, unused>>
      PROVE  OnceInv'
  <2>1. UnusedIsNew' /\ FiredIsPast' /\ FiresOncePerDue'
    BY <1>4, <1>a, <1>c, <1>d, PastStays
  <2>2. NextIsNew'
    <3> SUFFICES ASSUME NEW z \in Clean', z \in Stored', NEW d \in Fired(z)
                 PROVE  d < table'[z].next
      BY <1>4, <1>e DEF NextIsNew
    <3>1. z \in Clean /\ z \in Schedules
      BY <1>a DEF Clean
    <3>2. CASE z = s
      <4>1. PICK row \in Row : /\ table' = [table EXCEPT ![s] = row]
                               /\ row.next > tickAt
                               /\ s \in Stored
        BY <1>4, <3>2 DEF WritesBack, Clean
      <4>2. table'[s] = row /\ row.next \in Times
        BY <4>1, <1>a DEF TypeOK, Row
      <4> QED BY <1>a, <1>b, <1>c, <3>2, <4>1, <4>2, LaterIsNew
    <3>3. CASE z # s
      <4>1. table'[z] = table[z]
        BY <1>4, <1>a, <3>1, <3>3 DEF WritesBack, TypeOK
      <4>2. z \in Stored /\ z # current
        BY <1>4, <3>1, <3>3, <4>1, NoneAssumption DEF Stored
      <4> QED BY <1>b, <3>1, <4>1, <4>2 DEF NextIsNew
    <3> QED BY <3>2, <3>3
  <2>3. EditIsNew'
    <3> SUFFICES ASSUME NEW p \in Editors, edit[p] # None, edit[p].id \in Clean',
                        NEW d \in Fired(edit[p].id)
                 PROVE  d < edit[p].row.next
      BY <1>4, <1>e DEF EditIsNew
    <3>1. edit[p].id # s
      BY <1>4 DEF WritesBack, Clean, Overlaps
    <3>2. edit[p].id \in Clean /\ edit[p].id # current
      BY <1>4, <1>a, <3>1, NoneAssumption DEF Clean
    <3> QED BY <1>b, <3>2 DEF EditIsNew
  <2> QED BY <2>1, <2>2, <2>3 DEF OnceInv
<1>5. ASSUME NEW s \in Schedules, Replan(s) PROVE OnceInv'
  <2>1. s \in todo /\ WritesBack(s)
    BY <1>5, <1>a, ReplanWritesBack
  <2> QED BY <1>4, <1>5, <2>1 DEF Replan, Handling, request
<1>6. ASSUME NEW s \in Schedules, Record(s) PROVE OnceInv'
  <2>1. s \in todo /\ WritesBack(s)
    BY <1>6, <1>a, RecordWritesBack
  <2> QED BY <1>4, <1>6, <2>1 DEF Record, request
(* The due time of a clean row is later than all that was fired for it.    *)
<1>7. ASSUME NEW s \in Schedules, Trigger(s) PROVE OnceInv'
  <2> DEFINE due == seen[s].next
  <2>1. s \in todo /\ current = None /\ due <= tickAt /\ seen[s] \in Row /\ seen[s] # None
    BY <1>7, <1>a, HandledIsSeen DEF Trigger, Handling, Due
  <2>2. /\ UNCHANGED <<table, edit, todo, unused, tickAt, raced, spoiled, exhausted>>
        /\ current' = s
    BY <1>7 DEF Trigger, request
  <2>3. fired' = [fired EXCEPT ![s][due] = IF @ = 2 THEN 2 ELSE @ + 1] \/ fired' = fired
    BY <1>7 DEF Trigger
  <2>4. due \in Times
    BY <2>1 DEF Row
  <2>5. \A z \in Schedules \ {s} : Fired(z)' = Fired(z) /\ fired'[z] = fired[z]
    BY <1>a, <2>3 DEF Fired, TypeOK
  <2>6. Fired(s)' \subseteq Fired(s) \union {due}
    BY <1>a, <2>3, <2>4 DEF Fired, TypeOK
  <2>7. s \in Clean => fired[s][due] = 0
    <3> SUFFICES ASSUME s \in Clean, fired[s][due] # 0 PROVE FALSE
      OBVIOUS
    <3>1. s \in Stored /\ table[s] = seen[s] /\ s # current
      BY <1>a, <2>1, NoneAssumption DEF SeenIsStored, Clean, Stored
    <3>2. due < due
      BY <1>b, <2>4, <3>1 DEF NextIsNew, Fired
    <3>3. due \in Nat
      BY <2>4, TimesAreNat
    <3> QED BY ONLY <3>2, <3>3, SMT
  <2>8. UnusedIsNew'
    BY <1>b, <2>1, <2>2, <2>5, <1>a DEF UnusedIsNew, TypeOK
  <2>9. FiredIsPast'
    BY <1>b, <2>1, <2>2, <2>5, <2>6 DEF FiredIsPast
  <2>10. NextIsNew' /\ EditIsNew'
    <3>1. Clean' = Clean /\ Stored' = Stored
      BY <2>2 DEF Clean, Stored
    <3>2. NextIsNew'
      BY <1>b, <1>f, <2>1, <2>2, <2>5, <3>1, NoneAssumption DEF NextIsNew, Clean
    <3>3. EditIsNew'
      BY <1>b, <1>f, <2>1, <2>2, <2>5, <3>1, NoneAssumption DEF EditIsNew, Clean
    <3> QED BY <3>2, <3>3
  <2>11. FiresOncePerDue'
    <3>1. \A d \in Times : s \in Clean => fired'[s][d] <= 1
      <4>1. \A d \in Times \ {due} : fired'[s][d] = fired[s][d]
        BY <1>a, <2>3 DEF TypeOK
      <4>2. s \in Clean => fired'[s][due] <= 1
        BY <1>a, <2>3, <2>4, <2>7 DEF TypeOK
      <4> QED BY <1>b, <4>1, <4>2 DEF FiresOncePerDue, Clean
    <3> QED BY <1>b, <2>2, <2>5, <3>1 DEF FiresOncePerDue, Clean
  <2> QED BY <2>8, <2>9, <2>10, <2>11 DEF OnceInv
<1>8. ASSUME NEW s \in Schedules, Create(s) PROVE OnceInv'
  <2>1. /\ UNCHANGED <<fired, edit, todo, tickAt, current>> /\ unused' = unused \ {s}
        /\ s \in unused
    BY <1>8 DEF Create, runner, request
  <2>2. UnusedIsNew' /\ FiredIsPast' /\ FiresOncePerDue'
    BY <2>1, <1>a, <1>c, <1>d, PastStays
  <2>3. Fired(s) = {} /\ \A z \in Schedules \ {s} : table'[z] = table[z]
    BY <1>8, <1>a, <1>b, <2>1 DEF Create, UnusedIsNew, TypeOK
  <2>4. NextIsNew' /\ EditIsNew'
    BY <1>a, <1>b, <1>e, <2>1, <2>3 DEF NextIsNew, EditIsNew, Stored, Clean
  <2> QED BY <2>2, <2>4 DEF OnceInv
<1>9. ASSUME NEW s \in Schedules, Delete(s) PROVE OnceInv'
  <2>1. UNCHANGED <<fired, edit, todo, tickAt, current, unused>>
    BY <1>9 DEF Delete, runner, request
  <2>2. UnusedIsNew' /\ FiredIsPast' /\ FiresOncePerDue'
    BY <2>1, <1>a, <1>c, <1>d, PastStays
  <2>3. \A z \in Schedules : z \in Stored' => z \in Stored /\ table'[z] = table[z]
    BY <1>9, <1>a DEF Delete, TypeOK, Stored
  <2>4. NextIsNew' /\ EditIsNew'
    BY <1>a, <1>b, <1>e, <2>1, <2>3 DEF NextIsNew, EditIsNew, Clean
  <2> QED BY <2>2, <2>4 DEF OnceInv
<1>10. ASSUME NEW p \in Editors, WriteRow(p) PROVE OnceInv'
  <2>1. UNCHANGED <<fired, todo, tickAt, current, unused>>
    BY <1>10 DEF WriteRow, runner
  <2>2. UnusedIsNew' /\ FiredIsPast' /\ FiresOncePerDue'
    BY <2>1, <1>a, <1>c, <1>d, PastStays
  <2>3. \A q \in Editors : edit'[q] # None => edit'[q] = edit[q] /\ edit[q] # None
    BY <1>10, <1>a DEF WriteRow, TypeOK
  <2>4. EditIsNew'
    BY <1>a, <1>b, <1>e, <2>1, <2>3 DEF EditIsNew
  <2>5. NextIsNew'
    <3> SUFFICES ASSUME NEW z \in Clean', z \in Stored', z # current, NEW d \in Fired(z)
                 PROVE  d < table'[z].next
      BY <2>1, <1>e DEF NextIsNew
    <3>1. z \in Clean /\ z \in Schedules
      BY <1>a DEF Clean
    <3>2. CASE table'[z] = table[z]
      BY <1>b, <3>1, <3>2 DEF NextIsNew, Stored
    <3>3. CASE table'[z] # table[z]
      BY <1>10, <1>a, <1>b, <3>1, <3>3 DEF WriteRow, EditIsNew, TypeOK
    <3> QED BY <3>2, <3>3
  <2> QED BY <2>2, <2>4, <2>5 DEF OnceInv
<1>11. ASSUME NEW p \in Editors, NEW s \in Schedules, ReadRow(p, s) PROVE OnceInv'
  <2>1. UNCHANGED <<fired, table, todo, tickAt, current, unused, raced, spoiled, exhausted>>
    BY <1>11 DEF ReadRow, runner, history
  <2>2. UnusedIsNew' /\ FiredIsPast' /\ FiresOncePerDue'
    BY <2>1, <1>a, <1>c, <1>d, PastStays
  <2>3. PICK x \in Exprs, on \in BOOLEAN, m \in Misfires :
          /\ NextRunAt(x, clock) # 0
          /\ edit' = [edit EXCEPT ![p] = [id |-> s, row |->
               [enabled |-> on, expr |-> x, misfire |-> m, last |-> table[s].last,
                next |-> NextRunAt(x, clock)]]]
    BY <1>11 DEF ReadRow
  <2>4. \A d \in Fired(s) : d < NextRunAt(x, clock)
    BY <1>a, <1>b, <1>c, <2>3, NextIsLater, LaterIsNew
  <2>5. /\ edit'[p].id = s /\ edit'[p].row.next = NextRunAt(x, clock)
        /\ \A q \in Editors \ {p} : edit'[q] = edit[q]
    BY <2>3, <1>a DEF TypeOK
  <2>6. EditIsNew'
    BY <1>a, <1>b, <1>e, <2>1, <2>4, <2>5 DEF EditIsNew
  <2>7. NextIsNew'
    BY <1>a, <1>b, <1>e, <2>1 DEF NextIsNew, Stored
  <2> QED BY <2>2, <2>6, <2>7 DEF OnceInv
<1>12. CASE PassTime \/ UNCHANGED vars
  BY <1>1, <1>12, <1>c, <1>d DEF PassTime, vars, runner, request, history
(* A tick that is cut short after a trigger leaves its schedule marked.    *)
<1>13. CASE ProcessStop
  <2>1. /\ UNCHANGED <<fired, table, tickAt, unused>> /\ todo' = {} /\ current' = None
        /\ \A p \in Editors : edit'[p] = None
        /\ current # None => current \in spoiled'
    BY <1>13 DEF ProcessStop
  <2>2. UnusedIsNew' /\ FiredIsPast' /\ FiresOncePerDue'
    BY <2>1, <1>a, <1>c, PastStays
  <2>3. \A s \in Clean' : s \in Clean /\ s # current
    BY <1>a, <2>1, NoneAssumption DEF Clean
  <2>4. NextIsNew' /\ EditIsNew'
    BY <1>b, <1>e, <2>1, <2>3 DEF NextIsNew, EditIsNew, Stored
  <2> QED BY <2>2, <2>4 DEF OnceInv
<1> QED BY <1>2, <1>3, <1>5, <1>6, <1>7, <1>8, <1>9, <1>10, <1>11, <1>12, <1>13
     DEF Next, Handle

-----------------------------------------------------------------------------
LEMMA Invariance == Spec => []IInv
<1>1. IInv /\ [Next]_vars => IInv'
  BY NextTypeOK, NextRowsAreSane, NextSeenIsStored, NextLastEditStands, NextOnceInv
     DEF IInv
<1> QED BY InitIInv, <1>1, PTL DEF Spec

(* The types of the variables, for any number of schedules and requests.   *)
THEOREM SchedulerTypeOK == Spec => []TypeOK
<1>1. IInv => TypeOK
  BY DEF IInv
<1> QED BY Invariance, <1>1, PTL

(* An update stands against every tick that does not overlap it.           *)
THEOREM EditsStand == Spec => []LastEditStands
<1>1. IInv => LastEditStands
  BY DEF IInv
<1> QED BY Invariance, <1>1, PTL

(* A due time starts one execution, for any expressions: all that is asked *)
(* of them is that the next run lies after the time it is looked for.      *)
THEOREM DueTimesFireOnce == Spec => []FiresOncePerDue
<1>1. IInv => FiresOncePerDue
  BY DEF IInv, OnceInv
<1> QED BY Invariance, <1>1, PTL

(* A row never plans a run of an expression it no longer has.              *)
THEOREM RowsPlanTheirOwn == Spec => []PlansItsOwn
<1>1. IInv => PlansItsOwn
  BY DEF IInv, RowsAreSane, Sane, PlansItsOwn, Stored
<1> QED BY Invariance, <1>1, PTL

(* A schedule that was disabled or deleted before a tick listed it starts  *)
(* nothing.                                                                *)
THEOREM DisabledStarts == Spec => DisabledStaysQuiet
<1>1. ASSUME IInv, [Next]_vars, NEW s \in Schedules \ raced, fired'[s] # fired[s]
      PROVE  s \in Stored /\ wanted[s].enabled
  <2>1. PICK z \in Schedules : Trigger(z)
    BY <1>1 DEF Next, vars, history, Handle, StartTick, Wait, Replan, Record, Create,
       Delete, WriteRow, ReadRow, PassTime, ProcessStop
  <2>2. z = s
    BY <1>1, <2>1 DEF Trigger, IInv, TypeOK
  <2>3. s \in todo
    BY <2>1, <2>2 DEF Trigger, Handling
  <2>4. seen[s] # None /\ seen[s].enabled /\ table[s] = seen[s]
    BY <1>1, <2>3, HandledIsSeen DEF IInv, SeenIsStored
  <2>5. s \in Stored
    BY <2>4 DEF Stored
  <2>6. table[s].enabled = wanted[s].enabled
    BY <1>1, <2>5 DEF IInv, LastEditStands
  <2> QED BY <2>4, <2>5, <2>6
<1>2. IInv /\ [Next]_vars =>
        [\A s \in Schedules \ raced : fired'[s] # fired[s] => s \in Stored /\ wanted[s].enabled]_vars
  BY <1>1
<1> QED BY Invariance, <1>2, PTL DEF Spec, DisabledStaysQuiet

-----------------------------------------------------------------------------
(* The search for the next run.                                            *)

(* A set of numbers has a least one.                                       *)
LEMMA LeastNumber ==
  ASSUME NEW S \in SUBSET Nat, S # {}
  PROVE  Min(S) \in S /\ \A n \in S : Min(S) <= n
<1>1. PICK m \in S : \A n \in S : ~(<<n, m>> \in OpToRel(<, Nat))
  BY NatLessThanWellFounded, WFMin
<1>2. \A n \in S : m <= n
  <2> TAKE n \in S
  <2>1. ~(n < m)
    BY <1>1 DEF OpToRel
  <2> QED BY <2>1
<1>3. \E x \in S : \A y \in S : x =< y
  BY <1>2
<1> QED BY <1>3 DEF Min

(* An item is a number, a range or everything, with a step.                *)
Item == [from : Nat \union {Any}, to : Nat \union {Any}, step : Int]

(* An item that parses begins with a value of its own.                     *)
LEMMA ItemValues ==
  ASSUME NEW field \in Fields, NEW item \in Item, item.step > 0, IsRange(field, item)
  PROVE  /\ From(field, item) \in Least[field] .. Most[field]
         /\ To(field, item) \in Least[field] .. Most[field]
         /\ From(field, item) <= To(field, item)
         /\ (From(field, item) - From(field, item)) % item.step = 0
<1>1. /\ Least[field] \in Nat /\ Most[field] \in Nat /\ Least[field] <= Most[field]
  BY CronAssumption
<1>2. item.step \in Nat \ {0}
  BY DEF Item
<1>3. /\ From(field, item) \in Least[field] .. Most[field]
      /\ To(field, item) \in Least[field] .. Most[field]
      /\ From(field, item) <= To(field, item)
  BY <1>1 DEF IsRange, IsValue, From, To
<1>4. From(field, item) - From(field, item) = 0
  BY <1>1, <1>3
<1> QED BY <1>2, <1>3, <1>4

(* A field that parses has a value, and only values that it may have.      *)
LEMMA FieldValues ==
  ASSUME NEW field \in Fields, NEW items \in SUBSET Item, Parses(field, items)
  PROVE  Values(field, items) # {} /\ Values(field, items) \subseteq Least[field] .. Most[field]
<1>1. /\ Least[field] \in Nat /\ Most[field] \in Nat
  BY CronAssumption
<1>2. ASSUME NEW item \in items
      PROVE  /\ From(field, item) \in Least[field] .. Most[field]
             /\ To(field, item) \in Least[field] .. Most[field]
             /\ From(field, item) <= To(field, item)
             /\ (From(field, item) - From(field, item)) % item.step = 0
  BY <1>2, ItemValues DEF Parses
<1>3. Values(field, items) \subseteq Least[field] .. Most[field]
  <2> SUFFICES ASSUME NEW item \in items, NEW v \in From(field, item) .. To(field, item)
               PROVE  v \in Least[field] .. Most[field]
    BY DEF Values
  <2> QED BY <1>1, <1>2
<1>4. PICK item \in items : TRUE
  BY DEF Parses
<1>5. From(field, item) \in Values(field, items)
  <2>1. From(field, item) \in From(field, item) .. To(field, item)
    BY <1>1, <1>2
  <2> QED BY <1>2, <2>1 DEF Values
<1> QED BY <1>3, <1>5

(* So do the days of the week; the second name of the first day is gone.   *)
LEMMA WeekdayValues ==
  ASSUME NEW items \in SUBSET Item, Parses("dow", items)
  PROVE  Weekdays(items) # {} /\ Weekdays(items) \subseteq Least["dow"] .. (Most["dow"] - 1)
<1>1. "dow" \in Fields
  BY DEF Fields
<1>2. /\ Least["dow"] \in Nat /\ Most["dow"] \in Nat /\ Least["dow"] < Most["dow"]
  BY <1>1, CronAssumption
<1> QED BY <1>1, <1>2, FieldValues DEF Weekdays

(* If the fields parse, NextRunAt returns the first minute after the given *)
(* one that matches, or an error when the year that is searched has none.  *)
THEOREM CronFindsTheFirst ==
  ASSUME NEW t \in Nat, NEW expr, "every" \notin DOMAIN expr,
         \A field \in Fields : Parses(field, expr[field])
  PROVE  LET next == NextRun(expr, t)
         IN  \/ /\ next \in t + 1 .. t + Search /\ Matches(expr, next)
                /\ \A m \in t + 1 .. next - 1 : ~Matches(expr, m)
             \/ next = 0 /\ \A m \in t + 1 .. t + Search : ~Matches(expr, m)
<1> DEFINE tried == {i \in 1 .. Search : Matches(expr, t + i)}
           next  == NextRun(expr, t)
<1>0. Search \in Nat
  BY CronAssumption
<1>1. next = IF tried = {} THEN 0 ELSE t + Min(tried)
  BY DEF NextRun, NextMatch
<1>2. CASE tried = {}
  <2>1. ASSUME NEW m \in t + 1 .. t + Search PROVE ~Matches(expr, m)
    <3>1. m - t \in 1 .. Search /\ t + (m - t) = m
      BY <1>0
    <3> QED BY <1>2, <3>1
  <2> QED BY <1>1, <1>2, <2>1
<1>3. CASE tried # {}
  <2>1. Min(tried) \in tried /\ \A n \in tried : Min(tried) <= n
    <3>1. tried \in SUBSET Nat
      BY <1>0
    <3> HIDE DEF tried
    <3> QED BY <1>3, <3>1, LeastNumber
  <2>2. PICK k : k = Min(tried)
    OBVIOUS
  <2>3. next = t + k /\ k \in 1 .. Search /\ Matches(expr, t + k)
    BY <1>1, <1>3, <2>1, <2>2
  <2>4. ASSUME NEW m \in t + 1 .. next - 1 PROVE ~Matches(expr, m)
    <3>1. m - t \in 1 .. Search /\ t + (m - t) = m /\ m - t < k
      BY <1>0, <2>3
    <3>2. m - t \notin tried
      BY <2>1, <2>2, <3>1
    <3> QED BY <3>1, <3>2
  <2> HIDE DEF next
  <2>5. next \in t + 1 .. t + Search
    BY <1>0, <2>3
  <2> QED BY <2>3, <2>4, <2>5 DEF next
<1> QED BY <1>2, <1>3

(* What NextRunAt returns for any expression is later than the given time, *)
(* or an error: what Scheduler takes for granted.                          *)
THEOREM CronIsLater ==
  ASSUME NEW t \in Nat, NEW expr, "every" \in DOMAIN expr => expr.every \in Int
  PROVE  NextRun(expr, t) \in Nat /\ (NextRun(expr, t) = 0 \/ NextRun(expr, t) > t)
<1>1. CASE "every" \in DOMAIN expr
  BY <1>1 DEF NextRun
<1>2. CASE "every" \notin DOMAIN expr /\ \A field \in Fields : Parses(field, expr[field])
  <2>1. Search \in Nat
    BY CronAssumption
  <2>2. NextRun(expr, t) = 0 \/ NextRun(expr, t) \in t + 1 .. t + Search
    BY <1>2, CronFindsTheFirst
  <2> QED BY <2>1, <2>2
<1>3. CASE "every" \notin DOMAIN expr /\ ~\A field \in Fields : Parses(field, expr[field])
  BY <1>3 DEF NextRun
<1> QED BY <1>1, <1>2, <1>3
=============================================================================
