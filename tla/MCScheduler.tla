----------------------------- MODULE MCScheduler -----------------------------
(* A calendar with an hour of three minutes, and a day of the month that   *)
(* does not come again within the year that is searched.                   *)
EXTENDS Scheduler, Cron

CONSTANTS s1, p1

MCTimes == 0..(MaxTime + 2)

MCLocal(t) ==
  [minute |-> t % 3, hour |-> 0, dom |-> 1 + ((t \div 3) % 4), month |-> 1, dow |-> t % 2]
MCLeast == [minute |-> 0, hour |-> 0, dom |-> 1, month |-> 1, dow |-> 0]
MCMost  == [minute |-> 2, hour |-> 0, dom |-> 4, month |-> 1, dow |-> 2]

All == {[from |-> Any, to |-> Any, step |-> 1]}
One(v) == {[from |-> v, to |-> v, step |-> 1]}
Every == [field \in Fields |-> All]

(* A fixed interval; a fixed minute; a minute of the day that does not     *)
(* come again.                                                             *)
Expr(x) ==
  CASE x = "every" -> [every |-> 2]
    [] x = "grid"  -> [Every EXCEPT !.minute = {[from |-> Any, to |-> Any, step |-> 3]}]
    [] x = "leap"  -> [Every EXCEPT !.minute = One(2), !.dom = One(1)]

Planned == [x \in Exprs |-> [t \in 0..MaxTime |-> NextRun(Expr(x), t)]]

MCNextRunAt(x, t) == Planned[x][t]

(* What parses, and what does not.                                         *)
ASSUME CronExamples ==
  /\ NextRun([Every EXCEPT !.minute = {[from |-> 1, to |-> 2, step |-> 1]}], 3) = 4
  /\ NextRun([Every EXCEPT !.minute = One(0) \union One(1)], 4) = 6
  /\ NextRun([Every EXCEPT !.dow = One(2)], 3) = 4
  /\ NextRun([Every EXCEPT !.minute = {[from |-> 2, to |-> 1, step |-> 1]}], 3) = 0
  /\ NextRun([Every EXCEPT !.minute = {[from |-> Any, to |-> Any, step |-> 0]}], 3) = 0
  /\ NextRun([Every EXCEPT !.dom = One(0)], 3) = 0
  /\ NextRun([every |-> 0], 3) = 0
=============================================================================
