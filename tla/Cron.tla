---------------------------------- MODULE Cron ----------------------------------
(***************************************************************************)
(* The expressions of a schedule (internal/scheduler/scheduler.go): an     *)
(* interval, or five fields of which each is a list of numbers, ranges and *)
(* steps.  An expression is given by its parts; splitting its text into    *)
(* them is left out.  Time is counted in minutes, in which a field of      *)
(* seconds is truncated, and 0 is an error.                                *)
(***************************************************************************)
EXTENDS Integers, FiniteSetsExt

CONSTANTS
  Local(_),     \* the wall clock in the timezone of the schedule: a record
                \* of the five fields; an hour may be skipped or come twice
  Least, Most,  \* of each field
  Search,       \* how many minutes are tried: a leap year
  Any           \* every value of a field

Fields == {"minute", "hour", "dom", "month", "dow"}

ASSUME CronAssumption ==
  /\ Search \in Nat
  /\ \A field \in Fields :
       Least[field] \in Nat /\ Most[field] \in Nat /\ Least[field] <= Most[field]
  /\ Least["dow"] < Most["dow"] /\ Any \notin Nat

(* parseCronValue; names of months and days are numbers here.              *)
IsValue(field, v) == v \in Least[field] .. Most[field]

(* parseCronRange: everything, or from one value to another.               *)
IsRange(field, item) ==
  \/ item.from = Any
  \/ IsValue(field, item.from) /\ IsValue(field, item.to) /\ item.from <= item.to

From(field, item) == IF item.from = Any THEN Least[field] ELSE item.from
To(field, item)   == IF item.from = Any THEN Most[field] ELSE item.to

(* parseCronField: one item that is wrong spoils the field.                *)
Parses(field, items) ==
  items # {} /\ \A item \in items : item.step > 0 /\ IsRange(field, item)

Values(field, items) ==
  UNION {{v \in From(field, item) .. To(field, item) : ((v - From(field, item)) % item.step) = 0} :
         item \in items}

(* The last day of the week is another name of the first.                  *)
Weekdays(items) ==
  {IF v = Most["dow"] THEN Least["dow"] ELSE v : v \in Values("dow", items)}

(* matchesCron: all of the fields, the two of the day among them.          *)
Matches(expr, t) ==
  /\ \A field \in Fields \ {"dow"} : Local(t)[field] \in Values(field, expr[field])
  /\ Local(t).dow \in Weekdays(expr.dow)

(* The minutes after the given one are tried in turn.                      *)
NextMatch(expr, t) ==
  LET tried == {i \in 1 .. Search : Matches(expr, t + i)}
  IN  IF tried = {} THEN 0 ELSE t + Min(tried)

(* NextRunAt                                                               *)
NextRun(expr, t) ==
  IF "every" \in DOMAIN expr
  THEN IF expr.every > 0 THEN t + expr.every ELSE 0
  ELSE IF \A field \in Fields : Parses(field, expr[field]) THEN NextMatch(expr, t) ELSE 0
================================================================================
