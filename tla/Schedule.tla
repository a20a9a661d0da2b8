------------------------------ MODULE Schedule ------------------------------
(***************************************************************************)
(* The weekly execution schedule of a job and the instant it next falls    *)
(* due (Milyli.ScriptRunner.Core/Models/JobSchedule.cs).                   *)
(*                                                                         *)
(* Instants are natural numbers.  A week lasts Week ticks and a schedule   *)
(* is the set of its positions in the week: the days of ExecutionSchedule, *)
(* each at the time of day ExecutionTime.                                  *)
(***************************************************************************)
EXTENDS Integers, FiniteSetsExt

CONSTANTS
  Week,      \* ticks in a week
  None       \* the null of DateTime?

ASSUME WeekAssumption == Week \in Nat \ {0}
ASSUME NoneAssumption == None \notin Int

Positions == 0 .. (Week - 1)
DateTime  == Nat
Nullable  == DateTime \cup {None}

(***************************************************************************)
(* The next instant strictly after runtime at a scheduled position, at     *)
(* most one week away; None for the empty schedule.                        *)
(***************************************************************************)
GetNextExecutionInclusive(schedule, runtime) ==
  LET ahead == {d \in 0 .. Week : (runtime + d) % Week \in schedule}
  IN  IF ahead = {} THEN None ELSE runtime + Min(ahead)

GetNextExecution(schedule, runtime) ==
  LET ahead == {d \in 1 .. Week : (runtime + d) % Week \in schedule}
  IN  IF ahead = {} THEN None ELSE runtime + Min(ahead)
=============================================================================
