---------------------------- MODULE ExecutionDays ----------------------------
(***************************************************************************)
(* A job's schedule as its columns hold it, days of the week and a time of *)
(* day, with the computations of JobSchedule.cs and                        *)
(* ScheduleConversionHelper.cs on it.  The times of LastExecutionTime and  *)
(* NextExecutionTime follow the schedule through the conversions, and only *)
(* the latter matters here.                                                *)
(*                                                                         *)
(* Instants are integers, 0 being midnight of a Sunday.                    *)
(***************************************************************************)
EXTENDS Integers, FiniteSetsExt

CONSTANTS
  SecondsInDay,   \* ticks in a day
  None            \* the null of DateTime?

ASSUME SecondsInDayAssumption == SecondsInDay \in Nat \ {0}
ASSUME NullAssumption == None \notin Int

NumDays == 7
ExecutionDay == 0 .. (NumDays - 1)
TimeOfDay == 0 .. (SecondsInDay - 1)

Weekly == [days : SUBSET ExecutionDay, time : TimeOfDay]

DayOf(t) == (t \div SecondsInDay) % NumDays
SecondsOf(t) == t % SecondsInDay

(* The meaning of a schedule: instant t is one of its slots. *)
OnSchedule(s, t) == DayOf(t) \in s.days /\ SecondsOf(t) = s.time

-----------------------------------------------------------------------------
(***************************************************************************)
(* The first scheduled day from today to today next week, today only if    *)
(* the time has not come yet.                                              *)
(***************************************************************************)
GetNextExecutionOneWeekShort(s, runtime) ==
  LET futureSeconds == s.time - SecondsOf(runtime)
      daysInFuture == {k \in 0 .. NumDays - 1 : /\ (DayOf(runtime) + k) % NumDays \in s.days
                                                /\ k # 0 \/ futureSeconds > 0}
  IN  IF daysInFuture = {} THEN None
      ELSE runtime + Min(daysInFuture) * SecondsInDay + futureSeconds

GetNextExecution(s, runtime) ==
  LET futureSeconds == s.time - SecondsOf(runtime)
      daysInFuture == {k \in 0 .. NumDays : /\ (DayOf(runtime) + k) % NumDays \in s.days
                                            /\ k # 0 \/ futureSeconds > 0}
  IN  IF daysInFuture = {} THEN None
      ELSE runtime + Min(daysInFuture) * SecondsInDay + futureSeconds

-----------------------------------------------------------------------------
ShiftDaysRightOffTheEnd(days) == {d + 1 : d \in days \ {NumDays - 1}}
ShiftDaysRight(days) == {(d + 1) % NumDays : d \in days}
ShiftDaysLeftOffTheEnd(days) == {d - 1 : d \in days \ {0}}
ShiftDaysLeft(days) == {(d + NumDays - 1) % NumDays : d \in days}

ShiftScheduleAtMidnight(s, utcExecutionTime, offset) ==
  CASE utcExecutionTime < 0 ->
         [s EXCEPT !.days = ShiftDaysLeft(s.days), !.time = utcExecutionTime + SecondsInDay]
    [] utcExecutionTime > SecondsInDay ->
         [s EXCEPT !.days = ShiftDaysRight(s.days), !.time = utcExecutionTime - SecondsInDay]
    [] OTHER -> [s EXCEPT !.time = utcExecutionTime]

(* utcExecutionTime is the time of day plus or minus the offset.  At       *)
(* exactly midnight the code guesses from the sign of the offset.          *)
ShiftSchedule(s, utcExecutionTime, offset) ==
  CASE utcExecutionTime < 0 ->
         [s EXCEPT !.days = ShiftDaysLeft(s.days), !.time = utcExecutionTime + SecondsInDay]
    [] utcExecutionTime >= SecondsInDay ->
         [s EXCEPT !.days = ShiftDaysRight(s.days), !.time = utcExecutionTime - SecondsInDay]
    [] utcExecutionTime = 0 /\ offset < 0 ->
         [s EXCEPT !.days = ShiftDaysRight(s.days), !.time = 0]
    [] OTHER -> [s EXCEPT !.time = utcExecutionTime]

Plus(t, offset) == IF t = None THEN None ELSE t + offset

ConvertLocalToUtc(row, offset) ==
  ShiftSchedule([row EXCEPT !.next = Plus(row.next, -offset)], row.time - offset, offset)

ConvertUtcToLocal(row, offset) ==
  ShiftSchedule([row EXCEPT !.next = Plus(row.next, offset)], row.time + offset, offset)
=============================================================================
