------------------------ MODULE ScheduleEditorProofs ------------------------
(***************************************************************************)
(* The conversions between local time and UTC keep the meaning of every    *)
(* schedule, for days of any length, unless the server is behind UTC and   *)
(* the job is scheduled for local midnight.  Every copy of the row that a  *)
(* page, a request or an agent holds then means what some Save posted, and *)
(* so does the row, whoever writes it.                                     *)
(***************************************************************************)
EXTENDS ScheduleEditor, DataLemmas

Offset == -(SecondsInDay - 1) .. SecondsInDay - 1

(* ShiftSchedule guesses right. *)
Unambiguous(s, o) == o >= 0 \/ s.time # 0

SameSchedule(r, s) == r.days = s.days /\ r.time = s.time

(* Schedule r is schedule s with its time of day moved to x. *)
IsMovedTo(r, s, x) ==
  /\ x < 0 => r.days = ShiftDaysLeft(s.days) /\ r.time = x + SecondsInDay
  /\ x >= SecondsInDay => r.days = ShiftDaysRight(s.days) /\ r.time = x - SecondsInDay
  /\ x \in TimeOfDay => r.days = s.days /\ r.time = x

(* Schedule r, in UTC, is schedule s, in local time. *)
IsUtcOf(r, s, o) == IsMovedTo(r, s, s.time - o)

LEMMA DayLength == SecondsInDay \in Nat /\ SecondsInDay > 0
BY SecondsInDayAssumption

-----------------------------------------------------------------------------
(***************************************************************************)
(* Shifts and conversions                                                  *)
(***************************************************************************)
LEMMA ShiftsAreInverse ==
  ASSUME NEW days \in SUBSET ExecutionDay
  PROVE  /\ ShiftDaysLeft(days) \in SUBSET ExecutionDay
         /\ ShiftDaysRight(days) \in SUBSET ExecutionDay
         /\ ShiftDaysRight(ShiftDaysLeft(days)) = days
         /\ ShiftDaysLeft(ShiftDaysRight(days)) = days
         /\ \A d \in ExecutionDay : d \in ShiftDaysLeft(days) <=> (d + 1) % 7 \in days
         /\ \A d \in ExecutionDay : d \in ShiftDaysRight(days) <=> (d + 6) % 7 \in days
<1>1. \A d \in 0 .. 6 : /\ (d + 1) % 7 \in 0 .. 6 /\ (d + 6) % 7 \in 0 .. 6
                        /\ (((d + 1) % 7) + 6) % 7 = d
                        /\ (((d + 6) % 7) + 1) % 7 = d
  OBVIOUS
<1>2. \A d \in days : d \in 0 .. 6
  BY DEF ExecutionDay, NumDays
<1>3. /\ ShiftDaysLeft(days) = {(d + 6) % 7 : d \in days}
      /\ ShiftDaysRight(days) = {(d + 1) % 7 : d \in days}
  BY <1>2 DEF ShiftDaysLeft, ShiftDaysRight, NumDays
<1>4. /\ ShiftDaysLeft(days) \in SUBSET (0 .. 6)
      /\ ShiftDaysRight(days) \in SUBSET (0 .. 6)
  BY <1>1, <1>2, <1>3
<1>5. /\ ShiftDaysRight(ShiftDaysLeft(days)) = {(d + 1) % 7 : d \in ShiftDaysLeft(days)}
      /\ ShiftDaysLeft(ShiftDaysRight(days)) = {(d + 6) % 7 : d \in ShiftDaysRight(days)}
  BY <1>4 DEF ShiftDaysLeft, ShiftDaysRight, NumDays
<1>6. /\ \A d \in 0 .. 6 : d \in ShiftDaysLeft(days) <=> (d + 1) % 7 \in days
      /\ \A d \in 0 .. 6 : d \in ShiftDaysRight(days) <=> (d + 6) % 7 \in days
  BY <1>1, <1>2, <1>3
<1>7. ShiftDaysRight(ShiftDaysLeft(days)) = days
  BY <1>1, <1>2, <1>4, <1>5, <1>6
<1>8. ShiftDaysLeft(ShiftDaysRight(days)) = days
  BY <1>1, <1>2, <1>4, <1>5, <1>6
<1>. QED
  BY <1>4, <1>6, <1>7, <1>8 DEF ExecutionDay, NumDays

LEMMA ShiftScheduleMoves ==
  ASSUME NEW r \in Row, NEW o \in Offset,
         NEW x \in -(SecondsInDay - 1) .. 2 * SecondsInDay - 2, x = 0 => o >= 0
  PROVE  ShiftSchedule(r, x, o) \in Row /\ IsMovedTo(ShiftSchedule(r, x, o), r, x)
<1>1. /\ r.days \in SUBSET ExecutionDay /\ r.time \in 0 .. SecondsInDay - 1
      /\ r.next \in Int \cup {None} /\ o \in Int
  BY DayLength DEF Row, TimeOfDay, Offset
<1>2. ShiftDaysLeft(r.days) \in SUBSET ExecutionDay /\ ShiftDaysRight(r.days) \in SUBSET ExecutionDay
  BY <1>1, ShiftsAreInverse
<1>3. x \in Int /\ x >= -(SecondsInDay - 1) /\ x <= 2 * SecondsInDay - 2
  BY DayLength
<1>. DEFINE left == x + SecondsInDay
            right == x - SecondsInDay
<1>4. CASE x < 0
  <2>1. ShiftSchedule(r, x, o)
          = [r EXCEPT !.days = ShiftDaysLeft(r.days), !.time = left]
    BY <1>3, <1>4, DayLength DEF ShiftSchedule
  <2>2. left \in 0 .. SecondsInDay - 1 /\ ~(x >= SecondsInDay) /\ x \notin 0 .. SecondsInDay - 1
    BY <1>3, <1>4, DayLength
  <2>. HIDE DEF left
  <2>3. /\ ShiftSchedule(r, x, o) \in Row
        /\ ShiftSchedule(r, x, o).days = ShiftDaysLeft(r.days)
        /\ ShiftSchedule(r, x, o).time = left
    BY <1>2, <2>1, <2>2 DEF Row, TimeOfDay
  <2>. QED
    BY <1>4, <2>2, <2>3 DEF TimeOfDay, IsMovedTo, left
<1>5. CASE x >= SecondsInDay
  <2>1. ShiftSchedule(r, x, o)
          = [r EXCEPT !.days = ShiftDaysRight(r.days), !.time = right]
    BY <1>3, <1>5, DayLength DEF ShiftSchedule
  <2>2. right \in 0 .. SecondsInDay - 1 /\ ~(x < 0) /\ x \notin 0 .. SecondsInDay - 1
    BY <1>3, <1>5, DayLength
  <2>. HIDE DEF right
  <2>3. /\ ShiftSchedule(r, x, o) \in Row
        /\ ShiftSchedule(r, x, o).days = ShiftDaysRight(r.days)
        /\ ShiftSchedule(r, x, o).time = right
    BY <1>2, <2>1, <2>2 DEF Row, TimeOfDay
  <2>. QED
    BY <1>5, <2>2, <2>3 DEF TimeOfDay, IsMovedTo, right
<1>6. CASE x \in 0 .. SecondsInDay - 1
  <2>1. ~(x < 0) /\ ~(x >= SecondsInDay) /\ ~(x = 0 /\ o < 0)
    BY <1>1, <1>6, DayLength
  <2>2. ShiftSchedule(r, x, o) = [r EXCEPT !.time = x]
    BY <2>1 DEF ShiftSchedule
  <2>. QED
    BY <1>6, <2>1, <2>2 DEF Row, TimeOfDay, IsMovedTo
<1>. QED
  BY <1>3, <1>4, <1>5, <1>6, DayLength

LEMMA LocalToUtc ==
  ASSUME NEW r \in Row, NEW o \in Offset
  PROVE  ConvertLocalToUtc(r, o) \in Row /\ IsUtcOf(ConvertLocalToUtc(r, o), r, o)
<1>. DEFINE q == [r EXCEPT !.next = Plus(r.next, -o)]
            x == r.time - o
<1>1. /\ r.time \in 0 .. SecondsInDay - 1 /\ r.next \in Int \cup {None}
      /\ o \in -(SecondsInDay - 1) .. SecondsInDay - 1
  BY DEF Row, TimeOfDay, Offset
<1>2. Plus(r.next, -o) \in Int \cup {None}
  BY <1>1, DayLength DEF Plus
<1>3. q \in Row /\ q.days = r.days /\ q.time = r.time
  BY <1>2 DEF Row
<1>4. x \in -(SecondsInDay - 1) .. 2 * SecondsInDay - 2 /\ (x = 0 => o >= 0)
  BY <1>1, DayLength
<1>5. ConvertLocalToUtc(r, o) = ShiftSchedule(q, x, o)
  BY DEF ConvertLocalToUtc
<1>. HIDE DEF q, x
<1>6. ShiftSchedule(q, x, o) \in Row /\ IsMovedTo(ShiftSchedule(q, x, o), q, x)
  BY <1>3, <1>4, ShiftScheduleMoves
<1>. QED
  BY <1>3, <1>5, <1>6 DEF IsUtcOf, IsMovedTo, x

(* Back to local time, the schedule is what it was. *)
LEMMA UtcToLocal ==
  ASSUME NEW u \in Row, NEW s \in Row \cup Weekly, NEW o \in Offset, IsUtcOf(u, s, o), Unambiguous(s, o)
  PROVE  ConvertUtcToLocal(u, o) \in Row /\ SameSchedule(ConvertUtcToLocal(u, o), s)
<1>. DEFINE q == [u EXCEPT !.next = Plus(u.next, o)]
            x == u.time + o
            y == s.time - o
            l == ConvertUtcToLocal(u, o)
<1>1. /\ u.days \in SUBSET ExecutionDay /\ u.time \in 0 .. SecondsInDay - 1
      /\ u.next \in Int \cup {None}
      /\ s.days \in SUBSET ExecutionDay /\ s.time \in 0 .. SecondsInDay - 1
      /\ o \in -(SecondsInDay - 1) .. SecondsInDay - 1
  BY DEF Row, Weekly, TimeOfDay, Offset
<1>2. Plus(u.next, o) \in Int \cup {None}
  BY <1>1, DayLength DEF Plus
<1>3. q \in Row /\ q.days = u.days /\ q.time = u.time
  BY <1>2 DEF Row
<1>4. l = ShiftSchedule(q, x, o)
  BY DEF ConvertUtcToLocal
<1>5. x \in -(SecondsInDay - 1) .. 2 * SecondsInDay - 2
  BY <1>1, DayLength
<1>6. y \in Int
  BY <1>1, DayLength
<1>7. \/ y < 0 /\ u.days = ShiftDaysLeft(s.days) /\ x = s.time + SecondsInDay
      \/ y >= SecondsInDay /\ u.days = ShiftDaysRight(s.days) /\ x = s.time - SecondsInDay
      \/ y \in TimeOfDay /\ u.days = s.days /\ x = s.time
  BY <1>1, <1>6, DayLength DEF IsUtcOf, IsMovedTo, TimeOfDay
<1>8. x = 0 => o >= 0
  BY <1>1, <1>7, DayLength DEF Unambiguous
<1>. HIDE DEF q, x, y, l
<1>9. l \in Row /\ IsMovedTo(l, u, x)
  BY <1>3, <1>4, <1>5, <1>8, ShiftScheduleMoves DEF IsMovedTo
<1>10. l.time = s.time
  BY <1>1, <1>5, <1>7, <1>9, DayLength DEF IsMovedTo, TimeOfDay
<1>11. l.days = s.days
  BY <1>1, <1>5, <1>7, <1>9, ShiftsAreInverse, DayLength DEF IsMovedTo, TimeOfDay
<1>. QED
  BY <1>9, <1>10, <1>11 DEF SameSchedule, l

(* Only no day and every day are what they were, moved by a day. *)
LEMMA DaysMove ==
  ASSUME NEW days \in SUBSET ExecutionDay
  PROVE  ShiftDaysRight(days) = days <=> days \in {{}, ExecutionDay}
<1>1. \A d \in 0 .. 6 : d \in ShiftDaysRight(days) <=> (d + 6) % 7 \in days
  BY ShiftsAreInverse DEF ExecutionDay, NumDays
<1>2. days \subseteq 0 .. 6 /\ ShiftDaysRight(days) \subseteq 0 .. 6
  BY ShiftsAreInverse DEF ExecutionDay, NumDays
<1>3. ASSUME ShiftDaysRight(days) = days PROVE days = {} \/ days = 0 .. 6
  <2>1. /\ 0 \in days <=> 6 \in days
        /\ 1 \in days <=> 0 \in days
        /\ 2 \in days <=> 1 \in days
        /\ 3 \in days <=> 2 \in days
        /\ 4 \in days <=> 3 \in days
        /\ 5 \in days <=> 4 \in days
    BY <1>1, <1>3
  <2>2. \A d \in 0 .. 6 : d \in {0, 1, 2, 3, 4, 5, 6}
    OBVIOUS
  <2>3. \A d \in 0 .. 6 : d \in days <=> 0 \in days
    BY <2>1, <2>2
  <2>. QED
    BY <1>2, <2>3
<1>4. ASSUME days = {} \/ days = 0 .. 6 PROVE ShiftDaysRight(days) = days
  <2>1. \A d \in 0 .. 6 : (d + 6) % 7 \in 0 .. 6
    OBVIOUS
  <2>. QED
    BY <1>1, <1>2, <1>4, <2>1
<1>. QED
  BY <1>3, <1>4 DEF ExecutionDay, NumDays

-----------------------------------------------------------------------------
(***************************************************************************)
(* The meaning of a converted schedule                                     *)
(***************************************************************************)
(* Day k of the week is reached from the day before and the day after.     *)
LEMMA Neighbours ==
  ASSUME NEW k \in Int
  PROVE  /\ k % 7 \in 0 .. 6
         /\ (k - 1) % 7 = ((k % 7) + 6) % 7
         /\ (k + 1) % 7 = ((k % 7) + 1) % 7
OBVIOUS

LEMMA TimeOf ==
  ASSUME NEW t \in Int, NEW k \in Int, NEW p \in TimeOfDay, t = SecondsInDay * k + p
  PROVE  DayOf(t) = k % 7 /\ SecondsOf(t) = p
BY DivModUnique, SecondsInDayAssumption DEF TimeOfDay, DayOf, SecondsOf, NumDays

LEMMA SameMeaning ==
  ASSUME NEW s \in Weekly, NEW r \in Row, NEW o \in Offset, NEW t \in Int, IsUtcOf(r, s, o)
  PROVE  OnSchedule(r, t) <=> OnSchedule(s, t + o)
<1>. DEFINE k == t \div SecondsInDay
            p == t % SecondsInDay
            y == s.time - o
<1>1. k \in Int /\ p \in 0 .. SecondsInDay - 1 /\ t = SecondsInDay * k + p
  BY SecondsInDayAssumption
<1>2. /\ s.days \in SUBSET ExecutionDay /\ s.time \in 0 .. SecondsInDay - 1
      /\ r.time \in 0 .. SecondsInDay - 1
      /\ o \in -(SecondsInDay - 1) .. SecondsInDay - 1
  BY DEF Row, Weekly, TimeOfDay, Offset
<1>3. y \in Int /\ IsMovedTo(r, s, y) /\ (y < 0 \/ y >= SecondsInDay \/ y \in TimeOfDay)
  BY <1>2, DayLength DEF IsUtcOf, TimeOfDay
<1>4. OnSchedule(r, t) <=> k % 7 \in r.days /\ p = r.time
  BY <1>1, TimeOf DEF OnSchedule, TimeOfDay
<1>5. /\ k % 7 \in ShiftDaysLeft(s.days) <=> (k + 1) % 7 \in s.days
      /\ k % 7 \in ShiftDaysRight(s.days) <=> (k - 1) % 7 \in s.days
  BY <1>1, <1>2, Neighbours, ShiftsAreInverse DEF ExecutionDay, NumDays
<1>. HIDE DEF k, p
<1>6. CASE p + o < 0
  <2>. DEFINE z == p + o + SecondsInDay
            m == k - 1
  <2>1. z \in TimeOfDay
    BY <1>1, <1>2, <1>6, DayLength DEF TimeOfDay
  <2>2. t + o = SecondsInDay * m + z /\ m \in Int /\ t + o \in Int
    BY <1>1, <1>2, DayLength
  <2>. HIDE DEF z, m
  <2>3. OnSchedule(s, t + o) <=> m % 7 \in s.days /\ z = s.time
    BY <2>1, <2>2, TimeOf DEF OnSchedule
  <2>4. z = s.time <=> y >= SecondsInDay /\ p = y - SecondsInDay
    BY <1>1, <1>2, DayLength DEF z
  <2>5. p = r.time => y >= SecondsInDay
    BY <1>1, <1>2, <1>3, <1>6, DayLength DEF IsMovedTo, TimeOfDay
  <2>. HIDE DEF y
  <2>. QED
    BY <1>3, <1>4, <1>5, <2>3, <2>4, <2>5 DEF IsMovedTo, m
<1>7. CASE p + o >= SecondsInDay
  <2>. DEFINE z == p + o - SecondsInDay
            m == k + 1
  <2>1. z \in TimeOfDay
    BY <1>1, <1>2, <1>7, DayLength DEF TimeOfDay
  <2>2. t + o = SecondsInDay * m + z /\ m \in Int /\ t + o \in Int
    BY <1>1, <1>2, DayLength
  <2>. HIDE DEF z, m
  <2>3. OnSchedule(s, t + o) <=> m % 7 \in s.days /\ z = s.time
    BY <2>1, <2>2, TimeOf DEF OnSchedule
  <2>4. z = s.time <=> y < 0 /\ p = y + SecondsInDay
    BY <1>1, <1>2, DayLength DEF z
  <2>5. p = r.time => y < 0
    BY <1>1, <1>2, <1>3, <1>7, DayLength DEF IsMovedTo, TimeOfDay
  <2>. HIDE DEF y
  <2>. QED
    BY <1>3, <1>4, <1>5, <2>3, <2>4, <2>5 DEF IsMovedTo, m
<1>8. CASE p + o \in TimeOfDay
  <2>. DEFINE z == p + o
  <2>1. t + o = SecondsInDay * k + z /\ t + o \in Int
    BY <1>1, <1>2, DayLength
  <2>2. z \in TimeOfDay
    BY <1>8
  <2>. HIDE DEF z
  <2>3. OnSchedule(s, t + o) <=> k % 7 \in s.days /\ z = s.time
    BY <1>1, <2>1, <2>2, TimeOf DEF OnSchedule
  <2>4. z = s.time <=> y \in TimeOfDay /\ p = y
    BY <1>1, <1>2, <1>8, DayLength DEF TimeOfDay, z
  <2>5. p = r.time => y \in TimeOfDay
    BY <1>1, <1>2, <1>3, <1>8, DayLength DEF IsMovedTo, TimeOfDay
  <2>. HIDE DEF y
  <2>. QED
    BY <1>3, <1>4, <2>3, <2>4, <2>5 DEF IsMovedTo
<1>. QED
  BY <1>1, <1>2, <1>6, <1>7, <1>8, DayLength DEF TimeOfDay

-----------------------------------------------------------------------------
(***************************************************************************)
(* The day loop                                                            *)
(***************************************************************************)
LEMMA SevenDays ==
  ASSUME NEW k \in Int, NEW m \in Int
  PROVE  /\ m > k => \E j \in 1 .. 7 : j <= m - k /\ ((k % 7) + j) % 7 = m % 7
         /\ \A j \in 0 .. 7 : ((k % 7) + j) % 7 = (k + j) % 7
<1>1. \A j \in 0 .. 7 : ((k % 7) + j) % 7 = (k + j) % 7
  OBVIOUS
<1>2. ASSUME m > k PROVE \E j \in 1 .. 7 : j <= m - k /\ ((k % 7) + j) % 7 = m % 7
  <2>. DEFINE j == ((m - k - 1) % 7) + 1
  <2>1. j \in 1 .. 7 /\ j <= m - k
    BY <1>2
  <2>2. (k + j) % 7 = m % 7
    OBVIOUS
  <2>3. ((k % 7) + j) % 7 = m % 7
    BY <1>1, <2>1, <2>2
  <2>. QED
    BY <2>1, <2>3
<1>. QED
  BY <1>1, <1>2

(* n is the first slot of schedule s after t, or null if there is none. *)
IsNextSlot(n, s, t) ==
  /\ n = None <=> s.days = {}
  /\ n # None => /\ n \in Int /\ n > t
                 /\ OnSchedule(s, n)
                 /\ \A u \in Int : t < u /\ u < n => ~OnSchedule(s, u)

(* The days the loop of GetNextExecution stops at, counted from today. *)
DaysInFuture(s, t) ==
  {k \in 0 .. 7 : (DayOf(t) + k) % 7 \in s.days /\ (k # 0 \/ s.time - SecondsOf(t) > 0)}

(* Every slot ahead is as many days away as the loop counts, or further. *)
LEMMA SlotAhead ==
  ASSUME NEW s \in Row \cup Weekly, NEW t \in Int, NEW u \in Int, u > t, OnSchedule(s, u)
  PROVE  \E j \in DaysInFuture(s, t) : t + j * SecondsInDay + (s.time - SecondsOf(t)) <= u
<1>. DEFINE k == t \div SecondsInDay
            p == t % SecondsInDay
            m == u \div SecondsInDay
            q == u % SecondsInDay
<1>1. /\ k \in Int /\ p \in 0 .. SecondsInDay - 1 /\ t = SecondsInDay * k + p
      /\ m \in Int /\ q \in 0 .. SecondsInDay - 1 /\ u = SecondsInDay * m + q
  BY SecondsInDayAssumption
<1>2. DayOf(t) = k % 7 /\ SecondsOf(t) = p /\ m % 7 \in s.days /\ q = s.time
  BY DEF DayOf, SecondsOf, OnSchedule, NumDays
<1>. HIDE DEF k, p, m, q
<1>3. m >= k
  <2>. SUFFICES ASSUME m <= k - 1 PROVE FALSE
    BY <1>1
  <2>1. SecondsInDay * (k - m) >= SecondsInDay
    BY <1>1, DayLength
  <2>. QED
    BY <1>1, <2>1, DayLength
<1>4. CASE m = k
  <2>1. 0 \in DaysInFuture(s, t)
    <3>1. q - p > 0
      BY <1>1, <1>4, DayLength
    <3>2. ((k % 7) + 0) % 7 = k % 7
      BY <1>1
    <3>. QED
      BY <1>2, <1>4, <3>1, <3>2 DEF DaysInFuture
  <2>2. t + 0 * SecondsInDay + (q - p) <= u
    BY <1>1, <1>4, DayLength
  <2>. QED
    BY <2>1, <2>2, <1>2
<1>5. CASE m > k
  <2>1. PICK j \in 1 .. 7 : j <= m - k /\ ((k % 7) + j) % 7 = m % 7
    BY <1>1, <1>5, SevenDays
  <2>2. j \in DaysInFuture(s, t)
    BY <1>2, <2>1 DEF DaysInFuture
  <2>3. SecondsInDay * j <= SecondsInDay * (m - k)
    BY <1>1, <2>1, DayLength
  <2>4. t + j * SecondsInDay + (q - p) <= u
    BY <1>1, <2>1, <2>3, DayLength
  <2>. QED
    BY <2>2, <2>4, <1>2
<1>. QED
  BY <1>1, <1>3, <1>4, <1>5

(* The day the loop stops at has a slot ahead. *)
LEMMA DayHasSlot ==
  ASSUME NEW s \in Row \cup Weekly, NEW t \in Int, NEW j \in DaysInFuture(s, t)
  PROVE  LET n == t + j * SecondsInDay + (s.time - SecondsOf(t))
         IN  n \in Int /\ n > t /\ OnSchedule(s, n)
<1>. DEFINE k == t \div SecondsInDay
            p == t % SecondsInDay
            n == t + j * SecondsInDay + (s.time - p)
<1>1. k \in Int /\ p \in 0 .. SecondsInDay - 1 /\ t = SecondsInDay * k + p
  BY SecondsInDayAssumption
<1>2. DayOf(t) = k % 7 /\ SecondsOf(t) = p
  BY DEF DayOf, SecondsOf, NumDays
<1>3. s.time \in 0 .. SecondsInDay - 1
  BY DEF Row, Weekly, TimeOfDay
<1>. HIDE DEF k, p
<1>4. j \in 0 .. 7 /\ ((k % 7) + j) % 7 \in s.days /\ (j # 0 \/ s.time - p > 0)
  BY <1>2 DEF DaysInFuture
<1>5. n \in Int /\ n = SecondsInDay * (k + j) + s.time
  BY <1>1, <1>3, <1>4, DayLength
<1>6. n > t
  <2>1. CASE j = 0
    BY <1>1, <1>3, <1>4, <2>1, DayLength
  <2>2. CASE j >= 1
    <3>1. j * SecondsInDay >= SecondsInDay
      BY <1>4, <2>2, DayLength
    <3>. QED
      BY <1>1, <1>3, <1>4, <3>1, DayLength
  <2>. QED
    BY <1>4, <2>1, <2>2
<1>7. OnSchedule(s, n)
  <2>1. (k + j) % 7 \in s.days
    BY <1>1, <1>4, SevenDays
  <2>2. DayOf(n) = (k + j) % 7 /\ SecondsOf(n) = s.time
    BY <1>1, <1>3, <1>4, <1>5, TimeOf DEF TimeOfDay
  <2>. QED
    BY <2>1, <2>2 DEF OnSchedule
<1>. QED
  BY <1>2, <1>5, <1>6, <1>7

(***************************************************************************)
(* GetNextExecution's loop over eight days finds the first slot of the     *)
(* schedule strictly after the given instant, whatever the length of the   *)
(* day, and null only for a schedule without days.                         *)
(***************************************************************************)
THEOREM DayLoopFindsNextSlot ==
  ASSUME NEW s \in Row \cup Weekly, NEW t \in Int
  PROVE  IsNextSlot(GetNextExecution(s, t), s, t)
<1>. DEFINE D == DaysInFuture(s, t)
            fut == s.time - SecondsOf(t)
            slot(j) == t + j * SecondsInDay + fut
<1>1. GetNextExecution(s, t) = IF D = {} THEN None ELSE slot(Min(D))
  BY DEF GetNextExecution, DaysInFuture, NumDays
<1>2. D \in SUBSET Nat /\ \A j \in D : j \in 0 .. 7
  BY DEF DaysInFuture
<1>3. fut \in Int
  BY SecondsInDayAssumption DEF Row, Weekly, TimeOfDay, SecondsOf
<1>4. D = {} <=> s.days = {}
  <2>1. ASSUME NEW d \in s.days PROVE D # {}
    <3>1. d \in 0 .. 6 /\ DayOf(t) \in 0 .. 6
      BY SecondsInDayAssumption DEF Row, Weekly, ExecutionDay, DayOf, NumDays
    <3>2. \E j \in 1 .. 7 : (DayOf(t) + j) % 7 = d
      BY <3>1
    <3>. QED
      BY <3>2 DEF DaysInFuture
  <2>2. s.days = {} => D = {}
    BY DEF DaysInFuture
  <2>. QED
    BY <2>1, <2>2
<1>5. CASE D = {}
  BY <1>1, <1>4, <1>5 DEF IsNextSlot
<1>6. CASE D # {}
  <2>. DEFINE j == Min(D)
  <2>1. j \in D /\ \A i \in D : j <= i
    BY <1>2, <1>6, MinIsLeast
  <2>2. slot(j) \in Int /\ slot(j) > t /\ OnSchedule(s, slot(j))
    BY <2>1, DayHasSlot
  <2>3. ASSUME NEW u \in Int, t < u, u < slot(j), OnSchedule(s, u) PROVE FALSE
    <3>1. PICK i \in D : slot(i) <= u
      BY <2>3, SlotAhead
    <3>2. j <= i /\ j \in Nat /\ i \in Nat
      BY <1>2, <2>1, <3>1
    <3>. HIDE DEF j, D, fut
    <3>3. j * SecondsInDay <= i * SecondsInDay
      BY <3>2, DayLength
    <3>. QED
      BY <1>3, <2>3, <3>1, <3>2, <3>3, DayLength
  <2>4. GetNextExecution(s, t) = slot(j)
    BY <1>1, <1>6
  <2>. HIDE DEF slot, j, D
  <2>. QED
    BY <1>4, <1>6, <2>2, <2>3, <2>4, NullAssumption DEF IsNextSlot
<1>. QED
  BY <1>5, <1>6

-----------------------------------------------------------------------------
(***************************************************************************)
(* The fields                                                              *)
(***************************************************************************)
LEMMA DayInHours ==
  /\ Hours \in Nat /\ Hours > 0 /\ Minutes \in Nat /\ Minutes > 0
  /\ SecondsInDay = Minutes * (2 * Hours)
BY ClockAssumption

(* Hours of a twelve-hour clock modulo twelve. *)
LEMMA HourModulo ==
  ASSUME NEW h \in 1 .. Hours
  PROVE  h % Hours = IF h = Hours THEN 0 ELSE h
<1>1. CASE h = Hours
  <2>1. h \in Int /\ h = Hours * 1 + 0
    BY <1>1, DayInHours
  <2>. QED
    BY <1>1, <2>1, DayInHours, DivModUnique
<1>2. CASE h # Hours
  <2>1. h \in Int /\ h = Hours * 0 + h /\ h \in 0 .. Hours - 1
    BY <1>2, DayInHours
  <2>. QED
    BY <1>2, <2>1, DayInHours, DivModUnique
<1>. QED
  BY <1>1, <1>2

(* The hour of a time of day. *)
LEMMA HourOfDay ==
  ASSUME NEW t \in TimeOfDay
  PROVE  /\ t \div Minutes \in 0 .. 2 * Hours - 1
         /\ t % Minutes \in 0 .. Minutes - 1
         /\ t = (t \div Minutes) * Minutes + (t % Minutes)
<1>. DEFINE h == t \div Minutes
            m == t % Minutes
            H == 2 * Hours
<1>1. t \in 0 .. SecondsInDay - 1
  BY DEF TimeOfDay
<1>2. h \in Int /\ m \in 0 .. Minutes - 1 /\ t = Minutes * h + m
  BY <1>1, DayInHours, DayLength
<1>3. H \in Int /\ SecondsInDay = Minutes * H
  BY DayInHours
<1>. HIDE DEF h, m, H
<1>4. h <= H - 1
  <2>. SUFFICES ASSUME h - H >= 0 PROVE FALSE
    BY <1>2, <1>3
  <2>1. Minutes * (h - H) >= 0
    BY <1>2, <1>3, DayInHours
  <2>2. Minutes * (h - H) = Minutes * h - SecondsInDay
    BY <1>2, <1>3, DayInHours
  <2>3. Minutes * h \in Int /\ Minutes * h < SecondsInDay
    BY <1>1, <1>2, DayInHours, DayLength
  <2>. QED
    BY <2>1, <2>2, <2>3, DayLength
<1>5. h >= 0
  <2>. SUFFICES ASSUME h + 1 <= 0 PROVE FALSE
    BY <1>2
  <2>1. Minutes * (h + 1) <= 0
    BY <1>2, DayInHours
  <2>2. Minutes * (h + 1) = Minutes * h + Minutes
    BY <1>2, DayInHours
  <2>. QED
    BY <1>1, <1>2, <2>1, <2>2, DayInHours, DayLength
<1>6. Minutes * h = h * Minutes
  BY <1>2, DayInHours
<1>. QED
  BY <1>2, <1>4, <1>5, <1>6 DEF h, m, H

(* The fields mean the schedule they were filled from. *)
LEMMA FieldsMeanSchedule ==
  ASSUME NEW s \in Row \cup Weekly
  PROVE  FieldsOf(s) \in Fields /\ Meant(FieldsOf(s)) = [days |-> s.days, time |-> s.time]
<1>. DEFINE h == s.time \div Minutes
            m == s.time % Minutes
            shown == IF h = 0 THEN Hours ELSE IF h > Hours THEN h - Hours ELSE h
            meridian == IF h >= Hours THEN "PM" ELSE "AM"
            f == FieldsOf(s)
<1>1. s.days \in SUBSET ExecutionDay /\ s.time \in TimeOfDay
  BY DEF Row, Weekly
<1>2. h \in 0 .. 2 * Hours - 1 /\ m \in 0 .. Minutes - 1 /\ s.time = h * Minutes + m
  BY <1>1, HourOfDay
<1>3. f = [days |-> s.days, hours |-> shown, minutes |-> m, meridian |-> meridian]
  BY DEF FieldsOf
<1>. HIDE DEF h, m, f
<1>4. shown \in 1 .. Hours /\ meridian \in {"AM", "PM"}
  BY <1>2, DayInHours
<1>5. f \in Fields
  BY <1>1, <1>2, <1>3, <1>4 DEF Fields
<1>6. (shown % Hours) + (IF meridian = "PM" THEN Hours ELSE 0) = h
  <2>1. shown % Hours = IF shown = Hours THEN 0 ELSE shown
    BY <1>4, HourModulo
  <2>. QED
    BY <1>2, <2>1, DayInHours
<1>. HIDE DEF shown, meridian
<1>7. f.days = s.days /\ f.hours = shown /\ f.minutes = m /\ f.meridian = meridian
  BY <1>3
<1>8. Meant(f) = [days |-> s.days, time |-> h * Minutes + m]
  BY <1>6, <1>7 DEF Meant
<1>. QED
  BY <1>2, <1>5, <1>8 DEF f

LEMMA SetTimeMeans ==
  ASSUME NEW f \in Fields
  PROVE  setTime(f) = Meant(f).time
<1>. DEFINE h == IF f.hours = Hours THEN 0 ELSE f.hours
            late == IF f.meridian = "PM" THEN Hours ELSE 0
<1>1. /\ f.hours \in 1 .. Hours /\ f.minutes \in 0 .. Minutes - 1
      /\ f.meridian \in {"AM", "PM"}
  BY DEF Fields
<1>2. Meant(f).time = (h + late) * Minutes + f.minutes
  BY <1>1, HourModulo DEF Meant
<1>3. setTime(f) = (h + late) * Minutes + f.minutes
  <2>1. CASE f.meridian = "PM" /\ f.hours # Hours
    BY <1>1, <2>1, DayInHours DEF setTime
  <2>2. CASE f.meridian = "AM" /\ f.hours = Hours
    BY <1>1, <2>2, DayInHours DEF setTime
  <2>3. CASE f.meridian = "AM" /\ f.hours # Hours
    BY <1>1, <2>3, DayInHours DEF setTime
  <2>4. CASE f.meridian = "PM" /\ f.hours = Hours
    BY <1>1, <2>4, DayInHours DEF setTime
  <2>. QED
    BY <1>1, <2>1, <2>2, <2>3, <2>4
<1>. QED
  BY <1>2, <1>3

(* Fields whose clocks show the same mean the same time. *)
LEMMA SameClock ==
  ASSUME NEW f \in Fields, NEW g \in Fields, Clock(f) = Clock(g)
  PROVE  Meant(f).time = Meant(g).time
BY DEF Clock, Meant, Fields

-----------------------------------------------------------------------------
(***************************************************************************)
(* Copies of the row                                                       *)
(***************************************************************************)
(* No slot of schedule c, in local time, lies between t and x. *)
SlotKept(x, c, o, t) ==
  /\ x = None <=> c.days = {}
  /\ x # None => /\ x \in Int
                 /\ OnSchedule(c, x + o)
                 /\ \A u \in Int : t < u /\ u < x => ~OnSchedule(c, u + o)

(* Row r, in UTC, is what was posted, with a slot no later than the first  *)
(* one after t.                                                            *)
UtcCopy(r, o, t) ==
  /\ r \in Row /\ Unambiguous(r.posted, o)
  /\ IsUtcOf(r, r.posted, o)
  /\ SlotKept(r.next, r.posted, o, t)

(* The same for a copy in local time. *)
LocalCopy(r, o, t) ==
  /\ r \in Row /\ Unambiguous(r.posted, o)
  /\ ScheduleOf(r) = r.posted
  /\ SlotKept(Plus(r.next, -o), r.posted, o, t)

LEMMA NextConverted ==
  ASSUME NEW r \in Row, NEW o \in Offset
  PROVE  /\ ConvertLocalToUtc(r, o).next = Plus(r.next, -o)
         /\ ConvertUtcToLocal(r, o).next = Plus(r.next, o)
         /\ ConvertLocalToUtc(r, o).posted = r.posted
         /\ ConvertUtcToLocal(r, o).posted = r.posted
<1>1. \A q, x, f : ShiftSchedule([r EXCEPT !.next = q], x, f).next = q
  BY DEF ShiftSchedule, Row
<1>2. \A q, x, f : ShiftSchedule([r EXCEPT !.next = q], x, f).posted = r.posted
  BY DEF ShiftSchedule, Row
<1>3. /\ ConvertLocalToUtc(r, o).next = Plus(r.next, -o)
      /\ ConvertUtcToLocal(r, o).next = Plus(r.next, o)
  BY <1>1 DEF ConvertLocalToUtc, ConvertUtcToLocal
<1>4. /\ ConvertLocalToUtc(r, o).posted = r.posted
      /\ ConvertUtcToLocal(r, o).posted = r.posted
  BY <1>2 DEF ConvertLocalToUtc, ConvertUtcToLocal
<1>. QED
  BY <1>3, <1>4

LEMMA PlusMinus ==
  ASSUME NEW n \in Int \cup {None}, NEW o \in Int
  PROVE  /\ Plus(n, o) \in Int \cup {None}
         /\ Plus(n, o) = None <=> n = None
         /\ Plus(Plus(n, -o), o) = n /\ Plus(Plus(n, o), -o) = n
BY NullAssumption DEF Plus

(* A slot computed in local time is one for the agents too. *)
LEMMA LocalSlotKept ==
  ASSUME NEW n, NEW s, NEW c, NEW o \in Int, NEW t \in Int,
         SameSchedule(s, c), IsNextSlot(n, s, t + o)
  PROVE  SlotKept(Plus(n, -o), c, o, t)
<1>1. c.days = s.days /\ \A u : OnSchedule(s, u) <=> OnSchedule(c, u)
  BY DEF SameSchedule, OnSchedule
<1>2. CASE n = None
  BY <1>1, <1>2 DEF IsNextSlot, SlotKept, Plus
<1>3. CASE n # None
  <2>1. n \in Int /\ Plus(n, -o) = n - o /\ n - o # None /\ (n - o) + o = n
    BY <1>3, NullAssumption DEF IsNextSlot, Plus
  <2>2. ASSUME NEW u \in Int, t < u, u < n - o PROVE ~OnSchedule(c, u + o)
    <3>1. u + o \in Int /\ t + o < u + o /\ u + o < n
      BY <2>1, <2>2
    <3>. QED
      BY <1>1, <1>3, <3>1 DEF IsNextSlot
  <2>3. OnSchedule(c, (n - o) + o) /\ c.days # {}
    BY <1>1, <1>3, <2>1 DEF IsNextSlot
  <2>4. n - o \in Int
    BY <2>1
  <2>. QED
    BY <2>1, <2>2, <2>3, <2>4 DEF SlotKept
<1>. QED
  BY <1>2, <1>3

LEMMA UtcDaysEmpty ==
  ASSUME NEW s \in Weekly, NEW r \in Row, NEW o \in Offset, IsUtcOf(r, s, o)
  PROVE  r.days = {} <=> s.days = {}
<1>. DEFINE y == s.time - o
<1>1. IsMovedTo(r, s, y) /\ (y < 0 \/ y >= SecondsInDay \/ y \in TimeOfDay)
  BY DayLength DEF IsUtcOf, Weekly, TimeOfDay, Offset
<1>2. s.days \in SUBSET ExecutionDay
  BY DEF Weekly
<1>3. ShiftDaysLeft({}) = {} /\ ShiftDaysRight({}) = {}
  BY DEF ShiftDaysLeft, ShiftDaysRight
<1>. HIDE DEF y
<1>. QED
  BY <1>1, <1>2, <1>3, ShiftsAreInverse DEF IsMovedTo

(* A slot an agent computes in UTC is one of the chosen schedule. *)
LEMMA UtcSlotKept ==
  ASSUME NEW s \in Weekly, NEW r \in Row, NEW o \in Offset, NEW t \in Int, NEW n,
         IsUtcOf(r, s, o), IsNextSlot(n, r, t)
  PROVE  SlotKept(n, s, o, t)
<1>1. \A u \in Int : OnSchedule(r, u) <=> OnSchedule(s, u + o)
  BY SameMeaning
<1>2. r.days = {} <=> s.days = {}
  BY UtcDaysEmpty
<1>. QED
  BY <1>1, <1>2 DEF IsNextSlot, SlotKept

LEMMA NextExecutionType ==
  ASSUME NEW s \in Row \cup Weekly, NEW t \in Int
  PROVE  GetNextExecution(s, t) \in Int \cup {None}
<1>. DEFINE fut == s.time - SecondsOf(t)
            D == {k \in 0 .. 7 : (DayOf(t) + k) % 7 \in s.days /\ (k # 0 \/ fut > 0)}
<1>1. fut \in Int
  BY SecondsInDayAssumption DEF Row, Weekly, TimeOfDay, SecondsOf
<1>2. GetNextExecution(s, t) = IF D = {} THEN None ELSE t + Min(D) * SecondsInDay + fut
  BY DEF GetNextExecution, NumDays
<1>3. D \in SUBSET Nat
  OBVIOUS
<1>. HIDE DEF D, fut
<1>4. D # {} => Min(D) \in Nat
  BY <1>3, MinIsLeast
<1>. QED
  BY <1>1, <1>2, <1>4, DayLength

(* A schedule has one UTC form. *)
LEMMA UtcFormIsUnique ==
  ASSUME NEW s \in Weekly, NEW o \in Offset, NEW r, NEW u, IsUtcOf(r, s, o), IsUtcOf(u, s, o)
  PROVE  u.days = r.days /\ u.time = r.time
<1>. DEFINE y == s.time - o
<1>1. y < 0 \/ y >= SecondsInDay \/ y \in TimeOfDay
  BY DayLength DEF Weekly, TimeOfDay, Offset
<1>2. IsMovedTo(r, s, y) /\ IsMovedTo(u, s, y)
  BY DEF IsUtcOf
<1>. HIDE DEF y
<1>. QED
  BY <1>1, <1>2 DEF IsMovedTo

LEMMA ScheduleOfRow ==
  ASSUME NEW r \in Row
  PROVE  ScheduleOf(r) \in Weekly /\ ScheduleOf(r).days = r.days /\ ScheduleOf(r).time = r.time
BY DEF Row, Weekly, ScheduleOf

LEMMA SameScheduleOf ==
  ASSUME NEW r, NEW s \in Weekly
  PROVE  ScheduleOf(r) = s <=> SameSchedule(r, s)
BY DEF ScheduleOf, SameSchedule, Weekly

LEMMA SameIsUtcOf ==
  ASSUME NEW r, NEW s, NEW l, NEW o, SameSchedule(l, s), IsUtcOf(r, l, o)
  PROVE  IsUtcOf(r, s, o)
BY DEF SameSchedule, IsUtcOf, IsMovedTo

(* What GetJobScheduleModel makes of a row. *)
LEMMA ShownCopy ==
  ASSUME NEW o \in Offset, NEW t \in Int, NEW r, UtcCopy(r, o, t)
  PROVE  LocalCopy(ConvertUtcToLocal(r, o), o, t) /\ ConvertUtcToLocal(r, o).posted = r.posted
<1>. DEFINE l == ConvertUtcToLocal(r, o)
<1>1. r \in Row /\ r.posted \in Weekly /\ r.next \in Int \cup {None} /\ o \in Int
  BY DayLength DEF UtcCopy, Row, Offset
<1>2. l \in Row /\ SameSchedule(l, r.posted)
  BY <1>1, UtcToLocal DEF UtcCopy
<1>3. l.next = Plus(r.next, o) /\ l.posted = r.posted
  BY <1>1, NextConverted
<1>. HIDE DEF l
<1>4. Plus(l.next, -o) = r.next
  <2>1. Plus(Plus(r.next, o), -o) = r.next
    BY <1>1, PlusMinus
  <2>. QED
    BY <1>3, <2>1
<1>5. ScheduleOf(l) = l.posted
  BY <1>1, <1>2, <1>3, SameScheduleOf
<1>6. LocalCopy(l, o, t)
  BY <1>2, <1>3, <1>4, <1>5 DEF UtcCopy, LocalCopy
<1>. QED
  BY <1>3, <1>6 DEF l

(* What Run makes of the copy it is posted. *)
LEMMA ActivatedCopy ==
  ASSUME NEW o \in Offset, NEW t \in Int, NEW r, LocalCopy(r, o, t)
  PROVE  UtcCopy(ConvertLocalToUtc(r, o), o, t) /\ ConvertLocalToUtc(r, o).posted = r.posted
<1>. DEFINE u == ConvertLocalToUtc(r, o)
<1>1. r \in Row /\ r.posted \in Weekly /\ SameSchedule(r, r.posted)
  BY SameScheduleOf DEF LocalCopy, Row
<1>2. u \in Row /\ IsUtcOf(u, r, o)
  BY <1>1, LocalToUtc
<1>3. u.next = Plus(r.next, -o) /\ u.posted = r.posted
  BY <1>1, NextConverted
<1>. HIDE DEF u
<1>4. IsUtcOf(u, u.posted, o)
  BY <1>1, <1>2, <1>3, SameIsUtcOf
<1>5. UtcCopy(u, o, t)
  BY <1>2, <1>3, <1>4 DEF UtcCopy, LocalCopy
<1>. QED
  BY <1>3, <1>5 DEF u

(* What Save makes of the copy it is posted. *)
LEMMA SavedCopy ==
  ASSUME NEW s \in Row \cup Weekly, offset \in Offset, now \in Int, Unambiguous(s, offset)
  PROVE  UtcCopy(Saved(s), offset, now) /\ Saved(s).posted = ScheduleOf(s)
<1>. DEFINE n == GetNextExecution(s, now + offset)
            p == ScheduleOf(s)
            q == [days |-> s.days, time |-> s.time, next |-> n, posted |-> p]
            u == Saved(s)
<1>1. offset \in Int /\ now + offset \in Int
  BY DayLength DEF Offset
<1>2. n \in Int \cup {None} /\ IsNextSlot(n, s, now + offset)
  BY <1>1, NextExecutionType, DayLoopFindsNextSlot
<1>3. u = ConvertLocalToUtc(q, offset)
  BY DEF Saved
<1>4. p \in Weekly /\ SameSchedule(s, p) /\ p.time = s.time
  BY DEF Row, Weekly, ScheduleOf, SameSchedule
<1>. HIDE DEF n, p, u
<1>5. q \in Row /\ q.next = n /\ q.posted = p /\ SameSchedule(q, p)
  BY <1>2, <1>4 DEF Row, Weekly, SameSchedule
<1>. HIDE DEF q
<1>6. u \in Row /\ IsUtcOf(u, p, offset)
  BY <1>3, <1>5, LocalToUtc, SameIsUtcOf
<1>7. u.next = Plus(n, -offset) /\ u.posted = p
  BY <1>3, <1>5, NextConverted
<1>8. SlotKept(u.next, p, offset, now)
  BY <1>1, <1>2, <1>4, <1>7, LocalSlotKept
<1>9. UtcCopy(u, offset, now)
  BY <1>4, <1>6, <1>7, <1>8 DEF UtcCopy, Unambiguous
<1>. QED
  BY <1>7, <1>9 DEF u, p

(* What FinishJob makes of the agent's copy. *)
LEMMA FinishedCopy ==
  ASSUME NEW o \in Offset, NEW t \in Int, NEW r, NEW start \in Int, start <= t, UtcCopy(r, o, t)
  PROVE  UtcCopy([r EXCEPT !.next = GetNextExecution(r, start)], o, t)
<1>. DEFINE n == GetNextExecution(r, start)
            u == [r EXCEPT !.next = n]
<1>1. r \in Row /\ r.posted \in Weekly
  BY DEF UtcCopy, Row
<1>2. n \in Int \cup {None} /\ IsNextSlot(n, r, start)
  BY <1>1, NextExecutionType, DayLoopFindsNextSlot
<1>. HIDE DEF n
<1>3. u \in Row /\ u.next = n /\ u.posted = r.posted /\ SameSchedule(u, r)
  BY <1>1, <1>2 DEF Row, SameSchedule
<1>4. IsUtcOf(u, u.posted, o)
  BY <1>3 DEF UtcCopy, IsUtcOf, IsMovedTo, SameSchedule
<1>5. SlotKept(n, r.posted, o, start)
  BY <1>1, <1>2, UtcSlotKept DEF UtcCopy
<1>6. SlotKept(n, r.posted, o, t)
  BY <1>5 DEF SlotKept
<1>7. UtcCopy(u, o, t)
  BY <1>3, <1>4, <1>6 DEF UtcCopy
<1>. QED
  BY <1>7 DEF n

LEMMA CopiesLast ==
  ASSUME NEW o, NEW t \in Int, NEW u \in Int, t <= u, NEW r
  PROVE  /\ UtcCopy(r, o, t) => UtcCopy(r, o, u)
         /\ LocalCopy(r, o, t) => LocalCopy(r, o, u)
BY DEF UtcCopy, LocalCopy, SlotKept

(* A position in the week is a day and a time. *)
LEMMA PositionIsSlot ==
  ASSUME NEW s \in Row \cup Weekly, NEW u \in Int
  PROVE  u % (NumDays * SecondsInDay) \in PositionsOf(s) <=> OnSchedule(s, u)
<1>. DEFINE m == u \div SecondsInDay
            q == u % SecondsInDay
            h == m \div 7
            e == m % 7
            w == NumDays * SecondsInDay
<1>1. /\ m \in Int /\ q \in 0 .. SecondsInDay - 1 /\ u = SecondsInDay * m + q
      /\ h \in Int /\ e \in 0 .. 6 /\ m = 7 * h + e
  BY SecondsInDayAssumption
<1>2. OnSchedule(s, u) <=> e \in s.days /\ q = s.time
  BY DEF OnSchedule, DayOf, SecondsOf, NumDays
<1>3. w = 7 * SecondsInDay /\ w \in Nat \ {0}
  BY DayLength DEF NumDays
<1>4. s.time \in 0 .. SecondsInDay - 1 /\ \A d \in s.days : d \in 0 .. 6
  BY DEF Row, Weekly, TimeOfDay, ExecutionDay, NumDays
<1>. HIDE DEF m, q, h, e, w
<1>5. SecondsInDay * e + q \in 0 .. w - 1
  <2>1. SecondsInDay * e <= SecondsInDay * 6 /\ SecondsInDay * e >= 0
    BY <1>1, DayLength
  <2>. QED
    BY <1>1, <1>3, <2>1, DayLength
<1>6. u = w * h + (SecondsInDay * e + q)
  BY <1>1, <1>3, DayLength
<1>7. u % w = SecondsInDay * e + q
  BY <1>1, <1>3, <1>5, <1>6, DivModUnique
<1>8. ASSUME NEW d \in s.days, u % w = d * SecondsInDay + s.time
      PROVE  d = e /\ q = s.time
  <2>. DEFINE v == u % w
  <2>1. d \in Int /\ e \in Int /\ q \in 0 .. SecondsInDay - 1 /\ s.time \in 0 .. SecondsInDay - 1
    BY <1>1, <1>4
  <2>2. v = SecondsInDay * e + q /\ v \in Int
    BY <1>1, <1>7, DayLength
  <2>3. v = SecondsInDay * d + s.time
    BY <1>8, <2>1, DayLength
  <2>. HIDE DEF v
  <2>4. v % SecondsInDay = q /\ v \div SecondsInDay = e
    <3>1. PICK f \in Int, g \in 0 .. SecondsInDay - 1 : f = e /\ g = q
      BY <2>1
    <3>2. v = SecondsInDay * f + g
      BY <2>2, <3>1
    <3>3. v % SecondsInDay = g /\ v \div SecondsInDay = f
      BY <2>2, <3>1, <3>2, SecondsInDayAssumption, DivModUnique
    <3>. QED
      BY <3>1, <3>3
  <2>5. v % SecondsInDay = s.time /\ v \div SecondsInDay = d
    BY <2>1, <2>2, <2>3, SecondsInDayAssumption, DivModUnique
  <2>. QED
    BY <2>4, <2>5
<1>9. ASSUME e \in s.days, q = s.time PROVE u % w = e * SecondsInDay + s.time
  BY <1>1, <1>4, <1>7, <1>9, DayLength
<1>10. u % w \in PositionsOf(s) <=> OnSchedule(s, u)
  BY <1>2, <1>8, <1>9 DEF PositionsOf
<1>. QED
  BY <1>10 DEF w

LEMMA DayLoopIsCoarse ==
  ASSUME NEW s \in Row, NEW t \in Int
  PROVE  GetNextExecution(s, t) = Coarse!GetNextExecution(PositionsOf(s), t)
<1>. DEFINE w == NumDays * SecondsInDay
            ahead == {d \in 1 .. w : (t + d) % w \in PositionsOf(s)}
            n == GetNextExecution(s, t)
<1>1. Coarse!GetNextExecution(PositionsOf(s), t) = IF ahead = {} THEN None ELSE t + Min(ahead)
  BY DEF Coarse!GetNextExecution, Coarse!Min, Min
<1>2. IsNextSlot(n, s, t)
  BY DayLoopFindsNextSlot
<1>3. w \in Nat \ {0}
  BY DayLength DEF NumDays
<1>4. \A u \in Int : u % w \in PositionsOf(s) <=> OnSchedule(s, u)
  BY PositionIsSlot
<1>. HIDE DEF n, w
<1>5. CASE n = None
  <2>1. PositionsOf(s) = {}
    BY <1>2, <1>5 DEF IsNextSlot, PositionsOf
  <2>. QED
    BY <1>1, <1>5, <2>1 DEF n
<1>6. CASE n # None
  <2>1. n \in Int /\ n > t /\ OnSchedule(s, n)
        /\ \A u \in Int : t < u /\ u < n => ~OnSchedule(s, u)
    BY <1>2, <1>6 DEF IsNextSlot
  <2>2. n - t <= w
    <3>. SUFFICES ASSUME n - w > t PROVE FALSE
      BY <1>3, <2>1
    <3>1. n - w \in Int /\ (n - w) % w = n % w
      <4>1. PICK r \in 0 .. w - 1, h \in Int : n = w * h + r
        <5>1. n % w \in 0 .. w - 1 /\ n \div w \in Int /\ n = w * (n \div w) + (n % w)
          BY <1>3, <2>1
        <5>. QED
          BY <5>1
      <4>2. n - w = w * (h - 1) + r /\ n - w \in Int
        BY <1>3, <2>1, <4>1
      <4>3. n % w = r
        BY <1>3, <2>1, <4>1, DivModUnique
      <4>4. h - 1 \in Int
        BY <4>1
      <4>5. (n - w) % w = r
        BY <1>3, <4>1, <4>2, <4>4, DivModUnique
      <4>. QED
        BY <4>2, <4>3, <4>5
    <3>2. OnSchedule(s, n - w)
      BY <1>4, <2>1, <3>1
    <3>. QED
      BY <1>3, <2>1, <3>1, <3>2
  <2>3. n - t \in ahead
    <3>1. n - t \in 1 .. w /\ t + (n - t) = n
      BY <1>3, <2>1, <2>2
    <3>. QED
      BY <1>4, <2>1, <3>1
  <2>4. \A d \in ahead : d \in Nat /\ d >= 1 /\ OnSchedule(s, t + d)
    BY <1>3, <1>4
  <2>. HIDE DEF ahead
  <2>5. Min(ahead) \in ahead /\ Min(ahead) <= n - t
    BY <2>3, <2>4, MinIsLeast
  <2>6. Min(ahead) \in Nat /\ Min(ahead) >= 1 /\ OnSchedule(s, t + Min(ahead))
    BY <2>4, <2>5
  <2>7. t + Min(ahead) = n
    BY <2>1, <2>5, <2>6
  <2>. QED
    BY <1>1, <2>3, <2>7 DEF n
<1>. QED
  BY <1>5, <1>6

-----------------------------------------------------------------------------
(***************************************************************************)
(* The editor                                                              *)
(***************************************************************************)
(* No user of a server behind UTC schedules a job for local midnight. *)
MidnightIsClear == \A o \in Offsets : \A s \in Selectable[o] : Unambiguous(s, o)

PageOK(p, o) ==
  /\ p \in Page
  /\ Meant(p.fields) = p.wanted
  /\ Unambiguous(p.wanted, o) /\ Unambiguous(p.copy, o)
  /\ ~p.apart => ScheduleOf(p.copy) = p.wanted

RequestOK(r, o, t) ==
  /\ r \in Request
  /\ r.at # "posted" => r.page \in Clients
  /\ r.at = "posted" => r.copy \in Row
  /\ r.at = "posted" /\ r.kind = "Save" => Unambiguous(r.copy, o)
  /\ r.at = "answered" \/ (r.at = "posted" /\ r.kind = "Run") => LocalCopy(r.copy, o, t)

ListedOK(r, o, t) ==
  /\ r \in Listed
  /\ UtcCopy(r.copy, o, t)
  /\ r.at = "running" => r.start \in Int /\ r.start <= t

PagesOK(f, o) == f \in [Clients -> Page] /\ \A c \in Clients : PageOK(f[c], o)

RequestsOK(f, o, t) ==
  /\ f \in [Requests -> Request \cup {None}]
  /\ \A q \in Requests : f[q] # None => RequestOK(f[q], o, t)

AgentsOK(f, o, t) ==
  /\ f \in [Agents -> Listed \cup {None}]
  /\ \A a \in Agents : f[a] # None => ListedOK(f[a], o, t)

EditorInv ==
  /\ offset \in Offsets /\ saves \in 0 .. MaxSaves
  /\ now \in Instants /\ since \in Instants /\ since <= now
  /\ last \in Weekly /\ crossed \in BOOLEAN
  /\ UtcCopy(row, offset, since)
  /\ PagesOK(page, offset)
  /\ RequestsOK(request, offset, since)
  /\ AgentsOK(agent, offset, since)

LEMMA PageSet ==
  ASSUME NEW f, NEW o, PagesOK(f, o), NEW c \in Clients, NEW p, PageOK(p, o)
  PROVE  PagesOK([f EXCEPT ![c] = p], o)
BY DEF PagesOK, PageOK

LEMMA RequestSet ==
  ASSUME NEW f, NEW o, NEW t, RequestsOK(f, o, t), NEW q \in Requests, NEW r,
         r # None => RequestOK(r, o, t)
  PROVE  RequestsOK([f EXCEPT ![q] = r], o, t)
BY DEF RequestsOK, RequestOK

LEMMA AgentSet ==
  ASSUME NEW f, NEW o, NEW t, AgentsOK(f, o, t), NEW a \in Agents, NEW r,
         r # None => ListedOK(r, o, t)
  PROVE  AgentsOK([f EXCEPT ![a] = r], o, t)
BY DEF AgentsOK, ListedOK

LEMMA AllLast ==
  ASSUME NEW f, NEW g, NEW o, NEW t \in Int, NEW u \in Int, t <= u
  PROVE  /\ RequestsOK(f, o, t) => RequestsOK(f, o, u)
         /\ AgentsOK(g, o, t) => AgentsOK(g, o, u)
<1>1. \A r : RequestOK(r, o, t) => RequestOK(r, o, u)
  BY CopiesLast DEF RequestOK
<1>2. \A r : ListedOK(r, o, t) => ListedOK(r, o, u)
  BY CopiesLast DEF ListedOK
<1>. QED
  BY <1>1, <1>2 DEF RequestsOK, AgentsOK

LEMMA Times ==
  ASSUME EditorInv
  PROVE  offset \in Offset /\ offset \in Int /\ now \in Int /\ since \in Int
BY OffsetsAssumption, InstantsAssumption, DayLength DEF EditorInv, Offset

(* A page opens on what is stored. *)
LEMMA OpenedPage ==
  ASSUME NEW t \in Int, offset \in Offset, UtcCopy(row, offset, t)
  PROVE  PageOK(Opened(row), offset)
<1>. DEFINE l == ConvertUtcToLocal(row, offset)
            p == [copy |-> l, fields |-> FieldsOf(l), wanted |-> row.posted, apart |-> FALSE]
<1>1. LocalCopy(l, offset, t) /\ l.posted = row.posted
  BY ShownCopy
<1>2. row.posted \in Weekly /\ Unambiguous(row.posted, offset)
  BY DEF UtcCopy, Row
<1>3. Opened(row) = p
  BY DEF Opened, Shown
<1>. HIDE DEF l
<1>4. l \in Row /\ ScheduleOf(l) = row.posted
  BY <1>1 DEF LocalCopy
<1>5. FieldsOf(l) \in Fields /\ Meant(FieldsOf(l)) = row.posted
  BY <1>4, FieldsMeanSchedule DEF ScheduleOf
<1>6. Unambiguous(l, offset)
  BY <1>2, <1>4, ScheduleOfRow DEF Unambiguous
<1>7. p \in Page
  BY <1>2, <1>4, <1>5 DEF Page
<1>8. PageOK(p, offset)
  BY <1>2, <1>4, <1>5, <1>6, <1>7 DEF PageOK
<1>. QED
  BY <1>3, <1>8

LEMMA InitEstablishes ==
  ASSUME MidnightIsClear, Init
  PROVE  EditorInv
<1>1. /\ offset \in Offsets /\ offset \in Offset /\ now \in Instants /\ now \in Int
      /\ last \in Weekly /\ Unambiguous(last, offset)
  BY OffsetsAssumption, InstantsAssumption, SelectableAssumption DEF Init, Offset, MidnightIsClear
<1>2. UtcCopy(row, offset, now)
  BY <1>1, SavedCopy DEF Init
<1>3. PageOK(Opened(row), offset)
  BY <1>1, <1>2, OpenedPage
<1>4. Opened(row) \in Page
  BY <1>3 DEF PageOK
<1>. HIDE DEF Opened
<1>5. PagesOK(page, offset)
  BY <1>3, <1>4 DEF Init, PagesOK
<1>6. RequestsOK(request, offset, now) /\ AgentsOK(agent, offset, now)
  BY DEF Init, RequestsOK, AgentsOK
<1>7. since = now /\ since <= now
  BY <1>1 DEF Init
<1>8. saves \in 0 .. MaxSaves /\ crossed \in BOOLEAN
  <2>1. 0 \in 0 .. MaxSaves
    BY MaxSavesAssumption
  <2>. QED
    BY <2>1 DEF Init
<1>. QED
  BY <1>1, <1>2, <1>5, <1>6, <1>7, <1>8 DEF EditorInv

(***************************************************************************)
(* Pages                                                                   *)
(***************************************************************************)
(* The clicks of an edit make the page's copy what the fields show. *)
LEMMA EditedPage ==
  ASSUME NEW o, NEW p, PageOK(p, o), NEW s \in Weekly, Unambiguous(s, o),
         NEW new, new = FieldsOf(s)
  PROVE  PageOK([p EXCEPT
           !.fields = new,
           !.wanted = s,
           !.copy = [p.copy EXCEPT
             !.days = SetAndClear(p.copy.days, p.fields.days, new.days),
             !.time = IF Clock(new) = Clock(p.fields) THEN p.copy.time ELSE setTime(new)]], o)
<1>. DEFINE days == SetAndClear(p.copy.days, p.fields.days, new.days)
            time == IF Clock(new) = Clock(p.fields) THEN p.copy.time ELSE setTime(new)
            l == [p.copy EXCEPT !.days = days, !.time = time]
            e == [p EXCEPT !.fields = new, !.wanted = s, !.copy = l]
<1>1. /\ p \in Page /\ p.fields \in Fields /\ p.copy \in Row /\ p.apart \in BOOLEAN
      /\ p.wanted = Meant(p.fields) /\ Unambiguous(p.copy, o)
      /\ ~p.apart => ScheduleOf(p.copy) = p.wanted
  BY DEF PageOK, Page
<1>2. new \in Fields /\ Meant(new) = [days |-> s.days, time |-> s.time]
  BY FieldsMeanSchedule
<1>3. Meant(new) = s
  BY <1>2 DEF Weekly
<1>. HIDE DEF Fields
<1>4. new.days = s.days /\ s.days \in SUBSET ExecutionDay /\ s.time \in TimeOfDay
  BY <1>2 DEF Meant, Weekly
<1>5. p.fields.days \in SUBSET ExecutionDay /\ p.copy.days \in SUBSET ExecutionDay
      /\ p.copy.time \in TimeOfDay
  BY <1>1 DEF Fields, Row
<1>6. days \in SUBSET ExecutionDay
  BY <1>4, <1>5 DEF SetAndClear
<1>7. setTime(new) = s.time
  BY <1>2, SetTimeMeans
<1>8. time \in TimeOfDay /\ (o >= 0 \/ time # 0)
  BY <1>1, <1>4, <1>5, <1>7 DEF Unambiguous
<1>9. ~p.apart => days = s.days /\ time = s.time
  <2>. SUFFICES ASSUME ~p.apart PROVE days = s.days /\ time = s.time
    OBVIOUS
  <2>1. p.fields.days = p.copy.days /\ Meant(p.fields).time = p.copy.time
    BY <1>1 DEF ScheduleOf, Meant
  <2>2. days = s.days
    BY <1>4, <2>1 DEF SetAndClear
  <2>3. Clock(new) = Clock(p.fields) => p.copy.time = s.time
    BY <1>1, <1>2, <2>1, SameClock
  <2>. QED
    BY <1>7, <2>2, <2>3
<1>. HIDE DEF days, time
<1>10. l \in Row /\ l.days = days /\ l.time = time
  BY <1>1, <1>6, <1>8 DEF Row
<1>. HIDE DEF l
<1>11. /\ e \in Page /\ e.fields = new /\ e.wanted = s /\ e.copy = l /\ e.apart = p.apart
  BY <1>1, <1>2, <1>10 DEF Page
<1>. HIDE DEF e
<1>12. ~e.apart => ScheduleOf(e.copy) = e.wanted
  BY <1>9, <1>10, <1>11 DEF ScheduleOf, Weekly
<1>13. Unambiguous(e.copy, o)
  BY <1>8, <1>10, <1>11 DEF Unambiguous
<1>14. PageOK(e, o)
  BY <1>3, <1>11, <1>12, <1>13 DEF PageOK
<1>. QED
  BY <1>14 DEF e, l, days, time

LEMMA EditPreserves ==
  ASSUME MidnightIsClear, EditorInv, NEW c \in Clients, Edit(c)
  PROVE  EditorInv'
<1>. DEFINE p == page[c]
<1>1. PICK s \in Selectable[offset] :
        page' = [page EXCEPT
             ![c].fields = FieldsOf(s),
             ![c].wanted = s,
             ![c].copy.days = SetAndClear(@, page[c].fields.days, FieldsOf(s).days),
             ![c].copy.time = IF Clock(FieldsOf(s)) = Clock(page[c].fields) THEN @ ELSE setTime(FieldsOf(s))]
  BY DEF Edit
<1>2. UNCHANGED <<request, agent, offset, now, saves, row, last, crossed, since>>
  BY DEF Edit, tables
<1>. DEFINE new == FieldsOf(s)
            e == [p EXCEPT
                   !.fields = new,
                   !.wanted = s,
                   !.copy = [p.copy EXCEPT
                     !.days = SetAndClear(p.copy.days, p.fields.days, new.days),
                     !.time = IF Clock(new) = Clock(p.fields) THEN p.copy.time ELSE setTime(new)]]
<1>3. s \in Weekly /\ Unambiguous(s, offset)
  BY SelectableAssumption DEF EditorInv, MidnightIsClear
<1>4. PagesOK(page, offset) /\ PageOK(p, offset) /\ page \in [Clients -> Page] /\ p \in Page /\ p.copy \in Row
  BY DEF EditorInv, PagesOK, PageOK, Page
<1>5. PageOK(e, offset)
  BY <1>3, <1>4, EditedPage
<1>6. page' = [page EXCEPT ![c] = e]
  BY <1>1, <1>4 DEF Page, Row
<1>. HIDE DEF e, p
<1>7. PagesOK(page', offset)
  BY <1>4, <1>5, <1>6, PageSet
<1>. QED
  BY <1>2, <1>7 DEF EditorInv

LEMMA PostPreserves ==
  ASSUME EditorInv, NEW c \in Clients, NEW q \in Requests, NEW thenRun \in BOOLEAN,
         internalSaveJobSchedule(c, q, thenRun)
  PROVE  EditorInv'
<1>. DEFINE r == [page |-> c, kind |-> "Save", thenRun |-> thenRun, at |-> "posted",
                  copy |-> page[c].copy]
<1>1. page[c].copy \in Row /\ Unambiguous(page[c].copy, offset)
  BY DEF EditorInv, PagesOK, PageOK, Page
<1>2. RequestOK(r, offset, since)
  BY <1>1 DEF RequestOK, Request
<1>3. request' = [request EXCEPT ![q] = r] /\ saves' = saves + 1 /\ saves < MaxSaves
      /\ UNCHANGED <<page, agent, offset, now, row, last, crossed, since>>
  BY DEF internalSaveJobSchedule, tables
<1>. HIDE DEF r
<1>4. RequestsOK(request', offset, since)
  BY <1>2, <1>3, RequestSet DEF EditorInv
<1>5. saves' \in 0 .. MaxSaves
  BY <1>3, MaxSavesAssumption DEF EditorInv
<1>. QED
  BY <1>3, <1>4, <1>5 DEF EditorInv

LEMMA AnswerPreserves ==
  ASSUME EditorInv, NEW q \in Requests, updateFromModel(q)
  PROVE  EditorInv'
<1>. DEFINE r == request[q]
            c == r.page
            p == page[c]
            e == [p EXCEPT !.copy = r.copy, !.apart = p.apart \/ r.copy.posted # p.wanted]
            run == [r EXCEPT !.kind = "Run", !.at = "posted"]
            next == IF r.kind = "Save" /\ r.thenRun THEN run ELSE None
<1>1. RequestOK(r, offset, since) /\ r \in Request /\ r.at = "answered"
  BY DEF updateFromModel, EditorInv, RequestsOK, RequestOK
<1>2. c \in Clients /\ LocalCopy(r.copy, offset, since) /\ r.copy \in Row
  BY <1>1 DEF RequestOK, LocalCopy
<1>3. PagesOK(page, offset) /\ PageOK(p, offset) /\ p \in Page /\ page \in [Clients -> Page]
  BY <1>2 DEF EditorInv, PagesOK, PageOK
<1>4. /\ page' = [page EXCEPT ![c].copy = r.copy, ![c].apart = @ \/ r.copy.posted # page[c].wanted]
      /\ request' = [request EXCEPT ![q] = next]
      /\ UNCHANGED <<agent, offset, now, saves, row, last, crossed, since>>
  BY DEF updateFromModel, tables
<1>. HIDE DEF r, c
<1>5. page' = [page EXCEPT ![c] = e]
  BY <1>3, <1>4 DEF Page
<1>6. PageOK(e, offset)
  <2>1. Unambiguous(r.copy, offset) /\ ScheduleOf(r.copy) = r.copy.posted
    BY <1>2, ScheduleOfRow DEF LocalCopy, Unambiguous
  <2>2. /\ e \in Page /\ e.fields = p.fields /\ e.wanted = p.wanted /\ e.copy = r.copy
        /\ ~e.apart => r.copy.posted = p.wanted
    BY <1>2, <1>3 DEF Page
  <2>. HIDE DEF e, p
  <2>. QED
    BY <1>3, <2>1, <2>2 DEF PageOK
<1>7. RequestOK(run, offset, since)
  <2>1. /\ run \in Request /\ run.kind = "Run" /\ run.at = "posted" /\ run.copy = r.copy
    BY <1>1 DEF Request
  <2>. HIDE DEF run
  <2>. QED
    BY <1>2, <2>1 DEF RequestOK
<1>. HIDE DEF e, p, run
<1>8. PagesOK(page', offset)
  BY <1>2, <1>3, <1>5, <1>6, PageSet
<1>9. RequestsOK(request', offset, since)
  <2>1. next # None => RequestOK(next, offset, since)
    BY <1>7
  <2>. HIDE DEF next
  <2>. QED
    BY <1>4, <2>1, RequestSet DEF EditorInv
<1>. QED
  BY <1>4, <1>8, <1>9 DEF EditorInv

LEMMA UnawaitedOK ==
  ASSUME NEW r, NEW o, NEW t, RequestOK(r, o, t), Unawaited(r) # None
  PROVE  RequestOK(Unawaited(r), o, t)
<1>1. Unawaited(r) = [r EXCEPT !.page = None] /\ r.at = "posted"
  BY DEF Unawaited
<1>2. r \in Request
  BY DEF RequestOK
<1>. DEFINE u == [r EXCEPT !.page = None]
<1>3. u \in Request /\ u.at = r.at /\ u.kind = r.kind /\ u.copy = r.copy
  BY <1>2 DEF Request
<1>. HIDE DEF u
<1>4. RequestOK(u, o, t)
  BY <1>1, <1>3 DEF RequestOK
<1>. QED
  BY <1>1, <1>4 DEF u

LEMMA IndexPreserves ==
  ASSUME EditorInv, NEW c \in Clients, Index(c)
  PROVE  EditorInv'
<1>1. /\ page' = [page EXCEPT ![c] = Opened(row)]
      /\ request' = [q \in Requests |->
           IF request[q] # None /\ request[q].page = c THEN Unawaited(request[q]) ELSE request[q]]
      /\ UNCHANGED <<agent, offset, now, saves, row, last, crossed, since>>
  BY DEF Index, tables
<1>2. PagesOK(page', offset)
  <2>1. PageOK(Opened(row), offset)
    BY Times, OpenedPage DEF EditorInv
  <2>. HIDE DEF Opened
  <2>. QED
    BY <1>1, <2>1, PageSet DEF EditorInv
<1>3. RequestsOK(request', offset, since)
  <2>1. \A q \in Requests : request'[q] # None => RequestOK(request'[q], offset, since)
    BY <1>1, UnawaitedOK DEF EditorInv, RequestsOK
  <2>. QED
    BY <1>1, <2>1 DEF RequestsOK, RequestOK
<1>. QED
  BY <1>1, <1>2, <1>3 DEF EditorInv

LEMMA FailPreserves ==
  ASSUME EditorInv, NEW q \in Requests, Fail(q)
  PROVE  EditorInv'
<1>1. PICK r \in {None, Unawaited(request[q])} : request' = [request EXCEPT ![q] = r]
  BY DEF Fail
<1>2. UNCHANGED <<page, agent, offset, now, saves, row, last, crossed, since>>
  BY DEF Fail, tables
<1>3. r # None => RequestOK(r, offset, since)
  BY <1>1, UnawaitedOK DEF Fail, EditorInv, RequestsOK
<1>4. RequestsOK(request', offset, since)
  BY <1>1, <1>3, RequestSet DEF EditorInv
<1>. QED
  BY <1>2, <1>4 DEF EditorInv

(***************************************************************************)
(* The server                                                              *)
(***************************************************************************)
LEMMA HandledOK ==
  ASSUME NEW o, NEW t, RequestsOK(request, o, t), NEW q \in Requests, request[q] # None, Handled(q)
  PROVE  RequestsOK(request', o, t)
<1>. DEFINE r == request[q]
            h == [r EXCEPT !.at = "handled", !.copy = None]
            next == IF r.page = None THEN None ELSE h
<1>1. r \in Request
  BY DEF RequestsOK, RequestOK
<1>2. request' = [request EXCEPT ![q] = next]
  BY DEF Handled, RequestsOK
<1>3. h \in Request /\ h.at = "handled" /\ h.page = r.page
  BY <1>1 DEF Request
<1>4. next # None => RequestOK(next, o, t)
  <2>. SUFFICES ASSUME r.page # None PROVE RequestOK(h, o, t)
    OBVIOUS
  <2>1. h.page \in Clients
    BY <1>1, <1>3 DEF Request
  <2>. HIDE DEF h
  <2>. QED
    BY <1>3, <2>1 DEF RequestOK
<1>. HIDE DEF next
<1>. QED
  BY <1>2, <1>4, RequestSet

LEMMA SavePreserves ==
  ASSUME EditorInv, NEW q \in Requests, Save(q)
  PROVE  EditorInv' /\ row'.posted = last'
<1>. DEFINE l == request[q].copy
<1>1. /\ request[q] # None /\ request[q].at = "posted" /\ request[q].kind = "Save" /\ Handled(q)
      /\ row' = Saved(l) /\ last' = ScheduleOf(l) /\ since' = now /\ crossed' \in BOOLEAN
      /\ UNCHANGED <<page, agent, offset, now, saves>>
  BY DEF Save, IsAt
<1>2. l \in Row /\ Unambiguous(l, offset)
  BY <1>1 DEF EditorInv, RequestsOK, RequestOK
<1>. HIDE DEF l
<1>3. UtcCopy(row', offset, now) /\ row'.posted = last' /\ last' \in Weekly
  BY <1>1, <1>2, Times, SavedCopy, ScheduleOfRow
<1>4. RequestsOK(request, offset, now) /\ AgentsOK(agent, offset, now)
  BY Times, AllLast DEF EditorInv
<1>5. RequestsOK(request', offset, now)
  BY <1>1, <1>4, HandledOK
<1>. QED
  BY <1>1, <1>3, <1>4, <1>5, Times DEF EditorInv

LEMMA RunPreserves ==
  ASSUME EditorInv, NEW q \in Requests, Run(q)
  PROVE  /\ EditorInv'
         /\ row' = row \/ row'.posted = request[q].copy.posted
<1>. DEFINE l == request[q].copy
            u == ConvertLocalToUtc(l, offset)
<1>1. /\ request[q] # None /\ request[q].at = "posted" /\ request[q].kind = "Run" /\ Handled(q)
      /\ row' \in {u, row}
      /\ UNCHANGED <<page, agent, offset, now, saves, last, crossed, since>>
  BY DEF Run, IsAt
<1>2. LocalCopy(l, offset, since)
  BY <1>1 DEF EditorInv, RequestsOK, RequestOK
<1>. HIDE DEF l
<1>3. UtcCopy(u, offset, since) /\ u.posted = l.posted
  BY <1>2, Times, ActivatedCopy
<1>. HIDE DEF u
<1>4. UtcCopy(row', offset, since)
  BY <1>1, <1>3 DEF EditorInv
<1>5. RequestsOK(request', offset, since)
  BY <1>1, HandledOK DEF EditorInv
<1>6. EditorInv'
  BY <1>1, <1>4, <1>5 DEF EditorInv
<1>. QED
  BY <1>1, <1>3, <1>6 DEF l

LEMMA ReadPreserves ==
  ASSUME EditorInv, NEW q \in Requests, GetJobScheduleModel(q)
  PROVE  /\ EditorInv'
         /\ request'[q].copy.posted = row.posted
<1>. DEFINE r == request[q]
            l == Shown(row)
            n == [r EXCEPT !.at = "answered", !.copy = l]
<1>1. /\ r # None /\ r.at = "handled"
      /\ request' = [request EXCEPT ![q].at = "answered", ![q].copy = l]
      /\ UNCHANGED <<page, agent, offset, now, saves, row, last, crossed, since>>
  BY DEF GetJobScheduleModel, tables
<1>2. r \in Request /\ r.page \in Clients /\ request \in [Requests -> Request \cup {None}]
  BY <1>1 DEF EditorInv, RequestsOK, RequestOK
<1>3. LocalCopy(l, offset, since) /\ l.posted = row.posted
  BY Times, ShownCopy DEF EditorInv, Shown
<1>. HIDE DEF l
<1>4. request' = [request EXCEPT ![q] = n]
  BY <1>1
<1>5. n \in Request /\ n.at = "answered" /\ n.page = r.page /\ n.copy = l
  BY <1>2, <1>3 DEF Request, LocalCopy
<1>. HIDE DEF n
<1>6. RequestOK(n, offset, since)
  BY <1>2, <1>3, <1>5 DEF RequestOK
<1>7. RequestsOK(request', offset, since)
  BY <1>4, <1>6, RequestSet DEF EditorInv
<1>8. EditorInv'
  BY <1>1, <1>7 DEF EditorInv
<1>. QED
  BY <1>2, <1>3, <1>4, <1>5, <1>8

(***************************************************************************)
(* Agents                                                                  *)
(***************************************************************************)
LEMMA ListPreserves ==
  ASSUME EditorInv, NEW a \in Agents, GetJobSchedules(a)
  PROVE  EditorInv' /\ agent'[a].copy = row
<1>. DEFINE r == [at |-> "listed", copy |-> row, start |-> None]
<1>1. /\ agent' = [agent EXCEPT ![a] = r]
      /\ UNCHANGED <<page, request, offset, now, saves, row, last, crossed, since>>
  BY DEF GetJobSchedules, tables
<1>2. UtcCopy(row, offset, since) /\ row \in Row /\ agent \in [Agents -> Listed \cup {None}]
  BY DEF EditorInv, UtcCopy, AgentsOK
<1>3. ListedOK(r, offset, since) /\ r.copy = row
  BY <1>2 DEF ListedOK, Listed
<1>. HIDE DEF r
<1>4. AgentsOK(agent', offset, since)
  BY <1>1, <1>3, AgentSet DEF EditorInv
<1>5. EditorInv'
  BY <1>1, <1>4 DEF EditorInv
<1>. QED
  BY <1>1, <1>2, <1>3, <1>5

LEMMA StartPreserves ==
  ASSUME EditorInv, NEW a \in Agents, StartJob(a)
  PROVE  EditorInv' /\ row' = agent[a].copy /\ agent'[a].copy = agent[a].copy
<1>. DEFINE r == agent[a]
            n == [r EXCEPT !.at = "running", !.start = now]
<1>1. /\ r # None /\ row' = r.copy /\ since' = now
      /\ agent' = [agent EXCEPT ![a].at = "running", ![a].start = now]
      /\ UNCHANGED <<page, request, offset, now, saves, last, crossed>>
  BY DEF StartJob
<1>2. /\ ListedOK(r, offset, since) /\ r \in Listed /\ UtcCopy(r.copy, offset, since)
      /\ now \in Instants /\ agent \in [Agents -> Listed \cup {None}]
  BY <1>1 DEF EditorInv, AgentsOK, ListedOK
<1>3. RequestsOK(request, offset, now) /\ AgentsOK(agent, offset, now) /\ UtcCopy(r.copy, offset, now)
  BY <1>2, Times, AllLast, CopiesLast DEF EditorInv
<1>4. agent' = [agent EXCEPT ![a] = n]
  BY <1>1
<1>5. n \in Listed /\ n.copy = r.copy /\ n.start = now
  BY <1>2 DEF Listed
<1>. HIDE DEF n, r
<1>6. ListedOK(n, offset, now)
  BY <1>3, <1>5, Times DEF ListedOK
<1>7. AgentsOK(agent', offset, now)
  BY <1>3, <1>4, <1>6, AgentSet
<1>8. EditorInv'
  BY <1>1, <1>3, <1>7, Times DEF EditorInv
<1>. QED
  BY <1>1, <1>2, <1>4, <1>5, <1>8 DEF r

LEMMA FinishPreserves ==
  ASSUME EditorInv, NEW a \in Agents, FinishJob(a)
  PROVE  EditorInv' /\ row'.posted = agent[a].copy.posted
<1>. DEFINE r == agent[a]
            l == r.copy
            u == [l EXCEPT !.next = GetNextExecution(l, r.start)]
<1>1. /\ r # None /\ r.at = "running" /\ row' = u
      /\ agent' = [agent EXCEPT ![a] = None]
      /\ UNCHANGED <<page, request, offset, now, saves, last, crossed, since>>
  BY DEF FinishJob
<1>2. ListedOK(r, offset, since)
  BY <1>1 DEF EditorInv, AgentsOK
<1>3. UtcCopy(l, offset, since) /\ r.start \in Int /\ r.start <= since /\ l \in Row
  BY <1>1, <1>2 DEF ListedOK, UtcCopy
<1>4. UtcCopy(u, offset, since)
  BY <1>3, Times, FinishedCopy
<1>5. u.posted = l.posted
  BY <1>3 DEF Row
<1>. HIDE DEF u, l, r
<1>6. AgentsOK(agent', offset, since)
  BY <1>1, AgentSet DEF EditorInv
<1>7. EditorInv'
  BY <1>1, <1>4, <1>6 DEF EditorInv
<1>. QED
  BY <1>1, <1>5, <1>7 DEF l, r

LEMMA LeavePreserves ==
  ASSUME EditorInv, NEW a \in Agents, Leave(a)
  PROVE  EditorInv'
<1>1. /\ agent' = [agent EXCEPT ![a] = None]
      /\ UNCHANGED <<page, request, offset, now, saves, row, last, crossed, since>>
  BY DEF Leave, tables
<1>2. AgentsOK(agent', offset, since)
  BY <1>1, AgentSet DEF EditorInv
<1>. QED
  BY <1>1, <1>2 DEF EditorInv

LEMMA EditorInvInductive ==
  ASSUME MidnightIsClear
  PROVE  /\ Init => EditorInv
         /\ EditorInv /\ [Next]_vars => EditorInv'
<1>1. Init => EditorInv
  BY InitEstablishes
<1>2. ASSUME EditorInv, [Next]_vars PROVE EditorInv'
  <2>. USE <1>2
  <2>1. ASSUME NEW c \in Clients, Edit(c) \/ SaveJobSchedule(c) \/ RunJob(c) \/ Index(c)
        PROVE  EditorInv'
    BY <2>1, EditPreserves, PostPreserves, IndexPreserves DEF SaveJobSchedule, RunJob
  <2>2. ASSUME NEW q \in Requests,
               \/ Save(q) \/ Run(q) \/ GetJobScheduleModel(q)
               \/ updateFromModel(q) \/ Fail(q)
        PROVE  EditorInv'
    BY <2>2, SavePreserves, RunPreserves, ReadPreserves, AnswerPreserves, FailPreserves
  <2>3. ASSUME NEW a \in Agents, GetJobSchedules(a) \/ StartJob(a) \/ FinishJob(a) \/ Leave(a)
        PROVE  EditorInv'
    BY <2>3, ListPreserves, StartPreserves, FinishPreserves, LeavePreserves
  <2>4. CASE Tick
    <3>1. now' \in Instants /\ now <= now'
          /\ UNCHANGED <<page, request, agent, offset, saves, row, last, crossed, since>>
      BY <2>4, InstantsAssumption, Times DEF Tick, tables
    <3>2. since <= now'
      BY <3>1, InstantsAssumption DEF EditorInv
    <3>. QED
      BY <3>1, <3>2 DEF EditorInv
  <2>5. CASE UNCHANGED vars
    BY <2>5 DEF vars, tables, EditorInv
  <2>. QED
    BY <2>1, <2>2, <2>3, <2>4, <2>5 DEF Next
<1>. QED
  BY <1>1, <1>2

-----------------------------------------------------------------------------
(***************************************************************************)
(* Who can undo an edit                                                    *)
(***************************************************************************)
(* A request with a copy of the row to post or to activate. *)
HasCopy(r) ==
  /\ r # None
  /\ \/ r.kind = "Run" /\ r.at = "posted"
     \/ r.kind = "Save" /\ r.at = "answered" /\ r.thenRun

(* If nobody held a copy of the row when the last Save was stored, all     *)
(* that may be written are copies of what it stored.                       *)
LastInv ==
  ~crossed =>
    /\ row.posted = last
    /\ \A a \in Agents : agent[a] # None => agent[a].copy.posted = last
    /\ \A q \in Requests : HasCopy(request[q]) => request[q].copy.posted = last

LEMMA WhoHasCopy ==
  /\ AgentsWithCopy = {a \in Agents : agent[a] # None}
  /\ RequestsWithCopy = {q \in Requests : HasCopy(request[q])}
<1>1. \A q \in Requests : q \in RequestsWithCopy <=> HasCopy(request[q])
  BY DEF RequestsWithCopy, IsAt, HasCopy
<1>. QED
  BY <1>1 DEF AgentsWithCopy, RequestsWithCopy

(* A step of the pages brings no copy of its own. *)
LEMMA OldCopies ==
  ASSUME LastInv, UNCHANGED <<row, last, crossed, agent>>,
         \A q \in Requests : HasCopy(request'[q]) =>
           HasCopy(request[q]) /\ request'[q].copy = request[q].copy
  PROVE  LastInv'
BY DEF LastInv, HasCopy

LEMMA EditKeepsLast ==
  ASSUME EditorInv, LastInv, NEW c \in Clients, Edit(c)
  PROVE  LastInv'
BY OldCopies DEF Edit, tables

LEMMA PostKeepsLast ==
  ASSUME EditorInv, LastInv, NEW c \in Clients, NEW q \in Requests, NEW b \in BOOLEAN,
         internalSaveJobSchedule(c, q, b)
  PROVE  LastInv'
<1>1. /\ request' = [request EXCEPT ![q] =
           [page |-> c, kind |-> "Save", thenRun |-> b, at |-> "posted", copy |-> page[c].copy]]
      /\ UNCHANGED <<row, last, crossed, agent>>
  BY DEF internalSaveJobSchedule, tables
<1>2. ASSUME NEW p \in Requests, HasCopy(request'[p])
      PROVE  HasCopy(request[p]) /\ request'[p].copy = request[p].copy
  <2>1. p # q
    BY <1>1, <1>2 DEF HasCopy, EditorInv, RequestsOK
  <2>. QED
    BY <1>1, <1>2, <2>1 DEF EditorInv, RequestsOK
<1>. QED
  BY <1>1, <1>2, OldCopies

LEMMA AnswerKeepsLast ==
  ASSUME EditorInv, LastInv, NEW q \in Requests, updateFromModel(q)
  PROVE  LastInv'
<1>. DEFINE r == request[q]
            n == IF r.kind = "Save" /\ r.thenRun
                   THEN [r EXCEPT !.kind = "Run", !.at = "posted"] ELSE None
<1>1. /\ r # None /\ r.at = "answered" /\ request' = [request EXCEPT ![q] = n]
      /\ UNCHANGED <<row, last, crossed, agent>>
  BY DEF updateFromModel, tables
<1>2. r \in Request
  BY <1>1 DEF EditorInv, RequestsOK, RequestOK
<1>3. HasCopy(n) => HasCopy(r) /\ n.copy = r.copy
  BY <1>1, <1>2 DEF HasCopy, Request
<1>. HIDE DEF n
<1>4. ASSUME NEW p \in Requests, HasCopy(request'[p])
      PROVE  HasCopy(request[p]) /\ request'[p].copy = request[p].copy
  BY <1>1, <1>3, <1>4 DEF EditorInv, RequestsOK
<1>. QED
  BY <1>1, <1>4, OldCopies

LEMMA UnawaitedCopy ==
  ASSUME NEW r \in Request, r # None, HasCopy(Unawaited(r))
  PROVE  HasCopy(r) /\ Unawaited(r).copy = r.copy
<1>1. r.at = "posted" /\ Unawaited(r) = [r EXCEPT !.page = None]
  BY DEF Unawaited, HasCopy
<1>2. Unawaited(r).kind = r.kind /\ Unawaited(r).at = r.at /\ Unawaited(r).copy = r.copy
  BY <1>1 DEF Request
<1>. QED
  BY <1>1, <1>2 DEF HasCopy

LEMMA IndexKeepsLast ==
  ASSUME EditorInv, LastInv, NEW c \in Clients, Index(c)
  PROVE  LastInv'
<1>1. /\ request' = [q \in Requests |->
           IF request[q] # None /\ request[q].page = c THEN Unawaited(request[q]) ELSE request[q]]
      /\ UNCHANGED <<row, last, crossed, agent>>
  BY DEF Index, tables
<1>2. ASSUME NEW q \in Requests, HasCopy(request'[q])
      PROVE  HasCopy(request[q]) /\ request'[q].copy = request[q].copy
  <2>1. request[q] # None => request[q] \in Request
    BY DEF EditorInv, RequestsOK, RequestOK
  <2>. QED
    BY <1>1, <1>2, <2>1, UnawaitedCopy
<1>. QED
  BY <1>1, <1>2, OldCopies

LEMMA FailKeepsLast ==
  ASSUME EditorInv, LastInv, NEW q \in Requests, Fail(q)
  PROVE  LastInv'
<1>1. PICK r \in {None, Unawaited(request[q])} : request' = [request EXCEPT ![q] = r]
  BY DEF Fail
<1>2. UNCHANGED <<row, last, crossed, agent>> /\ request[q] \in Request /\ request[q] # None
  BY DEF Fail, tables, EditorInv, RequestsOK, RequestOK
<1>3. HasCopy(r) => HasCopy(request[q]) /\ r.copy = request[q].copy
  <2>1. ~HasCopy(None)
    BY DEF HasCopy
  <2>. QED
    BY <1>1, <1>2, <2>1, UnawaitedCopy
<1>4. ASSUME NEW p \in Requests, HasCopy(request'[p])
      PROVE  HasCopy(request[p]) /\ request'[p].copy = request[p].copy
  BY <1>1, <1>3, <1>4 DEF EditorInv, RequestsOK
<1>. QED
  BY <1>2, <1>4, OldCopies

(* What the server has handled holds no copy until it is read. *)
LEMMA HandledCopy ==
  ASSUME EditorInv, NEW q \in Requests, request[q] # None, Handled(q)
  PROVE  /\ ~HasCopy(request'[q])
         /\ \A p \in Requests \ {q} : request'[p] = request[p]
<1>. DEFINE r == request[q]
            h == [r EXCEPT !.at = "handled", !.copy = None]
            n == IF r.page = None THEN None ELSE h
<1>1. r \in Request /\ request' = [request EXCEPT ![q] = n] /\ request'[q] = n
  BY DEF Handled, EditorInv, RequestsOK, RequestOK
<1>2. ~HasCopy(n)
  BY <1>1 DEF HasCopy, Request
<1>. HIDE DEF n
<1>. QED
  BY <1>1, <1>2

LEMMA SaveKeepsLast ==
  ASSUME EditorInv, NEW q \in Requests, Save(q)
  PROVE  LastInv'
<1>1. /\ request[q] # None /\ Handled(q) /\ UNCHANGED agent
      /\ crossed' = (AgentsWithCopy \cup RequestsWithCopy # {})
  BY DEF Save, IsAt
<1>2. row'.posted = last'
  BY SavePreserves
<1>3. ASSUME ~crossed'
      PROVE  /\ \A a \in Agents : agent[a] = None
             /\ \A p \in Requests : ~HasCopy(request[p])
  BY <1>1, <1>3, WhoHasCopy
<1>4. ASSUME ~crossed', NEW p \in Requests PROVE ~HasCopy(request'[p])
  BY <1>1, <1>3, <1>4, HandledCopy
<1>. QED
  BY <1>1, <1>2, <1>3, <1>4 DEF LastInv, HasCopy

LEMMA RunKeepsLast ==
  ASSUME EditorInv, LastInv, NEW q \in Requests, Run(q)
  PROVE  LastInv'
<1>1. /\ request[q] # None /\ HasCopy(request[q]) /\ Handled(q)
      /\ UNCHANGED <<agent, last, crossed>>
  BY DEF Run, IsAt, HasCopy
<1>2. row' = row \/ row'.posted = request[q].copy.posted
  BY RunPreserves
<1>3. ASSUME NEW p \in Requests, HasCopy(request'[p])
      PROVE  HasCopy(request[p]) /\ request'[p] = request[p]
  BY <1>1, <1>3, HandledCopy
<1>. QED
  BY <1>1, <1>2, <1>3 DEF LastInv, HasCopy

LEMMA ReadKeepsLast ==
  ASSUME EditorInv, LastInv, NEW q \in Requests, GetJobScheduleModel(q)
  PROVE  LastInv'
<1>1. UNCHANGED <<row, agent, last, crossed>> /\ request'[q].copy.posted = row.posted
  BY ReadPreserves DEF GetJobScheduleModel, tables
<1>2. \A p \in Requests \ {q} : request'[p] = request[p]
  BY DEF GetJobScheduleModel, EditorInv, RequestsOK
<1>. QED
  BY <1>1, <1>2 DEF LastInv, HasCopy

LEMMA AgentsKeepLast ==
  ASSUME EditorInv, LastInv, NEW a \in Agents,
         GetJobSchedules(a) \/ StartJob(a) \/ FinishJob(a) \/ Leave(a)
  PROVE  LastInv'
<1>1. UNCHANGED <<request, last, crossed>> /\ \A b \in Agents \ {a} : agent'[b] = agent[b]
  BY DEF GetJobSchedules, StartJob, FinishJob, Leave, tables, EditorInv, AgentsOK
<1>2. CASE GetJobSchedules(a)
  BY <1>1, <1>2, ListPreserves DEF GetJobSchedules, tables, LastInv, HasCopy
<1>3. CASE StartJob(a)
  <2>1. agent[a] # None
    BY <1>3 DEF StartJob
  <2>. QED
    BY <1>1, <1>3, <2>1, StartPreserves DEF LastInv, HasCopy
<1>4. CASE FinishJob(a)
  <2>1. agent[a] # None /\ agent'[a] = None
    BY <1>4 DEF FinishJob, EditorInv, AgentsOK
  <2>. QED
    BY <1>1, <1>4, <2>1, FinishPreserves DEF LastInv, HasCopy
<1>5. CASE Leave(a)
  <2>1. agent'[a] = None /\ UNCHANGED row
    BY <1>5 DEF Leave, tables, EditorInv, AgentsOK
  <2>. QED
    BY <1>1, <2>1 DEF LastInv, HasCopy
<1>. QED
  BY <1>2, <1>3, <1>4, <1>5

LEMMA LastInvInductive ==
  ASSUME MidnightIsClear
  PROVE  /\ Init => EditorInv /\ LastInv
         /\ EditorInv /\ LastInv /\ [Next]_vars => (EditorInv /\ LastInv)'
<1>1. ASSUME Init PROVE LastInv
  <2>1. offset \in Offset /\ now \in Int /\ last \in Weekly /\ Unambiguous(last, offset)
    BY <1>1, OffsetsAssumption, InstantsAssumption, SelectableAssumption
    DEF Init, Offset, MidnightIsClear
  <2>2. row.posted = ScheduleOf(last)
    BY <1>1, <2>1, SavedCopy DEF Init
  <2>3. ScheduleOf(last) = last
    BY <2>1 DEF ScheduleOf, Weekly
  <2>. QED
    BY <1>1, <2>2, <2>3 DEF Init, LastInv, HasCopy
<1>2. ASSUME EditorInv, LastInv, [Next]_vars PROVE LastInv'
  <2>. USE <1>2
  <2>1. ASSUME NEW c \in Clients, Edit(c) \/ SaveJobSchedule(c) \/ RunJob(c) \/ Index(c)
        PROVE  LastInv'
    BY <2>1, EditKeepsLast, PostKeepsLast, IndexKeepsLast DEF SaveJobSchedule, RunJob
  <2>2. ASSUME NEW q \in Requests,
               \/ Save(q) \/ Run(q) \/ GetJobScheduleModel(q)
               \/ updateFromModel(q) \/ Fail(q)
        PROVE  LastInv'
    BY <2>2, SaveKeepsLast, RunKeepsLast, ReadKeepsLast, AnswerKeepsLast, FailKeepsLast
  <2>3. ASSUME NEW a \in Agents, GetJobSchedules(a) \/ StartJob(a) \/ FinishJob(a) \/ Leave(a)
        PROVE  LastInv'
    BY <2>3, AgentsKeepLast
  <2>4. CASE Tick
    BY <2>4 DEF Tick, tables, LastInv, HasCopy
  <2>5. CASE UNCHANGED vars
    BY <2>5 DEF vars, tables, LastInv, HasCopy
  <2>. QED
    BY <2>1, <2>2, <2>3, <2>4, <2>5 DEF Next
<1>. QED
  BY <1>1, <1>2, EditorInvInductive

-----------------------------------------------------------------------------
(***************************************************************************)
(* Wherever the server is ahead of UTC, and behind it away from midnight,  *)
(* the stored schedule means one that some Save posted, in whatever order  *)
(* any number of pages and agents write their copies of the row back, for  *)
(* days of any length and every offset shorter than a day.                 *)
(***************************************************************************)
THEOREM ScheduleKeepsMeaning ==
  ASSUME MidnightIsClear
  PROVE  Spec => []StoredIsChosen
<1>1. ASSUME NEW o \in Offset, NEW r, UtcCopy(r, o, since), NEW t \in Int
      PROVE  OnSchedule(r, t) <=> OnSchedule(r.posted, t + o)
  BY <1>1, SameMeaning DEF UtcCopy, Row
<1>2. 0 .. NumDays * SecondsInDay - 1 \subseteq Int
  BY DayLength DEF NumDays
<1>3. EditorInv => StoredIsChosen
  BY <1>1, <1>2, Times DEF EditorInv, StoredIsChosen, Means
<1>. QED
  BY <1>3, EditorInvInductive, PTL DEF Spec

(***************************************************************************)
(* There, an edit is undone only by a copy of the row that an agent or a   *)
(* Run held when it was stored.                                            *)
(***************************************************************************)
THEOREM OnlyEarlierCopiesUndo ==
  ASSUME MidnightIsClear
  PROVE  Spec => []LastSaveStands
<1>1. ASSUME NEW o \in Offset, NEW r, UtcCopy(r, o, since), NEW t \in Int
      PROVE  OnSchedule(r, t) <=> OnSchedule(r.posted, t + o)
  BY <1>1, SameMeaning DEF UtcCopy, Row
<1>2. 0 .. NumDays * SecondsInDay - 1 \subseteq Int
  BY DayLength DEF NumDays
<1>3. EditorInv => Means(row, row.posted)
  BY <1>1, <1>2, Times DEF EditorInv, Means
<1>4. EditorInv /\ LastInv => LastSaveStands
  BY <1>3 DEF LastInv, LastSaveStands
<1>. QED
  BY <1>4, LastInvInductive, PTL DEF Spec

(***************************************************************************)
(* There, no slot of the stored schedule is skipped: NextExecutionTime is  *)
(* one of them, and none lies between it and the last start of the job or  *)
(* Save, however old the copy it was written with.                         *)
(***************************************************************************)
THEOREM EverySlotIsKept ==
  ASSUME MidnightIsClear
  PROVE  Spec => []NoSlotSkipped
<1>1. EditorInv => NoSlotSkipped
  <2>. SUFFICES ASSUME EditorInv PROVE NoSlotSkipped
    OBVIOUS
  <2>1. /\ row \in Row /\ row.posted \in Weekly /\ IsUtcOf(row, row.posted, offset)
        /\ SlotKept(row.next, row.posted, offset, since)
    BY DEF EditorInv, UtcCopy, Row
  <2>2. offset \in Offset /\ since \in Int
    BY Times
  <2>3. \A t \in Int : OnSchedule(row, t) <=> OnSchedule(row.posted, t + offset)
    BY <2>1, <2>2, SameMeaning
  <2>4. row.days = {} <=> row.posted.days = {}
    BY <2>1, <2>2, UtcDaysEmpty
  <2>5. ASSUME row.next # None
        PROVE  /\ OnSchedule(row, row.next)
               /\ \A t \in since + 1 .. row.next - 1 : ~OnSchedule(row, t)
    <3>1. /\ row.next \in Int /\ OnSchedule(row.posted, row.next + offset)
          /\ \A u \in Int : since < u /\ u < row.next => ~OnSchedule(row.posted, u + offset)
      BY <2>1, <2>5 DEF SlotKept
    <3>2. \A t \in since + 1 .. row.next - 1 : t \in Int /\ since < t /\ t < row.next
      BY <2>2, <3>1
    <3>. QED
      BY <2>3, <3>1, <3>2
  <2>6. row.next = None <=> row.days = {}
    BY <2>1, <2>4 DEF SlotKept
  <2>. QED
    BY <2>5, <2>6 DEF NoSlotSkipped
<1>. QED
  BY <1>1, EditorInvInductive, PTL DEF Spec

(***************************************************************************)
(* There, the day loop computes the operator of module Schedule, in which  *)
(* the agents and pages of ScriptRunner are modelled.                      *)
(***************************************************************************)
THEOREM DayLoopIsSchedule ==
  ASSUME MidnightIsClear
  PROVE  Spec => []DayLoopMeetsSchedule
<1>1. EditorInv => row \in Row /\ now \in Int
  BY Times DEF EditorInv, UtcCopy
<1>2. EditorInv => DayLoopMeetsSchedule
  BY <1>1, DayLoopIsCoarse DEF DayLoopMeetsSchedule
<1>. QED
  BY <1>2, EditorInvInductive, PTL DEF Spec

(***************************************************************************)
(* There, the fields of every page show the schedule its user wants, and   *)
(* its next Save posts that one unless an answer has brought another.      *)
(***************************************************************************)
THEOREM FieldsStayTrue ==
  ASSUME MidnightIsClear
  PROVE  Spec => []FieldsShowSchedule
<1>1. EditorInv => FieldsShowSchedule
  BY DEF EditorInv, PagesOK, PageOK, FieldsShowSchedule
<1>. QED
  BY <1>1, EditorInvInductive, PTL DEF Spec

(***************************************************************************)
(* There, saving what a page shows of the row leaves the stored schedule   *)
(* as it was, as TestScheduleConversionHelper wants.                       *)
(***************************************************************************)
THEOREM UnchangedSaveKeepsSchedule ==
  ASSUME MidnightIsClear
  PROVE  Spec => RoundTrip
<1>1. ASSUME EditorInv, NEW q \in Requests, Save(q), ShowsStored(q)
      PROVE  ScheduleOf(row') = ScheduleOf(row)
  <2>. DEFINE l == request[q].copy
  <2>1. l \in Row /\ Unambiguous(l, offset) /\ row' = Saved(l)
    BY <1>1 DEF Save, IsAt, EditorInv, RequestsOK, RequestOK
  <2>2. UtcCopy(row, offset, since) /\ offset \in Offset /\ since \in Int /\ now \in Int
    BY <1>1, Times DEF EditorInv
  <2>3. LocalCopy(Shown(row), offset, since) /\ Shown(row).posted = row.posted
    BY <2>2, ShownCopy DEF Shown
  <2>4. ScheduleOf(l) = row.posted
    BY <1>1, <2>3 DEF ShowsStored, LocalCopy
  <2>. HIDE DEF l
  <2>5. UtcCopy(row', offset, now) /\ row'.posted = row.posted
    BY <2>1, <2>2, <2>4, SavedCopy
  <2>6. row.posted \in Weekly /\ IsUtcOf(row, row.posted, offset) /\ IsUtcOf(row', row.posted, offset)
    BY <2>2, <2>5 DEF UtcCopy, Row
  <2>7. row'.days = row.days /\ row'.time = row.time
    BY <2>2, <2>6, UtcFormIsUnique
  <2>. QED
    BY <2>7 DEF ScheduleOf
<1>2. EditorInv /\ [Next]_vars
        => [\A q \in Requests :
              Save(q) /\ ShowsStored(q) => ScheduleOf(row') = ScheduleOf(row)]_vars
  BY <1>1
<1>. QED
  BY <1>2, EditorInvInductive, PTL DEF Spec, RoundTrip

(***************************************************************************)
(* There, every copy of the row, page and request fits its type.           *)
(***************************************************************************)
THEOREM EditorTypeCorrect ==
  ASSUME MidnightIsClear
  PROVE  Spec => []TypeOK
<1>1. EditorInv => TypeOK
  BY DEF EditorInv, UtcCopy, PagesOK, RequestsOK, AgentsOK, TypeOK
<1>. QED
  BY <1>1, EditorInvInductive, PTL DEF Spec

(***************************************************************************)
(* ConvertLocalToUtc and back, where MidnightIsClear does not hold: behind *)
(* UTC every schedule for local midnight comes back a day late, whatever   *)
(* the offset and the length of the day, and is another one unless it has  *)
(* no day or every day.  But for those two, the theorems above assume no   *)
(* more than ShiftSchedule's guess makes them.                             *)
(***************************************************************************)
THEOREM BehindUtcMidnightMoves ==
  ASSUME NEW s \in Row, NEW o \in Offset, ~Unambiguous(s, o)
  PROVE  LET l == ConvertUtcToLocal(ConvertLocalToUtc(s, o), o)
         IN  /\ l.days = ShiftDaysRight(s.days) /\ l.time = s.time
             /\ l.days = s.days <=> s.days \in {{}, ExecutionDay}
<1>. DEFINE u == ConvertLocalToUtc(s, o)
            q == [u EXCEPT !.next = Plus(u.next, o)]
            l == ConvertUtcToLocal(u, o)
<1>1. o \in Int /\ o < 0 /\ o >= -(SecondsInDay - 1) /\ s.time = 0 /\ s.days \in SUBSET ExecutionDay
  BY DayLength DEF Unambiguous, Offset, Row
<1>2. u \in Row /\ IsMovedTo(u, s, s.time - o)
  BY LocalToUtc DEF IsUtcOf
<1>3. s.time - o = -o /\ -o \in TimeOfDay
  BY <1>1, DayLength DEF TimeOfDay
<1>4. u.days = s.days /\ u.time = -o
  BY <1>2, <1>3 DEF IsMovedTo
<1>. HIDE DEF u
<1>5. q.days = s.days /\ DOMAIN q = {"days", "time", "next", "posted"}
  BY <1>2, <1>4 DEF Row
<1>6. u.time + o = 0 /\ ~(0 >= SecondsInDay)
  BY <1>1, <1>4, DayLength
<1>7. l = ShiftSchedule(q, 0, o)
  BY <1>6 DEF ConvertUtcToLocal
<1>. HIDE DEF q, l
<1>8. l = [q EXCEPT !.days = ShiftDaysRight(s.days), !.time = 0]
  BY <1>1, <1>5, <1>6, <1>7 DEF ShiftSchedule
<1>9. l.days = ShiftDaysRight(s.days) /\ l.time = s.time
  BY <1>1, <1>5, <1>8
<1>. QED
  BY <1>1, <1>9, DaysMove DEF l, u
=============================================================================
