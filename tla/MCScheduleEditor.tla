-------------------------- MODULE MCScheduleEditor --------------------------
(* Model checking of ScheduleEditor: half days of two hours of two minutes, *)
(* schedules at the start, middle and end of the day and of the week.      *)
EXTENDS ScheduleEditor, TLC

Around == {-3, -1, 0, 2}
Behind == {-3, -1}

Clear == [o \in Around |->
  CASE o = 2 -> {[days |-> {6}, time |-> 0], [days |-> {0, 3, 6}, time |-> 4]}
    [] o = -1 -> {[days |-> {5, 6}, time |-> 3]}
    [] o = 0 -> {[days |-> {}, time |-> 5]}
    [] o = -3 -> {[days |-> {6}, time |-> 7]}]
Midnight == [o \in Behind |-> {[days |-> d, time |-> 0] : d \in {{0}, {3, 6}}}]

Times == {3, 53}
Symmetric == Permutations(Clients) \cup Permutations(Requests)
=============================================================================
