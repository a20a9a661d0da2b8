--------------------------- MODULE ScheduleEditor ---------------------------
(***************************************************************************)
(* One job's schedule on its way between users, pages, the table and       *)
(* agents.                                                                 *)
(*                                                                         *)
(* A page has fields for the hours, the minutes and each day of the        *)
(* schedule.  They are filled when the page opens and change the schedule  *)
(* of the page's copy of the job; what a request answers changes that      *)
(* copy, but not the fields.  JobScheduleController converts the schedule  *)
(* from local time to UTC when it saves and back when it shows.  Agents    *)
(* compute the next run from the UTC schedule.                             *)
(*                                                                         *)
(* Pages and agents write back whole copies of the row read earlier.       *)
(* Whether a job may start or be activated is decided by its status, which *)
(* module JobScheduleRepository has: here each attempt may succeed or be   *)
(* refused.  The job is enabled throughout, and the server's offset from   *)
(* UTC stays the same.                                                     *)
(***************************************************************************)
EXTENDS ExecutionDays

CONSTANTS
  Clients,    \* pages open for the job
  Agents,
  Requests,   \* bound on the requests in flight
  MaxSaves,   \* bound on the number of times users press Save or Run
  Hours,      \* in half a day
  Minutes,    \* in an hour
  Offsets,    \* the offsets of the server's local time from UTC
  Selectable, \* for each offset, the schedules users choose from, in local time
  Instants    \* the times at which something happens

ASSUME ClockAssumption ==
  /\ Hours \in Nat \ {0} /\ Minutes \in Nat \ {0}
  /\ SecondsInDay = 2 * Hours * Minutes
ASSUME OffsetsAssumption == Offsets \subseteq -(SecondsInDay - 1) .. SecondsInDay - 1
ASSUME SelectableAssumption == Selectable \in [Offsets -> SUBSET Weekly]
ASSUME InstantsAssumption == Instants \subseteq Nat
ASSUME MaxSavesAssumption == MaxSaves \in Nat

VARIABLES
  row,       \* the stored schedule and NextExecutionTime, in UTC
  page,      \* the page of each browser
  request,   \* the requests in flight, Save and Run
  agent,     \* the agents' copies of the row
  offset,    \* LocalOffset
  now,       \* DateTime.UtcNow
  saves,     \* presses of Save and Run so far
  last,      \* for the properties: the schedule posted by the last Save stored,
  crossed,   \* whether someone held a copy of the row to write back then,
  since      \* and when a run of the job started or a Save was stored last

tables == <<row, last, crossed, since>>
vars == <<page, request, agent, offset, now, saves, tables>>

(* A copy of the row, in UTC or in local time.  Its schedule was posted by *)
(* the Save that stored the row: that is for the properties.               *)
Row == [days : SUBSET ExecutionDay, time : TimeOfDay, next : Int \cup {None}, posted : Weekly]

ScheduleOf(r) == [days |-> r.days, time |-> r.time]

-----------------------------------------------------------------------------
(***************************************************************************)
(* The fields of the page.  Times are in minutes.                          *)
(***************************************************************************)
Fields ==
  [days : SUBSET ExecutionDay, hours : 1 .. Hours, minutes : 0 .. Minutes - 1,
   meridian : {"AM", "PM"}]

FieldsOfNoonAsAM(s) ==
  LET hours == s.time \div Minutes
  IN  [days |-> s.days,
       hours |-> IF hours = 0 THEN Hours ELSE IF hours > Hours THEN hours - Hours ELSE hours,
       minutes |-> s.time % Minutes,
       meridian |-> IF hours > Hours THEN "PM" ELSE "AM"]

(* What the page fills them with when it opens. *)
FieldsOf(s) ==
  LET hours == s.time \div Minutes
  IN  [days |-> s.days,
       hours |-> IF hours = 0 THEN Hours ELSE IF hours > Hours THEN hours - Hours ELSE hours,
       minutes |-> s.time % Minutes,
       meridian |-> IF hours >= Hours THEN "PM" ELSE "AM"]

(* setTime: ExecutionTime from the three fields. *)
setTime(f) ==
  LET hours == CASE f.meridian = "PM" /\ f.hours # Hours -> f.hours + Hours
                 [] f.meridian = "AM" /\ f.hours = Hours -> 0
                 [] OTHER -> f.hours
  IN  hours * Minutes + f.minutes

Clock(f) == <<f.hours, f.minutes, f.meridian>>

(* The buttons of the days set and clear their bits of ExecutionSchedule. *)
SetAndClear(schedule, old, new) == (schedule \cup (new \ old)) \ (old \ new)

(* A schedule as a reader of the fields, with a clock of twelve hours,     *)
(* understands it: a definition for the properties.                        *)
Meant(f) ==
  [days |-> f.days,
   time |-> ((f.hours % Hours) + (IF f.meridian = "PM" THEN Hours ELSE 0)) * Minutes + f.minutes]

-----------------------------------------------------------------------------
(* What Save stores.  The next run is computed in local time, before the   *)
(* conversion.                                                             *)
Saved(s) ==
  ConvertLocalToUtc([days |-> s.days, time |-> s.time,
                     next |-> GetNextExecution(s, now + offset),
                     posted |-> ScheduleOf(s)], offset)

(* GetJobScheduleModel *)
Shown(r) == ConvertUtcToLocal(r, offset)

(* A page as it opens.  For the properties, wanted is the schedule the user *)
(* saw or set last, and the page is apart once an answer has brought a row *)
(* saved with another one.                                                 *)
Opened(r) ==
  [copy |-> Shown(r), fields |-> FieldsOf(Shown(r)), wanted |-> r.posted, apart |-> FALSE]

(* The job has been created, and every page is open for it. *)
Init ==
  /\ now \in Instants
  /\ offset \in Offsets
  /\ last \in Selectable[offset]
  /\ row = Saved(last)
  /\ page = [c \in Clients |-> Opened(row)]
  /\ request = [q \in Requests |-> None]
  /\ agent = [a \in Agents |-> None]
  /\ crossed = FALSE
  /\ since = now
  /\ saves = 0

-----------------------------------------------------------------------------
(***************************************************************************)
(* Pages                                                                   *)
(***************************************************************************)
IsAt(q, kind, step) == request[q] # None /\ request[q].kind = kind /\ request[q].at = step

(* A page can be neither edited nor clicked until its Save is answered. *)
Masked(c) == \E q \in Requests : request[q] # None /\ request[q].page = c /\ request[q].kind = "Save"

(* The user sets the fields to a schedule; only those changed take effect. *)
Edit(c) ==
  /\ ~Masked(c)
  /\ \E s \in Selectable[offset] :
       LET old == page[c].fields
           new == FieldsOf(s)
       IN  page' = [page EXCEPT
             ![c].fields = new,
             ![c].wanted = s,
             ![c].copy.days = SetAndClear(@, old.days, new.days),
             ![c].copy.time = IF Clock(new) = Clock(old) THEN @ ELSE setTime(new)]
  /\ UNCHANGED <<request, agent, offset, now, saves, tables>>

internalSaveJobSchedule(c, q, thenRun) ==
  /\ ~Masked(c) /\ request[q] = None /\ saves < MaxSaves
  /\ request' = [request EXCEPT ![q] = [page |-> c, kind |-> "Save", thenRun |-> thenRun,
                                        at |-> "posted", copy |-> page[c].copy]]
  /\ saves' = saves + 1
  /\ UNCHANGED <<page, agent, offset, now, tables>>

SaveJobSchedule(c) == \E q \in Requests : internalSaveJobSchedule(c, q, FALSE)
RunJob(c) == \E q \in Requests : internalSaveJobSchedule(c, q, TRUE)

updateFromModelRunPostedFirst(q) ==
  /\ request[q] # None /\ request[q].at = "answered"
  /\ LET r == request[q]
         c == r.page
     IN  /\ page' = [page EXCEPT
              ![c].copy = r.copy,
              ![c].apart = @ \/ r.copy.posted # page[c].wanted]
         /\ request' = [request EXCEPT ![q] =
              IF r.kind = "Save" /\ r.thenRun
                THEN [r EXCEPT !.kind = "Run", !.at = "posted", !.copy = page[c].copy]
                ELSE None]
  /\ UNCHANGED <<agent, offset, now, saves, tables>>

(* The answer of request q arrives: it replaces the page's copy, and Run   *)
(* is posted with it if the user asked for that.                           *)
updateFromModel(q) ==
  /\ request[q] # None /\ request[q].at = "answered"
  /\ LET r == request[q]
         c == r.page
     IN  /\ page' = [page EXCEPT
              ![c].copy = r.copy,
              ![c].apart = @ \/ r.copy.posted # page[c].wanted]
         /\ request' = [request EXCEPT ![q] =
              IF r.kind = "Save" /\ r.thenRun
                THEN [r EXCEPT !.kind = "Run", !.at = "posted"]
                ELSE None]
  /\ UNCHANGED <<agent, offset, now, saves, tables>>

(* Nobody awaits the answer: the server goes on with what was posted, and  *)
(* what it reads after its transaction reaches no page.                    *)
Unawaited(r) == IF r.at = "posted" THEN [r EXCEPT !.page = None] ELSE None

(* The page is opened again, without the answers to the old one. *)
Index(c) ==
  /\ page' = [page EXCEPT ![c] = Opened(row)]
  /\ request' = [q \in Requests |->
       IF request[q] # None /\ request[q].page = c THEN Unawaited(request[q]) ELSE request[q]]
  /\ UNCHANGED <<agent, offset, now, saves, tables>>

(* The request fails for the page, which goes on without an answer; the    *)
(* server may not have seen it, have thrown, or go on with it.             *)
Fail(q) ==
  /\ request[q] # None
  /\ \E r \in {None, Unawaited(request[q])} : request' = [request EXCEPT ![q] = r]
  /\ UNCHANGED <<page, agent, offset, now, saves, tables>>

-----------------------------------------------------------------------------
(***************************************************************************)
(* The server                                                              *)
(***************************************************************************)
(* Agents with a copy of the row that they may write, and requests that    *)
(* have one to post or to activate.                                        *)
AgentsWithCopy == {a \in Agents : agent[a] # None}
RequestsWithCopy ==
  {q \in Requests : \/ IsAt(q, "Run", "posted")
                    \/ IsAt(q, "Save", "answered") /\ request[q].thenRun}

Handled(q) ==
  request' = [request EXCEPT ![q] =
    IF @.page = None THEN None ELSE [@ EXCEPT !.at = "handled", !.copy = None]]

Save(q) ==
  /\ IsAt(q, "Save", "posted")
  /\ row' = Saved(request[q].copy)
  /\ last' = ScheduleOf(request[q].copy)
  /\ crossed' = (AgentsWithCopy \cup RequestsWithCopy # {})
  /\ since' = now
  /\ Handled(q)
  /\ UNCHANGED <<page, agent, offset, now, saves>>

(* ActivateJob writes what was posted, unless the job is running. *)
Run(q) ==
  /\ IsAt(q, "Run", "posted")
  /\ row' \in {ConvertLocalToUtc(request[q].copy, offset), row}
  /\ Handled(q)
  /\ UNCHANGED <<page, agent, offset, now, saves, last, crossed, since>>

(* Both then read the row for the answer. *)
GetJobScheduleModel(q) ==
  /\ request[q] # None /\ request[q].at = "handled"
  /\ request' = [request EXCEPT ![q].at = "answered", ![q].copy = Shown(row)]
  /\ UNCHANGED <<page, agent, offset, now, saves, tables>>

-----------------------------------------------------------------------------
(***************************************************************************)
(* Agents                                                                  *)
(***************************************************************************)
GetJobSchedules(a) ==
  /\ agent[a] = None
  /\ agent' = [agent EXCEPT ![a] = [at |-> "listed", copy |-> row, start |-> None]]
  /\ UNCHANGED <<page, request, offset, now, saves, tables>>

(* EnterRunningStatus writes the listed copy; the history entry has the time. *)
StartJob(a) ==
  /\ agent[a] # None /\ agent[a].at = "listed"
  /\ row' = agent[a].copy
  /\ since' = now
  /\ agent' = [agent EXCEPT ![a].at = "running", ![a].start = now]
  /\ UNCHANGED <<page, request, offset, now, saves, last, crossed>>

FinishJobFromNow(a) ==
  /\ agent[a] # None /\ agent[a].at = "running"
  /\ row' = [agent[a].copy EXCEPT !.next = GetNextExecution(agent[a].copy, now)]
  /\ agent' = [agent EXCEPT ![a] = None]
  /\ UNCHANGED <<page, request, offset, now, saves, last, crossed, since>>

(* UpdateExecutionTimes counts from the start of the run. *)
FinishJob(a) ==
  /\ agent[a] # None /\ agent[a].at = "running"
  /\ row' = [agent[a].copy EXCEPT !.next = GetNextExecution(agent[a].copy, agent[a].start)]
  /\ agent' = [agent EXCEPT ![a] = None]
  /\ UNCHANGED <<page, request, offset, now, saves, last, crossed, since>>

(* StartJob is refused, or the agent stops. *)
Leave(a) ==
  /\ agent[a] # None
  /\ agent' = [agent EXCEPT ![a] = None]
  /\ UNCHANGED <<page, request, offset, now, saves, tables>>

Tick ==
  /\ now' \in {t \in Instants : t > now}
  /\ UNCHANGED <<page, request, agent, offset, saves, tables>>

-----------------------------------------------------------------------------
Next ==
  \/ \E c \in Clients : Edit(c) \/ SaveJobSchedule(c) \/ RunJob(c) \/ Index(c)
  \/ \E q \in Requests : \/ Save(q) \/ Run(q) \/ GetJobScheduleModel(q)
                         \/ updateFromModel(q) \/ Fail(q)
  \/ \E a \in Agents : GetJobSchedules(a) \/ StartJob(a) \/ FinishJob(a) \/ Leave(a)
  \/ Tick

Spec == Init /\ [][Next]_vars

-----------------------------------------------------------------------------
Page == [copy : Row, fields : Fields, wanted : Weekly, apart : BOOLEAN]
Request ==
  [page : Clients \cup {None}, kind : {"Save", "Run"}, thenRun : BOOLEAN,
   at : {"posted", "handled", "answered"}, copy : Row \cup {None}]
Listed == [at : {"listed", "running"}, copy : Row, start : Instants \cup {None}]

TypeOK ==
  /\ row \in Row
  /\ page \in [Clients -> Page]
  /\ request \in [Requests -> Request \cup {None}]
  /\ agent \in [Agents -> Listed \cup {None}]
  /\ offset \in Offsets
  /\ now \in Instants
  /\ last \in Weekly
  /\ crossed \in BOOLEAN
  /\ since \in Instants
  /\ saves \in 0 .. MaxSaves

(***************************************************************************)
(* An instant is a slot of r, in UTC, iff it is, on the local clock, one   *)
(* of s.                                                                   *)
(***************************************************************************)
Means(r, s) ==
  \A t \in 0 .. NumDays * SecondsInDay - 1 : OnSchedule(r, t) <=> OnSchedule(s, t + offset)

(***************************************************************************)
(* However often pages are opened, saved and run and agents write copies   *)
(* back, in whatever order, the stored schedule means one that some Save   *)
(* posted, whole: never the days of one with the time of another, nor one  *)
(* that a conversion has moved.                                            *)
(***************************************************************************)
StoredIsChosen == Means(row, row.posted)

(***************************************************************************)
(* An edit is undone only by a copy of the row that was read before the    *)
(* edit was stored: if no agent had listed the job and no Run was to be    *)
(* posted or activated then, the stored schedule means what that Save      *)
(* posted until the next one is stored, whoever writes the row meanwhile.  *)
(***************************************************************************)
LastSaveStands == ~crossed => Means(row, last)

(***************************************************************************)
(* No slot is skipped, although every writer of the row writes a           *)
(* NextExecutionTime computed at some earlier time, in local time by a     *)
(* page or in UTC by an agent: it is a slot of the stored schedule, and no *)
(* slot lies between it and the time when the job was last started or      *)
(* saved.  In particular, the slots that pass during a run are still due   *)
(* when it ends.                                                           *)
(***************************************************************************)
NoSlotSkipped ==
  /\ row.next = None <=> row.days = {}
  /\ row.next # None =>
       /\ OnSchedule(row, row.next)
       /\ \A t \in since + 1 .. row.next - 1 : ~OnSchedule(row, t)

(***************************************************************************)
(* The day loop computes the operator module Schedule specifies over       *)
(* positions in the week, which the rest of the models use.                *)
(***************************************************************************)
PositionsOf(s) == {d * SecondsInDay + s.time : d \in s.days}

Coarse == INSTANCE Schedule WITH Week <- NumDays * SecondsInDay

DayLoopMeetsSchedule ==
  GetNextExecution(row, now) = Coarse!GetNextExecution(PositionsOf(row), now)

(***************************************************************************)
(* The fields of a page show the schedule the user wants, and its next     *)
(* Save posts that schedule, although each click changes one bit or one    *)
(* field of a copy that answers replace behind their back.  The exception  *)
(* are answers that bring a row of another Save: because another page or   *)
(* an agent wrote it before the answer was read, or because the user went  *)
(* on editing before Run was answered.  The fields then show one schedule, *)
(* and the copy has another, until the page is opened again.               *)
(***************************************************************************)
FieldsShowSchedule ==
  \A c \in Clients :
    /\ Meant(page[c].fields) = page[c].wanted
    /\ ~page[c].apart => ScheduleOf(page[c].copy) = page[c].wanted

(***************************************************************************)
(* TestScheduleConversionHelper: "Make sure that if we convert local to    *)
(* UTC and then re-convert we get original local schedule out".  Saving    *)
(* the schedule a page shows when it opens leaves the stored one as it is. *)
(***************************************************************************)
ShowsStored(q) == ScheduleOf(request[q].copy) = ScheduleOf(Shown(row))

RoundTrip ==
  [][\A q \in Requests :
       Save(q) /\ ShowsStored(q) => ScheduleOf(row') = ScheduleOf(row)]_vars
=============================================================================
