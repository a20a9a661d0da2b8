-------------------------- MODULE ScriptRunnerProofs --------------------------
(***************************************************************************)
(* Theorems about ScriptRunner, for every set of jobs, agents and pages,   *)
(* every week and every bound.                                             *)
(***************************************************************************)
EXTENDS ScriptRunner, DataLemmas, SequenceTheorems

(***************************************************************************)
(* What GetNextExecution returns, for every week, schedule and instant     *)
(***************************************************************************)

(* A scheduled instant lies ahead of every instant, at most a week away. *)
LEMMA SomePositionAhead ==
  ASSUME NEW s \in SUBSET Positions, s # {}, NEW t \in Nat
  PROVE  \E d \in 1 .. Week : (t + d) % Week \in s
<1>1. PICK p \in s : TRUE
  OBVIOUS
<1>2. p \in 0 .. (Week - 1) /\ Week \in Nat \ {0}
  BY <1>1, WeekAssumption DEF Positions
<1>3. PICK r \in 0 .. (Week - 1), q \in Int : t = Week * q + r
  <2>1. t % Week \in 0 .. (Week - 1) /\ t \div Week \in Int
        /\ t = Week * (t \div Week) + (t % Week)
    BY <1>2
  <2>. QED  BY <2>1
<1>4. CASE p > r
  <2>1. p - r \in 1 .. Week /\ t + (p - r) = Week * q + p
    BY <1>2, <1>3, <1>4
  <2>2. (t + (p - r)) % Week = p
    BY <2>1, <1>2, <1>3, DivModUnique
  <2>. QED  BY <2>1, <2>2
<1>5. CASE p <= r
  <2>1. Week + p - r \in 1 .. Week /\ t + (Week + p - r) = Week * (q + 1) + p
    BY <1>2, <1>3, <1>5
  <2>2. (t + (Week + p - r)) % Week = p
    BY <2>1, <1>2, <1>3, DivModUnique
  <2>. QED  BY <2>1, <2>2
<1>. QED
  BY <1>2, <1>3, <1>4, <1>5

(* The next execution of a nonempty schedule exists, lies strictly after   *)
(* runtime, on the schedule, and nothing scheduled lies in between.        *)
THEOREM NextExecutionOfSchedule ==
  ASSUME NEW s \in SUBSET Positions, s # {}, NEW t \in Nat
  PROVE  LET n == GetNextExecution(s, t)
         IN  /\ n \in (t + 1) .. (t + Week)
             /\ n % Week \in s
             /\ \A u \in (t + 1) .. (n - 1) : u % Week \notin s
<1>. DEFINE ahead == {d \in 1 .. Week : (t + d) % Week \in s}
<1>1. Week \in Nat
  BY WeekAssumption
<1>2. ahead # {} /\ ahead \in SUBSET Nat
  <2>1. PICK d \in 1 .. Week : (t + d) % Week \in s
    BY SomePositionAhead
  <2>2. d \in ahead
    BY <2>1
  <2>3. \A x \in ahead : x \in 1 .. Week
    OBVIOUS
  <2>4. \A x \in ahead : x \in Nat
    BY <1>1, <2>3
  <2>. QED
    <3>. HIDE DEF ahead
    <3>. QED  BY <2>2, <2>4
<1>3. Min(ahead) \in ahead /\ \A d \in ahead : Min(ahead) <= d
  BY <1>2, MinIsLeast
<1>4. GetNextExecution(s, t) = t + Min(ahead)
  BY <1>2 DEF GetNextExecution
<1>. DEFINE m == Min(ahead)
<1>5. m \in 1 .. Week /\ (t + m) % Week \in s
  BY <1>3
<1>6. \A d \in 1 .. (m - 1) : (t + d) % Week \notin s
  BY <1>1, <1>3, <1>5
<1>. HIDE DEF m
<1>7. \A u \in (t + 1) .. (t + m - 1) : u % Week \notin s
  <2>. TAKE u \in (t + 1) .. (t + m - 1)
  <2>1. u - t \in 1 .. (m - 1) /\ t + (u - t) = u
    BY <1>1, <1>5
  <2>. QED  BY <2>1, <1>6
<1>8. GetNextExecution(s, t) = t + m
  BY <1>4 DEF m
<1>. QED
  BY <1>1, <1>5, <1>7, <1>8

(* The empty schedule never falls due. *)
LEMMA NextExecutionOfEmpty ==
  ASSUME NEW t \in Nat
  PROVE  GetNextExecution({}, t) = None
  BY DEF GetNextExecution

(* Either way the result fits the column. *)
LEMMA NextExecutionType ==
  ASSUME NEW s \in SUBSET Positions, NEW t \in Nat
  PROVE  GetNextExecution(s, t) \in Nullable
<1>1. CASE s = {}
  BY <1>1, NextExecutionOfEmpty DEF Nullable
<1>2. CASE s # {}
  BY <1>2, NextExecutionOfSchedule, WeekAssumption DEF Nullable, DateTime
<1>. QED
  BY <1>1, <1>2

-----------------------------------------------------------------------------

(***************************************************************************)
(* Rows and entries the operations build                                   *)
(***************************************************************************)

(* The next time of any row, at any instant, fits its column. *)
LEMMA NextTimeOfSchedule ==
  ASSUME NEW s \in Schedules, NEW t \in DateTime
  PROVE  GetNextExecution(s, t) \in Nullable
BY SchedulesAssumption, NextExecutionType DEF DateTime

LEMMA NewJobIsRow ==
  ASSUME NEW s \in Schedules, NEW n \in Nullable
  PROVE  NewJob(s, n) \in JobSchedule
BY DEF NewJob, JobSchedule, JobStatus, Nullable

LEMMA StatusChangeIsRow ==
  ASSUME NEW r \in JobSchedule, NEW st \in JobStatus
  PROVE  [r EXCEPT !.JobStatus = st] \in JobSchedule
BY DEF JobSchedule

LEMMA FinishedRowIsRow ==
  ASSUME NEW r \in JobSchedule, NEW t \in DateTime
  PROVE  /\ [UpdateExecutionTimes(r, t) EXCEPT !.JobStatus = "Idle"] \in JobSchedule
         /\ [UpdateExecutionTimes(r, t) EXCEPT !.JobStatus = "Idle"].JobStatus = "Idle"
<1>1. r.ExecutionSchedule \in Schedules
  BY DEF JobSchedule
<1>2. GetNextExecution(r.ExecutionSchedule, t) \in Nullable
  BY <1>1, NextTimeOfSchedule
<1>. QED
  BY <1>2 DEF UpdateExecutionTimes, JobSchedule, JobStatus, Nullable

LEMMA PostedIsRow ==
  ASSUME NEW r \in JobSchedule, NEW e \in BOOLEAN, NEW s \in Schedules, now \in DateTime
  PROVE  Posted(r, e, s) \in JobSchedule
<1>1. GetNextExecution(s, now) \in Nullable
  BY NextTimeOfSchedule
<1>. QED
  BY <1>1 DEF Posted, JobSchedule

(* SaveJobSchedule writes a row whenever it is given one. *)
LEMMA SavedIsRow ==
  ASSUME NEW j \in Jobs, NEW r \in JobSchedule, RepositoryTypeOK, SaveJobSchedule(j, r)
  PROVE  /\ jobs' \in [Jobs -> JobSchedule \cup {NoRow}]
         /\ jobs'[j] \in JobSchedule
         /\ jobs'[j].JobStatus = r.JobStatus
         /\ \A k \in Jobs \ {j} : jobs'[k] = jobs[k]
<1>1. [r EXCEPT !.NextExecutionTime = None] \in JobSchedule
  BY DEF JobSchedule, Nullable
<1>2. [r EXCEPT !.NextExecutionTime = None].JobStatus = r.JobStatus
  BY DEF JobSchedule
<1>. QED
  BY <1>1, <1>2 DEF SaveJobSchedule, Update, RepositoryTypeOK

-----------------------------------------------------------------------------
(***************************************************************************)
(* Type correctness.  TypeOK alone is not inductive: FinishJob indexes the *)
(* batch and the history with what the agent remembers, and the pages'     *)
(* requests name rows.  Those references are never dangling, because rows  *)
(* are never deleted and history only grows.                               *)
(***************************************************************************)
AgentsHoldRows ==
  \A a \in Agents : pc[a] = "Executing" =>
    /\ run[a] \in Run
    /\ batch[a][run[a].job] \in JobSchedule
    /\ run[a].entry \in 1 .. Len(history)

PagesNameStoredJobs ==
  \A c \in Clients :
    /\ form[c] # NoForm /\ form[c].id # None => form[c].id \in Stored
    /\ saving[c] # NoSave => saving[c].id \in Stored
    /\ posting[c] # NoPost => posting[c].id \in Stored

RunsStartedInThePast == \A e \in 1 .. Len(history) : history[e].StartTime <= now

TypeInv == TypeOK /\ AgentsHoldRows /\ PagesNameStoredJobs /\ RunsStartedInThePast

(* Rows are never deleted. *)
RowsStay == \A j \in Stored : jobs'[j] # NoRow

LEMMA PagesKeepTheirJobs ==
  ASSUME PagesNameStoredJobs, RowsStay, UNCHANGED webVars
  PROVE  PagesNameStoredJobs'
BY DEF PagesNameStoredJobs, RowsStay, webVars, Stored

(* Updating one row keeps the table well typed and every row in place. *)
LEMMA UpdateKeepsRows ==
  ASSUME RepositoryTypeOK, NEW j \in Jobs, NEW r \in JobSchedule, Update(j, r)
  PROVE  /\ jobs' \in [Jobs -> JobSchedule \cup {NoRow}]
         /\ RowsStay
         /\ jobs'[j] = r
         /\ \A k \in Jobs \ {j} : jobs'[k] = jobs[k]
BY NoRowAssumption DEF RepositoryTypeOK, Update, RowsStay, Stored

LEMMA NextInBatchType ==
  ASSUME AgentTypeOK, NEW a \in Agents, NEW j \in Jobs, NextInBatch(a, j)
  PROVE  /\ pc' \in [Agents -> {"Idle", "Batch", "Executing"}]
         /\ batch' \in [Agents -> [Jobs -> JobSchedule \cup {NoRow}]]
         /\ pc'[a] # "Executing"
         /\ \A b \in Agents \ {a} : pc'[b] = pc[b] /\ batch'[b] = batch[b]
BY DEF AgentTypeOK, NextInBatch

LEMMA InitTypeInv == Init => TypeInv
<1>. SUFFICES ASSUME Init PROVE TypeInv
  OBVIOUS
<1>1. RepositoryTypeOK
  <2>1. \A s \in Schedules : NewJob(s, GetNextExecution(s, 0)) \in JobSchedule
    BY NewJobIsRow, NextTimeOfSchedule DEF DateTime
  <2>. QED
    BY <2>1 DEF Init, RepositoryInit, RepositoryTypeOK, DateTime
<1>2. AgentTypeOK /\ AgentsHoldRows
  BY MaxFaultsAssumption DEF Init, AgentInit, AgentTypeOK, EmptyBatch, AgentsHoldRows
<1>3. WebTypeOK /\ PagesNameStoredJobs
  BY MaxSavesAssumption DEF Init, WebInit, WebTypeOK, PagesNameStoredJobs
<1>4. RunsStartedInThePast
  BY DEF Init, RepositoryInit, RunsStartedInThePast
<1>. QED
  BY <1>1, <1>2, <1>3, <1>4 DEF TypeOK, TypeInv

LEMMA TickTypeInv == TypeInv /\ Tick => TypeInv'
<1>. SUFFICES ASSUME TypeInv, Tick PROVE TypeInv'
  OBVIOUS
<1>1. RunsStartedInThePast'
  <2>1. \A e \in 1 .. Len(history) : history[e].StartTime \in Nat
    <3>1. \A e \in 1 .. Len(history) : history[e] \in JobHistory
      BY DEF TypeInv, TypeOK, RepositoryTypeOK
    <3>. QED  BY <3>1 DEF JobHistory, DateTime
  <2>. QED
    BY <2>1 DEF TypeInv, TypeOK, RepositoryTypeOK, RunsStartedInThePast, Tick, tables, DateTime
<1>. QED
  BY <1>1 DEF TypeInv, TypeOK, Tick, tables, agentVars, webVars, RepositoryTypeOK, AgentTypeOK,
       WebTypeOK, AgentsHoldRows, PagesNameStoredJobs, Stored, DateTime

LEMMA ReadBatchTypeInv ==
  ASSUME TypeInv, NEW a \in Agents, ReadBatch(a), UNCHANGED webVars
  PROVE  TypeInv'
<1>1. RepositoryTypeOK' /\ RunsStartedInThePast'
  BY DEF TypeInv, TypeOK, ReadBatch, RepositoryTypeOK, RunsStartedInThePast
<1>2. AgentTypeOK' /\ AgentsHoldRows'
  <2>1. [j \in Jobs |-> IF j \in GetJobSchedules(now) THEN jobs[j] ELSE NoRow]
          \in [Jobs -> JobSchedule \cup {NoRow}]
    BY DEF TypeInv, TypeOK, RepositoryTypeOK
  <2>. QED
    BY <2>1 DEF TypeInv, TypeOK, ReadBatch, AgentTypeOK, AgentsHoldRows
<1>3. WebTypeOK' /\ PagesNameStoredJobs'
  BY DEF TypeInv, TypeOK, ReadBatch, webVars, WebTypeOK, PagesNameStoredJobs, Stored
<1>. QED
  BY <1>1, <1>2, <1>3 DEF TypeOK, TypeInv

(* What a started job does to the tables. *)
LEMMA StartJobTables ==
  ASSUME TypeInv, NEW a \in Agents, NEW j \in Jobs, StartJob(a, j)
  PROVE  /\ RepositoryTypeOK'
         /\ RowsStay
         /\ jobs'[j] \in JobSchedule /\ jobs'[j].JobStatus = "Running"
         /\ \A k \in Jobs \ {j} : jobs'[k] = jobs[k]
         /\ Len(history') = Len(history) + 1
         /\ RunsStartedInThePast'
<1>. DEFINE r == [batch[a][j] EXCEPT !.JobStatus = "Running"]
<1>1. batch[a][j] \in JobSchedule
  BY DEF TypeInv, TypeOK, AgentTypeOK, StartJob
<1>2. r \in JobSchedule /\ r.JobStatus = "Running"
  BY <1>1 DEF JobSchedule, JobStatus
<1>3. Update(j, r)
  BY DEF StartJob, EnterRunningStatus
<1>. HIDE DEF r
<1>4. /\ jobs' \in [Jobs -> JobSchedule \cup {NoRow}]
      /\ RowsStay /\ jobs'[j] = r
      /\ \A k \in Jobs \ {j} : jobs'[k] = jobs[k]
  BY <1>2, <1>3, UpdateKeepsRows DEF TypeInv, TypeOK
<1>5. [JobScheduleId |-> j, StartTime |-> now, Runtime |-> None, HasError |-> FALSE]
        \in JobHistory
  BY DEF TypeInv, TypeOK, RepositoryTypeOK, JobHistory, Nullable
<1>6. history' \in Seq(JobHistory) /\ Len(history') = Len(history) + 1
  BY <1>5 DEF TypeInv, TypeOK, RepositoryTypeOK, StartJob, EnterRunningStatus, AddHistoryEntry
<1>7. RunsStartedInThePast'
  <2>1. now' = now /\ now \in Nat /\ history \in Seq(JobHistory)
    BY DEF TypeInv, TypeOK, RepositoryTypeOK, StartJob, DateTime
  <2>2. \A e \in 1 .. Len(history') :
          history'[e].StartTime = IF e \in 1 .. Len(history) THEN history[e].StartTime ELSE now
    BY <2>1, <1>5 DEF StartJob, EnterRunningStatus, AddHistoryEntry
  <2>. QED
    BY <2>1, <2>2 DEF TypeInv, RunsStartedInThePast
<1>. QED
  BY <1>2, <1>4, <1>6, <1>7 DEF TypeInv, TypeOK, RepositoryTypeOK, StartJob

LEMMA StartJobTypeInv ==
  ASSUME TypeInv, NEW a \in Agents, NEW j \in Jobs, StartJob(a, j), UNCHANGED webVars
  PROVE  TypeInv'
<1>1. /\ RepositoryTypeOK' /\ RowsStay /\ Len(history') = Len(history) + 1
      /\ RunsStartedInThePast'
  BY StartJobTables
<1>2. Len(history) \in Nat
  BY DEF TypeInv, TypeOK, RepositoryTypeOK
<1>3. [job |-> j, entry |-> Len(history) + 1] \in Run
  BY <1>2 DEF Run
<1>4. AgentTypeOK'
  BY <1>3 DEF TypeInv, TypeOK, AgentTypeOK, StartJob
<1>5. AgentsHoldRows'
  <2>. SUFFICES ASSUME NEW b \in Agents, pc'[b] = "Executing"
                PROVE  /\ run'[b] \in Run
                       /\ batch'[b][run'[b].job] \in JobSchedule
                       /\ run'[b].entry \in 1 .. Len(history')
    BY DEF AgentsHoldRows
  <2>1. CASE b = a
    <3>1. run'[a] = [job |-> j, entry |-> Len(history) + 1] /\ batch' = batch
      BY DEF TypeInv, TypeOK, AgentTypeOK, StartJob
    <3>2. batch[a][j] \in JobSchedule
      BY DEF TypeInv, TypeOK, AgentTypeOK, StartJob
    <3>. QED  BY <2>1, <3>1, <3>2, <1>1, <1>2, <1>3
  <2>2. CASE b # a
    <3>1. run'[b] = run[b] /\ batch' = batch /\ pc[b] = "Executing"
      BY <2>2 DEF TypeInv, TypeOK, AgentTypeOK, StartJob
    <3>. QED  BY <3>1, <1>1, <1>2 DEF TypeInv, AgentsHoldRows
  <2>. QED  BY <2>1, <2>2
<1>6. WebTypeOK'
  BY DEF TypeInv, TypeOK, webVars, WebTypeOK
<1>7. PagesNameStoredJobs'
  BY <1>1, PagesKeepTheirJobs DEF TypeInv
<1>. QED
  BY <1>1, <1>4, <1>5, <1>6, <1>7 DEF TypeOK, TypeInv

LEMMA SkipJobTypeInv ==
  ASSUME TypeInv, NEW a \in Agents, NEW j \in Jobs, SkipJob(a, j), UNCHANGED webVars
  PROVE  TypeInv'
<1>1. RepositoryTypeOK' /\ WebTypeOK' /\ PagesNameStoredJobs' /\ RunsStartedInThePast'
  BY DEF TypeInv, TypeOK, SkipJob, RepositoryTypeOK, WebTypeOK, webVars,
         PagesNameStoredJobs, Stored, RunsStartedInThePast
<1>2. AgentTypeOK'
  BY NextInBatchType DEF TypeInv, TypeOK, SkipJob, AgentTypeOK
<1>3. AgentsHoldRows'
  BY NextInBatchType DEF TypeInv, TypeOK, SkipJob, AgentsHoldRows
<1>. QED
  BY <1>1, <1>2, <1>3 DEF TypeOK, TypeInv

(* What a finished job does to the tables. *)
LEMMA EndJobTables ==
  ASSUME TypeInv, NEW a \in Agents, EndJob(a)
  PROVE  /\ run[a].job \in Jobs
         /\ RepositoryTypeOK'
         /\ RowsStay
         /\ jobs'[run[a].job] \in JobSchedule
         /\ jobs'[run[a].job].JobStatus = "Idle"
         /\ \A k \in Jobs \ {run[a].job} : jobs'[k] = jobs[k]
         /\ Len(history') = Len(history)
         /\ RunsStartedInThePast'
<1>. DEFINE j == run[a].job
            e == run[a].entry
            start == history[e].StartTime
            r == [UpdateExecutionTimes(batch[a][j], start) EXCEPT !.JobStatus = "Idle"]
<1>1. run[a] \in Run /\ batch[a][j] \in JobSchedule /\ e \in 1 .. Len(history)
  BY DEF TypeInv, AgentsHoldRows, EndJob
<1>2. j \in Jobs
  BY <1>1 DEF Run
<1>3. history \in Seq(JobHistory) /\ history[e] \in JobHistory
  BY <1>1 DEF TypeInv, TypeOK, RepositoryTypeOK
<1>4. start \in DateTime /\ now \in DateTime /\ start <= now
  BY <1>1, <1>3 DEF TypeInv, TypeOK, RepositoryTypeOK, RunsStartedInThePast, JobHistory
<1>5. r \in JobSchedule /\ r.JobStatus = "Idle"
  BY <1>1, <1>4, FinishedRowIsRow
<1>6. Update(j, r)
  BY DEF EndJob, FinishJob
<1>7. /\ jobs' \in [Jobs -> JobSchedule \cup {NoRow}]
      /\ RowsStay /\ jobs'[j] = r
      /\ \A k \in Jobs \ {j} : jobs'[k] = jobs[k]
  <2>. HIDE DEF r
  <2>. QED  BY <1>2, <1>5, <1>6, UpdateKeepsRows DEF TypeInv, TypeOK
<1>8. PICK failed \in BOOLEAN :
        history' = [history EXCEPT ![e].Runtime = now - start, ![e].HasError = failed]
  BY DEF EndJob, FinishJob
<1>9. now - start \in Nullable
  BY <1>4 DEF Nullable, DateTime
<1>10. /\ history' \in Seq(JobHistory)
       /\ Len(history') = Len(history)
       /\ \A i \in 1 .. Len(history) : history'[i].StartTime = history[i].StartTime
  <2>. HIDE DEF start
  <2>1. [[history[e] EXCEPT !.Runtime = now - start] EXCEPT !.HasError = failed] \in JobHistory
    BY <1>3, <1>9 DEF JobHistory
  <2>2. history' = [history EXCEPT ![e] =
                      [[history[e] EXCEPT !.Runtime = now - start] EXCEPT !.HasError = failed]]
    BY <1>1, <1>3, <1>8
  <2>3. history' \in Seq(JobHistory) /\ Len(history') = Len(history)
    BY <1>1, <1>3, <2>1, <2>2
  <2>4. history[e].StartTime = history'[e].StartTime
    BY <1>1, <1>3, <2>2 DEF JobHistory
  <2>. QED
    BY <1>1, <1>3, <2>2, <2>3, <2>4
<1>11. now' = now
  BY DEF EndJob
<1>12. RepositoryTypeOK' /\ RunsStartedInThePast'
  BY <1>4, <1>7, <1>10, <1>11 DEF TypeInv, RepositoryTypeOK, RunsStartedInThePast
<1>. QED
  BY <1>2, <1>5, <1>7, <1>10, <1>12

LEMMA EndJobTypeInv ==
  ASSUME TypeInv, NEW a \in Agents, EndJob(a), UNCHANGED webVars
  PROVE  TypeInv'
<1>1. /\ run[a].job \in Jobs
      /\ RepositoryTypeOK' /\ RowsStay /\ Len(history') = Len(history)
      /\ RunsStartedInThePast'
  BY EndJobTables
<1>2. NextInBatch(a, run[a].job) /\ run' = [run EXCEPT ![a] = NoRun] /\ faults' = faults
  BY DEF EndJob
<1>3. AgentTypeOK'
  BY <1>1, <1>2, NextInBatchType DEF TypeInv, TypeOK, AgentTypeOK
<1>4. AgentsHoldRows'
  <2>. SUFFICES ASSUME NEW b \in Agents, pc'[b] = "Executing"
                PROVE  /\ run'[b] \in Run
                       /\ batch'[b][run'[b].job] \in JobSchedule
                       /\ run'[b].entry \in 1 .. Len(history')
    BY DEF AgentsHoldRows
  <2>1. b # a /\ pc[b] = "Executing" /\ batch'[b] = batch[b] /\ run'[b] = run[b]
    BY <1>1, <1>2, NextInBatchType DEF TypeInv, TypeOK, AgentTypeOK
  <2>. QED  BY <1>1, <2>1 DEF TypeInv, AgentsHoldRows
<1>5. WebTypeOK' /\ PagesNameStoredJobs'
  BY <1>1, PagesKeepTheirJobs DEF TypeInv, TypeOK, webVars, WebTypeOK
<1>. QED
  BY <1>1, <1>3, <1>4, <1>5 DEF TypeOK, TypeInv

LEMMA AbandonBatchTypeInv ==
  ASSUME TypeInv, NEW a \in Agents, AbandonBatch(a), UNCHANGED webVars
  PROVE  TypeInv'
<1>1. RepositoryTypeOK' /\ WebTypeOK' /\ PagesNameStoredJobs' /\ RunsStartedInThePast'
  BY DEF TypeInv, TypeOK, AbandonBatch, RepositoryTypeOK, WebTypeOK, webVars,
         PagesNameStoredJobs, Stored, RunsStartedInThePast
<1>2. AgentTypeOK'
  BY MaxFaultsAssumption DEF TypeInv, TypeOK, AbandonBatch, AgentTypeOK, EmptyBatch
<1>3. AgentsHoldRows'
  BY DEF TypeInv, TypeOK, AgentTypeOK, AbandonBatch, AgentsHoldRows
<1>. QED
  BY <1>1, <1>2, <1>3 DEF TypeOK, TypeInv

(* A page's step that leaves the agents alone disturbs nothing of theirs. *)
LEMMA AgentsUndisturbed ==
  ASSUME TypeInv, UNCHANGED agentVars, UNCHANGED <<history, now>>
  PROVE  AgentTypeOK' /\ AgentsHoldRows' /\ RunsStartedInThePast'
BY DEF TypeInv, TypeOK, agentVars, AgentTypeOK, AgentsHoldRows, RunsStartedInThePast

LEMMA OpenPageTypeInv ==
  ASSUME TypeInv, NEW c \in Clients, OpenPage(c), UNCHANGED agentVars
  PROVE  TypeInv'
<1>1. CASE NewSchedule(c)
  <2>1. [id |-> None, row |-> NewJobScheduleModel] \in Form
    BY SchedulesAssumption, NewJobIsRow DEF NewJobScheduleModel, Form, Nullable
  <2>. QED
    BY <1>1, <2>1, AgentsUndisturbed DEF NewSchedule, TypeInv, TypeOK, RepositoryTypeOK,
         WebTypeOK, PagesNameStoredJobs, Stored
<1>2. ASSUME NEW j \in Jobs, Index(c, j) PROVE TypeInv'
  <2>1. [id |-> j, row |-> jobs[j]] \in Form
    BY <1>2 DEF Index, Stored, TypeInv, TypeOK, RepositoryTypeOK, Form
  <2>. QED
    BY <1>2, <2>1, AgentsUndisturbed DEF Index, Show, TypeInv, TypeOK, RepositoryTypeOK,
         WebTypeOK, PagesNameStoredJobs, Stored
<1>. QED
  BY <1>1, <1>2 DEF OpenPage

LEMMA CreateJobTypeInv ==
  ASSUME TypeInv, NEW c \in Clients, CreateJob(c), UNCHANGED agentVars
  PROVE  TypeInv'
<1>1. PICK j \in Jobs \ Stored, s \in Schedules :
        /\ SaveJobSchedule(j, Posted(form[c].row, TRUE, s))
        /\ saving' = [saving EXCEPT ![c] = [id |-> j, thenRun |-> FALSE]]
  BY DEF CreateJob
<1>2. form[c].row \in JobSchedule
  BY DEF CreateJob, TypeInv, TypeOK, WebTypeOK, Form
<1>3. Posted(form[c].row, TRUE, s) \in JobSchedule
  BY <1>2, PostedIsRow DEF TypeInv, TypeOK, RepositoryTypeOK
<1>4. /\ jobs' \in [Jobs -> JobSchedule \cup {NoRow}]
      /\ jobs'[j] \in JobSchedule
      /\ \A k \in Jobs \ {j} : jobs'[k] = jobs[k]
  BY <1>1, <1>3, SavedIsRow DEF TypeInv, TypeOK
<1>5. RepositoryTypeOK'
  BY <1>4 DEF CreateJob, TypeInv, TypeOK, RepositoryTypeOK
<1>6. WebTypeOK'
  <2>1. [id |-> j, thenRun |-> FALSE] \in Save
    BY DEF Save
  <2>2. saving' \in [Clients -> Save \cup {NoSave}]
    BY <1>1, <2>1 DEF TypeInv, TypeOK, WebTypeOK
  <2>3. saves' \in 0 .. MaxSaves
    BY MaxSavesAssumption DEF CreateJob, TypeInv, TypeOK, WebTypeOK
  <2>. QED
    BY <2>2, <2>3 DEF CreateJob, TypeInv, TypeOK, WebTypeOK
<1>7. PagesNameStoredJobs'
  BY <1>1, <1>4, NoRowAssumption
  DEF CreateJob, TypeInv, TypeOK, WebTypeOK, PagesNameStoredJobs, Stored
<1>. QED
  BY <1>5, <1>6, <1>7, AgentsUndisturbed DEF CreateJob, TypeInv, TypeOK

LEMMA SaveJobTypeInv ==
  ASSUME TypeInv, NEW c \in Clients, SaveJob(c), UNCHANGED agentVars
  PROVE  TypeInv'
<1>1. PICK e \in BOOLEAN, s \in Schedules, thenRun \in BOOLEAN :
        /\ SaveJobSchedule(form[c].id, Posted(form[c].row, e, s))
        /\ saving' = [saving EXCEPT ![c] = [id |-> form[c].id, thenRun |-> thenRun]]
  BY DEF SaveJob
<1>2. form[c].row \in JobSchedule /\ form[c].id \in Jobs
  BY DEF SaveJob, TypeInv, TypeOK, WebTypeOK, Form
<1>3. Posted(form[c].row, e, s) \in JobSchedule
  BY <1>2, PostedIsRow DEF TypeInv, TypeOK, RepositoryTypeOK
<1>4. /\ jobs' \in [Jobs -> JobSchedule \cup {NoRow}]
      /\ jobs'[form[c].id] \in JobSchedule
      /\ \A k \in Jobs \ {form[c].id} : jobs'[k] = jobs[k]
  BY <1>1, <1>2, <1>3, SavedIsRow DEF TypeInv, TypeOK
<1>5. RepositoryTypeOK'
  BY <1>4 DEF SaveJob, TypeInv, TypeOK, RepositoryTypeOK
<1>6. WebTypeOK'
  <2>1. [id |-> form[c].id, thenRun |-> thenRun] \in Save
    BY <1>2 DEF Save
  <2>. QED
    BY <1>1, <2>1, MaxSavesAssumption DEF SaveJob, TypeInv, TypeOK, WebTypeOK
<1>7. PagesNameStoredJobs'
  BY <1>1, <1>2, <1>4, NoRowAssumption
  DEF SaveJob, TypeInv, TypeOK, WebTypeOK, PagesNameStoredJobs, Stored
<1>. QED
  BY <1>5, <1>6, <1>7, AgentsUndisturbed DEF SaveJob, TypeInv, TypeOK

LEMMA SaveReplyTypeInv ==
  ASSUME TypeInv, NEW c \in Clients, SaveReply(c), UNCHANGED agentVars
  PROVE  TypeInv'
<1>. DEFINE j == saving[c].id
<1>1. j \in Stored /\ jobs[j] \in JobSchedule
  BY DEF SaveReply, TypeInv, TypeOK, RepositoryTypeOK, PagesNameStoredJobs, Stored
<1>2. /\ [id |-> j, row |-> jobs[j]] \in Form
      /\ [id |-> j, activated |-> FALSE, row |-> jobs[j]] \in Post
  BY <1>1 DEF Form, Post, Stored
<1>. QED
  BY <1>1, <1>2, AgentsUndisturbed, WebConstantsAssumption
  DEF SaveReply, Show, TypeInv, TypeOK, RepositoryTypeOK, WebTypeOK, PagesNameStoredJobs, Stored

LEMMA ActivateTypeInv ==
  ASSUME TypeInv, NEW c \in Clients, Activate(c), UNCHANGED agentVars
  PROVE  TypeInv'
<1>. DEFINE j == posting[c].id
            r == [posting[c].row EXCEPT !.JobStatus = "Waiting"]
<1>1. posting[c] \in Post /\ j \in Stored /\ j \in Jobs
  BY DEF Activate, TypeInv, TypeOK, WebTypeOK, PagesNameStoredJobs, Stored
<1>2. r \in JobSchedule
  BY <1>1, StatusChangeIsRow DEF Post, JobStatus
<1>3. jobs' \in [Jobs -> JobSchedule \cup {NoRow}] /\ RowsStay
  <2>1. CASE Update(j, r)
    <3>. HIDE DEF r
    <3>. QED  BY <1>1, <1>2, <2>1, UpdateKeepsRows DEF TypeInv, TypeOK
  <2>2. CASE UNCHANGED jobs
    BY <2>2 DEF TypeInv, TypeOK, RepositoryTypeOK, RowsStay, Stored
  <2>. QED  BY <2>1, <2>2 DEF Activate, ActivateJob
<1>4. [posting[c] EXCEPT !.activated = TRUE] \in Post
  BY <1>1 DEF Post
<1>5. RepositoryTypeOK' /\ WebTypeOK'
  BY <1>3, <1>4 DEF Activate, TypeInv, TypeOK, RepositoryTypeOK, WebTypeOK
<1>6. PagesNameStoredJobs'
  <2>1. \A b \in Clients : posting'[b] # NoPost => posting[b] # NoPost /\ posting'[b].id = posting[b].id
    BY <1>1 DEF Activate, TypeInv, TypeOK, WebTypeOK, Post
  <2>. QED
    BY <1>3, <2>1 DEF Activate, TypeInv, PagesNameStoredJobs, RowsStay, Stored
<1>. QED
  BY <1>5, <1>6, AgentsUndisturbed DEF Activate, TypeInv, TypeOK

LEMMA RunReplyTypeInv ==
  ASSUME TypeInv, NEW c \in Clients, RunReply(c), UNCHANGED agentVars
  PROVE  TypeInv'
<1>. DEFINE j == posting[c].id
<1>1. j \in Stored /\ jobs[j] \in JobSchedule
  BY DEF RunReply, TypeInv, TypeOK, RepositoryTypeOK, PagesNameStoredJobs, Stored
<1>2. [id |-> j, row |-> jobs[j]] \in Form
  BY <1>1 DEF Form, Stored
<1>. QED
  BY <1>1, <1>2, AgentsUndisturbed
  DEF RunReply, Show, TypeInv, TypeOK, RepositoryTypeOK, WebTypeOK, PagesNameStoredJobs, Stored

LEMMA ReplyLostTypeInv ==
  ASSUME TypeInv, NEW c \in Clients, ReplyLost(c), UNCHANGED agentVars
  PROVE  TypeInv'
BY AgentsUndisturbed
DEF ReplyLost, TypeInv, TypeOK, RepositoryTypeOK, WebTypeOK, PagesNameStoredJobs, Stored

LEMMA NextTypeInv == TypeInv /\ [Next]_vars => TypeInv'
<1>. SUFFICES ASSUME TypeInv, [Next]_vars PROVE TypeInv'
  OBVIOUS
<1>1. CASE Tick
  BY <1>1, TickTypeInv
<1>2. CASE AgentNext
  BY <1>2, ReadBatchTypeInv, StartJobTypeInv, SkipJobTypeInv, EndJobTypeInv,
     AbandonBatchTypeInv DEF AgentNext, AgentStep
<1>3. CASE \E c \in Clients : (WebNext(c) \/ SaveJob(c)) /\ UNCHANGED agentVars
  BY <1>3, OpenPageTypeInv, CreateJobTypeInv, SaveJobTypeInv, SaveReplyTypeInv,
     ActivateTypeInv, RunReplyTypeInv, ReplyLostTypeInv DEF WebNext
<1>4. CASE UNCHANGED vars
  BY <1>4 DEF vars, TypeInv, TypeOK, RepositoryTypeOK, AgentTypeOK, WebTypeOK,
     AgentsHoldRows, PagesNameStoredJobs, RunsStartedInThePast, Stored
<1>. QED
  BY <1>1, <1>2, <1>3, <1>4 DEF Next

LEMMA TypeInvariant == Spec => []TypeInv
BY InitTypeInv, NextTypeInv, PTL DEF Spec

(***************************************************************************)
(* The application never leaves its types: every value written to a table, *)
(* remembered by an agent or shown on a page fits its column or field,     *)
(* whatever the interleaving.                                              *)
(***************************************************************************)
THEOREM TypeCorrect == Spec => []TypeOK
<1>1. TypeInv => TypeOK
  BY DEF TypeInv
<1>. QED
  BY <1>1, TypeInvariant, PTL

-----------------------------------------------------------------------------
(***************************************************************************)
(* Mutual exclusion, as long as no page saves over a status it has not     *)
(* seen.  MutualExclusion is not inductive: what keeps a second agent out  *)
(* is the status of the row, so the invariant adds that the row of a job   *)
(* being executed says Running.                                            *)
(***************************************************************************)
ExclusiveInv == TypeInv /\ ExecutingIsRunning /\ MutualExclusion

LEMMA InitExclusiveInv == Init => ExclusiveInv
<1>. SUFFICES ASSUME Init PROVE ExclusiveInv
  OBVIOUS
<1>1. \A a \in Agents : pc[a] = "Idle"
  BY DEF Init, AgentInit
<1>. QED
  BY <1>1, InitTypeInv DEF ExclusiveInv, ExecutingIsRunning, MutualExclusion, Executing

(* No agent begins an execution and no row of an executing agent's job     *)
(* leaves Running: the step keeps both parts.                              *)
LEMMA NoNewExecution ==
  ASSUME ExclusiveInv, TypeInv',
         \A a \in Agents : pc'[a] = "Executing" => pc[a] = "Executing" /\ run'[a] = run[a],
         \A a \in Agents : pc'[a] = "Executing" /\ run[a].job \in Stored
                             /\ jobs[run[a].job].JobStatus = "Running"
                           => jobs'[run[a].job].JobStatus = "Running"
                              /\ jobs'[run[a].job] # NoRow
  PROVE  ExclusiveInv'
<1>1. \A a \in Agents, j \in Jobs : Executing(a, j)' => Executing(a, j)
  BY DEF Executing
<1>2. MutualExclusion'
  BY <1>1 DEF ExclusiveInv, MutualExclusion
<1>3. ExecutingIsRunning'
  BY <1>1 DEF ExclusiveInv, ExecutingIsRunning, Executing, Stored
<1>. QED
  BY <1>2, <1>3 DEF ExclusiveInv

LEMMA StartJobExclusiveInv ==
  ASSUME ExclusiveInv, TypeInv', NEW a \in Agents, NEW j \in Jobs, StartJob(a, j)
  PROVE  ExclusiveInv'
<1>1. /\ jobs'[j] \in JobSchedule /\ jobs'[j].JobStatus = "Running"
      /\ \A k \in Jobs \ {j} : jobs'[k] = jobs[k]
  BY StartJobTables DEF ExclusiveInv
<1>2. /\ pc[a] = "Batch"
      /\ pc'[a] = "Executing" /\ run'[a].job = j
      /\ \A b \in Agents \ {a} : pc'[b] = pc[b] /\ run'[b] = run[b]
  BY DEF ExclusiveInv, TypeInv, TypeOK, AgentTypeOK, StartJob
<1>3. \A b \in Agents : ~Executing(b, j)
  BY DEF StartJob, LockJobSchedule, ExclusiveInv, ExecutingIsRunning, Stored
<1>4. \A b \in Agents, k \in Jobs : Executing(b, k)' => Executing(b, k) \/ (b = a /\ k = j)
  BY <1>2 DEF Executing
<1>5. \A k \in Jobs : Executing(a, k)' => k = j
  BY <1>2 DEF Executing
<1>6. MutualExclusion'
  BY <1>2, <1>3, <1>4, <1>5 DEF ExclusiveInv, MutualExclusion
<1>7. ExecutingIsRunning'
  BY <1>1, <1>4, NoRowAssumption DEF ExclusiveInv, ExecutingIsRunning, Stored
<1>. QED
  BY <1>6, <1>7 DEF ExclusiveInv

(* FinishJob makes the row Idle when its one executing agent lets go of it. *)
LEMMA EndJobExclusiveInv ==
  ASSUME ExclusiveInv, TypeInv', NEW a \in Agents, EndJob(a)
  PROVE  ExclusiveInv'
<1>1. run[a].job \in Jobs /\ \A k \in Jobs \ {run[a].job} : jobs'[k] = jobs[k]
  BY EndJobTables DEF ExclusiveInv
<1>2. NextInBatch(a, run[a].job) /\ run' = [run EXCEPT ![a] = NoRun]
  BY DEF EndJob
<1>3. pc'[a] # "Executing" /\ \A b \in Agents \ {a} : pc'[b] = pc[b] /\ run'[b] = run[b]
  BY <1>1, <1>2, NextInBatchType DEF ExclusiveInv, TypeInv, TypeOK, AgentTypeOK
<1>4. \A b \in Agents \ {a} : pc'[b] = "Executing" => run[b].job \in Jobs /\ run[b].job # run[a].job
  <2>. SUFFICES ASSUME NEW b \in Agents \ {a}, pc'[b] = "Executing"
                PROVE  run[b].job \in Jobs /\ run[b].job # run[a].job
    OBVIOUS
  <2>1. pc[a] = "Executing" /\ pc[b] = "Executing"
    BY <1>3 DEF EndJob
  <2>2. run[b].job \in Jobs
    BY <2>1 DEF ExclusiveInv, TypeInv, AgentsHoldRows, Run
  <2>. QED
    BY <1>1, <2>1, <2>2 DEF ExclusiveInv, MutualExclusion, Executing
<1>. QED
  BY <1>1, <1>3, <1>4, NoNewExecution DEF Stored

(* A page's step keeps the row of every job that says Running.             *)
LEMMA PageKeepsExclusion ==
  ASSUME ExclusiveInv, TypeInv', UNCHANGED agentVars,
         \A j \in Stored : jobs[j].JobStatus = "Running" =>
           jobs'[j] # NoRow /\ jobs'[j].JobStatus = "Running"
  PROVE  ExclusiveInv'
BY NoNewExecution DEF agentVars

LEMMA WebNextExclusiveInv ==
  ASSUME ExclusiveInv, TypeInv', NEW c \in Clients, WebNext(c), UNCHANGED agentVars
  PROVE  ExclusiveInv'
<1>1. CASE UNCHANGED jobs
  BY <1>1, PageKeepsExclusion DEF Stored
<1>2. CASE CreateJob(c)
  <2>1. PICK j \in Jobs \ Stored, s \in Schedules :
          SaveJobSchedule(j, Posted(form[c].row, TRUE, s))
    BY <1>2 DEF CreateJob
  <2>2. \A k \in Stored : jobs'[k] = jobs[k]
    BY <2>1 DEF SaveJobSchedule, Update, Stored, ExclusiveInv, TypeInv, TypeOK, RepositoryTypeOK
  <2>. QED
    BY <2>2, PageKeepsExclusion DEF Stored
<1>3. CASE Activate(c)
  <2>1. CASE UNCHANGED jobs
    BY <1>1, <2>1
  <2>2. ASSUME LockJobSchedule(posting[c].id) = "Idle",
               Update(posting[c].id, [posting[c].row EXCEPT !.JobStatus = "Waiting"])
        PROVE  \A k \in Stored : jobs[k].JobStatus = "Running" => jobs'[k] = jobs[k]
    BY <2>2 DEF LockJobSchedule, Update, Stored, ExclusiveInv, TypeInv, TypeOK, RepositoryTypeOK
  <2>. QED
    BY <1>3, <2>1, <2>2, PageKeepsExclusion DEF Activate, ActivateJob, Stored
<1>. QED
  BY <1>1, <1>2, <1>3 DEF WebNext, OpenPage, NewSchedule, Index, SaveReply, RunReply, ReplyLost

(* Saving a status the row has keeps it.                                   *)
LEMMA CurrentSaveExclusiveInv ==
  ASSUME ExclusiveInv, TypeInv', NEW c \in Clients, SaveJob(c), FormIsCurrent(c),
         UNCHANGED agentVars
  PROVE  ExclusiveInv'
<1>1. PICK e \in BOOLEAN, s \in Schedules :
        SaveJobSchedule(form[c].id, Posted(form[c].row, e, s))
  BY DEF SaveJob
<1>2. form[c].row \in JobSchedule /\ form[c].id \in Jobs
  BY DEF SaveJob, ExclusiveInv, TypeInv, TypeOK, WebTypeOK, Form
<1>3. /\ Posted(form[c].row, e, s) \in JobSchedule
      /\ Posted(form[c].row, e, s).JobStatus = form[c].row.JobStatus
  <2>1. Posted(form[c].row, e, s) \in JobSchedule
    BY <1>2, PostedIsRow DEF ExclusiveInv, TypeInv, TypeOK, RepositoryTypeOK
  <2>. QED
    BY <1>2, <2>1 DEF Posted, JobSchedule
<1>4. /\ jobs'[form[c].id] \in JobSchedule
      /\ jobs'[form[c].id].JobStatus = form[c].row.JobStatus
      /\ \A k \in Jobs \ {form[c].id} : jobs'[k] = jobs[k]
  BY <1>1, <1>2, <1>3, SavedIsRow DEF ExclusiveInv, TypeInv, TypeOK
<1>. QED
  BY <1>4, NoRowAssumption, PageKeepsExclusion DEF FormIsCurrent, Stored

LEMMA CurrentNextExclusiveInv == ExclusiveInv /\ [CurrentNext]_vars => ExclusiveInv'
<1>. SUFFICES ASSUME ExclusiveInv, [CurrentNext]_vars PROVE ExclusiveInv'
  OBVIOUS
<1>1. TypeInv'
  <2>1. [Next]_vars
    BY DEF CurrentNext, Next
  <2>. QED
    BY <2>1, NextTypeInv DEF ExclusiveInv
<1>2. CASE UNCHANGED <<jobs, agentVars>>
  BY <1>1, <1>2, PageKeepsExclusion DEF Stored
<1>3. CASE AgentNext
  <2>1. PICK a \in Agents : AgentStep(a) \/ AbandonBatch(a)
    BY <1>3 DEF AgentNext
  <2>2. CASE ReadBatch(a) \/ AbandonBatch(a)
    BY <1>1, <2>2, NoNewExecution
    DEF ReadBatch, AbandonBatch, ExclusiveInv, TypeInv, TypeOK, AgentTypeOK, Stored
  <2>3. ASSUME NEW j \in Jobs, SkipJob(a, j) PROVE ExclusiveInv'
    <3>1. \A b \in Agents : pc'[b] = "Executing" => pc[b] = "Executing"
      BY <2>3, NextInBatchType DEF SkipJob, ExclusiveInv, TypeInv, TypeOK
    <3>. QED
      BY <1>1, <2>3, <3>1, NoNewExecution DEF SkipJob, Stored
  <2>. QED
    BY <1>1, <2>1, <2>2, <2>3, StartJobExclusiveInv, EndJobExclusiveInv DEF AgentStep
<1>4. CASE \E c \in Clients : /\ WebNext(c) \/ (SaveJob(c) /\ FormIsCurrent(c))
                              /\ UNCHANGED agentVars
  BY <1>1, <1>4, WebNextExclusiveInv, CurrentSaveExclusiveInv
<1>. QED
  BY <1>2, <1>3, <1>4 DEF CurrentNext, Tick, vars, tables, agentVars

LEMMA ExclusiveInvariant == CurrentSpec => []ExclusiveInv
BY InitExclusiveInv, CurrentNextExclusiveInv, PTL DEF CurrentSpec

(***************************************************************************)
(* StartJob's promise, "ensuring that no other parties have started job    *)
(* execution": with any number of agents, pages, jobs and failures, no two *)
(* agents execute one job, provided that saves are current.                *)
(***************************************************************************)
THEOREM AtMostOneAgent == CurrentSpec => []MutualExclusion
<1>1. ExclusiveInv => MutualExclusion
  BY DEF ExclusiveInv
<1>. QED
  BY <1>1, ExclusiveInvariant, PTL

(***************************************************************************)
(* From the same invariant: the row of a job being executed says Running,  *)
(* so LockJobSchedule turns everybody else away until FinishJob.           *)
(***************************************************************************)
THEOREM RunningWhileExecuting == CurrentSpec => []ExecutingIsRunning
<1>1. ExclusiveInv => ExecutingIsRunning
  BY DEF ExclusiveInv
<1>. QED
  BY <1>1, ExclusiveInvariant, PTL

-----------------------------------------------------------------------------
(***************************************************************************)
(* CurrentSpec implements JobLifecycle.  A page on a job that has no row   *)
(* yet shows a new, Idle job, so that its Save creates the job Idle.       *)
(***************************************************************************)
NewPagesAreIdle ==
  \A c \in Clients : form[c] # NoForm /\ form[c].id = None => form[c].row.JobStatus = "Idle"

LifecycleInv == ExclusiveInv /\ NewPagesAreIdle

LEMMA NextNewPagesAreIdle == LifecycleInv /\ [CurrentNext]_vars => NewPagesAreIdle'
<1>. SUFFICES ASSUME LifecycleInv, [CurrentNext]_vars PROVE NewPagesAreIdle'
  OBVIOUS
<1>1. CASE UNCHANGED form
  BY <1>1 DEF LifecycleInv, NewPagesAreIdle
<1>2. ASSUME NEW c \in Clients, form' = [form EXCEPT ![c] = [id |-> None, row |-> NewJobScheduleModel]]
      PROVE  NewPagesAreIdle'
  BY <1>2 DEF LifecycleInv, NewPagesAreIdle, NewJobScheduleModel, NewJob, ExclusiveInv, TypeInv,
       TypeOK, WebTypeOK
<1>3. ASSUME NEW c \in Clients, NEW j \in Jobs, Show(c, j)
      PROVE  NewPagesAreIdle'
  BY <1>3, WebConstantsAssumption
  DEF Show, LifecycleInv, NewPagesAreIdle, ExclusiveInv, TypeInv, TypeOK, WebTypeOK
<1>4. ASSUME NEW c \in Clients, SaveReply(c) PROVE NewPagesAreIdle'
  BY <1>3, <1>4 DEF SaveReply, LifecycleInv, ExclusiveInv, TypeInv, TypeOK, WebTypeOK, Save
<1>5. ASSUME NEW c \in Clients, RunReply(c) PROVE NewPagesAreIdle'
  BY <1>3, <1>5 DEF RunReply, LifecycleInv, ExclusiveInv, TypeInv, TypeOK, WebTypeOK, Post
<1>. QED
  BY <1>1, <1>2, <1>3, <1>4, <1>5
  DEF CurrentNext, Tick, AgentNext, webVars, WebNext, OpenPage, NewSchedule, Index, CreateJob,
      Activate, ReplyLost, SaveJob, vars

LEMMA LifecycleInvariant == CurrentSpec => []LifecycleInv
<1>1. Init => LifecycleInv
  BY InitExclusiveInv DEF LifecycleInv, NewPagesAreIdle, Init, WebInit
<1>2. LifecycleInv /\ [CurrentNext]_vars => LifecycleInv'
  BY NextNewPagesAreIdle, CurrentNextExclusiveInv DEF LifecycleInv
<1>. QED
  BY <1>1, <1>2, PTL DEF CurrentSpec

(* While executions exclude each other, a job's owner is the agent that    *)
(* executes it.                                                            *)
OwnersExecute ==
  \A j \in Jobs : /\ \A a \in Agents : Executing(a, j) => Owner[j] = a
                  /\ (\A a \in Agents : ~Executing(a, j)) => Owner[j] = NoRun

LEMMA ExclusiveOwners == ExclusiveInv => OwnersExecute
<1>. SUFFICES ASSUME ExclusiveInv PROVE OwnersExecute
  OBVIOUS
<1>1. \A a \in Agents, j \in Jobs : Executing(a, j) => (CHOOSE b \in Agents : Executing(b, j)) = a
  BY DEF ExclusiveInv, MutualExclusion
<1>. QED
  BY <1>1 DEF OwnersExecute, Owner

-----------------------------------------------------------------------------
(* What a step does to the phases of jobs and to their executions.         *)
SameExecutions == \A a \in Agents, j \in Jobs : Executing(a, j)' <=> Executing(a, j)

PhaseBecomes(j, p) == Phase' = [Phase EXCEPT ![j] = p]

LEMMA UpdatedPhase ==
  ASSUME RepositoryTypeOK, NEW j \in Jobs, NEW r \in JobSchedule, Update(j, r)
  PROVE  PhaseBecomes(j, r.JobStatus)
<1>1. /\ jobs'[j] = r /\ r # NoRow
      /\ \A k \in Jobs \ {j} : jobs'[k] = jobs[k]
  BY UpdateKeepsRows, NoRowAssumption
<1>. QED
  BY <1>1 DEF PhaseBecomes, Phase

LEMMA StartJobPhase ==
  ASSUME ExclusiveInv, NEW a \in Agents, NEW j \in Jobs, StartJob(a, j)
  PROVE  /\ pc[a] = "Batch" /\ faults' = faults
         /\ Phase[j] \in {"Idle", "Waiting"}
         /\ PhaseBecomes(j, "Running")
         /\ \A b \in Agents, k \in Jobs : Executing(b, k)' <=> Executing(b, k) \/ (b = a /\ k = j)
<1>. DEFINE r == [batch[a][j] EXCEPT !.JobStatus = "Running"]
<1>1. r \in JobSchedule /\ r.JobStatus = "Running"
  <2>1. batch[a][j] \in JobSchedule
    BY DEF StartJob, ExclusiveInv, TypeInv, TypeOK, AgentTypeOK
  <2>. QED  BY <2>1 DEF JobSchedule, JobStatus
<1>2. Update(j, r)
  BY DEF StartJob, EnterRunningStatus
<1>. HIDE DEF r
<1>3. PhaseBecomes(j, "Running")
  BY <1>1, <1>2, UpdatedPhase DEF ExclusiveInv, TypeInv, TypeOK
<1>4. Phase[j] \in {"Idle", "Waiting"}
  BY DEF StartJob, LockJobSchedule, Phase, ExclusiveInv, TypeInv, TypeOK, RepositoryTypeOK,
         JobSchedule, JobStatus
<1>5. /\ pc[a] = "Batch" /\ pc'[a] = "Executing" /\ run'[a].job = j /\ faults' = faults
      /\ \A b \in Agents \ {a} : pc'[b] = pc[b] /\ run'[b] = run[b]
  BY DEF ExclusiveInv, TypeInv, TypeOK, AgentTypeOK, StartJob
<1>. QED
  BY <1>3, <1>4, <1>5 DEF Executing

LEMMA EndJobPhase ==
  ASSUME ExclusiveInv, NEW a \in Agents, EndJob(a)
  PROVE  /\ run[a].job \in Jobs /\ Executing(a, run[a].job) /\ faults' = faults
         /\ PhaseBecomes(run[a].job, "Idle")
         /\ \A b \in Agents, k \in Jobs : Executing(b, k)' <=> Executing(b, k) /\ b # a
<1>1. /\ run[a].job \in Jobs
      /\ jobs'[run[a].job] \in JobSchedule /\ jobs'[run[a].job].JobStatus = "Idle"
      /\ \A k \in Jobs \ {run[a].job} : jobs'[k] = jobs[k]
  BY EndJobTables DEF ExclusiveInv
<1>2. PhaseBecomes(run[a].job, "Idle")
  BY <1>1, NoRowAssumption DEF PhaseBecomes, Phase
<1>3. NextInBatch(a, run[a].job) /\ run' = [run EXCEPT ![a] = NoRun]
  BY DEF EndJob
<1>4. pc'[a] # "Executing" /\ \A b \in Agents \ {a} : pc'[b] = pc[b] /\ run'[b] = run[b]
  BY <1>1, <1>3, NextInBatchType DEF ExclusiveInv, TypeInv, TypeOK, AgentTypeOK
<1>. QED
  BY <1>1, <1>2, <1>4 DEF Executing, EndJob

LEMMA AbandonBatchPhase ==
  ASSUME ExclusiveInv, NEW a \in Agents, AbandonBatch(a)
  PROVE  /\ Phase' = Phase /\ faults' = faults + 1
         /\ \A b \in Agents, k \in Jobs : Executing(b, k)' <=> Executing(b, k) /\ b # a
BY DEF AbandonBatch, ExclusiveInv, TypeInv, TypeOK, AgentTypeOK, Executing, Phase

(* A page writes a status over another only to create a job or request a   *)
(* run of one that is not running.                                         *)
LEMMA PagePhase ==
  ASSUME LifecycleInv, NEW c \in Clients, WebNext(c) \/ (SaveJob(c) /\ FormIsCurrent(c))
  PROVE  \/ Phase' = Phase
         \/ \E j \in Jobs : Phase[j] = "Absent" /\ PhaseBecomes(j, "Idle")
         \/ \E j \in Jobs : Phase[j] \in {"Idle", "Waiting"} /\ PhaseBecomes(j, "Waiting")
<1>0. TypeInv
  BY DEF LifecycleInv, ExclusiveInv
<1>1. CASE UNCHANGED jobs
  BY <1>1 DEF Phase
<1>2. ASSUME NEW j \in Jobs, NEW e \in BOOLEAN, NEW s \in Schedules, form[c] # NoForm,
             SaveJobSchedule(j, Posted(form[c].row, e, s))
      PROVE  PhaseBecomes(j, form[c].row.JobStatus)
  <2>1. form[c].row \in JobSchedule
    BY <1>0, <1>2 DEF TypeInv, TypeOK, WebTypeOK, Form
  <2>2. /\ Posted(form[c].row, e, s) \in JobSchedule
        /\ Posted(form[c].row, e, s).JobStatus = form[c].row.JobStatus
    <3>1. Posted(form[c].row, e, s) \in JobSchedule
      BY <1>0, <2>1, PostedIsRow DEF TypeInv, TypeOK, RepositoryTypeOK
    <3>. QED  BY <2>1, <3>1 DEF Posted, JobSchedule
  <2>3. /\ jobs'[j] \in JobSchedule
        /\ jobs'[j].JobStatus = form[c].row.JobStatus
        /\ \A k \in Jobs \ {j} : jobs'[k] = jobs[k]
    BY <1>0, <1>2, <2>2, SavedIsRow DEF TypeInv, TypeOK
  <2>. QED
    BY <2>3, NoRowAssumption DEF PhaseBecomes, Phase
<1>3. CASE CreateJob(c)
  <2>1. PICK j \in Jobs \ Stored : PhaseBecomes(j, form[c].row.JobStatus)
    BY <1>2, <1>3 DEF CreateJob
  <2>2. form[c].row.JobStatus = "Idle" /\ Phase[j] = "Absent"
    BY <1>3, <2>1 DEF CreateJob, LifecycleInv, NewPagesAreIdle, Phase, Stored
  <2>. QED  BY <2>1, <2>2
<1>4. CASE SaveJob(c) /\ FormIsCurrent(c)
  <2>1. PhaseBecomes(form[c].id, form[c].row.JobStatus)
    BY <1>2, <1>4 DEF SaveJob
  <2>2. form[c].id \in Jobs /\ jobs[form[c].id] # NoRow
    BY <1>0, <1>4, WebConstantsAssumption DEF SaveJob, TypeInv, PagesNameStoredJobs, Stored
  <2>3. Phase[form[c].id] = form[c].row.JobStatus
    BY <1>4, <2>2 DEF FormIsCurrent, Phase
  <2>4. Phase' = Phase
    BY <2>1, <2>2, <2>3 DEF PhaseBecomes, Phase
  <2>. QED  BY <2>4
<1>5. CASE Activate(c)
  <2>. DEFINE j == posting[c].id
              r == [posting[c].row EXCEPT !.JobStatus = "Waiting"]
  <2>1. CASE LockJobSchedule(j) = "Idle"
    <3>1. posting[c].row \in JobSchedule /\ j \in Jobs
      BY <1>0, <1>5 DEF Activate, TypeInv, TypeOK, WebTypeOK, Post
    <3>2. r \in JobSchedule /\ r.JobStatus = "Waiting"
      BY <3>1, StatusChangeIsRow DEF JobStatus, JobSchedule
    <3>3. Update(j, r)
      BY <1>5, <2>1 DEF Activate, ActivateJob
    <3>4. PhaseBecomes(j, "Waiting")
      <4>. HIDE DEF r
      <4>. QED  BY <1>0, <3>1, <3>2, <3>3, UpdatedPhase DEF TypeInv, TypeOK
    <3>5. Phase[j] \in {"Idle", "Waiting"}
      BY <1>0, <2>1, <3>1 DEF LockJobSchedule, Phase, TypeInv, TypeOK, RepositoryTypeOK,
           JobSchedule, JobStatus
    <3>. QED  BY <3>1, <3>4, <3>5
  <2>2. CASE LockJobSchedule(j) # "Idle"
    BY <1>1, <1>5, <2>2 DEF Activate, ActivateJob
  <2>. QED  BY <2>1, <2>2
<1>. QED
  BY <1>1, <1>3, <1>4, <1>5
  DEF WebNext, OpenPage, NewSchedule, Index, SaveReply, RunReply, ReplyLost

LEMMA StepPhases ==
  ASSUME LifecycleInv, [CurrentNext]_vars
  PROVE  \/ /\ SameExecutions /\ faults' = faults
            /\ \/ Phase' = Phase
               \/ \E j \in Jobs : Phase[j] = "Absent" /\ PhaseBecomes(j, "Idle")
               \/ \E j \in Jobs : Phase[j] \in {"Idle", "Waiting"} /\ PhaseBecomes(j, "Waiting")
         \/ \E a \in Agents : EndJob(a) \/ AbandonBatch(a) \/ \E j \in Jobs : StartJob(a, j)
<1>1. CASE UNCHANGED <<jobs, agentVars>>
  BY <1>1 DEF Phase, SameExecutions, Executing, agentVars
<1>2. ASSUME NEW a \in Agents, ReadBatch(a)
      PROVE  SameExecutions /\ Phase' = Phase /\ faults' = faults
  BY <1>2 DEF ReadBatch, LifecycleInv, ExclusiveInv, TypeInv, TypeOK, AgentTypeOK, Phase,
       SameExecutions, Executing
<1>3. ASSUME NEW a \in Agents, NEW j \in Jobs, SkipJob(a, j)
      PROVE  SameExecutions /\ Phase' = Phase /\ faults' = faults
  <2>1. \A b \in Agents : pc'[b] = "Executing" <=> pc[b] = "Executing"
    BY <1>3, NextInBatchType DEF SkipJob, LifecycleInv, ExclusiveInv, TypeInv, TypeOK
  <2>. QED  BY <1>3, <2>1 DEF SkipJob, Phase, SameExecutions, Executing
<1>4. ASSUME NEW c \in Clients, WebNext(c) \/ (SaveJob(c) /\ FormIsCurrent(c)), UNCHANGED agentVars
      PROVE  /\ SameExecutions /\ faults' = faults
             /\ \/ Phase' = Phase
                \/ \E j \in Jobs : Phase[j] = "Absent" /\ PhaseBecomes(j, "Idle")
                \/ \E j \in Jobs : Phase[j] \in {"Idle", "Waiting"} /\ PhaseBecomes(j, "Waiting")
  BY <1>4, PagePhase DEF agentVars, SameExecutions, Executing
<1>5. CASE AgentNext
  <2>1. PICK a \in Agents : AgentStep(a) \/ AbandonBatch(a)
    BY <1>5 DEF AgentNext
  <2>. QED  BY <2>1, <1>2, <1>3 DEF AgentStep
<1>6. CASE Tick \/ UNCHANGED vars
  BY <1>1, <1>6 DEF Tick, vars, tables, agentVars
<1>. QED
  BY <1>4, <1>5, <1>6 DEF CurrentNext

-----------------------------------------------------------------------------
(* A requested run is not cancelled.                                       *)
LEMMA StepKeepsRequests ==
  ASSUME LifecycleInv, [CurrentNext]_vars, NEW j \in Stored,
         jobs[j].JobStatus = "Waiting", jobs'[j].JobStatus # "Waiting"
  PROVE  Starts(j)
<1>1. j \in Jobs /\ Phase[j] = "Waiting"
  BY DEF Stored, Phase
<1>2. Phase'[j] # "Waiting"
  BY <1>1 DEF Phase
<1>3. CASE \E a \in Agents : EndJob(a) \/ AbandonBatch(a)
  <2>1. PICK a \in Agents : EndJob(a) \/ AbandonBatch(a)
    BY <1>3
  <2>2. Executing(a, run[a].job) /\ run[a].job \in Jobs => run[a].job # j
    BY DEF LifecycleInv, ExclusiveInv, ExecutingIsRunning
  <2>. QED
    BY <1>1, <1>2, <2>1, <2>2, EndJobPhase, AbandonBatchPhase
    DEF LifecycleInv, PhaseBecomes, Phase
<1>4. CASE \E a \in Agents, k \in Jobs : StartJob(a, k)
  <2>1. PICK a \in Agents, k \in Jobs : StartJob(a, k)
    BY <1>4
  <2>2. pc[a] = "Batch" /\ Executing(a, k)' /\ PhaseBecomes(k, "Running")
    BY <2>1, StartJobPhase DEF LifecycleInv
  <2>3. k = j
    BY <1>1, <1>2, <2>2 DEF PhaseBecomes, Phase
  <2>. QED  BY <2>2, <2>3 DEF Starts, Executing
<1>5. CASE \E k \in Jobs : Phase[k] = "Absent" /\ PhaseBecomes(k, "Idle")
  BY <1>1, <1>2, <1>5 DEF PhaseBecomes, Phase
<1>6. CASE \E k \in Jobs : Phase[k] \in {"Idle", "Waiting"} /\ PhaseBecomes(k, "Waiting")
  BY <1>1, <1>2, <1>6 DEF PhaseBecomes, Phase
<1>. QED
  BY <1>1, <1>2, <1>3, <1>4, <1>5, <1>6, StepPhases

(***************************************************************************)
(* ActivateJob's promise: once a run is requested the job stays Waiting    *)
(* until an agent starts it; no save, finished run or failure cancels the  *)
(* request, provided that saves are current.                               *)
(***************************************************************************)
THEOREM RequestsStand == CurrentSpec => WaitingUntilStarted
<1>1. LifecycleInv /\ [CurrentNext]_vars
        => [\A j \in Stored : jobs[j].JobStatus = "Waiting" /\ jobs'[j].JobStatus # "Waiting"
              => Starts(j)]_vars
  BY StepKeepsRequests
<1>. QED
  BY <1>1, LifecycleInvariant, PTL DEF CurrentSpec, WaitingUntilStarted

-----------------------------------------------------------------------------
(***************************************************************************)
(* The refinement, step by step                                            *)
(***************************************************************************)
LEMMA InitRefines == Init => Lifecycle!LifecycleInit
<1>. SUFFICES ASSUME Init PROVE Lifecycle!LifecycleInit
  OBVIOUS
<1>1. Owner = [j \in Jobs |-> NoRun]
  BY DEF Init, AgentInit, Owner, Executing
<1>2. \A j \in Jobs : Phase[j] \in {"Absent", "Idle"}
  BY DEF Init, RepositoryInit, NewJob, Phase
<1>3. Phase = [j \in Jobs |-> Phase[j]]
  BY DEF Phase
<1>. QED
  BY <1>1, <1>2, <1>3 DEF Lifecycle!LifecycleInit

(* The owners a step leaves behind, from the executions it leaves.         *)
LEMMA SameOwners ==
  ASSUME OwnersExecute, OwnersExecute', SameExecutions
  PROVE  Owner' = Owner
<1>1. \A j \in Jobs : Owner'[j] = Owner[j]
  BY DEF OwnersExecute, SameExecutions
<1>. QED
  BY <1>1 DEF Owner

LEMMA NewOwner ==
  ASSUME OwnersExecute, OwnersExecute', NEW a \in Agents, NEW j \in Jobs,
         \A b \in Agents, k \in Jobs : Executing(b, k)' <=> Executing(b, k) \/ (b = a /\ k = j)
  PROVE  Owner' = [Owner EXCEPT ![j] = a]
<1>1. \A k \in Jobs : Owner'[k] = IF k = j THEN a ELSE Owner[k]
  BY DEF OwnersExecute
<1>. QED
  BY <1>1 DEF Owner

LEMMA OwnerGone ==
  ASSUME OwnersExecute, OwnersExecute', NEW a \in Agents, NEW j \in Jobs, Executing(a, j),
         \A b \in Agents, k \in Jobs : Executing(b, k)' <=> Executing(b, k) /\ b # a
  PROVE  Owner[j] # NoRun /\ Owner' = [Owner EXCEPT ![j] = NoRun]
<1>1. \A k \in Jobs : Executing(a, k) => k = j
  BY DEF Executing
<1>2. \A k \in Jobs \ {j} : \A b \in Agents : Executing(b, k)' <=> Executing(b, k)
  BY <1>1
<1>3. \A b \in Agents : ~Executing(b, j)'
  BY DEF OwnersExecute
<1>4. \A k \in Jobs : Owner'[k] = IF k = j THEN NoRun ELSE Owner[k]
  BY <1>2, <1>3 DEF OwnersExecute
<1>. QED
  BY <1>4, NoRunAssumption DEF Owner, OwnersExecute

LEMMA StepRefines ==
  LifecycleInv /\ LifecycleInv' /\ [CurrentNext]_vars
    => [Lifecycle!LifecycleNext]_(Lifecycle!lifecycleVars)
<1>. SUFFICES ASSUME LifecycleInv, LifecycleInv', [CurrentNext]_vars
              PROVE  Lifecycle!LifecycleNext \/ UNCHANGED <<Phase, Owner>>
  BY DEF Lifecycle!lifecycleVars
<1>1. OwnersExecute /\ OwnersExecute'
  <2>1. ExclusiveInv' => OwnersExecute'
    BY ExclusiveOwners, PTL
  <2>. QED  BY <2>1, ExclusiveOwners DEF LifecycleInv
<1>2. ASSUME SameExecutions, NEW j \in Jobs, Phase[j] = "Absent", PhaseBecomes(j, "Idle")
      PROVE  Lifecycle!Create(j)
  BY <1>1, <1>2, SameOwners DEF PhaseBecomes, Lifecycle!Create
<1>3. ASSUME SameExecutions, NEW j \in Jobs, Phase[j] \in {"Idle", "Waiting"},
             PhaseBecomes(j, "Waiting")
      PROVE  Lifecycle!Request(j)
  BY <1>1, <1>3, SameOwners DEF PhaseBecomes, Lifecycle!Request
<1>4. ASSUME SameExecutions, Phase' = Phase
      PROVE  UNCHANGED <<Phase, Owner>>
  BY <1>1, <1>4, SameOwners
<1>5. ASSUME NEW a \in Agents, NEW j \in Jobs, StartJob(a, j)
      PROVE  Lifecycle!Start(j, a)
  <2>1. /\ pc[a] = "Batch" /\ Phase[j] \in {"Idle", "Waiting"} /\ PhaseBecomes(j, "Running")
        /\ \A b \in Agents, k \in Jobs : Executing(b, k)' <=> Executing(b, k) \/ (b = a /\ k = j)
    BY <1>5, StartJobPhase DEF LifecycleInv
  <2>2. \A k \in Jobs : Owner[k] # a
    <3>1. \A k \in Jobs : ~Executing(a, k)
      BY <2>1 DEF Executing
    <3>. QED  BY <1>1, <3>1, NoRunAssumption DEF OwnersExecute
  <2>3. Owner' = [Owner EXCEPT ![j] = a]
    BY <1>1, <2>1, NewOwner
  <2>. QED
    BY <2>1, <2>2, <2>3 DEF PhaseBecomes, Lifecycle!Start
<1>6. ASSUME NEW a \in Agents, EndJob(a)
      PROVE  run[a].job \in Jobs /\ Lifecycle!Finish(run[a].job)
  <2>1. /\ run[a].job \in Jobs /\ Executing(a, run[a].job) /\ PhaseBecomes(run[a].job, "Idle")
        /\ \A b \in Agents, k \in Jobs : Executing(b, k)' <=> Executing(b, k) /\ b # a
    BY <1>6, EndJobPhase DEF LifecycleInv
  <2>. QED
    BY <1>1, <2>1, OwnerGone DEF PhaseBecomes, Lifecycle!Finish
<1>7. ASSUME NEW a \in Agents, AbandonBatch(a)
      PROVE  \/ UNCHANGED <<Phase, Owner>>
             \/ run[a].job \in Jobs /\ Lifecycle!Fail(run[a].job)
  <2>1. /\ Phase' = Phase
        /\ \A b \in Agents, k \in Jobs : Executing(b, k)' <=> Executing(b, k) /\ b # a
    BY <1>7, AbandonBatchPhase DEF LifecycleInv
  <2>2. CASE pc[a] = "Executing"
    <3>1. run[a].job \in Jobs /\ Executing(a, run[a].job)
      BY <2>2 DEF LifecycleInv, ExclusiveInv, TypeInv, AgentsHoldRows, Run, Executing
    <3>. QED
      BY <1>1, <2>1, <3>1, OwnerGone DEF Lifecycle!Fail
  <2>3. CASE pc[a] # "Executing"
    <3>1. SameExecutions
      BY <2>1, <2>3 DEF SameExecutions, Executing
    <3>. QED  BY <1>4, <2>1, <3>1
  <2>. QED  BY <2>2, <2>3
<1>. QED
  BY <1>2, <1>3, <1>4, <1>5, <1>6, <1>7, StepPhases DEF Lifecycle!LifecycleNext

(***************************************************************************)
(* With current saves the application keeps IJobScheduleRepository's       *)
(* contract, whatever the numbers of agents, pages, jobs and failures: a   *)
(* row's status is the phase of its job, and every transaction on the      *)
(* tables is one step of the contract or invisible to it.                  *)
(***************************************************************************)
THEOREM LifecycleIsKept == CurrentSpec => ImplementsLifecycle
BY InitRefines, StepRefines, LifecycleInvariant, PTL
DEF CurrentSpec, ImplementsLifecycle, Lifecycle!LifecycleSpec
=============================================================================
