----------------------- MODULE JobScheduleRepository -----------------------
(***************************************************************************)
(* The JobSchedule and JobHistory tables and the transactions of           *)
(* Milyli.ScriptRunner.Core/Repositories/JobScheduleRepository.cs on them. *)
(*                                                                         *)
(* LockJobSchedule takes the row with UPDLOCK, so a transaction that       *)
(* starts with it is one atomic step.  Every write of a JobSchedule is an  *)
(* UPDATE of all its columns from the caller's in-memory object: the       *)
(* operators below take that object as the argument jobSchedule.           *)
(***************************************************************************)
EXTENDS Schedule, Sequences

CONSTANTS
  Jobs,        \* identities of JobSchedule rows
  Schedules,   \* the schedules users choose from
  NoRow        \* no row (or no object) with this identity

ASSUME SchedulesAssumption == {} \in Schedules /\ Schedules \subseteq SUBSET Positions

VARIABLES
  jobs,        \* JobSchedule: identity -> row
  history,     \* JobHistory: row number = identity, in insertion order
  now          \* DateTime.UtcNow

tables == <<jobs, history>>

JobStatus == {"Idle", "Waiting", "Running"}

JobSchedule ==
  [JobStatus : JobStatus, JobEnabled : BOOLEAN, ExecutionSchedule : Schedules,
   NextExecutionTime : Nullable, LastExecutionTime : Nullable]

JobHistory ==
  [JobScheduleId : Jobs, StartTime : DateTime, Runtime : Nullable, HasError : BOOLEAN]

ASSUME NoRowAssumption == NoRow \notin JobSchedule

RepositoryTypeOK ==
  /\ jobs \in [Jobs -> JobSchedule \cup {NoRow}]
  /\ history \in Seq(JobHistory)
  /\ now \in DateTime

(* A job as its first Save leaves it, and the tables of an application in  *)
(* use: some jobs created earlier, none of them run yet.                   *)
NewJob(schedule, next) ==
  [JobStatus |-> "Idle", JobEnabled |-> TRUE, ExecutionSchedule |-> schedule,
   NextExecutionTime |-> next, LastExecutionTime |-> None]

RepositoryInit ==
  /\ jobs \in [Jobs -> {NewJob(s, GetNextExecution(s, 0)) : s \in Schedules} \cup {NoRow}]
  /\ history = <<>>
  /\ now = 0

Stored == {j \in Jobs : jobs[j] # NoRow}

-----------------------------------------------------------------------------
(***************************************************************************)
(* Reads                                                                   *)
(***************************************************************************)
IsDue(j, runtime) ==
  /\ jobs[j].JobEnabled
  /\ jobs[j].JobStatus = "Idle"
  /\ jobs[j].NextExecutionTime # None
  /\ jobs[j].NextExecutionTime <= runtime

GetJobSchedulesDueOnly(runtime) == {j \in Stored : IsDue(j, runtime)}

GetJobSchedules(runtime) ==
  {j \in Stored : IsDue(j, runtime) \/ jobs[j].JobStatus = "Waiting"}

LockJobScheduleUnchecked(j) == "Idle"

LockJobSchedule(j) ==
  IF jobs[j] = NoRow THEN "InvalidJob"
  ELSE IF jobs[j].JobStatus = "Running" THEN "AlreadyRunning" ELSE "Idle"

-----------------------------------------------------------------------------
(***************************************************************************)
(* Writes                                                                  *)
(***************************************************************************)
Update(j, jobSchedule) == jobs' = [jobs EXCEPT ![j] = jobSchedule]

AddHistoryEntry(j) ==
  history' = Append(history, [JobScheduleId |-> j, StartTime |-> now,
                              Runtime |-> None, HasError |-> FALSE])

EnterRunningStatus(j, jobSchedule) ==
  /\ Update(j, [jobSchedule EXCEPT !.JobStatus = "Running"])
  /\ AddHistoryEntry(j)

(* FinishJob neither locks the row nor looks at its status: the row        *)
(* becomes the object the agent read before the run, with new times.       *)
UpdateExecutionTimes(jobSchedule, start) ==
  [jobSchedule EXCEPT
     !.LastExecutionTime = start,
     !.NextExecutionTime = GetNextExecution(jobSchedule.ExecutionSchedule, start)]

FinishJobKeepingStatus(j, jobSchedule, entry, failed) ==
  LET start == history[entry].StartTime
  IN  /\ history' = [history EXCEPT ![entry].Runtime = now - start,
                                    ![entry].HasError = failed]
      /\ Update(j, [UpdateExecutionTimes(jobSchedule, start) EXCEPT !.JobStatus = "Running"])

FinishJobLastEntry(j, jobSchedule, entry, failed) ==
  LET start == history[entry].StartTime
  IN  /\ history' = [history EXCEPT ![Len(history)].Runtime = now - start,
                                    ![Len(history)].HasError = failed]
      /\ Update(j, [UpdateExecutionTimes(jobSchedule, start) EXCEPT !.JobStatus = "Idle"])

FinishJobNegativeRuntime(j, jobSchedule, entry, failed) ==
  LET start == history[entry].StartTime
  IN  /\ history' = [history EXCEPT ![entry].Runtime = start - now,
                                    ![entry].HasError = failed]
      /\ Update(j, [UpdateExecutionTimes(jobSchedule, start) EXCEPT !.JobStatus = "Idle"])

FinishJobNoRuntime(j, jobSchedule, entry, failed) ==
  LET start == history[entry].StartTime
  IN  /\ history' = [history EXCEPT ![entry].HasError = failed]
      /\ Update(j, [UpdateExecutionTimes(jobSchedule, start) EXCEPT !.JobStatus = "Idle"])

FinishJob(j, jobSchedule, entry, failed) ==
  LET start == history[entry].StartTime
  IN  /\ history' = [history EXCEPT ![entry].Runtime = now - start,
                                    ![entry].HasError = failed]
      /\ Update(j, [UpdateExecutionTimes(jobSchedule, start) EXCEPT !.JobStatus = "Idle"])

ActivateJobUnlocked(j, jobSchedule) ==
  Update(j, [jobSchedule EXCEPT !.JobStatus = "Waiting"])

ActivateJob(j, jobSchedule) ==
  IF LockJobSchedule(j) = "Idle"
    THEN Update(j, [jobSchedule EXCEPT !.JobStatus = "Waiting"])
    ELSE UNCHANGED jobs

(* The result of LockJobSchedule is ignored: the row's status becomes that *)
(* of the object the browser posted.                                       *)
SaveJobScheduleIdle(j, jobSchedule) ==
  Update(j, [jobSchedule EXCEPT !.JobStatus = "Idle"])

SaveJobSchedule(j, jobSchedule) ==
  Update(j, IF jobs[j] # NoRow /\ ~jobSchedule.JobEnabled
              THEN [jobSchedule EXCEPT !.NextExecutionTime = None]
              ELSE jobSchedule)
=============================================================================
