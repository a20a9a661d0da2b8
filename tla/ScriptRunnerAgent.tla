------------------------- MODULE ScriptRunnerAgent -------------------------
(***************************************************************************)
(* The agents that run due jobs: ScriptRunnerAgent.Execute calls           *)
(* RelativityScriptRunner.ExecuteAllJobs, which reads the list of jobs     *)
(* once and then starts, executes and finishes each in turn.  Several      *)
(* agents run against the same tables; one agent is never re-entered.      *)
(*                                                                         *)
(* What happens between StartJob and FinishJob (the script itself) is      *)
(* inside the state "Executing"; its outcome is the argument of FinishJob. *)
(***************************************************************************)
EXTENDS JobScheduleRepository

CONSTANTS
  Agents,
  NoRun,      \* the agent is executing nothing
  MaxFaults   \* bound on agent failures

ASSUME MaxFaultsAssumption == MaxFaults \in Nat

VARIABLES
  pc,         \* where each agent is
  batch,      \* the objects of ExecuteAllJobs' list not dealt with yet
  run,        \* the job being executed and its CurrentJobHistory
  faults      \* failures so far

agentVars == <<pc, batch, run, faults>>

Run == [job : Jobs, entry : Nat \ {0}]
ASSUME NoRunAssumption == NoRun \notin Run \cup Agents

EmptyBatch == [j \in Jobs |-> NoRow]

AgentTypeOK ==
  /\ pc \in [Agents -> {"Idle", "Batch", "Executing"}]
  /\ batch \in [Agents -> [Jobs -> JobSchedule \cup {NoRow}]]
  /\ run \in [Agents -> Run \cup {NoRun}]
  /\ faults \in 0 .. MaxFaults

AgentInit ==
  /\ pc = [a \in Agents |-> "Idle"]
  /\ batch = [a \in Agents |-> EmptyBatch]
  /\ run = [a \in Agents |-> NoRun]
  /\ faults = 0

(* One invocation: the list is read once, at DateTime.UtcNow. *)
ReadBatch(a) ==
  /\ pc[a] = "Idle"
  /\ GetJobSchedules(now) # {}
  /\ pc' = [pc EXCEPT ![a] = "Batch"]
  /\ batch' = [batch EXCEPT ![a] =
                 [j \in Jobs |-> IF j \in GetJobSchedules(now) THEN jobs[j] ELSE NoRow]]
  /\ UNCHANGED <<jobs, history, now, run, faults>>

(* The loop goes on with the rest of the list, or ends with it. *)
NextInBatch(a, j) ==
  /\ batch' = [batch EXCEPT ![a][j] = NoRow]
  /\ pc' = [pc EXCEPT ![a] = IF \A k \in Jobs \ {j} : batch[a][k] = NoRow
                               THEN "Idle" ELSE "Batch"]

(* StartJob returns Started. *)
StartJob(a, j) ==
  /\ pc[a] = "Batch"
  /\ batch[a][j] # NoRow
  /\ LockJobSchedule(j) = "Idle"
  /\ EnterRunningStatus(j, batch[a][j])
  /\ run' = [run EXCEPT ![a] = [job |-> j, entry |-> Len(history) + 1]]
  /\ pc' = [pc EXCEPT ![a] = "Executing"]
  /\ UNCHANGED <<now, batch, faults>>

(* StartJob returns AlreadyRunning or InvalidJob: the job is passed over. *)
SkipJob(a, j) ==
  /\ pc[a] = "Batch"
  /\ batch[a][j] # NoRow
  /\ LockJobSchedule(j) # "Idle"
  /\ NextInBatch(a, j)
  /\ UNCHANGED <<jobs, history, now, run, faults>>

(* The script has ended, with or without an error: FinishJob commits. *)
EndJob(a) ==
  /\ pc[a] = "Executing"
  /\ \E failed \in BOOLEAN :
       FinishJob(run[a].job, batch[a][run[a].job], run[a].entry, failed)
  /\ NextInBatch(a, run[a].job)
  /\ run' = [run EXCEPT ![a] = NoRun]
  /\ UNCHANGED <<now, faults>>

(***************************************************************************)
(* StartJob or FinishJob throws after rolling back, or the agent's process *)
(* stops.  Nothing above catches: the rest of the list is dropped and, if  *)
(* a job was executing, its row stays Running and its entry open.          *)
(***************************************************************************)
AbandonBatch(a) ==
  /\ pc[a] # "Idle"
  /\ faults < MaxFaults
  /\ faults' = faults + 1
  /\ pc' = [pc EXCEPT ![a] = "Idle"]
  /\ batch' = [batch EXCEPT ![a] = EmptyBatch]
  /\ run' = [run EXCEPT ![a] = NoRun]
  /\ UNCHANGED <<jobs, history, now>>

AgentStep(a) ==
  \/ ReadBatch(a)
  \/ \E j \in Jobs : StartJob(a, j) \/ SkipJob(a, j)
  \/ EndJob(a)
=============================================================================
