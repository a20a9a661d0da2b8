---------------------------- MODULE ScriptRunner ----------------------------
(***************************************************************************)
(* The whole application: agents (ScriptRunnerAgent) and schedule editors  *)
(* (JobScheduleWeb) over one pair of tables (JobScheduleRepository).       *)
(*                                                                         *)
(* Spec is what the code does.  CurrentSpec is the same system in which no *)
(* page saves over a status it has not seen; the difference between them   *)
(* is the cost of SaveJobSchedule ignoring the result of LockJobSchedule.  *)
(***************************************************************************)
EXTENDS ScriptRunnerAgent, JobScheduleWeb

CONSTANT MaxTime    \* bound on the clock
ASSUME MaxTimeAssumption == MaxTime \in Nat

vars == <<jobs, history, now, pc, batch, run, faults, form, saving, posting, saves>>

Init == RepositoryInit /\ AgentInit /\ WebInit

Tick ==
  /\ now < MaxTime
  /\ now' = now + 1
  /\ UNCHANGED <<tables, agentVars, webVars>>

AgentNext ==
  \E a \in Agents : (AgentStep(a) \/ AbandonBatch(a)) /\ UNCHANGED webVars

OpenPage(c) == NewSchedule(c) \/ \E j \in Jobs : Index(c, j)

WebNext(c) ==
  \/ OpenPage(c)
  \/ CreateJob(c)
  \/ SaveReply(c)
  \/ Activate(c)
  \/ RunReply(c)
  \/ ReplyLost(c)

(* The page shows the status the row has. *)
FormIsCurrent(c) == form[c].row.JobStatus = jobs[form[c].id].JobStatus

Next ==
  \/ Tick
  \/ AgentNext
  \/ \E c \in Clients : (WebNext(c) \/ SaveJob(c)) /\ UNCHANGED agentVars

CurrentNext ==
  \/ Tick
  \/ AgentNext
  \/ \E c \in Clients : /\ WebNext(c) \/ (SaveJob(c) /\ FormIsCurrent(c))
                        /\ UNCHANGED agentVars

Spec == Init /\ [][Next]_vars
CurrentSpec == Init /\ [][CurrentNext]_vars

(***************************************************************************)
(* Fairness.  Relativity invokes every agent again and again, and a script *)
(* ends (MaximumRuntime bounds a direct SQL run), so an agent with a step  *)
(* to take takes one.  A Run request that was posted reaches the server.   *)
(* Users, the clock and lost answers owe nothing.                          *)
(***************************************************************************)
Fairness ==
  /\ \A a \in Agents : WF_vars(AgentStep(a) /\ UNCHANGED webVars)
  /\ \A c \in Clients : WF_vars(Activate(c) /\ UNCHANGED agentVars)

FairSpec == Spec /\ Fairness
FairCurrentSpec == CurrentSpec /\ Fairness

-----------------------------------------------------------------------------
TypeOK == RepositoryTypeOK /\ AgentTypeOK /\ WebTypeOK

Executing(a, j) == pc[a] = "Executing" /\ run[a].job = j

(* The step starts job j. *)
Starts(j) == \E a \in Agents : pc[a] = "Batch" /\ pc'[a] = "Executing" /\ run'[a].job = j

Open(e) == history[e].Runtime = None

(***************************************************************************)
(* IJobScheduleRepository.StartJob: "Starts a job, ensuring that no other  *)
(* parties have started job execution".  No two agents execute one job.    *)
(***************************************************************************)
MutualExclusion ==
  \A a, b \in Agents, j \in Jobs : Executing(a, j) /\ Executing(b, j) => a = b

(***************************************************************************)
(* While an agent executes a job, the row says Running, so that every      *)
(* transaction that locks the row is turned away until FinishJob.          *)
(***************************************************************************)
ExecutingIsRunning ==
  \A a \in Agents, j \in Jobs : Executing(a, j) => j \in Stored /\ jobs[j].JobStatus = "Running"

(***************************************************************************)
(* A job whose row says Running with nobody executing it is stuck: no      *)
(* agent lists it and ActivateJob refuses it.  Only failures cause that,   *)
(* each at most one (FinishJob rolled back, or the agent stopped).         *)
(***************************************************************************)
Orphaned(j) == jobs[j] # NoRow /\ jobs[j].JobStatus = "Running" /\ \A a \in Agents : ~Executing(a, j)

OrphansComeFromFaults == Cardinality({j \in Jobs : Orphaned(j)}) <= faults

(***************************************************************************)
(* JobHistory tells the truth about runs: every agent executing a job      *)
(* holds an entry of that job, still open, that no other agent holds, and  *)
(* the open entries nobody holds are not more than the failures.           *)
(***************************************************************************)
HeldEntries == {run[a].entry : a \in {b \in Agents : pc[b] = "Executing"}}

OneEntryPerRun ==
  /\ \A a \in Agents : pc[a] = "Executing" =>
       /\ run[a].entry \in DOMAIN history
       /\ history[run[a].entry].JobScheduleId = run[a].job
       /\ Open(run[a].entry)
  /\ \A a, b \in Agents : pc[a] = "Executing" /\ pc[b] = "Executing" /\ a # b
                            => run[a].entry # run[b].entry

AbandonedEntriesAreFaults ==
  Cardinality({e \in DOMAIN history : Open(e)} \ HeldEntries) <= faults

(* An entry, once FinishJob has closed it, never changes, and no entry goes. *)
ClosedEntriesNeverChange ==
  [][\A e \in DOMAIN history :
       /\ e \in DOMAIN history'
       /\ ~Open(e) => history'[e] = history[e]]_vars

(***************************************************************************)
(* Every object that travels between tables, agents and pages is coherent: *)
(* an enabled job with a schedule has a next time, on its own schedule and *)
(* later than its last run, so no overwrite can leave a row that never     *)
(* falls due or that names the slot it has just run.                       *)
(***************************************************************************)
Coherent(row) ==
  /\ row.NextExecutionTime # None =>
       /\ row.NextExecutionTime % Week \in row.ExecutionSchedule
       /\ row.LastExecutionTime # None => row.LastExecutionTime < row.NextExecutionTime
  /\ row.LastExecutionTime # None => row.LastExecutionTime <= now
  /\ row.JobEnabled /\ row.ExecutionSchedule # {} => row.NextExecutionTime # None

RowsAreCoherent ==
  /\ \A j \in Stored : Coherent(jobs[j])
  /\ \A a \in Agents, j \in Jobs : batch[a][j] # NoRow => Coherent(batch[a][j])
  /\ \A c \in Clients : /\ form[c] # NoForm => Coherent(form[c].row)
                        /\ posting[c] # NoPost => Coherent(posting[c].row)

(***************************************************************************)
(* ActivateJob: "Marks a job as Waiting for activation".  Once waiting, a  *)
(* job stays so until an agent starts it: nothing cancels the request.     *)
(***************************************************************************)
WaitingUntilStarted ==
  [][\A j \in Stored : jobs[j].JobStatus = "Waiting" /\ jobs'[j].JobStatus # "Waiting"
       => Starts(j)]_vars

(***************************************************************************)
(* ScriptRun.JobEnabled: "Disabled Script Runs will not execute as         *)
(* scheduled".  A job nobody asked to run starts only while enabled.       *)
(***************************************************************************)
DisabledJobsDoNotStart ==
  [][\A j \in Jobs : Starts(j) /\ jobs[j].JobStatus = "Idle" => jobs[j].JobEnabled]_vars

(***************************************************************************)
(* CurrentSpec implements JobLifecycle: a row's status is the phase of its *)
(* job and the agent executing it is the owner.                            *)
(***************************************************************************)
Phase == [j \in Jobs |-> IF jobs[j] = NoRow THEN "Absent" ELSE jobs[j].JobStatus]

Owner ==
  [j \in Jobs |-> IF \E a \in Agents : Executing(a, j)
                    THEN CHOOSE a \in Agents : Executing(a, j) ELSE NoRun]

Lifecycle == INSTANCE JobLifecycle WITH phase <- Phase, owner <- Owner, Nobody <- NoRun

ImplementsLifecycle == Lifecycle!LifecycleSpec

(***************************************************************************)
(* Liveness.  A due job is eventually run: its slot does not stay due,     *)
(* unless the agent that took it failed, which strands the job.            *)
(***************************************************************************)
SlotPending(j) ==
  /\ jobs[j] # NoRow
  /\ jobs[j].JobEnabled
  /\ jobs[j].NextExecutionTime # None
  /\ jobs[j].NextExecutionTime <= now

DueJobsRun == \A j \in Jobs : SlotPending(j) ~> ~SlotPending(j) \/ Orphaned(j)

(* A Run request leads to the job running. *)
RunRequestsAreServed ==
  \A c \in Clients, j \in Jobs :
    posting[c] # NoPost /\ posting[c].id = j /\ ~posting[c].activated
      ~> j \in Stored /\ jobs[j].JobStatus = "Running"
=============================================================================
