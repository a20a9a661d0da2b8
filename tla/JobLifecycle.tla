---------------------------- MODULE JobLifecycle ----------------------------
(***************************************************************************)
(* What the application promises about a job, with no tables, copies of    *)
(* rows or transactions: IJobScheduleRepository's contract.  A job is      *)
(* started by one agent at a time, only that agent ends the run, a request *)
(* to run it waits until an agent takes it, and an owner that fails leaves *)
(* the job Running for ever.                                               *)
(***************************************************************************)
CONSTANTS Jobs, Agents, Nobody

VARIABLES
  phase,    \* each job: Absent, Idle, Waiting or Running
  owner     \* the agent executing it, or Nobody

lifecycleVars == <<phase, owner>>

LifecycleTypeOK ==
  /\ phase \in [Jobs -> {"Absent", "Idle", "Waiting", "Running"}]
  /\ owner \in [Jobs -> Agents \cup {Nobody}]

LifecycleInit ==
  /\ phase \in [Jobs -> {"Absent", "Idle"}]
  /\ owner = [j \in Jobs |-> Nobody]

Create(j) ==
  /\ phase[j] = "Absent"
  /\ phase' = [phase EXCEPT ![j] = "Idle"]
  /\ UNCHANGED owner

Request(j) ==
  /\ phase[j] \in {"Idle", "Waiting"}
  /\ phase' = [phase EXCEPT ![j] = "Waiting"]
  /\ UNCHANGED owner

Start(j, a) ==
  /\ phase[j] \in {"Idle", "Waiting"}
  /\ \A k \in Jobs : owner[k] # a
  /\ phase' = [phase EXCEPT ![j] = "Running"]
  /\ owner' = [owner EXCEPT ![j] = a]

Finish(j) ==
  /\ owner[j] # Nobody
  /\ phase' = [phase EXCEPT ![j] = "Idle"]
  /\ owner' = [owner EXCEPT ![j] = Nobody]

Fail(j) ==
  /\ owner[j] # Nobody
  /\ owner' = [owner EXCEPT ![j] = Nobody]
  /\ UNCHANGED phase

LifecycleNext ==
  \E j \in Jobs :
    \/ Create(j)
    \/ Request(j)
    \/ \E a \in Agents : Start(j, a)
    \/ Finish(j)
    \/ Fail(j)

LifecycleSpec == LifecycleInit /\ [][LifecycleNext]_lifecycleVars
=============================================================================
