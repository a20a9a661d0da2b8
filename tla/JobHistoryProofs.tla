--------------------------- MODULE JobHistoryProofs ---------------------------
(***************************************************************************)
(* Theorems about what ScriptRunner leaves in its two tables: the entries  *)
(* of JobHistory against the runs there were, the jobs left Running        *)
(* against the failures there were, and the coherence of the rows.         *)
(***************************************************************************)
EXTENDS ScriptRunnerProofs, FiniteSetTheorems

(***************************************************************************)
(* What the two transactions that write JobHistory do to it                *)
(***************************************************************************)

(* StartJob adds one open entry, after all the others.                     *)
LEMMA StartJobHistory ==
  ASSUME TypeInv, NEW a \in Agents, NEW j \in Jobs, StartJob(a, j)
  PROVE  /\ DOMAIN history = 1 .. Len(history) /\ Len(history) \in Nat
         /\ DOMAIN history' = 1 .. (Len(history) + 1)
         /\ \A e \in DOMAIN history : history'[e] = history[e]
         /\ history'[Len(history) + 1] =
              [JobScheduleId |-> j, StartTime |-> now, Runtime |-> None, HasError |-> FALSE]
<1>. DEFINE new == [JobScheduleId |-> j, StartTime |-> now, Runtime |-> None, HasError |-> FALSE]
<1>1. history \in Seq(JobHistory)
  BY DEF TypeInv, TypeOK, RepositoryTypeOK
<1>2. history' = Append(history, new)
  BY DEF StartJob, EnterRunningStatus, AddHistoryEntry
<1>3. new \in JobHistory
  BY DEF TypeInv, TypeOK, RepositoryTypeOK, JobHistory, Nullable
<1>. HIDE DEF new
<1>4. history'[Len(history) + 1] = new
  BY <1>1, <1>2, <1>3
<1>. QED
  BY <1>1, <1>2, <1>3, <1>4 DEF new

(* FinishJob closes the entry of its run and touches no other.             *)
LEMMA EndJobHistory ==
  ASSUME TypeInv, NEW a \in Agents, EndJob(a)
  PROVE  /\ run[a].entry \in DOMAIN history
         /\ DOMAIN history' = DOMAIN history
         /\ \A e \in DOMAIN history \ {run[a].entry} : history'[e] = history[e]
         /\ history'[run[a].entry].Runtime # None
<1>. DEFINE e == run[a].entry
            start == history[e].StartTime
<1>1. history \in Seq(JobHistory) /\ e \in 1 .. Len(history)
  BY DEF TypeInv, TypeOK, RepositoryTypeOK, AgentsHoldRows, EndJob
<1>2. PICK failed \in BOOLEAN :
        history' = [history EXCEPT ![e].Runtime = now - start, ![e].HasError = failed]
  BY DEF EndJob, FinishJob
<1>3. now - start \in Int
  <2>1. history[e] \in JobHistory
    BY <1>1
  <2>. QED  BY <2>1 DEF JobHistory, DateTime, TypeInv, TypeOK, RepositoryTypeOK
<1>4. history[e] \in JobHistory
  BY <1>1
<1>. HIDE DEF start
<1>5. history' = [history EXCEPT ![e] =
                    [[history[e] EXCEPT !.Runtime = now - start] EXCEPT !.HasError = failed]]
  BY <1>1, <1>2, <1>4
<1>6. history'[e].Runtime = now - start
  BY <1>1, <1>4, <1>5 DEF JobHistory
<1>. QED
  BY <1>1, <1>3, <1>5, <1>6, NoneAssumption

-----------------------------------------------------------------------------
(***************************************************************************)
(* Entries and runs.  OneEntryPerRun is inductive with the type invariant: *)
(* StartJob's entry is newer than every entry an agent remembers.          *)
(***************************************************************************)
HistoryInv == TypeInv /\ OneEntryPerRun

(* Steps that begin no execution, and change no entry an agent holds.      *)
LEMMA HeldEntriesKept ==
  ASSUME HistoryInv, TypeInv',
         \A a \in Agents : pc'[a] = "Executing" =>
           /\ pc[a] = "Executing" /\ run'[a] = run[a]
           /\ run[a].entry \in DOMAIN history'
           /\ history'[run[a].entry] = history[run[a].entry]
  PROVE  HistoryInv'
BY DEF HistoryInv, OneEntryPerRun, Open

LEMMA StartJobHistoryInv ==
  ASSUME HistoryInv, TypeInv', NEW a \in Agents, NEW j \in Jobs, StartJob(a, j)
  PROVE  HistoryInv'
<1>. DEFINE n == Len(history) + 1
<1>1. /\ DOMAIN history = 1 .. Len(history) /\ Len(history) \in Nat
      /\ DOMAIN history' = 1 .. n
      /\ \A e \in DOMAIN history : history'[e] = history[e]
      /\ history'[n] = [JobScheduleId |-> j, StartTime |-> now, Runtime |-> None, HasError |-> FALSE]
  BY StartJobHistory DEF HistoryInv
<1>2. /\ pc[a] = "Batch" /\ run'[a] = [job |-> j, entry |-> n]
      /\ \A b \in Agents \ {a} : pc'[b] = pc[b] /\ run'[b] = run[b]
  BY DEF StartJob, HistoryInv, TypeInv, TypeOK, AgentTypeOK
<1>3. \A b \in Agents \ {a} : pc'[b] = "Executing" => run'[b].entry \in DOMAIN history
  BY <1>2 DEF HistoryInv, OneEntryPerRun
<1>4. \A e \in DOMAIN history : e # n /\ e \in DOMAIN history'
  BY <1>1
<1>. HIDE DEF n
<1>5. \A b \in Agents : pc'[b] = "Executing" =>
        /\ run'[b].entry \in DOMAIN history'
        /\ history'[run'[b].entry].JobScheduleId = run'[b].job
        /\ history'[run'[b].entry].Runtime = None
  <2>. SUFFICES ASSUME NEW b \in Agents, pc'[b] = "Executing"
                PROVE  /\ run'[b].entry \in DOMAIN history'
                       /\ history'[run'[b].entry].JobScheduleId = run'[b].job
                       /\ history'[run'[b].entry].Runtime = None
    OBVIOUS
  <2>1. CASE b = a
    <3>1. n \in 1 .. n
      BY <1>1 DEF n
    <3>. QED  BY <1>1, <1>2, <2>1, <3>1
  <2>2. CASE b # a
    BY <1>1, <1>2, <1>3, <1>4, <2>2 DEF HistoryInv, OneEntryPerRun, Open
  <2>. QED  BY <2>1, <2>2
<1>6. \A b, d \in Agents : pc'[b] = "Executing" /\ pc'[d] = "Executing" /\ b # d
                             => run'[b].entry # run'[d].entry
  BY <1>2, <1>3, <1>4 DEF HistoryInv, OneEntryPerRun
<1>. QED
  BY <1>5, <1>6 DEF HistoryInv, OneEntryPerRun, Open

LEMMA EndJobHistoryInv ==
  ASSUME HistoryInv, TypeInv', NEW a \in Agents, EndJob(a)
  PROVE  HistoryInv'
<1>1. /\ DOMAIN history' = DOMAIN history
      /\ \A e \in DOMAIN history \ {run[a].entry} : history'[e] = history[e]
  BY EndJobHistory DEF HistoryInv
<1>2. run[a].job \in Jobs /\ NextInBatch(a, run[a].job) /\ run' = [run EXCEPT ![a] = NoRun]
  BY EndJobTables DEF EndJob, HistoryInv
<1>3. pc'[a] # "Executing" /\ \A b \in Agents \ {a} : pc'[b] = pc[b] /\ run'[b] = run[b]
  BY <1>2, NextInBatchType DEF HistoryInv, TypeInv, TypeOK, AgentTypeOK
<1>4. \A b \in Agents \ {a} : pc[b] = "Executing" =>
        run[b].entry \in DOMAIN history \ {run[a].entry}
  BY DEF EndJob, HistoryInv, OneEntryPerRun
<1>. QED
  BY <1>1, <1>3, <1>4, HeldEntriesKept

LEMMA InitHistoryInv == Init => HistoryInv
BY InitTypeInv DEF HistoryInv, OneEntryPerRun, Init, AgentInit

(* The agent's steps that neither start nor finish a job.                  *)
LEMMA OtherStepsStartNothing ==
  ASSUME TypeInv, NEW a \in Agents,
         ReadBatch(a) \/ AbandonBatch(a) \/ \E j \in Jobs : SkipJob(a, j)
  PROVE  /\ UNCHANGED <<jobs, history, now>>
         /\ \A b \in Agents : pc'[b] = "Executing" => pc[b] = "Executing" /\ run'[b] = run[b]
<1>1. CASE ReadBatch(a) \/ AbandonBatch(a)
  BY <1>1 DEF ReadBatch, AbandonBatch, TypeInv, TypeOK, AgentTypeOK
<1>2. ASSUME NEW j \in Jobs, SkipJob(a, j)
      PROVE  /\ UNCHANGED <<jobs, history, now>>
             /\ \A b \in Agents : pc'[b] = "Executing" => pc[b] = "Executing" /\ run'[b] = run[b]
  BY <1>2, NextInBatchType DEF SkipJob, TypeInv, TypeOK
<1>. QED
  BY <1>1, <1>2

LEMMA NextHistoryInv == HistoryInv /\ [Next]_vars => HistoryInv'
<1>. SUFFICES ASSUME HistoryInv, [Next]_vars PROVE HistoryInv'
  OBVIOUS
<1>1. TypeInv'
  BY NextTypeInv DEF HistoryInv
<1>2. CASE UNCHANGED <<history, agentVars>>
  BY <1>1, <1>2 DEF HistoryInv, agentVars, OneEntryPerRun, Open
<1>3. CASE AgentNext
  <2>1. PICK a \in Agents : AgentStep(a) \/ AbandonBatch(a)
    BY <1>3 DEF AgentNext
  <2>2. CASE ReadBatch(a) \/ AbandonBatch(a) \/ \E j \in Jobs : SkipJob(a, j)
    BY <1>1, <2>2, OtherStepsStartNothing, HeldEntriesKept DEF HistoryInv, OneEntryPerRun
  <2>. QED
    BY <1>1, <2>1, <2>2, StartJobHistoryInv, EndJobHistoryInv DEF AgentStep
<1>4. CASE \E c \in Clients : (WebNext(c) \/ SaveJob(c)) /\ UNCHANGED agentVars
  <2>1. UNCHANGED <<history, agentVars>>
    BY <1>4 DEF WebNext, OpenPage, NewSchedule, Index, CreateJob, SaveReply, Activate,
         RunReply, ReplyLost, SaveJob
  <2>. QED  BY <1>2, <2>1
<1>. QED
  BY <1>2, <1>3, <1>4 DEF Next, Tick, vars, tables, agentVars

LEMMA HistoryInvariant == Spec => []HistoryInv
BY InitHistoryInv, NextHistoryInv, PTL DEF Spec

(***************************************************************************)
(* Every agent that executes a job writes the end of its run to an open    *)
(* entry of that job which no other agent holds, even when two agents      *)
(* execute the same job after a stale save.                                *)
(***************************************************************************)
THEOREM OwnEntry == Spec => []OneEntryPerRun
<1>1. HistoryInv => OneEntryPerRun
  BY DEF HistoryInv
<1>. QED
  BY <1>1, HistoryInvariant, PTL

-----------------------------------------------------------------------------
(***************************************************************************)
(* History is never rewritten                                              *)
(***************************************************************************)
EntriesStay ==
  \A e \in DOMAIN history :
    /\ e \in DOMAIN history'
    /\ ~Open(e) => history'[e] = history[e]

LEMMA StepKeepsClosedEntries == HistoryInv /\ [Next]_vars => EntriesStay
<1>. SUFFICES ASSUME HistoryInv, [Next]_vars PROVE EntriesStay
  OBVIOUS
<1>1. CASE UNCHANGED history
  BY <1>1 DEF EntriesStay
<1>2. ASSUME NEW a \in Agents, NEW j \in Jobs, StartJob(a, j) PROVE EntriesStay
  <2>1. /\ DOMAIN history = 1 .. Len(history) /\ Len(history) \in Nat
        /\ DOMAIN history' = 1 .. (Len(history) + 1)
        /\ \A e \in DOMAIN history : history'[e] = history[e]
    BY <1>2, StartJobHistory DEF HistoryInv
  <2>2. DOMAIN history \subseteq DOMAIN history'
    BY <2>1
  <2>. QED  BY <2>1, <2>2 DEF EntriesStay
<1>3. ASSUME NEW a \in Agents, EndJob(a) PROVE EntriesStay
  <2>1. /\ DOMAIN history' = DOMAIN history
        /\ \A e \in DOMAIN history \ {run[a].entry} : history'[e] = history[e]
    BY <1>3, EndJobHistory DEF HistoryInv
  <2>2. Open(run[a].entry)
    BY <1>3 DEF HistoryInv, OneEntryPerRun, EndJob
  <2>. QED  BY <2>1, <2>2 DEF EntriesStay
<1>. QED
  BY <1>1, <1>2, <1>3
  DEF Next, Tick, AgentNext, AgentStep, ReadBatch, SkipJob, AbandonBatch, WebNext, OpenPage,
      NewSchedule, Index, CreateJob, SaveReply, Activate, RunReply, ReplyLost, SaveJob, vars, tables

(***************************************************************************)
(* An entry that FinishJob has closed keeps its times and its error for    *)
(* ever, and no entry is removed: the run FinishJob closes is the agent's  *)
(* own, whose entry was still open.                                        *)
(***************************************************************************)
THEOREM HistoryIsPermanent == Spec => ClosedEntriesNeverChange
<1>1. HistoryInv /\ [Next]_vars
        => [\A e \in DOMAIN history :
              /\ e \in DOMAIN history'
              /\ ~Open(e) => history'[e] = history[e]]_vars
  BY StepKeepsClosedEntries DEF EntriesStay
<1>. QED
  BY <1>1, HistoryInvariant, PTL DEF Spec, ClosedEntriesNeverChange

-----------------------------------------------------------------------------
(***************************************************************************)
(* Abandoned entries.  The set is finite, being part of the history, and   *)
(* only AbandonBatch adds to it, one entry and one fault at a time.        *)
(***************************************************************************)
Abandoned == {e \in DOMAIN history : Open(e)} \ HeldEntries

FaultyHistoryInv == HistoryInv /\ IsFiniteSet(Abandoned) /\ AbandonedEntriesAreFaults

(* A set that gains at most one element, and the counter that pays for it. *)
LEMMA OneMoreElement ==
  ASSUME NEW S, IsFiniteSet(S), NEW T, NEW x, T \subseteq S \cup {x}
  PROVE  IsFiniteSet(T) /\ Cardinality(T) <= Cardinality(S) + 1
<1>1. IsFiniteSet(S \cup {x}) /\ Cardinality(S \cup {x}) <= Cardinality(S) + 1
      /\ Cardinality(S) \in Nat
  BY FS_AddElement, FS_CardinalityType
<1>2. T \in SUBSET (S \cup {x})
  OBVIOUS
<1>3. IsFiniteSet(T) /\ Cardinality(T) <= Cardinality(S \cup {x})
  BY <1>1, <1>2, FS_Subset
<1>4. Cardinality(T) \in Nat /\ Cardinality(S \cup {x}) \in Nat
  BY <1>1, <1>3, FS_CardinalityType
<1>. QED
  BY <1>1, <1>3, <1>4

LEMMA NoMoreElements ==
  ASSUME NEW S, IsFiniteSet(S), NEW T, T \subseteq S
  PROVE  IsFiniteSet(T) /\ Cardinality(T) <= Cardinality(S)
<1>1. T \in SUBSET S
  OBVIOUS
<1>. QED
  BY <1>1, FS_Subset

LEMMA StepAbandonsNoMore ==
  ASSUME FaultyHistoryInv, HistoryInv', Abandoned' \subseteq Abandoned, faults' = faults
  PROVE  FaultyHistoryInv'
<1>1. IsFiniteSet(Abandoned') /\ Cardinality(Abandoned') <= Cardinality(Abandoned)
  BY NoMoreElements DEF FaultyHistoryInv
<1>2. Cardinality(Abandoned) \in Nat /\ Cardinality(Abandoned') \in Nat
  BY <1>1, FS_CardinalityType DEF FaultyHistoryInv
<1>3. faults \in Int /\ Cardinality(Abandoned) <= faults
  BY MaxFaultsAssumption DEF FaultyHistoryInv, HistoryInv, TypeInv, TypeOK, AgentTypeOK,
     AbandonedEntriesAreFaults, Abandoned
<1>4. Cardinality(Abandoned') <= faults'
  BY <1>1, <1>2, <1>3
<1>. QED
  BY <1>1, <1>4 DEF FaultyHistoryInv, AbandonedEntriesAreFaults, Abandoned

LEMMA StartJobAbandonsNothing ==
  ASSUME HistoryInv, NEW a \in Agents, NEW j \in Jobs, StartJob(a, j)
  PROVE  Abandoned' \subseteq Abandoned /\ faults' = faults
<1>. DEFINE n == Len(history) + 1
<1>1. /\ DOMAIN history = 1 .. Len(history) /\ Len(history) \in Nat
      /\ DOMAIN history' = 1 .. n
      /\ \A e \in DOMAIN history : history'[e] = history[e]
  BY StartJobHistory DEF HistoryInv
<1>2. /\ pc[a] = "Batch" /\ pc'[a] = "Executing" /\ run'[a] = [job |-> j, entry |-> n]
      /\ \A b \in Agents \ {a} : pc'[b] = pc[b] /\ run'[b] = run[b]
  BY DEF StartJob, HistoryInv, TypeInv, TypeOK, AgentTypeOK
<1>3. n \in HeldEntries'
  BY <1>2 DEF HeldEntries
<1>4. HeldEntries \subseteq HeldEntries'
  BY <1>2 DEF HeldEntries
<1>5. \A e \in DOMAIN history' \ {n} : e \in DOMAIN history
  BY <1>1
<1>. QED
  BY <1>1, <1>3, <1>4, <1>5 DEF Abandoned, Open, StartJob

LEMMA EndJobAbandonsNothing ==
  ASSUME HistoryInv, NEW a \in Agents, EndJob(a)
  PROVE  Abandoned' \subseteq Abandoned /\ faults' = faults
<1>1. /\ run[a].entry \in DOMAIN history
      /\ DOMAIN history' = DOMAIN history
      /\ \A e \in DOMAIN history \ {run[a].entry} : history'[e] = history[e]
      /\ history'[run[a].entry].Runtime # None
  BY EndJobHistory DEF HistoryInv
<1>2. run[a].job \in Jobs /\ NextInBatch(a, run[a].job) /\ run' = [run EXCEPT ![a] = NoRun]
  BY EndJobTables DEF EndJob, HistoryInv
<1>3. \A b \in Agents \ {a} : pc'[b] = pc[b] /\ run'[b] = run[b]
  BY <1>2, NextInBatchType DEF HistoryInv, TypeInv, TypeOK, AgentTypeOK
<1>4. HeldEntries \subseteq HeldEntries' \cup {run[a].entry}
  BY <1>3 DEF HeldEntries
<1>. QED
  BY <1>1, <1>4 DEF Abandoned, Open, EndJob

(* A failing agent leaves at most the entry it held.                       *)
LEMMA AbandonBatchFaultyHistoryInv ==
  ASSUME FaultyHistoryInv, HistoryInv', NEW a \in Agents, AbandonBatch(a)
  PROVE  FaultyHistoryInv'
<1>1. \A b \in Agents \ {a} : pc'[b] = pc[b] /\ run'[b] = run[b]
  BY DEF AbandonBatch, FaultyHistoryInv, HistoryInv, TypeInv, TypeOK, AgentTypeOK
<1>2. HeldEntries \subseteq HeldEntries' \cup {run[a].entry}
  BY <1>1 DEF HeldEntries
<1>3. Abandoned' \subseteq Abandoned \cup {run[a].entry}
  BY <1>2 DEF Abandoned, Open, AbandonBatch
<1>4. IsFiniteSet(Abandoned') /\ Cardinality(Abandoned') <= Cardinality(Abandoned) + 1
  BY <1>3, OneMoreElement DEF FaultyHistoryInv
<1>5. Cardinality(Abandoned) \in Nat /\ Cardinality(Abandoned') \in Nat
  BY <1>4, FS_CardinalityType DEF FaultyHistoryInv
<1>6. faults \in Int /\ faults' = faults + 1 /\ Cardinality(Abandoned) <= faults
  BY MaxFaultsAssumption DEF FaultyHistoryInv, HistoryInv, TypeInv, TypeOK, AgentTypeOK,
     AbandonedEntriesAreFaults, Abandoned, AbandonBatch
<1>7. Cardinality(Abandoned') <= faults'
  BY <1>4, <1>5, <1>6
<1>. QED
  BY <1>4, <1>7 DEF FaultyHistoryInv, AbandonedEntriesAreFaults, Abandoned

LEMMA InitFaultyHistoryInv == Init => FaultyHistoryInv
<1>. SUFFICES ASSUME Init PROVE FaultyHistoryInv
  OBVIOUS
<1>1. Abandoned = {}
  BY DEF Init, RepositoryInit, Abandoned
<1>. QED
  BY <1>1, InitHistoryInv, FS_EmptySet
  DEF FaultyHistoryInv, AbandonedEntriesAreFaults, Abandoned, Init, AgentInit

LEMMA NextFaultyHistoryInv == FaultyHistoryInv /\ [Next]_vars => FaultyHistoryInv'
<1>. SUFFICES ASSUME FaultyHistoryInv, [Next]_vars PROVE FaultyHistoryInv'
  OBVIOUS
<1>1. HistoryInv'
  BY NextHistoryInv DEF FaultyHistoryInv
<1>2. CASE UNCHANGED <<history, faults>> /\ HeldEntries' = HeldEntries
  BY <1>1, <1>2, StepAbandonsNoMore DEF Abandoned, Open
<1>3. CASE AgentNext
  <2>1. PICK a \in Agents : AgentStep(a) \/ AbandonBatch(a)
    BY <1>3 DEF AgentNext
  <2>2. CASE ReadBatch(a)
    <3>1. HeldEntries' = HeldEntries
      BY <2>2 DEF ReadBatch, HeldEntries, FaultyHistoryInv, HistoryInv, TypeInv, TypeOK, AgentTypeOK
    <3>. QED  BY <1>2, <2>2, <3>1 DEF ReadBatch
  <2>3. ASSUME NEW j \in Jobs, SkipJob(a, j) PROVE FaultyHistoryInv'
    <3>1. NextInBatch(a, j) /\ run' = run /\ pc[a] = "Batch"
      BY <2>3 DEF SkipJob
    <3>2. \A b \in Agents : pc'[b] = "Executing" <=> pc[b] = "Executing"
      BY <3>1, NextInBatchType DEF FaultyHistoryInv, HistoryInv, TypeInv, TypeOK
    <3>3. HeldEntries' = HeldEntries
      BY <3>1, <3>2 DEF HeldEntries
    <3>. QED  BY <1>2, <2>3, <3>3 DEF SkipJob
  <2>4. ASSUME NEW j \in Jobs, StartJob(a, j) PROVE FaultyHistoryInv'
    BY <1>1, <2>4, StartJobAbandonsNothing, StepAbandonsNoMore DEF FaultyHistoryInv
  <2>5. CASE EndJob(a)
    BY <1>1, <2>5, EndJobAbandonsNothing, StepAbandonsNoMore DEF FaultyHistoryInv
  <2>. QED
    BY <1>1, <2>1, <2>2, <2>3, <2>4, <2>5, AbandonBatchFaultyHistoryInv DEF AgentStep
<1>4. CASE UNCHANGED <<history, agentVars>>
  BY <1>2, <1>4 DEF agentVars, HeldEntries
<1>5. CASE \E c \in Clients : (WebNext(c) \/ SaveJob(c)) /\ UNCHANGED agentVars
  <2>1. UNCHANGED <<history, agentVars>>
    BY <1>5 DEF WebNext, OpenPage, NewSchedule, Index, CreateJob, SaveReply, Activate,
         RunReply, ReplyLost, SaveJob
  <2>. QED  BY <1>4, <2>1
<1>. QED
  BY <1>3, <1>4, <1>5 DEF Next, Tick, vars, tables, agentVars

(***************************************************************************)
(* An entry that stays open with nobody to close it is the trace of one    *)
(* agent's failure, and every failure leaves at most one.                  *)
(***************************************************************************)
THEOREM AbandonedEntriesAreCounted == Spec => []AbandonedEntriesAreFaults
<1>1. FaultyHistoryInv => AbandonedEntriesAreFaults
  BY DEF FaultyHistoryInv
<1>2. Spec => []FaultyHistoryInv
  BY InitFaultyHistoryInv, NextFaultyHistoryInv, PTL DEF Spec
<1>. QED
  BY <1>1, <1>2, PTL

-----------------------------------------------------------------------------
(***************************************************************************)
(* Coherence of rows.  What makes a row coherent at one instant makes it   *)
(* so later, and every operation that builds a row keeps it coherent; the  *)
(* copies agents and pages hold must be part of the invariant, because     *)
(* those are what the tables are overwritten with.                         *)
(***************************************************************************)
CoherentAt(row, t) ==
  /\ row.NextExecutionTime # None =>
       /\ row.NextExecutionTime % Week \in row.ExecutionSchedule
       /\ row.LastExecutionTime # None => row.LastExecutionTime < row.NextExecutionTime
  /\ row.LastExecutionTime # None => row.LastExecutionTime <= t
  /\ row.JobEnabled /\ row.ExecutionSchedule # {} => row.NextExecutionTime # None

LEMMA LaterCoherent ==
  ASSUME NEW r \in JobSchedule, NEW t \in Nat, NEW u \in Nat, t <= u, CoherentAt(r, t)
  PROVE  CoherentAt(r, u)
<1>1. r.LastExecutionTime # None => r.LastExecutionTime \in Nat
  BY DEF JobSchedule, Nullable, DateTime
<1>. QED
  BY <1>1 DEF CoherentAt

LEMMA StatusKeepsCoherent ==
  ASSUME NEW r \in JobSchedule, NEW st, NEW t \in Nat, CoherentAt(r, t)
  PROVE  CoherentAt([r EXCEPT !.JobStatus = st], t)
BY DEF CoherentAt, JobSchedule

(* The next time computed at t lies on the schedule and after t.           *)
LEMMA NextTimeIsAhead ==
  ASSUME NEW s \in Schedules, NEW t \in Nat
  PROVE  LET n == GetNextExecution(s, t)
         IN  /\ s # {} => n # None
             /\ n # None => n \in Nat /\ n > t /\ n % Week \in s
<1>1. s \in SUBSET Positions
  BY SchedulesAssumption
<1>2. CASE s = {}
  BY <1>2, NextExecutionOfEmpty
<1>3. CASE s # {}
  <2>1. GetNextExecution(s, t) \in (t + 1) .. (t + Week) /\ GetNextExecution(s, t) % Week \in s
    BY <1>1, <1>3, NextExecutionOfSchedule
  <2>2. GetNextExecution(s, t) \in Nat /\ GetNextExecution(s, t) > t
    BY <2>1, WeekAssumption
  <2>. QED  BY <2>1, <2>2, NoneAssumption
<1>. QED
  BY <1>2, <1>3

LEMMA NewJobIsCoherent ==
  ASSUME NEW s \in Schedules, NEW t \in Nat
  PROVE  CoherentAt(NewJob(s, GetNextExecution(s, t)), t) /\ CoherentAt(NewJob({}, None), t)
BY NextTimeIsAhead DEF CoherentAt, NewJob

LEMMA FinishedIsCoherent ==
  ASSUME NEW r \in JobSchedule, NEW t \in Nat, NEW start \in Nat, start <= t
  PROVE  CoherentAt([UpdateExecutionTimes(r, start) EXCEPT !.JobStatus = "Idle"], t)
<1>. DEFINE n == GetNextExecution(r.ExecutionSchedule, start)
            f == [UpdateExecutionTimes(r, start) EXCEPT !.JobStatus = "Idle"]
<1>1. r.ExecutionSchedule \in Schedules
  BY DEF JobSchedule
<1>2. /\ r.ExecutionSchedule # {} => n # None
      /\ n # None => n \in Nat /\ n > start /\ n % Week \in r.ExecutionSchedule
  BY <1>1, NextTimeIsAhead
<1>3. /\ f.ExecutionSchedule = r.ExecutionSchedule
      /\ f.LastExecutionTime = start
      /\ f.NextExecutionTime = n
  BY DEF UpdateExecutionTimes, JobSchedule
<1>. HIDE DEF n, f
<1>4. CoherentAt(f, t)
  BY <1>2, <1>3 DEF CoherentAt
<1>. QED
  BY <1>4 DEF f

LEMMA SavedIsCoherent ==
  ASSUME NEW r \in JobSchedule, NEW e \in BOOLEAN, NEW s \in Schedules,
         now \in Nat, CoherentAt(r, now)
  PROVE  LET p == Posted(r, e, s)
         IN  /\ p \in JobSchedule
             /\ CoherentAt(p, now)
             /\ ~p.JobEnabled => CoherentAt([p EXCEPT !.NextExecutionTime = None], now)
<1>. DEFINE n == GetNextExecution(s, now)
            p == Posted(r, e, s)
            d == [p EXCEPT !.NextExecutionTime = None]
<1>1. /\ s # {} => n # None
      /\ n # None => n \in Nat /\ n > now /\ n % Week \in s
  BY NextTimeIsAhead
<1>2. p \in JobSchedule
  BY PostedIsRow DEF DateTime
<1>3. /\ p.JobEnabled = e
      /\ p.ExecutionSchedule = s
      /\ p.NextExecutionTime = n
      /\ p.LastExecutionTime = r.LastExecutionTime
  BY DEF Posted, JobSchedule
<1>4. r.LastExecutionTime # None => r.LastExecutionTime \in Nat /\ r.LastExecutionTime <= now
  BY DEF CoherentAt, JobSchedule, Nullable, DateTime
<1>. HIDE DEF n, p
<1>5. CoherentAt(p, now)
  <2>1. n # None /\ r.LastExecutionTime # None => r.LastExecutionTime < n
    BY <1>1, <1>4
  <2>. QED  BY <1>1, <1>3, <1>4, <2>1 DEF CoherentAt
<1>6. ~p.JobEnabled => CoherentAt(d, now)
  BY <1>2, <1>3, <1>4 DEF CoherentAt, JobSchedule
<1>. QED
  BY <1>2, <1>5, <1>6 DEF p

JobsCoherent == \A j \in Stored : CoherentAt(jobs[j], now)

BatchesCoherent ==
  \A a \in Agents, j \in Jobs : batch[a][j] # NoRow => CoherentAt(batch[a][j], now)

PagesCoherent ==
  \A c \in Clients : /\ form[c] # NoForm => CoherentAt(form[c].row, now)
                     /\ posting[c] # NoPost => CoherentAt(posting[c].row, now)

CoherentInv == TypeInv /\ JobsCoherent /\ BatchesCoherent /\ PagesCoherent

(* The types of all these rows, from the type invariant.                   *)
LEMMA RowsHaveTypes ==
  ASSUME TypeInv
  PROVE  /\ now \in Nat
         /\ \A j \in Stored : j \in Jobs /\ jobs[j] \in JobSchedule
         /\ \A a \in Agents, j \in Jobs : batch[a][j] # NoRow => batch[a][j] \in JobSchedule
         /\ \A c \in Clients : /\ form[c] # NoForm => form[c].row \in JobSchedule
                               /\ posting[c] # NoPost => posting[c].row \in JobSchedule
<1>1. now \in Nat /\ \A j \in Stored : j \in Jobs /\ jobs[j] \in JobSchedule
  BY DEF TypeInv, TypeOK, RepositoryTypeOK, Stored, DateTime
<1>2. \A a \in Agents, j \in Jobs : batch[a][j] # NoRow => batch[a][j] \in JobSchedule
  BY DEF TypeInv, TypeOK, AgentTypeOK
<1>3. \A c \in Clients : /\ form[c] # NoForm => form[c].row \in JobSchedule
                         /\ posting[c] # NoPost => posting[c].row \in JobSchedule
  BY DEF TypeInv, TypeOK, WebTypeOK, Form, Post
<1>. QED
  BY <1>1, <1>2, <1>3

LEMMA InitCoherentInv == Init => CoherentInv
<1>. SUFFICES ASSUME Init PROVE CoherentInv
  OBVIOUS
<1>1. JobsCoherent
  <2>1. \A s \in Schedules : CoherentAt(NewJob(s, GetNextExecution(s, 0)), 0)
    BY NewJobIsCoherent
  <2>. QED
    BY <2>1 DEF Init, RepositoryInit, JobsCoherent, Stored
<1>2. BatchesCoherent /\ PagesCoherent
  BY DEF Init, AgentInit, WebInit, EmptyBatch, BatchesCoherent, PagesCoherent
<1>. QED
  BY <1>1, <1>2, InitTypeInv DEF CoherentInv

LEMMA TickCoherentInv == CoherentInv /\ TypeInv' /\ Tick => CoherentInv'
<1>. SUFFICES ASSUME CoherentInv, TypeInv', Tick PROVE CoherentInv'
  OBVIOUS
<1>1. now \in Nat /\ now' \in Nat /\ now <= now'
  BY RowsHaveTypes DEF CoherentInv, Tick
<1>2. UNCHANGED <<jobs, batch, form, posting>>
  BY DEF Tick, tables, agentVars, webVars
<1>3. JobsCoherent'
  BY <1>1, <1>2, RowsHaveTypes, LaterCoherent DEF CoherentInv, JobsCoherent, Stored
<1>4. BatchesCoherent'
  BY <1>1, <1>2, RowsHaveTypes, LaterCoherent DEF CoherentInv, BatchesCoherent
<1>5. PagesCoherent'
  <2>. SUFFICES ASSUME NEW c \in Clients
                PROVE  /\ form[c] # NoForm => CoherentAt(form[c].row, now')
                       /\ posting[c] # NoPost => CoherentAt(posting[c].row, now')
    BY <1>2 DEF PagesCoherent
  <2>1. /\ form[c] # NoForm => form[c].row \in JobSchedule /\ CoherentAt(form[c].row, now)
        /\ posting[c] # NoPost => posting[c].row \in JobSchedule /\ CoherentAt(posting[c].row, now)
    BY RowsHaveTypes DEF CoherentInv, PagesCoherent
  <2>. QED  BY <1>1, <2>1, LaterCoherent
<1>. QED
  BY <1>3, <1>4, <1>5 DEF CoherentInv

(* An agent's copies are of coherent rows, and dropping some keeps that.   *)
LEMMA AgentCoherentInv ==
  ASSUME CoherentInv, TypeInv', NEW a \in Agents, AgentStep(a) \/ AbandonBatch(a),
         UNCHANGED webVars
  PROVE  CoherentInv'
<1>0. now' = now /\ UNCHANGED <<form, posting>>
  BY DEF AgentStep, ReadBatch, StartJob, SkipJob, EndJob, AbandonBatch, webVars
<1>1. PagesCoherent'
  BY <1>0 DEF CoherentInv, PagesCoherent
<1>2. BatchesCoherent'
  <2>1. CASE ReadBatch(a)
    <3>1. batch' = [batch EXCEPT ![a] =
                      [j \in Jobs |-> IF j \in GetJobSchedules(now) THEN jobs[j] ELSE NoRow]]
      BY <2>1 DEF ReadBatch
    <3>2. \A j \in GetJobSchedules(now) : j \in Stored
      BY DEF GetJobSchedules
    <3>. QED
      BY <1>0, <3>1, <3>2
      DEF CoherentInv, TypeInv, TypeOK, AgentTypeOK, BatchesCoherent, JobsCoherent
  <2>2. CASE \E j \in Jobs : batch' = [batch EXCEPT ![a][j] = NoRow]
    BY <1>0, <2>2 DEF CoherentInv, TypeInv, TypeOK, AgentTypeOK, BatchesCoherent
  <2>3. CASE UNCHANGED batch
    BY <1>0, <2>3 DEF CoherentInv, BatchesCoherent
  <2>4. CASE AbandonBatch(a)
    BY <1>0, <2>4 DEF AbandonBatch, EmptyBatch, CoherentInv, TypeInv, TypeOK, AgentTypeOK,
         BatchesCoherent
  <2>5. CASE EndJob(a)
    BY <2>2, <2>5, EndJobTables DEF EndJob, NextInBatch, CoherentInv
  <2>6. ASSUME NEW j \in Jobs, SkipJob(a, j) PROVE BatchesCoherent'
    BY <2>2, <2>6 DEF SkipJob, NextInBatch
  <2>7. ASSUME NEW j \in Jobs, StartJob(a, j) PROVE BatchesCoherent'
    BY <2>3, <2>7 DEF StartJob
  <2>. QED
    BY <2>1, <2>4, <2>5, <2>6, <2>7 DEF AgentStep
<1>3. JobsCoherent'
  <2>1. CASE UNCHANGED jobs
    BY <1>0, <2>1 DEF CoherentInv, JobsCoherent, Stored
  <2>2. ASSUME NEW j \in Jobs, StartJob(a, j) PROVE JobsCoherent'
    <3>. DEFINE r == [batch[a][j] EXCEPT !.JobStatus = "Running"]
    <3>1. batch[a][j] \in JobSchedule /\ CoherentAt(batch[a][j], now) /\ now \in Nat
      BY <2>2, RowsHaveTypes DEF StartJob, CoherentInv, BatchesCoherent
    <3>2. CoherentAt(r, now)
      BY <3>1, StatusKeepsCoherent
    <3>3. Update(j, r)
      BY <2>2 DEF StartJob, EnterRunningStatus
    <3>. HIDE DEF r
    <3>. QED
      BY <1>0, <3>2, <3>3 DEF Update, CoherentInv, TypeInv, TypeOK, RepositoryTypeOK, JobsCoherent, Stored
  <2>3. CASE EndJob(a)
    <3>. DEFINE j == run[a].job
                start == history[run[a].entry].StartTime
                r == [UpdateExecutionTimes(batch[a][j], start) EXCEPT !.JobStatus = "Idle"]
    <3>1. j \in Jobs /\ batch[a][j] \in JobSchedule /\ run[a].entry \in 1 .. Len(history)
      BY <2>3, EndJobTables DEF EndJob, CoherentInv, TypeInv, AgentsHoldRows
    <3>2. start \in Nat /\ start <= now /\ now \in Nat
      <4>1. history[run[a].entry] \in JobHistory
        BY <3>1 DEF CoherentInv, TypeInv, TypeOK, RepositoryTypeOK
      <4>. QED
        BY <3>1, <4>1, RowsHaveTypes DEF JobHistory, DateTime, CoherentInv, TypeInv, RunsStartedInThePast
    <3>3. CoherentAt(r, now)
      BY <3>1, <3>2, FinishedIsCoherent
    <3>4. Update(j, r)
      BY <2>3 DEF EndJob, FinishJob
    <3>. HIDE DEF r
    <3>. QED
      BY <1>0, <3>1, <3>3, <3>4 DEF Update, CoherentInv, TypeInv, TypeOK, RepositoryTypeOK, JobsCoherent, Stored
  <2>. QED
    BY <2>1, <2>2, <2>3 DEF AgentStep, ReadBatch, SkipJob, AbandonBatch
<1>. QED
  BY <1>1, <1>2, <1>3 DEF CoherentInv

(* A step of a page that shows or posts rows it has read.                  *)
LEMMA PageCoherentInv ==
  ASSUME CoherentInv, TypeInv', NEW c \in Clients, WebNext(c) \/ SaveJob(c), UNCHANGED agentVars
  PROVE  CoherentInv'
<1>0. now' = now /\ now \in Nat /\ UNCHANGED batch
  BY RowsHaveTypes DEF WebNext, OpenPage, NewSchedule, Index, CreateJob, SaveReply, Activate,
       RunReply, ReplyLost, SaveJob, agentVars, CoherentInv
<1>1. BatchesCoherent'
  BY <1>0 DEF CoherentInv, BatchesCoherent
<1>2. PagesCoherent'
  <2>1. CASE NewSchedule(c)
    <3>1. CoherentAt(NewJobScheduleModel, now)
      BY <1>0, SchedulesAssumption, NewJobIsCoherent DEF NewJobScheduleModel
    <3>. QED
      BY <1>0, <2>1, <3>1
      DEF NewSchedule, CoherentInv, PagesCoherent, TypeInv, TypeOK, WebTypeOK
  <2>2. ASSUME NEW j \in Stored, Show(c, j), UNCHANGED posting
        PROVE  PagesCoherent'
    BY <1>0, <2>2 DEF Show, CoherentInv, JobsCoherent, PagesCoherent, TypeInv, TypeOK, WebTypeOK
  <2>3. CASE CreateJob(c) \/ SaveJob(c)
    BY <1>0, <2>3 DEF CreateJob, SaveJob, CoherentInv, PagesCoherent
  <2>4. CASE SaveReply(c)
    <3>1. saving[c].id \in Stored
      BY <2>4 DEF SaveReply, CoherentInv, TypeInv, PagesNameStoredJobs
    <3>2. CASE UNCHANGED posting
      BY <2>2, <2>4, <3>1, <3>2 DEF SaveReply
    <3>3. CASE posting' = [posting EXCEPT ![c] = [id |-> saving[c].id, activated |-> FALSE,
                                                  row |-> jobs[saving[c].id]]]
      BY <1>0, <2>4, <3>1, <3>3
      DEF SaveReply, Show, CoherentInv, JobsCoherent, PagesCoherent, TypeInv, TypeOK, WebTypeOK
    <3>. QED  BY <2>4, <3>2, <3>3 DEF SaveReply
  <2>5. CASE Activate(c)
    <3>1. posting[c] \in Post
      BY <2>5 DEF Activate, CoherentInv, TypeInv, TypeOK, WebTypeOK
    <3>2. [posting[c] EXCEPT !.activated = TRUE].row = posting[c].row
      BY <3>1 DEF Post
    <3>. QED
      BY <1>0, <2>5, <3>2
      DEF Activate, CoherentInv, PagesCoherent, TypeInv, TypeOK, WebTypeOK
  <2>6. CASE RunReply(c)
    <3>1. posting[c].id \in Stored
      BY <2>6 DEF RunReply, CoherentInv, TypeInv, PagesNameStoredJobs
    <3>. QED
      BY <1>0, <2>6, <3>1
      DEF RunReply, Show, CoherentInv, JobsCoherent, PagesCoherent, TypeInv, TypeOK, WebTypeOK
  <2>7. CASE ReplyLost(c)
    BY <1>0, <2>7 DEF ReplyLost, CoherentInv, PagesCoherent, TypeInv, TypeOK, WebTypeOK
  <2>. QED
    BY <2>1, <2>2, <2>3, <2>4, <2>5, <2>6, <2>7 DEF WebNext, OpenPage, Index
<1>3. JobsCoherent'
  <2>1. CASE UNCHANGED jobs
    BY <1>0, <2>1 DEF CoherentInv, JobsCoherent, Stored
  <2>2. ASSUME NEW j \in Jobs, NEW r, CoherentAt(r, now), Update(j, r)
        PROVE  JobsCoherent'
    BY <1>0, <2>2 DEF Update, CoherentInv, TypeInv, TypeOK, RepositoryTypeOK, JobsCoherent, Stored
  <2>3. ASSUME NEW j \in Jobs, NEW e \in BOOLEAN, NEW s \in Schedules, form[c] # NoForm,
               SaveJobSchedule(j, Posted(form[c].row, e, s))
        PROVE  JobsCoherent'
    <3>. DEFINE p == Posted(form[c].row, e, s)
                d == [p EXCEPT !.NextExecutionTime = None]
    <3>1. form[c].row \in JobSchedule /\ CoherentAt(form[c].row, now)
      BY <2>3, RowsHaveTypes DEF CoherentInv, PagesCoherent
    <3>2. CoherentAt(p, now) /\ (~p.JobEnabled => CoherentAt(d, now))
      BY <1>0, <3>1, SavedIsCoherent
    <3>3. Update(j, p) \/ (~p.JobEnabled /\ Update(j, d))
      BY <2>3 DEF SaveJobSchedule
    <3>. HIDE DEF p, d
    <3>. QED  BY <2>2, <3>2, <3>3
  <2>4. CASE CreateJob(c)
    BY <2>3, <2>4 DEF CreateJob
  <2>5. CASE SaveJob(c)
    BY <2>3, <2>5 DEF SaveJob
  <2>6. CASE Activate(c)
    <3>. DEFINE r == [posting[c].row EXCEPT !.JobStatus = "Waiting"]
    <3>1. posting[c].row \in JobSchedule /\ CoherentAt(posting[c].row, now) /\ posting[c].id \in Jobs
      BY <2>6, RowsHaveTypes
      DEF Activate, CoherentInv, PagesCoherent, TypeInv, PagesNameStoredJobs, Stored
    <3>2. CoherentAt(r, now)
      BY <1>0, <3>1, StatusKeepsCoherent
    <3>3. Update(posting[c].id, r) \/ UNCHANGED jobs
      BY <2>6 DEF Activate, ActivateJob
    <3>. HIDE DEF r
    <3>. QED  BY <2>1, <2>2, <3>1, <3>2, <3>3
  <2>. QED
    BY <2>1, <2>4, <2>5, <2>6
    DEF WebNext, OpenPage, NewSchedule, Index, SaveReply, RunReply, ReplyLost
<1>. QED
  BY <1>1, <1>2, <1>3 DEF CoherentInv

LEMMA NextCoherentInv == CoherentInv /\ [Next]_vars => CoherentInv'
<1>. SUFFICES ASSUME CoherentInv, [Next]_vars PROVE CoherentInv'
  OBVIOUS
<1>1. TypeInv'
  BY NextTypeInv DEF CoherentInv
<1>2. CASE UNCHANGED vars
  BY <1>1, <1>2 DEF vars, CoherentInv, JobsCoherent, BatchesCoherent, PagesCoherent, Stored
<1>. QED
  BY <1>1, <1>2, TickCoherentInv, AgentCoherentInv, PageCoherentInv DEF Next, AgentNext

(***************************************************************************)
(* No overwrite, by an agent with the object it read before the run or by  *)
(* a page with the row it shows, leaves a row that is enabled and          *)
(* scheduled but never falls due, that falls due off its schedule, or that *)
(* names again the slot it has run: for every week, schedule, number of    *)
(* agents and pages, and even when saves are stale.                        *)
(***************************************************************************)
THEOREM EveryRowIsCoherent == Spec => []RowsAreCoherent
<1>1. CoherentInv => RowsAreCoherent
  BY DEF CoherentInv, JobsCoherent, BatchesCoherent, PagesCoherent, CoherentAt,
         RowsAreCoherent, Coherent
<1>2. Spec => []CoherentInv
  BY InitCoherentInv, NextCoherentInv, PTL DEF Spec
<1>. QED
  BY <1>1, <1>2, PTL

-----------------------------------------------------------------------------
(***************************************************************************)
(* Jobs left Running.  With current saves a job is orphaned when its phase *)
(* is Running and nobody owns it; only a failing agent makes one.          *)
(***************************************************************************)
Orphans == {j \in Jobs : Orphaned(j)}

OrphanInv == LifecycleInv /\ IsFiniteSet(Orphans) /\ OrphansComeFromFaults

OrphansArePhases ==
  Orphans = {j \in Jobs : Phase[j] = "Running" /\ \A a \in Agents : ~Executing(a, j)}

LEMMA OrphansByPhase == OrphansArePhases
BY DEF OrphansArePhases, Orphans, Orphaned, Phase

LEMMA InitOrphanInv == Init => OrphanInv
<1>. SUFFICES ASSUME Init PROVE OrphanInv
  OBVIOUS
<1>1. Orphans = {}
  BY DEF Init, RepositoryInit, NewJob, Orphans, Orphaned
<1>2. LifecycleInv
  BY InitExclusiveInv DEF LifecycleInv, NewPagesAreIdle, Init, WebInit
<1>. QED
  BY <1>1, <1>2, FS_EmptySet DEF OrphanInv, OrphansComeFromFaults, Orphans, Init, AgentInit

LEMMA StepOrphansNobody ==
  ASSUME LifecycleInv, LifecycleInv', [CurrentNext]_vars, ~\E a \in Agents : AbandonBatch(a)
  PROVE  Orphans' \subseteq Orphans /\ faults' = faults
<1>0. /\ Orphans = {j \in Jobs : Phase[j] = "Running" /\ \A a \in Agents : ~Executing(a, j)}
      /\ Orphans' = {j \in Jobs : Phase'[j] = "Running" /\ \A a \in Agents : ~Executing(a, j)'}
  <2>1. OrphansArePhases'
    BY OrphansByPhase, PTL
  <2>. QED  BY <2>1, OrphansByPhase DEF OrphansArePhases
<1>1. ASSUME SameExecutions,
             \/ Phase' = Phase
             \/ \E j \in Jobs : PhaseBecomes(j, "Idle")
             \/ \E j \in Jobs : PhaseBecomes(j, "Waiting")
      PROVE  Orphans' \subseteq Orphans
  <2>1. \A k \in Jobs : Phase'[k] = "Running" => Phase[k] = "Running"
    BY <1>1 DEF PhaseBecomes, Phase
  <2>. QED  BY <1>0, <1>1, <2>1 DEF SameExecutions
<1>2. ASSUME NEW a \in Agents, NEW j \in Jobs, StartJob(a, j)
      PROVE  Orphans' \subseteq Orphans /\ faults' = faults
  <2>1. /\ faults' = faults /\ PhaseBecomes(j, "Running")
        /\ \A b \in Agents, k \in Jobs : Executing(b, k)' <=> Executing(b, k) \/ (b = a /\ k = j)
    BY <1>2, StartJobPhase DEF LifecycleInv
  <2>2. \A k \in Jobs : Phase'[k] = "Running" => Phase[k] = "Running" \/ k = j
    BY <2>1 DEF PhaseBecomes, Phase
  <2>. QED  BY <1>0, <2>1, <2>2
<1>3. ASSUME NEW a \in Agents, EndJob(a)
      PROVE  Orphans' \subseteq Orphans /\ faults' = faults
  <2>. DEFINE j == run[a].job
  <2>1. /\ j \in Jobs /\ Executing(a, j) /\ faults' = faults /\ PhaseBecomes(j, "Idle")
        /\ \A b \in Agents, k \in Jobs : Executing(b, k)' <=> Executing(b, k) /\ b # a
    BY <1>3, EndJobPhase DEF LifecycleInv
  <2>2. \A k \in Jobs : Phase'[k] = "Running" => Phase[k] = "Running" /\ k # j
    BY <2>1 DEF PhaseBecomes, Phase
  <2>3. \A k \in Jobs : Executing(a, k) => k = j
    BY DEF Executing
  <2>. QED  BY <1>0, <2>1, <2>2, <2>3
<1>. QED
  BY <1>1, <1>2, <1>3, StepPhases

(* A failing agent strands at most the job it was executing.               *)
LEMMA FailureOrphansOne ==
  ASSUME LifecycleInv, LifecycleInv', NEW a \in Agents, AbandonBatch(a)
  PROVE  Orphans' \subseteq Orphans \cup {run[a].job} /\ faults' = faults + 1
<1>1. /\ Phase' = Phase /\ faults' = faults + 1
      /\ \A b \in Agents, k \in Jobs : Executing(b, k)' <=> Executing(b, k) /\ b # a
  BY AbandonBatchPhase DEF LifecycleInv
<1>2. \A k \in Jobs : Executing(a, k) => k = run[a].job
  BY DEF Executing
<1>3. OrphansArePhases'
  BY OrphansByPhase, PTL
<1>. QED
  BY <1>1, <1>2, <1>3, OrphansByPhase DEF OrphansArePhases

LEMMA NextOrphanInv == OrphanInv /\ LifecycleInv' /\ [CurrentNext]_vars => OrphanInv'
<1>. SUFFICES ASSUME OrphanInv, LifecycleInv', [CurrentNext]_vars PROVE OrphanInv'
  OBVIOUS
<1>1. /\ IsFiniteSet(Orphans) /\ Cardinality(Orphans) \in Nat
      /\ faults \in Int /\ Cardinality(Orphans) <= faults
  BY FS_CardinalityType, MaxFaultsAssumption
  DEF OrphanInv, OrphansComeFromFaults, Orphans, LifecycleInv, ExclusiveInv, TypeInv, TypeOK, AgentTypeOK
<1>2. CASE \E a \in Agents : AbandonBatch(a)
  <2>1. PICK a \in Agents : Orphans' \subseteq Orphans \cup {run[a].job} /\ faults' = faults + 1
    BY <1>2, FailureOrphansOne DEF OrphanInv
  <2>2. IsFiniteSet(Orphans') /\ Cardinality(Orphans') <= Cardinality(Orphans) + 1
    BY <1>1, <2>1, OneMoreElement
  <2>3. Cardinality(Orphans') \in Nat
    BY <2>2, FS_CardinalityType
  <2>4. Cardinality(Orphans') <= faults'
    BY <1>1, <2>1, <2>2, <2>3
  <2>. QED  BY <2>2, <2>4 DEF OrphanInv, OrphansComeFromFaults, Orphans
<1>3. CASE ~\E a \in Agents : AbandonBatch(a)
  <2>1. Orphans' \subseteq Orphans /\ faults' = faults
    BY <1>3, StepOrphansNobody DEF OrphanInv
  <2>2. IsFiniteSet(Orphans') /\ Cardinality(Orphans') <= Cardinality(Orphans)
    BY <1>1, <2>1, NoMoreElements
  <2>3. Cardinality(Orphans') \in Nat
    BY <2>2, FS_CardinalityType
  <2>4. Cardinality(Orphans') <= faults'
    BY <1>1, <2>1, <2>2, <2>3
  <2>. QED  BY <2>2, <2>4 DEF OrphanInv, OrphansComeFromFaults, Orphans
<1>. QED
  BY <1>2, <1>3

(***************************************************************************)
(* A row that says Running while nobody executes the job is the trace of   *)
(* one agent's failure, and every failure leaves at most one: with current *)
(* saves neither a race for the row nor a page strands a job.              *)
(***************************************************************************)
THEOREM OrphansAreCounted == CurrentSpec => []OrphansComeFromFaults
<1>1. OrphanInv => OrphansComeFromFaults
  BY DEF OrphanInv
<1>2. CurrentSpec => []OrphanInv
  BY InitOrphanInv, NextOrphanInv, LifecycleInvariant, PTL DEF CurrentSpec
<1>. QED
  BY <1>1, <1>2, PTL
=============================================================================
