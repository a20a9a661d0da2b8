--------------------------- MODULE ScriptExecution ---------------------------
(***************************************************************************)
(* What an agent does between StartJob and FinishJob, which module         *)
(* ScriptRunnerAgent takes as one state with any outcome.                  *)
(*                                                                         *)
(* A script job runs through RSAPI in a loop of three attempts             *)
(* (ExecuteScriptJob).  A direct SQL job makes one table per saved search  *)
(* its inputs name, runs the script's SQL on them and drops them           *)
(* (ExecuteDirectSqlJob, SearchTableManager).  Any call to Relativity or   *)
(* to the database may throw.  An agent's process may also stop, which     *)
(* ScriptRunnerAgent has as AbandonBatch; here it does not.                *)
(***************************************************************************)
EXTENDS Integers, FiniteSets

CONSTANTS
  Agents,
  Jobs,       \* jobs of one workspace
  Searches,   \* saved searches the inputs of every script name
  NoResult,   \* executeResult = null
  MaxRuns,    \* bound on the number of runs
  MaxTime     \* bound on the clock

ASSUME MaxRunsAssumption == MaxRuns \in Nat
ASSUME MaxTimeAssumption == MaxTime \in Nat
ASSUME NoResultAssumption == NoResult \notin BOOLEAN

maxAttempts == 3

VARIABLES
  pc,              \* what the agent does next
  job,             \* the job it executes or has executed
  attempts,
  executeResult,   \* Success of the last answer
  hasError,        \* CurrentJobHistory.HasError
  executions,      \* how often the script has taken effect in this run
  filling,         \* the table CreateTablesAsync is filling, at most one
  searchTables,    \* the names in the dictionary it returns
  tables,          \* the names of the tables in the workspace's database,
  filled,          \* and of those that hold the documents of their search
  now,             \* DateTime.UtcNow
  runs,            \* runs started so far
  made,            \* for the properties: the tables the run has created,
  shared           \* and whether another agent has executed the job meanwhile

script == <<attempts, executeResult>>
sql == <<filling, searchTables, tables, filled, made>>
run == <<job, now, runs, shared>>
vars == <<pc, script, hasError, executions, sql, run>>

Name == [search : Searches, job : Jobs, time : 0 .. MaxTime]

GenerateTableNameWithoutJob(a, s) ==
  [search |-> s, job |-> CHOOSE j \in Jobs : TRUE, time |-> now]

GenerateTableName(a, s) == [search |-> s, job |-> job[a], time |-> now]

Goto(a, l) == pc' = [pc EXCEPT ![a] = l]

(* catch (Exception ex): the entry is marked, then FinishJob. *)
Catch(a) ==
  /\ Goto(a, "FinishJob")
  /\ hasError' = [hasError EXCEPT ![a] = TRUE]

Init ==
  /\ pc = [a \in Agents |-> "Idle"]
  /\ job \in [Agents -> Jobs]
  /\ attempts = [a \in Agents |-> 0]
  /\ executeResult = [a \in Agents |-> NoResult]
  /\ hasError = [a \in Agents |-> FALSE]
  /\ executions = [a \in Agents |-> 0]
  /\ filling = [a \in Agents |-> {}]
  /\ searchTables = [a \in Agents |-> {}]
  /\ tables = {}
  /\ filled = {}
  /\ now = 0
  /\ runs = 0
  /\ made = [a \in Agents |-> {}]
  /\ shared = [a \in Agents |-> FALSE]

Running(a, j) == pc[a] # "Idle" /\ job[a] = j

(* StartJob has returned Started: the entry is new.  After a stale save,   *)
(* another agent may be executing the same job.                            *)
StartRun(a) ==
  /\ pc[a] = "Idle" /\ runs < MaxRuns
  /\ \E kind \in {"ScriptInputs", "SqlInputs"} : Goto(a, kind)
  /\ \E j \in Jobs :
       /\ job' = [job EXCEPT ![a] = j]
       /\ shared' = [b \in Agents |-> IF b = a THEN \E c \in Agents : Running(c, j)
                                     ELSE shared[b] \/ Running(b, j)]
  /\ runs' = runs + 1
  /\ attempts' = [attempts EXCEPT ![a] = 0]
  /\ executeResult' = [executeResult EXCEPT ![a] = NoResult]
  /\ hasError' = [hasError EXCEPT ![a] = FALSE]
  /\ executions' = [executions EXCEPT ![a] = 0]
  /\ filling' = [filling EXCEPT ![a] = {}]
  /\ searchTables' = [searchTables EXCEPT ![a] = {}]
  /\ made' = [made EXCEPT ![a] = {}]
  /\ UNCHANGED <<tables, filled, now>>

(* GetJobInputs, and for SQL the script's text and the substitutions. *)
GetJobInputs(a) ==
  /\ \/ pc[a] = "ScriptInputs" /\ Goto(a, "Attempt") /\ UNCHANGED hasError
     \/ pc[a] = "SqlInputs" /\ Goto(a, "CreateTables") /\ UNCHANGED hasError
     \/ pc[a] \in {"ScriptInputs", "SqlInputs"} /\ Catch(a)
  /\ UNCHANGED <<script, executions, sql, run>>

-----------------------------------------------------------------------------
(***************************************************************************)
(* ExecuteJobInWorkspace.  An answer does not end the loop: the script is  *)
(* executed again until three attempts are made.  An attempt that throws   *)
(* may have executed the script, and a third one that throws fails the     *)
(* run.                                                                    *)
(***************************************************************************)
Executed(a, times) == executions' = [executions EXCEPT ![a] = @ + times]

AttemptAnsweredOnceMore(a) ==
  /\ pc[a] = "Attempt"
  /\ attempts' = [attempts EXCEPT ![a] = @ + 1]
  /\ \E success \in BOOLEAN :
       /\ executeResult' = [executeResult EXCEPT ![a] = success]
       /\ Executed(a, IF success THEN 1 ELSE 0)
  /\ Goto(a, IF attempts'[a] <= maxAttempts THEN "Attempt" ELSE "Result")
  /\ UNCHANGED <<hasError, sql, run>>

AttemptAnswered(a) ==
  /\ pc[a] = "Attempt"
  /\ attempts' = [attempts EXCEPT ![a] = @ + 1]
  /\ \E success \in BOOLEAN :
       /\ executeResult' = [executeResult EXCEPT ![a] = success]
       /\ Executed(a, IF success THEN 1 ELSE 0)
  /\ Goto(a, IF attempts'[a] < maxAttempts THEN "Attempt" ELSE "Result")
  /\ UNCHANGED <<hasError, sql, run>>

AttemptThrowsSwallowed(a) ==
  /\ pc[a] = "Attempt"
  /\ attempts' = [attempts EXCEPT ![a] = @ + 1]
  /\ \E times \in 0 .. 1 : Executed(a, times)
  /\ Goto(a, IF attempts'[a] < maxAttempts THEN "Attempt" ELSE "FinishJob")
  /\ UNCHANGED <<executeResult, hasError, sql, run>>

AttemptThrows(a) ==
  /\ pc[a] = "Attempt"
  /\ attempts' = [attempts EXCEPT ![a] = @ + 1]
  /\ \E times \in 0 .. 1 : Executed(a, times)
  /\ IF attempts'[a] < maxAttempts THEN Goto(a, "Attempt") /\ UNCHANGED hasError ELSE Catch(a)
  /\ UNCHANGED <<executeResult, sql, run>>

ReadResult(a) ==
  /\ pc[a] = "Result"
  /\ hasError' = [hasError EXCEPT ![a] = executeResult[a] # TRUE]
  /\ Goto(a, "FinishJob")
  /\ UNCHANGED <<script, executions, sql, run>>

-----------------------------------------------------------------------------
(***************************************************************************)
(* CreateTablesAsync makes and fills one table after another, in any order *)
(* of the searches.  Each takes its name from the clock as it is then, and *)
(* replaces a table that has it already.  If one throws, the dictionary of *)
(* the tables made so far is lost.                                         *)
(***************************************************************************)
SearchesOf(names) == {n.search : n \in names}

CreateTable(a) ==
  /\ pc[a] = "CreateTables" /\ filling[a] = {}
  /\ \E s \in Searches \ SearchesOf(searchTables[a]) :
       LET tableName == GenerateTableName(a, s)
       IN  /\ tables' = tables \cup {tableName}
           /\ filled' = filled \ {tableName}
           /\ filling' = [filling EXCEPT ![a] = {tableName}]
           /\ made' = [made EXCEPT ![a] = @ \cup {tableName}]
  /\ UNCHANGED <<pc, script, hasError, executions, searchTables, run>>

(* A search without documents asks for no table. *)
FillTable(a) ==
  /\ pc[a] = "CreateTables" /\ filling[a] # {}
  /\ filled' = filled \cup (filling[a] \cap tables)
  /\ searchTables' = [searchTables EXCEPT ![a] = @ \cup filling[a]]
  /\ filling' = [filling EXCEPT ![a] = {}]
  /\ UNCHANGED <<pc, script, hasError, executions, tables, made, run>>

TablesCreated(a) ==
  /\ pc[a] = "CreateTables" /\ filling[a] = {}
  /\ SearchesOf(searchTables[a]) = Searches
  /\ Goto(a, "ExecuteSql")
  /\ UNCHANGED <<script, hasError, executions, sql, run>>

(* SubstituteSavedSearchTables, too, comes before the inner try. *)
CreateTablesThrows(a) ==
  /\ pc[a] = "CreateTables"
  /\ Catch(a)
  /\ filling' = [filling EXCEPT ![a] = {}]
  /\ searchTables' = [searchTables EXCEPT ![a] = {}]
  /\ UNCHANGED <<script, executions, tables, filled, made, run>>

(* ExecuteNonQuerySQLStatement runs the script's SQL, or throws: either    *)
(* way the finally drops the tables and, in the latter case, the catch     *)
(* follows.  A statement that throws may have taken effect.                *)
ExecuteSql(a) ==
  /\ pc[a] = "ExecuteSql"
  /\ \/ Executed(a, 1) /\ UNCHANGED hasError
     \/ /\ \E times \in 0 .. 1 : Executed(a, times)
        /\ hasError' = [hasError EXCEPT ![a] = TRUE]
  /\ Goto(a, "DeleteTables")
  /\ UNCHANGED <<script, sql, run>>

(* DROP goes by the name, whoever has made the table. *)
DeleteTable(a) ==
  /\ pc[a] = "DeleteTables"
  /\ \E tableName \in searchTables[a] :
       /\ tables' = tables \ {tableName}
       /\ filled' = filled \ {tableName}
       /\ searchTables' = [searchTables EXCEPT ![a] = @ \ {tableName}]
  /\ UNCHANGED <<pc, script, hasError, executions, filling, made, run>>

TablesDeleted(a) ==
  /\ pc[a] = "DeleteTables" /\ searchTables[a] = {}
  /\ Goto(a, "FinishJob")
  /\ UNCHANGED <<script, hasError, executions, sql, run>>

DeleteTablesThrows(a) ==
  /\ pc[a] = "DeleteTables" /\ searchTables[a] # {}
  /\ Catch(a)
  /\ UNCHANGED <<script, executions, sql, run>>

-----------------------------------------------------------------------------
FinishJobOutsideFinally(a) ==
  /\ pc[a] = "FinishJob" /\ ~hasError[a]
  /\ Goto(a, "Idle")
  /\ UNCHANGED <<script, hasError, executions, sql, run>>

(* The outer finally.  That FinishJob itself may throw is in AbandonBatch. *)
FinishJob(a) ==
  /\ pc[a] = "FinishJob"
  /\ Goto(a, "Idle")
  /\ UNCHANGED <<script, hasError, executions, sql, run>>

ScriptStep(a) == AttemptAnswered(a) \/ AttemptThrows(a) \/ ReadResult(a)

SqlStep(a) ==
  \/ CreateTable(a) \/ FillTable(a) \/ TablesCreated(a) \/ CreateTablesThrows(a)
  \/ ExecuteSql(a)
  \/ DeleteTable(a) \/ TablesDeleted(a) \/ DeleteTablesThrows(a)

RunStep(a) == GetJobInputs(a) \/ ScriptStep(a) \/ SqlStep(a) \/ FinishJob(a)

Tick ==
  /\ now < MaxTime
  /\ now' = now + 1
  /\ UNCHANGED <<pc, script, hasError, executions, sql, job, runs, shared>>

Next == Tick \/ \E a \in Agents : StartRun(a) \/ RunStep(a)

(***************************************************************************)
(* Calls to Relativity and to the database return or throw in the end: SQL *)
(* is bounded by MaximumRuntime, RSAPI by its own timeout.                 *)
(***************************************************************************)
Spec == Init /\ [][Next]_vars /\ \A a \in Agents : WF_vars(RunStep(a))

-----------------------------------------------------------------------------
Location ==
  {"Idle", "ScriptInputs", "SqlInputs", "Attempt", "Result", "CreateTables", "ExecuteSql",
   "DeleteTables", "FinishJob"}

TypeOK ==
  /\ pc \in [Agents -> Location]
  /\ job \in [Agents -> Jobs]
  /\ attempts \in [Agents -> 0 .. maxAttempts]
  /\ executeResult \in [Agents -> BOOLEAN \cup {NoResult}]
  /\ hasError \in [Agents -> BOOLEAN]
  /\ executions \in [Agents -> 0 .. maxAttempts]
  /\ filling \in [Agents -> SUBSET Name]
  /\ searchTables \in [Agents -> SUBSET Name]
  /\ tables \subseteq Name
  /\ filled \subseteq tables
  /\ now \in 0 .. MaxTime
  /\ runs \in 0 .. MaxRuns
  /\ made \in [Agents -> SUBSET Name]
  /\ shared \in [Agents -> BOOLEAN]

(***************************************************************************)
(* ISearchTableManager.CreateTablesAsync returns "names of populated save  *)
(* search tables": when the SQL runs, the dictionary has a table for every *)
(* search, and each of them still exists and is still filled, whatever     *)
(* other agents create, replace and drop in the same database, and         *)
(* whatever earlier runs have left there.  The exception is a run whose    *)
(* job another agent executes too, after a stale save: then both may take  *)
(* the same name at the same moment.                                       *)
(***************************************************************************)
SqlSeesFilledTables ==
  \A a \in Agents : pc[a] = "ExecuteSql" /\ ~shared[a] =>
    SearchesOf(searchTables[a] \cap filled) = Searches

(***************************************************************************)
(* An entry that FinishJob closes without an error tells of a run whose    *)
(* script took effect and, unless another agent executed the job too, that *)
(* has left none of its tables behind.                                     *)
(***************************************************************************)
NoErrorMeansDone ==
  \A a \in Agents : pc[a] = "FinishJob" /\ ~hasError[a] =>
    executions[a] >= 1 /\ (made[a] \cap tables # {} => shared[a])

(***************************************************************************)
(* ScriptRunHistory: "Defines a single past execution of a Script Run".    *)
(* An entry stands for one execution of the script.                        *)
(***************************************************************************)
OneExecutionPerRun == \A a \in Agents : executions[a] <= 1

(***************************************************************************)
(* Every run reaches FinishJob, so that no entry stays open and no job     *)
(* stays Running, whatever throws.                                         *)
(***************************************************************************)
RunsEnd == \A a \in Agents : pc[a] \in {"ScriptInputs", "SqlInputs"} ~> pc[a] = "Idle"
=============================================================================
