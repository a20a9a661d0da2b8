------------------------ MODULE ScriptExecutionProofs ------------------------
(***************************************************************************)
(* Theorems about ScriptExecution, for every set of agents, every set of   *)
(* searches and every number of runs.                                      *)
(***************************************************************************)
EXTENDS ScriptExecution, TLAPS

(***************************************************************************)
(* The inductive invariant.  Agents that execute one job both know it; an  *)
(* agent uses names of its own job only, so that it touches no other job's *)
(* tables; what has been executed follows the agent's place in the code;   *)
(* and so does which of the run's tables there are, and which are filled.  *)
(***************************************************************************)
Apart ==
  \A a, b \in Agents :
    a # b /\ pc[a] # "Idle" /\ pc[b] # "Idle" /\ job[a] = job[b] => shared[a] /\ shared[b]

NamesKept(a) ==
  /\ filling[a] \subseteq made[a] /\ searchTables[a] \subseteq made[a]
  /\ \A n \in made[a] : n.job = job[a]

ExecutionsKept(a) ==
  /\ pc[a] \in {"ScriptInputs", "SqlInputs", "CreateTables", "ExecuteSql"} => executions[a] = 0
  /\ pc[a] = "ScriptInputs" => attempts[a] = 0 /\ executeResult[a] = NoResult
  /\ pc[a] = "Attempt" => attempts[a] < maxAttempts /\ executions[a] <= attempts[a]
  /\ pc[a] \in {"Attempt", "Result"} /\ executeResult[a] = TRUE => executions[a] >= 1
  /\ pc[a] \in {"DeleteTables", "FinishJob"} /\ ~hasError[a] => executions[a] >= 1

TablesKept(a) ==
  ~shared[a] =>
    /\ pc[a] \in {"ScriptInputs", "SqlInputs", "Attempt", "Result"} => made[a] = {}
    /\ pc[a] = "CreateTables" => /\ made[a] \subseteq filling[a] \cup searchTables[a]
                                 /\ filling[a] \subseteq tables /\ searchTables[a] \subseteq filled
    /\ pc[a] = "ExecuteSql" => /\ made[a] \subseteq searchTables[a]
                               /\ searchTables[a] \subseteq filled
                               /\ SearchesOf(searchTables[a]) = Searches
    /\ pc[a] = "DeleteTables" => made[a] \cap tables \subseteq searchTables[a]
    /\ pc[a] = "FinishJob" /\ ~hasError[a] => made[a] \cap tables = {}

ExecutionInv ==
  /\ TypeOK
  /\ Apart
  /\ \A a \in Agents : NamesKept(a) /\ ExecutionsKept(a) /\ TablesKept(a)

LEMMA InitExecutionInv == Init => ExecutionInv
<1>. SUFFICES ASSUME Init PROVE ExecutionInv
  OBVIOUS
<1>1. TypeOK
  BY MaxRunsAssumption, MaxTimeAssumption DEF Init, TypeOK, Location, maxAttempts
<1>. QED
  BY <1>1 DEF Init, ExecutionInv, Apart, NamesKept, ExecutionsKept, TablesKept

-----------------------------------------------------------------------------
(***************************************************************************)
(* An agent's step is its own: it leaves every other agent's variables and *)
(* the tables of every other job as they are.                              *)
(***************************************************************************)
OthersKept(a) ==
  /\ \A b \in Agents \ {a} :
       /\ pc'[b] = pc[b] /\ job'[b] = job[b] /\ attempts'[b] = attempts[b]
       /\ executeResult'[b] = executeResult[b] /\ hasError'[b] = hasError[b]
       /\ executions'[b] = executions[b] /\ searchTables'[b] = searchTables[b]
       /\ filling'[b] = filling[b] /\ made'[b] = made[b]
       /\ shared[b] => shared'[b]

OtherTablesKept(a) ==
  \/ UNCHANGED <<tables, filled>>
  \/ /\ pc[a] # "Idle"
     /\ \A n \in Name : n.job # job[a] => /\ n \in tables' <=> n \in tables
                                          /\ n \in filled' <=> n \in filled

LocalStep(a) ==
  /\ TypeOK' /\ OthersKept(a) /\ OtherTablesKept(a)
  /\ NamesKept(a)' /\ ExecutionsKept(a)' /\ TablesKept(a)'

LEMMA LocalStepInv ==
  ASSUME ExecutionInv, NEW a \in Agents, LocalStep(a), Apart'
  PROVE  ExecutionInv'
<1>. SUFFICES ASSUME NEW b \in Agents \ {a}
              PROVE  NamesKept(b)' /\ ExecutionsKept(b)' /\ TablesKept(b)'
  BY DEF ExecutionInv, LocalStep
<1>1. /\ pc'[b] = pc[b] /\ job'[b] = job[b] /\ attempts'[b] = attempts[b]
      /\ executeResult'[b] = executeResult[b] /\ hasError'[b] = hasError[b]
      /\ executions'[b] = executions[b] /\ searchTables'[b] = searchTables[b]
      /\ filling'[b] = filling[b] /\ made'[b] = made[b]
      /\ shared[b] => shared'[b]
  BY DEF LocalStep, OthersKept
<1>2. NamesKept(b) /\ ExecutionsKept(b) /\ TablesKept(b)
  BY DEF ExecutionInv
<1>3. ExecutionsKept(b)' /\ NamesKept(b)'
  BY <1>1, <1>2 DEF ExecutionsKept, NamesKept
<1>4. CASE pc[b] = "Idle" \/ shared'[b]
  BY <1>1, <1>3, <1>4 DEF TablesKept
<1>5. CASE pc[b] # "Idle" /\ ~shared'[b]
  <2>1. ~shared[b] /\ \A n \in made[b] : n \in Name /\ n.job = job[b]
    BY <1>1, <1>2, <1>5 DEF NamesKept, ExecutionInv, TypeOK
  <2>2. \A n \in made[b] : /\ n \in tables' <=> n \in tables
                           /\ n \in filled' <=> n \in filled
    <3>1. CASE UNCHANGED <<tables, filled>>
      BY <3>1
    <3>2. CASE pc[a] # "Idle" /\ ~UNCHANGED <<tables, filled>>
      <4>1. job[a] # job[b]
        BY <1>5, <2>1, <3>2 DEF ExecutionInv, Apart
      <4>. QED
        BY <2>1, <3>2, <4>1 DEF LocalStep, OtherTablesKept
    <3>. QED
      BY <3>1, <3>2 DEF LocalStep, OtherTablesKept
  <2>3. filling[b] \subseteq made[b] /\ searchTables[b] \subseteq made[b]
    BY <1>2 DEF NamesKept
  <2>4. TablesKept(b)'
    BY <1>1, <1>2, <2>1, <2>2, <2>3 DEF TablesKept, SearchesOf
  <2>. QED
    BY <1>3, <2>4
<1>. QED
  BY <1>4, <1>5

-----------------------------------------------------------------------------
LEMMA StartRunStep ==
  ASSUME ExecutionInv, NEW a \in Agents, StartRun(a)
  PROVE  LocalStep(a) /\ Apart'
<1>1. runs \in Nat /\ runs + 1 \in 0 .. MaxRuns
  BY MaxRunsAssumption DEF ExecutionInv, TypeOK, StartRun
<1>2. PICK kind \in {"ScriptInputs", "SqlInputs"}, j \in Jobs :
        /\ pc' = [pc EXCEPT ![a] = kind]
        /\ job' = [job EXCEPT ![a] = j]
        /\ shared' = [b \in Agents |-> IF b = a THEN \E c \in Agents : Running(c, j)
                                       ELSE shared[b] \/ Running(b, j)]
  BY DEF StartRun, Goto
<1>3. /\ attempts' = [attempts EXCEPT ![a] = 0]
      /\ executeResult' = [executeResult EXCEPT ![a] = NoResult]
      /\ hasError' = [hasError EXCEPT ![a] = FALSE]
      /\ executions' = [executions EXCEPT ![a] = 0]
      /\ filling' = [filling EXCEPT ![a] = {}]
      /\ searchTables' = [searchTables EXCEPT ![a] = {}]
      /\ made' = [made EXCEPT ![a] = {}]
      /\ runs' = runs + 1 /\ UNCHANGED <<tables, filled, now>>
  BY DEF StartRun
<1>4. shared' \in [Agents -> BOOLEAN]
  <2>1. \A b \in Agents : (shared[b] \/ Running(b, j)) \in BOOLEAN
    BY Zenon DEF ExecutionInv, TypeOK
  <2>2. (\E c \in Agents : Running(c, j)) \in BOOLEAN
    OBVIOUS
  <2>. QED
    BY <1>2, <2>1, <2>2, Zenon
<1>5. TypeOK'
  <2>1. pc' \in [Agents -> Location] /\ job' \in [Agents -> Jobs]
    BY <1>2 DEF ExecutionInv, TypeOK, Location
  <2>2. /\ attempts' \in [Agents -> 0 .. maxAttempts]
        /\ executions' \in [Agents -> 0 .. maxAttempts]
    BY <1>3 DEF ExecutionInv, TypeOK, maxAttempts
  <2>3. /\ executeResult' \in [Agents -> BOOLEAN \cup {NoResult}]
        /\ hasError' \in [Agents -> BOOLEAN]
    BY <1>3 DEF ExecutionInv, TypeOK
  <2>4. /\ filling' \in [Agents -> SUBSET Name] /\ searchTables' \in [Agents -> SUBSET Name]
        /\ made' \in [Agents -> SUBSET Name]
    BY <1>3 DEF ExecutionInv, TypeOK
  <2>5. /\ tables' \subseteq Name /\ filled' \subseteq tables'
        /\ now' \in 0 .. MaxTime /\ runs' \in 0 .. MaxRuns
    BY <1>1, <1>3 DEF ExecutionInv, TypeOK
  <2>. QED
    BY <1>4, <2>1, <2>2, <2>3, <2>4, <2>5 DEF TypeOK
<1>6. /\ \A b \in Agents \ {a} : shared'[b] <=> (shared[b] \/ Running(b, j))
      /\ shared'[a] <=> \E c \in Agents : Running(c, j)
  BY <1>2, Zenon
<1>7. OthersKept(a)
  BY <1>2, <1>3, <1>6 DEF OthersKept, ExecutionInv, TypeOK
<1>8. ExecutionsKept(a)'
  BY <1>2, <1>3 DEF ExecutionsKept, ExecutionInv, TypeOK
<1>9. made'[a] = {} /\ filling'[a] = {} /\ searchTables'[a] = {} /\ pc'[a] = kind
  BY <1>2, <1>3 DEF ExecutionInv, TypeOK
<1>10. NamesKept(a)' /\ TablesKept(a)' /\ OtherTablesKept(a)
  BY <1>3, <1>9 DEF NamesKept, TablesKept, OtherTablesKept
<1>11. Apart'
  <2>. SUFFICES ASSUME NEW b \in Agents, NEW c \in Agents, b # c,
                       pc'[b] # "Idle", pc'[c] # "Idle", job'[b] = job'[c]
                PROVE  shared'[b] /\ shared'[c]
    BY DEF Apart
  <2>1. /\ job'[a] = j
        /\ \A d \in Agents \ {a} : pc'[d] = pc[d] /\ job'[d] = job[d]
    BY <1>2 DEF ExecutionInv, TypeOK
  <2>2. CASE b = a
    <3>1. Running(c, j)
      BY <2>1, <2>2 DEF Running
    <3>. QED
      BY <1>6, <2>2, <3>1
  <2>3. CASE c = a
    <3>1. Running(b, j)
      BY <2>1, <2>3 DEF Running
    <3>. QED
      BY <1>6, <2>3, <3>1
  <2>4. CASE b # a /\ c # a
    BY <1>6, <2>1, <2>4 DEF ExecutionInv, Apart
  <2>. QED
    BY <2>2, <2>3, <2>4
<1>. QED
  BY <1>5, <1>7, <1>8, <1>10, <1>11 DEF LocalStep

(* A step that leaves the tables and their names alone. *)
LEMMA QuietStep ==
  ASSUME ExecutionInv, NEW a \in Agents, UNCHANGED <<sql, run>>
  PROVE  /\ OtherTablesKept(a) /\ NamesKept(a)'
         /\ TablesKept(a)' <=>
              (~shared[a] =>
                 /\ pc'[a] \in {"ScriptInputs", "SqlInputs", "Attempt", "Result"} => made[a] = {}
                 /\ pc'[a] = "CreateTables" => /\ made[a] \subseteq filling[a] \cup searchTables[a]
                                               /\ filling[a] \subseteq tables
                                               /\ searchTables[a] \subseteq filled
                 /\ pc'[a] = "ExecuteSql" => /\ made[a] \subseteq searchTables[a]
                                             /\ searchTables[a] \subseteq filled
                                             /\ SearchesOf(searchTables[a]) = Searches
                 /\ pc'[a] = "DeleteTables" => made[a] \cap tables \subseteq searchTables[a]
                 /\ pc'[a] = "FinishJob" /\ ~hasError'[a] => made[a] \cap tables = {})
BY DEF sql, run, OtherTablesKept, ExecutionInv, NamesKept, TablesKept, SearchesOf

LEMMA GetJobInputsStep ==
  ASSUME ExecutionInv, NEW a \in Agents, GetJobInputs(a)
  PROVE  LocalStep(a)
<1>1. TypeOK' /\ OthersKept(a)
  BY DEF GetJobInputs, Goto, Catch, script, sql, run, ExecutionInv, TypeOK, Location, OthersKept
<1>2. ExecutionsKept(a) /\ TablesKept(a)
  BY DEF ExecutionInv
<1>3. ExecutionsKept(a)'
  <2>1. UNCHANGED <<attempts, executeResult, executions>>
    BY DEF GetJobInputs, script
  <2>2. CASE pc[a] = "ScriptInputs" /\ pc'[a] = "Attempt"
    <3>1. executeResult[a] # TRUE
      BY <1>2, <2>2, NoResultAssumption DEF ExecutionsKept
    <3>2. attempts'[a] = 0 /\ executions'[a] = 0
      BY <1>2, <2>1, <2>2 DEF ExecutionsKept
    <3>3. executeResult'[a] # TRUE
      BY <2>1, <3>1
    <3>4. pc'[a] = "Attempt"
      BY <2>2
    <3>5. ~(pc'[a] \in {"Attempt", "Result"} /\ executeResult'[a] = TRUE)
      BY <3>3
    <3>6. attempts'[a] < maxAttempts /\ executions'[a] <= attempts'[a]
      BY <3>2 DEF maxAttempts
    <3>7. /\ pc'[a] \notin {"ScriptInputs", "SqlInputs", "CreateTables", "ExecuteSql"}
          /\ pc'[a] # "ScriptInputs" /\ pc'[a] \notin {"DeleteTables", "FinishJob"}
      BY <3>4
    <3>. QED  BY <3>5, <3>6, <3>7, Zenon DEF ExecutionsKept
  <2>3. CASE pc[a] = "SqlInputs" /\ pc'[a] = "CreateTables"
    BY <1>2, <2>1, <2>3 DEF ExecutionsKept
  <2>4. CASE pc'[a] = "FinishJob" /\ hasError'[a] = TRUE
    BY <2>4 DEF ExecutionsKept
  <2>. QED
    BY <2>2, <2>3, <2>4 DEF GetJobInputs, Goto, Catch, ExecutionInv, TypeOK
<1>4. UNCHANGED <<sql, run>>
  BY DEF GetJobInputs
<1>5. filling[a] \cup searchTables[a] \subseteq made[a]
  BY DEF ExecutionInv, NamesKept
<1>6. \/ pc[a] \in {"ScriptInputs", "SqlInputs"} /\ pc'[a] \in {"Attempt", "CreateTables"}
      \/ pc'[a] = "FinishJob" /\ hasError'[a] = TRUE
  BY DEF GetJobInputs, Goto, Catch, ExecutionInv, TypeOK
<1>7. TablesKept(a)'
  <2>1. ~shared[a] /\ pc'[a] \in {"Attempt", "CreateTables"} /\ ~(pc'[a] = "FinishJob") =>
          made[a] = {} /\ filling[a] = {} /\ searchTables[a] = {}
    BY <1>2, <1>5, <1>6 DEF TablesKept
  <2>. QED
    BY <1>4, <1>6, <2>1, QuietStep
<1>. QED
  BY <1>1, <1>3, <1>4, <1>7, QuietStep DEF LocalStep

(* An attempt, answered or not, counts; its executions are at most one.    *)
LEMMA AttemptStep ==
  ASSUME ExecutionInv, NEW a \in Agents, AttemptAnswered(a) \/ AttemptThrows(a)
  PROVE  LocalStep(a)
<1>1. /\ pc[a] = "Attempt" /\ attempts' = [attempts EXCEPT ![a] = attempts[a] + 1]
      /\ attempts[a] \in 0 .. 2 /\ executions[a] \in 0 .. attempts[a]
      /\ executeResult[a] = TRUE => executions[a] >= 1
      /\ ~shared[a] => made[a] = {}
  BY DEF AttemptAnswered, AttemptThrows, ExecutionInv, TypeOK, ExecutionsKept, TablesKept, maxAttempts
<1>2. PICK times \in 0 .. 1 :
        /\ executions' = [executions EXCEPT ![a] = executions[a] + times]
        /\ \/ \E success \in BOOLEAN : /\ executeResult' = [executeResult EXCEPT ![a] = success]
                                       /\ success => times = 1
           \/ UNCHANGED executeResult
  BY DEF AttemptAnswered, AttemptThrows, Executed
<1>3. \/ attempts[a] + 1 < 3 /\ pc' = [pc EXCEPT ![a] = "Attempt"] /\ UNCHANGED hasError
      \/ /\ pc' = [pc EXCEPT ![a] = "Result"] /\ UNCHANGED hasError
      \/ pc' = [pc EXCEPT ![a] = "FinishJob"] /\ hasError' = [hasError EXCEPT ![a] = TRUE]
  BY <1>1 DEF AttemptAnswered, AttemptThrows, Goto, Catch, ExecutionInv, TypeOK, maxAttempts
<1>4. UNCHANGED <<sql, run>>
  BY DEF AttemptAnswered, AttemptThrows
<1>5. executions[a] + times \in 0 .. (attempts[a] + 1) /\ attempts[a] + 1 \in 0 .. 3
      /\ executions[a] + times \in 0 .. 3
  BY <1>1
<1>6. TypeOK'
  BY <1>1, <1>2, <1>3, <1>4, <1>5 DEF ExecutionInv, TypeOK, Location, maxAttempts, sql, run
<1>7. OthersKept(a)
  BY <1>1, <1>2, <1>3, <1>4 DEF ExecutionInv, TypeOK, OthersKept, sql, run
<1>8. executeResult'[a] = TRUE => executions[a] + times >= 1
  BY <1>1, <1>2 DEF ExecutionInv, TypeOK
<1>9. ExecutionsKept(a)'
  <2>1. executions'[a] = executions[a] + times /\ attempts'[a] = attempts[a] + 1
    BY <1>1, <1>2 DEF ExecutionInv, TypeOK
  <2>. QED
    BY <1>3, <1>5, <1>8, <2>1 DEF ExecutionInv, TypeOK, ExecutionsKept, maxAttempts
<1>10. TablesKept(a)'
  <2>1. \/ pc'[a] \in {"Attempt", "Result"}
        \/ pc'[a] = "FinishJob" /\ hasError'[a] = TRUE
    BY <1>3 DEF ExecutionInv, TypeOK
  <2>. QED
    BY <1>1, <1>4, <2>1, QuietStep
<1>. QED
  BY <1>4, <1>6, <1>7, <1>9, <1>10, QuietStep DEF LocalStep

LEMMA ReadResultStep ==
  ASSUME ExecutionInv, NEW a \in Agents, ReadResult(a)
  PROVE  LocalStep(a)
<1>1. TypeOK' /\ OthersKept(a)
  BY DEF ReadResult, Goto, script, sql, run, ExecutionInv, TypeOK, Location, OthersKept
<1>2. ExecutionsKept(a) /\ TablesKept(a)
  BY DEF ExecutionInv
<1>3. ExecutionsKept(a)'
  BY <1>2 DEF ReadResult, Goto, script, ExecutionInv, TypeOK, ExecutionsKept
<1>4. UNCHANGED <<sql, run>>
  BY DEF ReadResult
<1>5. TablesKept(a)'
  <2>1. pc'[a] = "FinishJob" /\ (~shared[a] => made[a] = {})
    BY <1>2 DEF ReadResult, Goto, ExecutionInv, TypeOK, TablesKept
  <2>. QED
    BY <1>4, <2>1, QuietStep
<1>. QED
  BY <1>1, <1>3, <1>4, <1>5, QuietStep DEF LocalStep

-----------------------------------------------------------------------------
(* A new table is empty, and none of those in the dictionary so far. *)
LEMMA CreateTableStep ==
  ASSUME ExecutionInv, NEW a \in Agents, CreateTable(a)
  PROVE  LocalStep(a)
<1>1. PICK s \in Searches \ SearchesOf(searchTables[a]) :
        LET n == GenerateTableName(a, s)
        IN  /\ tables' = tables \cup {n}
            /\ filled' = filled \ {n}
            /\ filling' = [filling EXCEPT ![a] = {n}]
            /\ made' = [made EXCEPT ![a] = made[a] \cup {n}]
  BY DEF CreateTable
<1>. DEFINE n == GenerateTableName(a, s)
<1>2. /\ tables' = tables \cup {n} /\ filled' = filled \ {n}
      /\ filling' = [filling EXCEPT ![a] = {n}]
      /\ made' = [made EXCEPT ![a] = made[a] \cup {n}]
      /\ pc[a] = "CreateTables" /\ filling[a] = {}
      /\ UNCHANGED <<pc, script, hasError, executions, searchTables, run>>
  BY <1>1 DEF CreateTable
<1>3. n \in Name /\ n.job = job[a] /\ n \notin searchTables[a]
  <2>1. n \in Name /\ n.job = job[a] /\ n.search = s
    BY DEF GenerateTableName, Name, ExecutionInv, TypeOK
  <2>. QED
    BY <2>1 DEF SearchesOf
<1>. HIDE DEF n
<1>4. filling'[a] = {n} /\ made'[a] = made[a] \cup {n}
  BY <1>2 DEF ExecutionInv, TypeOK
<1>5. TypeOK'
  <2>1. filling' \in [Agents -> SUBSET Name] /\ made' \in [Agents -> SUBSET Name]
    BY <1>2, <1>3 DEF ExecutionInv, TypeOK
  <2>2. tables' \subseteq Name /\ filled' \subseteq tables'
    BY <1>2, <1>3 DEF ExecutionInv, TypeOK
  <2>. QED
    BY <1>2, <2>1, <2>2 DEF ExecutionInv, TypeOK, script, run
<1>6. OthersKept(a)
  BY <1>2 DEF ExecutionInv, TypeOK, OthersKept, script, run
<1>7. OtherTablesKept(a)
  BY <1>2, <1>3 DEF OtherTablesKept
<1>8. NamesKept(a)'
  BY <1>2, <1>3, <1>4 DEF ExecutionInv, NamesKept, run
<1>9. ExecutionsKept(a)'
  BY <1>2 DEF ExecutionInv, ExecutionsKept, script
<1>10. TablesKept(a)'
  BY <1>2, <1>3, <1>4 DEF ExecutionInv, TablesKept, run
<1>. QED
  BY <1>5, <1>6, <1>7, <1>8, <1>9, <1>10 DEF LocalStep

LEMMA FillTableStep ==
  ASSUME ExecutionInv, NEW a \in Agents, FillTable(a)
  PROVE  LocalStep(a)
<1>1. /\ pc[a] = "CreateTables"
      /\ filled' = filled \cup (filling[a] \cap tables)
      /\ searchTables' = [searchTables EXCEPT ![a] = searchTables[a] \cup filling[a]]
      /\ filling' = [filling EXCEPT ![a] = {}]
      /\ UNCHANGED <<pc, script, hasError, executions, tables, made, run>>
  BY DEF FillTable
<1>2. /\ filling[a] \in SUBSET Name /\ searchTables[a] \in SUBSET Name
      /\ filling'[a] = {} /\ searchTables'[a] = searchTables[a] \cup filling[a]
  BY <1>1 DEF ExecutionInv, TypeOK
<1>3. TypeOK'
  <2>1. filling' \in [Agents -> SUBSET Name] /\ searchTables' \in [Agents -> SUBSET Name]
    BY <1>1, <1>2 DEF ExecutionInv, TypeOK
  <2>2. filled' \subseteq tables'
    BY <1>1 DEF ExecutionInv, TypeOK
  <2>. QED
    BY <1>1, <2>1, <2>2 DEF ExecutionInv, TypeOK, script, run
<1>4. OthersKept(a)
  BY <1>1 DEF ExecutionInv, TypeOK, OthersKept, script, run
<1>5. filling[a] \subseteq made[a] /\ \A n \in made[a] : n.job = job[a]
  BY DEF ExecutionInv, NamesKept
<1>6. OtherTablesKept(a)
  BY <1>1, <1>5 DEF OtherTablesKept
<1>7. NamesKept(a)'
  BY <1>1, <1>2 DEF ExecutionInv, NamesKept, run
<1>8. ExecutionsKept(a)'
  BY <1>1 DEF ExecutionInv, ExecutionsKept, script
<1>9. TablesKept(a)'
  BY <1>1, <1>2 DEF ExecutionInv, TablesKept, run
<1>. QED
  BY <1>3, <1>4, <1>6, <1>7, <1>8, <1>9 DEF LocalStep

(* The dictionary is complete, and its tables are still filled. *)
LEMMA TablesCreatedStep ==
  ASSUME ExecutionInv, NEW a \in Agents, TablesCreated(a)
  PROVE  LocalStep(a)
<1>1. TypeOK' /\ OthersKept(a)
  BY DEF TablesCreated, Goto, script, sql, run, ExecutionInv, TypeOK, Location, OthersKept
<1>2. ExecutionsKept(a)'
  BY DEF TablesCreated, Goto, script, ExecutionInv, TypeOK, ExecutionsKept
<1>3. /\ pc[a] = "CreateTables" /\ pc'[a] = "ExecuteSql" /\ filling[a] = {}
      /\ SearchesOf(searchTables[a]) = Searches /\ UNCHANGED <<sql, run>>
  BY DEF TablesCreated, Goto, ExecutionInv, TypeOK
<1>4. ~shared[a] => made[a] \subseteq searchTables[a] /\ searchTables[a] \subseteq filled
  BY <1>3 DEF ExecutionInv, TablesKept
<1>5. TablesKept(a)'
  BY <1>3, <1>4, QuietStep
<1>. QED
  BY <1>1, <1>2, <1>3, <1>5, QuietStep DEF LocalStep

LEMMA ThrowingStep ==
  ASSUME ExecutionInv, NEW a \in Agents, CreateTablesThrows(a) \/ DeleteTablesThrows(a)
  PROVE  LocalStep(a)
<1>1. TypeOK' /\ OthersKept(a)
  <2>1. CASE CreateTablesThrows(a)
    <3>1. filling' \in [Agents -> SUBSET Name] /\ searchTables' \in [Agents -> SUBSET Name]
      BY <2>1 DEF CreateTablesThrows, ExecutionInv, TypeOK
    <3>. QED
      BY <2>1, <3>1 DEF CreateTablesThrows, Goto, Catch, script, run, ExecutionInv, TypeOK,
         Location, OthersKept
  <2>2. CASE DeleteTablesThrows(a)
    BY <2>2 DEF DeleteTablesThrows, Goto, Catch, script, sql, run, ExecutionInv, TypeOK,
       Location, OthersKept
  <2>. QED
    BY <2>1, <2>2
<1>2. pc'[a] = "FinishJob" /\ hasError'[a] = TRUE
  BY DEF CreateTablesThrows, DeleteTablesThrows, Goto, Catch, ExecutionInv, TypeOK
<1>3. /\ UNCHANGED <<tables, filled, made, job>>
      /\ filling'[a] \in {{}, filling[a]} /\ searchTables'[a] \in {{}, searchTables[a]}
  BY DEF CreateTablesThrows, DeleteTablesThrows, sql, run, ExecutionInv, TypeOK
<1>4. NamesKept(a)' /\ OtherTablesKept(a)
  BY <1>3 DEF ExecutionInv, NamesKept, OtherTablesKept
<1>. QED
  BY <1>1, <1>2, <1>4 DEF LocalStep, ExecutionsKept, TablesKept

LEMMA ExecuteSqlStep ==
  ASSUME ExecutionInv, NEW a \in Agents, ExecuteSql(a)
  PROVE  LocalStep(a)
<1>1. /\ pc[a] = "ExecuteSql" /\ executions[a] = 0
      /\ ~shared[a] => made[a] \subseteq searchTables[a]
  BY DEF ExecuteSql, ExecutionInv, ExecutionsKept, TablesKept
<1>2. PICK times \in 0 .. 1 :
        /\ executions' = [executions EXCEPT ![a] = times]
        /\ \/ times = 1 /\ UNCHANGED hasError
           \/ hasError' = [hasError EXCEPT ![a] = TRUE]
  <2>1. PICK times \in 0 .. 1 :
          /\ executions' = [executions EXCEPT ![a] = executions[a] + times]
          /\ \/ times = 1 /\ UNCHANGED hasError
             \/ hasError' = [hasError EXCEPT ![a] = TRUE]
    BY DEF ExecuteSql, Executed
  <2>2. executions[a] + times = times
    BY <1>1
  <2>. QED  BY <2>1, <2>2
<1>3. /\ pc' = [pc EXCEPT ![a] = "DeleteTables"]
      /\ UNCHANGED <<script, sql, run>>
  BY DEF ExecuteSql, Goto
<1>4. TypeOK' /\ OthersKept(a)
  <2>0. times \in 0 .. 3
    OBVIOUS
  <2>1. hasError' \in [Agents -> BOOLEAN]
    BY <1>2 DEF ExecutionInv, TypeOK
  <2>2. TypeOK'
    BY <1>2, <1>3, <2>0, <2>1 DEF ExecutionInv, TypeOK, Location, maxAttempts, script, sql, run
  <2>3. OthersKept(a)
    BY <1>2, <1>3 DEF ExecutionInv, TypeOK, OthersKept, script, sql, run
  <2>. QED  BY <2>2, <2>3
<1>5. ExecutionsKept(a)'
  BY <1>2, <1>3 DEF ExecutionInv, TypeOK, ExecutionsKept
<1>6. TablesKept(a)'
  <2>1. pc'[a] = "DeleteTables"
    BY <1>3 DEF ExecutionInv, TypeOK
  <2>. QED
    BY <1>1, <1>3, <2>1, QuietStep
<1>. QED
  BY <1>3, <1>4, <1>5, <1>6, QuietStep DEF LocalStep

LEMMA DeleteTableStep ==
  ASSUME ExecutionInv, NEW a \in Agents, DeleteTable(a)
  PROVE  LocalStep(a)
<1>1. PICK n \in searchTables[a] :
        /\ tables' = tables \ {n} /\ filled' = filled \ {n}
        /\ searchTables' = [searchTables EXCEPT ![a] = searchTables[a] \ {n}]
  BY DEF DeleteTable
<1>2. pc[a] = "DeleteTables"
      /\ UNCHANGED <<pc, script, hasError, executions, filling, made, run>>
  BY DEF DeleteTable
<1>3. n \in Name /\ n.job = job[a] /\ searchTables'[a] = searchTables[a] \ {n}
  BY <1>1 DEF ExecutionInv, TypeOK, NamesKept
<1>4. TypeOK'
  <2>1. searchTables' \in [Agents -> SUBSET Name]
    BY <1>1 DEF ExecutionInv, TypeOK
  <2>2. tables' \subseteq Name /\ filled' \subseteq tables'
    BY <1>1 DEF ExecutionInv, TypeOK
  <2>. QED
    BY <1>2, <2>1, <2>2 DEF ExecutionInv, TypeOK, script, run
<1>5. OthersKept(a)
  BY <1>1, <1>2 DEF ExecutionInv, TypeOK, OthersKept, script, run
<1>6. OtherTablesKept(a)
  BY <1>1, <1>2, <1>3 DEF OtherTablesKept
<1>7. NamesKept(a)'
  BY <1>2, <1>3 DEF ExecutionInv, NamesKept, run
<1>8. ExecutionsKept(a)'
  BY <1>2 DEF ExecutionInv, ExecutionsKept, script
<1>9. TablesKept(a)'
  BY <1>1, <1>2, <1>3 DEF ExecutionInv, TablesKept, run
<1>. QED
  BY <1>4, <1>5, <1>6, <1>7, <1>8, <1>9 DEF LocalStep

LEMMA TablesDeletedStep ==
  ASSUME ExecutionInv, NEW a \in Agents, TablesDeleted(a)
  PROVE  LocalStep(a)
<1>1. TypeOK' /\ OthersKept(a)
  BY DEF TablesDeleted, Goto, script, sql, run, ExecutionInv, TypeOK, Location, OthersKept
<1>2. ExecutionsKept(a)'
  BY DEF TablesDeleted, Goto, script, ExecutionInv, TypeOK, ExecutionsKept
<1>3. /\ pc[a] = "DeleteTables" /\ pc'[a] = "FinishJob" /\ searchTables[a] = {}
      /\ UNCHANGED <<sql, run>>
  BY DEF TablesDeleted, Goto, ExecutionInv, TypeOK
<1>4. ~shared[a] => made[a] \cap tables = {}
  BY <1>3 DEF ExecutionInv, TablesKept
<1>5. TablesKept(a)'
  BY <1>3, <1>4, QuietStep
<1>. QED
  BY <1>1, <1>2, <1>3, <1>5, QuietStep DEF LocalStep

LEMMA FinishJobStep ==
  ASSUME ExecutionInv, NEW a \in Agents, FinishJob(a)
  PROVE  LocalStep(a)
<1>1. TypeOK' /\ OthersKept(a)
  BY DEF FinishJob, Goto, script, sql, run, ExecutionInv, TypeOK, Location, OthersKept
<1>2. pc'[a] = "Idle" /\ UNCHANGED <<sql, run>>
  BY DEF FinishJob, Goto, ExecutionInv, TypeOK
<1>. QED
  BY <1>1, <1>2, QuietStep DEF LocalStep, ExecutionsKept

-----------------------------------------------------------------------------
LEMMA NextExecutionInv == ExecutionInv /\ [Next]_vars => ExecutionInv'
<1>. SUFFICES ASSUME ExecutionInv, [Next]_vars PROVE ExecutionInv'
  OBVIOUS
<1>1. CASE UNCHANGED vars
  BY <1>1 DEF vars, script, sql, run, ExecutionInv, TypeOK, Apart, NamesKept, ExecutionsKept,
       TablesKept, SearchesOf
<1>2. CASE Tick
  <2>1. now' \in 0 .. MaxTime
    BY <1>2, MaxTimeAssumption DEF Tick, ExecutionInv, TypeOK
  <2>. QED
    BY <1>2, <2>1 DEF Tick, script, sql, ExecutionInv, TypeOK, Apart, NamesKept, ExecutionsKept,
       TablesKept, SearchesOf
<1>3. ASSUME NEW a \in Agents, StartRun(a) PROVE ExecutionInv'
  BY <1>3, StartRunStep, LocalStepInv
<1>4. ASSUME NEW a \in Agents, RunStep(a) PROVE ExecutionInv'
  <2>1. pc[a] # "Idle" /\ UNCHANGED run
    BY <1>4 DEF RunStep, GetJobInputs, ScriptStep, SqlStep, AttemptAnswered, AttemptThrows,
         ReadResult, CreateTable, FillTable, TablesCreated, CreateTablesThrows, ExecuteSql,
         DeleteTable, TablesDeleted, DeleteTablesThrows, FinishJob
  <2>2. LocalStep(a)
    BY <1>4, GetJobInputsStep, AttemptStep, ReadResultStep, CreateTableStep, FillTableStep,
       TablesCreatedStep, ThrowingStep, ExecuteSqlStep, DeleteTableStep, TablesDeletedStep,
       FinishJobStep
    DEF RunStep, ScriptStep, SqlStep
  <2>3. \A b \in Agents : pc'[b] # "Idle" => pc[b] # "Idle"
    BY <2>1, <2>2 DEF LocalStep, OthersKept
  <2>4. Apart'
    BY <2>1, <2>3 DEF run, ExecutionInv, Apart
  <2>. QED  BY <2>2, <2>4, LocalStepInv
<1>. QED
  BY <1>1, <1>2, <1>3, <1>4 DEF Next

LEMMA ExecutionInvariant == Spec => []ExecutionInv
BY InitExecutionInv, NextExecutionInv, PTL DEF Spec

(***************************************************************************)
(* No run makes more than three attempts, whatever throws, and everything  *)
(* a run keeps stays in its type.                                          *)
(***************************************************************************)
THEOREM ExecutionTypeCorrect == Spec => []TypeOK
<1>1. ExecutionInv => TypeOK
  BY DEF ExecutionInv
<1>. QED
  BY <1>1, ExecutionInvariant, PTL

(***************************************************************************)
(* Whatever other agents create, replace and drop, and whatever earlier    *)
(* runs have left, the SQL of a job that one agent executes at a time      *)
(* finds a filled table for every search.                                  *)
(***************************************************************************)
THEOREM SqlTablesAreFilled == Spec => []SqlSeesFilledTables
<1>1. ASSUME ExecutionInv, NEW a \in Agents, pc[a] = "ExecuteSql", ~shared[a]
      PROVE  SearchesOf(searchTables[a] \cap filled) = Searches
  <2>1. searchTables[a] \cap filled = searchTables[a] /\ SearchesOf(searchTables[a]) = Searches
    BY <1>1 DEF ExecutionInv, TablesKept
  <2>. QED
    BY <2>1
<1>2. ExecutionInv => SqlSeesFilledTables
  BY <1>1 DEF SqlSeesFilledTables
<1>. QED
  BY <1>2, ExecutionInvariant, PTL

(***************************************************************************)
(* An entry closed without an error tells of a script that took effect and *)
(* of a run that has left none of its tables in the workspace database.    *)
(***************************************************************************)
THEOREM CleanEntriesAreTrue == Spec => []NoErrorMeansDone
<1>1. ExecutionInv => NoErrorMeansDone
  BY DEF ExecutionInv, ExecutionsKept, TablesKept, NoErrorMeansDone
<1>. QED
  BY <1>1, ExecutionInvariant, PTL
=============================================================================
