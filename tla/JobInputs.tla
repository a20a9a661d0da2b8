----------------------------- MODULE JobInputs -----------------------------
(***************************************************************************)
(* One job's row and its inputs, statement by statement: pages save them   *)
(* in one transaction (SaveJobSchedule), agents read the row with the list *)
(* of jobs, write their copy of it back when they start and finish the     *)
(* run, and read the inputs in between.                                    *)
(*                                                                         *)
(* Of the row only JobStatus and the save whose columns it has are kept;   *)
(* a job is due at any time.  A statement sees what has been committed,    *)
(* each transaction has a connection of its own, and UPDLOCK or an update  *)
(* hold the row until the transaction ends.                                *)
(***************************************************************************)
EXTENDS Integers, ScriptText

CONSTANTS
  Clients,    \* browsers
  Agents,
  None,
  Holdable,   \* which inputs' values may hold which tokens and patterns
  MaxSaves    \* bound on the number of saves

ASSUME MaxSavesAssumption == MaxSaves \in Nat
ASSUME HoldableAssumption == Holdable \in [Inputs -> SUBSET (Inputs \cup Patterns)]

VARIABLES
  row,        \* the row of JobSchedule; None before the job is created
  inputs,     \* its rows of JobScriptInput
  lock,       \* the client whose transaction holds the row
  page,       \* the copy of the row each page shows
  tx,         \* the transaction of each client's Save
  run,        \* each agent's run
  committed,  \* the saves that were committed, in their order
  posted,     \* the inputs the last of them posted
  saves       \* saves begun so far

saved == <<committed, posted>>
vars == <<row, inputs, lock, page, tx, run, saved, saves>>

Save == 1 .. MaxSaves

(* JobStatus *)
Idle == 0
Waiting == 1
Running == 2
Row == [JobStatus : {Idle, Waiting, Running}, save : Save]

(* A page of a new job has no row to show. *)
NewPage == [JobStatus |-> Idle, save |-> None]
IsNew(p) == p.save = None

(* The statements of SaveJobSchedule: the row (LockJobSchedule and Update, *)
(* or Create), Delete and BulkCopy of the inputs.                          *)
StatementsRowLast == <<"Delete", "BulkCopy", "Row", "Commit">>
Statements == <<"Row", "Delete", "BulkCopy", "Commit">>

Statement(c) == Statements[tx[c].at]

NoRun == [pc |-> "Idle", job |-> None, inputs |-> {}, sql |-> <<>>]

Init ==
  /\ row = None /\ inputs = {} /\ lock = None
  /\ page = [c \in Clients |-> None]
  /\ tx = [c \in Clients |-> None]
  /\ run = [a \in Agents |-> NoRun]
  /\ committed = <<>> /\ posted = {} /\ saves = 0

-----------------------------------------------------------------------------
(***************************************************************************)
(* Pages.                                                                  *)
(***************************************************************************)
NewSchedule(c) ==
  /\ tx[c] = None /\ row = None
  /\ page' = [page EXCEPT ![c] = NewPage]
  /\ UNCHANGED <<row, inputs, lock, tx, run, saved, saves>>

(* GetJobScheduleModel, for a link or as the answer to a request. *)
Index(c) ==
  /\ tx[c] = None /\ row # None
  /\ page' = [page EXCEPT ![c] = row]
  /\ UNCHANGED <<row, inputs, lock, tx, run, saved, saves>>

(* ToJobScriptInputs: the inputs that are not blank, with any values. *)
PostedInputs(n) ==
  {{[InputId |-> i, save |-> n, holds |-> h[i]] : i \in supplied} :
     supplied \in SUBSET Inputs,
     h \in {f \in [Inputs -> Inputs \cup Patterns \cup {Verbatim}] :
              \A i \in Inputs : f[i] \in Holdable[i] \cup {Verbatim}}}

(* Save: the user may have edited any column and any input.  There is one  *)
(* job here, so that a new one is created once.                            *)
BeginSave(c) ==
  /\ page[c] # None /\ tx[c] = None /\ saves < MaxSaves
  /\ IsNew(page[c]) => row = None /\ \A d \in Clients : tx[d] = None
  /\ saves' = saves + 1
  /\ \E new \in PostedInputs(saves + 1) :
       tx' = [tx EXCEPT ![c] = [at |-> 1, row |-> [page[c] EXCEPT !.save = saves + 1],
                                posted |-> new, deleted |-> {}, inserted |-> {}]]
  /\ UNCHANGED <<row, inputs, lock, page, run, saved>>

SaveRowAlone(c) ==
  /\ tx[c] # None /\ Statement(c) = "Row"
  /\ lock = None
  /\ lock' = c
  /\ tx' = [tx EXCEPT ![c].at = @ + 1]
  /\ row' = tx[c].row
  /\ UNCHANGED <<inputs, page, run, saved, saves>>

(* LockJobSchedule waits for the transaction that holds the row. *)
SaveRow(c) ==
  /\ tx[c] # None /\ Statement(c) = "Row"
  /\ lock = None
  /\ lock' = c
  /\ tx' = [tx EXCEPT ![c].at = @ + 1]
  /\ UNCHANGED <<row, inputs, page, run, saved, saves>>

DeleteInputsAtOnce(c) ==
  /\ tx[c] # None /\ Statement(c) = "Delete"
  /\ \A d \in Clients \ {c} : tx[d] # None => tx[d].deleted = {} /\ tx[d].inserted = {}
  /\ tx' = [tx EXCEPT ![c].at = @ + 1]
  /\ inputs' = {}
  /\ UNCHANGED <<row, lock, page, run, saved, saves>>

(* Delete waits for those who have deleted or inserted rows of the job. *)
DeleteInputs(c) ==
  /\ tx[c] # None /\ Statement(c) = "Delete"
  /\ \A d \in Clients \ {c} : tx[d] # None => tx[d].deleted = {} /\ tx[d].inserted = {}
  /\ tx' = [tx EXCEPT ![c].at = @ + 1, ![c].deleted = inputs]
  /\ UNCHANGED <<row, inputs, lock, page, run, saved, saves>>

BulkCopyInputs(c) ==
  /\ tx[c] # None /\ Statement(c) = "BulkCopy"
  /\ tx' = [tx EXCEPT ![c].at = @ + 1, ![c].inserted = tx[c].posted]
  /\ UNCHANGED <<row, inputs, lock, page, run, saved, saves>>

EndTransaction(c) ==
  /\ tx' = [tx EXCEPT ![c] = None]
  /\ lock' = IF lock = c THEN None ELSE lock

CommitSave(c) ==
  /\ tx[c] # None /\ Statement(c) = "Commit"
  /\ row' = tx[c].row
  /\ inputs' = (inputs \ tx[c].deleted) \cup tx[c].inserted
  /\ committed' = Append(committed, tx[c].row.save)
  /\ posted' = tx[c].posted
  /\ EndTransaction(c)
  /\ UNCHANGED <<page, run, saves>>

RollbackKeepingTheLock(c) ==
  /\ tx[c] # None
  /\ tx' = [tx EXCEPT ![c] = None]
  /\ UNCHANGED <<row, inputs, lock, page, run, saved, saves>>

(* A statement throws: the transaction is disposed of without a commit. *)
Rollback(c) ==
  /\ tx[c] # None
  /\ EndTransaction(c)
  /\ UNCHANGED <<row, inputs, page, run, saved, saves>>

(* Run, after the answer to a Save: ActivateJob writes the page's row. *)
ActivateJob(c) ==
  /\ page[c] # None /\ ~IsNew(page[c]) /\ tx[c] = None
  /\ lock = None /\ row # None /\ row.JobStatus <= Waiting
  /\ row' = [page[c] EXCEPT !.JobStatus = Waiting]
  /\ UNCHANGED <<inputs, lock, page, tx, run, saved, saves>>

-----------------------------------------------------------------------------
(***************************************************************************)
(* Agents.  A transaction of theirs on the row is a step.                  *)
(***************************************************************************)
GetJobSchedules(a) ==
  /\ run[a].pc = "Idle" /\ row # None /\ row.JobStatus \in {Idle, Waiting}
  /\ run' = [run EXCEPT ![a] = [NoRun EXCEPT !.pc = "Listed", !.job = row]]
  /\ UNCHANGED <<row, inputs, lock, page, tx, saved, saves>>

(* StartJob, answered Started or AlreadyRunning. *)
StartJob(a) ==
  /\ run[a].pc = "Listed" /\ lock = None
  /\ IF row.JobStatus <= Waiting
       THEN /\ row' = [run[a].job EXCEPT !.JobStatus = Running]
            /\ run' = [run EXCEPT ![a].pc = "Started", ![a].job.JobStatus = Running]
       ELSE run' = [run EXCEPT ![a] = NoRun] /\ UNCHANGED row
  /\ UNCHANGED <<inputs, lock, page, tx, saved, saves>>

(* GetJobInputs and, in a direct SQL run, the script's SQL with them.      *)
(* What happens to it is in ScriptExecution.                               *)
GetJobInputs(a) ==
  /\ run[a].pc = "Started"
  /\ run' = [run EXCEPT ![a].pc = "Execute", ![a].inputs = inputs, ![a].sql = DirectSql(inputs)]
  /\ UNCHANGED <<row, inputs, lock, page, tx, saved, saves>>

(* FinishJob, whether the script was executed or something threw. *)
FinishJob(a) ==
  /\ run[a].pc \in {"Started", "Execute"} /\ lock = None
  /\ row' = [run[a].job EXCEPT !.JobStatus = Idle]
  /\ run' = [run EXCEPT ![a] = NoRun]
  /\ UNCHANGED <<inputs, lock, page, tx, saved, saves>>

-----------------------------------------------------------------------------
SaveStep(c) == SaveRow(c) \/ DeleteInputs(c) \/ BulkCopyInputs(c) \/ CommitSave(c)

PageStep(c) == NewSchedule(c) \/ Index(c) \/ BeginSave(c) \/ ActivateJob(c)

AgentStep(a) == GetJobSchedules(a) \/ StartJob(a) \/ GetJobInputs(a) \/ FinishJob(a)

Next ==
  \/ \E c \in Clients : SaveStep(c) \/ Rollback(c) \/ PageStep(c)
  \/ \E a \in Agents : AgentStep(a)

(* A statement that need not wait is executed; nothing obliges it to throw. *)
Spec == Init /\ [][Next]_vars /\ \A c \in Clients : WF_vars(SaveStep(c))

-----------------------------------------------------------------------------
Transaction ==
  [at : 1 .. Len(Statements), row : Row, posted : SUBSET JobScriptInput(Save),
   deleted : SUBSET JobScriptInput(Save), inserted : SUBSET JobScriptInput(Save)]

ASSUME NoneAssumption ==
  /\ None \notin Clients /\ None \notin Save /\ None \notin Row /\ None \notin Transaction
  /\ None \notin [row : Row, inputs : SUBSET JobScriptInput(Save)]

TypeOK ==
  /\ row \in Row \cup {None}
  /\ inputs \subseteq JobScriptInput(Save)
  /\ lock # None => lock \in Clients /\ tx[lock] # None
  /\ page \in [Clients -> Row \cup {NewPage, None}]
  /\ tx \in [Clients -> Transaction \cup {None}]
  /\ DOMAIN run = Agents
  /\ \A a \in Agents :
       /\ run[a].pc \in {"Idle", "Listed", "Started", "Execute"}
       /\ run[a].job \in IF run[a].pc = "Idle" THEN {None} ELSE Row
       /\ run[a].inputs \subseteq JobScriptInput(Save)
  /\ committed \in Seq(Save) /\ saves \in 0 .. MaxSaves

(***************************************************************************)
(* The stored inputs are those of the save committed last, all of them and *)
(* no other: saves of several pages, each deleting and inserting rows,     *)
(* behave as if they came one after the other.  In particular an input has *)
(* one row, which MergeScriptInputs' ToDictionary relies on.               *)
(***************************************************************************)
StoredInputsOfLastSave == inputs = posted

(***************************************************************************)
(* A run executes with the inputs of one save, and never with inputs older *)
(* than the row it started from, although it reads the two at different    *)
(* times and with a transaction of its own in between.                     *)
(***************************************************************************)
RunInputsNotOlder ==
  \A a \in Agents : run[a].pc = "Execute" =>
    \E n, m \in DOMAIN committed :
      /\ n <= m
      /\ run[a].job.save = committed[n]
      /\ \A i \in run[a].inputs : i.save = committed[m]

(***************************************************************************)
(* IRelativityScriptProcessor: "Transformed SQL text [...] with script     *)
(* inputs substituted with appropriate values".  Replacing one token after *)
(* the other gives the text in which each has been replaced by its own     *)
(* value, so that no token is left, as long as no value holds a token, nor *)
(* one of the patterns of Regex.Replace: a value with $& in it would put   *)
(* its own token back, and one with $$ would lose a dollar sign.           *)
(***************************************************************************)
Expected(item, used) ==
  IF item \in {Token(g) : g \in GlobalVariables}
    THEN <<Literal(item.token)>>
  ELSE IF item \notin {Token(d) : d \in ToSet(Details)}
    THEN <<item>>
  ELSE LET d == item.token
       IN IF Kind[d] = "SavedSearch" /\ Populated(d, used) # {}
            THEN FromTable(CHOOSE i \in Populated(d, used) : TRUE)
            ELSE ReplaceString(d, used)

SqlIsScriptWithInputs ==
  \A a \in Agents :
    run[a].pc = "Execute" /\ (\A i \in run[a].inputs : i.holds = Verbatim) =>
      run[a].sql = FlattenSeq([n \in DOMAIN ScriptSql |-> Expected(ScriptSql[n], run[a].inputs)])

(***************************************************************************)
(* The statements of the saves, which wait for each other, are rolled back *)
(* and come between the steps of pages and agents, are those of a job that *)
(* is saved in one step: the row and its inputs change together, and no    *)
(* copy that is written back is of a save that was not committed.          *)
(***************************************************************************)
Pending ==
  [c \in Clients |-> IF tx[c] = None THEN None ELSE [row |-> tx[c].row, inputs |-> tx[c].posted]]

Given == [a \in Agents |-> IF run[a].pc = "Execute" THEN run[a].inputs ELSE {}]

Serial == INSTANCE SerialSaves
  WITH Rows <- Row, InputSets <- SUBSET JobScriptInput(Save),
       pending <- Pending, stored <- ToSet(committed), given <- Given

SavesAreOneStep == Serial!SerialSpec

(***************************************************************************)
(* A Save that has begun ends, although its transaction may have to wait   *)
(* for others on the job, which may be committed or rolled back.           *)
(***************************************************************************)
SavesEnd == \A c \in Clients : tx[c] # None ~> tx[c] = None
=============================================================================
