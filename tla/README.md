# Script Runner: specification, model checking and proofs

Milyli Script Runner schedules Relativity scripts. Users define jobs in a web
page; agents look for due jobs, run their scripts and keep a history. This
directory holds TLA+ modules translated from that code, the TLC configurations
that check them on small instances, and theorems that TLAPS proves for
instances of every size. `PROJECT.json` maps each definition to its source
lines. Paths below are relative to the repository's root; `Core` is
`Milyli.ScriptRunner.Core`, `Web` is `Milyli.ScriptRunner.Web`.

## 1. Inventory

| Component | State | Operations | Talks to |
|---|---|---|---|
| Job repository (`Core/Repositories/JobScheduleRepository.cs`) | tables JobSchedule, JobHistory, JobScriptInput in the EDDS database | `GetJobSchedules`, `StartJob`, `FinishJob`, `ActivateJob`, `SaveJobSchedule`, `GetJobInputs`, `GetJobHistory`, `GetLastJobExecution` | SQL Server, through linq2db |
| Execution schedule (`Core/Models/JobSchedule.cs`) | days, time of day, last and next times of one row | `GetNextExecution`, `UpdateExecutionTimes` | repository, controller |
| Script runner (`Core/Services/RelativityScriptRunner.cs`) | the list of jobs of this invocation, the job being executed, attempts | `ExecuteAllJobs`, `ExecuteScriptJob`, `ExecuteDirectSqlJob` | repository, Relativity script service, search tables, script processor |
| Agent (`Milyli.ScriptRunner.Agent`) | none between invocations | `Execute` | script runner; invoked by Relativity, never twice at once |
| Schedule editor (`Web/Controllers/JobScheduleController.cs`, `Web/Scripts/ViewModel/JobScheduleViewModel.js`) | the page's copy of one job, its fields, requests in flight | New, Index, edit, Save, Enable/Disable, Save and Run | repository |
| Local/UTC conversion (`Core/Tools/ScheduleConversionHelper.cs`) | none | `ConvertLocalToUtc`, `ConvertUtcToLocal`, day shifts | controller, `GetNextExecution` |
| Job inputs (`SaveJobSchedule`, `GetJobInputs`, `RelativityScriptProcessor.cs`) | rows of JobScriptInput; the SQL text of a run | delete and insert with a save, read by a run, substitution of variables, inputs and table names | repository, script runner |
| Saved-search tables (`Core/Tools/SearchTableManager.cs`) | one SQL table per saved search of a run | `CreateTablesAsync`, `BulkInsertResults`, `DeleteTables` | Relativity object manager, workspace database |
| History pages (`Web/Scripts/ViewModel/JobHistoryViewModel.js`, `JobHistory`) | page number, page size, result count, requests in flight | next, previous, first, last, page size | repository |
| Relativity repositories, `InWorkspace` | the client's current workspace id | read scripts, execute | Relativity services |
| Configuration repository | rows of the Configuration table | read (encrypts what it finds in clear), set | EDDS database |
| Installation (`Milyli.ScriptRunner.EventHandlers`) | the schema | post-install scripts | EDDS database |
| Service contracts, e-mail, permissions, logging, external helper, vendored assets | | | |

What is hard: several agents and any number of pages work on the same rows with
no lock held between a read and the write that depends on it. `StartJob`,
`ActivateJob` and `SaveJobSchedule` lock the row, but what they write is a copy
of the row read earlier, all columns at once. Agents may stop, transactions may
roll back, answers may be lost or come in another order. The correctness of each
component:

- repository: one agent executes a job at a time; requests to run a job are not
  lost; one history entry per run, closed once; a stored row always has a next
  time on its own schedule; the inputs of a job are those of one save;
- agents: every due job is run; a job starts only when due or requested and
  while enabled; what failures leave behind is bounded by the failures;
- schedule: the next time is the first instant strictly after the run;
- conversion: what is stored means what some save posted, and no slot is skipped
  between a page's computation in local time and an agent's in UTC;
- editor: an edit is undone only by copies older than it, and the fields of a
  page show what its next save posts until an answer brings another row;
- inputs: the SQL of a run is the script with every token replaced by its own
  input's value, and the inputs are not older than the row the run works from;
- execution: SQL runs on tables that are filled and that no other job touches, a filled table holds the search, an
  entry without error is a run that was done, every run ends;
- history: the buttons ask for pages that exist and paging skips no entry, but
  for larger page sizes, and answers cause no requests for ever.

The hazards of `PROJECT.json` list what is hard to test at the line where it
bites, those that no property covers included, with the reason.

## 2. Modules

| Module | Models |
|---|---|
| `Schedule` | `GetNextExecution` over positions in the week |
| `JobScheduleRepository` | the two tables and each transaction on them |
| `ScriptRunnerAgent` | agents: batch, start, skip, finish, failure |
| `JobScheduleWeb` | schedule pages: open, create, save, run, answers |
| `ScriptRunner` | the composition of the four, its fairness and its properties |
| `JobLifecycle` | the abstract contract of a job: phase and owner |
| `ExecutionDays` | schedules as days and a time of day: the day loop, the conversions between local time and UTC |
| `ScheduleEditor` | one job's schedule between the fields of pages, their requests, the table and agents |
| `ScriptText` | the substitutions in the SQL of a script |
| `JobInputs` | the row and the inputs of one job, statement by statement |
| `SerialSaves` | what `JobInputs` promises: a save is one step or none |
| `ScriptExecution` | what an agent does between `StartJob` and `FinishJob` |
| `SearchTable` | how one saved search is read into its table |
| `HistoryPages` | the page of a job's history, its requests and their answers |
| `MCScriptRunner`, `MCScheduleEditor`, `MCJobInputs`, `MCScriptExecution`, `MCSearchTable`, `MCHistoryPages` | values for TLC |
| `DataLemmas`, `ScriptRunnerProofs`, `JobHistoryProofs`, `ScheduleEditorProofs`, `JobInputsProofs`, `ScriptExecutionProofs`, `SearchTableProofs`, `HistoryPagesProofs` | theorems |

The systems meet at four seams.

- `ScriptRunner` takes the schedule as a set of positions in the week and one
  `GetNextExecution` on it; `DayLoopMeetsSchedule` checks in `ScheduleEditor`
  that the loop over days computes that operator.
- `ScriptRunner` takes a run as one state with any outcome; `ScriptExecution`
  opens it, and its `RunsEnd` is what the fairness of `AgentStep` assumes.
- `ScriptRunner` takes `SaveJobSchedule` as one step without inputs; `JobInputs`
  opens it into its statements and transactions. `SavesAreOneStep` says that
  these amount to one step, `SavesEnd` that it is taken or dropped.
- `ScriptExecution` takes filling a table as one call; `SearchTable` opens it.

### ScriptRunner

`jobs` maps identities to rows of JobSchedule (only the columns control depends
on: status, enabled, schedule, next and last time), `history` is JobHistory in
insertion order, `now` is `DateTime.UtcNow`. An operator of
`JobScheduleRepository` is one transaction: those that begin with
`LockJobSchedule` hold `UPDLOCK` on the row until they commit, `FinishJob` and
the two reads are single statements or touch one row. They take the object the
caller holds as an argument, because that object, not the stored row, is what
`Update` writes.

An agent is `Idle` between invocations, in `Batch` while it works through its
list and `Executing` between `StartJob` and `FinishJob`. `batch[a]` holds the
objects of the list it has not dealt with, `run[a]` the job and its
`CurrentJobHistory`. The list has no ORDER BY: any order of the jobs is
possible. `AbandonBatch` stands for a stopped process and for an exception from
`StartJob` or `FinishJob`, which nothing catches above `ExecuteAllJobs`.

A page's `form` is its view model, `saving` a Save the server has committed and
not answered, `posting` a Run request. Committing and answering are two steps,
because the controller reads the row again after the transaction. `ReplyLost`
drops an answer. Users may edit a page at any time and post it at any later
time: nothing makes a page current. Two bounds are named in guards: a page has
one Run in flight (`RunIsFree`), although it is not masked while it waits for
one, and a page that is opened again before its answers have come counts as
another client (`PageIsFree`). `ScheduleEditor` has neither.

`ScriptRunner` has two specifications. `Spec` is the code. `CurrentSpec`
restricts it: a page saves only while the status it shows is the row's. The run
`stale_save_two_agents` shows what is lost without that restriction,
`current_saves` and `live` what holds with it, and `stale_saves` what holds
regardless. The same stale save also writes Idle over Waiting, so that
`WaitingUntilStarted` is a property of `CurrentSpec` only.

`DueJobsRun` says that a due slot of an enabled job is run, unless the job is
`Orphaned`: Running with no agent executing it, as a stopped agent leaves it. No
code ever resets such a row, so that no stronger property holds with failures.

### ScheduleEditor

`row` is the stored schedule and next time, in UTC. `page[c]` is a page: its copy
of the row in local time and its fields, that is hours, minutes, AM or PM, and a
button for each day. The page fills the fields from its copy when it opens
(`FieldsOf`); after that they only change the copy (`Edit`: `setTime` for the
clock, one bit for each day). The answer to a request replaces the copy and
leaves the fields (`updateFromModel`).

`request` holds the requests in flight, of any page and any number up to its
bound. Each takes three steps on the server and back: `Save` or `Run`, the
transaction that writes what was posted; `GetJobScheduleModel`, which reads the
row for the answer in a transaction of its own; and `updateFromModel`, which also
posts Run with the answer of the Save before it. Anybody may write the row in
between. A page is masked while a Save of its own is unanswered, and not while a
Run is. A request may fail (`Fail`) and a page may be opened again (`Index`)
while the server goes on with what was posted.

`Saved` is what `JobScheduleController.Save` makes of a posted copy: the next run
is computed from the local schedule, then both are converted. `Run` converts the
posted copy to UTC a second time and writes all of it, or is refused. `agent[a]`
is an agent's copy of the row: read by `GetJobSchedules`, written back whole by
`StartJob` and again by `FinishJob`, with the next run counted from the start.
Whether a start or an activation is refused depends on the status of the row,
which `JobScheduleRepository` has; here it is a choice. `offset` is `LocalOffset`,
the same throughout a behaviour.

So an agent that listed a job before an edit was saved puts the old schedule
back, and a page may show fields of one schedule over a copy of another. The
properties say what is left: the stored schedule always means one that a Save
posted, never half of each (`StoredIsChosen`); if nobody held an older copy to
write when a Save was stored, that Save stands until the next (`LastSaveStands`);
no slot of the stored schedule is skipped (`NoSlotSkipped`); and fields and copy
of a page agree until an answer brings a row of another Save
(`FieldsShowSchedule`). Some variables and fields are for these statements only:
`posted` of a row, `last` and `crossed` of the last Save, `since`, the last start
or Save, and `wanted` and `apart` of a page.

### JobInputs and ScriptText

`tx[c]` is the transaction of a page's Save: the statement it is at, the row and
inputs it will commit, the input rows it has deleted and inserted. `lock` is who
holds the row: `LockJobSchedule` waits for it, as do the updates of agents and
of `ActivateJob`, which are single steps. `CommitSave` makes the transaction's
work visible, `Rollback` drops it. An agent reads the row with its list, writes
its copy back in `StartJob`, reads the inputs in `GetJobInputs` and writes its
copy again in `FinishJob`.

Rows and inputs carry the number of the save they come from, which is how
`RunInputsNotOlder` tells them apart. `committed` and `posted` record the saves
in the order of their commits.

`SerialSaves` is the same job without statements, locks and copies. A posted save
is pending until it is stored, row and inputs in one step, or dropped; whatever
else writes the row writes the row of some stored save with any status; a run is
given the inputs of one moment. The mapping of `SavesAreOneStep` takes a
transaction's row and posted inputs as the pending save, wherever its statements
are, and the inputs of a run that executes as those it was given.

In `ScriptText` a text is a sequence of tokens, of values and of text no rule
looks at. Tokens are replaced one input after another in the text already
changed, as the code does, so that a value that holds a token is replaced in its
turn. What replaces a token is a pattern of `Regex.Replace`: `$&` and `$0` in a
value put the token back, `$$` becomes one dollar sign and `$_` the whole text
(`PutInPlace`). Tokens are found in upper and lower case; the model takes the ids
of a script's inputs to differ in more than that. A saved search keeps its token
until its table is made.

### ScriptExecution and SearchTable

`pc[a]` names the statement an agent is at. A script run makes attempts
(`AttemptAnswered`, `AttemptThrows`) until three are made, then reads the last
answer. A direct SQL run makes and fills one table per search, runs the SQL and
drops the tables. `searchTables[a]` is the dictionary the agent holds, `tables`
the names the database has tables for, and `filled` those that hold their search.
A table goes by its name alone: `GenerateTableName` makes it of the search, the
job and the clock, which may stand still between two calls; `CreateTable` first
drops a table that has the name, and `DeleteTable` drops whatever has it. Agents
may execute the same job (`stale_save_two_agents` shows how), and may then take
the same name; `shared` marks such runs for the properties. Every call may throw,
and one that throws may have taken effect.

`SearchTable` fills one table: `Query` asks for the page at `position`,
`AddRows` is the body of the loop, with a bulk copy when more rows are held than
`BulkCopyBatch`, `Finish` copies the rest. `Enter` and `Leave` are users who
change what the search finds, between any two queries.

### HistoryPages

`model` is the answer applied last, `PageSize` the observable of that name, which
the user changes before any answer comes. `inFlight` holds the requests: `Count`
and `GetJobHistory` are the repository's two statements, `Answer` is
`updateFromModel`, in any order, `Fail` a request that fails or whose answer is
lost. `AddHistoryEntry` is a run that starts meanwhile. The guards of the clicks
are those of the buttons; nothing stops a click while a request is in flight.

### Assumed of what is not in the repository

SQL Server and Relativity are modelled from how the code uses them:

- each transaction has a connection of its own, `UPDLOCK` and updates hold a row
  until the transaction ends, and a single SELECT sees committed rows as of one
  moment;
- a bulk copy that breaks the primary key copies nothing;
- the object manager returns the objects of a search in the order of their ids,
  a batch from a position on, as they are when it is called;
- Relativity invokes an agent's `Execute` at its interval and not twice at once;
- the browser keeps the fields of the schedule within the minimum and maximum
  the view gives them.

## 3. Runs

| Run | Shows |
|---|---|
| `current_saves` | two agents, two jobs, one page, one failure, saves current: exclusion, orphans bounded by failures, refinement of `JobLifecycle` |
| `stale_saves` | with stale saves too: entries one per run and final, stored rows and every copy of one coherent |
| `live` | with one failure, every due slot is run unless the failure orphaned the job; Save and Run leads to a run; nothing cancels the request |
| `stale_save_two_agents` | violation: a stale Save lets two agents execute one job |
| `disabled_job_starts` | violation: a job disabled after it was listed is started |
| `editor` | two pages and an agent with copies of one row, on both sides of UTC, away from local midnight behind it: the stored schedule means one that was posted, only older copies undo a save, the fields of a page show what it will post unless an answer brought another row, no slot is skipped, an unchanged save changes nothing, the day loop is `Schedule`'s operator |
| `editor_behind_midnight` | violation: behind UTC a job for local midnight moves a day when its page is saved |
| `inputs` | two pages save one job with rollbacks while an agent runs it: the stored inputs are those of one save, a run's inputs are not older than its row, its SQL is the script with them unless they hold tokens or patterns, every save ends, and the whole implements `SerialSaves` |
| `execution` | the SQL of a job that one agent executes sees its tables, filled, whatever the names of others; no error means done and cleaned up; every run ends |
| `search` | a table misses at most one document for each that left the search, and filling throws only if one entered it |
| `script_executed_again` | violation: a script that succeeded is executed again |
| `history` | Next asks for a page that exists and finds rows, and skips no entry unless a larger size is unanswered; the other buttons stay in the history but for the cases `PagesStayInHistory` names; no rows means the end, the page comes to rest |

Deadlock checking is off in all of them: the clock and the numbers of saves,
failures, runs, clicks and changes are bounded (`MaxTime`, `MaxSaves`,
`MaxFaults`, `MaxRuns`, `MaxClicks`, `MaxEntries`, `MaxChanges`, `Instants`), and nothing is
left to do when they are used up.

Bounds of `ScriptRunner`. A week of two ticks and the schedules "never" and
"every position" reach a slot, its successor and the wrap of the week. Two
agents are enough for every race over one row, and two jobs for a list that goes
stale while another job of it runs. One page suffices for races between a page
and the agents; pages never talk to each other except through rows, and a page
that reopens between saves stands for another. One failure is enough to leave an
orphan and to check that a second one does not appear by itself. One save is
enough for a stale save and for a request; `live` has two, so that a second save
can meet a request.

Bounds of `ScheduleEditor`. Half days of two hours of two minutes have noon,
midnight, an hour that is neither, and times at both ends of the day; the offsets
-3, -1, 0 and 2 shift a time across midnight or not, on each side, by whole and
by part hours. The clock has two instants that lie almost a week apart, so that
slots pass during a run and the next one is on either side of the week's end. The
days include none, both ends of the week and several that wrap. Two pages, two
requests and an agent reach every order of two writers and a reader of the row,
and two saves let one undo or meet the other; users choose, for each offset, from
one or two schedules, and two for the offset on which edits are to differ.

Bounds of `JobInputs`. Two pages, and three saves, because a job must have been
created by one save before two others race on it. One agent: agents are kept
apart by the row, which `ScriptRunner` checks. Two inputs, a saved search and a
text that may hold the pattern of its own token; the script names the text twice
and has a global variable on each side of an input. Values that hold other tokens
and patterns are in the module, and the property excepts them all alike.

Bounds of `ScriptExecution`. Two agents and two runs, of one job or of two, so
that runs overlap or follow each other; two searches, so that making or dropping
the tables can stop between them; a clock that ticks once, so that names are
taken at the same moment and at another; the code's own three attempts.

Bounds of `SearchTable`. Six documents, pages of two and a copy when more than
three rows are held: a search has up to three pages, ends on or inside a page,
and has copies in the loop and after it. Three changes are enough to enter,
leave and enter again.

Bounds of `HistoryPages`. Two requests in flight reach every order of two
answers; sizes one and two with three entries have full, partial and empty last
pages; three clicks leave room for a size and two pages.

Fairness. `AgentStep` is weakly fair for every agent: Relativity invokes each
agent at its interval for ever, and a run ends because the script service or
`MaximumRuntime` ends it. A posted Run request is weakly fair: HTTP delivers it.
`RunStep` of `ScriptExecution` is weakly fair: every call returns or throws.
`SaveStep` of `JobInputs` is weakly fair, `Rollback` is not: a statement that
need not wait is executed, and nothing obliges it to throw. A request of
`HistoryPages` is weakly fair in `Serve` or `Fail`: it is answered or it fails.
The clock, users, agents' stops, lost answers and the documents of a search are
not fair: nothing obliges them.

Findings. The four violations are disagreements between the code and what its
documents or tests say; `PROJECT.json` quotes the line of each. More behaviours
are visible in the models and stated in the properties as the exceptions they
are:

- a larger page size, Previous while its answer is outstanding, and Last may ask
  for a page behind the entries, and from such a page Previous goes back one page
  only (`PagesStayInHistory`);
- Next while a larger size is unanswered skips the entries between the page shown
  and the next page of the larger size (`NextLeavesNoGap`);
- a value that holds the token of another input is replaced or left by the order
  of the inputs, and one with a pattern of `Regex.Replace` puts something else
  than itself in the SQL (`SqlIsScriptWithInputs`);
- an agent or a Run that holds an older copy undoes a Save (`LastSaveStands`), and
  a page may post another schedule than its fields show after an answer with the
  row of another Save (`FieldsShowSchedule`);
- two agents that execute one job may take each other's search tables
  (`SqlSeesFilledTables`, `NoErrorMeansDone`).

## 4. Proofs

The invariants named here were checked by TLC on the runs' instances before they
were proved. `DataLemmas` has what the others share: the minimum of a nonempty
set of naturals, the uniqueness of quotient and remainder, that folds over
numbers and over the subsets of a finite set are the recursions they are meant to
be, and the laws of `FlattenSeq` and of rewriting a sequence item by item.

The library's induction theorems take an operator as parameter, which the provers
cannot instantiate. `DataLemmas` states induction with a set in its place: a set
of naturals that has 0 and with each number the next has all of them
(`InductionOnNat`). What is to be shown is then defined as the set of numbers for
which it holds. That a recursion defines a function (`RecursionOnNat`,
`RecursionOnSubsets`) is proved the same way.

### ScriptRunner

`ScriptRunnerProofs` begins with the schedule: for every length of the week,
`GetNextExecution` returns the first instant after the given one that lies on
the schedule, at most a week away (`NextExecutionOfSchedule`), and null only for
the empty schedule. The argument: among the instants of one week from any point
each position occurs, so the set of candidates is not empty, and a set of
naturals that is not empty has a least element.

Then, for any sets of jobs, agents and pages:

- `TypeCorrect`: `Spec => []TypeOK`. `TypeOK` is not inductive: `FinishJob`
  indexes the history and the list with what the agent remembers and requests
  name rows. `TypeInv` adds that those references exist (`AgentsHoldRows`,
  `PagesNameStoredJobs`) and that no run starts in the future
  (`RunsStartedInThePast`), so that a runtime is never negative.
- `AtMostOneAgent`: `CurrentSpec => []MutualExclusion`, and
  `RunningWhileExecuting`: `CurrentSpec => []ExecutingIsRunning`. Exclusion is
  not inductive by itself; `ExclusiveInv` adds that the row of a job being
  executed says Running. `StartJob` refuses such a row, `ActivateJob` too, a
  current save writes Running back, and `FinishJob` is called by the one
  executing agent only.
- `RequestsStand`: `CurrentSpec => WaitingUntilStarted`. From `ExclusiveInv`: a
  Waiting job is executed by nobody, so nobody finishes it, and a current save
  writes Waiting back.
- `LifecycleIsKept`: `CurrentSpec => ImplementsLifecycle`, the refinement of
  `JobLifecycle`. The mapping takes the status of a row as the phase of its job
  and the agent that executes it as its owner. `LifecycleInv` adds to
  `ExclusiveInv` that a page for a new job posts Idle; the initial states map to
  initial states (`InitRefines`) and `StepRefines` has, for each transaction,
  the contract's step it is or the variables it leaves.

`JobHistoryProofs` is about what the tables hold in the end:

- `OwnEntry`: `Spec => []OneEntryPerRun`, and `HistoryIsPermanent`:
  `Spec => ClosedEntriesNeverChange`. Neither needs current saves: an agent
  appends its own entry, so that even two agents that execute one job close two
  entries, and each closes an open one.
- `AbandonedEntriesAreCounted`: `Spec => []AbandonedEntriesAreFaults`, and
  `OrphansAreCounted`: `CurrentSpec => []OrphansComeFromFaults`. The invariants
  add that the sets counted are finite; `OneMoreElement` pays for the one
  element a failure may add, and every other step is shown to add none.
- `EveryRowIsCoherent`: `Spec => []RowsAreCoherent`. Coherence of the stored
  rows is not inductive, because what is written is a copy read earlier. It is
  for all rows together, those in agents' lists, on pages and in posted requests
  included, and so `RowsAreCoherent` speaks of them all. A copy stays coherent
  while the clock advances; `FinishJob` and `SaveJobSchedule` compute a new next
  time, by `NextExecutionOfSchedule`.

### ScheduleEditor

`ScheduleEditorProofs` proves, for days of any number of hours and minutes, every
set of offsets shorter than a day and every schedule, that if no schedule behind
UTC is for local midnight (`MidnightIsClear`) then

- `EditorTypeCorrect`: `Spec => []TypeOK`,
- `ScheduleKeepsMeaning`: `Spec => []StoredIsChosen`,
- `OnlyEarlierCopiesUndo`: `Spec => []LastSaveStands`,
- `FieldsStayTrue`: `Spec => []FieldsShowSchedule`,
- `UnchangedSaveKeepsSchedule`: `Spec => RoundTrip`,
- `EverySlotIsKept`: `Spec => []NoSlotSkipped`, and
- `DayLoopIsSchedule`: `Spec => []DayLoopMeetsSchedule`.

The invariant `EditorInv` is about all copies of the row at once: the stored one
and an agent's are the UTC form of the schedule they say was posted (`UtcCopy`,
`IsUtcOf`), a page's and a request's are that schedule itself (`LocalCopy`), and
every page's fields mean what its user wants (`PageOK`). A step that writes a
copy back, or reads one, then only moves what the invariant already says of it;
the conversions at the two ends are `ShownCopy`, `ActivatedCopy`, `SavedCopy` and
`FinishedCopy`. `FieldsMeanSchedule` and `SetTimeMeans` prove that filling the
fields and reading them are inverse, noon and midnight included; `LocalToUtc` and
`UtcToLocal` that the conversions produce and undo the UTC form; `SameMeaning`
that a schedule and its UTC form have the same slots. `LastInv` adds, for
`OnlyEarlierCopiesUndo`, that as long as nobody held an older copy when the last
Save was stored, every copy that can still be written was posted by it.
The assumption is needed: `BehindUtcMidnightMoves` proves that behind
UTC every schedule for local midnight comes back from its conversion a day late,
whatever the offset and the length of the day, and that this is another schedule
unless it has no day or every day. `editor_behind_midnight` shows what a save
then does.

`DayLoopFindsNextSlot` needs no such assumption: for every schedule and instant
the loop over eight days returns the first slot strictly after the instant. A
slot ahead lies on a day that is at most seven days away or as many whole weeks
further (`SlotAhead`), and each day the loop stops at has a slot ahead
(`DayHasSlot`). For `EverySlotIsKept`, `EditorInv` has of every copy that no slot
of its schedule lies between the last start or Save and its next time: a save
computes it in local time and shifts it (`LocalSlotKept`), an agent computes it in
UTC from the UTC form and counts from its start (`UtcSlotKept`), and a later start
or Save only shortens the interval (`CopiesLast`).

### JobInputs

`JobInputsProofs` proves, for any sets of pages, agents and inputs, every script
and any number of saves, `InputsTypeCorrect`: `Spec => []TypeOK`,
`SavesDoNotMix`: `Spec => []StoredInputsOfLastSave` and `RunsHaveOneSavesInputs`:
`Spec => []RunInputsNotOlder`. The invariant `InputsInv` gives the lock its
reason (`TransactionKept`): a page holds the row from its first statement to the
end of its transaction, and what it has deleted and inserted follows from the
statement it is at. So its commit replaces all inputs of the save before by all
of its own. Every copy of the row, on a page or with an agent, is of a committed
save (`CopiesAreCommitted`), and the stored inputs are of the last one
(`InputsAreCommitted`), hence not older than any copy.

`SavesImplementOneStep`: `Spec => SavesAreOneStep` is the refinement of
`SerialSaves`. The statements before the commit are invisible to it
(`AdvancedIsPending`), a commit stores what was posted because of
`TransactionKept`, and the rows agents and `ActivateJob` write back are of stored
saves because of `CopiesAreCommitted`. `RowIsStored` adds that an agent that has
the row finds it still there.

`SqlIsTheScriptsOwn`: `Spec => []SqlIsScriptWithInputs`, for scripts of any
length with any number of inputs. The processor replaces one token after another
in the text already changed, and the property says that the outcome is one pass
over the original script. Every `Replace` is a rewriting of the text by a rule,
and rewriting twice is rewriting by one rule (`RewrittenTwice`). So the text
after any number of inputs is the script rewritten by `InputRule` of the inputs
so far: as long as no value holds a token or a pattern (`NoPatterns`), what one step puts in is left alone by
all later ones, but for a saved search, whose token stays for its table. The two
loops are folds, over the sequence of the inputs and over the set of the
searches, and the induction goes over the length of the one (`InputsStep`) and
the size of the other (`TablesStep`). That a run's inputs have one row for each
input, which makes the order of the searches irrelevant, is part of `InputsInv`
(`InputsAreOnce`, `SqlIsOfInputs`): it holds because saves do not mix.

### ScriptExecution and SearchTable

`ScriptExecutionProofs` proves, for any sets of agents, jobs and searches, any
number of runs and any clock, `ExecutionTypeCorrect`: `Spec => []TypeOK`,
`SqlTablesAreFilled`: `Spec => []SqlSeesFilledTables` and `CleanEntriesAreTrue`:
`Spec => []NoErrorMeansDone`. In `ExecutionInv`, agents that execute one job are
both marked so (`Apart`), an agent uses names of its own job only (`NamesKept`),
what has been executed follows the agent's place in the code (`ExecutionsKept`),
and so do the tables of a run whose job is its own (`TablesKept`). `LocalStepInv`
shows once that a step that changes tables of one job only keeps the invariant of
the agents with other jobs; each action is then such a step of one agent. The
clock plays no part: names of one run are told apart by their search.

`SearchTableProofs` proves, for every finite set of documents, all sizes of the
batches and any number of changes, `SearchTypeCorrect`: `Spec => []TypeOK`,
`TablesHoldTheSearch`: `Spec => []FilledWithTheSearch` and
`OnlyEntriesBreakTheKey`: `Spec => []ThrownOnlyIfEntered`. The place of a
document is the number of documents before it (`Before`). `FillInv` says of a
document that stayed in the search: if its place is before the next page's
first, it has been read, but for at most one document for each that left. A
document that leaves moves the places after it by one, and so moves at most one
over the edge of the page; one that enters moves them the other way, which is
how a document is read twice. That every place of a search has a document
(`PlaceTaken`) follows from counting: places are distinct, and there are as many
as documents.

### HistoryPages

`HistoryPagesProofs` proves, for any number of requests in flight, any sizes and
any number of entries, `PagesTypeCorrect`: `Spec => []TypeOK`,
`NextNeverPassesTheEnd`: `Spec => []NextFindsEntries`, `ClicksStayInHistory`:
`Spec => []PagesStayInHistory`, `EmptyPagesLieBehindTheEnd`:
`Spec => []NoRowsOnlyBehindTheEnd`, and `NextSkipsNothing`:
`Spec => NextLeavesNoGap`. The count and the rows of an answer are read at two
moments, so that no single history explains both. `PagesInv` says that the rows
are those of some length of the history between the count beside them and the
entries there are now (`Seen`), and that a request asks for what the button it
comes from computed from the model it was clicked on (`RequestKept`). Entries
are only added, so that both stay true. That a page of a number begins no later
in a smaller size (`SmallerPages`) gives the rest: `NoLarger`, the exception of
two of the properties, is where it ends.

### Assumptions, and what stays with TLC

The proofs use the assumptions the modules state about their constants and
nothing else: schedules are sets of positions; null is not a number and the
markers for "none" are not records, runs or agents; a day is two half days of
hours of minutes; batches, page sizes and bounds are numbers, and the documents
are finitely many; an input is of one of the kinds the processor has a case for,
a value holds a token of the script's inputs or one of the named patterns, and a
script is made of such tokens, of the two global variables and of text no rule looks at. Every bound may
be any number, so that the theorems hold for behaviours of every length. The
theorems on the editor assume `MidnightIsClear` besides; those on exclusion, on
orphans and on the life cycle are about `CurrentSpec`.

Every safety invariant, action property and refinement the passing runs check is
a theorem. Liveness (`DueJobsRun`, `RunRequestsAreServed`, `RunsEnd`, `SavesEnd`,
`ComesToRest`) needs ENABLED, which the prover does not support: there, TLC's
runs are the evidence, within their bounds. The four violations are
counterexamples, which need no proof.

## 5. What is left

The components whose state the repository's own code keeps and changes are
modelled, and what their runs check is proved but for the five properties above.
Of the seams of section 2, the schedule's (`DayLoopIsSchedule`) and the saves'
(`SavesImplementOneStep`) are refinements or theorems. The other two are not
stated as refinements, because their abstract sides promise next to nothing:
`ScriptRunner` lets a run have any outcome, and `FillTable` may fill a table or
throw. What they rely on is instead checked and proved of the detailed modules:
`RunsEnd`, `NoErrorMeansDone` and `SqlSeesFilledTables` of `ScriptExecution`,
`FilledWithTheSearch` and `ThrownOnlyIfEntered` of `SearchTable`.

### Not modelled, and why

Of the repository's JavaScript the view models `JobScheduleViewModel.js` and
`JobHistoryViewModel.js` are the program's own; nearly all of the other lines are
copies of jQuery, DataTables, knockout, moment and Bootstrap. They are libraries
of other projects, which this one only calls, and no module stands for them.

- The checks that enable a page's buttons and the lists of options the page
  takes for its inputs: they decide what a user can post, and the models let
  users post any schedule and any inputs of the bounded sets.
- Times outside the fields' minimum and maximum: `setTime` does not check them,
  and nothing says what they should mean.
- A change of the server's offset (daylight saving): the code keeps no time zone
  with a job, so that nothing it stores says what a schedule means afterwards.
- The data context that web requests share
  (`Core/DependencyResolution/ScriptRunnerRegistry.cs`): what concurrent requests
  make of one linq2db context is that library's behaviour, not this code's.
- The configuration repository: only the e-mail service reads through it, and
  nothing calls that service.
- `DeleteAllJobs` and `GetLastJobExecution`: only integration tests call them.
- Tables left in the workspace when filling one of them throws: the models have
  them, and no property forbids them, because nothing says who should drop them.
- The service contracts declare interfaces that nothing in the repository
  implements; permissions, logging and the external helper wrap calls to
  Relativity and keep no state of their own; `InWorkspace` sets the workspace of
  a client that one thread uses and restores it in a finally clause; the views
  are presentation; the web socket classes are stubs; installation runs SQL
  scripts once.
