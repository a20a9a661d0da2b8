--------------------------- MODULE JobScheduleWeb ---------------------------
(***************************************************************************)
(* The schedule editor: JobScheduleController on the server and the page   *)
(* JobScheduleViewModel.js in each browser.                                *)
(*                                                                         *)
(* The page holds a copy of the job's row, posts it back whole (every      *)
(* column, JobStatus included) and replaces it by the row the server reads *)
(* after its transaction.  "Save and Run" posts Save and, when the answer  *)
(* arrives, posts Run with the answer.  The server's time zone is UTC      *)
(* here: module ScheduleEditor has the conversions.                        *)
(***************************************************************************)
EXTENDS JobScheduleRepository

CONSTANTS
  Clients,    \* browsers with the editor open
  NoForm, NoSave, NoPost,
  MaxSaves    \* bound on the number of times users press Save

ASSUME MaxSavesAssumption == MaxSaves \in Nat

VARIABLES
  form,       \* the page's view model: the job's id (None: IsNew) and row
  saving,     \* a committed Save whose answer has not arrived
  posting,    \* a Run request in flight
  saves       \* presses of Save so far

webVars == <<form, saving, posting, saves>>

Form == [id : Jobs \cup {None}, row : JobSchedule]
Save == [id : Jobs, thenRun : BOOLEAN]
Post == [id : Jobs, row : JobSchedule, activated : BOOLEAN]

ASSUME WebConstantsAssumption ==
  /\ NoForm \notin Form
  /\ NoSave \notin Save
  /\ NoPost \notin Post
  /\ None \notin Jobs

WebTypeOK ==
  /\ form \in [Clients -> Form \cup {NoForm}]
  /\ saving \in [Clients -> Save \cup {NoSave}]
  /\ posting \in [Clients -> Post \cup {NoPost}]
  /\ saves \in 0 .. MaxSaves

WebInit ==
  /\ form = [c \in Clients |-> NoForm]
  /\ saving = [c \in Clients |-> NoSave]
  /\ posting = [c \in Clients |-> NoPost]
  /\ saves = 0

NewJobScheduleModel == NewJob({}, None)

(* Bounds.  A page has at most one Run in flight: the page is not masked   *)
(* while Run is, so a user could press it again (ScheduleEditor has that). *)
(* And a page opened before the answers to an old one counts as another    *)
(* client's.                                                               *)
RunIsFree(c) == posting[c] = NoPost
PageIsFree(c) == saving[c] = NoSave /\ posting[c] = NoPost

NewSchedule(c) ==
  /\ PageIsFree(c)
  /\ form' = [form EXCEPT ![c] = [id |-> None, row |-> NewJobScheduleModel]]
  /\ UNCHANGED <<jobs, history, now, saving, posting, saves>>

(* GetJobScheduleModel: the page shows the row as it is now. *)
Show(c, j) == form' = [form EXCEPT ![c] = [id |-> j, row |-> jobs[j]]]

Index(c, j) ==
  /\ PageIsFree(c)
  /\ j \in Stored
  /\ Show(c, j)
  /\ UNCHANGED <<jobs, history, now, saving, posting, saves>>

(* The row Save posts: the page's, with the user's edits and the next time *)
(* computed from the edited schedule.                                      *)
Posted(row, enabled, schedule) ==
  [row EXCEPT !.JobEnabled = enabled, !.ExecutionSchedule = schedule,
              !.NextExecutionTime = GetNextExecution(schedule, now)]

(* Save of a new job creates its row; a new page offers neither Disable nor Run. *)
CreateJob(c) ==
  /\ form[c] # NoForm /\ form[c].id = None
  /\ saving[c] = NoSave /\ saves < MaxSaves
  /\ \E j \in Jobs \ Stored, schedule \in Schedules :
       /\ SaveJobSchedule(j, Posted(form[c].row, TRUE, schedule))
       /\ saving' = [saving EXCEPT ![c] = [id |-> j, thenRun |-> FALSE]]
  /\ saves' = saves + 1
  /\ UNCHANGED <<history, now, form, posting>>

(* Save, Enable/Disable and the first half of Save and Run (only offered   *)
(* while the job is enabled).  The page is masked until the answer.        *)
SaveJob(c) ==
  /\ form[c] # NoForm /\ form[c].id \in Jobs
  /\ saving[c] = NoSave /\ saves < MaxSaves
  /\ \E enabled \in BOOLEAN, schedule \in Schedules, thenRun \in BOOLEAN :
       /\ thenRun => enabled /\ RunIsFree(c)
       /\ SaveJobSchedule(form[c].id, Posted(form[c].row, enabled, schedule))
       /\ saving' = [saving EXCEPT ![c] = [id |-> form[c].id, thenRun |-> thenRun]]
  /\ saves' = saves + 1
  /\ UNCHANGED <<history, now, form, posting>>

(* The answer: a second read, after the commit. *)
SaveReply(c) ==
  /\ saving[c] # NoSave
  /\ Show(c, saving[c].id)
  /\ saving' = [saving EXCEPT ![c] = NoSave]
  /\ posting' = IF saving[c].thenRun
                  THEN [posting EXCEPT ![c] = [id |-> saving[c].id, activated |-> FALSE,
                                               row |-> jobs[saving[c].id]]]
                  ELSE posting
  /\ UNCHANGED <<jobs, history, now, saves>>

Activate(c) ==
  /\ posting[c] # NoPost /\ ~posting[c].activated
  /\ ActivateJob(posting[c].id, posting[c].row)
  /\ posting' = [posting EXCEPT ![c].activated = TRUE]
  /\ UNCHANGED <<history, now, form, saving, saves>>

RunReply(c) ==
  /\ posting[c] # NoPost /\ posting[c].activated
  /\ Show(c, posting[c].id)
  /\ posting' = [posting EXCEPT ![c] = NoPost]
  /\ UNCHANGED <<jobs, history, now, saving, saves>>

(* An answer is lost, or the server fails after its commit: the page keeps *)
(* what it showed.                                                         *)
ReplyLost(c) ==
  \/ /\ saving[c] # NoSave
     /\ saving' = [saving EXCEPT ![c] = NoSave]
     /\ UNCHANGED <<jobs, history, now, form, posting, saves>>
  \/ /\ posting[c] # NoPost /\ posting[c].activated
     /\ posting' = [posting EXCEPT ![c] = NoPost]
     /\ UNCHANGED <<jobs, history, now, form, saving, saves>>
=============================================================================
