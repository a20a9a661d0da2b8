---------------------------- MODULE HistoryPages ----------------------------
(***************************************************************************)
(* The history of one job on its page: JobHistoryViewModel.js asks for     *)
(* pages, JobScheduleController.JobHistory reads them, and agents add      *)
(* entries meanwhile.                                                      *)
(*                                                                         *)
(* Nothing stops the user from clicking while requests are in flight, and  *)
(* answers come in any order.  The page size is an observable of its own:  *)
(* it changes when the user selects it, before any answer, and a           *)
(* subscription to it sends a request unless an answer is being applied    *)
(* (the flag "updating").                                                  *)
(*                                                                         *)
(* Entries are numbered in the order of their StartTime, which is that of  *)
(* their insertion: AddHistoryEntry runs under the lock of the job's row.  *)
(***************************************************************************)
EXTENDS Integers, FiniteSets, FiniteSetsExt

CONSTANTS
  Requests,         \* slots for requests in flight
  PageSizes,        \* the options of the page size
  DefaultPageSize,  \* of JobHistory's parameter pageSize
  NotLoaded, NoRequest,
  MaxEntries,       \* bound on the entries of the job
  MaxClicks         \* bound on what the user asks for

ASSUME PageSizesAssumption ==
  /\ PageSizes \subseteq Nat \ {0}
  /\ DefaultPageSize \in PageSizes
ASSUME HistoryBoundsAssumption == MaxEntries \in Nat /\ MaxClicks \in Nat

VARIABLES
  entries,    \* number of entries of the job in JobHistory
  model,      \* the answer applied last: what ResultCount(), PageNumber(), JobHistory() show
  PageSize,   \* PageSize()
  inFlight,   \* the requests
  clicks      \* clicks so far

vars == <<entries, model, PageSize, inFlight, clicks>>

JobHistoryModel ==
  [JobHistory : SUBSET (1 .. MaxEntries), ResultCount : 0 .. MaxEntries,
   PageNumber : Nat, PageSize : PageSizes]

(* from is the model that was shown at the click, for the properties only. *)
Request ==
  [kind : {"Load", "Next", "Previous", "First", "Last", "Resize"},
   page : Nat, pageSize : PageSizes, from : JobHistoryModel \cup {NotLoaded},
   stage : {"sent", "counted", "read"},
   resultCount : 0 .. MaxEntries, rows : SUBSET (1 .. MaxEntries)]

ASSUME HistoryMarkersAssumption == NotLoaded \notin JobHistoryModel /\ NoRequest \notin Request

(* LoadJobHistory: the page and the size are left to the server's defaults *)
(* by the first request, and the page is too when it is 0.                 *)
LoadJobHistory(kind, page, pageSize) ==
  [kind |-> kind, page |-> page, pageSize |-> pageSize, from |-> model,
   stage |-> "sent", resultCount |-> 0, rows |-> {}]

Init ==
  /\ entries \in 0 .. MaxEntries
  /\ model = NotLoaded
  /\ PageSize = DefaultPageSize
  /\ \E r \in Requests :
       inFlight = [q \in Requests |->
         IF q = r THEN LoadJobHistory("Load", 0, DefaultPageSize) ELSE NoRequest]
  /\ clicks = 0

(* A run starts: AddHistoryEntry. *)
AddHistoryEntry ==
  /\ entries < MaxEntries
  /\ entries' = entries + 1
  /\ UNCHANGED <<model, PageSize, inFlight, clicks>>

-----------------------------------------------------------------------------
(***************************************************************************)
(* The server: GetJobHistory counts the entries, then reads the page.      *)
(***************************************************************************)
Count(r) ==
  /\ inFlight[r] # NoRequest /\ inFlight[r].stage = "sent"
  /\ inFlight' = [inFlight EXCEPT ![r].stage = "counted", ![r].resultCount = entries]
  /\ UNCHANGED <<entries, model, PageSize, clicks>>

(* ORDER BY StartTime DESC, Take(offset + pageSize), Skip(offset). *)
PageOneFurther(n, page, pageSize) ==
  {e \in 1 .. n : n - e > page * pageSize /\ n - e <= (page + 1) * pageSize}

Page(n, page, pageSize) ==
  {e \in 1 .. n : n - e >= page * pageSize /\ n - e < (page + 1) * pageSize}

GetJobHistory(r) ==
  /\ inFlight[r] # NoRequest /\ inFlight[r].stage = "counted"
  /\ inFlight' = [inFlight EXCEPT
       ![r].stage = "read",
       ![r].rows = Page(entries, inFlight[r].page, inFlight[r].pageSize)]
  /\ UNCHANGED <<entries, model, PageSize, clicks>>

ModelOf(q) ==
  [JobHistory |-> q.rows, ResultCount |-> q.resultCount, PageNumber |-> q.page,
   PageSize |-> q.pageSize]

Answered(r) ==
  /\ inFlight[r] # NoRequest /\ inFlight[r].stage = "read"
  /\ model' = ModelOf(inFlight[r])
  /\ PageSize' = inFlight[r].pageSize
  /\ UNCHANGED <<entries, clicks>>

(* The answer sets the page size too, and the subscription asks again. *)
AnswerNotUpdating(r) ==
  /\ Answered(r)
  /\ inFlight' = [inFlight EXCEPT
       ![r] = IF PageSize' = PageSize THEN NoRequest
              ELSE [LoadJobHistory("Resize", model'.PageNumber, PageSize') EXCEPT !.from = model']]

(* The answer arrives: updateFromModel, with "updating" set. *)
Answer(r) ==
  /\ Answered(r)
  /\ inFlight' = [inFlight EXCEPT ![r] = NoRequest]

(* The request fails, or its answer is lost: an alert, and nothing else. *)
Fail(r) ==
  /\ inFlight[r] # NoRequest
  /\ inFlight' = [inFlight EXCEPT ![r] = NoRequest]
  /\ UNCHANGED <<entries, model, PageSize, clicks>>

-----------------------------------------------------------------------------
(***************************************************************************)
(* The page.                                                               *)
(***************************************************************************)
CurrentStart == model.PageNumber * PageSize

HasNextPageInclusive == CurrentStart + PageSize <= model.ResultCount
HasNextPage == CurrentStart + PageSize < model.ResultCount

HasPreviousPageInclusive == model.PageNumber >= 0
HasPreviousPage == model.PageNumber > 0

LastPageFromOne == model.ResultCount \div PageSize + 1
LastPage == model.ResultCount \div PageSize

Go(r, kind, page, pageSize) ==
  /\ model # NotLoaded
  /\ inFlight[r] = NoRequest /\ clicks < MaxClicks
  /\ inFlight' = [inFlight EXCEPT ![r] = LoadJobHistory(kind, page, pageSize)]
  /\ clicks' = clicks + 1
  /\ UNCHANGED <<entries, model>>

GoNextPageByEntries(r) ==
  Go(r, "Next", model.PageNumber + PageSize, PageSize) /\ HasNextPage /\ UNCHANGED PageSize

GoNextPage(r) ==
  Go(r, "Next", model.PageNumber + 1, PageSize) /\ HasNextPage /\ UNCHANGED PageSize

GoPreviousPage(r) ==
  Go(r, "Previous", model.PageNumber - 1, PageSize) /\ HasPreviousPage /\ UNCHANGED PageSize

GoFirstPage(r) == Go(r, "First", 0, PageSize) /\ UNCHANGED PageSize

GoLastPage(r) == Go(r, "Last", LastPage, PageSize) /\ UNCHANGED PageSize

(* The user selects another size.  CurrentStart is computed from PageSize  *)
(* and is told of the change first, so that the quotient is the number of  *)
(* the page shown: the page keeps its number, not its entries.             *)
SelectPageSize(r, newValue) ==
  /\ newValue # PageSize
  /\ Go(r, "Resize", (model.PageNumber * newValue) \div newValue, newValue)
  /\ PageSize' = newValue

Click(r) ==
  \/ GoNextPage(r) \/ GoPreviousPage(r) \/ GoFirstPage(r) \/ GoLastPage(r)
  \/ \E s \in PageSizes : SelectPageSize(r, s)

Serve(r) == Count(r) \/ GetJobHistory(r) \/ Answer(r)

Next == AddHistoryEntry \/ \E r \in Requests : Serve(r) \/ Fail(r) \/ Click(r)

(* Requests are answered or fail; users and agents owe nothing. *)
Spec == Init /\ [][Next]_vars /\ \A r \in Requests : WF_vars(Serve(r) \/ Fail(r))

-----------------------------------------------------------------------------
TypeOK ==
  /\ entries \in 0 .. MaxEntries
  /\ model \in JobHistoryModel \cup {NotLoaded}
  /\ PageSize \in PageSizes
  /\ inFlight \in [Requests -> Request \cup {NoRequest}]
  /\ clicks \in 0 .. MaxClicks

InFlight(kind) == {r \in Requests : inFlight[r] # NoRequest /\ inFlight[r].kind = kind}

(* The request asks for no more rows than the page shows.  It may ask for  *)
(* more if the answer to a larger size was outstanding at the click.       *)
NoLarger(q) == q.pageSize <= q.from.PageSize

(***************************************************************************)
(* HasNextPage: Next never asks for a page behind the last entry, in       *)
(* whatever order sizes, answers and new entries come.                     *)
(***************************************************************************)
NextFindsEntries ==
  \A r \in InFlight("Next") : inFlight[r].page * inFlight[r].pageSize < entries

(***************************************************************************)
(* The other ways to a page stay within the history, but for these.  A     *)
(* larger size keeps the number of the page, which may lie behind the end  *)
(* with it; so does Previous while the answer to that is outstanding, and  *)
(* from such a page Previous goes back one page only.  Last, when the      *)
(* count is a multiple of the size, asks for the page that begins where    *)
(* the entries end; Previous finds entries from there, and no page after   *)
(* the one Last asks for has entries of its count.                         *)
(***************************************************************************)
PagesStayInHistory ==
  /\ \A r \in InFlight("Resize") \cup InFlight("Previous") :
       LET q == inFlight[r]
       IN  q.from.JobHistory # {} /\ NoLarger(q) => q.page * q.pageSize < entries
  /\ \A r \in InFlight("Previous") :
       LET q == inFlight[r]
       IN  q.from.PageNumber * q.from.PageSize <= q.from.ResultCount /\ NoLarger(q)
             => q.page * q.pageSize < entries
  /\ \A r \in InFlight("Last") :
       LET q == inFlight[r]
       IN  /\ q.page * q.pageSize <= entries
           /\ (q.page + 1) * q.pageSize > q.from.ResultCount

(***************************************************************************)
(* Paging with Next finds rows, and skips no entry: the newest row of the  *)
(* next page is at most one older than the oldest row of the page it was   *)
(* asked from, although runs may have started since, and although another  *)
(* size may have been selected before the click and not answered yet.  The *)
(* exception is a larger size: the next page of the larger size does not   *)
(* begin where the page shown ends, and the entries in between are skipped.*)
(***************************************************************************)
NextLeavesNoGap ==
  [][\A r \in InFlight("Next") :
       LET from == inFlight[r].from
       IN  Answer(r) =>
             /\ model'.JobHistory # {}
             /\ from.JobHistory # {} /\ NoLarger(inFlight[r])
                  => Max(model'.JobHistory) >= Min(from.JobHistory) - 1]_vars

(***************************************************************************)
(* "No Previous Jobs" is what the page says when it shows no rows.  It is  *)
(* true of the first page; elsewhere it means that the page number lies    *)
(* behind the count.                                                       *)
(***************************************************************************)
NoRowsOnlyBehindTheEnd ==
  model # NotLoaded /\ model.JobHistory = {}
    => model.PageNumber * model.PageSize >= model.ResultCount

(***************************************************************************)
(* Answers cause no requests: when the user stops, the page comes to rest. *)
(***************************************************************************)
ComesToRest == <>[](\A r \in Requests : inFlight[r] = NoRequest)
=============================================================================
