------------------------- MODULE HistoryPagesProofs -------------------------
(***************************************************************************)
(* Theorems about HistoryPages, for every number of requests in flight,    *)
(* every choice of page sizes and every number of entries.                 *)
(***************************************************************************)
EXTENDS HistoryPages, DataLemmas

(***************************************************************************)
(* The inductive invariant.  What a page shows, and what a request brings, *)
(* are the rows of some moment at or after the count beside them; and a    *)
(* click's request is about the model it was made on.  Entries are only    *)
(* added, so that n, their number, can only grow.                          *)
(***************************************************************************)
Seen(m, n) ==
  \E n0 \in m.ResultCount .. n : m.JobHistory = Page(n0, m.PageNumber, m.PageSize)

ReadAt(q, n) ==
  /\ q.rows = Page(n, q.page, q.pageSize)
  /\ q.from # NotLoaded => Seen(q.from, n)

RequestKept(q, n) ==
  /\ q.from # NotLoaded => Seen(q.from, n)
  /\ q.kind # "Load" => q.from # NotLoaded
  /\ q.kind = "Next" => /\ q.page = q.from.PageNumber + 1
                        /\ q.page * q.pageSize < q.from.ResultCount
  /\ q.kind = "Previous" => q.page + 1 = q.from.PageNumber
  /\ q.kind = "Resize" => q.page = q.from.PageNumber
  /\ q.kind = "Last" => /\ q.page * q.pageSize <= q.from.ResultCount
                        /\ (q.page + 1) * q.pageSize > q.from.ResultCount
  /\ q.stage # "sent" => q.resultCount <= n
  /\ q.stage = "read" => \E k \in q.resultCount .. n : ReadAt(q, k)

PagesInv ==
  /\ TypeOK
  /\ model # NotLoaded => Seen(model, entries)
  /\ \A r \in Requests : inFlight[r] # NoRequest => RequestKept(inFlight[r], entries)

(***************************************************************************)
(* Arithmetic of pages.                                                    *)
(***************************************************************************)
LEMMA PageBounds ==
  ASSUME NEW page \in Nat, NEW size \in Nat \ {0}
  PROVE  /\ page * size \in Nat
         /\ (page + 1) * size = page * size + size
OBVIOUS

LEMMA SmallerPages ==
  ASSUME NEW page \in Nat, NEW size \in Nat, NEW larger \in Nat, size <= larger
  PROVE  page * size <= page * larger
<1>1. PICK d \in Nat : larger = size + d
  <2>1. larger - size \in Nat /\ larger = size + (larger - size)
    OBVIOUS
  <2> QED
    BY <2>1
<1>2. page * larger = page * size + page * d
  BY <1>1
<1>3. page * d \in Nat
  OBVIOUS
<1>4. page * size \in Nat
  OBVIOUS
<1> QED
  BY <1>2, <1>3, <1>4

LEMMA QuotientBounds ==
  ASSUME NEW count \in Nat, NEW size \in Nat \ {0}
  PROVE  /\ count \div size \in Nat
         /\ (count \div size) * size <= count
         /\ (count \div size + 1) * size > count
<1> DEFINE k == count \div size
           m == count % size
<1>1. k \in Int /\ m \in 0 .. (size - 1) /\ count = size * k + m
  OBVIOUS
<1> HIDE DEF k, m
<1>2. k >= 0
  <2>1. CASE k <= -1
    <3>1. size * k <= -size
      BY <2>1, <1>1
    <3> QED
      BY <3>1, <1>1
  <2> QED
    BY <2>1, <1>1
<1>3. k * size = size * k /\ (k + 1) * size = size * k + size
  BY <1>1
<1>4. k \in Nat /\ k * size <= count /\ (k + 1) * size > count
  BY <1>1, <1>2, <1>3
<1> QED
  BY <1>4 DEF k

LEMMA SamePage ==
  ASSUME NEW page \in Nat, NEW size \in Nat \ {0}
  PROVE  (page * size) \div size = page
<1>1. page * size = size * page + 0 /\ page * size \in Int /\ 0 \in 0 .. (size - 1)
  OBVIOUS
<1> QED
  BY <1>1, DivModUnique

(* A page that begins before the end has rows, and no other has. *)
LEMMA PageHasRows ==
  ASSUME NEW n \in Nat, NEW page \in Nat, NEW size \in Nat \ {0}
  PROVE  Page(n, page, size) # {} <=> page * size < n
<1> DEFINE start == page * size
           end == (page + 1) * size
<1>1. start \in Nat /\ end = start + size /\ end \in Nat
  BY PageBounds
<1>2. Page(n, page, size) = {e \in 1 .. n : n - e >= start /\ n - e < end}
  BY DEF Page
<1> HIDE DEF start, end
<1>3. ASSUME start < n PROVE Page(n, page, size) # {}
  <2>1. n - start \in 1 .. n /\ n - (n - start) = start
    BY <1>1, <1>3
  <2>2. n - start \in Page(n, page, size)
    BY <1>1, <1>2, <2>1
  <2> QED
    BY <2>2
<1>4. ASSUME Page(n, page, size) # {} PROVE start < n
  <2>1. PICK e \in Page(n, page, size) : TRUE
    BY <1>4
  <2> QED
    BY <1>1, <1>2, <2>1
<1> QED
  BY <1>3, <1>4 DEF start

(* The newest row of a page, and a bound on its oldest. *)
LEMMA NewestRow ==
  ASSUME NEW n \in Nat, NEW page \in Nat, NEW size \in Nat \ {0}, page * size < n
  PROVE  Max(Page(n, page, size)) = n - page * size
<1> DEFINE start == page * size
           end == (page + 1) * size
           rows == {e \in 1 .. n : n - e >= start /\ n - e < end}
<1>1. start \in Nat /\ end = start + size /\ end \in Nat
  BY PageBounds
<1>2. Page(n, page, size) = rows
  BY DEF Page
<1>0. start < n
  OBVIOUS
<1> HIDE DEF start, end
<1>3. n - start \in rows
  BY <1>0, <1>1
<1>4. \A e \in rows : n - start >= e /\ e \in Int
  BY <1>1
<1> HIDE DEF rows
<1>5. \A x \in rows : (\A y \in rows : x >= y) <=> x = n - start
  BY <1>1, <1>3, <1>4
<1>6. Max(rows) = n - start
  BY <1>3, <1>5 DEF Max
<1> QED
  BY <1>2, <1>6 DEF start

LEMMA OldestRow ==
  ASSUME NEW n \in Nat, NEW page \in Nat, NEW size \in Nat \ {0}, Page(n, page, size) # {}
  PROVE  \/ Min(Page(n, page, size)) = 1
         \/ Min(Page(n, page, size)) = n - (page + 1) * size + 1
<1> DEFINE start == page * size
           end == (page + 1) * size
           rows == {e \in 1 .. n : n - e >= start /\ n - e < end}
           low == IF n - end >= 0 THEN n - end + 1 ELSE 1
<1>1. start \in Nat /\ end = start + size /\ end \in Nat
  BY PageBounds
<1>2. Page(n, page, size) = rows
  BY DEF Page
<1>3. PICK e \in rows : TRUE
  BY <1>2
<1> HIDE DEF start, end
<1>4. low \in rows
  BY <1>1, <1>3
<1>5. \A x \in rows : low <= x /\ x \in Int
  BY <1>1
<1> HIDE DEF rows
<1>6. low \in Int
  BY <1>1
<1> HIDE DEF low
<1>7. \A x \in rows : (\A y \in rows : x =< y) <=> x = low
  BY <1>4, <1>5, <1>6
<1>8. Min(rows) = low
  BY <1>4, <1>7 DEF Min
<1> QED
  BY <1>2, <1>8 DEF low, end

-----------------------------------------------------------------------------
(***************************************************************************)
(* Types.                                                                  *)
(***************************************************************************)
LEMMA PageTyped ==
  ASSUME NEW n \in 0 .. MaxEntries, NEW page, NEW size
  PROVE  Page(n, page, size) \in SUBSET (1 .. MaxEntries)
BY HistoryBoundsAssumption DEF Page

LEMMA LoadTyped ==
  ASSUME TypeOK, NEW page \in Nat, NEW size \in PageSizes,
         NEW kind \in {"Load", "Next", "Previous", "First", "Last", "Resize"}
  PROVE  LoadJobHistory(kind, page, size) \in Request
BY HistoryBoundsAssumption DEF TypeOK, LoadJobHistory, Request

LEMMA ModelOfTyped == ASSUME NEW q \in Request PROVE ModelOf(q) \in JobHistoryModel
BY DEF ModelOf, Request, JobHistoryModel

LEMMA ModelTyped ==
  ASSUME TypeOK, model # NotLoaded
  PROVE  /\ model \in JobHistoryModel
         /\ model.PageNumber \in Nat /\ model.ResultCount \in 0 .. MaxEntries
         /\ model.PageSize \in PageSizes
BY DEF TypeOK, JobHistoryModel

CountedRequest(q) ==
  [kind |-> q.kind, page |-> q.page, pageSize |-> q.pageSize, from |-> q.from,
   stage |-> "counted", resultCount |-> entries, rows |-> q.rows]

ReadRequest(q) ==
  [kind |-> q.kind, page |-> q.page, pageSize |-> q.pageSize, from |-> q.from,
   stage |-> "read", resultCount |-> q.resultCount, rows |-> Page(entries, q.page, q.pageSize)]

LEMMA RequestCounted ==
  ASSUME NEW q \in Request, NEW stage, NEW value
  PROVE  [q EXCEPT !.stage = stage, !.resultCount = value] =
           [kind |-> q.kind, page |-> q.page, pageSize |-> q.pageSize, from |-> q.from,
            stage |-> stage, resultCount |-> value, rows |-> q.rows]
<1>1. PICK k, p, s, f, t, c, w :
        q = [kind |-> k, page |-> p, pageSize |-> s, from |-> f, stage |-> t,
             resultCount |-> c, rows |-> w]
  <2>1. q = [kind |-> q.kind, page |-> q.page, pageSize |-> q.pageSize, from |-> q.from,
             stage |-> q.stage, resultCount |-> q.resultCount, rows |-> q.rows]
    BY DEF Request
  <2> QED
    BY <2>1
<1>2. /\ q.kind = k /\ q.page = p /\ q.pageSize = s /\ q.from = f
      /\ q.resultCount = c /\ q.rows = w
  BY <1>1
<1> DEFINE u == [q EXCEPT !.stage = stage]
<1>3. u = [kind |-> k, page |-> p, pageSize |-> s, from |-> f, stage |-> stage,
           resultCount |-> c, rows |-> w]
  BY <1>1
<1>4. [q EXCEPT !.stage = stage, !.resultCount = value] = [u EXCEPT !.resultCount = value]
  OBVIOUS
<1> HIDE DEF u
<1>5. [u EXCEPT !.resultCount = value] =
        [kind |-> k, page |-> p, pageSize |-> s, from |-> f, stage |-> stage,
         resultCount |-> value, rows |-> w]
  BY <1>3
<1> QED
  BY <1>2, <1>4, <1>5

LEMMA RequestRead ==
  ASSUME NEW q \in Request, NEW stage, NEW value
  PROVE  [q EXCEPT !.stage = stage, !.rows = value] =
           [kind |-> q.kind, page |-> q.page, pageSize |-> q.pageSize, from |-> q.from,
            stage |-> stage, resultCount |-> q.resultCount, rows |-> value]
<1>1. PICK k, p, s, f, t, c, w :
        q = [kind |-> k, page |-> p, pageSize |-> s, from |-> f, stage |-> t,
             resultCount |-> c, rows |-> w]
  <2>1. q = [kind |-> q.kind, page |-> q.page, pageSize |-> q.pageSize, from |-> q.from,
             stage |-> q.stage, resultCount |-> q.resultCount, rows |-> q.rows]
    BY DEF Request
  <2> QED
    BY <2>1
<1>2. /\ q.kind = k /\ q.page = p /\ q.pageSize = s /\ q.from = f
      /\ q.resultCount = c /\ q.rows = w
  BY <1>1
<1> DEFINE u == [q EXCEPT !.stage = stage]
<1>3. u = [kind |-> k, page |-> p, pageSize |-> s, from |-> f, stage |-> stage,
           resultCount |-> c, rows |-> w]
  BY <1>1
<1>4. [q EXCEPT !.stage = stage, !.rows = value] = [u EXCEPT !.rows = value]
  OBVIOUS
<1> HIDE DEF u
<1>5. [u EXCEPT !.rows = value] =
        [kind |-> k, page |-> p, pageSize |-> s, from |-> f, stage |-> stage,
         resultCount |-> c, rows |-> value]
  BY <1>3
<1> QED
  BY <1>2, <1>4, <1>5

LEMMA CountMakes ==
  ASSUME TypeOK, NEW r \in Requests, Count(r)
  PROVE  /\ inFlight[r] \in Request /\ CountedRequest(inFlight[r]) \in Request
         /\ inFlight' = [inFlight EXCEPT ![r] = CountedRequest(inFlight[r])]
<1>1. inFlight[r] \in Request
  BY DEF Count, TypeOK
<1>2. CountedRequest(inFlight[r]) \in Request
  BY <1>1 DEF CountedRequest, Request, TypeOK
<1>3. [inFlight[r] EXCEPT !.stage = "counted", !.resultCount = entries] = CountedRequest(inFlight[r])
  BY <1>1, RequestCounted DEF CountedRequest
<1>4. inFlight' = [inFlight EXCEPT ![r] =
                     [inFlight[r] EXCEPT !.stage = "counted", !.resultCount = entries]]
  BY DEF Count
<1> QED
  BY <1>1, <1>2, <1>3, <1>4

LEMMA GetJobHistoryMakes ==
  ASSUME TypeOK, NEW r \in Requests, GetJobHistory(r)
  PROVE  /\ inFlight[r] \in Request /\ ReadRequest(inFlight[r]) \in Request
         /\ inFlight' = [inFlight EXCEPT ![r] = ReadRequest(inFlight[r])]
<1> DEFINE rows == Page(entries, inFlight[r].page, inFlight[r].pageSize)
<1>1. inFlight[r] \in Request
  BY DEF GetJobHistory, TypeOK
<1>2. rows \in SUBSET (1 .. MaxEntries)
  BY PageTyped DEF TypeOK
<1>4. inFlight' = [inFlight EXCEPT ![r] = [inFlight[r] EXCEPT !.stage = "read", !.rows = rows]]
  BY DEF GetJobHistory
<1>5. ReadRequest(inFlight[r]) =
        [kind |-> inFlight[r].kind, page |-> inFlight[r].page, pageSize |-> inFlight[r].pageSize,
         from |-> inFlight[r].from, stage |-> "read", resultCount |-> inFlight[r].resultCount,
         rows |-> rows]
  BY DEF ReadRequest
<1> HIDE DEF rows
<1>6. ReadRequest(inFlight[r]) \in Request
  BY <1>1, <1>2, <1>5 DEF Request
<1>7. [inFlight[r] EXCEPT !.stage = "read", !.rows = rows] = ReadRequest(inFlight[r])
  BY <1>1, <1>5, RequestRead
<1> QED
  BY <1>1, <1>4, <1>6, <1>7

(* What each click asks for. *)
LEMMA ClickMakes ==
  ASSUME TypeOK, NEW r \in Requests, Click(r)
  PROVE  \E kind \in {"Next", "Previous", "First", "Last", "Resize"}, page \in Nat,
            size \in PageSizes :
           /\ inFlight' = [inFlight EXCEPT ![r] = LoadJobHistory(kind, page, size)]
           /\ PageSize' = size
           /\ kind = "Next" => /\ page = model.PageNumber + 1
                               /\ page * size < model.ResultCount
           /\ kind = "Previous" => page + 1 = model.PageNumber
           /\ kind = "Resize" => page = model.PageNumber
           /\ kind = "Last" => /\ page * size <= model.ResultCount
                               /\ (page + 1) * size > model.ResultCount
<1>0. model # NotLoaded
  BY DEF Click, GoNextPage, GoPreviousPage, GoFirstPage, GoLastPage, SelectPageSize, Go
<1>1. /\ model.PageNumber \in Nat /\ model.ResultCount \in Nat
      /\ PageSize \in PageSizes /\ PageSizes \subseteq Nat \ {0}
  BY <1>0, ModelTyped, HistoryBoundsAssumption, PageSizesAssumption DEF TypeOK
<1> DEFINE K == {"Next", "Previous", "First", "Last", "Resize"}
           Asks(kind, page, size) ==
             /\ kind \in K /\ page \in Nat /\ size \in PageSizes
             /\ inFlight' = [inFlight EXCEPT ![r] = LoadJobHistory(kind, page, size)]
             /\ PageSize' = size
             /\ kind = "Next" => /\ page = model.PageNumber + 1
                                 /\ page * size < model.ResultCount
             /\ kind = "Previous" => page + 1 = model.PageNumber
             /\ kind = "Resize" => page = model.PageNumber
             /\ kind = "Last" => /\ page * size <= model.ResultCount
                                 /\ (page + 1) * size > model.ResultCount
<1>2. ASSUME GoNextPage(r) PROVE Asks("Next", model.PageNumber + 1, PageSize)
  <2>1. (model.PageNumber + 1) * PageSize = model.PageNumber * PageSize + PageSize
    BY <1>1, PageBounds
  <2>2. (model.PageNumber + 1) * PageSize < model.ResultCount
    BY <1>2, <2>1 DEF GoNextPage, HasNextPage, CurrentStart
  <2>3. /\ inFlight' = [inFlight EXCEPT ![r] = LoadJobHistory("Next", model.PageNumber + 1, PageSize)]
        /\ PageSize' = PageSize
    BY <1>2 DEF GoNextPage, Go
  <2> QED
    BY <1>1, <2>2, <2>3
<1>3. ASSUME GoPreviousPage(r) PROVE Asks("Previous", model.PageNumber - 1, PageSize)
  <2>1. model.PageNumber - 1 \in Nat /\ (model.PageNumber - 1) + 1 = model.PageNumber
    BY <1>1, <1>3 DEF GoPreviousPage, HasPreviousPage
  <2> QED
    BY <1>1, <1>3, <2>1 DEF GoPreviousPage, Go
<1>4. ASSUME GoFirstPage(r) PROVE Asks("First", 0, PageSize)
  BY <1>1, <1>4 DEF GoFirstPage, Go
<1>5. ASSUME GoLastPage(r) PROVE Asks("Last", LastPage, PageSize)
  <2>1. /\ LastPage \in Nat /\ LastPage * PageSize <= model.ResultCount
        /\ (LastPage + 1) * PageSize > model.ResultCount
    BY <1>1, QuotientBounds DEF LastPage
  <2>2. /\ inFlight' = [inFlight EXCEPT ![r] = LoadJobHistory("Last", LastPage, PageSize)]
        /\ PageSize' = PageSize
    BY <1>5 DEF GoLastPage, Go
  <2> QED
    BY <1>1, <2>1, <2>2
<1>6. ASSUME NEW s \in PageSizes, SelectPageSize(r, s) PROVE Asks("Resize", model.PageNumber, s)
  <2>1. (model.PageNumber * s) \div s = model.PageNumber
    BY <1>1, SamePage
  <2>2. /\ inFlight' = [inFlight EXCEPT ![r] =
                          LoadJobHistory("Resize", (model.PageNumber * s) \div s, s)]
        /\ PageSize' = s
    BY <1>6 DEF SelectPageSize, Go
  <2> QED
    BY <1>1, <2>1, <2>2
<1>7. PICK kind, page, size : Asks(kind, page, size)
  BY <1>2, <1>3, <1>4, <1>5, <1>6 DEF Click
<1> QED
  BY <1>7

LEMMA ClickLeaves ==
  ASSUME TypeOK, NEW r \in Requests, Click(r)
  PROVE  /\ entries' = entries /\ model' = model /\ model # NotLoaded
         /\ clicks' = clicks + 1 /\ clicks < MaxClicks
BY DEF Click, GoNextPage, GoPreviousPage, GoFirstPage, GoLastPage, SelectPageSize, Go

LEMMA TypeKept == TypeOK /\ [Next]_vars => TypeOK'
<1> SUFFICES ASSUME TypeOK, [Next]_vars PROVE TypeOK'
  OBVIOUS
<1> USE DEF TypeOK
<1>1. CASE AddHistoryEntry
  BY <1>1, HistoryBoundsAssumption DEF AddHistoryEntry
<1>2. ASSUME NEW r \in Requests, Count(r) PROVE TypeOK'
  BY <1>2, CountMakes DEF Count
<1>3. ASSUME NEW r \in Requests, GetJobHistory(r) PROVE TypeOK'
  BY <1>3, GetJobHistoryMakes DEF GetJobHistory
<1>4. ASSUME NEW r \in Requests, Answer(r) PROVE TypeOK'
  <2>1. inFlight[r] \in Request /\ inFlight[r].pageSize \in PageSizes
    BY <1>4 DEF Answer, Answered, Request
  <2> QED
    BY <1>4, <2>1, ModelOfTyped DEF Answer, Answered
<1>5. ASSUME NEW r \in Requests, Fail(r) PROVE TypeOK'
  BY <1>5 DEF Fail
<1>6. ASSUME NEW r \in Requests, Click(r) PROVE TypeOK'
  <2>1. PICK kind \in {"Next", "Previous", "First", "Last", "Resize"}, page \in Nat,
             size \in PageSizes :
          /\ inFlight' = [inFlight EXCEPT ![r] = LoadJobHistory(kind, page, size)]
          /\ PageSize' = size
    BY <1>6, ClickMakes
  <2>2. LoadJobHistory(kind, page, size) \in Request
    BY LoadTyped
  <2> QED
    BY <1>6, <2>1, <2>2, ClickLeaves, HistoryBoundsAssumption
<1>7. CASE UNCHANGED vars
  BY <1>7 DEF vars
<1> QED
  BY <1>1, <1>2, <1>3, <1>4, <1>5, <1>6, <1>7 DEF Next, Serve

-----------------------------------------------------------------------------
(***************************************************************************)
(* What is known of a model or a request stays true as entries are added.  *)
(***************************************************************************)
LEMMA SeenLater ==
  ASSUME NEW m \in JobHistoryModel, NEW n \in Nat, NEW k \in Nat, n <= k, Seen(m, n)
  PROVE  Seen(m, k)
BY HistoryBoundsAssumption DEF Seen, JobHistoryModel

LEMMA RequestKeptLater ==
  ASSUME NEW q \in Request, NEW n \in Nat, NEW k \in Nat, n <= k, RequestKept(q, n)
  PROVE  RequestKept(q, k)
<1>1. q.from # NotLoaded => Seen(q.from, k)
  BY SeenLater DEF RequestKept, Request
<1>2. q.resultCount \in Nat
  BY HistoryBoundsAssumption DEF Request
<1>3. q.stage # "sent" => q.resultCount <= k
  BY <1>2 DEF RequestKept
<1>4. q.stage = "read" => \E j \in q.resultCount .. k : ReadAt(q, j)
  BY <1>2 DEF RequestKept
<1> QED
  BY <1>1, <1>3, <1>4 DEF RequestKept

LEMMA OneRequestKept ==
  ASSUME PagesInv, NEW r \in Requests, NEW q,
         inFlight' = [inFlight EXCEPT ![r] = q],
         entries' = entries, q # NoRequest => RequestKept(q, entries)
  PROVE  \A s \in Requests : inFlight'[s] # NoRequest => RequestKept(inFlight'[s], entries')
<1> SUFFICES ASSUME NEW s \in Requests, inFlight'[s] # NoRequest
             PROVE  RequestKept(inFlight'[s], entries')
  OBVIOUS
<1>1. inFlight'[s] = IF s = r THEN q ELSE inFlight[s]
  BY DEF PagesInv, TypeOK
<1> QED
  BY <1>1 DEF PagesInv

LEMMA InitPagesInv == Init => PagesInv
<1> SUFFICES ASSUME Init PROVE PagesInv
  OBVIOUS
<1>1. model = NotLoaded /\ entries \in 0 .. MaxEntries /\ PageSize \in PageSizes /\ clicks \in 0 .. MaxClicks
  BY PageSizesAssumption, HistoryBoundsAssumption DEF Init
<1> DEFINE q == [kind |-> "Load", page |-> 0, pageSize |-> DefaultPageSize, from |-> NotLoaded,
                 stage |-> "sent", resultCount |-> 0, rows |-> {}]
<1>2. PICK r \in Requests : inFlight = [s \in Requests |-> IF s = r THEN q ELSE NoRequest]
  BY <1>1 DEF Init, LoadJobHistory
<1>3. q \in Request
  BY PageSizesAssumption, HistoryBoundsAssumption DEF Request
<1>4. RequestKept(q, entries)
  BY DEF RequestKept
<1> HIDE DEF q
<1>5. TypeOK
  BY <1>1, <1>2, <1>3 DEF TypeOK
<1> QED
  BY <1>1, <1>2, <1>4, <1>5 DEF PagesInv

LEMMA PagesInvKept == PagesInv /\ [Next]_vars => PagesInv'
<1> SUFFICES ASSUME PagesInv, [Next]_vars PROVE PagesInv'
  OBVIOUS
<1>0. TypeOK /\ TypeOK' /\ entries \in Nat
  BY TypeKept, HistoryBoundsAssumption DEF PagesInv, TypeOK
<1> DEFINE RequestsKept ==
             \A s \in Requests : inFlight'[s] # NoRequest => RequestKept(inFlight'[s], entries')
           ModelKept == model' # NotLoaded => Seen(model', entries')
<1> SUFFICES RequestsKept /\ ModelKept
  BY <1>0 DEF PagesInv
<1>1. CASE AddHistoryEntry
  <2>1. inFlight' = inFlight /\ model' = model /\ entries' = entries + 1
    BY <1>1 DEF AddHistoryEntry
  <2>2. ASSUME NEW s \in Requests, inFlight[s] # NoRequest
        PROVE  RequestKept(inFlight[s], entries + 1)
    BY <1>0, <2>2, RequestKeptLater DEF PagesInv, TypeOK
  <2>3. model # NotLoaded => Seen(model, entries + 1)
    BY <1>0, SeenLater DEF PagesInv, TypeOK
  <2> QED
    BY <2>1, <2>2, <2>3
<1>2. ASSUME NEW r \in Requests, Count(r) PROVE RequestsKept /\ ModelKept
  <2> DEFINE q == inFlight[r]
  <2>1. /\ q \in Request /\ inFlight' = [inFlight EXCEPT ![r] = CountedRequest(q)]
        /\ RequestKept(q, entries) /\ entries' = entries /\ model' = model
    BY <1>0, <1>2, CountMakes DEF Count, PagesInv
  <2>2. RequestKept(CountedRequest(q), entries)
    BY <1>0, <2>1 DEF RequestKept, CountedRequest
  <2> QED
    BY <2>1, <2>2, OneRequestKept DEF PagesInv
<1>3. ASSUME NEW r \in Requests, GetJobHistory(r) PROVE RequestsKept /\ ModelKept
  <2> DEFINE q == inFlight[r]
  <2>1. /\ q \in Request /\ inFlight' = [inFlight EXCEPT ![r] = ReadRequest(q)]
        /\ RequestKept(q, entries) /\ entries' = entries /\ model' = model
        /\ q.stage = "counted"
    BY <1>0, <1>3, GetJobHistoryMakes DEF GetJobHistory, PagesInv
  <2>2. q.resultCount \in Nat /\ q.resultCount <= entries
    BY <2>1, HistoryBoundsAssumption DEF Request, RequestKept
  <2>3. ReadAt(ReadRequest(q), entries) /\ entries \in q.resultCount .. entries
    BY <1>0, <2>1, <2>2 DEF ReadAt, ReadRequest, RequestKept
  <2>4. \E k \in ReadRequest(q).resultCount .. entries : ReadAt(ReadRequest(q), k)
    BY <2>3 DEF ReadRequest
  <2>5. RequestKept(ReadRequest(q), entries)
    BY <2>1, <2>2, <2>4 DEF RequestKept, ReadRequest
  <2> QED
    BY <2>1, <2>5, OneRequestKept DEF PagesInv
<1>4. ASSUME NEW r \in Requests, Answer(r) PROVE RequestsKept /\ ModelKept
  <2>1. /\ inFlight[r] \in Request /\ RequestKept(inFlight[r], entries)
        /\ inFlight[r].stage = "read" /\ model' = ModelOf(inFlight[r]) /\ entries' = entries
    BY <1>0, <1>4 DEF Answer, Answered, PagesInv, TypeOK
  <2>2. PICK k \in inFlight[r].resultCount .. entries : ReadAt(inFlight[r], k)
    BY <2>1 DEF RequestKept
  <2>3. Seen(ModelOf(inFlight[r]), entries)
    BY <2>2 DEF ReadAt, Seen, ModelOf
  <2>4. RequestsKept
    BY <1>4, <2>1, OneRequestKept DEF Answer
  <2> QED
    BY <2>1, <2>3, <2>4
<1>5. ASSUME NEW r \in Requests, Fail(r) PROVE RequestsKept /\ ModelKept
  BY <1>5, OneRequestKept DEF Fail, PagesInv
<1>6. ASSUME NEW r \in Requests, Click(r) PROVE RequestsKept /\ ModelKept
  <2>1. PICK kind \in {"Next", "Previous", "First", "Last", "Resize"}, page \in Nat,
             size \in PageSizes :
          /\ inFlight' = [inFlight EXCEPT ![r] = LoadJobHistory(kind, page, size)]
          /\ kind = "Next" => /\ page = model.PageNumber + 1
                              /\ page * size < model.ResultCount
          /\ kind = "Previous" => page + 1 = model.PageNumber
          /\ kind = "Resize" => page = model.PageNumber
          /\ kind = "Last" => /\ page * size <= model.ResultCount
                              /\ (page + 1) * size > model.ResultCount
    BY <1>0, <1>6, ClickMakes
  <2>2. entries' = entries /\ model' = model /\ model # NotLoaded /\ Seen(model, entries)
    BY <1>0, <1>6, ClickLeaves DEF PagesInv
  <2>3. RequestKept(LoadJobHistory(kind, page, size), entries)
    BY <2>1, <2>2 DEF RequestKept, LoadJobHistory
  <2> QED
    BY <2>1, <2>2, <2>3, OneRequestKept
<1>7. CASE UNCHANGED vars
  BY <1>7 DEF vars, PagesInv
<1> QED
  BY <1>1, <1>2, <1>3, <1>4, <1>5, <1>6, <1>7 DEF Next, Serve

-----------------------------------------------------------------------------
LEMMA PagesInvariant == Spec => []PagesInv
<1> QED
  BY InitPagesInv, PagesInvKept, PTL DEF Spec

(***************************************************************************)
(* TypeOK, of every reachable state.                                       *)
(***************************************************************************)
THEOREM PagesTypeCorrect == Spec => []TypeOK
<1>1. PagesInv => TypeOK
  BY DEF PagesInv
<1> QED
  BY <1>1, PagesInvariant, PTL

(* What a request's model has counted and shown exists. *)
LEMMA RequestFacts ==
  ASSUME PagesInv, NEW r \in Requests, inFlight[r] # NoRequest, inFlight[r].kind # "Load"
  PROVE  /\ inFlight[r] \in Request /\ RequestKept(inFlight[r], entries)
         /\ inFlight[r].page \in Nat /\ inFlight[r].pageSize \in Nat \ {0}
         /\ inFlight[r].from \in JobHistoryModel /\ inFlight[r].from # NotLoaded
         /\ inFlight[r].from.ResultCount \in Nat /\ inFlight[r].from.PageNumber \in Nat
         /\ inFlight[r].from.PageSize \in Nat \ {0}
         /\ entries \in Nat
         /\ Seen(inFlight[r].from, entries)
         /\ inFlight[r].from.ResultCount <= entries
<1>1. inFlight[r] \in Request /\ RequestKept(inFlight[r], entries) /\ entries \in Nat
  BY HistoryBoundsAssumption DEF PagesInv, TypeOK
<1>2. inFlight[r].from \in JobHistoryModel /\ inFlight[r].from # NotLoaded
  BY <1>1 DEF RequestKept, Request
<1>3. /\ inFlight[r].page \in Nat /\ inFlight[r].pageSize \in Nat \ {0}
  BY <1>1, PageSizesAssumption DEF Request
<1>4. /\ inFlight[r].from.ResultCount \in Nat /\ inFlight[r].from.PageNumber \in Nat
      /\ inFlight[r].from.PageSize \in Nat \ {0}
  <2>1. \A m \in JobHistoryModel :
          m.ResultCount \in 0 .. MaxEntries /\ m.PageNumber \in Nat /\ m.PageSize \in PageSizes
    BY DEF JobHistoryModel
  <2>2. 0 .. MaxEntries \subseteq Nat /\ PageSizes \subseteq Nat \ {0}
    BY PageSizesAssumption, HistoryBoundsAssumption
  <2> QED
    BY <1>2, <2>1, <2>2, Zenon
<1>5. Seen(inFlight[r].from, entries)
  BY <1>1, <1>2 DEF RequestKept
<1>6. inFlight[r].from.ResultCount <= entries
  BY <1>1, <1>4, <1>5 DEF Seen
<1> QED
  BY <1>1, <1>2, <1>3, <1>4, <1>5, <1>6

(***************************************************************************)
(* HasNextPage: Next never asks for a page behind the last entry.          *)
(***************************************************************************)
THEOREM NextNeverPassesTheEnd == Spec => []NextFindsEntries
<1>1. PagesInv => NextFindsEntries
  <2> SUFFICES ASSUME PagesInv, NEW r \in Requests, inFlight[r] # NoRequest,
                      inFlight[r].kind = "Next"
               PROVE  inFlight[r].page * inFlight[r].pageSize < entries
    BY DEF NextFindsEntries, InFlight
  <2> DEFINE start == inFlight[r].page * inFlight[r].pageSize
  <2>1. /\ RequestKept(inFlight[r], entries) /\ entries \in Nat
        /\ inFlight[r].page \in Nat /\ inFlight[r].pageSize \in Nat \ {0}
        /\ inFlight[r].from.ResultCount \in Nat
        /\ inFlight[r].from.ResultCount <= entries
    BY RequestFacts
  <2>2. start \in Nat /\ start < inFlight[r].from.ResultCount
    BY <2>1 DEF RequestKept
  <2> HIDE DEF start
  <2>3. start < entries
    BY <2>1, <2>2
  <2> QED
    BY <2>3 DEF start
<1> QED
  BY <1>1, PagesInvariant, PTL

(* The order of numbers of entries, without the products they stand for.   *)
LEMMA PageOfStepDown ==
  ASSUME NEW start \in Nat, NEW before \in Nat, NEW size \in Nat \ {0}, NEW shown,
         start <= before, shown = before + size
  PROVE  start < shown
OBVIOUS

LEMMA CountedBound ==
  ASSUME NEW before \in Nat, NEW size \in Nat \ {0}, NEW shown, shown = before + size,
         NEW counted \in Nat, NEW all \in Nat, shown <= counted, counted <= all
  PROVE  shown <= all /\ shown \in Nat
OBVIOUS

LEMMA StrictlyBelow ==
  ASSUME NEW start \in Nat, NEW shown \in Nat, NEW all \in Nat,
         start < shown, shown <= all
  PROVE  start < all
OBVIOUS

LEMMA BelowAll ==
  ASSUME NEW start \in Nat, NEW between \in Nat, NEW shown \in Nat,
         NEW counted \in Nat, NEW all \in Nat,
         start <= between, between <= shown, shown < counted, counted <= all
  PROVE  start < all
OBVIOUS

(* A page that has rows begins before the entries end, and in a smaller    *)
(* size the page of that number, and each before it, begins no later.      *)
LEMMA NoLaterPage ==
  ASSUME PagesInv, NEW r \in Requests, inFlight[r] # NoRequest,
         inFlight[r].kind \in {"Resize", "Previous"},
         inFlight[r].from.JobHistory # {}, NoLarger(inFlight[r])
  PROVE  inFlight[r].page * inFlight[r].pageSize < entries
<1> DEFINE q == inFlight[r]
           from == inFlight[r].from
           start == q.page * q.pageSize
           shown == from.PageNumber * from.PageSize
<1>1. /\ RequestKept(q, entries) /\ entries \in Nat
      /\ q.page \in Nat /\ q.pageSize \in Nat \ {0}
      /\ from.ResultCount \in Nat /\ from.PageNumber \in Nat
      /\ from.PageSize \in Nat \ {0} /\ Seen(from, entries)
  BY RequestFacts
<1>2. q.pageSize <= from.PageSize
  BY DEF NoLarger
<1>3. PICK n \in from.ResultCount .. entries :
        from.JobHistory = Page(n, from.PageNumber, from.PageSize)
  BY <1>1 DEF Seen
<1>4. n \in Nat /\ n <= entries
  BY <1>1, <1>3
<1>5. shown < n
  BY <1>1, <1>3, <1>4, PageHasRows
<1>6. q.page <= from.PageNumber
  BY <1>1 DEF RequestKept
<1>7. start <= q.page * from.PageSize
  BY <1>1, <1>2, SmallerPages
<1>8. from.PageSize * q.page <= from.PageSize * from.PageNumber
  BY <1>1, <1>6, SmallerPages
<1>9. /\ from.PageSize * q.page = q.page * from.PageSize
      /\ from.PageSize * from.PageNumber = shown
  BY <1>1
<1>10. start \in Nat /\ q.page * from.PageSize \in Nat /\ shown \in Nat
  BY <1>1, PageBounds
<1> DEFINE between == q.page * from.PageSize
<1>11. start <= between /\ between <= shown
  BY <1>7, <1>8, <1>9
<1>12. between \in Nat
  BY <1>10
<1> HIDE DEF between, start, shown
<1>13. start < entries
  BY <1>1, <1>4, <1>5, <1>10, <1>11, <1>12, BelowAll
<1> QED
  BY <1>13 DEF start

(* From a page that begins where the counted entries end, or before, the   *)
(* page before it begins before they end.                                  *)
LEMMA PreviousPage ==
  ASSUME PagesInv, NEW r \in Requests, inFlight[r] # NoRequest,
         inFlight[r].kind = "Previous", NoLarger(inFlight[r]),
         inFlight[r].from.PageNumber * inFlight[r].from.PageSize <= inFlight[r].from.ResultCount
  PROVE  inFlight[r].page * inFlight[r].pageSize < entries
<1> DEFINE q == inFlight[r]
           from == inFlight[r].from
           start == q.page * q.pageSize
           before == q.page * from.PageSize
           shown == from.PageNumber * from.PageSize
<1>1. /\ RequestKept(q, entries) /\ entries \in Nat
      /\ q.page \in Nat /\ q.pageSize \in Nat \ {0}
      /\ from.ResultCount \in Nat /\ from.PageNumber \in Nat
      /\ from.PageSize \in Nat \ {0}
      /\ from.ResultCount <= entries
  BY RequestFacts
<1>2. q.pageSize <= from.PageSize
  BY DEF NoLarger
<1>3. from.PageNumber = q.page + 1
  BY <1>1 DEF RequestKept
<1>4. start <= before
  BY <1>1, <1>2, SmallerPages
<1>5. before \in Nat /\ shown = before + from.PageSize
  BY <1>1, <1>3, PageBounds
<1>6. start \in Nat
  BY <1>1, PageBounds
<1>7. shown <= from.ResultCount
  OBVIOUS
<1> HIDE DEF start, before, shown
<1>8. start < shown
  BY <1>1, <1>4, <1>5, <1>6, PageOfStepDown
<1>9. shown <= entries /\ shown \in Nat
  BY <1>1, <1>5, <1>7, CountedBound
<1>10. start < entries
  BY <1>1, <1>6, <1>8, <1>9, StrictlyBelow
<1> QED
  BY <1>10 DEF start

LEMMA LastStays ==
  ASSUME PagesInv, NEW r \in Requests, inFlight[r] # NoRequest, inFlight[r].kind = "Last"
  PROVE  /\ inFlight[r].page * inFlight[r].pageSize <= entries
         /\ (inFlight[r].page + 1) * inFlight[r].pageSize > inFlight[r].from.ResultCount
<1> DEFINE q == inFlight[r]
           from == inFlight[r].from
           start == q.page * q.pageSize
<1>1. /\ RequestKept(q, entries) /\ entries \in Nat
      /\ q.page \in Nat /\ q.pageSize \in Nat \ {0}
      /\ from.ResultCount \in Nat /\ from.ResultCount <= entries
  BY RequestFacts
<1>2. start <= from.ResultCount /\ (q.page + 1) * q.pageSize > from.ResultCount
  BY <1>1 DEF RequestKept
<1>3. start \in Nat
  BY <1>1, PageBounds
<1> HIDE DEF start
<1>4. start <= entries
  BY <1>1, <1>2, <1>3
<1> QED
  BY <1>2, <1>4 DEF start

(***************************************************************************)
(* The other ways to a page.  A size no larger than that of the page shown *)
(* asks, from rows, for a page that has entries, and so does Previous;     *)
(* Previous does so from a page without rows as well, if that begins no    *)
(* later than where the counted entries end.  Last's page begins at the    *)
(* latest where they end, and no row of the count lies behind it.  Of a    *)
(* larger size the theorem says nothing: it may ask behind the end.        *)
(***************************************************************************)
THEOREM ClicksStayInHistory == Spec => []PagesStayInHistory
<1>1. PagesInv => PagesStayInHistory
  <2> SUFFICES ASSUME PagesInv PROVE PagesStayInHistory
    OBVIOUS
  <2>1. \A r \in InFlight("Resize") \cup InFlight("Previous") :
          inFlight[r].from.JobHistory # {} /\ NoLarger(inFlight[r])
            => inFlight[r].page * inFlight[r].pageSize < entries
    BY NoLaterPage DEF InFlight
  <2>2. \A r \in InFlight("Previous") :
          LET q == inFlight[r]
          IN  q.from.PageNumber * q.from.PageSize <= q.from.ResultCount /\ NoLarger(q)
                => q.page * q.pageSize < entries
    BY PreviousPage DEF InFlight
  <2>3. \A r \in InFlight("Last") :
          /\ inFlight[r].page * inFlight[r].pageSize <= entries
          /\ (inFlight[r].page + 1) * inFlight[r].pageSize > inFlight[r].from.ResultCount
    BY LastStays DEF InFlight
  <2> QED
    BY <2>1, <2>2, <2>3, Zenon DEF PagesStayInHistory
<1> QED
  BY <1>1, PagesInvariant, PTL

(***************************************************************************)
(* No rows are shown only when the page number lies behind the count.      *)
(***************************************************************************)
THEOREM EmptyPagesLieBehindTheEnd == Spec => []NoRowsOnlyBehindTheEnd
<1>1. PagesInv => NoRowsOnlyBehindTheEnd
  <2> SUFFICES ASSUME PagesInv, model # NotLoaded, model.JobHistory = {}
               PROVE  model.PageNumber * model.PageSize >= model.ResultCount
    BY DEF NoRowsOnlyBehindTheEnd
  <2> DEFINE start == model.PageNumber * model.PageSize
  <2>1. /\ model.PageNumber \in Nat /\ model.ResultCount \in Nat
        /\ model.PageSize \in Nat \ {0} /\ entries \in Nat
    <3>1. TypeOK
      BY DEF PagesInv
    <3>2. entries \in Nat
      BY <3>1, HistoryBoundsAssumption DEF TypeOK
    <3>3. 0 .. MaxEntries \subseteq Nat /\ PageSizes \subseteq Nat \ {0}
      BY PageSizesAssumption, HistoryBoundsAssumption
    <3> QED
      BY <3>1, <3>2, <3>3, ModelTyped, Zenon
  <2>2. PICK n \in model.ResultCount .. entries :
          model.JobHistory = Page(n, model.PageNumber, model.PageSize)
    BY DEF PagesInv, Seen
  <2>3. n \in Nat /\ model.ResultCount <= n
    BY <2>1, <2>2
  <2>4. start \in Nat /\ ~(start < n)
    BY <2>1, <2>2, <2>3, PageHasRows
  <2> HIDE DEF start
  <2>5. start >= model.ResultCount
    BY <2>1, <2>3, <2>4
  <2> QED
    BY <2>5 DEF start
<1> QED
  BY <1>1, PagesInvariant, PTL

(* The rows that answer a click on Next.  The page asked for begins before *)
(* the count ends, so there are some; and unless the size has grown, it    *)
(* begins no later than where the page it was asked from ends.             *)
LEMMA NextFollows ==
  ASSUME PagesInv, NEW r \in Requests, inFlight[r] # NoRequest, inFlight[r].kind = "Next",
         Answer(r)
  PROVE  LET from == inFlight[r].from
         IN  /\ model'.JobHistory # {}
             /\ from.JobHistory # {} /\ NoLarger(inFlight[r])
                  => Max(model'.JobHistory) >= Min(from.JobHistory) - 1
<1> DEFINE q == inFlight[r]
           from == inFlight[r].from
           start == q.page * q.pageSize
           end == (from.PageNumber + 1) * from.PageSize
<1>1. /\ RequestKept(q, entries) /\ entries \in Nat /\ q \in Request
      /\ q.page \in Nat /\ q.pageSize \in Nat \ {0}
      /\ from # NotLoaded
      /\ from.ResultCount \in Nat /\ from.PageNumber \in Nat /\ from.PageSize \in Nat \ {0}
  BY RequestFacts
<1>2. q.stage = "read" /\ model'.JobHistory = q.rows
  BY DEF Answer, Answered, ModelOf
<1>3. q.resultCount \in Nat
  BY <1>1, HistoryBoundsAssumption DEF Request
<1>4. PICK k \in q.resultCount .. entries : ReadAt(q, k)
  BY <1>1, <1>2 DEF RequestKept
<1>5. q.rows = Page(k, q.page, q.pageSize) /\ Seen(from, k)
  BY <1>1, <1>4 DEF ReadAt
<1>6. PICK n \in from.ResultCount .. k :
        from.JobHistory = Page(n, from.PageNumber, from.PageSize)
  BY <1>5 DEF Seen
<1>7. k \in Nat /\ n \in Nat /\ from.ResultCount <= n /\ n <= k
  BY <1>1, <1>3, <1>4, <1>6
<1>8. q.page = from.PageNumber + 1 /\ start < from.ResultCount /\ start \in Nat
  BY <1>1, PageBounds DEF RequestKept
<1>9. start < k
  <2> HIDE DEF start
  <2> QED
    BY <1>1, <1>7, <1>8
<1>10. Max(q.rows) = k - start
  BY <1>1, <1>5, <1>7, <1>9, NewestRow
<1>11. q.rows # {}
  BY <1>1, <1>5, <1>7, <1>9, PageHasRows
<1>12. ASSUME from.JobHistory # {}, q.pageSize <= from.PageSize
       PROVE  k - start >= Min(from.JobHistory) - 1
  <2>1. Min(from.JobHistory) = 1 \/ Min(from.JobHistory) = n - end + 1
    <3>1. Page(n, from.PageNumber, from.PageSize) = from.JobHistory
      BY <1>6
    <3> HIDE DEF from, q
    <3> QED
      BY <1>1, <1>7, <1>12, <3>1, OldestRow
  <2>2. start <= end
    BY <1>1, <1>8, <1>12, SmallerPages
  <2>3. end \in Nat
    BY <1>1, PageBounds
  <2> HIDE DEF start, end
  <2> QED
    BY <1>7, <1>8, <1>9, <2>1, <2>2, <2>3
<1> QED
  BY <1>2, <1>10, <1>11, <1>12 DEF NoLarger

(***************************************************************************)
(* Paging with Next finds rows, in whatever order sizes are selected and   *)
(* answers come; and it skips no entry, although runs may start between    *)
(* the answer that shows a page and the one that brings the next, unless a *)
(* larger size than that of the page shown was selected before the click.  *)
(***************************************************************************)
THEOREM NextSkipsNothing == Spec => NextLeavesNoGap
<1>1. PagesInv /\ [Next]_vars =>
        [\A r \in InFlight("Next") :
           LET from == inFlight[r].from
           IN  Answer(r) =>
                 /\ model'.JobHistory # {}
                 /\ from.JobHistory # {} /\ NoLarger(inFlight[r])
                      => Max(model'.JobHistory) >= Min(from.JobHistory) - 1]_vars
  BY NextFollows DEF InFlight
<1> QED
  BY <1>1, PagesInvariant, PTL DEF Spec, NextLeavesNoGap
=============================================================================
