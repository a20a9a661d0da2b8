---------------------------- MODULE SearchTable ----------------------------
(***************************************************************************)
(* SearchTableManager.CreateTablesAsync, for one saved search: the search  *)
(* is read in pages, and the documents found are copied into a table whose *)
(* primary key is the document, while users work: documents enter and      *)
(* leave the search between any two pages.                                 *)
(*                                                                         *)
(* Relativity's object manager is external: QuerySlimAsync returns, in the *)
(* order of the artifacts' ids, the objects from a position on that are in *)
(* the search when it is called.  Module ScriptExecution has the whole as  *)
(* one step, FillTable, or an exception.                                   *)
(***************************************************************************)
EXTENDS Integers, SequencesExt

CONSTANTS
  Documents,                \* ArtifactIDs
  ObjectManagerQueryBatch,
  BulkCopyBatch,
  MaxChanges                \* bound on the changes of the search

ASSUME DocumentsAssumption == Documents \subseteq Nat /\ IsFiniteSet(Documents)
ASSUME BatchAssumption ==
  ObjectManagerQueryBatch \in Nat \ {0} /\ BulkCopyBatch \in Nat /\ MaxChanges \in Nat

VARIABLES
  search,    \* the documents in the search now
  pc,
  position,
  results,   \* results.Objects of the last query
  rows,      \* table.Rows, not yet copied
  table,     \* the table in the workspace database
  seen,      \* documents that were in the search at some time of the fill
  stayed,    \* documents that have been in it all the time
  enters,    \* how often a document has entered it
  leaves     \* how often one has left it

users == <<search, seen, stayed, enters, leaves>>
vars == <<users, pc, position, results, rows, table>>

(* QuerySlimAsync: at most a batch of the search's objects, from start on. *)
(* An object's place is one more than the number of those before it.       *)
Before(d) == Cardinality({e \in search : e < d})

ObjectAt(n) == CHOOSE d \in search : Before(d) = n - 1

QuerySlim(start) ==
  [n \in 1 .. Min({ObjectManagerQueryBatch, Cardinality(search) - start + 1}) |->
     ObjectAt(start + n - 1)]

Init ==
  /\ search \in SUBSET Documents
  /\ pc = "Query" /\ position = 1
  /\ results = <<>> /\ rows = <<>> /\ table = {}
  /\ seen = search /\ stayed = search /\ enters = 0 /\ leaves = 0

(* Users change documents, or the search. *)
Filling == pc \in {"Query", "Read"} /\ enters + leaves < MaxChanges

Enter(d) ==
  /\ Filling /\ d \notin search
  /\ search' = search \cup {d} /\ seen' = seen \cup {d}
  /\ enters' = enters + 1
  /\ UNCHANGED <<pc, position, results, rows, table, stayed, leaves>>

Leave(d) ==
  /\ Filling /\ d \in search
  /\ search' = search \ {d} /\ stayed' = stayed \ {d}
  /\ leaves' = leaves + 1
  /\ UNCHANGED <<pc, position, results, rows, table, seen, enters>>

Query ==
  /\ pc = "Query"
  /\ results' = QuerySlim(position)
  /\ pc' = "Read"
  /\ UNCHANGED <<users, position, rows, table>>

(* BulkInsertResults copies all rows or, if one of them breaks the primary *)
(* key, throws and copies none.                                            *)
KeyIsBroken(r) == ~IsInjective(r) \/ ToSet(r) \cap table # {}

BulkInsertKeepingRows(r) ==
  /\ rows' = r
  /\ table' = table \cup ToSet(r)

BulkInsertResults(r) ==
  /\ rows' = <<>>
  /\ table' = table \cup ToSet(r)

Throw ==
  /\ pc' = "Thrown"
  /\ UNCHANGED <<position, rows, table>>

(* The next page begins a batch after the last one, however few it had. *)
PositionAfterTheNext == position + ObjectManagerQueryBatch + 1
NextPosition == position + ObjectManagerQueryBatch

GoOn == pc' = "Query" /\ position' = NextPosition

(* The body of the loop, while ResultCount > 0. *)
AddRowsOnly ==
  /\ pc = "Read" /\ results # <<>>
  /\ rows' = rows \o results /\ UNCHANGED table /\ GoOn
  /\ UNCHANGED <<users, results>>

AddRows ==
  /\ pc = "Read" /\ results # <<>>
  /\ LET all == rows \o results
     IN \/ Len(all) <= BulkCopyBatch /\ rows' = all /\ UNCHANGED table /\ GoOn
        \/ Len(all) > BulkCopyBatch /\ ~KeyIsBroken(all) /\ BulkInsertResults(all) /\ GoOn
        \/ Len(all) > BulkCopyBatch /\ KeyIsBroken(all) /\ Throw
  /\ UNCHANGED <<users, results>>

(* After it, the rest. *)
Finish ==
  /\ pc = "Read" /\ results = <<>>
  /\ \/ ~KeyIsBroken(rows) /\ BulkInsertResults(rows) /\ pc' = "Filled" /\ UNCHANGED position
     \/ KeyIsBroken(rows) /\ Throw
  /\ UNCHANGED <<users, results>>

Fill == Query \/ AddRows \/ Finish

Next == Fill \/ \E d \in Documents : Enter(d) \/ Leave(d)

Spec == Init /\ [][Next]_vars

-----------------------------------------------------------------------------
TypeOK ==
  /\ search \subseteq Documents /\ seen \subseteq Documents /\ stayed \subseteq search
  /\ table \subseteq Documents
  /\ pc \in {"Query", "Read", "Filled", "Thrown"}
  /\ position \in Nat \ {0}
  /\ results \in Seq(Documents) /\ Len(results) <= ObjectManagerQueryBatch
  /\ rows \in Seq(Documents) /\ Len(rows) <= BulkCopyBatch
  /\ enters + leaves \in 0 .. MaxChanges

(***************************************************************************)
(* ISearchTableManager: "Creates tables containing artifact Ids of         *)
(* documents in a saved search".  A filled table holds only documents that *)
(* were in the search during the fill, and of those that were in it all    *)
(* the time it misses at most one for each document that left.             *)
(***************************************************************************)
FilledWithTheSearch ==
  pc = "Filled" => table \subseteq seen /\ Cardinality(stayed \ table) <= leaves

(***************************************************************************)
(* Filling breaks the primary key only if documents have entered the       *)
(* search meanwhile, so that one was read twice.                           *)
(***************************************************************************)
ThrownOnlyIfEntered == pc = "Thrown" => enters > 0
=============================================================================
