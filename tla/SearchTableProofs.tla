------------------------- MODULE SearchTableProofs -------------------------
(***************************************************************************)
(* Theorems about SearchTable, for every finite set of documents, every    *)
(* size of the batches and every number of changes of the search.          *)
(***************************************************************************)
EXTENDS SearchTable, FiniteSetTheorems, TLAPS

(***************************************************************************)
(* The inductive invariant.  Between two queries, pages are counted by the *)
(* number of documents before one: a document whose place is before the    *)
(* next page's first has been read, unless one of those that left moved it *)
(* there.  At most one is moved there by each.                             *)
(***************************************************************************)
Pending == IF pc = "Read" THEN rows \o results ELSE rows

Got == table \cup ToSet(Pending)

(* The position of the next page. *)
Ahead == IF pc = "Read" THEN NextPosition ELSE position

Behind(d) == Before(d) < Ahead - 1

Missed == {d \in stayed : Behind(d) /\ d \notin Got}

Reading == pc \in {"Query", "Read"}

FillInv ==
  /\ TypeOK
  /\ enters \in Nat /\ leaves \in Nat
  /\ search \subseteq seen
  /\ Reading => Got \subseteq seen
  /\ Reading => Cardinality(Missed) <= leaves
  /\ pc = "Read" /\ results = <<>> => Cardinality(stayed \ Got) <= leaves
  /\ Reading /\ enters = 0 =>
       /\ \A d \in Got \cap search : Behind(d)
       /\ ~KeyIsBroken(Pending)
  /\ FilledWithTheSearch
  /\ ThrownOnlyIfEntered

(***************************************************************************)
(* The places of documents in a search.                                    *)
(***************************************************************************)
LEMMA SearchFinite ==
  ASSUME TypeOK
  PROVE  /\ IsFiniteSet(search) /\ Cardinality(search) \in Nat
         /\ search \subseteq Nat
         /\ \A T \in SUBSET search : IsFiniteSet(T) /\ Cardinality(T) \in Nat
<1>1. search \in SUBSET Documents /\ IsFiniteSet(Documents) /\ Documents \subseteq Nat
  BY DocumentsAssumption DEF TypeOK
<1>2. IsFiniteSet(search)
  BY <1>1, FS_Subset
<1> QED
  BY <1>1, <1>2, FS_Subset, FS_CardinalityType

LEMMA BeforeFacts ==
  ASSUME TypeOK
  PROVE  /\ \A d : Before(d) \in Nat
         /\ \A d \in search : Before(d) < Cardinality(search)
         /\ \A d \in search, e \in search : d < e => Before(d) < Before(e)
<1>1. /\ IsFiniteSet(search) /\ Cardinality(search) \in Nat /\ search \subseteq Nat
      /\ \A T \in SUBSET search : IsFiniteSet(T) /\ Cardinality(T) \in Nat
  BY SearchFinite
<1> DEFINE lower(d) == {e \in search : e < d}
<1>2. \A d : lower(d) \in SUBSET search /\ Before(d) = Cardinality(lower(d))
  BY DEF Before
<1>3. \A d : Before(d) \in Nat
  BY <1>1, <1>2
<1>4. ASSUME NEW d \in search PROVE Before(d) < Cardinality(search)
  <2>1. lower(d) # search
    BY <1>1, <1>4
  <2>2. Cardinality(lower(d)) <= Cardinality(search) /\ Cardinality(lower(d)) # Cardinality(search)
    BY <1>1, <1>2, <2>1, FS_Subset
  <2> QED
    BY <1>1, <1>2, <1>3, <2>2
<1>5. ASSUME NEW d \in search, NEW e \in search, d < e PROVE Before(d) < Before(e)
  <2>1. lower(d) \in SUBSET lower(e)
    <3>1. d \in Nat /\ e \in Nat /\ \A x \in lower(d) : x \in Nat /\ x \in search /\ x < d
      BY <1>1
    <3>2. \A x \in lower(d) : x \in search /\ x < e
      BY <3>1, <1>5
    <3> QED
      BY <3>2
  <2>2. d \in lower(e) /\ d \notin lower(d)
    BY <1>1, <1>5
  <2> HIDE DEF lower
  <2>3. IsFiniteSet(lower(e))
    BY <1>1, <1>2
  <2>4. /\ Cardinality(lower(d)) <= Cardinality(lower(e))
        /\ Cardinality(lower(d)) # Cardinality(lower(e))
    BY <2>1, <2>2, <2>3, FS_Subset
  <2> QED
    BY <1>2, <1>3, <2>4
<1> QED
  BY <1>3, <1>4, <1>5

LEMMA PlacesDiffer ==
  ASSUME TypeOK, NEW d \in search, NEW e \in search, Before(d) = Before(e)
  PROVE  d = e
<1>1. d \in Nat /\ e \in Nat
  BY SearchFinite
<1>2. d < e \/ e < d \/ d = e
  BY <1>1
<1> QED
  BY <1>2, BeforeFacts

(* As many places as documents, and each its own: every place is taken. *)
LEMMA PlaceTaken ==
  ASSUME TypeOK, NEW k \in 0 .. (Cardinality(search) - 1)
  PROVE  \E d \in search : Before(d) = k
<1> DEFINE n == Cardinality(search)
           places == 0 .. (n - 1)
           f == [d \in search |-> Before(d)]
<1>1. n \in Nat /\ IsFiniteSet(search)
  BY SearchFinite
<1>2. f \in [search -> places]
  BY <1>1, BeforeFacts
<1>3. f \in Injection(search, places)
  BY <1>2, PlacesDiffer DEF Injection, IsInjective
<1>4. IsFiniteSet(places) /\ Cardinality(places) = n
  BY <1>1, FS_Interval
<1> HIDE DEF f
<1>5. f \in Surjection(search, places)
  BY <1>3, <1>4, FS_Injection
<1>6. \E d \in search : f[d] = k
  BY <1>5 DEF Surjection
<1> QED
  BY <1>6 DEF f

(***************************************************************************)
(* QuerySlimAsync reads the documents of a batch of places.                *)
(***************************************************************************)
LEMMA MinOfTwo ==
  ASSUME NEW a \in Int, NEW b \in Int
  PROVE  Min({a, b}) = IF a <= b THEN a ELSE b
<1> DEFINE m == IF a <= b THEN a ELSE b
<1>1. m \in {a, b} /\ \A y \in {a, b} : m <= y
  OBVIOUS
<1>2. \A x \in {a, b} : (\A y \in {a, b} : x =< y) <=> x = m
  OBVIOUS
<1> HIDE DEF m
<1>3. Min({a, b}) = m
  BY <1>1, <1>2 DEF Min
<1> QED
  BY <1>3 DEF m

LEMMA ObjectHasPlace ==
  ASSUME TypeOK, NEW n \in 1 .. Cardinality(search)
  PROVE  ObjectAt(n) \in search /\ Before(ObjectAt(n)) = n - 1
<1>1. n - 1 \in 0 .. (Cardinality(search) - 1)
  BY SearchFinite
<1>2. PICK d \in search : Before(d) = n - 1
  BY <1>1, PlaceTaken
<1> QED
  BY <1>2 DEF ObjectAt

LEMMA QuerySlimReads ==
  ASSUME TypeOK, NEW start \in Nat \ {0}
  PROVE  /\ QuerySlim(start) \in Seq(search)
         /\ Len(QuerySlim(start)) <= ObjectManagerQueryBatch
         /\ IsInjective(QuerySlim(start))
         /\ ToSet(QuerySlim(start)) =
              {d \in search : /\ Before(d) >= start - 1
                              /\ Before(d) < start - 1 + ObjectManagerQueryBatch}
         /\ QuerySlim(start) = <<>> => Cardinality(search) < start
<1> DEFINE n == Cardinality(search)
           batch == ObjectManagerQueryBatch
           m == Min({batch, n - start + 1})
           len == IF m >= 0 THEN m ELSE 0
           r == QuerySlim(start)
<1>1. n \in Nat /\ batch \in Nat \ {0}
  BY SearchFinite, BatchAssumption
<1>2. m = IF batch <= n - start + 1 THEN batch ELSE n - start + 1
  BY <1>1, MinOfTwo
<1> HIDE DEF m
<1>3. len \in Nat /\ 1 .. m = 1 .. len
  BY <1>1, <1>2
<1>4. /\ len <= batch
      /\ \A i \in 1 .. len : start + i - 1 \in 1 .. n
      /\ \A k \in 0 .. (n - 1) : k >= start - 1 /\ k < start - 1 + batch =>
            k - start + 2 \in 1 .. len
      /\ len = 0 => n < start
  BY <1>1, <1>2
<1>5. r = [i \in 1 .. len |-> ObjectAt(start + i - 1)]
  BY <1>3 DEF QuerySlim, m
<1> HIDE DEF len, n, batch, r
<1>6. \A i \in 1 .. len : r[i] \in search /\ Before(r[i]) = start + i - 2
  <2> SUFFICES ASSUME NEW i \in 1 .. len PROVE r[i] \in search /\ Before(r[i]) = start + i - 2
    OBVIOUS
  <2>1. start + i - 1 \in 1 .. n /\ r[i] = ObjectAt(start + i - 1) /\ (start + i - 1) - 1 = start + i - 2
    BY <1>3, <1>4, <1>5
  <2> QED
    BY <2>1, ObjectHasPlace DEF n
<1>7. r \in Seq(search) /\ Len(r) = len /\ DOMAIN r = 1 .. len
  <2>1. r \in [1 .. len -> search]
    BY <1>5, <1>6
  <2> QED
    BY <1>3, <2>1
<1>8. IsInjective(r)
  <2> SUFFICES ASSUME NEW i \in 1 .. len, NEW j \in 1 .. len, r[i] = r[j] PROVE i = j
    BY <1>7 DEF IsInjective
  <2>1. start + i - 2 = start + j - 2
    BY <1>6
  <2> QED
    BY <1>3, <2>1
<1>9. ToSet(r) = {d \in search : Before(d) >= start - 1 /\ Before(d) < start - 1 + batch}
  <2>1. ASSUME NEW i \in 1 .. len
        PROVE  r[i] \in search /\ Before(r[i]) >= start - 1 /\ Before(r[i]) < start - 1 + batch
    BY <1>1, <1>3, <1>4, <1>6, <2>1
  <2>2. ASSUME NEW d \in search, Before(d) >= start - 1, Before(d) < start - 1 + batch
        PROVE  \E i \in 1 .. len : r[i] = d
    <3>1. Before(d) \in 0 .. (n - 1)
      BY <1>1, BeforeFacts DEF n
    <3>2. Before(d) - start + 2 \in 1 .. len
      BY <1>4, <2>2, <3>1
    <3>3. Before(r[Before(d) - start + 2]) = Before(d)
      BY <1>1, <1>6, <3>1, <3>2
    <3>4. r[Before(d) - start + 2] = d
      BY <1>6, <3>2, <3>3, PlacesDiffer
    <3> QED
      BY <3>2, <3>4
  <2>3. ToSet(r) = {r[i] : i \in 1 .. len}
    BY <1>7 DEF ToSet
  <2> QED
    BY <2>1, <2>2, <2>3
<1>10. r = <<>> => n < start
  BY <1>4, <1>7
<1> QED
  BY <1>4, <1>7, <1>8, <1>9, <1>10 DEF r, n, batch

(***************************************************************************)
(* Sequences of rows.                                                      *)
(***************************************************************************)
LEMMA RowsTogether ==
  ASSUME NEW S, NEW s \in Seq(S), NEW t \in Seq(S)
  PROVE  /\ s \o t \in Seq(S) /\ Len(s \o t) = Len(s) + Len(t)
         /\ ToSet(s \o t) = ToSet(s) \cup ToSet(t)
         /\ ToSet(s) \subseteq S
         /\ IsInjective(s) /\ IsInjective(t) /\ ToSet(s) \cap ToSet(t) = {}
              => IsInjective(s \o t)
<1> DEFINE u == s \o t
<1>1. /\ u \in Seq(S) /\ Len(u) = Len(s) + Len(t)
      /\ Len(s) \in Nat /\ Len(t) \in Nat
      /\ DOMAIN s = 1 .. Len(s) /\ DOMAIN t = 1 .. Len(t) /\ DOMAIN u = 1 .. (Len(s) + Len(t))
      /\ \A i \in 1 .. Len(s) : u[i] = s[i] /\ s[i] \in S
      /\ \A i \in 1 .. (Len(s) + Len(t)) : i > Len(s) => u[i] = t[i - Len(s)]
  OBVIOUS
<1> HIDE DEF u
<1>2. ToSet(u) \subseteq ToSet(s) \cup ToSet(t)
  <2> SUFFICES ASSUME NEW i \in 1 .. (Len(s) + Len(t)) PROVE u[i] \in ToSet(s) \cup ToSet(t)
    BY <1>1 DEF ToSet
  <2>1. CASE i <= Len(s)
    BY <1>1, <2>1 DEF ToSet
  <2>2. CASE i > Len(s)
    <3>1. i - Len(s) \in 1 .. Len(t) /\ u[i] = t[i - Len(s)]
      BY <1>1, <2>2
    <3> QED
      BY <1>1, <3>1 DEF ToSet
  <2> QED
    BY <1>1, <2>1, <2>2
<1>3. ToSet(s) \subseteq ToSet(u)
  <2> SUFFICES ASSUME NEW i \in 1 .. Len(s) PROVE s[i] \in ToSet(u)
    BY <1>1 DEF ToSet
  <2>1. i \in 1 .. (Len(s) + Len(t)) /\ u[i] = s[i]
    BY <1>1
  <2> QED
    BY <1>1, <2>1 DEF ToSet
<1>4. ToSet(t) \subseteq ToSet(u)
  <2> SUFFICES ASSUME NEW i \in 1 .. Len(t) PROVE t[i] \in ToSet(u)
    BY <1>1 DEF ToSet
  <2>1. /\ i + Len(s) \in 1 .. (Len(s) + Len(t)) /\ i + Len(s) > Len(s)
        /\ (i + Len(s)) - Len(s) = i
    BY <1>1
  <2>2. u[i + Len(s)] = t[i]
    BY <1>1, <2>1
  <2> QED
    BY <1>1, <2>1, <2>2 DEF ToSet
<1>5. ASSUME IsInjective(s), IsInjective(t), ToSet(s) \cap ToSet(t) = {} PROVE IsInjective(u)
  <2> SUFFICES ASSUME NEW i \in 1 .. (Len(s) + Len(t)), NEW j \in 1 .. (Len(s) + Len(t)),
                      u[i] = u[j]
               PROVE  i = j
    BY <1>1 DEF IsInjective
  <2>1. \A k \in 1 .. (Len(s) + Len(t)) :
          \/ k \in 1 .. Len(s) /\ u[k] = s[k] /\ u[k] \in ToSet(s)
          \/ k - Len(s) \in 1 .. Len(t) /\ u[k] = t[k - Len(s)] /\ u[k] \in ToSet(t)
    <3> SUFFICES ASSUME NEW k \in 1 .. (Len(s) + Len(t))
                 PROVE  \/ k \in 1 .. Len(s) /\ u[k] = s[k] /\ u[k] \in ToSet(s)
                        \/ k - Len(s) \in 1 .. Len(t) /\ u[k] = t[k - Len(s)] /\ u[k] \in ToSet(t)
      OBVIOUS
    <3>1. k \in 1 .. Len(s) \/ (k > Len(s) /\ k - Len(s) \in 1 .. Len(t))
      BY <1>1
    <3> QED
      BY <1>1, <3>1 DEF ToSet
  <2>2. CASE i \in 1 .. Len(s) /\ j \in 1 .. Len(s) /\ s[i] = s[j]
    BY <1>1, <1>5, <2>2 DEF IsInjective
  <2>3. CASE /\ i - Len(s) \in 1 .. Len(t) /\ j - Len(s) \in 1 .. Len(t)
             /\ t[i - Len(s)] = t[j - Len(s)]
    <3>1. i - Len(s) = j - Len(s)
      BY <1>1, <1>5, <2>3 DEF IsInjective
    <3> QED
      BY <1>1, <3>1
  <2> QED
    BY <1>5, <2>1, <2>2, <2>3
<1>6. ToSet(s) \subseteq S
  BY <1>1 DEF ToSet
<1> QED
  BY <1>1, <1>2, <1>3, <1>4, <1>5, <1>6 DEF u

LEMMA NoRows ==
  ASSUME NEW S, NEW s \in Seq(S)
  PROVE  s \o <<>> = s /\ ToSet(<<>>) = {} /\ IsInjective(<<>>) /\ <<>> \in Seq(S)
BY DEF ToSet, IsInjective

-----------------------------------------------------------------------------
LEMMA InitFillInv == Init => FillInv
<1> SUFFICES ASSUME Init PROVE FillInv
  OBVIOUS
<1> USE DEF Init
<1>1. <<>> \in Seq(Documents) /\ Len(<<>>) = 0 /\ ToSet(<<>>) = {} /\ IsInjective(<<>>)
  BY DEF ToSet, IsInjective
<1>2. TypeOK
  BY <1>1, BatchAssumption DEF TypeOK
<1>3. Got = {} /\ Pending = <<>>
  BY <1>1 DEF Got, Pending
<1>4. Missed = {}
  <2>1. \A d \in search : ~Behind(d)
    BY <1>2, BeforeFacts DEF Behind, Ahead
  <2> QED
    BY <2>1 DEF Missed
<1>5. Cardinality(Missed) <= leaves
  BY <1>4, FS_EmptySet
<1>6. ~KeyIsBroken(Pending)
  BY <1>1, <1>3 DEF KeyIsBroken
<1> QED
  BY <1>2, <1>3, <1>5, <1>6 DEF FillInv, Reading, FilledWithTheSearch, ThrownOnlyIfEntered

LEMMA TypeKept == TypeOK /\ enters \in Nat /\ leaves \in Nat /\ [Next]_vars
                    => TypeOK' /\ enters' \in Nat /\ leaves' \in Nat
<1> SUFFICES ASSUME TypeOK, enters \in Nat, leaves \in Nat, [Next]_vars
             PROVE  TypeOK' /\ enters' \in Nat /\ leaves' \in Nat
  OBVIOUS
<1> USE DEF TypeOK
<1>0. ObjectManagerQueryBatch \in Nat \ {0} /\ BulkCopyBatch \in Nat /\ MaxChanges \in Nat
  BY BatchAssumption
<1>1. CASE Query
  <2>1. results' \in Seq(search) /\ Len(results') <= ObjectManagerQueryBatch
    BY <1>1, QuerySlimReads DEF Query
  <2>2. results' \in Seq(Documents)
    BY <2>1
  <2> QED
    BY <1>1, <2>1, <2>2 DEF Query, users
<1>2. CASE AddRows \/ Finish
  <2>1. /\ rows \o results \in Seq(Documents) /\ ToSet(rows \o results) \subseteq Documents
        /\ ToSet(rows) \subseteq Documents
        /\ <<>> \in Seq(Documents) /\ Len(<<>>) <= BulkCopyBatch
    BY <1>0, RowsTogether, NoRows
  <2>2. UNCHANGED <<users, results>>
    BY <1>2 DEF AddRows, Finish
  <2>3. rows' \in Seq(Documents) /\ Len(rows') <= BulkCopyBatch /\ table' \subseteq Documents
    <3>1. CASE AddRows
      <4> DEFINE all == rows \o results
      <4>1. \/ Len(all) <= BulkCopyBatch /\ rows' = all /\ table' = table
            \/ rows' = <<>> /\ table' = table \cup ToSet(all)
            \/ rows' = rows /\ table' = table
        BY <3>1 DEF AddRows, BulkInsertResults, Throw
      <4> HIDE DEF all
      <4> QED
        BY <1>0, <2>1, <4>1 DEF all
    <3>2. CASE Finish
      <4>1. \/ rows' = <<>> /\ table' = table \cup ToSet(rows)
            \/ rows' = rows /\ table' = table
        BY <3>2 DEF Finish, BulkInsertResults, Throw
      <4> QED
        BY <1>0, <2>1, <4>1
    <3> QED
      BY <1>2, <3>1, <3>2
  <2>4. pc' \in {"Query", "Filled", "Thrown"} /\ position' \in Nat \ {0}
    BY <1>0, <1>2 DEF AddRows, Finish, Throw, GoOn, NextPosition
  <2> QED
    BY <2>2, <2>3, <2>4 DEF users
<1>3. ASSUME NEW d \in Documents, Enter(d) PROVE TypeOK' /\ enters' \in Nat /\ leaves' \in Nat
  BY <1>0, <1>3 DEF Enter, Filling
<1>4. ASSUME NEW d \in Documents, Leave(d) PROVE TypeOK' /\ enters' \in Nat /\ leaves' \in Nat
  BY <1>0, <1>4 DEF Leave, Filling
<1>5. CASE UNCHANGED vars
  BY <1>5 DEF vars, users
<1> QED
  BY <1>1, <1>2, <1>3, <1>4, <1>5 DEF Next, Fill

-----------------------------------------------------------------------------
(***************************************************************************)
(* A document that enters moves others at most one place on, one that      *)
(* leaves at most one place back.                                          *)
(***************************************************************************)
LEMMA EnterMoves ==
  ASSUME TypeOK, NEW d \in Documents, Enter(d), NEW e
  PROVE  Before(e)' \in Nat /\ Before(e) \in Nat /\ Before(e) <= Before(e)'
<1> DEFINE lower == {x \in search : x < e}
           after == {x \in search' : x < e}
<1>1. IsFiniteSet(lower) /\ Before(e) \in Nat
  BY SearchFinite, BeforeFacts
<1>2. after \in {lower, lower \cup {d}}
  <2>1. search' = search \cup {d}
    BY DEF Enter
  <2>2. CASE d < e
    BY <2>1, <2>2
  <2>3. CASE ~(d < e)
    BY <2>1, <2>3
  <2> QED
    BY <2>2, <2>3
<1>3. Before(e) = Cardinality(lower) /\ Before(e)' = Cardinality(after)
  BY DEF Before
<1> HIDE DEF lower, after
<1>4. Cardinality(lower \cup {d}) \in {Cardinality(lower), Cardinality(lower) + 1}
  BY <1>1, FS_AddElement
<1> QED
  BY <1>1, <1>2, <1>3, <1>4

LEMMA LeaveMoves ==
  ASSUME TypeOK, NEW d \in Documents, Leave(d), NEW e
  PROVE  /\ Before(e)' \in Nat /\ Before(e) \in Nat
         /\ Before(e)' <= Before(e) /\ Before(e) <= Before(e)' + 1
<1> DEFINE lower == {x \in search : x < e}
           after == {x \in search' : x < e}
<1>1. IsFiniteSet(lower) /\ Before(e) \in Nat
  BY SearchFinite, BeforeFacts
<1>2. after = lower \ {d}
  <2>1. search' = search \ {d}
    BY DEF Leave
  <2> QED
    BY <2>1
<1>3. Before(e) = Cardinality(lower) /\ Before(e)' = Cardinality(after)
  BY DEF Before
<1> HIDE DEF lower, after
<1>4. /\ Cardinality(lower \ {d}) =
           IF d \in lower THEN Cardinality(lower) - 1 ELSE Cardinality(lower)
      /\ Cardinality(lower \ {d}) \in Nat
  BY <1>1, FS_RemoveElement, FS_CardinalityType
<1> QED
  BY <1>1, <1>2, <1>3, <1>4

(* Smaller sets have smaller cardinalities. *)
LEMMA FewerMissed ==
  ASSUME TypeOK, NEW T \in SUBSET stayed, NEW U \in SUBSET T
  PROVE  IsFiniteSet(T) /\ Cardinality(U) <= Cardinality(T) /\ Cardinality(U) \in Nat
         /\ Cardinality(T) \in Nat
<1>1. stayed \subseteq search
  BY DEF TypeOK
<1>2. IsFiniteSet(T)
  BY <1>1, SearchFinite
<1> QED
  BY <1>2, FS_Subset, FS_CardinalityType

(* What is read and not thrown away is kept. *)
KeptWhileReading ==
  Reading =>
    /\ Got \subseteq seen
    /\ Cardinality(Missed) <= leaves
    /\ pc = "Read" /\ results = <<>> => Cardinality(stayed \ Got) <= leaves
    /\ enters = 0 => (\A d \in Got \cap search : Behind(d)) /\ ~KeyIsBroken(Pending)

LEMMA FillInvParts ==
  FillInv <=> /\ TypeOK /\ enters \in Nat /\ leaves \in Nat /\ search \subseteq seen
              /\ KeptWhileReading /\ FilledWithTheSearch /\ ThrownOnlyIfEntered
BY DEF FillInv, KeptWhileReading, Reading

(***************************************************************************)
(* A query reads on where the last one ended.                              *)
(***************************************************************************)
LEMMA QueryKeeps ==
  ASSUME FillInv, Query
  PROVE  KeptWhileReading'
<1>0. /\ TypeOK /\ leaves \in Nat /\ Reading /\ Got \subseteq seen /\ search \subseteq seen
      /\ Cardinality(Missed) <= leaves
      /\ enters = 0 => (\A d \in Got \cap search : Behind(d)) /\ ~KeyIsBroken(Pending)
  BY DEF FillInv, Query, Reading
<1> DEFINE first == position - 1
           batch == ObjectManagerQueryBatch
           page == {d \in search : Before(d) >= first /\ Before(d) < first + batch}
<1>1. /\ pc = "Query" /\ pc' = "Read" /\ UNCHANGED <<search, seen, stayed, enters, leaves>>
      /\ UNCHANGED <<position, rows, table>>
      /\ position \in Nat \ {0} /\ batch \in Nat \ {0}
      /\ rows \in Seq(Documents) /\ search \subseteq Documents /\ stayed \subseteq search
  BY <1>0, BatchAssumption DEF Query, users, TypeOK
<1>2. /\ results' \in Seq(search) /\ IsInjective(results') /\ ToSet(results') = page
      /\ results' = <<>> => Cardinality(search) < position
  BY <1>0, <1>1, QuerySlimReads DEF Query
<1>3. results' \in Seq(Documents)
  BY <1>1, <1>2
<1>4. Pending = rows /\ Pending' = rows \o results' /\ Got = table \cup ToSet(rows)
  BY <1>1 DEF Pending, Got
<1>5. ToSet(Pending') = ToSet(rows) \cup page
  BY <1>1, <1>2, <1>3, <1>4, RowsTogether
<1>6. Got' = Got \cup page
  BY <1>1, <1>4, <1>5 DEF Got
<1>7. \A d : /\ Before(d)' = Before(d) /\ Before(d) \in Nat
             /\ Behind(d) <=> Before(d) < first
             /\ Behind(d)' <=> Before(d) < first + batch
  <2>1. \A d : Before(d) \in Nat
    BY <1>0, BeforeFacts
  <2>2. \A d : Before(d)' = Before(d)
    BY <1>1 DEF Before
  <2>3. Ahead - 1 = first /\ Ahead' - 1 = first + batch
    BY <1>1 DEF Ahead, NextPosition
  <2> QED
    BY <2>1, <2>2, <2>3 DEF Behind
<1> HIDE DEF first, batch
<1>8. first \in Int /\ batch \in Nat \ {0}
  BY <1>1 DEF first, batch
<1>9. Got' \subseteq seen'
  BY <1>0, <1>1, <1>6
<1>10. Missed' \subseteq Missed /\ Missed \subseteq stayed
  <2> SUFFICES ASSUME NEW d \in Missed' PROVE d \in Missed
    BY DEF Missed
  <2>1. d \in stayed /\ d \in search /\ d \notin Got /\ d \notin page /\ Behind(d)'
    BY <1>1, <1>6 DEF Missed
  <2>2. Before(d) < first
    BY <1>7, <1>8, <2>1
  <2> QED
    BY <1>7, <2>1, <2>2 DEF Missed
<1>11. Cardinality(Missed') <= leaves'
  BY <1>0, <1>1, <1>10, FewerMissed
<1>12. ASSUME results' = <<>> PROVE Cardinality(stayed' \ Got') <= leaves'
  <2>1. \A d \in search : Before(d) < first
    <3>1. Cardinality(search) <= first
      BY <1>0, <1>1, <1>2, <1>12, SearchFinite DEF first
    <3> QED
      BY <1>0, <1>7, <1>8, <3>1, BeforeFacts, SearchFinite
  <2>2. stayed' \ Got' \subseteq Missed
    BY <1>1, <1>6, <1>7, <2>1 DEF Missed
  <2> QED
    BY <1>0, <1>1, <1>10, <2>2, FewerMissed
<1>13. ASSUME enters' = 0 PROVE (\A d \in Got' \cap search' : Behind(d)') /\ ~KeyIsBroken(Pending)'
  <2>1. (\A d \in Got \cap search : Before(d) < first) /\ ~KeyIsBroken(Pending)
    BY <1>0, <1>1, <1>7, <1>13
  <2>2. \A d \in Got' \cap search' : Behind(d)'
    BY <1>1, <1>6, <1>7, <1>8, <2>1
  <2>3. page \cap Got = {}
    BY <1>7, <1>8, <2>1
  <2>4. IsInjective(rows) /\ ToSet(rows) \cap table = {}
    BY <1>4, <2>1 DEF KeyIsBroken
  <2>5. IsInjective(Pending')
    BY <1>1, <1>2, <1>3, <1>4, <2>3, <2>4, RowsTogether
  <2>6. ToSet(Pending') \cap table' = {}
    BY <1>1, <1>4, <1>5, <2>3, <2>4
  <2> QED
    BY <2>2, <2>5, <2>6 DEF KeyIsBroken
<1> QED
  BY <1>9, <1>11, <1>12, <1>13 DEF KeptWhileReading

(***************************************************************************)
(* Rows that are held or copied are the same documents; a broken key comes *)
(* of a document that entered.                                             *)
(***************************************************************************)
LEMMA AddRowsKeeps ==
  ASSUME FillInv, AddRows
  PROVE  KeptWhileReading' /\ ThrownOnlyIfEntered'
<1>0. /\ TypeOK /\ enters \in Nat /\ Reading /\ Got \subseteq seen
      /\ Cardinality(Missed) <= leaves
      /\ enters = 0 => (\A d \in Got \cap search : Behind(d)) /\ ~KeyIsBroken(Pending)
  BY DEF FillInv, AddRows, Reading
<1> DEFINE all == rows \o results
<1>1. pc = "Read" /\ Pending = all /\ Got = table \cup ToSet(all) /\ Ahead = NextPosition
  BY DEF AddRows, Pending, Got, Ahead
<1>2. UNCHANGED <<search, seen, stayed, enters, leaves>>
  BY DEF AddRows, users
<1>3. \/ /\ pc' = "Query" /\ position' = NextPosition
         /\ \/ rows' = all /\ table' = table
            \/ ~KeyIsBroken(all) /\ rows' = <<>> /\ table' = table \cup ToSet(all)
      \/ pc' = "Thrown" /\ KeyIsBroken(all)
  BY DEF AddRows, BulkInsertResults, Throw, GoOn
<1> HIDE DEF all
<1>4. CASE pc' = "Thrown" /\ KeyIsBroken(all)
  BY <1>0, <1>1, <1>2, <1>4 DEF KeptWhileReading, Reading, ThrownOnlyIfEntered
<1>5. CASE /\ pc' = "Query" /\ position' = NextPosition
           /\ \/ rows' = all /\ table' = table
              \/ ~KeyIsBroken(all) /\ rows' = <<>> /\ table' = table \cup ToSet(all)
  <2>1. Pending' = rows' /\ Ahead' = Ahead
    BY <1>1, <1>5 DEF Pending, Ahead
  <2>2. ToSet(<<>>) = {} /\ IsInjective(<<>>)
    BY DEF ToSet, IsInjective
  <2>3. Got' = Got
    BY <1>1, <1>5, <2>1, <2>2 DEF Got
  <2>4. \A d : Behind(d)' <=> Behind(d)
    BY <1>2, <2>1 DEF Behind, Before
  <2>5. Missed' = Missed
    BY <1>2, <2>3, <2>4 DEF Missed
  <2>6. ASSUME enters' = 0 PROVE ~KeyIsBroken(Pending)'
    <3>1. ~KeyIsBroken(all)
      BY <1>0, <1>1, <1>2, <2>6
    <3> QED
      BY <1>5, <2>1, <2>2, <3>1 DEF KeyIsBroken
  <2> QED
    BY <1>0, <1>2, <1>5, <2>3, <2>4, <2>5, <2>6 DEF KeptWhileReading, ThrownOnlyIfEntered
<1> QED
  BY <1>3, <1>4, <1>5

LEMMA FinishKeeps ==
  ASSUME FillInv, Finish
  PROVE  KeptWhileReading' /\ FilledWithTheSearch' /\ ThrownOnlyIfEntered'
<1>0. /\ TypeOK /\ enters \in Nat /\ Got \subseteq seen
      /\ Cardinality(stayed \ Got) <= leaves
      /\ enters = 0 => ~KeyIsBroken(Pending)
  BY DEF FillInv, Finish, Reading
<1>1. pc = "Read" /\ results = <<>> /\ UNCHANGED <<search, seen, stayed, enters, leaves>>
  BY DEF Finish, users
<1>2. Pending = rows /\ Got = table \cup ToSet(rows)
  <2>1. rows \o <<>> = rows
    BY <1>0, NoRows DEF TypeOK
  <2> QED
    BY <1>1, <2>1 DEF Pending, Got
<1>3. CASE pc' = "Filled" /\ table' = table \cup ToSet(rows)
  <2>1. table' = Got
    BY <1>2, <1>3
  <2>2. FilledWithTheSearch'
    BY <1>0, <1>1, <2>1 DEF FilledWithTheSearch
  <2> QED
    BY <1>3, <2>2 DEF KeptWhileReading, Reading, ThrownOnlyIfEntered
<1>4. CASE pc' = "Thrown" /\ KeyIsBroken(rows)
  BY <1>0, <1>1, <1>2, <1>4
     DEF KeptWhileReading, Reading, FilledWithTheSearch, ThrownOnlyIfEntered
<1> QED
  BY <1>3, <1>4 DEF Finish, BulkInsertResults, Throw

(***************************************************************************)
(* Users.                                                                  *)
(***************************************************************************)
LEMMA EnterKeeps ==
  ASSUME FillInv, NEW d \in Documents, Enter(d)
  PROVE  KeptWhileReading'
<1>0. /\ TypeOK /\ enters \in Nat /\ leaves \in Nat /\ Reading /\ Got \subseteq seen
      /\ Cardinality(Missed) <= leaves
      /\ pc = "Read" /\ results = <<>> => Cardinality(stayed \ Got) <= leaves
  BY DEF FillInv, Enter, Filling, Reading
<1>1. /\ UNCHANGED <<pc, position, results, rows, table, stayed, leaves>>
      /\ seen' = seen \cup {d} /\ enters' = enters + 1
  BY DEF Enter
<1>2. Got' = Got /\ Ahead' = Ahead
  BY <1>1 DEF Got, Pending, Ahead, NextPosition
<1>3. Ahead \in Int
  BY <1>0, BatchAssumption DEF Ahead, NextPosition, TypeOK
<1>4. ASSUME NEW e, Behind(e)' PROVE Behind(e)
  <2>1. Before(e)' \in Nat /\ Before(e) \in Nat /\ Before(e) <= Before(e)'
    BY <1>0, EnterMoves
  <2> QED
    BY <1>2, <1>3, <1>4, <2>1 DEF Behind
<1>5. Missed' \subseteq Missed /\ Missed \subseteq stayed
  BY <1>1, <1>2, <1>4 DEF Missed
<1>6. Cardinality(Missed') <= leaves'
  BY <1>0, <1>1, <1>5, FewerMissed
<1>7. enters' # 0
  BY <1>0, <1>1
<1> QED
  BY <1>0, <1>1, <1>2, <1>6, <1>7 DEF KeptWhileReading

LEMMA LeaveKeeps ==
  ASSUME FillInv, NEW d \in Documents, Leave(d)
  PROVE  KeptWhileReading'
<1>0. /\ TypeOK /\ enters \in Nat /\ leaves \in Nat /\ Reading /\ Got \subseteq seen
      /\ Cardinality(Missed) <= leaves
      /\ pc = "Read" /\ results = <<>> => Cardinality(stayed \ Got) <= leaves
      /\ enters = 0 => (\A e \in Got \cap search : Behind(e)) /\ ~KeyIsBroken(Pending)
  BY DEF FillInv, Leave, Filling, Reading
<1>1. /\ UNCHANGED <<pc, position, results, rows, table, seen, enters>>
      /\ search' = search \ {d} /\ stayed' = stayed \ {d} /\ leaves' = leaves + 1
      /\ stayed \subseteq search
  BY <1>0 DEF Leave, TypeOK
<1>2. Got' = Got /\ Ahead' = Ahead /\ Pending' = Pending
  BY <1>1 DEF Got, Pending, Ahead, NextPosition
<1>3. Ahead \in Int
  BY <1>0, BatchAssumption DEF Ahead, NextPosition, TypeOK
<1>4. ASSUME NEW e
      PROVE  /\ Before(e) \in Nat
             /\ Behind(e) => Behind(e)'
             /\ Behind(e)' => Behind(e) \/ Before(e) = Ahead - 1
  <2>1. /\ Before(e)' \in Nat /\ Before(e) \in Nat
        /\ Before(e)' <= Before(e) /\ Before(e) <= Before(e)' + 1
    BY <1>0, LeaveMoves
  <2> QED
    BY <1>2, <1>3, <2>1 DEF Behind
<1> DEFINE moved == {e \in stayed : Before(e) = Ahead - 1}
<1>5. Missed' \subseteq Missed \cup moved
  BY <1>1, <1>2, <1>4 DEF Missed
<1>6. \A e \in moved, f \in moved : e = f
  BY <1>0, <1>1, PlacesDiffer
<1>7. IsFiniteSet(Missed) /\ Cardinality(Missed) \in Nat
  <2>1. Missed \in SUBSET stayed
    BY DEF Missed
  <2> QED
    BY <1>0, <2>1, FewerMissed
<1>8. Missed \cup moved \in SUBSET stayed
  BY DEF Missed
<1> HIDE DEF moved
<1>9. Cardinality(Missed \cup moved) <= leaves + 1
  <2>1. CASE moved = {}
    <3>1. Missed \cup moved = Missed
      BY <2>1
    <3>2. leaves \in Nat /\ Cardinality(Missed) <= leaves
      BY <1>0
    <3>3. Cardinality(Missed) <= leaves + 1
      BY <1>7, <3>2
    <3> QED
      BY <3>1, <3>3
  <2>2. CASE moved # {}
    <3>1. PICK e \in moved : TRUE
      BY <2>2
    <3>2. moved = {e}
      BY <1>6, <3>1
    <3>3. Cardinality(Missed \cup {e}) =
            IF e \in Missed THEN Cardinality(Missed) ELSE Cardinality(Missed) + 1
      BY <1>7, FS_AddElement
    <3> QED
      BY <1>0, <1>7, <3>2, <3>3
  <2> QED
    BY <2>1, <2>2
<1>10. Cardinality(Missed') <= leaves'
  <2>1. Cardinality(Missed') <= Cardinality(Missed \cup moved)
        /\ Cardinality(Missed') \in Nat /\ Cardinality(Missed \cup moved) \in Nat
    BY <1>0, <1>5, <1>8, FewerMissed
  <2> QED
    BY <1>0, <1>1, <1>9, <2>1
<1>11. ASSUME pc' = "Read", results' = <<>> PROVE Cardinality(stayed' \ Got') <= leaves'
  <2>1. Cardinality(stayed \ Got) <= leaves
    BY <1>0, <1>1, <1>11
  <2>2. /\ stayed' \ Got' \in SUBSET (stayed \ Got) /\ stayed \ Got \in SUBSET stayed
    BY <1>1, <1>2
  <2>3. /\ Cardinality(stayed' \ Got') <= Cardinality(stayed \ Got)
        /\ Cardinality(stayed' \ Got') \in Nat /\ Cardinality(stayed \ Got) \in Nat
    BY <1>0, <2>2, FewerMissed
  <2> QED
    BY <1>0, <1>1, <2>1, <2>3
<1>12. ASSUME enters' = 0
       PROVE  (\A e \in Got' \cap search' : Behind(e)') /\ ~KeyIsBroken(Pending)'
  <2>1. (\A e \in Got \cap search : Behind(e)) /\ ~KeyIsBroken(Pending)
    BY <1>0, <1>1, <1>12
  <2> QED
    BY <1>1, <1>2, <1>4, <2>1 DEF KeyIsBroken
<1> QED
  BY <1>0, <1>1, <1>2, <1>10, <1>11, <1>12 DEF KeptWhileReading

LEMMA FillInvKept == FillInv /\ [Next]_vars => FillInv'
<1> SUFFICES ASSUME FillInv, [Next]_vars PROVE FillInv'
  OBVIOUS
<1>0. /\ TypeOK' /\ enters' \in Nat /\ leaves' \in Nat
      /\ enters \in Nat /\ leaves \in Nat /\ search \subseteq seen
      /\ KeptWhileReading /\ FilledWithTheSearch /\ ThrownOnlyIfEntered
  BY TypeKept, FillInvParts
<1>1. search' \subseteq seen'
  BY <1>0 DEF Next, Fill, Query, AddRows, Finish, Enter, Leave, users, vars
<1> SUFFICES KeptWhileReading' /\ FilledWithTheSearch' /\ ThrownOnlyIfEntered'
  BY <1>0, <1>1 DEF FillInv, KeptWhileReading, Reading
<1>2. CASE Query
  BY <1>2, QueryKeeps DEF Query, FilledWithTheSearch, ThrownOnlyIfEntered
<1>3. CASE AddRows
  <2>1. pc' # "Filled"
    BY <1>3 DEF AddRows, GoOn, Throw
  <2> QED
    BY <1>3, <2>1, AddRowsKeeps DEF FilledWithTheSearch
<1>4. CASE Finish
  BY <1>4, FinishKeeps
<1>5. ASSUME NEW d \in Documents, Enter(d)
      PROVE  KeptWhileReading' /\ FilledWithTheSearch' /\ ThrownOnlyIfEntered'
  BY <1>5, EnterKeeps DEF Enter, Filling, FilledWithTheSearch, ThrownOnlyIfEntered
<1>6. ASSUME NEW d \in Documents, Leave(d)
      PROVE  KeptWhileReading' /\ FilledWithTheSearch' /\ ThrownOnlyIfEntered'
  BY <1>6, LeaveKeeps DEF Leave, Filling, FilledWithTheSearch, ThrownOnlyIfEntered
<1>7. CASE UNCHANGED vars
  <2>1. /\ UNCHANGED <<search, seen, stayed, enters, leaves, pc, position, results, rows, table>>
    BY <1>7 DEF vars, users
  <2> QED
    BY <1>0, <2>1
       DEF KeptWhileReading, Reading, Got, Missed, Behind, Before, Ahead, NextPosition, Pending,
           KeyIsBroken, FilledWithTheSearch, ThrownOnlyIfEntered
<1> QED
  BY <1>2, <1>3, <1>4, <1>5, <1>6, <1>7 DEF Next, Fill

-----------------------------------------------------------------------------
LEMMA FillInvariant == Spec => []FillInv
BY InitFillInv, FillInvKept, PTL DEF Spec

(***************************************************************************)
(* TypeOK, of every reachable state.                                       *)
(***************************************************************************)
THEOREM SearchTypeCorrect == Spec => []TypeOK
<1>1. FillInv => TypeOK
  BY DEF FillInv
<1> QED
  BY <1>1, FillInvariant, PTL

(***************************************************************************)
(* CreateTablesAsync: what a filled table may miss, for every size of the  *)
(* batches, however documents enter and leave between the pages.           *)
(***************************************************************************)
THEOREM TablesHoldTheSearch == Spec => []FilledWithTheSearch
<1>1. FillInv => FilledWithTheSearch
  BY DEF FillInv
<1> QED
  BY <1>1, FillInvariant, PTL

(***************************************************************************)
(* A search that only loses documents never breaks the primary key.        *)
(***************************************************************************)
THEOREM OnlyEntriesBreakTheKey == Spec => []ThrownOnlyIfEntered
<1>1. FillInv => ThrownOnlyIfEntered
  BY DEF FillInv
<1> QED
  BY <1>1, FillInvariant, PTL
=============================================================================
