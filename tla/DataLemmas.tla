----------------------------- MODULE DataLemmas -----------------------------
(***************************************************************************)
(* Facts about numbers, recursive definitions and sequences that the       *)
(* proofs share.  What a recursive definition computes is proved with sets *)
(* of naturals, of which every nonempty one has a least element.           *)
(***************************************************************************)
EXTENDS Integers, SequencesExt, FiniteSetTheorems, SequenceTheorems, WellFoundedInduction, TLAPS

(* Min picks the least element of a nonempty set of naturals. *)
LEMMA MinIsLeast ==
  ASSUME NEW S \in SUBSET Nat, S # {}
  PROVE  Min(S) \in S /\ \A x \in S : Min(S) <= x
<1>1. PICK m \in S : \A k \in S : <<k, m>> \notin OpToRel(<, Nat)
  BY WFMin, NatLessThanWellFounded, Zenon
<1>2. \A k \in S : ~(k < m)
  BY <1>1, Zenon DEF OpToRel
<1>3. \A k \in S : m <= k
  BY <1>2
<1>. QED
  BY <1>3 DEF Min

(* Max picks an element of a set of numbers that has a bound, the last one *)
(* of an interval.                                                          *)
LEMMA MaxIsIn ==
  ASSUME NEW n \in Nat, NEW S \in SUBSET (1 .. n), S # {}
  PROVE  Max(S) \in S
<1> DEFINE R == {k \in Nat : n - k \in S}
<1>1. R \in SUBSET Nat /\ R # {}
  <2>1. PICK x \in S : TRUE
    OBVIOUS
  <2>2. n - x \in Nat /\ n - (n - x) = x
    BY <2>1
  <2> QED
    BY <2>1, <2>2
<1>2. Min(R) \in R /\ \A k \in R : Min(R) <= k
  <2> HIDE DEF R
  <2> QED
    BY <1>1, MinIsLeast
<1> DEFINE m == n - Min(R)
<1>3. m \in S /\ \A y \in S : m >= y
  <2>1. ASSUME NEW y \in S PROVE m >= y
    <3>1. n - y \in R /\ y \in 1 .. n
      <4>1. n - y \in Nat /\ n - (n - y) = y
        OBVIOUS
      <4> QED
        BY <4>1
    <3>2. Min(R) \in Nat /\ Min(R) <= n - y
      BY <1>2, <3>1
    <3> QED
      BY <3>1, <3>2
  <2>2. m \in S
    BY <1>2
  <2> QED
    BY <2>1, <2>2
<1> HIDE DEF m
<1> QED
  BY <1>3 DEF Max

LEMMA MaxOfInterval ==
  ASSUME NEW k \in Nat
  PROVE  Max(1 .. k + 1) = k + 1
<1>1. k + 1 \in 1 .. k + 1 /\ \A y \in 1 .. k + 1 : k + 1 >= y
  OBVIOUS
<1>2. ASSUME NEW x \in 1 .. k + 1, \A y \in 1 .. k + 1 : x >= y PROVE x = k + 1
  <2>1. x >= k + 1
    BY <1>1, <1>2
  <2> QED
    BY <2>1
<1> QED
  BY <1>1, <1>2, Zenon DEF Max

(* Quotient and remainder are what they are written as. *)
LEMMA DivModUnique ==
  ASSUME NEW w \in Nat \ {0}, NEW q \in Int, NEW p \in 0 .. (w - 1),
         NEW x \in Int, x = w * q + p
  PROVE  x % w = p /\ x \div w = q
<1>. DEFINE k == x \div w
            r == x % w
<1>1. k \in Int /\ r \in 0 .. (w - 1) /\ x = w * k + r
  OBVIOUS
<1>2. w * (k - q) = p - r
  BY <1>1
<1>. HIDE DEF k, r
<1>3. k - q = 0
  <2>1. CASE k - q >= 1
    <3>1. w * (k - q) >= w
      BY <2>1, <1>1
    <3>. QED  BY <3>1, <1>1, <1>2
  <2>2. CASE k - q <= -1
    <3>1. w * (k - q) <= -w
      BY <2>2, <1>1
    <3>. QED  BY <3>1, <1>1, <1>2
  <2>. QED  BY <2>1, <2>2, <1>1
<1>4. r = p /\ k = q
  BY <1>1, <1>2, <1>3
<1>. QED
  BY <1>4 DEF k, r

-----------------------------------------------------------------------------
(* Induction: a set with 0 and the successor of each of its numbers. *)
LEMMA InductionOnNat ==
  ASSUME NEW T, 0 \in T, \A n \in Nat : n \in T => n + 1 \in T
  PROVE  Nat \subseteq T
<1> SUFFICES ASSUME Nat \ T # {} PROVE FALSE
  OBVIOUS
<1>1. PICK m \in Nat \ T : \A x \in Nat \ T : m <= x
  BY MinIsLeast
<1>2. m # 0 /\ m - 1 \in Nat /\ ~(m <= m - 1)
  BY <1>1
<1>3. m - 1 \in T
  BY <1>1, <1>2
<1> QED
  BY <1>1, <1>2, <1>3

(* h follows the recursion with step F from base, up to n. *)
Upto(h, n, X, base, F) ==
  /\ h \in [0 .. n -> X] /\ h[0] = base
  /\ \A i \in 0 .. n - 1 : h[i + 1] = F[<<i + 1, h[i]>>]

(* A recursion on the naturals defines a function. *)
IsDefinedOnNat(X, base, F) ==
  \E g \in [Nat -> X] :
    g[0] = base /\ \A n \in Nat : g[n + 1] = F[<<n + 1, g[n]>>]

LEMMA RecursionOnNat ==
  ASSUME NEW X, NEW base \in X, NEW F \in [Nat \X X -> X]
  PROVE  IsDefinedOnNat(X, base, F)
<1> DEFINE T == {n \in Nat : \E h : Upto(h, n, X, base, F)}
           H(n) == CHOOSE h : Upto(h, n, X, base, F)
           g == [n \in Nat |-> H(n)[n]]
<1>1. 0 \in T
  <2>1. Upto([i \in 0 .. 0 |-> base], 0, X, base, F)
    BY DEF Upto
  <2> QED
    BY <2>1
<1>2. ASSUME NEW n \in Nat, n \in T PROVE n + 1 \in T
  <2>1. PICK h : Upto(h, n, X, base, F)
    BY <1>2
  <2> DEFINE k == [i \in 0 .. n + 1 |-> IF i = n + 1 THEN F[<<i, h[n]>>] ELSE h[i]]
  <2>2. h[n] \in X /\ F[<<n + 1, h[n]>>] \in X
    BY <2>1 DEF Upto
  <2>3. k \in [0 .. n + 1 -> X] /\ k[0] = base
    BY <2>1, <2>2 DEF Upto
  <2>4. ASSUME NEW i \in 0 .. (n + 1) - 1 PROVE k[i + 1] = F[<<i + 1, k[i]>>]
    BY <2>1 DEF Upto
  <2>5. Upto(k, n + 1, X, base, F)
    <3> HIDE DEF k
    <3> QED
      BY <2>3, <2>4 DEF Upto
  <2> QED
    <3>1. n + 1 \in Nat
      OBVIOUS
    <3> HIDE DEF k
    <3> QED
      BY <2>5, <3>1, Zenon
<1>3. \A n \in Nat : n \in T
  <2> HIDE DEF T
  <2> QED
    BY <1>1, <1>2, InductionOnNat
<1>4. \A n \in Nat : Upto(H(n), n, X, base, F)
  BY <1>3, Zenon
<1> HIDE DEF H, T
<1>5. ASSUME NEW n \in Nat PROVE H(n + 1)[n] = H(n)[n]
  <2> DEFINE h == H(n)
             k == H(n + 1)
             E == {i \in Nat : i <= n => h[i] = k[i]}
  <2>1. Upto(h, n, X, base, F) /\ Upto(k, n + 1, X, base, F)
    BY <1>4
  <2> HIDE DEF h, k
  <2>2. 0 \in E
    BY <2>1 DEF Upto
  <2>3. ASSUME NEW i \in Nat, i \in E PROVE i + 1 \in E
    <3>1. CASE i + 1 <= n
      <4>1. i \in 0 .. n - 1 /\ i \in 0 .. (n + 1) - 1 /\ h[i] = k[i]
        BY <2>3, <3>1
      <4>2. h[i + 1] = F[<<i + 1, h[i]>>] /\ k[i + 1] = F[<<i + 1, k[i]>>]
        BY <2>1, <4>1 DEF Upto
      <4> QED
        BY <4>1, <4>2
    <3> QED
      BY <3>1
  <2>4. n \in E
    <3> HIDE DEF E
    <3> QED
      BY <2>2, <2>3, InductionOnNat
  <2> QED
    BY <2>4 DEF h, k
<1>6. g \in [Nat -> X] /\ g[0] = base
  BY <1>4 DEF Upto
<1>7. ASSUME NEW n \in Nat PROVE g[n + 1] = F[<<n + 1, g[n]>>]
  <2>1. n + 1 \in Nat /\ n \in 0 .. (n + 1) - 1
    OBVIOUS
  <2>2. H(n + 1)[n + 1] = F[<<n + 1, H(n + 1)[n]>>]
    BY <1>4, <2>1 DEF Upto
  <2> QED
    BY <2>1, <2>2, <1>5
<1> QED
  BY <1>6, <1>7 DEF IsDefinedOnNat

(***************************************************************************)
(* So does one on the subsets of a finite set that takes away one chosen   *)
(* element at a time, as the folds of the community modules do.            *)
(***************************************************************************)
IsDefinedOnSubsets(S, X, base, F, ch) ==
  \E g \in [SUBSET S -> X] :
    /\ g[{}] = base
    /\ \A s \in SUBSET S : s # {} => g[s] = F[<<ch[s], g[s \ {ch[s]}]>>]

LEMMA RecursionOnSubsets ==
  ASSUME NEW S, IsFiniteSet(S), NEW X, NEW base \in X, NEW F \in [S \X X -> X],
         NEW ch, \A s \in SUBSET S : s # {} => ch[s] \in s
  PROVE  IsDefinedOnSubsets(S, X, base, F, ch)
<1> DEFINE Y == [SUBSET S -> X]
           base0 == [s \in SUBSET S |-> base]
           step(h) == [s \in SUBSET S |-> IF s = {} THEN base ELSE F[<<ch[s], h[s \ {ch[s]}]>>]]
           G == [p \in Nat \X Y |-> step(p[2])]
<1>1. base0 \in Y
  OBVIOUS
<1>2. ASSUME NEW h \in Y PROVE step(h) \in Y
  <2>1. ASSUME NEW s \in SUBSET S, s # {} PROVE F[<<ch[s], h[s \ {ch[s]}]>>] \in X
    <3>1. ch[s] \in S /\ s \ {ch[s]} \in SUBSET S
      BY <2>1
    <3> QED
      BY <3>1
  <2> QED
    BY <2>1
<1>3. G \in [Nat \X Y -> Y]
  <2> HIDE DEF Y, step
  <2> QED
    BY <1>2
<1>4. PICK r \in [Nat -> Y] : r[0] = base0 /\ \A n \in Nat : r[n + 1] = G[<<n + 1, r[n]>>]
  <2> HIDE DEF Y, G, base0
  <2>1. IsDefinedOnNat(Y, base0, G)
    BY <1>1, <1>3, RecursionOnNat
  <2> QED
    BY <2>1 DEF IsDefinedOnNat
<1>5. \A n \in Nat : r[n] \in Y /\ r[n + 1] = step(r[n])
  <2> SUFFICES ASSUME NEW n \in Nat
               PROVE  r[n] \in Y /\ r[n + 1] = step(r[n])
    OBVIOUS
  <2>1. r[n] \in Y
    <3> HIDE DEF Y, G, base0
    <3> QED
      BY <1>4
  <2>2. r[n + 1] = G[<<n + 1, r[n]>>]
    BY <1>4
  <2>3. <<n + 1, r[n]>> \in Nat \X Y
    <3> HIDE DEF Y
    <3> QED
      BY <2>1
  <2> HIDE DEF Y, step
  <2> QED
    BY <2>1, <2>2, <2>3
<1> DEFINE g == [s \in SUBSET S |-> r[Cardinality(s)][s]]
<1>6. \A s \in SUBSET S : IsFiniteSet(s) /\ Cardinality(s) \in Nat
  BY FS_Subset, FS_CardinalityType
<1>7. g \in Y
  BY <1>5, <1>6
<1>8. g[{}] = base
  BY <1>4, FS_EmptySet
<1>9. ASSUME NEW s \in SUBSET S, s # {} PROVE g[s] = F[<<ch[s], g[s \ {ch[s]}]>>]
  <2> DEFINE u == s \ {ch[s]}
             n == Cardinality(u)
  <2>1. ch[s] \in s /\ u \in SUBSET S
    BY <1>9
  <2>2. n \in Nat /\ Cardinality(s) = n + 1
    BY <1>6, <2>1, FS_RemoveElement
  <2>3. r[n + 1][s] = step(r[n])[s]
    BY <1>5, <2>2
  <2>4. step(r[n])[s] = F[<<ch[s], r[n][u]>>]
    BY <1>9
  <2> QED
    BY <2>1, <2>2, <2>3, <2>4
<1> HIDE DEF g
<1> QED
  BY <1>7, <1>8, <1>9 DEF IsDefinedOnSubsets

-----------------------------------------------------------------------------
(***************************************************************************)
(* FlattenSeq, by the prefixes of what it returns: p[n] is what the first  *)
(* n of the sequences are when they are put together.                      *)
(***************************************************************************)
ArePrefixes(p, f, I) ==
  /\ p \in [0 .. Len(f) -> Seq(I)] /\ p[0] = <<>>
  /\ \A i \in 1 .. Len(f) : p[i] = p[i - 1] \o f[i]

LEMMA PrefixesExist ==
  ASSUME NEW I, NEW f \in Seq(Seq(I))
  PROVE  \E p : ArePrefixes(p, f, I)
<1> DEFINE X == Seq(I)
           F == [q \in Nat \X X |-> IF q[1] \in 1 .. Len(f) THEN q[2] \o f[q[1]] ELSE q[2]]
<1>1. Len(f) \in Nat /\ \A n \in 1 .. Len(f) : f[n] \in X
  OBVIOUS
<1>2. \A n \in Nat, x \in X : <<n, x>> \in Nat \X X /\ F[<<n, x>>] = IF n \in 1 .. Len(f) THEN x \o f[n] ELSE x
  <2> HIDE DEF X
  <2> QED
    OBVIOUS
<1>3. F \in [Nat \X X -> X]
  <2>1. \A q \in Nat \X X : q[1] \in Nat /\ q[2] \in X
    <3> HIDE DEF X
    <3> QED
      OBVIOUS
  <2>2. \A q \in Nat \X X : q[1] \in 1 .. Len(f) => q[2] \o f[q[1]] \in X
    BY <1>1, <2>1
  <2> HIDE DEF X
  <2> QED
    BY <2>1, <2>2
<1>4. IsDefinedOnNat(X, <<>>, F)
  <2>1. <<>> \in X
    OBVIOUS
  <2> HIDE DEF X, F
  <2> QED
    BY <2>1, <1>3, RecursionOnNat
<1> HIDE DEF F
<1>5. PICK g \in [Nat -> X] : g[0] = <<>> /\ \A n \in Nat : g[n + 1] = F[<<n + 1, g[n]>>]
  <2> HIDE DEF X
  <2> QED
    BY <1>4 DEF IsDefinedOnNat
<1>6. ASSUME NEW n \in 1 .. Len(f) PROVE g[n] = g[n - 1] \o f[n]
  <2>1. n - 1 \in Nat /\ n \in Nat /\ (n - 1) + 1 = n
    BY <1>1
  <2>2. g[n - 1] \in X
    <3> HIDE DEF X
    <3> QED
      BY <1>5, <2>1
  <2>3. g[n] = F[<<n, g[n - 1]>>]
    BY <1>5, <2>1
  <2> HIDE DEF X
  <2> QED
    BY <1>2, <2>1, <2>2, <2>3
<1>7. ArePrefixes([i \in 0 .. Len(f) |-> g[i]], f, I)
  <2> DEFINE p == [i \in 0 .. Len(f) |-> g[i]]
  <2>1. p \in [0 .. Len(f) -> X]
    <3> HIDE DEF X
    <3> QED
      BY <1>1, <1>5
  <2>2. p[0] = <<>>
    BY <1>1, <1>5
  <2>3. ASSUME NEW i \in 1 .. Len(f) PROVE p[i] = p[i - 1] \o f[i]
    <3>1. i \in 0 .. Len(f) /\ i - 1 \in 0 .. Len(f)
      BY <1>1
    <3> QED
      BY <1>6, <3>1
  <2> HIDE DEF p
  <2>4. ArePrefixes(p, f, I)
    BY <2>1, <2>2, <2>3 DEF ArePrefixes
  <2> QED
    BY <2>4 DEF p
<1> QED
  BY <1>7

LEMMA FlattenIsPrefix ==
  ASSUME NEW I, NEW f \in Seq(Seq(I)), NEW p, ArePrefixes(p, f, I)
  PROVE  FlattenSeq(f) = p[Len(f)]
<1> DEFINE flat == CHOOSE h : h = [i \in 1 .. Len(f) |-> IF i = 1 THEN f[i] ELSE h[i - 1] \o f[i]]
<1>1. Len(f) \in Nat /\ \A n \in 1 .. Len(f) : f[n] \in Seq(I)
  OBVIOUS
<1>2. p[0] = <<>> /\ \A i \in 1 .. Len(f) : p[i] = p[i - 1] \o f[i]
  BY DEF ArePrefixes
<1>3. flat = [i \in 1 .. Len(f) |-> IF i = 1 THEN f[i] ELSE flat[i - 1] \o f[i]]
  <2> DEFINE k == [i \in 1 .. Len(f) |-> p[i]]
  <2>1. ASSUME NEW i \in 1 .. Len(f)
        PROVE  k[i] = IF i = 1 THEN f[i] ELSE k[i - 1] \o f[i]
    <3>1. p[i] = p[i - 1] \o f[i] /\ f[i] \in Seq(I)
      BY <1>1, <1>2
    <3>2. CASE i = 1
      <4>1. p[i - 1] = <<>>
        BY <1>2, <3>2
      <4>2. <<>> \o f[i] = f[i]
        BY <3>1
      <4> QED
        BY <3>1, <3>2, <4>1, <4>2
    <3>3. CASE i # 1
      <4>1. i - 1 \in 1 .. Len(f)
        BY <1>1, <3>3
      <4> QED
        BY <3>1, <3>3, <4>1
    <3> QED
      BY <3>2, <3>3
  <2>2. k = [i \in 1 .. Len(f) |-> IF i = 1 THEN f[i] ELSE k[i - 1] \o f[i]]
    <3>1. k = [i \in 1 .. Len(f) |-> k[i]]
      OBVIOUS
    <3> HIDE DEF k
    <3> QED
      BY <2>1, <3>1
  <2> HIDE DEF k
  <2> QED
    BY <2>2, Zenon
<1> HIDE DEF flat
<1>4. CASE Len(f) = 0
  <2>1. f = <<>> /\ FlattenSeq(f) = f
    BY <1>4 DEF FlattenSeq
  <2> QED
    BY <1>2, <1>4, <2>1
<1>5. CASE Len(f) # 0
  <2>1. FlattenSeq(f) = flat[Len(f)]
    BY <1>5 DEF FlattenSeq, flat
  <2> DEFINE T == {n \in Nat : n + 1 <= Len(f) => flat[n + 1] = p[n + 1]}
  <2>2. 0 \in T
    <3> SUFFICES ASSUME 1 <= Len(f) PROVE flat[1] = p[1]
      OBVIOUS
    <3>1. 1 \in 1 .. Len(f) /\ f[1] \in Seq(I)
      BY <1>1
    <3>2. p[1] = <<>> \o f[1]
      <4>1. 1 - 1 = 0
        OBVIOUS
      <4>2. p[1] = p[1 - 1] \o f[1]
        BY <1>2, <3>1
      <4> QED
        BY <1>2, <4>1, <4>2
    <3>3. flat[1] = f[1]
      BY <1>3, <3>1
    <3> QED
      BY <3>1, <3>2, <3>3
  <2>3. ASSUME NEW n \in Nat, n \in T PROVE n + 1 \in T
    <3> SUFFICES ASSUME (n + 1) + 1 <= Len(f) PROVE flat[(n + 1) + 1] = p[(n + 1) + 1]
      OBVIOUS
    <3> DEFINE m == (n + 1) + 1
    <3>1. m \in 1 .. Len(f) /\ m # 1 /\ m - 1 = n + 1 /\ n + 1 <= Len(f)
      BY <1>1
    <3>2. flat[n + 1] = p[n + 1]
      BY <2>3, <3>1
    <3> HIDE DEF m
    <3>3. flat[m] = flat[m - 1] \o f[m]
      BY <1>3, <3>1
    <3>4. p[m] = p[m - 1] \o f[m]
      BY <1>2, <3>1
    <3>5. flat[m] = p[m]
      BY <3>1, <3>2, <3>3, <3>4
    <3> QED
      BY <3>5 DEF m
  <2>4. Nat \subseteq T
    <3> HIDE DEF T
    <3> QED
      BY <2>2, <2>3, InductionOnNat
  <2>5. Len(f) - 1 \in Nat /\ (Len(f) - 1) + 1 = Len(f) /\ Len(f) <= Len(f)
    BY <1>1, <1>5
  <2>6. Len(f) - 1 \in T
    BY <2>4, <2>5, Zenon
  <2>7. flat[Len(f)] = p[Len(f)]
    BY <2>5, <2>6
  <2> QED
    BY <2>1, <2>7
<1> QED
  BY <1>4, <1>5

LEMMA FlattenEmpty == FlattenSeq(<<>>) = <<>>
BY DEF FlattenSeq

(* One more sequence comes at the end. *)
LEMMA FlattenAppend ==
  ASSUME NEW I, NEW f \in Seq(Seq(I)), NEW v \in Seq(I)
  PROVE  /\ FlattenSeq(f) \in Seq(I)
         /\ FlattenSeq(Append(f, v)) = FlattenSeq(f) \o v
<1> DEFINE g == Append(f, v)
           n == Len(f)
<1>1. PICK p : ArePrefixes(p, f, I)
  BY PrefixesExist
<1>2. /\ n \in Nat /\ g \in Seq(Seq(I)) /\ Len(g) = n + 1 /\ g[n + 1] = v
      /\ \A i \in 1 .. n : g[i] = f[i]
  <2> DEFINE X == Seq(I)
  <2>1. v \in X /\ f \in Seq(X)
    OBVIOUS
  <2> HIDE DEF X
  <2>2. /\ n \in Nat /\ g \in Seq(X) /\ Len(g) = n + 1 /\ g[n + 1] = v
        /\ \A i \in 1 .. n : g[i] = f[i]
    BY <2>1
  <2> QED
    BY <2>2 DEF X
<1> HIDE DEF g, n
<1> DEFINE q == [i \in 0 .. n + 1 |-> IF i = n + 1 THEN p[n] \o v ELSE p[i]]
<1>3. /\ p \in [0 .. n -> Seq(I)] /\ p[0] = <<>> /\ \A i \in 1 .. n : p[i] = p[i - 1] \o f[i]
      /\ p[n] \in Seq(I)
  <2>1. p \in [0 .. n -> Seq(I)] /\ p[0] = <<>> /\ \A i \in 1 .. n : p[i] = p[i - 1] \o f[i]
    BY <1>1 DEF ArePrefixes, n
  <2>2. n \in 0 .. n
    BY <1>2
  <2> QED
    BY <2>1, <2>2
<1>4. p[n] \o v \in Seq(I)
  BY <1>3
<1>5. q \in [0 .. n + 1 -> Seq(I)]
  <2> DEFINE X == Seq(I)
  <2>1. p \in [0 .. n -> X] /\ p[n] \o v \in X
    BY <1>3, <1>4
  <2> HIDE DEF X
  <2>2. \A i \in 0 .. n + 1 : i # n + 1 => i \in 0 .. n
    BY <1>2
  <2>3. q \in [0 .. n + 1 -> X]
    BY <2>1, <2>2
  <2> QED
    BY <2>3 DEF X
<1>6. q[0] = <<>>
  BY <1>2, <1>3
<1>7. ASSUME NEW i \in 1 .. n + 1 PROVE q[i] = q[i - 1] \o g[i]
  <2>1. i \in 0 .. n + 1 /\ i - 1 \in 0 .. n + 1 /\ i - 1 # n + 1
    BY <1>2
  <2>2. q[i - 1] = p[i - 1]
    BY <2>1
  <2>3. CASE i = n + 1
    <3>1. q[i] = p[n] \o v /\ i - 1 = n
      BY <2>1, <2>3, <1>2
    <3> QED
      BY <2>2, <2>3, <3>1, <1>2
  <2>4. CASE i # n + 1
    <3>1. i \in 1 .. n /\ q[i] = p[i]
      BY <2>1, <2>4, <1>2
    <3> QED
      BY <2>2, <3>1, <1>2, <1>3
  <2> QED
    BY <2>3, <2>4
<1>8. ArePrefixes(q, g, I)
  <2> HIDE DEF q
  <2> QED
    BY <1>2, <1>5, <1>6, <1>7 DEF ArePrefixes
<1>9. FlattenSeq(f) = p[n] /\ FlattenSeq(g) = q[n + 1]
  BY <1>1, <1>2, <1>8, FlattenIsPrefix DEF n
<1>10. q[n + 1] = p[n] \o v
  BY <1>2
<1> QED
  BY <1>3, <1>9, <1>10 DEF g

(* Induction: a set with the empty sequence and what is one item longer. *)
LEMMA SeqInduction ==
  ASSUME NEW I, NEW T, <<>> \in T,
         \A s \in Seq(I), x \in I : s \in T => Append(s, x) \in T
  PROVE  Seq(I) \subseteq T
<1> DEFINE N == {n \in Nat : \A s \in Seq(I) : Len(s) = n => s \in T}
<1>1. 0 \in N
  BY EmptySeq
<1>2. ASSUME NEW n \in Nat, n \in N PROVE n + 1 \in N
  <2> SUFFICES ASSUME NEW s \in Seq(I), Len(s) = n + 1 PROVE s \in T
    OBVIOUS
  <2>1. s # <<>>
    BY EmptySeq
  <2>2. PICK u \in Seq(I), x \in I : s = Append(u, x)
    BY <2>1, SequenceEmptyOrAppend
  <2>3. Len(s) = Len(u) + 1 /\ Len(u) \in Nat
    BY <2>2, AppendProperties, LenProperties
  <2>4. u \in T
    BY <1>2, <2>3
  <2> QED
    BY <2>2, <2>4
<1>3. Nat \subseteq N
  <2> HIDE DEF N
  <2> QED
    BY <1>1, <1>2, InductionOnNat
<1> QED
  BY <1>3, LenProperties

(* A text in which each item has been replaced by what a rule makes of it. *)
Rewritten(s, rule) == FlattenSeq([n \in DOMAIN s |-> rule[s[n]]])

LEMMA RewrittenEmpty == ASSUME NEW rule PROVE Rewritten(<<>>, rule) = <<>>
<1>1. [n \in DOMAIN <<>> |-> rule[<<>>[n]]] = <<>>
  OBVIOUS
<1> QED
  BY <1>1, FlattenEmpty, Zenon DEF Rewritten

(* A rule makes a text of items of J of each item of I. *)
IsRule(rule, I, J) == rule \in [I -> Seq(J)]

RewritesAppended(rule, s, x, J) ==
  /\ Rewritten(s, rule) \in Seq(J)
  /\ Rewritten(Append(s, x), rule) = Rewritten(s, rule) \o rule[x]

LEMMA RewrittenAppend ==
  ASSUME NEW I, NEW J, NEW rule, IsRule(rule, I, J), NEW s \in Seq(I), NEW x \in I
  PROVE  RewritesAppended(rule, s, x, J)
<1> DEFINE X == Seq(J)
           f == [n \in DOMAIN s |-> rule[s[n]]]
           t == Append(s, x)
           g == [n \in DOMAIN t |-> rule[t[n]]]
<1>0. \A y \in I : rule[y] \in X
  BY DEF IsRule
<1>1. Len(s) \in Nat /\ DOMAIN s = 1 .. Len(s) /\ \A n \in 1 .. Len(s) : s[n] \in I
  BY LenProperties
<1>2. t \in Seq(I) /\ Len(t) = Len(s) + 1 /\ t[Len(s) + 1] = x /\ \A n \in 1 .. Len(s) : t[n] = s[n]
  BY AppendProperties
<1>3. DOMAIN t = 1 .. Len(s) + 1
  BY <1>2, LenProperties
<1> HIDE DEF t
<1>4. f \in Seq(X) /\ rule[x] \in X /\ Len(f) = Len(s)
  <2>1. f \in [1 .. Len(s) -> X]
    <3> HIDE DEF X
    <3> QED
      BY <1>0, <1>1
  <2>2. rule[x] \in X
    BY <1>0
  <2> HIDE DEF X, f
  <2> QED
    BY <1>1, <2>1, <2>2
<1>5. g = Append(f, rule[x])
  <2>1. Append(f, rule[x]) \in Seq(X) /\ Len(Append(f, rule[x])) = Len(s) + 1
    <3> HIDE DEF X, f
    <3> QED
      BY <1>4, AppendProperties
  <2>2. /\ Append(f, rule[x])[Len(s) + 1] = rule[x]
        /\ \A n \in 1 .. Len(s) : Append(f, rule[x])[n] = f[n]
    <3> HIDE DEF X, f
    <3> QED
      BY <1>4, AppendProperties
  <2>3. \A n \in 1 .. Len(s) + 1 : g[n] = Append(f, rule[x])[n]
    <3> SUFFICES ASSUME NEW n \in 1 .. Len(s) + 1 PROVE g[n] = Append(f, rule[x])[n]
      OBVIOUS
    <3>1. g[n] = rule[t[n]]
      BY <1>3
    <3>2. CASE n = Len(s) + 1
      BY <3>1, <3>2, <1>2, <2>2
    <3>3. CASE n # Len(s) + 1
      <4>1. n \in 1 .. Len(s)
        BY <3>3, <1>1
      <4>2. f[n] = rule[s[n]]
        BY <4>1, <1>1
      <4> HIDE DEF f
      <4> QED
        BY <3>1, <4>1, <4>2, <1>2, <2>2
    <3> QED
      BY <3>2, <3>3
  <2>4. DOMAIN g = 1 .. Len(s) + 1 /\ DOMAIN Append(f, rule[x]) = 1 .. Len(s) + 1
    <3>1. DOMAIN g = 1 .. Len(s) + 1
      BY <1>3
    <3> HIDE DEF f, g, X
    <3> QED
      BY <2>1, <3>1, LenProperties
  <2>5. g = [n \in 1 .. Len(s) + 1 |-> g[n]] /\ Append(f, rule[x]) = [n \in 1 .. Len(s) + 1 |-> Append(f, rule[x])[n]]
    <3>1. g = [n \in DOMAIN g |-> g[n]]
      OBVIOUS
    <3>2. Append(f, rule[x]) = [n \in 1 .. Len(s) + 1 |-> Append(f, rule[x])[n]]
      <4> HIDE DEF f, X, g
      <4> QED
        BY <2>1, <2>4, LenProperties
    <3> HIDE DEF g, f
    <3> QED
      BY <2>4, <3>1, <3>2
  <2> HIDE DEF g, f
  <2> QED
    BY <2>3, <2>5
<1>6. FlattenSeq(f) \in Seq(J) /\ FlattenSeq(Append(f, rule[x])) = FlattenSeq(f) \o rule[x]
  <2> HIDE DEF f
  <2> QED
    BY <1>4, FlattenAppend
<1>7. Rewritten(s, rule) = FlattenSeq(f) /\ Rewritten(t, rule) = FlattenSeq(g)
  BY DEF Rewritten
<1> HIDE DEF f, g
<1> QED
  BY <1>5, <1>6, <1>7 DEF t, RewritesAppended

LEMMA RewrittenSingle ==
  ASSUME NEW I, NEW J, NEW rule, IsRule(rule, I, J), NEW x \in I
  PROVE  Rewritten(<<x>>, rule) = rule[x]
<1>1. <<>> \in Seq(I) /\ Append(<<>>, x) = <<x>>
  OBVIOUS
<1>2. Rewritten(Append(<<>>, x), rule) = Rewritten(<<>>, rule) \o rule[x]
  <2>1. RewritesAppended(rule, <<>>, x, J)
    BY <1>1, RewrittenAppend
  <2> QED
    BY <2>1 DEF RewritesAppended
<1>3. rule[x] \in Seq(J)
  BY DEF IsRule
<1>4. <<>> \o rule[x] = rule[x]
  BY <1>3
<1> QED
  BY <1>1, <1>2, <1>4, RewrittenEmpty, Zenon

LEMMA RewrittenTyped ==
  ASSUME NEW I, NEW J, NEW rule, IsRule(rule, I, J), NEW s \in Seq(I)
  PROVE  Rewritten(s, rule) \in Seq(J)
<1>1. CASE s = <<>>
  BY <1>1, RewrittenEmpty, EmptySeq
<1>2. CASE s # <<>>
  <2>1. PICK u \in Seq(I), x \in I : s = Append(u, x)
    BY <1>2, SequenceEmptyOrAppend
  <2>2. RewritesAppended(rule, u, x, J) /\ rule[x] \in Seq(J)
    BY RewrittenAppend DEF IsRule
  <2> QED
    BY <2>1, <2>2 DEF RewritesAppended
<1> QED
  BY <1>1, <1>2

(* Texts that are put together are rewritten one by one. *)
LEMMA RewrittenConcat ==
  ASSUME NEW I, NEW J, NEW rule, IsRule(rule, I, J), NEW s \in Seq(I), NEW u \in Seq(I)
  PROVE  Rewritten(s \o u, rule) = Rewritten(s, rule) \o Rewritten(u, rule)
<1> DEFINE T == {v \in Seq(I) : Rewritten(s \o v, rule) = Rewritten(s, rule) \o Rewritten(v, rule)}
<1>0. \A v \in Seq(I) : Rewritten(v, rule) \in Seq(J)
  BY RewrittenTyped
<1>1. <<>> \in T
  <2>1. s \o <<>> = s /\ Rewritten(s, rule) \o <<>> = Rewritten(s, rule)
    BY <1>0, ConcatEmptySeq
  <2> QED
    BY <2>1, RewrittenEmpty, EmptySeq, Zenon
<1>2. ASSUME NEW v \in Seq(I), NEW x \in I, v \in T PROVE Append(v, x) \in T
  <2>1. s \o Append(v, x) = Append(s \o v, x) /\ s \o v \in Seq(I)
    OBVIOUS
  <2>2. Rewritten(s \o Append(v, x), rule) = Rewritten(s \o v, rule) \o rule[x]
    <3>1. RewritesAppended(rule, s \o v, x, J)
      BY <2>1, RewrittenAppend
    <3> QED
      BY <3>1, <2>1 DEF RewritesAppended
  <2>3. Rewritten(Append(v, x), rule) = Rewritten(v, rule) \o rule[x]
    <3>1. RewritesAppended(rule, v, x, J)
      BY RewrittenAppend
    <3> QED
      BY <3>1 DEF RewritesAppended
  <2>4. Rewritten(s \o v, rule) = Rewritten(s, rule) \o Rewritten(v, rule)
    BY <1>2
  <2>5. rule[x] \in Seq(J)
    BY DEF IsRule
  <2>6. (Rewritten(s, rule) \o Rewritten(v, rule)) \o rule[x] = Rewritten(s, rule) \o (Rewritten(v, rule) \o rule[x])
    <3> DEFINE p == Rewritten(s, rule)
               q == Rewritten(v, rule)
               r == rule[x]
    <3>1. p \in Seq(J) /\ q \in Seq(J) /\ r \in Seq(J)
      BY <1>0, <2>5
    <3> HIDE DEF p, q, r
    <3>2. (p \o q) \o r = p \o (q \o r)
      BY <3>1
    <3> QED
      BY <3>2 DEF p, q, r
  <2>7. Append(v, x) \in Seq(I)
    BY AppendProperties
  <2> QED
    BY <2>2, <2>3, <2>4, <2>6, <2>7
<1>3. Seq(I) \subseteq T
  <2> HIDE DEF T
  <2> QED
    BY <1>1, <1>2, SeqInduction
<1> QED
  BY <1>3

(* A text in which no item is replaced is left as it is. *)
LEMMA RewrittenSame ==
  ASSUME NEW I, NEW rule, IsRule(rule, I, I), NEW s \in Seq(I),
         \A n \in DOMAIN s : rule[s[n]] = <<s[n]>>
  PROVE  Rewritten(s, rule) = s
<1> DEFINE T == {u \in Seq(I) : (\A n \in DOMAIN u : rule[u[n]] = <<u[n]>>) => Rewritten(u, rule) = u}
<1>1. <<>> \in T
  BY RewrittenEmpty, EmptySeq
<1>2. ASSUME NEW u \in Seq(I), NEW x \in I, u \in T PROVE Append(u, x) \in T
  <2> DEFINE v == Append(u, x)
  <2>0. v \in Seq(I)
    BY AppendProperties
  <2> SUFFICES ASSUME \A n \in DOMAIN v : rule[v[n]] = <<v[n]>> PROVE Rewritten(v, rule) = v
    BY <2>0
  <2>1. /\ \A n \in DOMAIN u : n \in DOMAIN v /\ v[n] = u[n]
        /\ Len(u) + 1 \in DOMAIN v /\ v[Len(u) + 1] = x
    OBVIOUS
  <2>2. Rewritten(u, rule) = u /\ rule[x] = <<x>>
    BY <1>2, <2>1
  <2>3. Rewritten(v, rule) = Rewritten(u, rule) \o rule[x]
    <3>1. RewritesAppended(rule, u, x, I)
      BY RewrittenAppend
    <3> QED
      BY <3>1 DEF RewritesAppended
  <2> QED
    BY <2>2, <2>3, AppendIsConcat
<1>3. Seq(I) \subseteq T
  <2> HIDE DEF T
  <2> QED
    BY <1>1, <1>2, SeqInduction
<1> QED
  BY <1>3

(* Two rules one after the other are one rule. *)
LEMMA RewrittenTwice ==
  ASSUME NEW I, NEW first, NEW second, NEW both,
         IsRule(first, I, I), IsRule(second, I, I), IsRule(both, I, I), NEW A \in SUBSET I, NEW s \in Seq(A),
         \A x \in A : both[x] = Rewritten(first[x], second)
  PROVE  Rewritten(Rewritten(s, first), second) = Rewritten(s, both)
<1> DEFINE T == {u \in Seq(A) : Rewritten(Rewritten(u, first), second) = Rewritten(u, both)}
<1>0. \A u \in Seq(A) : u \in Seq(I)
  BY SeqMonotonic
<1>1. <<>> \in T
  BY RewrittenEmpty, EmptySeq
<1>2. ASSUME NEW u \in Seq(A), NEW x \in A, u \in T PROVE Append(u, x) \in T
  <2>1. /\ Rewritten(Append(u, x), first) = Rewritten(u, first) \o first[x]
        /\ Rewritten(Append(u, x), both) = Rewritten(u, both) \o both[x]
    <3>1. u \in Seq(I) /\ x \in I
      BY <1>0
    <3>2. RewritesAppended(first, u, x, I) /\ RewritesAppended(both, u, x, I)
      BY <3>1, RewrittenAppend
    <3> QED
      BY <3>2 DEF RewritesAppended
  <2>2. Rewritten(u, first) \in Seq(I) /\ first[x] \in Seq(I)
    BY <1>0, RewrittenTyped DEF IsRule
  <2>3. Rewritten(Rewritten(u, first) \o first[x], second)
          = Rewritten(Rewritten(u, first), second) \o Rewritten(first[x], second)
    BY <2>2, RewrittenConcat
  <2>4. Rewritten(Rewritten(u, first), second) = Rewritten(u, both)
    BY <1>2
  <2>5. Append(u, x) \in Seq(A)
    BY AppendProperties
  <2> QED
    BY <2>1, <2>3, <2>4, <2>5
<1>3. Seq(A) \subseteq T
  <2> HIDE DEF T
  <2> QED
    BY <1>1, <1>2, SeqInduction
<1> QED
  BY <1>3
=============================================================================
