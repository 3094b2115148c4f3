------------------------- MODULE KeyCommands_proofs -------------------------
(***************************************************************************)
(* What KeyCommands promises of the answers to the items of a list, proved *)
(* for every set of items and options, every number of items, every table  *)
(* of rehashes and all hash functions.                                     *)
(***************************************************************************)
EXTENDS KeyCommands, FiniteSetTheorems, SequenceTheorems, WellFoundedInduction, TLAPS

-----------------------------------------------------------------------------
(* Numbers and sequences.                                                  *)

\* Among natural numbers there is a smallest one: induction.
LEMMA SmallestOne ==
  ASSUME NEW F, F \subseteq Nat, F # {}
  PROVE  \E m \in F : \A n \in F : m <= n
<1>1. PICK m \in F : \A n \in F : ~(<<n, m>> \in OpToRel(<, Nat))
  BY NatLessThanWellFounded, WFMin
<1>2. \A n \in F : ~(n < m)
  BY <1>1 DEF OpToRel
<1> QED
  BY <1>2

\* Max finds the largest.
LEMMA MaxIs ==
  ASSUME NEW F, F \subseteq Nat, NEW m \in F, \A n \in F : n <= m
  PROVE  Max(F) = m
<1>1. \A n \in F : m >= n
  OBVIOUS
<1>2. Max(F) \in F /\ Max(F) >= m
  BY <1>1 DEF Max
<1>3. Max(F) \in Nat /\ m \in Nat /\ m >= Max(F)
  BY <1>1, <1>2
<1> QED
  BY <1>2, <1>3

LEMMA MaxAmong ==
  ASSUME NEW n \in Nat, NEW F, F \subseteq 1 .. n, F # {}
  PROVE  Max(F) \in 1 .. n
<1> DEFINE G == {n - k : k \in F}
<1>1. G \subseteq Nat /\ G # {}
  <2>1. ASSUME NEW k \in F PROVE n - k \in Nat
    <3>1. k \in 1 .. n
      OBVIOUS
    <3> QED
      BY <3>1
  <2> QED
    BY <2>1
<1> HIDE DEF G
<1>2. PICK g \in G : \A l \in G : g <= l
  BY <1>1, SmallestOne
<1>3. PICK m \in F : g = n - m
  BY DEF G
<1>4. ASSUME NEW k \in F PROVE k <= m
  <2>1. n - k \in G /\ k \in 1 .. n /\ m \in 1 .. n
    BY <1>3 DEF G
  <2>2. n - m <= n - k
    BY <1>2, <1>3, <2>1
  <2> QED
    BY <2>1, <2>2
<1>5. F \subseteq Nat
  OBVIOUS
<1>6. Max(F) = m
  BY <1>4, <1>5, MaxIs
<1> QED
  BY <1>6

\* A sequence given by a function.
LEMMA SequenceIs ==
  ASSUME NEW S, NEW n \in Nat, NEW f \in [1 .. n -> S]
  PROVE  f \in Seq(S) /\ Len(f) = n
<1>1. f \in Seq(S)
  BY SeqDef
<1>2. Len(f) \in Nat /\ DOMAIN f = 1 .. Len(f) /\ DOMAIN f = 1 .. n
  BY <1>1, LenProperties
<1> QED
  BY <1>1, <1>2

\* The elements of two sequences, one behind the other.
LEMMA ConcatRange ==
  ASSUME NEW S, NEW s \in Seq(S), NEW t \in Seq(S)
  PROVE  /\ s \o t \in Seq(S) /\ Len(s \o t) = Len(s) + Len(t)
         /\ Range(s \o t) = Range(s) \cup Range(t)
<1>1. /\ s \o t \in Seq(S) /\ Len(s \o t) = Len(s) + Len(t)
      /\ \A k \in 1 .. Len(s) + Len(t) :
           (s \o t)[k] = IF k <= Len(s) THEN s[k] ELSE t[k - Len(s)]
  BY ConcatProperties
<1>2. /\ Len(s) \in Nat /\ Len(t) \in Nat
      /\ DOMAIN s = 1 .. Len(s) /\ DOMAIN t = 1 .. Len(t)
      /\ DOMAIN (s \o t) = 1 .. Len(s) + Len(t)
  BY <1>1
<1> DEFINE st == s \o t
<1>3. /\ \A k \in 1 .. Len(s) : k \in DOMAIN st /\ st[k] = s[k]
      /\ \A k \in 1 .. Len(t) : k + Len(s) \in DOMAIN st /\ st[k + Len(s)] = t[k]
      /\ \A k \in DOMAIN st : \/ k \in 1 .. Len(s) /\ st[k] = s[k]
                              \/ k - Len(s) \in 1 .. Len(t) /\ st[k] = t[k - Len(s)]
  BY <1>1, <1>2
<1> HIDE DEF st
<1>4. Range(st) = Range(s) \cup Range(t)
  BY <1>2, <1>3 DEF Range
<1> QED
  BY <1>1, <1>4 DEF st

-----------------------------------------------------------------------------
(* Sequences put one behind the other.                                     *)

Flattens(f, seqs, n) ==
  f = [i \in 1 .. n |-> IF i = 1 THEN seqs[i] ELSE f[i - 1] \o seqs[i]]

\* There is such a function: it is continued from any position.
LEMMA FlattensExists ==
  ASSUME NEW n \in Nat, NEW seqs
  PROVE  \E f : Flattens(f, seqs, n)
<1> DEFINE F == {m \in 0 .. n : ~ \E f : Flattens(f, seqs, m)}
<1> SUFFICES ASSUME F # {} PROVE FALSE
  OBVIOUS
<1> HIDE DEF F
<1>1. F \subseteq Nat
  BY DEF F
<1>2. PICK m \in F : \A k \in F : m <= k
  BY <1>1, SmallestOne
<1>3. m \in 0 .. n /\ ~ \E f : Flattens(f, seqs, m)
  BY DEF F
<1>4. m # 0
  <2>1. Flattens(<<>>, seqs, 0)
    BY DEF Flattens
  <2> QED
    BY <1>3, <2>1
<1>5. m - 1 \in 0 .. n /\ m - 1 \notin F
  BY <1>2, <1>3, <1>4
<1>6. PICK f : Flattens(f, seqs, m - 1)
  BY <1>5 DEF F
<1> DEFINE h == [i \in 1 .. m |-> IF i = m THEN IF m = 1 THEN seqs[m] ELSE f[m - 1] \o seqs[m]
                                  ELSE f[i]]
<1>7. ASSUME NEW i \in 1 .. m
      PROVE  h[i] = IF i = 1 THEN seqs[i] ELSE h[i - 1] \o seqs[i]
  <2>1. i # 1 => i - 1 \in 1 .. m /\ i - 1 # m /\ h[i - 1] = f[i - 1]
    BY <1>3, <1>7
  <2>2. CASE i = m
    BY <2>1, <2>2
  <2>3. CASE i # m
    <3>1. i \in 1 .. (m - 1) /\ h[i] = f[i]
      BY <1>3, <1>7, <2>3
    <3>2. f[i] = IF i = 1 THEN seqs[i] ELSE f[i - 1] \o seqs[i]
      BY <1>6, <3>1 DEF Flattens
    <3> QED
      BY <2>1, <3>1, <3>2
  <2> QED
    BY <2>2, <2>3
<1>8. h = [i \in 1 .. m |-> h[i]]
  OBVIOUS
<1> HIDE DEF h
<1>9. Flattens(h, seqs, m)
  BY <1>7, <1>8 DEF Flattens
<1> QED
  BY <1>3, <1>9

LEMMA FlattenIs ==
  ASSUME NEW seqs, Len(seqs) \in Nat
  PROVE  /\ Len(seqs) = 0 => FlattenSeq(seqs) = seqs
         /\ Len(seqs) # 0 => \E f : /\ Flattens(f, seqs, Len(seqs))
                                    /\ FlattenSeq(seqs) = f[Len(seqs)]
<1> DEFINE f == CHOOSE g : Flattens(g, seqs, Len(seqs))
<1>1. Flattens(f, seqs, Len(seqs))
  BY FlattensExists
<1>2. Len(seqs) # 0 => FlattenSeq(seqs) = f[Len(seqs)]
  BY DEF FlattenSeq, Flattens
<1> QED
  BY <1>1, <1>2 DEF FlattenSeq

\* Its value at a position, from that at the one before.
LEMMA FlattensStep ==
  ASSUME NEW n \in Nat, NEW seqs, NEW f, Flattens(f, seqs, n), NEW i \in 1 .. n
  PROVE  f[i] = IF i = 1 THEN seqs[i] ELSE f[i - 1] \o seqs[i]
BY DEF Flattens

\* What has been put together up to a position.
Covers(f, seqs, S, i) ==
  /\ f[i] \in Seq(S)
  /\ \A x : x \in Range(f[i]) <=> \E j \in 1 .. i : x \in Range(seqs[j])

LEMMA FlattenCovers ==
  ASSUME NEW S, NEW n \in Nat, NEW seqs, \A i \in 1 .. n : seqs[i] \in Seq(S),
         NEW f, Flattens(f, seqs, n), NEW i \in 1 .. n
  PROVE  Covers(f, seqs, S, i)
<1> DEFINE F == {k \in 1 .. n : ~Covers(f, seqs, S, k)}
<1> SUFFICES ASSUME F # {} PROVE FALSE
  OBVIOUS
<1> HIDE DEF F
<1>1. F \subseteq Nat
  BY DEF F
<1>2. PICK m \in F : \A k \in F : m <= k
  BY <1>1, SmallestOne
<1>3. m \in 1 .. n /\ ~Covers(f, seqs, S, m)
  BY DEF F
<1>4. f[m] = IF m = 1 THEN seqs[m] ELSE f[m - 1] \o seqs[m]
  BY <1>3, FlattensStep
<1>5. m # 1
  <2> SUFFICES ASSUME m = 1 PROVE FALSE
    OBVIOUS
  <2>1. f[1] = seqs[1] /\ 1 .. 1 = {1} /\ seqs[1] \in Seq(S)
    BY <1>3, <1>4
  <2>2. Covers(f, seqs, S, 1)
    BY <2>1 DEF Covers
  <2> QED
    BY <1>3, <2>2
<1>6. m - 1 \in 1 .. n /\ m - 1 \notin F
  BY <1>2, <1>3, <1>5
<1>7. f[m - 1] \in Seq(S) /\ seqs[m] \in Seq(S)
  BY <1>3, <1>6 DEF F, Covers
<1>8. f[m] \in Seq(S) /\ Range(f[m]) = Range(f[m - 1]) \cup Range(seqs[m])
  BY <1>4, <1>5, <1>7, ConcatRange
<1>9. ASSUME NEW x
      PROVE  x \in Range(f[m]) <=> \E j \in 1 .. m : x \in Range(seqs[j])
  <2>1. x \in Range(f[m - 1]) <=> \E j \in 1 .. (m - 1) : x \in Range(seqs[j])
    BY <1>6 DEF F, Covers
  <2>2. (1 .. m) = (1 .. (m - 1)) \cup {m}
    BY <1>3
  <2> QED
    BY <1>8, <2>1, <2>2
<1>10. Covers(f, seqs, S, m)
  BY <1>8, <1>9 DEF Covers
<1> QED
  BY <1>3, <1>10

\* FlattenSeq has the elements of its parts.
LEMMA FlattenRange ==
  ASSUME NEW S, NEW seqs \in Seq(Seq(S))
  PROVE  /\ FlattenSeq(seqs) \in Seq(S)
         /\ \A x : x \in Range(FlattenSeq(seqs)) <=> \E j \in DOMAIN seqs : x \in Range(seqs[j])
<1>1. /\ Len(seqs) \in Nat /\ DOMAIN seqs = 1 .. Len(seqs)
      /\ \A i \in 1 .. Len(seqs) : seqs[i] \in Seq(S)
  OBVIOUS
<1>2. CASE Len(seqs) = 0
  <2>1. FlattenSeq(seqs) = <<>> /\ DOMAIN seqs = {}
    BY <1>1, <1>2, FlattenIs, EmptySeq
  <2>2. Range(<<>>) = {}
    BY DEF Range
  <2> QED
    BY <2>1, <2>2, EmptySeq
<1>3. CASE Len(seqs) # 0
  <2>1. PICK f : Flattens(f, seqs, Len(seqs)) /\ FlattenSeq(seqs) = f[Len(seqs)]
    BY <1>1, <1>3, FlattenIs
  <2>2. Covers(f, seqs, S, Len(seqs))
    BY <1>1, <1>3, <2>1, FlattenCovers
  <2> QED
    BY <1>1, <2>1, <2>2 DEF Covers
<1> QED
  BY <1>2, <1>3

\* Parts of one element each: the element of the part.
OnesTo(f, seqs, S, i) ==
  f[i] \in Seq(S) /\ Len(f[i]) = i /\ \A j \in 1 .. i : f[i][j] = seqs[j][1]

LEMMA FlattenOnesTo ==
  ASSUME NEW S, NEW n \in Nat, NEW seqs,
         \A i \in 1 .. n : seqs[i] \in Seq(S) /\ Len(seqs[i]) = 1,
         NEW f, Flattens(f, seqs, n), NEW i \in 1 .. n
  PROVE  OnesTo(f, seqs, S, i)
<1> DEFINE F == {k \in 1 .. n : ~OnesTo(f, seqs, S, k)}
<1> SUFFICES ASSUME F # {} PROVE FALSE
  OBVIOUS
<1> HIDE DEF F
<1>1. F \subseteq Nat
  BY DEF F
<1>2. PICK m \in F : \A k \in F : m <= k
  BY <1>1, SmallestOne
<1>3. m \in 1 .. n /\ ~OnesTo(f, seqs, S, m)
  BY DEF F
<1>4. f[m] = IF m = 1 THEN seqs[m] ELSE f[m - 1] \o seqs[m]
  BY <1>3, FlattensStep
<1>s. seqs[m] \in Seq(S) /\ Len(seqs[m]) = 1
  BY <1>3
<1>5. m # 1
  <2> SUFFICES ASSUME m = 1 PROVE FALSE
    OBVIOUS
  <2>1. f[1] = seqs[1] /\ 1 .. 1 = {1}
    BY <1>4
  <2>2. OnesTo(f, seqs, S, 1)
    BY <1>s, <2>1 DEF OnesTo
  <2> QED
    BY <1>3, <2>2
<1>6. m - 1 \in 1 .. n /\ m - 1 \notin F
  BY <1>2, <1>3, <1>5
<1>7. /\ f[m - 1] \in Seq(S) /\ Len(f[m - 1]) = m - 1
      /\ \A j \in 1 .. (m - 1) : f[m - 1][j] = seqs[j][1]
  BY <1>6 DEF F, OnesTo
<1>8. f[m] = f[m - 1] \o seqs[m]
  BY <1>4, <1>5
<1> DEFINE s == f[m - 1]
           t == seqs[m]
<1>9. /\ s \o t \in Seq(S) /\ Len(s \o t) = Len(s) + Len(t)
      /\ \A k \in 1 .. Len(s) + Len(t) :
           (s \o t)[k] = IF k <= Len(s) THEN s[k] ELSE t[k - Len(s)]
  <2>1. s \in Seq(S) /\ t \in Seq(S)
    BY <1>s, <1>7
  <2> HIDE DEF s, t
  <2> QED
    BY <2>1, ConcatProperties
<1>10. /\ f[m] \in Seq(S) /\ Len(f[m]) = m
       /\ \A k \in 1 .. m : f[m][k] = IF k <= m - 1 THEN f[m - 1][k] ELSE seqs[m][k - (m - 1)]
  <2>1. Len(s) = m - 1 /\ Len(t) = 1 /\ m - 1 \in Nat
    BY <1>3, <1>s, <1>7
  <2>2. f[m] = s \o t
    BY <1>8
  <2>3. Len(s) + Len(t) = m
    BY <1>3, <2>1
  <2> HIDE DEF s, t
  <2>4. /\ s \o t \in Seq(S) /\ Len(s \o t) = m
        /\ \A k \in 1 .. m : (s \o t)[k] = IF k <= m - 1 THEN s[k] ELSE t[k - (m - 1)]
    BY <1>9, <2>1, <2>3
  <2>5. /\ f[m] \in Seq(S) /\ Len(f[m]) = m
        /\ \A k \in 1 .. m : f[m][k] = IF k <= m - 1 THEN s[k] ELSE t[k - (m - 1)]
    BY <2>2, <2>4
  <2> QED
    BY <2>5 DEF s, t
<1>11. ASSUME NEW k \in 1 .. m PROVE f[m][k] = seqs[k][1]
  <2>1. CASE k = m
    <3>1. ~(m <= m - 1) /\ m - (m - 1) = 1
      BY <1>3
    <3> QED
      BY <1>10, <2>1, <3>1
  <2>2. CASE k # m
    <3>1. k \in 1 .. (m - 1) /\ k <= m - 1
      BY <1>3, <2>2
    <3> QED
      BY <1>7, <1>10, <3>1
  <2> QED
    BY <2>1, <2>2
<1>12. OnesTo(f, seqs, S, m)
  BY <1>10, <1>11 DEF OnesTo
<1> QED
  BY <1>3, <1>12

LEMMA FlattenOnes ==
  ASSUME NEW S, NEW seqs \in Seq(Seq(S)), \A i \in DOMAIN seqs : Len(seqs[i]) = 1
  PROVE  /\ Len(FlattenSeq(seqs)) = Len(seqs)
         /\ \A i \in DOMAIN seqs : FlattenSeq(seqs)[i] = seqs[i][1]
<1>1. /\ Len(seqs) \in Nat /\ DOMAIN seqs = 1 .. Len(seqs)
      /\ \A i \in 1 .. Len(seqs) : seqs[i] \in Seq(S) /\ Len(seqs[i]) = 1
  OBVIOUS
<1>2. CASE Len(seqs) = 0
  BY <1>1, <1>2, FlattenIs
<1>3. CASE Len(seqs) # 0
  <2>1. PICK f : Flattens(f, seqs, Len(seqs)) /\ FlattenSeq(seqs) = f[Len(seqs)]
    BY <1>1, <1>3, FlattenIs
  <2>2. OnesTo(f, seqs, S, Len(seqs))
    BY <1>1, <1>3, <2>1, FlattenOnesTo
  <2> QED
    BY <1>1, <2>1, <2>2 DEF OnesTo
<1> QED
  BY <1>2, <1>3

-----------------------------------------------------------------------------
(* The place of a number in a set of them.                                 *)

LEMMA PlaceBelow ==
  ASSUME NEW S, S \subseteq Nat, IsFiniteSet(S), NEW n \in S
  PROVE  Place(n, S) \in 1 .. Cardinality(S)
<1> DEFINE B == {m \in S : m <= n}
<1>1. B \in SUBSET S /\ n \in B
  BY DEF B
<1> HIDE DEF B
<1>2. IsFiniteSet(B) /\ Cardinality(B) <= Cardinality(S)
  BY <1>1, FS_Subset
<1>3. Cardinality(B) \in Nat /\ Cardinality(S) \in Nat /\ Cardinality(B) # 0
  BY <1>1, <1>2, FS_CardinalityType, FS_EmptySet
<1>4. Place(n, S) = Cardinality(B)
  BY DEF Place, B
<1> QED
  BY <1>2, <1>3, <1>4

LEMMA PlaceGrows ==
  ASSUME NEW S, S \subseteq Nat, IsFiniteSet(S), NEW m \in S, NEW n \in S, m < n
  PROVE  Place(m, S) < Place(n, S)
<1> DEFINE B(k) == {l \in S : l <= k}
<1>0. m \in Nat /\ n \in Nat
  OBVIOUS
<1>1. B(n) \in SUBSET S /\ n \in B(n) /\ n \notin B(m) /\ B(m) \in SUBSET B(n)
  <2>1. B(n) \in SUBSET S
    OBVIOUS
  <2>2. n \in B(n) /\ n \notin B(m)
    BY <1>0
  <2>3. ASSUME NEW l \in B(m) PROVE l \in B(n)
    <3>1. l \in S /\ l \in Nat /\ l <= m
      OBVIOUS
    <3> QED
      BY <1>0, <3>1
  <2> QED
    BY <2>1, <2>2, <2>3
<1>2. Place(m, S) = Cardinality(B(m)) /\ Place(n, S) = Cardinality(B(n))
  BY DEF Place
<1> HIDE DEF B
<1>3. IsFiniteSet(B(n))
  BY <1>1, FS_Subset
<1>4. /\ IsFiniteSet(B(m)) /\ Cardinality(B(m)) <= Cardinality(B(n))
      /\ Cardinality(B(m)) # Cardinality(B(n))
  BY <1>1, <1>3, FS_Subset
<1>5. Cardinality(B(m)) \in Nat /\ Cardinality(B(n)) \in Nat
  BY <1>3, <1>4, FS_CardinalityType
<1> QED
  BY <1>2, <1>4, <1>5

LEMMA PlaceOrders ==
  ASSUME NEW S, S \subseteq Nat, IsFiniteSet(S), NEW m \in S, NEW n \in S
  PROVE  /\ Place(m, S) = Place(n, S) => m = n
         /\ Place(m, S) < Place(n, S) => m < n
<1>1. m \in Nat /\ n \in Nat
  OBVIOUS
<1>2. Place(m, S) \in Nat /\ Place(n, S) \in Nat
  <2>1. Cardinality(S) \in Nat
    BY FS_CardinalityType
  <2>2. Place(m, S) \in 1 .. Cardinality(S) /\ Place(n, S) \in 1 .. Cardinality(S)
    BY PlaceBelow
  <2> QED
    BY <2>1, <2>2
<1>3. m < n => Place(m, S) < Place(n, S)
  BY PlaceGrows
<1>4. n < m => Place(n, S) < Place(m, S)
  BY PlaceGrows
<1> QED
  BY <1>1, <1>2, <1>3, <1>4

\* Every place is taken.
LEMMA PlaceTaken ==
  ASSUME NEW S, S \subseteq Nat, IsFiniteSet(S), NEW k \in 1 .. Cardinality(S)
  PROVE  \E n \in S : Place(n, S) = k
<1> DEFINE T == 1 .. Cardinality(S)
           f == [n \in S |-> Place(n, S)]
<1>1. Cardinality(S) \in Nat
  BY FS_CardinalityType
<1>2. IsFiniteSet(T) /\ Cardinality(T) = Cardinality(S)
  <2>1. 1 \in Int /\ Cardinality(S) \in Int
    BY <1>1
  <2>2. IsFiniteSet(T) /\ Cardinality(T) = IF 1 > Cardinality(S) THEN 0 ELSE Cardinality(S) - 1 + 1
    BY <2>1, FS_Interval
  <2> QED
    BY <1>1, <2>2
<1>3. f \in [S -> T]
  BY PlaceBelow
<1>4. \A m, n \in S : f[m] = f[n] => m = n
  BY PlaceOrders
<1> HIDE DEF f, T
<1>5. f \in Injection(S, T)
  BY <1>3, <1>4 DEF Injection, IsInjective
<1>6. f \in Surjection(S, T)
  BY <1>2, <1>5, FS_Injection
<1>7. \E n \in S : f[n] = k
  BY <1>6 DEF Surjection, T
<1> QED
  BY <1>7 DEF f

\* What qsort and the removal of what is there twice leave.
LEMMA SortedIs ==
  ASSUME NEW counts \in Seq(Nat)
  PROVE  /\ IsFiniteSet(Range(counts)) /\ Range(counts) \subseteq Nat
         /\ Cardinality(Range(counts)) \in Nat
         /\ Sorted(counts) \in Seq(Nat)
         /\ Len(Sorted(counts)) = Cardinality(Range(counts))
         /\ \A k \in 1 .. Cardinality(Range(counts)) :
              /\ Sorted(counts)[k] \in Range(counts)
              /\ Place(Sorted(counts)[k], Range(counts)) = k
<1> DEFINE S == Range(counts)
           s == Sorted(counts)
<1>1. S \subseteq Nat
  BY DEF Range
<1>2. IsFiniteSet(S)
  <2>1. counts \in Surjection(1 .. Len(counts), S)
    BY DEF Surjection, Range
  <2>2. IsFiniteSet(1 .. Len(counts))
    BY FS_Interval
  <2> QED
    BY <2>1, <2>2, FS_Surjection
<1>3. Cardinality(S) \in Nat
  BY <1>2, FS_CardinalityType
<1>4. s = [k \in 1 .. Cardinality(S) |-> CHOOSE n \in S : Place(n, S) = k]
  BY DEF Sorted
<1> HIDE DEF S, s
<1>5. ASSUME NEW k \in 1 .. Cardinality(S)
      PROVE  s[k] \in S /\ Place(s[k], S) = k
  <2>1. \E n \in S : Place(n, S) = k
    BY <1>1, <1>2, PlaceTaken
  <2>2. s[k] = CHOOSE n \in S : Place(n, S) = k
    BY <1>4
  <2> QED
    BY <2>1, <2>2
<1>6. s \in [1 .. Cardinality(S) -> Nat]
  BY <1>1, <1>4, <1>5
<1>7. s \in Seq(Nat) /\ Len(s) = Cardinality(S)
  BY <1>3, <1>6, SequenceIs
<1> QED
  BY <1>1, <1>2, <1>3, <1>5, <1>7 DEF S, s

-----------------------------------------------------------------------------
(* Hashing on.                                                             *)

Hashes(h, data, n) == h = [k \in 0 .. n |-> IF k = 0 THEN data ELSE HashKey(h[k - 1])]

LEMMA HashesExist ==
  ASSUME NEW n \in Nat, NEW data
  PROVE  \E h : Hashes(h, data, n)
<1> DEFINE F == {m \in 0 .. n : ~ \E h : Hashes(h, data, m)}
<1> SUFFICES ASSUME F # {} PROVE FALSE
  OBVIOUS
<1> HIDE DEF F
<1>1. F \subseteq Nat
  BY DEF F
<1>2. PICK m \in F : \A k \in F : m <= k
  BY <1>1, SmallestOne
<1>3. m \in 0 .. n /\ ~ \E h : Hashes(h, data, m)
  BY DEF F
<1>4. m # 0
  <2>1. Hashes([k \in 0 .. 0 |-> data], data, 0)
    BY DEF Hashes
  <2> QED
    BY <1>3, <2>1
<1>5. m - 1 \in 0 .. n /\ m - 1 \notin F
  BY <1>2, <1>3, <1>4
<1>6. PICK g : Hashes(g, data, m - 1)
  BY <1>5 DEF F
<1> DEFINE h == [k \in 0 .. m |-> IF k = m THEN HashKey(g[m - 1]) ELSE g[k]]
<1>7. ASSUME NEW k \in 0 .. m
      PROVE  h[k] = IF k = 0 THEN data ELSE HashKey(h[k - 1])
  <2>1. k # 0 => k - 1 \in 0 .. m /\ k - 1 # m /\ h[k - 1] = g[k - 1]
    BY <1>3, <1>7
  <2>2. CASE k = m
    BY <1>4, <2>1, <2>2
  <2>3. CASE k # m
    <3>1. k \in 0 .. (m - 1) /\ h[k] = g[k]
      BY <1>3, <1>7, <2>3
    <3>2. g[k] = IF k = 0 THEN data ELSE HashKey(g[k - 1])
      BY <1>6, <3>1 DEF Hashes
    <3> QED
      BY <2>1, <3>1, <3>2
  <2> QED
    BY <2>2, <2>3
<1>8. h = [k \in 0 .. m |-> h[k]]
  OBVIOUS
<1> HIDE DEF h
<1>9. Hashes(h, data, m)
  BY <1>7, <1>8 DEF Hashes
<1> QED
  BY <1>3, <1>9

\* Two such functions agree where both are defined.
LEMMA HashesAgree ==
  ASSUME NEW m \in Nat, NEW n \in Nat, m <= n, NEW data, NEW g, NEW h,
         Hashes(g, data, m), Hashes(h, data, n)
  PROVE  g[m] = h[m]
<1> DEFINE F == {k \in 0 .. m : g[k] # h[k]}
<1> SUFFICES ASSUME F # {} PROVE FALSE
  OBVIOUS
<1> HIDE DEF F
<1>1. F \subseteq Nat
  BY DEF F
<1>2. PICK k \in F : \A l \in F : k <= l
  BY <1>1, SmallestOne
<1>3. k \in 0 .. m /\ k \in 0 .. n /\ g[k] # h[k]
  BY DEF F
<1>4. /\ g[k] = IF k = 0 THEN data ELSE HashKey(g[k - 1])
      /\ h[k] = IF k = 0 THEN data ELSE HashKey(h[k - 1])
  BY <1>3 DEF Hashes
<1>5. k # 0 /\ k - 1 \in 0 .. m /\ k - 1 \notin F
  BY <1>2, <1>3, <1>4
<1>6. g[k - 1] = h[k - 1]
  BY <1>5 DEF F
<1> QED
  BY <1>3, <1>4, <1>5, <1>6

LEMMA RehashedIs ==
  ASSUME NEW n \in Nat, NEW data
  PROVE  \E h : Hashes(h, data, n) /\ Rehashed(data, n) = h[n]
<1> DEFINE h == CHOOSE g : Hashes(g, data, n)
<1>1. Hashes(h, data, n)
  BY HashesExist
<1>2. Rehashed(data, n) = h[n]
  BY DEF Rehashed, Hashes
<1> QED
  BY <1>1, <1>2

\* One hash more.
LEMMA RehashedNext ==
  ASSUME NEW n \in Nat, NEW data
  PROVE  Rehashed(data, 0) = data /\ Rehashed(data, n + 1) = HashKey(Rehashed(data, n))
<1>1. PICK h : Hashes(h, data, n + 1) /\ Rehashed(data, n + 1) = h[n + 1]
  BY RehashedIs
<1>2. PICK g : Hashes(g, data, n) /\ Rehashed(data, n) = g[n]
  BY RehashedIs
<1>3. PICK z : Hashes(z, data, 0) /\ Rehashed(data, 0) = z[0]
  BY RehashedIs
<1>4. n + 1 \in 0 .. n + 1 /\ n + 1 # 0 /\ (n + 1) - 1 = n /\ n <= n + 1 /\ n + 1 \in Nat
  OBVIOUS
<1>5. g[n] = h[n]
  BY <1>1, <1>2, <1>4, HashesAgree
<1>6. h[n + 1] = HashKey(h[n])
  BY <1>1, <1>4 DEF Hashes
<1>7. z[0] = data
  BY <1>3 DEF Hashes
<1> QED
  BY <1>1, <1>2, <1>3, <1>5, <1>6, <1>7

\* Hashing on from a times to a + b times.
LEMMA RehashedOn ==
  ASSUME NEW a \in Nat, NEW b \in Nat, NEW data
  PROVE  Rehashed(Rehashed(data, a), b) = Rehashed(data, a + b)
<1> DEFINE F == {k \in Nat : Rehashed(Rehashed(data, a), k) # Rehashed(data, a + k)}
<1> SUFFICES ASSUME F # {} PROVE FALSE
  OBVIOUS
<1> HIDE DEF F
<1>1. F \subseteq Nat
  BY DEF F
<1>2. PICK k \in F : \A l \in F : k <= l
  BY <1>1, SmallestOne
<1>3. k \in Nat /\ Rehashed(Rehashed(data, a), k) # Rehashed(data, a + k)
  BY DEF F
<1>4. k # 0
  <2> SUFFICES ASSUME k = 0 PROVE FALSE
    OBVIOUS
  <2>1. Rehashed(Rehashed(data, a), 0) = Rehashed(data, a) /\ a + 0 = a
    BY RehashedNext
  <2> QED
    BY <1>3, <2>1
<1> DEFINE l == k - 1
<1>5. l \in Nat /\ k = l + 1 /\ a + l \in Nat /\ a + k = (a + l) + 1 /\ l \notin F
  BY <1>2, <1>3, <1>4
<1> HIDE DEF l
<1>6. Rehashed(Rehashed(data, a), l) = Rehashed(data, a + l)
  BY <1>5 DEF F
<1>7. Rehashed(Rehashed(data, a), k) = HashKey(Rehashed(Rehashed(data, a), l))
  BY <1>5, RehashedNext
<1>8. Rehashed(data, a + k) = HashKey(Rehashed(data, a + l))
  BY <1>5, RehashedNext
<1> QED
  BY <1>3, <1>6, <1>7, <1>8

Rows(row, data, counts, n) ==
  row = [k \in 1 .. n |-> IF k = 1 THEN Rehashed(data, counts[1])
                          ELSE Rehashed(row[k - 1], counts[k] - counts[k - 1])]

LEMMA RowsExist ==
  ASSUME NEW n \in Nat, NEW data, NEW counts
  PROVE  \E row : Rows(row, data, counts, n)
<1> DEFINE F == {m \in 0 .. n : ~ \E row : Rows(row, data, counts, m)}
<1> SUFFICES ASSUME F # {} PROVE FALSE
  OBVIOUS
<1> HIDE DEF F
<1>1. F \subseteq Nat
  BY DEF F
<1>2. PICK m \in F : \A k \in F : m <= k
  BY <1>1, SmallestOne
<1>3. m \in 0 .. n /\ ~ \E row : Rows(row, data, counts, m)
  BY DEF F
<1>4. m # 0
  <2>1. Rows(<<>>, data, counts, 0)
    BY DEF Rows
  <2> QED
    BY <1>3, <2>1
<1>5. m - 1 \in 0 .. n /\ m - 1 \notin F
  BY <1>2, <1>3, <1>4
<1>6. PICK g : Rows(g, data, counts, m - 1)
  BY <1>5 DEF F
<1> DEFINE new == IF m = 1 THEN Rehashed(data, counts[1])
                  ELSE Rehashed(g[m - 1], counts[m] - counts[m - 1])
           h == [k \in 1 .. m |-> IF k = m THEN new ELSE g[k]]
<1>7. ASSUME NEW k \in 1 .. m
      PROVE  h[k] = IF k = 1 THEN Rehashed(data, counts[1])
                    ELSE Rehashed(h[k - 1], counts[k] - counts[k - 1])
  <2>1. k # 1 => k - 1 \in 1 .. m /\ k - 1 # m /\ h[k - 1] = g[k - 1]
    BY <1>3, <1>7
  <2>2. CASE k = m
    BY <2>1, <2>2
  <2>3. CASE k # m
    <3>1. k \in 1 .. (m - 1) /\ h[k] = g[k]
      BY <1>3, <1>7, <2>3
    <3>2. g[k] = IF k = 1 THEN Rehashed(data, counts[1])
                 ELSE Rehashed(g[k - 1], counts[k] - counts[k - 1])
      BY <1>6, <3>1 DEF Rows
    <3> QED
      BY <2>1, <3>1, <3>2
  <2> QED
    BY <2>2, <2>3
<1>8. h = [k \in 1 .. m |-> h[k]]
  OBVIOUS
<1> HIDE DEF h
<1>9. Rows(h, data, counts, m)
  BY <1>7, <1>8 DEF Rows
<1> QED
  BY <1>3, <1>9

\* Counts that grow: each place has been hashed as often as its count says.
LEMMA HashedDataIs ==
  ASSUME NEW counts \in Seq(Nat), NEW data,
         \A k \in 1 .. Len(counts) : k # 1 => counts[k - 1] < counts[k],
         NEW k \in 1 .. Len(counts)
  PROVE  HashedData(data, counts)[k] = Rehashed(data, counts[k])
<1> DEFINE row == HashedData(data, counts)
<1>1. Len(counts) \in Nat /\ DOMAIN counts = 1 .. Len(counts)
      /\ \A l \in 1 .. Len(counts) : counts[l] \in Nat
  OBVIOUS
<1>2. Rows(row, data, counts, Len(counts))
  <2>1. \E r : Rows(r, data, counts, Len(counts))
    BY <1>1, RowsExist
  <2>2. row = CHOOSE r : Rows(r, data, counts, Len(counts))
    BY <1>1 DEF HashedData, Rows
  <2> QED
    BY <2>1, <2>2
<1> HIDE DEF row
<1> DEFINE F == {m \in 1 .. Len(counts) : row[m] # Rehashed(data, counts[m])}
<1> SUFFICES ASSUME F # {} PROVE FALSE
  BY DEF row
<1> HIDE DEF F
<1>3. F \subseteq Nat
  BY DEF F
<1>4. PICK m \in F : \A l \in F : m <= l
  BY <1>3, SmallestOne
<1>5. m \in 1 .. Len(counts) /\ row[m] # Rehashed(data, counts[m])
  BY DEF F
<1>6. row[m] = IF m = 1 THEN Rehashed(data, counts[1])
               ELSE Rehashed(row[m - 1], counts[m] - counts[m - 1])
  BY <1>2, <1>5 DEF Rows
<1>7. m # 1
  BY <1>5, <1>6
<1>8. m - 1 \in 1 .. Len(counts) /\ m - 1 \notin F
  BY <1>1, <1>4, <1>5, <1>7
<1>9. row[m - 1] = Rehashed(data, counts[m - 1])
  BY <1>8 DEF F
<1> DEFINE a == counts[m - 1]
           b == counts[m] - counts[m - 1]
<1>10. a \in Nat /\ b \in Nat /\ a + b = counts[m]
  <2>1. counts[m] \in Nat /\ counts[m - 1] \in Nat /\ counts[m - 1] < counts[m]
    BY <1>1, <1>5, <1>7, <1>8
  <2> QED
    BY <2>1
<1>11. row[m] = Rehashed(Rehashed(data, a), b)
  BY <1>6, <1>7, <1>9
<1> HIDE DEF a, b
<1>12. Rehashed(Rehashed(data, a), b) = Rehashed(data, a + b)
  BY <1>10, RehashedOn
<1> QED
  BY <1>5, <1>10, <1>11, <1>12

-----------------------------------------------------------------------------
(* The rehash list.                                                        *)

\* The numbers a token asks for.
Asked(token, text) ==
  IF token = Star THEN {n \in Range(Numbers(text)) : n <= RehashMax} ELSE {token}

LEMMA WildcardIs ==
  ASSUME NEW text \in Texts
  PROVE  Wildcard(text) \in Seq(Nat) /\ Range(Wildcard(text)) = Asked(Star, text)
<1> DEFINE N == Numbers(text)
           part(k) == IF N[k] <= RehashMax THEN << N[k] >> ELSE <<>>
           parts == [k \in DOMAIN N |-> part(k)]
<1>1. N \in Seq(Nat)
  BY KeyCommandsAssumption
<1> HIDE DEF N
<1>2. Len(N) \in Nat /\ DOMAIN N = 1 .. Len(N) /\ \A k \in 1 .. Len(N) : N[k] \in Nat
  BY <1>1
<1>3. \A k \in DOMAIN N : part(k) \in Seq(Nat)
  BY <1>2
<1>4. parts \in Seq(Seq(Nat)) /\ Len(parts) = Len(N) /\ DOMAIN parts = DOMAIN N
  <2>1. parts \in [1 .. Len(N) -> Seq(Nat)]
    BY <1>2, <1>3
  <2> HIDE DEF parts
  <2> QED
    BY <1>2, <2>1, SequenceIs
<1>5. \A k \in DOMAIN N : Range(parts[k]) = IF N[k] <= RehashMax THEN {N[k]} ELSE {}
  <2> TAKE k \in DOMAIN N
  <2>1. parts[k] = IF N[k] <= RehashMax THEN << N[k] >> ELSE <<>>
    OBVIOUS
  <2>2. Range(<< N[k] >>) = {N[k]} /\ Range(<<>>) = {}
    BY DEF Range
  <2> QED
    BY <2>1, <2>2
<1>6. Wildcard(text) = FlattenSeq(parts)
  BY DEF Wildcard, N
<1> HIDE DEF parts
<1>7. /\ Wildcard(text) \in Seq(Nat)
      /\ \A x : x \in Range(Wildcard(text)) <=> \E k \in DOMAIN parts : x \in Range(parts[k])
  BY <1>4, <1>6, FlattenRange
<1>8. ASSUME NEW x
      PROVE  x \in Range(Wildcard(text)) <=> x \in Range(N) /\ x <= RehashMax
  <2>1. x \in Range(Wildcard(text)) <=> \E k \in DOMAIN N : N[k] <= RehashMax /\ x = N[k]
    <3>1. \A k \in DOMAIN N : x \in Range(parts[k]) <=> N[k] <= RehashMax /\ x = N[k]
      BY <1>5, Zenon
    <3>2. x \in Range(Wildcard(text)) <=> \E k \in DOMAIN N : x \in Range(parts[k])
      BY <1>4, <1>7, Zenon
    <3> QED
      BY <3>1, <3>2, Zenon
  <2>2. x \in Range(N) <=> \E k \in DOMAIN N : x = N[k]
    BY DEF Range
  <2> QED
    BY <2>1, <2>2
<1> QED
  BY <1>7, <1>8 DEF Asked, N

List == [counts : Seq(Nat), status : {"ok", "failed", "overrun"}]

LEMMA CollectIs ==
  ASSUME NEW list \in List, NEW token \in Nat \cup {Star}, NEW text \in Texts, NEW kind
  PROVE  /\ Collect(list, token, text, kind) \in List
         /\ Collect(list, token, text, kind).status = "ok" =>
              /\ list.status = "ok"
              /\ Range(Collect(list, token, text, kind).counts)
                   = Range(list.counts) \cup Asked(token, text)
<1> DEFINE more == IF token = Star THEN Wildcard(text) ELSE <<token>>
           counts == list.counts
<1>1. more \in Seq(Nat) /\ Range(more) = Asked(token, text)
  <2>1. CASE token = Star
    BY <2>1, WildcardIs
  <2>2. CASE token # Star
    <3>1. token \in Nat /\ more = <<token>> /\ Range(<<token>>) = {token}
      BY <2>2 DEF Range
    <3> QED
      BY <2>2, <3>1 DEF Asked
  <2> QED
    BY <2>1, <2>2
<1>2. counts \in Seq(Nat) /\ list = [counts |-> counts, status |-> list.status]
  BY DEF List
<1> HIDE DEF more, counts
<1>3. counts \o more \in Seq(Nat) /\ Range(counts \o more) = Range(counts) \cup Range(more)
  BY <1>1, <1>2, ConcatRange
<1> DEFINE r == Collect(list, token, text, kind)
<1>4. \/ r = list /\ list.status # "ok"
      \/ r = [list EXCEPT !.status = "failed"]
      \/ r = [list EXCEPT !.status = "overrun"]
      \/ r = [list EXCEPT !.counts = counts \o more] /\ list.status = "ok"
  BY DEF Collect, more, counts
<1> HIDE DEF r
<1>5. CASE r = list /\ list.status # "ok"
  BY <1>5 DEF r
<1>6. CASE r \in {[list EXCEPT !.status = "failed"], [list EXCEPT !.status = "overrun"]}
  <2>1. r \in List /\ r.status # "ok"
    BY <1>6 DEF List
  <2> QED
    BY <2>1 DEF r
<1>7. CASE r = [list EXCEPT !.counts = counts \o more] /\ list.status = "ok"
  <2>1. r = [counts |-> counts \o more, status |-> "ok"]
    BY <1>2, <1>7
  <2>2. r \in List /\ r.counts = counts \o more
    BY <1>3, <2>1 DEF List
  <2> QED
    BY <1>1, <1>3, <1>7, <2>2 DEF r, counts
<1> QED
  BY <1>4, <1>5, <1>6, <1>7

Lists(f, tokens, text, kind, n) ==
  f = [k \in 0 .. n |-> IF k = 0 THEN [counts |-> <<>>, status |-> "ok"]
                        ELSE Collect(f[k - 1], tokens[k], text, kind)]

LEMMA ListsExist ==
  ASSUME NEW n \in Nat, NEW tokens, NEW text, NEW kind
  PROVE  \E f : Lists(f, tokens, text, kind, n)
<1> DEFINE F == {m \in 0 .. n : ~ \E f : Lists(f, tokens, text, kind, m)}
           none == [counts |-> <<>>, status |-> "ok"]
<1> HIDE DEF none
<1> SUFFICES ASSUME F # {} PROVE FALSE
  OBVIOUS
<1> HIDE DEF F
<1>1. F \subseteq Nat
  BY DEF F
<1>2. PICK m \in F : \A k \in F : m <= k
  BY <1>1, SmallestOne
<1>3. m \in 0 .. n /\ ~ \E f : Lists(f, tokens, text, kind, m)
  BY DEF F
<1>4. m # 0
  <2>1. Lists([k \in 0 .. 0 |-> none], tokens, text, kind, 0)
    BY DEF Lists, none
  <2> QED
    BY <1>3, <2>1
<1>5. m - 1 \in 0 .. n /\ m - 1 \notin F
  BY <1>2, <1>3, <1>4
<1>6. PICK g : Lists(g, tokens, text, kind, m - 1)
  BY <1>5 DEF F
<1> DEFINE h == [k \in 0 .. m |-> IF k = m THEN Collect(g[m - 1], tokens[m], text, kind) ELSE g[k]]
<1>7. ASSUME NEW k \in 0 .. m
      PROVE  h[k] = IF k = 0 THEN none ELSE Collect(h[k - 1], tokens[k], text, kind)
  <2>1. k # 0 => k - 1 \in 0 .. m /\ k - 1 # m /\ h[k - 1] = g[k - 1]
    BY <1>3, <1>7
  <2>2. CASE k = m
    BY <1>4, <2>1, <2>2
  <2>3. CASE k # m
    <3>1. k \in 0 .. (m - 1) /\ h[k] = g[k]
      BY <1>3, <1>7, <2>3
    <3>2. g[k] = IF k = 0 THEN none ELSE Collect(g[k - 1], tokens[k], text, kind)
      BY <1>6, <3>1 DEF Lists, none
    <3> QED
      BY <2>1, <3>1, <3>2
  <2> QED
    BY <2>2, <2>3
<1>8. h = [k \in 0 .. m |-> h[k]]
  OBVIOUS
<1> HIDE DEF h
<1>9. Lists(h, tokens, text, kind, m)
  BY <1>7, <1>8 DEF Lists, none
<1> QED
  BY <1>3, <1>9

\* A list that is accepted holds what its tokens ask for.
Holds(list, tokens, text, k) ==
  /\ list \in List
  /\ list.status = "ok" =>
       \A n : n \in Range(list.counts) <=> \E j \in 1 .. k : n \in Asked(tokens[j], text)

LEMMA RehashListIs ==
  ASSUME NEW tokens \in Seq(Nat \cup {Star}), NEW text \in Texts, NEW kind
  PROVE  Holds(RehashList(tokens, text, kind), tokens, text, Len(tokens))
<1> DEFINE n == Len(tokens)
           f == CHOOSE g : Lists(g, tokens, text, kind, n)
<1>1. n \in Nat /\ \A k \in 1 .. n : tokens[k] \in Nat \cup {Star}
  OBVIOUS
<1>2. RehashList(tokens, text, kind) = f[n]
  BY DEF RehashList, Lists
<1> HIDE DEF n
<1>3. Lists(f, tokens, text, kind, n)
  BY <1>1, ListsExist
<1> HIDE DEF f
<1> DEFINE F == {k \in 0 .. n : ~Holds(f[k], tokens, text, k)}
<1> SUFFICES ASSUME F # {} PROVE FALSE
  BY <1>1, <1>2 DEF n
<1> HIDE DEF F
<1>4. F \subseteq Nat
  BY DEF F
<1>5. PICK m \in F : \A k \in F : m <= k
  BY <1>4, SmallestOne
<1>6. m \in 0 .. n /\ ~Holds(f[m], tokens, text, m)
  BY DEF F
<1>7. f[m] = IF m = 0 THEN [counts |-> <<>>, status |-> "ok"]
             ELSE Collect(f[m - 1], tokens[m], text, kind)
  BY <1>3, <1>6 DEF Lists
<1>8. m # 0
  <2> SUFFICES ASSUME m = 0 PROVE FALSE
    OBVIOUS
  <2>1. f[0] \in List /\ f[0].counts = <<>> /\ (1 .. 0) = {}
    BY <1>7 DEF List
  <2>2. Range(<<>>) = {}
    BY DEF Range
  <2>3. Holds(f[0], tokens, text, 0)
    BY <2>1, <2>2 DEF Holds
  <2> QED
    BY <1>6, <2>3
<1>9. m - 1 \in 0 .. n /\ m - 1 \notin F /\ m \in 1 .. n
  BY <1>1, <1>5, <1>6, <1>8
<1>10. Holds(f[m - 1], tokens, text, m - 1)
  BY <1>9 DEF F
<1> DEFINE old == f[m - 1]
           new == f[m]
<1>11. new = Collect(old, tokens[m], text, kind) /\ old \in List /\ tokens[m] \in Nat \cup {Star}
  BY <1>1, <1>7, <1>8, <1>9, <1>10 DEF Holds
<1> HIDE DEF old, new
<1>12. /\ new \in List
       /\ new.status = "ok" => /\ old.status = "ok"
                               /\ Range(new.counts) = Range(old.counts) \cup Asked(tokens[m], text)
  BY <1>11, CollectIs
<1>13. ASSUME new.status = "ok", NEW x
       PROVE  x \in Range(new.counts) <=> \E j \in 1 .. m : x \in Asked(tokens[j], text)
  <2>1. x \in Range(old.counts) <=> \E j \in 1 .. (m - 1) : x \in Asked(tokens[j], text)
    BY <1>10, <1>12, <1>13 DEF Holds, old
  <2>2. (1 .. m) = (1 .. (m - 1)) \cup {m}
    BY <1>9
  <2>3. Range(new.counts) = Range(old.counts) \cup Asked(tokens[m], text)
    BY <1>12, <1>13
  <2> QED
    BY <2>1, <2>2, <2>3
<1>14. Holds(new, tokens, text, m)
  BY <1>12, <1>13 DEF Holds
<1> QED
  BY <1>6, <1>14 DEF new

-----------------------------------------------------------------------------
(* What a text may be read as.                                             *)

IsKey(key) == key = [data |-> key.data, compressed |-> key.compressed]

\* A text is at most one WIF and at most one number.
LEMMA WifIs ==
  ASSUME NEW text, NEW x \in FromWif(text)
  PROVE  /\ FromWif(text) = {x} /\ IsKey(x)
         /\ text.kind = "wif"
BY DEF FromWif, Key, IsKey

LEMMA HexIs ==
  ASSUME NEW text, NEW x \in FromHex(text)
  PROVE  FromHex(text) = {x} /\ IsKey(x)
<1> DEFINE data == Number(SubSeq(text.digits, 1, KeyDigits), HexBase)
<1> HIDE DEF data
<1>1. FromHex(text) \in {{}, {Key(data, FALSE)}, {Key(data, TRUE)}}
  BY DEF FromHex, data
<1>2. IsKey(Key(data, FALSE)) /\ IsKey(Key(data, TRUE))
  BY DEF IsKey, Key
<1>3. \E key : FromHex(text) = {key} /\ IsKey(key)
  BY <1>1, <1>2
<1> QED
  BY <1>3

LEMMA DecIs ==
  ASSUME NEW text, NEW x \in FromDec(text)
  PROVE  FromDec(text) = {x} /\ IsKey(x)
<1>1. \E t : FromDec(text) = FromHex(t)
  BY DEF FromDec
<1> QED
  BY <1>1, HexIs

LEMMA StrIs ==
  ASSUME NEW text, NEW x \in FromStr(text)
  PROVE  IsKey(x) /\ x.data = Hash(text)
BY DEF FromStr, Key, IsKey

\* The keys a text is read as differ in the compression flag of a string only.
ByHash(way, text) ==
  way \in {"string", "blob"} \/ (way = "none" /\ FromStr(text) = FromGuess(text))

LEMMA ReadIs ==
  ASSUME NEW way \in InputTypes, NEW text,
         NEW x \in ReadPrivkey(way, text), NEW y \in ReadPrivkey(way, text)
  PROVE  /\ IsKey(x) /\ IsKey(y) /\ x.data = y.data
         /\ ~ByHash(way, text) => x = y
<1>1. CASE x \in FromStr(text) /\ y \in FromStr(text) /\ ByHash(way, text)
  <2>1. IsKey(x) /\ x.data = Hash(text)
    BY <1>1, StrIs
  <2>2. IsKey(y) /\ y.data = Hash(text)
    BY <1>1, StrIs
  <2> QED
    BY <1>1, <2>1, <2>2
<1>2. CASE x \in FromWif(text) /\ y \in FromWif(text)
  BY <1>2, WifIs
<1>3. CASE x \in FromHex(text) /\ y \in FromHex(text)
  BY <1>3, HexIs
<1>4. CASE x \in FromDec(text) /\ y \in FromDec(text)
  BY <1>4, DecIs
<1>5. CASE way = "none"
  <2>1. \/ FromGuess(text) = FromWif(text) \/ FromGuess(text) = FromHex(text)
        \/ FromGuess(text) = FromDec(text) \/ FromGuess(text) = FromStr(text)
    BY DEF FromGuess
  <2>2. x \in FromGuess(text) /\ y \in FromGuess(text)
    BY <1>5 DEF ReadPrivkey
  <2> QED
    BY <1>1, <1>2, <1>3, <1>4, <1>5, <2>1, <2>2 DEF ByHash
<1>6. CASE way \in {"string", "blob"}
  <2>1. x \in FromStr(text) /\ y \in FromStr(text)
    BY <1>6 DEF ReadPrivkey, FromBlob
  <2> QED
    BY <1>1, <1>6, <2>1 DEF ByHash
<1>7. CASE way = "wif"
  BY <1>2, <1>7 DEF ReadPrivkey
<1>8. CASE way \in {"hex", "raw"}
  BY <1>3, <1>8 DEF ReadPrivkey, FromRaw
<1>9. CASE way \in {"decimal", "sbd"}
  <2>1. x \in FromDec(text) /\ y \in FromDec(text)
    BY <1>9 DEF ReadPrivkey
  <2> QED
    BY <1>4, <2>1
<1> QED
  BY <1>5, <1>6, <1>7, <1>8, <1>9 DEF InputTypes

\* A text is at most one public key, and a WIF that is one is a right one.
LEMMA WifPubkey ==
  ASSUME NEW text, NEW x \in PubkeyFromWif(text)
  PROVE  PubkeyFromWif(text) = {x} /\ FromWif(text) # {}
<1>1. PICK key \in FromWif(text) : x \in PubkeyOf(key)
  BY DEF PubkeyFromWif
<1>2. FromWif(text) = {key} /\ PubkeyOf(key) = {x}
  BY <1>1, WifIs DEF PubkeyOf
<1>3. PubkeyFromWif(text) = PubkeyOf(key)
  BY <1>2 DEF PubkeyFromWif
<1> QED
  BY <1>2, <1>3

LEMMA PubkeyIs ==
  ASSUME NEW way, NEW text, NEW x \in ReadPubkey(way, text)
  PROVE  /\ ReadPubkey(way, text) = {x}
         /\ text.kind = "wif" => FromWif(text) # {}
<1>1. CASE ReadPubkey(way, text) = PubkeyFromWif(text)
  BY <1>1, WifPubkey
<1>2. CASE ReadPubkey(way, text) = PubkeyFromHex(text)
  BY <1>2 DEF PubkeyFromHex
<1> QED
  BY <1>1, <1>2 DEF ReadPubkey, PubkeyFromGuess

\* An address from a WIF.
LEMMA AddressIs ==
  ASSUME NEW text, NEW net, NEW x \in AddressOf(FromWif(text), net)
  PROVE  AddressOf(FromWif(text), net) = {x} /\ FromWif(text) # {}
<1>1. PICK key \in FromWif(text) : x \in {P2pkh(pubkey, net) : pubkey \in PubkeyOf(key)}
  BY DEF AddressOf
<1>2. FromWif(text) = {key}
  BY <1>1, WifIs
<1>3. {P2pkh(pubkey, net) : pubkey \in PubkeyOf(key)} = {x}
  BY <1>1 DEF PubkeyOf
<1>4. AddressOf(FromWif(text), net) = {P2pkh(pubkey, net) : pubkey \in PubkeyOf(key)}
  BY <1>2 DEF AddressOf
<1> QED
  BY <1>2, <1>3, <1>4

-----------------------------------------------------------------------------
(* What is put out for a key.                                              *)

\* A sequence over a set is one over a larger set.
LEMMA Wider ==
  ASSUME NEW S, NEW T, S \subseteq T, NEW s \in Seq(S)
  PROVE  s \in Seq(T)
BY SeqDef

LEMMA PassesAre ==
  ASSUME NEW key
  PROVE  Passes(key) \in Seq(Range(Passes(key)))
<1>1. \E a, b : Passes(key) = <<a, b>> \/ Passes(key) = <<a>>
  BY DEF Passes
<1>2. PICK a, b : Passes(key) = <<a, b>> \/ Passes(key) = <<a>>
  BY <1>1
<1>3. Range(<<a, b>>) = {a, b} /\ Range(<<a>>) = {a}
  BY DEF Range
<1>4. <<a, b>> \in Seq({a, b}) /\ <<a>> \in Seq({a})
  OBVIOUS
<1> QED
  BY <1>2, <1>3, <1>4

FormSet(key, net) ==
  {ToRaw(key), ToWif(key, net), ToHex(key, TRUE), ToHex(key, FALSE), ToDec(key)}

LEMMA FormsAre ==
  ASSUME NEW key, NEW net, opts \in Option
  PROVE  Forms(key, net) \in Seq(FormSet(key, net))
<1> DEFINE S == FormSet(key, net)
           wif == IF "wif" \in opts.out \/ opts.out = {} THEN << ToWif(key, net) >> ELSE <<>>
           hex == IF "hex" \in opts.out THEN << ToHex(key, opts.on \/ opts.off) >> ELSE <<>>
           dec == IF "decimal" \in opts.out THEN << ToDec(key) >> ELSE <<>>
<1>1. (opts.on \/ opts.off) \in BOOLEAN
  OBVIOUS
<1>2. ToHex(key, opts.on \/ opts.off) \in S
  BY <1>1 DEF FormSet
<1>3. ToRaw(key) \in S /\ ToWif(key, net) \in S /\ ToDec(key) \in S
  BY DEF FormSet
<1> HIDE DEF S
<1>4. wif \in Seq(S) /\ hex \in Seq(S) /\ dec \in Seq(S) /\ << ToRaw(key) >> \in Seq(S)
  BY <1>2, <1>3
<1>5. Forms(key, net) = IF "raw" \in opts.out THEN << ToRaw(key) >> ELSE (wif \o hex) \o dec
  BY DEF Forms
<1> HIDE DEF wif, hex, dec
<1>6. (wif \o hex) \o dec \in Seq(S)
  BY <1>4, ConcatProperties
<1> QED
  BY <1>4, <1>5, <1>6 DEF S

OutSet(key, net) == UNION {FormSet(pass, net) : pass \in Range(Passes(key))}

LEMMA OutputsAre ==
  ASSUME NEW key, NEW net, opts \in Option
  PROVE  Outputs(key, net) \in Seq(OutSet(key, net))
<1> DEFINE P == Passes(key)
           S == OutSet(key, net)
           parts == [k \in DOMAIN P |-> Forms(P[k], net)]
<1>1. Len(P) \in Nat /\ DOMAIN P = 1 .. Len(P) /\ P \in Seq(Range(P))
  BY PassesAre
<1>2. ASSUME NEW k \in DOMAIN P PROVE Forms(P[k], net) \in Seq(S)
  <2>1. P[k] \in Range(P)
    BY DEF Range
  <2>2. FormSet(P[k], net) \subseteq S
    BY <2>1 DEF OutSet
  <2>3. Forms(P[k], net) \in Seq(FormSet(P[k], net))
    BY FormsAre
  <2> HIDE DEF S
  <2> QED
    BY <2>2, <2>3, Wider
<1> HIDE DEF P, S
<1>3. parts \in [1 .. Len(P) -> Seq(S)]
  BY <1>1, <1>2
<1> HIDE DEF parts
<1>4. parts \in Seq(Seq(S))
  BY <1>1, <1>3, SequenceIs
<1>5. Outputs(key, net) = FlattenSeq(parts)
  BY DEF Outputs, parts, P
<1> QED
  BY <1>4, <1>5, FlattenRange DEF S

\* A WIF is put out for the network asked for.
LEMMA OutSetNet ==
  ASSUME NEW key, NEW net, NEW x \in OutSet(key, net), x.kind = "wif"
  PROVE  x.net = net
<1>1. PICK pass : x \in FormSet(pass, net)
  BY DEF OutSet
<1>2. ToHex(pass, TRUE).kind = "digits" /\ ToHex(pass, FALSE).kind = "digits"
  BY DEF ToHex, DigitText
<1>3. ToRaw(pass).kind = "digits" /\ ToDec(pass).kind = "digits"
  BY <1>2 DEF ToRaw, ToDec, DigitText
<1>4. x = ToWif(pass, net)
  BY <1>1, <1>2, <1>3 DEF FormSet
<1> QED
  BY <1>4 DEF ToWif, WifText

-----------------------------------------------------------------------------
(* The answers to an item, by its text, the type it was read with and the  *)
(* network it was answered for.                                            *)

TypeLater(way) == IF way = "none" THEN "decimal" ELSE way

ListOf(text, way) == RehashList(opts.rehash, text, TypeLater(way))

RehashedKeys(key, text, way) == HashedKeys(key, Sorted(ListOf(text, way).counts))

Rehashes(key, text, way, net) ==
  FlattenSeq([k \in DOMAIN RehashedKeys(key, text, way) |->
                Outputs(RehashedKeys(key, text, way)[k], net)])

IsPrivkeyAnswer(text, way, net, answer) ==
  /\ \E key \in ReadPrivkey(way, text) :
       answer = IF opts.rehash = <<>> THEN Outputs(key, net) ELSE Rehashes(key, text, way, net)
  /\ ListOf(text, way).status = "ok"
  /\ net = IF opts.test THEN "test" ELSE "main"

IsPubkeyAnswer(text, answer) ==
  \E pubkey \in ReadPubkey(opts.type, text) : answer = PubkeyForms(pubkey, opts.on, opts.off)

IsAddressAnswer(text, net, answer) ==
  \E pubkey \in ReadPubkey(opts.type, text) : answer = Addresses(pubkey, net)

LookedUpFor(text, net) ==
  CASE opts.type = "wif"    -> AddressOf(FromWif(text), net)
    [] opts.type = "string" -> AddressOf(FromStr(text), net)
    [] OTHER                -> {text}

IsBalanceAnswer(text, net, answer) ==
  \E address \in LookedUpFor(text, net) : answer = <<address>>

IsAnswer(text, way, net, answer) ==
  /\ opts.command = "privkey" => IsPrivkeyAnswer(text, way, net, answer)
  /\ opts.command = "pubkey"  => IsPubkeyAnswer(text, answer)
  /\ opts.command = "address" => IsAddressAnswer(text, net, answer)
  /\ opts.command = "balance" => IsBalanceAnswer(text, net, answer)

\* The last WIF decides; a network is set by no other item.
Unread == opts.type = "hex" \/ (opts.type = "string" /\ opts.command = "balance")

WifsTo(k) == {j \in 1 .. k : items[j].kind = "wif"}

Left(k) == IF WifsTo(k) = {} \/ Unread THEN "main" ELSE items[Max(WifsTo(k))].net

\* The commands whose answers depend on it.
Follows ==
  \/ opts.command = "address"
  \/ opts.command = "balance" /\ opts.type \in {"wif", "string"}

Lengths ==
  /\ items \in Seq(Texts)
  /\ answers = [k \in 1 .. Len(items) |-> answers[k]]
  /\ nets = [k \in 1 .. Len(items) |-> nets[k]]

\* What an item leaves behind.
Statics ==
  /\ type = TypeAt(Len(items) + 1)
  /\ rehash = opts.rehash
  /\ on \in BOOLEAN /\ off \in BOOLEAN
  /\ on => opts.on
  /\ off => opts.off
  /\ Follows => network = Left(Len(items))

Answered(k) ==
  /\ IsAnswer(items[k], TypeAt(k), nets[k], answers[k])
  /\ Follows => /\ nets[k] = Left(k)
                /\ items[k].kind = "wif" /\ ~Unread => FromWif(items[k]) # {}

KeyInv ==
  /\ opts \in OptionSets
  /\ Lengths
  /\ Statics
  /\ \A k \in 1 .. Len(items) : Answered(k)

-----------------------------------------------------------------------------
(* It holds at first, and an item changes none of the answers before it.   *)

LEMMA InitKeys == Init => KeyInv
<1> SUFFICES ASSUME Init PROVE KeyInv
  OBVIOUS
<1>1. /\ opts \in OptionSets /\ type = opts.type /\ network = "main" /\ ~on /\ ~off
      /\ on \in BOOLEAN /\ off \in BOOLEAN
      /\ rehash = opts.rehash /\ items = <<>> /\ answers = <<>> /\ nets = <<>>
  BY DEF Init
<1>2. Len(items) = 0 /\ (1 .. 0) = {}
  BY <1>1
<1>3. Lengths
  BY <1>1, <1>2 DEF Lengths
<1>4. type = TypeAt(Len(items) + 1)
  BY <1>1, <1>2 DEF TypeAt
<1>5. Left(Len(items)) = "main"
  BY <1>2 DEF Left, WifsTo
<1> QED
  BY <1>1, <1>2, <1>3, <1>4, <1>5 DEF KeyInv, Statics

\* Options never change.
LEMMA AnswersStay ==
  ASSUME opts' = opts, NEW text, NEW way, NEW net, NEW answer
  PROVE  IsAnswer(text, way, net, answer)' <=> IsAnswer(text, way, net, answer)
<1>1. \A key, n : Forms(key, n)' = Forms(key, n)
  BY DEF Forms
<1>2. \A key : Passes(key)' = Passes(key)
  BY DEF Passes
<1>3. ASSUME NEW key, NEW n PROVE Outputs(key, n)' = Outputs(key, n)
  BY <1>1, <1>2 DEF Outputs
<1>4. ListOf(text, way)' = ListOf(text, way)
  BY DEF ListOf
<1>5. \A key : RehashedKeys(key, text, way)' = RehashedKeys(key, text, way)
  BY <1>4 DEF RehashedKeys
<1>6. \A key : Rehashes(key, text, way, net)' = Rehashes(key, text, way, net)
  BY <1>3, <1>5 DEF Rehashes
<1>7. IsPrivkeyAnswer(text, way, net, answer)' <=> IsPrivkeyAnswer(text, way, net, answer)
  BY <1>3, <1>4, <1>6 DEF IsPrivkeyAnswer
<1>8. IsPubkeyAnswer(text, answer)' <=> IsPubkeyAnswer(text, answer)
  BY DEF IsPubkeyAnswer
<1>9. \A pubkey : SkipsBech32(pubkey)' <=> SkipsBech32(pubkey)
  BY DEF SkipsBech32
<1>10. \A pubkey, version : Bech32(pubkey, version, net)' = Bech32(pubkey, version, net)
  BY <1>9 DEF Bech32
<1>11. \A pubkey : Addresses(pubkey, net)' = Addresses(pubkey, net)
  BY <1>10 DEF Addresses
<1>12. IsAddressAnswer(text, net, answer)' <=> IsAddressAnswer(text, net, answer)
  BY <1>11 DEF IsAddressAnswer
<1>13. LookedUpFor(text, net)' = LookedUpFor(text, net)
  BY DEF LookedUpFor
<1>14. IsBalanceAnswer(text, net, answer)' <=> IsBalanceAnswer(text, net, answer)
  BY <1>13 DEF IsBalanceAnswer
<1> QED
  BY <1>7, <1>8, <1>12, <1>14 DEF IsAnswer

\* One element more.
LEMMA AppendedOne ==
  ASSUME NEW n \in Nat, NEW f, f = [k \in 1 .. n |-> f[k]], NEW x
  PROVE  /\ Append(f, x) = [k \in 1 .. (n + 1) |-> Append(f, x)[k]]
         /\ Append(f, x)[n + 1] = x
         /\ \A k \in 1 .. n : Append(f, x)[k] = f[k]
<1> DEFINE S == Range(f) \cup {x}
<1>1. f \in [1 .. n -> S]
  BY DEF Range
<1>2. x \in S
  OBVIOUS
<1> HIDE DEF S
<1>3. f \in Seq(S) /\ Len(f) = n
  BY <1>1, SequenceIs
<1>4. /\ Append(f, x) \in Seq(S) /\ Len(Append(f, x)) = n + 1
      /\ \A k \in 1 .. n : Append(f, x)[k] = f[k]
      /\ Append(f, x)[n + 1] = x
  BY <1>2, <1>3, AppendProperties
<1> DEFINE g == Append(f, x)
<1>5. g = [k \in 1 .. (n + 1) |-> g[k]]
  BY <1>4
<1> QED
  BY <1>4, <1>5

\* What an item that was answered has to satisfy.
LEMMA ItemStep ==
  ASSUME KeyInv, opts' = opts, NEW text \in Texts, NEW answer,
         items' = Append(items, text), answers' = Append(answers, answer),
         nets' = Append(nets, network'),
         type' = TypeAt(Len(items) + 2), rehash' = opts.rehash,
         on' \in BOOLEAN, off' \in BOOLEAN, on' => opts.on, off' => opts.off,
         IsAnswer(text, type, network', answer),
         Follows => network' = (IF Unread THEN "main"
                                ELSE IF text.kind = "wif" THEN text.net ELSE network),
         Follows /\ text.kind = "wif" /\ ~Unread => FromWif(text) # {}
  PROVE  KeyInv'
<1> PICK n : n = Len(items)
  OBVIOUS
<1>1. /\ opts \in OptionSets /\ Lengths /\ Statics
      /\ \A k \in 1 .. n : Answered(k)
  BY DEF KeyInv
<1>2. /\ items \in Seq(Texts) /\ n \in Nat
      /\ answers = [k \in 1 .. n |-> answers[k]] /\ nets = [k \in 1 .. n |-> nets[k]]
  BY <1>1 DEF Lengths
<1>3. /\ items' \in Seq(Texts) /\ Len(items') = n + 1
      /\ items'[n + 1] = text /\ \A k \in 1 .. n : items'[k] = items[k]
  BY <1>2, AppendProperties
<1>4. /\ answers' = [k \in 1 .. (n + 1) |-> answers'[k]]
      /\ answers'[n + 1] = answer /\ \A k \in 1 .. n : answers'[k] = answers[k]
  BY <1>2, AppendedOne
<1>5. /\ nets' = [k \in 1 .. (n + 1) |-> nets'[k]]
      /\ nets'[n + 1] = network' /\ \A k \in 1 .. n : nets'[k] = nets[k]
  BY <1>2, AppendedOne
<1>6. Lengths'
  BY <1>3, <1>4, <1>5 DEF Lengths
<1>7. (Unread' <=> Unread) /\ (Follows' <=> Follows) /\ \A k : TypeAt(k)' = TypeAt(k)
  BY DEF Unread, Follows, TypeAt
<1>8. ASSUME NEW k \in 0 .. n PROVE Left(k)' = Left(k) /\ WifsTo(k)' = WifsTo(k)
  <2>1. \A j \in 1 .. k : j \in 1 .. n /\ items'[j] = items[j]
    BY <1>2, <1>3
  <2>2. WifsTo(k)' = WifsTo(k)
    BY <2>1 DEF WifsTo
  <2>3. WifsTo(k) # {} => items'[Max(WifsTo(k))] = items[Max(WifsTo(k))]
    <3> SUFFICES ASSUME WifsTo(k) # {} PROVE items'[Max(WifsTo(k))] = items[Max(WifsTo(k))]
      OBVIOUS
    <3>1. WifsTo(k) \subseteq 1 .. k
      BY DEF WifsTo
    <3>2. k \in Nat
      BY <1>2
    <3>3. Max(WifsTo(k)) \in 1 .. k
      BY <3>1, <3>2, MaxAmong
    <3> QED
      BY <2>1, <3>3
  <2> QED
    BY <1>7, <2>2, <2>3 DEF Left
<1>9. Follows => Left(n + 1)' = network'
  <2> SUFFICES ASSUME Follows PROVE Left(n + 1)' = network'
    OBVIOUS
  <2>0. network = Left(n)
    BY <1>1 DEF Statics
  <2>1. CASE Unread
    BY <1>7, <2>1 DEF Left
  <2>2. CASE ~Unread /\ text.kind = "wif"
    <3>1. n + 1 \in WifsTo(n + 1)' /\ WifsTo(n + 1)' \subseteq 1 .. (n + 1)
      BY <1>2, <1>3, <2>2 DEF WifsTo
    <3>2. Max(WifsTo(n + 1)') = n + 1
      BY <1>2, <3>1, MaxIs
    <3> QED
      BY <1>3, <1>7, <2>2, <3>1, <3>2 DEF Left
  <2>3. CASE ~Unread /\ text.kind # "wif"
    <3>1. WifsTo(n + 1)' = WifsTo(n)'
      BY <1>2, <1>3, <2>3 DEF WifsTo
    <3>2. Left(n + 1)' = Left(n)'
      BY <3>1 DEF Left
    <3> QED
      BY <1>2, <1>8, <2>0, <2>3, <3>2
  <2> QED
    BY <2>1, <2>2, <2>3
<1>10. Statics'
  <2>1. Len(items)' + 1 = n + 2 /\ Len(items)' = n + 1
    BY <1>2, <1>3
  <2>2. type' = TypeAt(Len(items) + 1)'
    BY <1>7, <2>1
  <2>3. Follows' => network' = Left(Len(items))'
    BY <1>7, <1>9, <2>1
  <2> QED
    BY <2>2, <2>3 DEF Statics
<1>11. ASSUME NEW k \in 1 .. n PROVE Answered(k)'
  <2>1. Answered(k)
    BY <1>1
  <2>2. items'[k] = items[k] /\ answers'[k] = answers[k] /\ nets'[k] = nets[k]
    BY <1>3, <1>4, <1>5
  <2>3. IsAnswer(items[k], TypeAt(k), nets[k], answers[k])'
    <3>1. IsAnswer(items[k], TypeAt(k), nets[k], answers[k])
      BY <2>1 DEF Answered
    <3>2. \A t, w, m, a : IsAnswer(t, w, m, a)' <=> IsAnswer(t, w, m, a)
      BY AnswersStay
    <3> QED
      BY <1>7, <2>2, <3>1, <3>2
  <2>4. k \in 0 .. n
    BY <1>2
  <2> QED
    BY <1>7, <1>8, <2>1, <2>2, <2>3, <2>4 DEF Answered
<1>12. Answered(n + 1)'
  <2>1. IsAnswer(items[n + 1], TypeAt(n + 1), nets[n + 1], answers[n + 1])'
    <3>1. type = TypeAt(n + 1)
      BY <1>1 DEF Statics
    <3>2. \A t, w, m, a : IsAnswer(t, w, m, a)' <=> IsAnswer(t, w, m, a)
      BY AnswersStay
    <3>3. IsAnswer(text, TypeAt(n + 1), network', answer)
      BY <3>1
    <3>4. /\ items[n + 1]' = text /\ TypeAt(n + 1)' = TypeAt(n + 1)
          /\ nets[n + 1]' = network' /\ answers[n + 1]' = answer
      BY <1>3, <1>4, <1>5, <1>7
    <3> QED
      BY <3>2, <3>3, <3>4
  <2> QED
    BY <1>3, <1>5, <1>7, <1>9, <2>1 DEF Answered
<1>13. \A k \in 1 .. Len(items)' : Answered(k)'
  <2>1. Len(items)' = n + 1 /\ (1 .. (n + 1)) = (1 .. n) \cup {n + 1}
    BY <1>2, <1>3
  <2> QED
    BY <1>11, <1>12, <2>1
<1> QED
  BY <1>1, <1>6, <1>10, <1>13 DEF KeyInv

-----------------------------------------------------------------------------
(* One lemma per action.                                                   *)

LEMMA OptionIs ==
  ASSUME opts \in OptionSets
  PROVE  /\ opts \in Option
         /\ opts.command \in {"address", "balance"} => ~opts.on /\ ~opts.off
BY KeyCommandsAssumption

LEMMA PrivkeyStep ==
  ASSUME KeyInv, NEW text \in Texts, PrivkeyItem(text)
  PROVE  KeyInv'
<1>1. /\ opts \in OptionSets /\ Lengths /\ Statics
  BY DEF KeyInv
<1>2. opts \in Option /\ opts.command = "privkey" /\ opts' = opts
  BY <1>1, OptionIs DEF PrivkeyItem, Command, Done
<1>3. ~Follows
  BY <1>2 DEF Follows
<1>4. PICK key \in ReadPrivkey(type, text) :
        /\ type' = TypeAfter
        /\ network' = IF opts.test THEN "test" ELSE "main"
        /\ LET list == RehashList(rehash, text, TypeAfter)
               keys == HashedKeys(key, Sorted(list.counts))
           IN  /\ list.status = "ok"
               /\ Done(text, IF opts.rehash = <<>> THEN Outputs(key, network')
                             ELSE FlattenSeq([k \in DOMAIN keys |-> Outputs(keys[k], network')]))
        /\ rehash' = Restored(rehash)
        /\ UNCHANGED <<on, off>>
  BY DEF PrivkeyItem
<1> DEFINE answer == IF opts.rehash = <<>> THEN Outputs(key, network')
                     ELSE Rehashes(key, text, type, network')
<1>5. rehash = opts.rehash /\ TypeAfter = TypeLater(type)
  BY <1>1 DEF Statics, TypeAfter, TypeLater
<1>6. ListOf(text, type).status = "ok" /\ Done(text, answer)
  BY <1>4, <1>5 DEF ListOf, Rehashes, RehashedKeys
<1>7. IsPrivkeyAnswer(text, type, network', answer)
  BY <1>4, <1>6 DEF IsPrivkeyAnswer
<1>8. IsAnswer(text, type, network', answer)
  BY <1>2, <1>7 DEF IsAnswer
<1> HIDE DEF answer
<1>9. type' = TypeAt(Len(items) + 2)
  <2>1. Len(items) \in Nat /\ Len(items) + 2 > 1 /\ Len(items) + 1 >= 1
    BY <1>1 DEF Lengths
  <2>2. type = TypeAt(Len(items) + 1)
    BY <1>1 DEF Statics
  <2> QED
    BY <1>2, <1>4, <1>5, <2>1, <2>2 DEF TypeAt, TypeLater
<1>10. /\ items' = Append(items, text) /\ answers' = Append(answers, answer)
       /\ nets' = Append(nets, network') /\ rehash' = opts.rehash
  BY <1>4, <1>5, <1>6 DEF Done, Restored
<1>11. /\ on' \in BOOLEAN /\ off' \in BOOLEAN
       /\ on' => opts.on
       /\ off' => opts.off
  BY <1>1, <1>4 DEF Statics
<1> QED
  BY <1>2, <1>3, <1>8, <1>9, <1>10, <1>11, ItemStep

\* The other commands read all items with the type of the options.
LEMMA TypeStays ==
  ASSUME KeyInv, opts.command # "privkey"
  PROVE  type = opts.type /\ \A k : TypeAt(k) = opts.type
BY DEF KeyInv, Statics, TypeAt

LEMMA PubkeyStep ==
  ASSUME KeyInv, NEW text \in Texts, PubkeyItem(text)
  PROVE  KeyInv'
<1>1. opts \in OptionSets /\ Lengths /\ Statics
  BY DEF KeyInv
<1>2. opts \in Option /\ opts.command = "pubkey" /\ opts' = opts
  BY <1>1, OptionIs DEF PubkeyItem, Command, Done
<1>3. ~Follows
  BY <1>2 DEF Follows
<1>4. type = opts.type /\ \A k : TypeAt(k) = opts.type
  BY <1>2, TypeStays
<1> DEFINE comp == Flag(on, opts.on)
           uncomp == Flag(off, opts.off)
<1>5. PICK pubkey \in ReadPubkey(type, text) :
        /\ on' = (comp /\ ~uncomp)
        /\ off' = uncomp
        /\ Done(text, PubkeyForms(pubkey, comp, uncomp))
  BY DEF PubkeyItem
<1>6. comp = opts.on /\ uncomp = opts.off
  <2>1. /\ opts.on \in BOOLEAN /\ opts.off \in BOOLEAN
        /\ on \in BOOLEAN /\ off \in BOOLEAN /\ (on => opts.on) /\ (off => opts.off)
    BY <1>1, <1>2 DEF Option, Statics
  <2> QED
    BY <2>1 DEF Flag
<1> HIDE DEF comp, uncomp
<1> DEFINE answer == PubkeyForms(pubkey, opts.on, opts.off)
<1>7. Done(text, answer)
  BY <1>5, <1>6
<1>8. IsPubkeyAnswer(text, answer)
  BY <1>4 DEF IsPubkeyAnswer
<1>9. IsAnswer(text, type, network', answer)
  BY <1>2, <1>8 DEF IsAnswer
<1> HIDE DEF answer
<1>10. /\ items' = Append(items, text) /\ answers' = Append(answers, answer)
       /\ nets' = Append(nets, network')
  BY <1>7 DEF Done
<1>11. type' = TypeAt(Len(items) + 2) /\ rehash' = opts.rehash
  BY <1>1, <1>4 DEF PubkeyItem, Statics
<1>12. /\ on' \in BOOLEAN /\ off' \in BOOLEAN
       /\ on' => opts.on
       /\ off' => opts.off
  BY <1>2, <1>5, <1>6 DEF Option
<1> QED
  BY <1>2, <1>3, <1>9, <1>10, <1>11, <1>12, ItemStep

LEMMA AddressStep ==
  ASSUME KeyInv, NEW text \in Texts, AddressItem(text)
  PROVE  KeyInv'
<1>1. opts \in OptionSets /\ Lengths /\ Statics
  BY DEF KeyInv
<1>2. opts \in Option /\ opts.command = "address" /\ opts' = opts
  BY <1>1, OptionIs DEF AddressItem, Command, Done
<1>3. type = opts.type /\ \A k : TypeAt(k) = opts.type
  BY <1>2, TypeStays
<1>4. PICK pubkey \in ReadPubkey(type, text) :
        /\ network' = IF type = "hex" THEN network ELSE NetworkAfter(text)
        /\ Done(text, Addresses(pubkey, network'))
  BY DEF AddressItem
<1> DEFINE answer == Addresses(pubkey, network')
<1>5. IsAddressAnswer(text, network', answer)
  BY <1>3 DEF IsAddressAnswer
<1>6. IsAnswer(text, type, network', answer)
  BY <1>2, <1>5 DEF IsAnswer
<1> HIDE DEF answer
<1>7. /\ items' = Append(items, text) /\ answers' = Append(answers, answer)
      /\ nets' = Append(nets, network')
  BY <1>4 DEF Done, answer
<1>8. type' = TypeAt(Len(items) + 2) /\ rehash' = opts.rehash
  BY <1>1, <1>3 DEF AddressItem, Statics
<1>9. /\ on' \in BOOLEAN /\ off' \in BOOLEAN
      /\ on' => opts.on
      /\ off' => opts.off
  BY <1>1 DEF AddressItem, Statics
<1>10. text.kind = "wif" <=> FromWif(text) # {}
  BY PubkeyIs, WifIs
<1>11. Unread <=> opts.type = "hex"
  BY <1>2 DEF Unread
<1>12. network = Left(Len(items)) /\ (Unread => network = "main")
  BY <1>1, <1>2 DEF Statics, Follows, Left
<1>13. network' = (IF Unread THEN "main" ELSE IF text.kind = "wif" THEN text.net ELSE network)
  BY <1>3, <1>4, <1>10, <1>11, <1>12 DEF NetworkAfter
<1> QED
  BY <1>2, <1>6, <1>7, <1>8, <1>9, <1>10, <1>13, ItemStep

LEMMA BalanceStep ==
  ASSUME KeyInv, NEW text \in Texts, BalanceItem(text)
  PROVE  KeyInv'
<1>1. opts \in OptionSets /\ Lengths /\ Statics
  BY DEF KeyInv
<1>2. opts \in Option /\ opts.command = "balance" /\ opts' = opts
  BY <1>1, OptionIs DEF BalanceItem, Command, Done
<1>3. type = opts.type /\ \A k : TypeAt(k) = opts.type
  BY <1>2, TypeStays
<1>4. network' = IF type = "wif" THEN NetworkAfter(text) ELSE network
  BY DEF BalanceItem
<1>5. PICK address \in LookedUp(text) : Done(text, <<address>>)
  BY DEF BalanceItem
<1>6. LookedUp(text) = LookedUpFor(text, network')
  BY <1>3, <1>4 DEF LookedUp, LookedUpFor
<1>7. IsBalanceAnswer(text, network', <<address>>)
  BY <1>6 DEF IsBalanceAnswer
<1>8. IsAnswer(text, type, network', <<address>>)
  BY <1>2, <1>7 DEF IsAnswer
<1>9. /\ items' = Append(items, text) /\ answers' = Append(answers, <<address>>)
      /\ nets' = Append(nets, network')
  BY <1>5 DEF Done
<1>10. type' = TypeAt(Len(items) + 2) /\ rehash' = opts.rehash
  BY <1>1, <1>3 DEF BalanceItem, Statics
<1>11. /\ on' \in BOOLEAN /\ off' \in BOOLEAN
       /\ on' => opts.on
       /\ off' => opts.off
  BY <1>1 DEF BalanceItem, Statics
<1>12. ASSUME Follows
       PROVE  /\ network' = (IF Unread THEN "main"
                             ELSE IF text.kind = "wif" THEN text.net ELSE network)
              /\ text.kind = "wif" /\ ~Unread => FromWif(text) # {}
  <2>1. network = Left(Len(items)) /\ (Unread => network = "main")
    BY <1>1, <1>12 DEF Statics, Left
  <2>2. CASE opts.type = "string"
    BY <1>2, <1>3, <1>4, <2>1, <2>2 DEF Unread
  <2>3. CASE opts.type = "wif"
    <3>1. LookedUp(text) = AddressOf(FromWif(text), NetworkAfter(text))
      BY <1>3, <2>3 DEF LookedUp
    <3>2. FromWif(text) # {}
      BY <3>1, AddressIs
    <3>3. text.kind = "wif"
      BY <3>2, WifIs
    <3> QED
      BY <1>3, <1>4, <2>3, <3>2, <3>3 DEF Unread, NetworkAfter
  <2> QED
    BY <1>2, <1>12, <2>2, <2>3 DEF Follows
<1> QED
  BY <1>2, <1>8, <1>9, <1>10, <1>11, <1>12, ItemStep

\* A refusal, or nothing, leaves everything as it is.
LEMMA NoItemStep ==
  ASSUME KeyInv, UNCHANGED <<opts, type, network, on, off, rehash, items, answers, nets>>
  PROVE  KeyInv'
<1>1. \A k : TypeAt(k)' = TypeAt(k) /\ WifsTo(k)' = WifsTo(k)
  BY DEF TypeAt, WifsTo
<1>2. (Unread' <=> Unread) /\ (Follows' <=> Follows)
  BY DEF Unread, Follows
<1>3. \A k : Left(k)' = Left(k)
  BY <1>1, <1>2 DEF Left
<1>4. \A t, w, m, a : IsAnswer(t, w, m, a)' <=> IsAnswer(t, w, m, a)
  BY AnswersStay
<1>5. \A k : Answered(k) => Answered(k)'
  BY <1>1, <1>2, <1>3, <1>4 DEF Answered
<1>6. Statics'
  BY <1>1, <1>2, <1>3 DEF KeyInv, Statics
<1> QED
  BY <1>5, <1>6 DEF KeyInv, Lengths

LEMMA KeyStep == KeyInv /\ [Next]_vars => KeyInv'
<1> SUFFICES ASSUME KeyInv, [Next]_vars PROVE KeyInv'
  OBVIOUS
<1>1. CASE UNCHANGED vars
  BY <1>1, NoItemStep DEF vars
<1>2. ASSUME NEW text \in Texts, PrivkeyItem(text) PROVE KeyInv'
  BY <1>2, PrivkeyStep
<1>3. ASSUME NEW text \in Texts, PubkeyItem(text) PROVE KeyInv'
  BY <1>3, PubkeyStep
<1>4. ASSUME NEW text \in Texts, AddressItem(text) PROVE KeyInv'
  BY <1>4, AddressStep
<1>5. ASSUME NEW text \in Texts, BalanceItem(text) PROVE KeyInv'
  BY <1>5, BalanceStep
<1>6. ASSUME NEW text \in Texts,
             RefusePrivkey(text) \/ RefusePubkey(text) \/ RefuseBalance(text)
      PROVE  KeyInv'
  <2>1. UNCHANGED <<opts, type, network, on, off, rehash, items, answers, nets>>
    BY <1>6 DEF RefusePrivkey, RefusePubkey, RefuseBalance, Ends
  <2> QED
    BY <2>1, NoItemStep
<1> QED
  BY <1>1, <1>2, <1>3, <1>4, <1>5, <1>6 DEF Next

(***************************************************************************)
(* Whatever was given before, the next item is read with the type, the     *)
(* flags and the list of the options, and with the network of the last     *)
(* WIF; every answer so far is one that its item, its type and its network *)
(* allow (btk_privkey_main, btk_pubkey_main, btk_address_main and          *)
(* btk_balance_main).                                                      *)
(***************************************************************************)
THEOREM KeyInvariant == Spec => []KeyInv
BY InitKeys, KeyStep, PTL DEF Spec

-----------------------------------------------------------------------------
(* The answers to a rehash list.                                           *)

\* The counts, in order and each once, are the numbers asked for.
LEMMA CountsAre ==
  ASSUME opts \in Option, NEW text \in Texts, NEW way
  PROVE  /\ ListOf(text, way).counts \in Seq(Nat)
         /\ Sorted(ListOf(text, way).counts) \in Seq(Nat)
         /\ ListOf(text, way).status = "ok" =>
              Range(ListOf(text, way).counts) = Requested(text)
<1> DEFINE list == ListOf(text, way)
           tokens == opts.rehash
<1>1. tokens \in Seq(Nat \cup {Star})
  BY DEF Option
<1>2. Holds(list, tokens, text, Len(tokens))
  BY <1>1, RehashListIs DEF ListOf
<1> HIDE DEF list
<1>3. list.counts \in Seq(Nat) /\ Sorted(list.counts) \in Seq(Nat)
  BY <1>2, SortedIs DEF Holds, List
<1>4. ASSUME list.status = "ok", NEW n
      PROVE  n \in Range(list.counts) <=> n \in Requested(text)
  <2>1. n \in Range(list.counts) <=> \E j \in 1 .. Len(tokens) : n \in Asked(tokens[j], text)
    BY <1>2, <1>4 DEF Holds
  <2>2. Requested(text) = UNION {Asked(token, text) : token \in Range(tokens)}
    BY DEF Requested, Asked
  <2>3. \A token : token \in Range(tokens) <=> \E j \in 1 .. Len(tokens) : token = tokens[j]
    BY <1>1 DEF Range
  <2> HIDE DEF tokens
  <2> QED
    BY <2>1, <2>2, <2>3
<1> QED
  BY <1>3, <1>4 DEF list

LEMMA RehashParts ==
  ASSUME opts \in Option, NEW text \in Texts, NEW way, NEW net, NEW key
  PROVE  [k \in DOMAIN RehashedKeys(key, text, way) |-> Outputs(RehashedKeys(key, text, way)[k], net)]
           \in Seq(Seq(UNION {OutSet(RehashedKeys(key, text, way)[k], net) :
                                k \in DOMAIN RehashedKeys(key, text, way)}))
<1> DEFINE K == RehashedKeys(key, text, way)
           counts == Sorted(ListOf(text, way).counts)
           S == UNION {OutSet(K[k], net) : k \in DOMAIN K}
           parts == [k \in DOMAIN K |-> Outputs(K[k], net)]
<1>1. counts \in Seq(Nat)
  BY CountsAre
<1>2. DOMAIN K = DOMAIN counts
  BY DEF RehashedKeys, HashedKeys
<1> HIDE DEF counts, K
<1>3. DOMAIN K = 1 .. Len(counts) /\ Len(counts) \in Nat
  BY <1>1, <1>2
<1>4. ASSUME NEW k \in DOMAIN K PROVE Outputs(K[k], net) \in Seq(S)
  <2>1. OutSet(K[k], net) \subseteq S
    OBVIOUS
  <2>2. Outputs(K[k], net) \in Seq(OutSet(K[k], net))
    BY OutputsAre
  <2> HIDE DEF S
  <2> QED
    BY <2>1, <2>2, Wider
<1> HIDE DEF S
<1>5. parts \in [1 .. Len(counts) -> Seq(S)]
  BY <1>3, <1>4
<1> HIDE DEF parts
<1>6. parts \in Seq(Seq(S))
  BY <1>3, <1>5, SequenceIs
<1> QED
  BY <1>6 DEF parts, S, K

-----------------------------------------------------------------------------
(* The same item has the same answer.                                      *)

LEMMA SameOutputs ==
  ASSUME opts \in Option, opts.on \/ opts.off, NEW net,
         NEW x, NEW y, IsKey(x), IsKey(y), x.data = y.data
  PROVE  Outputs(x, net) = Outputs(y, net)
<1>1. /\ [x EXCEPT !.compressed = TRUE] = [y EXCEPT !.compressed = TRUE]
      /\ [x EXCEPT !.compressed = FALSE] = [y EXCEPT !.compressed = FALSE]
  BY DEF IsKey
<1>2. Passes(x) = Passes(y)
  BY <1>1 DEF Passes
<1> QED
  BY <1>2 DEF Outputs

LEMMA SameRehashes ==
  ASSUME opts \in Option, opts.on \/ opts.off, NEW text, NEW way, NEW net,
         NEW x, NEW y, IsKey(x), IsKey(y), x.data = y.data
  PROVE  Rehashes(x, text, way, net) = Rehashes(y, text, way, net)
<1> DEFINE counts == Sorted(ListOf(text, way).counts)
           data == HashedData(x.data, counts)
           X == RehashedKeys(x, text, way)
           Y == RehashedKeys(y, text, way)
<1>1. /\ X = [k \in DOMAIN counts |-> [x EXCEPT !.data = data[k]]]
      /\ Y = [k \in DOMAIN counts |-> [y EXCEPT !.data = data[k]]]
  BY DEF RehashedKeys, HashedKeys
<1> HIDE DEF counts, data, X, Y
<1>2. ASSUME NEW k \in DOMAIN counts PROVE Outputs(X[k], net) = Outputs(Y[k], net)
  <2>1. X[k] = [x EXCEPT !.data = data[k]] /\ Y[k] = [y EXCEPT !.data = data[k]]
    BY <1>1
  <2>2. IsKey(X[k]) /\ IsKey(Y[k]) /\ X[k].data = Y[k].data
    BY <2>1 DEF IsKey
  <2> QED
    BY <2>2, SameOutputs
<1>3. DOMAIN X = DOMAIN counts /\ DOMAIN Y = DOMAIN counts
  BY <1>1
<1>4. [k \in DOMAIN X |-> Outputs(X[k], net)] = [k \in DOMAIN Y |-> Outputs(Y[k], net)]
  BY <1>2, <1>3
<1> QED
  BY <1>4 DEF Rehashes, X, Y

LEMMA SamePrivkeyAnswer ==
  ASSUME opts \in Option, NEW way \in InputTypes, NEW text, NEW net,
         NEW a, NEW b, IsPrivkeyAnswer(text, way, net, a), IsPrivkeyAnswer(text, way, net, b),
         ByHash(way, text) => opts.on \/ opts.off
  PROVE  a = b
<1>1. PICK x \in ReadPrivkey(way, text) :
        a = IF opts.rehash = <<>> THEN Outputs(x, net) ELSE Rehashes(x, text, way, net)
  BY DEF IsPrivkeyAnswer
<1>2. PICK y \in ReadPrivkey(way, text) :
        b = IF opts.rehash = <<>> THEN Outputs(y, net) ELSE Rehashes(y, text, way, net)
  BY DEF IsPrivkeyAnswer
<1>3. /\ IsKey(x) /\ IsKey(y) /\ x.data = y.data
      /\ ~ByHash(way, text) => x = y
  BY ReadIs
<1>4. CASE x = y
  BY <1>1, <1>2, <1>4
<1>5. CASE opts.on \/ opts.off
  BY <1>1, <1>2, <1>3, <1>5, SameOutputs, SameRehashes
<1> QED
  BY <1>3, <1>4, <1>5

LEMMA SameBalanceAnswer ==
  ASSUME NEW text, NEW net, opts.type # "string",
         NEW a, NEW b, IsBalanceAnswer(text, net, a), IsBalanceAnswer(text, net, b)
  PROVE  a = b
<1>1. PICK x \in LookedUpFor(text, net) : a = <<x>>
  BY DEF IsBalanceAnswer
<1>2. PICK y \in LookedUpFor(text, net) : b = <<y>>
  BY DEF IsBalanceAnswer
<1>3. CASE opts.type = "wif"
  <2>1. LookedUpFor(text, net) = AddressOf(FromWif(text), net)
    BY <1>3 DEF LookedUpFor
  <2>2. x = y
    BY <1>1, <1>2, <2>1, AddressIs
  <2> QED
    BY <1>1, <1>2, <2>2
<1>4. CASE opts.type # "wif"
  BY <1>1, <1>2, <1>4 DEF LookedUpFor
<1> QED
  BY <1>3, <1>4

(***************************************************************************)
(* What is put out for an item depends on the item and the options only,   *)
(* whatever items stand before it (btk_privkey.c lines 84-109, 164-191,    *)
(* 384-392, btk_pubkey.c lines 34-35, 85-115).                             *)
(***************************************************************************)
THEOREM SameAnswers == Spec => []SameItemSameAnswer
<1>1. KeyInv => SameItemSameAnswer
  <2> SUFFICES ASSUME KeyInv, NEW j \in DOMAIN items, NEW k \in DOMAIN items,
                      items[j] = items[k], TypeAt(j) = TypeAt(k), nets[j] = nets[k],
                      ~Unsettled(j)
               PROVE  answers[j] = answers[k]
    BY DEF SameItemSameAnswer
  <2>1. opts \in OptionSets /\ DOMAIN items = 1 .. Len(items)
    BY DEF KeyInv, Lengths
  <2>2. /\ opts \in Option
        /\ opts.command \in {"address", "balance"} => ~opts.on /\ ~opts.off
    BY <2>1, OptionIs
  <2> DEFINE text == items[j]
             way == TypeAt(j)
             net == nets[j]
  <2>3. IsAnswer(text, way, net, answers[j]) /\ IsAnswer(text, way, net, answers[k])
    BY <2>1 DEF KeyInv, Answered
  <2>4. way \in InputTypes
    BY <2>2 DEF Option, TypeAt, InputTypes
  <2>5. opts.command \in {"privkey", "balance"} /\ ByHash(way, text) => opts.on \/ opts.off
    BY DEF Unsettled, ByHash
  <2>6. opts.command # "privkey" => way = opts.type
    BY TypeStays
  <2> HIDE DEF text, way, net
  <2>7. CASE opts.command = "privkey"
    BY <2>2, <2>3, <2>4, <2>5, <2>7, SamePrivkeyAnswer DEF IsAnswer
  <2>8. CASE opts.command = "pubkey"
    BY <2>3, <2>8, PubkeyIs DEF IsAnswer, IsPubkeyAnswer
  <2>9. CASE opts.command = "address"
    BY <2>3, <2>9, PubkeyIs DEF IsAnswer, IsAddressAnswer
  <2>10. CASE opts.command = "balance"
    <3>1. opts.type # "string"
      BY <2>2, <2>5, <2>6, <2>10 DEF ByHash
    <3> QED
      BY <2>3, <2>10, <3>1, SameBalanceAnswer DEF IsAnswer
  <2> QED
    BY <2>2, <2>7, <2>8, <2>9, <2>10 DEF Option
<1> QED
  BY <1>1, KeyInvariant, PTL

-----------------------------------------------------------------------------
(* The networks.                                                           *)

LEMMA PrivkeyNet ==
  ASSUME opts \in Option, NEW text \in Texts, NEW way, NEW net, NEW answer,
         IsPrivkeyAnswer(text, way, net, answer),
         NEW i \in DOMAIN answer, answer[i].kind = "wif"
  PROVE  answer[i].net = net
<1>1. PICK key \in ReadPrivkey(way, text) :
        answer = IF opts.rehash = <<>> THEN Outputs(key, net) ELSE Rehashes(key, text, way, net)
  BY DEF IsPrivkeyAnswer
<1>2. CASE opts.rehash = <<>>
  <2>1. answer \in Seq(OutSet(key, net))
    BY <1>1, <1>2, OutputsAre
  <2>2. answer[i] \in OutSet(key, net)
    BY <2>1
  <2> QED
    BY <2>2, OutSetNet
<1>3. CASE opts.rehash # <<>>
  <2> DEFINE K == RehashedKeys(key, text, way)
             S == UNION {OutSet(K[k], net) : k \in DOMAIN K}
             parts == [k \in DOMAIN K |-> Outputs(K[k], net)]
  <2>1. answer = FlattenSeq(parts)
    BY <1>1, <1>3 DEF Rehashes
  <2>2. parts \in Seq(Seq(S))
    BY RehashParts
  <2> HIDE DEF K, S, parts
  <2>3. answer \in Seq(S)
    BY <2>1, <2>2, FlattenRange
  <2>4. answer[i] \in S
    BY <2>3
  <2>5. PICK k \in DOMAIN K : answer[i] \in OutSet(K[k], net)
    BY <2>4 DEF S
  <2> QED
    BY <2>5, OutSetNet
<1> QED
  BY <1>2, <1>3

\* Every address is one for the network.
LEMMA AddressNet ==
  ASSUME NEW text, NEW net, NEW answer, IsAddressAnswer(text, net, answer),
         NEW i \in DOMAIN answer
  PROVE  answer[i].net = net
<1>1. PICK pubkey : answer = Addresses(pubkey, net)
  BY DEF IsAddressAnswer
<1> DEFINE S == {P2wpkh(pubkey, net, 0), P2wpkh(pubkey, net, 1), P2pkh(pubkey, net)}
           first == IF "p2wpkh" \in opts.out THEN Bech32(pubkey, 0, net) ELSE <<>>
           second == IF "p2wpkh-v1" \in opts.out THEN Bech32(pubkey, 1, net) ELSE <<>>
           third == IF "p2pkh" \in opts.out \/ opts.out = {} THEN << P2pkh(pubkey, net) >> ELSE <<>>
<1>2. first \in Seq(S) /\ second \in Seq(S) /\ third \in Seq(S)
  <2>1. P2wpkh(pubkey, net, 0) \in S /\ P2wpkh(pubkey, net, 1) \in S /\ P2pkh(pubkey, net) \in S
    OBVIOUS
  <2> HIDE DEF S
  <2> QED
    BY <2>1 DEF Bech32
<1>3. answer = (first \o second) \o third
  BY <1>1 DEF Addresses
<1>4. \A x \in S : x.net = net
  BY DEF P2wpkh, P2pkh
<1> HIDE DEF S, first, second, third
<1>5. (first \o second) \o third \in Seq(S)
  BY <1>2, ConcatProperties
<1> QED
  BY <1>3, <1>4, <1>5

LEMMA BalanceNet ==
  ASSUME NEW text, NEW net, NEW answer, IsBalanceAnswer(text, net, answer),
         opts.type \in {"wif", "string"}, NEW i \in DOMAIN answer
  PROVE  answer[i].net = net
<1>1. PICK address \in LookedUpFor(text, net) : answer = <<address>>
  BY DEF IsBalanceAnswer
<1>2. \E keys : address \in AddressOf(keys, net)
  BY <1>1 DEF LookedUpFor
<1>3. address.net = net
  BY <1>2 DEF AddressOf, P2pkh
<1>4. answer[i] = address
  BY <1>1
<1> QED
  BY <1>3, <1>4

(***************************************************************************)
(* An address is one of the network the last WIF has set, private keys are *)
(* written for the network of the options (privkey.c lines 210-222,        *)
(* btk_privkey.c lines 75-82).                                             *)
(***************************************************************************)
THEOREM AnswersOfNetwork == Spec => []NetworkOfAnswers
<1>1. KeyInv => NetworkOfAnswers
  <2> SUFFICES ASSUME KeyInv, NEW k \in DOMAIN answers, NEW i \in DOMAIN answers[k]
               PROVE  /\ opts.command = "privkey" /\ answers[k][i].kind = "wif" =>
                           answers[k][i].net = IF opts.test THEN "test" ELSE "main"
                      /\ Follows => answers[k][i].net = Left(k)
    BY DEF NetworkOfAnswers, Follows, Left, WifsTo, Unread
  <2>1. opts \in Option /\ k \in 1 .. Len(items)
    BY OptionIs DEF KeyInv, Lengths
  <2>2. Answered(k)
    BY <2>1 DEF KeyInv
  <2>3. IsAnswer(items[k], TypeAt(k), nets[k], answers[k]) /\ (Follows => nets[k] = Left(k))
    BY <2>2 DEF Answered
  <2>4. ASSUME opts.command = "privkey", answers[k][i].kind = "wif"
        PROVE  answers[k][i].net = IF opts.test THEN "test" ELSE "main"
    <3>1. IsPrivkeyAnswer(items[k], TypeAt(k), nets[k], answers[k])
      BY <2>3, <2>4 DEF IsAnswer
    <3>2. nets[k] = IF opts.test THEN "test" ELSE "main"
      BY <3>1 DEF IsPrivkeyAnswer
    <3>3. items[k] \in Texts
      BY <2>1 DEF KeyInv, Lengths
    <3>4. answers[k][i].net = nets[k]
      BY <2>1, <2>4, <3>1, <3>3, PrivkeyNet
    <3> QED
      BY <3>2, <3>4
  <2>5. ASSUME Follows PROVE answers[k][i].net = Left(k)
    <3>1. CASE opts.command = "address"
      BY <2>3, <2>5, <3>1, AddressNet DEF IsAnswer
    <3>2. CASE opts.command = "balance" /\ opts.type \in {"wif", "string"}
      BY <2>3, <2>5, <3>2, BalanceNet DEF IsAnswer
    <3> QED
      BY <2>5, <3>1, <3>2 DEF Follows
  <2> QED
    BY <2>4, <2>5
<1> QED
  BY <1>1, KeyInvariant, PTL

-----------------------------------------------------------------------------
(* A rehash list gives what was asked for.                                 *)

\* Without an output option, and with one form, a key gives one WIF of it.
LEMMA OneForm ==
  ASSUME opts \in Option, opts.out = {}, NEW key, IsKey(key), NEW net
  PROVE  /\ Forms(key, net) = << ToWif(key, net) >>
         /\ ToWif(key, net).data = key.data
<1>1. Forms(key, net) = (<< ToWif(key, net) >> \o <<>>) \o <<>>
  BY DEF Forms
<1>2. ToWif(key, net).data = key.data
  BY DEF ToWif, WifText
<1> DEFINE wif == ToWif(key, net)
<1> HIDE DEF wif
<1>3. << wif >> \in Seq({wif})
  OBVIOUS
<1>4. << wif >> \o <<>> = << wif >>
  BY <1>3, ConcatEmptySeq
<1> QED
  BY <1>1, <1>2, <1>4 DEF wif

LEMMA OneOutput ==
  ASSUME opts \in Option, opts.out = {}, ~(opts.on /\ opts.off),
         NEW key, IsKey(key), NEW net
  PROVE  Len(Outputs(key, net)) = 1 /\ Outputs(key, net)[1].data = key.data
<1>1. \E pass : Passes(key) = <<pass>> /\ IsKey(pass) /\ pass.data = key.data
  BY DEF Passes, IsKey, Option
<1>2. PICK pass : Passes(key) = <<pass>> /\ IsKey(pass) /\ pass.data = key.data
  BY <1>1
<1> DEFINE wif == ToWif(pass, net)
           parts == [k \in DOMAIN Passes(key) |-> Forms(Passes(key)[k], net)]
<1>3. Forms(pass, net) = <<wif>> /\ wif.data = key.data
  BY <1>2, OneForm
<1>4. Outputs(key, net) = FlattenSeq(parts)
  BY DEF Outputs
<1>5. DOMAIN parts = 1 .. 1 /\ \A k \in DOMAIN parts : parts[k] = <<wif>>
  BY <1>2, <1>3
<1> HIDE DEF wif
<1>6. parts \in [1 .. 1 -> Seq({wif})]
  <2>1. <<wif>> \in Seq({wif})
    OBVIOUS
  <2> QED
    BY <1>5, <2>1
<1>7. parts = [k \in 1 .. 1 |-> parts[k]]
  BY <1>5
<1> HIDE DEF parts
<1>8. parts \in Seq(Seq({wif})) /\ Len(parts) = 1
  BY <1>6, SequenceIs
<1>9. /\ Len(FlattenSeq(parts)) = 1
      /\ FlattenSeq(parts)[1] = parts[1][1]
  BY <1>5, <1>8, FlattenOnes
<1>10. parts[1] = <<wif>>
  BY <1>5
<1> QED
  BY <1>3, <1>4, <1>9, <1>10

\* The numbers of a list that is accepted, in order.
LEMMA CountsInOrder ==
  ASSUME opts \in Option, NEW text \in Texts, NEW way, ListOf(text, way).status = "ok"
  PROVE  LET counts == Sorted(ListOf(text, way).counts)
             asked == Requested(text)
         IN  /\ counts \in Seq(Nat) /\ Len(counts) = Cardinality(asked)
             /\ \A k \in 1 .. Len(counts) : k # 1 => counts[k - 1] < counts[k]
             /\ \A n \in asked : /\ Place(n, asked) \in 1 .. Len(counts)
                                 /\ counts[Place(n, asked)] = n
<1> DEFINE counts == Sorted(ListOf(text, way).counts)
           asked == Requested(text)
<1>1. ListOf(text, way).counts \in Seq(Nat) /\ Range(ListOf(text, way).counts) = asked
  BY CountsAre
<1>2. /\ IsFiniteSet(asked) /\ asked \subseteq Nat /\ Cardinality(asked) \in Nat
      /\ counts \in Seq(Nat) /\ Len(counts) = Cardinality(asked)
      /\ \A k \in 1 .. Cardinality(asked) :
           counts[k] \in asked /\ Place(counts[k], asked) = k
  BY <1>1, SortedIs
<1> HIDE DEF counts, asked
<1>3. ASSUME NEW k \in 1 .. Len(counts), k # 1 PROVE counts[k - 1] < counts[k]
  <2>1. k - 1 \in 1 .. Cardinality(asked) /\ k \in 1 .. Cardinality(asked) /\ k - 1 < k
    BY <1>2, <1>3
  <2>2. /\ counts[k - 1] \in asked /\ Place(counts[k - 1], asked) = k - 1
        /\ counts[k] \in asked /\ Place(counts[k], asked) = k
    BY <1>2, <2>1
  <2>3. Place(counts[k - 1], asked) < Place(counts[k], asked)
    BY <2>1, <2>2
  <2> QED
    BY <1>2, <2>2, <2>3, PlaceOrders
<1>4. ASSUME NEW n \in asked
      PROVE  Place(n, asked) \in 1 .. Len(counts) /\ counts[Place(n, asked)] = n
  <2>1. Place(n, asked) \in 1 .. Cardinality(asked)
    BY <1>2, PlaceBelow
  <2>2. /\ counts[Place(n, asked)] \in asked
        /\ Place(counts[Place(n, asked)], asked) = Place(n, asked)
    BY <1>2, <2>1
  <2>3. counts[Place(n, asked)] = n
    BY <1>2, <2>2, PlaceOrders
  <2> QED
    BY <1>2, <2>1, <2>3
<1> QED
  BY <1>2, <1>3, <1>4 DEF counts, asked

\* The answer holds one key for every number asked for, at its place.
LEMMA RehashAnswer ==
  ASSUME opts \in Option, opts.out = {}, ~(opts.on /\ opts.off),
         NEW text \in Texts, NEW way, ListOf(text, way).status = "ok", NEW net,
         NEW key, IsKey(key)
  PROVE  /\ Len(Rehashes(key, text, way, net)) = Cardinality(Requested(text))
         /\ \A n \in Requested(text) :
              Rehashes(key, text, way, net)[Place(n, Requested(text))].data
                = Rehashed(key.data, n)
<1> DEFINE counts == Sorted(ListOf(text, way).counts)
           asked == Requested(text)
           data == HashedData(key.data, counts)
           K == RehashedKeys(key, text, way)
           S == UNION {OutSet(K[k], net) : k \in DOMAIN K}
           parts == [k \in DOMAIN K |-> Outputs(K[k], net)]
<1>1. /\ counts \in Seq(Nat) /\ Len(counts) = Cardinality(asked)
      /\ \A k \in 1 .. Len(counts) : k # 1 => counts[k - 1] < counts[k]
      /\ \A n \in asked : Place(n, asked) \in 1 .. Len(counts) /\ counts[Place(n, asked)] = n
  BY CountsInOrder
<1>2. Rehashes(key, text, way, net) = FlattenSeq(parts)
  BY DEF Rehashes
<1>3. parts \in Seq(Seq(S))
  BY RehashParts
<1>4. K = [k \in DOMAIN counts |-> [key EXCEPT !.data = data[k]]]
  BY DEF RehashedKeys, HashedKeys
<1>5. \A k \in 1 .. Len(counts) : data[k] = Rehashed(key.data, counts[k])
  <2> HIDE DEF counts
  <2> QED
    BY <1>1, HashedDataIs
<1> HIDE DEF counts, asked, data, K, S
<1>6. DOMAIN counts = 1 .. Len(counts) /\ Len(counts) \in Nat
  BY <1>1
<1>7. ASSUME NEW k \in 1 .. Len(counts)
      PROVE  /\ Len(Outputs(K[k], net)) = 1
             /\ Outputs(K[k], net)[1].data = Rehashed(key.data, counts[k])
  <2>1. K[k] = [key EXCEPT !.data = data[k]]
    BY <1>4, <1>6
  <2>2. IsKey(K[k]) /\ K[k].data = data[k]
    BY <2>1 DEF IsKey
  <2>3. Len(Outputs(K[k], net)) = 1 /\ Outputs(K[k], net)[1].data = K[k].data
    BY <2>2, OneOutput
  <2> QED
    BY <1>5, <2>2, <2>3
<1>8. DOMAIN K = 1 .. Len(counts)
  BY <1>4, <1>6
<1>9. DOMAIN parts = 1 .. Len(counts) /\ \A k \in 1 .. Len(counts) : parts[k] = Outputs(K[k], net)
  BY <1>8
<1> HIDE DEF parts
<1>10. Len(parts) = Len(counts)
  BY <1>3, <1>6, <1>9
<1>11. \A k \in DOMAIN parts : Len(parts[k]) = 1
  BY <1>7, <1>9
<1>12. /\ Len(FlattenSeq(parts)) = Len(parts)
       /\ \A k \in DOMAIN parts : FlattenSeq(parts)[k] = parts[k][1]
  BY <1>3, <1>11, FlattenOnes
<1>13. ASSUME NEW n \in asked
       PROVE  FlattenSeq(parts)[Place(n, asked)].data = Rehashed(key.data, n)
  <2> DEFINE p == Place(n, asked)
  <2>1. p \in 1 .. Len(counts) /\ counts[p] = n
    BY <1>1
  <2> HIDE DEF p
  <2>2. FlattenSeq(parts)[p] = Outputs(K[p], net)[1]
    BY <1>9, <1>12, <2>1
  <2> QED
    BY <1>7, <2>1, <2>2 DEF p
<1> QED
  BY <1>1, <1>2, <1>10, <1>12, <1>13 DEF asked

LEMMA ReadIsKey ==
  ASSUME NEW way \in InputTypes, NEW text, NEW x \in ReadPrivkey(way, text)
  PROVE  IsKey(x)
BY ReadIs

(***************************************************************************)
(* A rehash list gives the key hashed as often as each number asked for    *)
(* says, in order and each once, whatever the order of the list and        *)
(* whichever item it is used for (btk_privkey.c lines 84-109 and 289-395). *)
(***************************************************************************)
THEOREM RehashedAsAsked == Spec => []RehashesAsAsked
<1>1. KeyInv => RehashesAsAsked
  <2> SUFFICES ASSUME KeyInv, opts.command = "privkey", opts.rehash # <<>>, opts.out = {},
                      ~(opts.on /\ opts.off), NEW k \in DOMAIN answers
               PROVE  \E key \in ReadPrivkey(TypeAt(k), items[k]) :
                        /\ Len(answers[k]) = Cardinality(Requested(items[k]))
                        /\ \A n \in Requested(items[k]) :
                             answers[k][Place(n, Requested(items[k]))].data = Rehashed(key.data, n)
    BY DEF RehashesAsAsked
  <2>1. opts \in Option /\ k \in 1 .. Len(items)
    BY OptionIs DEF KeyInv, Lengths
  <2>2. Answered(k) /\ items[k] \in Texts
    BY <2>1 DEF KeyInv, Lengths
  <2>3. IsPrivkeyAnswer(items[k], TypeAt(k), nets[k], answers[k])
    BY <2>2 DEF Answered, IsAnswer
  <2>4. PICK key \in ReadPrivkey(TypeAt(k), items[k]) :
          answers[k] = Rehashes(key, items[k], TypeAt(k), nets[k])
    BY <2>3 DEF IsPrivkeyAnswer
  <2>5. ListOf(items[k], TypeAt(k)).status = "ok"
    BY <2>3 DEF IsPrivkeyAnswer
  <2>6. TypeAt(k) \in InputTypes
    BY <2>1 DEF TypeAt, Option, InputTypes
  <2>7. IsKey(key)
    BY <2>4, <2>6, ReadIsKey
  <2> QED
    BY <2>1, <2>2, <2>4, <2>5, <2>7, RehashAnswer
<1> QED
  BY <1>1, KeyInvariant, PTL
=============================================================================
