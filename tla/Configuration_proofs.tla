------------------------- MODULE Configuration_proofs -------------------------
(***************************************************************************)
(* What Configuration promises of the configuration file, proved for every *)
(* number of runs at a time, whatever the file holds at first, the keys,   *)
(* the values and the size of the buffer it is read into.                  *)
(***************************************************************************)
EXTENDS Configuration, FiniteSetTheorems, SequenceTheorems, WellFoundedInduction, TLAPS

-----------------------------------------------------------------------------
(* Sequences, folded.  A fold is a function of all sets of positions; what *)
(* is said of it is an induction over those, carried out on a smallest     *)
(* counterexample.                                                         *)

\* Among natural numbers there is a smallest one: induction.
LEMMA SmallestOne ==
  ASSUME NEW F, F \subseteq Nat, F # {}
  PROVE  \E m \in F : \A n \in F : m <= n
<1>1. PICK m \in F : \A n \in F : ~(<<n, m>> \in OpToRel(<, Nat))
  BY NatLessThanWellFounded, WFMin
<1>2. \A n \in F : ~(n < m)
  BY <1>1 DEF OpToRel
<1> QED
  BY <1>2

\* Positions of a sequence.
Positions(S) == \E n \in Nat : S \subseteq 1 .. n

\* There are finitely many of them, and parts of them are positions too.
LEMMA SomePositions ==
  ASSUME NEW S, Positions(S)
  PROVE  IsFiniteSet(S) /\ \A T \in SUBSET S : Positions(T)
<1>1. PICK n \in Nat : S \subseteq 1 .. n
  BY DEF Positions
<1>2. IsFiniteSet(1 .. n)
  BY FS_Interval
<1> QED
  BY <1>1, <1>2, FS_Subset DEF Positions

\* The largest of some positions: the one that is furthest from the end is not.
LEMMA MaxOfSome ==
  ASSUME NEW T, Positions(T), T # {}
  PROVE  Max(T) \in T /\ \A t \in T : t <= Max(T)
<1>0. PICK n \in Nat : T \subseteq 1 .. n
  BY DEF Positions
<1>n. \A t \in T : t \in Nat /\ n - t \in Nat
  BY <1>0
<1> DEFINE F == {n - t : t \in T}
<1>1. F \subseteq Nat /\ F # {}
  BY <1>n
<1>2. PICK m \in F : \A k \in F : m <= k
  BY <1>1, SmallestOne
<1>3. PICK x \in T : m = n - x
  BY <1>2
<1>4. ASSUME NEW t \in T PROVE t <= x
  <2>1. n - t \in F
    OBVIOUS
  <2>2. n - x <= n - t
    BY <1>2, <1>3, <2>1
  <2> QED
    BY <1>n, <2>2
<1>5. \A t \in T : x >= t
  BY <1>4, <1>n
<1> QED
  BY <1>4, <1>5, <1>n DEF Max

\* The last of the first k positions.
LEMMA MaxOfRange ==
  ASSUME NEW k \in Nat \ {0}
  PROVE  Max(1 .. k) = k /\ (1 .. k) \ {k} = 1 .. (k - 1)
<1>0. Positions(1 .. k) /\ 1 .. k # {} /\ k \in 1 .. k
  BY DEF Positions
<1>1. Max(1 .. k) \in 1 .. k /\ k <= Max(1 .. k)
  BY <1>0, MaxOfSome
<1> QED
  BY <1>1

\* The function of all sets of positions by which a sequence is folded.
IsFold(base, g, S, f) ==
  f = [T \in SUBSET S |-> IF T = {} THEN base ELSE g[Max(T)][f[T \ {Max(T)}]]]

FoldOf(base, g, S) == CHOOSE f : IsFold(base, g, S, f)

\* Its value at a set of positions, from that at the smaller one.
FoldedAt(base, g, f, T) ==
  /\ T = {} => f[T] = base
  /\ T # {} => Max(T) \in T /\ f[T] = g[Max(T)][f[T \ {Max(T)}]]

\* That is how the function is defined.
LEMMA FoldStep ==
  ASSUME NEW base, NEW g, NEW S, Positions(S), NEW f, IsFold(base, g, S, f), NEW T \in SUBSET S
  PROVE  FoldedAt(base, g, f, T)
<1>1. T # {} => Max(T) \in T
  BY SomePositions, MaxOfSome
<1>2. f[T] = IF T = {} THEN base ELSE g[Max(T)][f[T \ {Max(T)}]]
  BY DEF IsFold
<1> QED
  BY <1>1, <1>2 DEF FoldedAt

\* Among sets of positions there is one with no smaller one: induction.
LEMMA SmallestSet ==
  ASSUME NEW S, Positions(S), NEW F, F \subseteq SUBSET S, F # {}
  PROVE  \E T \in F : \A U \in F : U \subseteq T => U = T
<1>0. IsFiniteSet(S)
  BY SomePositions
<1>1. F \subseteq FiniteSubsetsOf(S)
  BY <1>0, FS_Subset DEF FiniteSubsetsOf
<1>2. PICK T \in F : \A U \in F : ~(<<U, T>> \in StrictSubsetOrdering(S))
  BY <1>0, <1>1, FS_StrictSubsetOrderingWellFounded, WFMin
<1> QED
  BY <1>1, <1>2 DEF StrictSubsetOrdering

\* It does not matter of which positions the sets are taken.
LEMMA FoldsAgree ==
  ASSUME NEW base, NEW g, NEW S, Positions(S), NEW f, IsFold(base, g, S, f),
         NEW R, Positions(R), NEW h, IsFold(base, g, R, h),
         NEW T, T \subseteq S, T \subseteq R
  PROVE  f[T] = h[T]
<1> DEFINE F == {U \in SUBSET T : f[U] # h[U]}
<1> SUFFICES ASSUME F # {} PROVE FALSE
  OBVIOUS
<1> HIDE DEF F
<1>0. F \subseteq SUBSET S
  BY DEF F
<1>1. PICK U \in F : \A V \in F : V \subseteq U => V = U
  BY <1>0, SmallestSet
<1>2. U \in SUBSET S /\ U \in SUBSET R /\ U \in SUBSET T /\ f[U] # h[U]
  BY DEF F
<1>a. U \in SUBSET S
  BY <1>2
<1>b. U \in SUBSET R
  BY <1>2
<1>3. FoldedAt(base, g, f, U)
  BY <1>a, FoldStep
<1>4. FoldedAt(base, g, h, U)
  BY <1>b, FoldStep
<1>5. U # {} /\ Max(U) \in U /\ U \ {Max(U)} \notin F
  BY <1>1, <1>2, <1>3, <1>4 DEF FoldedAt
<1>6. f[U \ {Max(U)}] = h[U \ {Max(U)}]
  BY <1>2, <1>5 DEF F
<1> QED
  BY <1>2, <1>3, <1>4, <1>5, <1>6 DEF FoldedAt

\* There is such a function.
LEMMA FoldExists ==
  ASSUME NEW base, NEW g, NEW S, Positions(S)
  PROVE  IsFold(base, g, S, FoldOf(base, g, S))
<1> DEFINE F == {T \in SUBSET S : ~ \E f : IsFold(base, g, T, f)}
<1> SUFFICES ASSUME F # {} PROVE FALSE
  BY DEF FoldOf
<1> HIDE DEF F
<1>0. F \subseteq SUBSET S
  BY DEF F
<1>1. PICK T \in F : \A U \in F : U \subseteq T => U = T
  BY <1>0, SmallestSet
<1>2. T \in SUBSET S /\ ~ \E f : IsFold(base, g, T, f)
  BY DEF F
<1>3. ASSUME NEW U \in SUBSET T, U # T
      PROVE  IsFold(base, g, U, FoldOf(base, g, U))
  <2>1. \E f : IsFold(base, g, U, f)
    BY <1>1, <1>2, <1>3 DEF F
  <2> QED
    BY <2>1 DEF FoldOf
<1> DEFINE h == [U \in SUBSET T |->
                   IF U = {} THEN base
                   ELSE g[Max(U)][FoldOf(base, g, U \ {Max(U)})[U \ {Max(U)}]]]
<1>4. ASSUME NEW U \in SUBSET T, U # T
      PROVE  h[U] = FoldOf(base, g, U)[U]
  <2>0. Positions(U) /\ IsFold(base, g, U, FoldOf(base, g, U))
    BY <1>2, <1>3, <1>4, SomePositions
  <2> DEFINE V == U \ {Max(U)}
  <2> DEFINE f == FoldOf(base, g, U)
  <2> HIDE DEF f
  <2>f. IsFold(base, g, U, f)
    BY <2>0 DEF f
  <2>1. FoldedAt(base, g, f, U)
    BY <2>0, <2>f, FoldStep
  <2>2. V \in SUBSET S /\ V \in SUBSET T /\ V # T /\ V \subseteq U
    BY <1>2, <1>4, <2>1 DEF FoldedAt
  <2> DEFINE e == FoldOf(base, g, V)
  <2>3. Positions(V) /\ IsFold(base, g, V, e)
    BY <1>3, <2>2, SomePositions
  <2>5. h[U] = IF U = {} THEN base ELSE g[Max(U)][e[V]]
    OBVIOUS
  <2> HIDE DEF h, e
  <2>4. f[V] = e[V]
    BY <2>0, <2>f, <2>2, <2>3, FoldsAgree
  <2>6. h[U] = f[U]
    BY <2>1, <2>4, <2>5 DEF FoldedAt
  <2> QED
    BY <2>6 DEF f
<1>5. ASSUME NEW U \in SUBSET T
      PROVE  h[U] = IF U = {} THEN base ELSE g[Max(U)][h[U \ {Max(U)}]]
  <2> DEFINE V == U \ {Max(U)}
  <2>1. h[U] = IF U = {} THEN base ELSE g[Max(U)][FoldOf(base, g, V)[V]]
    OBVIOUS
  <2>2. U # {} => V \in SUBSET T /\ V # T
    BY <1>2, SomePositions, MaxOfSome
  <2>3. U # {} => h[V] = FoldOf(base, g, V)[V]
    BY <1>4, <2>2
  <2> HIDE DEF h, V
  <2> QED
    BY <2>1, <2>3 DEF V
<1>6. h = [U \in SUBSET T |-> IF U = {} THEN base ELSE g[Max(U)][h[U \ {Max(U)}]]]
  <2>1. h = [U \in SUBSET T |-> h[U]]
    OBVIOUS
  <2> HIDE DEF h
  <2> QED
    BY <1>5, <2>1
<1> HIDE DEF h
<1> QED
  BY <1>2, <1>6 DEF IsFold

\* It stays within a set that every step keeps to.
LEMMA FoldValues ==
  ASSUME NEW D, NEW base \in D, NEW S, Positions(S), NEW g \in [S -> [D -> D]],
         NEW f, IsFold(base, g, S, f)
  PROVE  \A T \in SUBSET S : f[T] \in D
<1> DEFINE F == {T \in SUBSET S : f[T] \notin D}
<1> SUFFICES ASSUME F # {} PROVE FALSE
  OBVIOUS
<1> HIDE DEF F
<1>0. F \subseteq SUBSET S
  BY DEF F
<1>1. PICK T \in F : \A U \in F : U \subseteq T => U = T
  BY <1>0, SmallestSet
<1>2. T \in SUBSET S /\ f[T] \notin D
  BY DEF F
<1>a. T \in SUBSET S
  BY <1>2
<1>3. FoldedAt(base, g, f, T)
  BY <1>a, FoldStep
<1>4. T # {} /\ Max(T) \in T /\ T \ {Max(T)} \notin F
  BY <1>1, <1>2, <1>3 DEF FoldedAt
<1>5. f[T \ {Max(T)}] \in D /\ Max(T) \in S
  BY <1>a, <1>4 DEF F
<1>6. g[Max(T)][f[T \ {Max(T)}]] \in D
  BY <1>5
<1> QED
  BY <1>2, <1>3, <1>4, <1>6 DEF FoldedAt

\* The entries of an object the program reads and writes.
Entry == ValidKeys \X (Values \cup {NotString})

\* An entry is a key and a value.
LEMMA Entries ==
  ASSUME NEW e \in Entry
  PROVE  /\ e = <<e[1], e[2]>> /\ e[1] \in ValidKeys
         /\ e[2] \in Values \cup {NotString} /\ e[2] \in Nat
<1>1. e = <<e[1], e[2]>> /\ e[1] \in ValidKeys /\ e[2] \in Values \cup {NotString}
  BY DEF Entry
<1>2. Values \cup {NotString} \subseteq Nat
  BY ConfigurationAssumption DEF NotString
<1> QED
  BY <1>1, <1>2

\* The positions of an object, and what is there.
LEMMA Indexes ==
  ASSUME NEW object \in Seq(Entry)
  PROVE  /\ Len(object) \in Nat /\ DOMAIN object = 1 .. Len(object)
         /\ Positions(DOMAIN object)
         /\ \A k \in DOMAIN object : object[k] \in Entry
<1>1. Len(object) \in Nat /\ DOMAIN object = 1 .. Len(object) /\ \A k \in DOMAIN object : object[k] \in Entry
  OBVIOUS
<1> QED
  BY <1>1 DEF Positions

-----------------------------------------------------------------------------
(* Texts.                                                                  *)

\* The function by which Length is defined.
IsLength(object, f) ==
  f = [T \in SUBSET DOMAIN object |->
         IF T = {} THEN 1 ELSE f[T \ {Max(T)}] + 1 + object[Max(T)][2]]

\* The length of a text is a number.
LEMMA LengthNat ==
  ASSUME NEW object \in Seq(Entry)
  PROVE  Length(object) \in Nat
<1> DEFINE S == DOMAIN object
           g == [i \in S |-> [n \in Nat |-> n + 1 + object[i][2]]]
           f == FoldOf(1, g, S)
           c == CHOOSE e : IsLength(object, e)
<1>1. Positions(S)
  BY Indexes
<1>2. \A i \in S : object[i][2] \in Nat
  BY Indexes, Entries
<1>3. g \in [S -> [Nat -> Nat]]
  BY <1>2
<1>4. IsFold(1, g, S, f)
  BY <1>1, FoldExists
<1> HIDE DEF f
<1>5. \A T \in SUBSET S : f[T] \in Nat
  <2> HIDE DEF g, S
  <2> QED
    BY <1>1, <1>3, <1>4, FoldValues
<1>6. ASSUME NEW T \in SUBSET S, T # {}
      PROVE  Max(T) \in T /\ g[Max(T)][f[T \ {Max(T)}]] = f[T \ {Max(T)}] + 1 + object[Max(T)][2]
  <2>1. Max(T) \in T
    BY <1>1, <1>6, SomePositions, MaxOfSome
  <2>2. f[T \ {Max(T)}] \in Nat
    BY <1>5
  <2> QED
    BY <2>1, <2>2
<1>7. IsLength(object, f)
  <2>1. f = [T \in SUBSET S |-> IF T = {} THEN 1 ELSE g[Max(T)][f[T \ {Max(T)}]]]
    BY <1>4 DEF IsFold
  <2> HIDE DEF g
  <2> QED
    BY <1>6, <2>1 DEF IsLength
<1>8. IsLength(object, c)
  BY <1>7
<1>9. Length(object) = c[S]
  BY DEF Length, FoldLeft, MapThenFoldSet, IsLength
<1> HIDE DEF c
<1> DEFINE F == {T \in SUBSET S : c[T] \notin Nat}
<1>10. F = {}
  <2> SUFFICES ASSUME F # {} PROVE FALSE
    OBVIOUS
  <2>1. PICK T \in F : \A U \in F : U \subseteq T => U = T
    <3>1. F \subseteq SUBSET S
      OBVIOUS
    <3> HIDE DEF F, S
    <3> QED
      BY <1>1, <3>1, SmallestSet
  <2>2. T \in SUBSET S /\ c[T] \notin Nat
    OBVIOUS
  <2>3. T # {} /\ Max(T) \in T
    BY <1>1, <1>8, <2>2, SomePositions, MaxOfSome DEF IsLength
  <2>4. c[T \ {Max(T)}] \in Nat
    BY <2>1, <2>2, <2>3
  <2>5. c[T] = c[T \ {Max(T)}] + 1 + object[Max(T)][2]
    BY <1>8, <2>2, <2>3 DEF IsLength
  <2>6. object[Max(T)][2] \in Nat
    BY <1>2, <2>2, <2>3
  <2> QED
    BY <2>2, <2>4, <2>5, <2>6
<1> QED
  BY <1>9, <1>10

-----------------------------------------------------------------------------
(* Objects.                                                                *)

\* A key that is there has a first entry.
LEMMA FirstFacts ==
  ASSUME NEW object \in Seq(Entry), NEW key \in KeysOf(object)
  PROVE  First(object, key) \in DOMAIN object /\ object[First(object, key)][1] = key
<1> DEFINE F == {k \in DOMAIN object : object[k][1] = key}
<1>1. F \subseteq Nat /\ F # {}
  BY Indexes DEF KeysOf
<1>2. PICK k \in F : \A j \in F : k <= j
  BY <1>1, SmallestOne
<1>3. k \in 1 .. Len(object) /\ Len(object) \in Nat /\ DOMAIN object = 1 .. Len(object)
  BY Indexes
<1>4. ASSUME NEW j \in 1 .. (k - 1) PROVE object[j][1] # key
  <2>1. j \in DOMAIN object /\ ~(k <= j)
    BY <1>3, <1>4
  <2> QED
    BY <1>2, <2>1
<1> HIDE DEF F
<1>5. k \in DOMAIN object /\ object[k][1] = key
  BY DEF F
<1> QED
  BY <1>4, <1>5 DEF First

\* No entry hides another.
LEMMA LookupOnce ==
  ASSUME NEW object \in Seq(Entry), ~HasTwice(object), NEW k \in DOMAIN object
  PROVE  Lookup(object, object[k][1]) = object[k][2]
<1>1. object[k][1] \in KeysOf(object)
  BY DEF KeysOf
<1> DEFINE f == First(object, object[k][1])
<1>2. f \in DOMAIN object /\ object[f][1] = object[k][1]
  BY <1>1, FirstFacts
<1>3. f = k
  <2>1. DOMAIN object \subseteq Int
    BY Indexes
  <2>2. ~(f < k) /\ ~(k < f)
    BY <1>2 DEF HasTwice
  <2> QED
    BY <1>2, <2>1, <2>2
<1> QED
  BY <1>3 DEF Lookup

\* An object without a key twice says what its entries do.
LEMMA MeaningIs ==
  ASSUME NEW object \in Seq(Entry), ~HasTwice(object),
         NEW F, F = [key \in KeysOf(object) |-> F[key]],
         \A k \in DOMAIN object : F[object[k][1]] = object[k][2]
  PROVE  Meaning(object) = F
<1>1. ASSUME NEW key \in KeysOf(object) PROVE Lookup(object, key) = F[key]
  <2>1. PICK k \in DOMAIN object : object[k][1] = key
    BY <1>1 DEF KeysOf
  <2> QED
    BY <2>1, LookupOnce
<1>2. Meaning(object) = [key \in KeysOf(object) |-> F[key]]
  BY <1>1 DEF Meaning
<1> QED
  BY <1>2

\* The meaning of such an object, entry by entry.
LEMMA MeaningAt ==
  ASSUME NEW object \in Seq(Entry), ~HasTwice(object), NEW k \in DOMAIN object
  PROVE  /\ DOMAIN Meaning(object) = KeysOf(object) /\ object[k][1] \in KeysOf(object)
         /\ Meaning(object)[object[k][1]] = object[k][2]
<1>1. object[k][1] \in KeysOf(object)
  BY DEF KeysOf
<1> QED
  BY <1>1, LookupOnce DEF Meaning

\* An entry that comes last.
LEMMA Appended ==
  ASSUME NEW kept \in Seq(Entry), NEW e \in Entry
  PROVE  /\ Append(kept, e) \in Seq(Entry)
         /\ DOMAIN Append(kept, e) = (DOMAIN kept) \cup {Len(kept) + 1}
         /\ \A m \in DOMAIN kept : m < Len(kept) + 1 /\ Append(kept, e)[m] = kept[m]
         /\ Append(kept, e)[Len(kept) + 1] = e
<1>1. /\ Append(kept, e) \in Seq(Entry) /\ Len(kept) \in Nat /\ DOMAIN kept = 1 .. Len(kept)
      /\ Len(Append(kept, e)) = Len(kept) + 1
      /\ \A m \in 1 .. Len(kept) : Append(kept, e)[m] = kept[m]
      /\ Append(kept, e)[Len(kept) + 1] = e
  OBVIOUS
<1>2. DOMAIN Append(kept, e) = 1 .. (Len(kept) + 1)
  BY <1>1
<1> QED
  BY <1>1, <1>2

\* A new key does not make any be there twice.
LEMMA AppendedOnce ==
  ASSUME NEW kept \in Seq(Entry), NEW e \in Entry, ~HasTwice(kept), e[1] \notin KeysOf(kept)
  PROVE  ~HasTwice(Append(kept, e))
<1> DEFINE a == Append(kept, e)
           n == Len(kept) + 1
<1>0. DOMAIN kept \subseteq Int /\ n \in Int
  BY Indexes
<1>1. /\ DOMAIN a = (DOMAIN kept) \cup {n} /\ a[n] = e
      /\ \A m \in DOMAIN kept : m < n /\ a[m] = kept[m]
  BY Appended
<1> HIDE DEF a, n
<1>2. ASSUME NEW j \in DOMAIN a, NEW k \in DOMAIN a, j < k, a[j][1] = a[k][1] PROVE FALSE
  <2>1. j \in DOMAIN kept
    BY <1>0, <1>1, <1>2
  <2>2. CASE k \in DOMAIN kept
    BY <1>1, <1>2, <2>1, <2>2 DEF HasTwice
  <2>3. CASE k = n
    BY <1>1, <1>2, <2>1, <2>3 DEF KeysOf
  <2> QED
    BY <1>1, <2>2, <2>3
<1> QED
  BY <1>2 DEF HasTwice, a

-----------------------------------------------------------------------------
(* config_set.                                                             *)

\* The function by which Set keeps the entries of other keys.
IsKept(object, key, f) ==
  f = [T \in SUBSET DOMAIN object |->
         IF T = {} THEN <<>>
         ELSE IF object[Max(T)][1] = key THEN f[T \ {Max(T)}]
         ELSE Append(f[T \ {Max(T)}], object[Max(T)])]

KeptOf(object, key) == CHOOSE f : IsKept(object, key, f)

\* There is such a function.
LEMMA KeptExists ==
  ASSUME NEW object \in Seq(Entry), NEW key
  PROVE  IsKept(object, key, KeptOf(object, key))
<1> DEFINE S == DOMAIN object
           D == Seq(Entry)
           g == [i \in S |-> [kept \in D |->
                   IF object[i][1] = key THEN kept ELSE Append(kept, object[i])]]
           f == FoldOf(<<>>, g, S)
<1>1. Positions(S) /\ \A i \in S : object[i] \in Entry
  BY Indexes
<1>2. <<>> \in D /\ \A kept \in D, e \in Entry : Append(kept, e) \in D
  BY Appended
<1>3. g \in [S -> [D -> D]]
  <2> HIDE DEF D
  <2> QED
    BY <1>1, <1>2
<1>4. IsFold(<<>>, g, S, f)
  BY <1>1, FoldExists
<1> HIDE DEF f
<1>5. \A T \in SUBSET S : f[T] \in D
  <2> HIDE DEF g, S, D
  <2> QED
    BY <1>1, <1>2, <1>3, <1>4, FoldValues
<1>6. ASSUME NEW T \in SUBSET S, T # {}
      PROVE  g[Max(T)][f[T \ {Max(T)}]]
               = IF object[Max(T)][1] = key THEN f[T \ {Max(T)}]
                 ELSE Append(f[T \ {Max(T)}], object[Max(T)])
  <2>1. Max(T) \in S
    BY <1>1, <1>6, SomePositions, MaxOfSome
  <2>2. f[T \ {Max(T)}] \in D
    BY <1>5
  <2> HIDE DEF D
  <2> QED
    BY <2>1, <2>2
<1>7. IsKept(object, key, f)
  <2>1. f = [T \in SUBSET S |-> IF T = {} THEN <<>> ELSE g[Max(T)][f[T \ {Max(T)}]]]
    BY <1>4 DEF IsFold
  <2> HIDE DEF g
  <2> QED
    BY <1>6, <2>1 DEF IsKept
<1> QED
  BY <1>7 DEF KeptOf

\* What is left of the first k entries.
Keeps(object, key, kept, k) ==
  /\ kept \in Seq(Entry)
  /\ \A m \in DOMAIN kept : \E j \in 1 .. k : object[j] = kept[m] /\ object[j][1] # key
  /\ \A j \in 1 .. k : object[j][1] # key => \E m \in DOMAIN kept : kept[m] = object[j]
  /\ HasTwice(kept) => HasTwice(object)

\* One more entry.
LEMMA KeepsStep ==
  ASSUME NEW object \in Seq(Entry), NEW key, NEW k \in DOMAIN object,
         NEW kept, Keeps(object, key, kept, k - 1)
  PROVE  Keeps(object, key, IF object[k][1] = key THEN kept ELSE Append(kept, object[k]), k)
<1>0. k \in Nat \ {0} /\ 1 .. k = (1 .. (k - 1)) \cup {k} /\ object[k] \in Entry
  BY Indexes
<1>j. \A j \in 1 .. (k - 1) : j \in DOMAIN object /\ j < k
  BY Indexes
<1>1. CASE object[k][1] = key
  BY <1>0, <1>1 DEF Keeps
<1>2. CASE object[k][1] # key
  <2> DEFINE a == Append(kept, object[k])
             n == Len(kept) + 1
  <2>1. /\ a \in Seq(Entry) /\ DOMAIN a = (DOMAIN kept) \cup {n} /\ a[n] = object[k]
        /\ \A m \in DOMAIN kept : a[m] = kept[m]
    <3>1. kept \in Seq(Entry)
      BY DEF Keeps
    <3> QED
      BY <1>0, <3>1, Appended
  <2>2. HasTwice(a) => HasTwice(object)
    <3> SUFFICES ASSUME ~HasTwice(object) PROVE ~HasTwice(a)
      OBVIOUS
    <3>1. object[k][1] \notin KeysOf(kept)
      <4> SUFFICES ASSUME NEW m \in DOMAIN kept, kept[m][1] = object[k][1] PROVE FALSE
        BY DEF KeysOf
      <4>1. PICK j \in 1 .. (k - 1) : object[j] = kept[m]
        BY DEF Keeps
      <4> QED
        BY <1>j, <4>1 DEF HasTwice
    <3>2. kept \in Seq(Entry) /\ ~HasTwice(kept)
      BY DEF Keeps
    <3> QED
      BY <1>0, <3>1, <3>2, AppendedOnce
  <2> HIDE DEF a, n
  <2>3. ASSUME NEW m \in DOMAIN a
        PROVE  \E j \in 1 .. k : object[j] = a[m] /\ object[j][1] # key
    <3>1. CASE m = n
      BY <1>0, <1>2, <2>1, <3>1
    <3>2. CASE m \in DOMAIN kept
      <4>1. PICK j \in 1 .. (k - 1) : object[j] = kept[m] /\ object[j][1] # key
        BY <3>2 DEF Keeps
      <4> QED
        BY <1>0, <2>1, <3>2, <4>1
    <3> QED
      BY <2>1, <3>1, <3>2
  <2>4. ASSUME NEW j \in 1 .. k, object[j][1] # key
        PROVE  \E m \in DOMAIN a : a[m] = object[j]
    <3>1. CASE j = k
      BY <2>1, <3>1
    <3>2. CASE j \in 1 .. (k - 1)
      BY <2>1, <2>4, <3>2 DEF Keeps
    <3> QED
      BY <1>0, <3>1, <3>2
  <2>5. Keeps(object, key, a, k)
    BY <2>1, <2>2, <2>3, <2>4 DEF Keeps
  <2> QED
    BY <1>2, <2>5 DEF a
<1> QED
  BY <1>1, <1>2

\* All entries: the new one is put behind those that are kept.
LEMMA KeptAll ==
  ASSUME NEW object \in Seq(Entry), NEW key
  PROVE  \E kept : /\ Keeps(object, key, kept, Len(object))
                   /\ \A value : Set(object, key, value) = Append(kept, <<key, value>>)
<1> DEFINE n == Len(object)
           f == KeptOf(object, key)
           F == {k \in 0 .. n : ~Keeps(object, key, f[1 .. k], k)}
<1>0. n \in Nat /\ DOMAIN object = 1 .. n
  BY Indexes
<1>1. IsKept(object, key, f)
  BY KeptExists
<1>2. \A value : Set(object, key, value) = Append(f[1 .. n], <<key, value>>)
  BY <1>0 DEF Set, FoldLeft, MapThenFoldSet, KeptOf, IsKept
<1> HIDE DEF f
<1>3. F = {}
  <2> SUFFICES ASSUME F # {} PROVE FALSE
    OBVIOUS
  <2>1. PICK k \in F : \A j \in F : k <= j
    <3>1. F \subseteq Nat
      OBVIOUS
    <3> HIDE DEF F
    <3> QED
      BY <3>1, SmallestOne
  <2>2. k \in 0 .. n /\ ~Keeps(object, key, f[1 .. k], k)
    OBVIOUS
  <2>3. CASE k = 0
    <3>1. 1 .. k = {} /\ f[{}] = <<>>
      BY <1>1, <2>3 DEF IsKept
    <3>2. <<>> \in Seq(Entry) /\ DOMAIN <<>> = {}
      OBVIOUS
    <3> QED
      BY <2>2, <3>1, <3>2 DEF Keeps, HasTwice
  <2>4. CASE k # 0
    <3>1. k \in Nat \ {0} /\ k \in DOMAIN object /\ k - 1 \in 0 .. n /\ ~(k <= k - 1)
      BY <1>0, <2>2, <2>4
    <3>2. Keeps(object, key, f[1 .. (k - 1)], k - 1)
      BY <2>1, <3>1
    <3>3. Max(1 .. k) = k /\ (1 .. k) \ {k} = 1 .. (k - 1)
      BY <3>1, MaxOfRange
    <3>4. 1 .. k \in SUBSET DOMAIN object /\ 1 .. k # {}
      <4>1. n \in Nat /\ k \in Nat /\ k <= n /\ 1 <= k
        BY <1>0, <3>1
      <4>2. \A i \in 1 .. k : i \in 1 .. n
        BY <4>1
      <4>3. 1 .. k \subseteq 1 .. n
        BY <4>2
      <4>4. k \in 1 .. k
        BY <4>1
      <4>5. DOMAIN object = 1 .. n
        BY <1>0
      <4> HIDE DEF n
      <4> QED
        BY <4>3, <4>4, <4>5
    <3>5. f[1 .. k] = IF object[k][1] = key THEN f[1 .. (k - 1)]
                      ELSE Append(f[1 .. (k - 1)], object[k])
      BY <1>1, <3>3, <3>4 DEF IsKept
    <3>6. Keeps(object, key, IF object[k][1] = key THEN f[1 .. (k - 1)]
                             ELSE Append(f[1 .. (k - 1)], object[k]), k)
      BY <3>1, <3>2, KeepsStep
    <3> QED
      BY <2>2, <3>5, <3>6
  <2> QED
    BY <2>3, <2>4
<1>4. Keeps(object, key, f[1 .. n], n)
  BY <1>0, <1>3
<1> QED
  BY <1>2, <1>4

\* The new value is set, the values of all other keys are kept.
LEMMA SetMeaning ==
  ASSUME NEW object \in Seq(Entry), NEW key \in ValidKeys, NEW value \in Values
  PROVE  /\ Set(object, key, value) \in Seq(Entry)
         /\ ~HasTwice(object) =>
              /\ ~HasTwice(Set(object, key, value))
              /\ Meaning(Set(object, key, value))
                   = [other \in (DOMAIN Meaning(object)) \cup {key} |->
                        IF other = key THEN value ELSE Meaning(object)[other]]
<1> DEFINE n == Len(object)
           e == <<key, value>>
           F == [other \in (DOMAIN Meaning(object)) \cup {key} |->
                   IF other = key THEN value ELSE Meaning(object)[other]]
<1>1. PICK kept : Keeps(object, key, kept, n) /\ Set(object, key, value) = Append(kept, e)
  BY KeptAll
<1> DEFINE a == Append(kept, e)
           l == Len(kept) + 1
<1>0. DOMAIN object = 1 .. n
  BY Indexes
<1>2. e \in Entry /\ e[1] = key /\ e[2] = value
  BY DEF Entry
<1>3. kept \in Seq(Entry) /\ key \notin KeysOf(kept) /\ (HasTwice(kept) => HasTwice(object))
  BY <1>1 DEF Keeps, KeysOf
<1>4. /\ a \in Seq(Entry) /\ DOMAIN a = (DOMAIN kept) \cup {l} /\ a[l] = e
      /\ \A m \in DOMAIN kept : a[m] = kept[m]
  BY <1>2, <1>3, Appended
<1>t. SUFFICES ASSUME ~HasTwice(object) PROVE ~HasTwice(a) /\ Meaning(a) = F
  BY <1>1, <1>4
<1>5. ~HasTwice(a)
  BY <1>t, <1>2, <1>3, AppendedOnce DEF a
<1> HIDE DEF e, l, a
<1>6. DOMAIN Meaning(object) = KeysOf(object)
  BY DEF Meaning
<1>7. ASSUME NEW m \in DOMAIN a PROVE a[m][1] \in DOMAIN F /\ F[a[m][1]] = a[m][2]
  <2>1. CASE m = l
    BY <1>2, <1>4, <2>1
  <2>2. CASE m \in DOMAIN kept
    <3>1. PICK j \in 1 .. n : object[j] = kept[m] /\ object[j][1] # key
      BY <1>1, <2>2 DEF Keeps
    <3>2. object[j][1] \in KeysOf(object) /\ Meaning(object)[object[j][1]] = object[j][2]
      BY <1>t, <1>0, <3>1, MeaningAt
    <3> QED
      BY <1>4, <1>6, <2>2, <3>1, <3>2
  <2> QED
    BY <1>4, <2>1, <2>2
<1>8. ASSUME NEW other \in DOMAIN F PROVE other \in KeysOf(a)
  <2>1. CASE other = key
    BY <1>2, <1>4, <2>1 DEF KeysOf
  <2>2. CASE other # key
    <3>1. PICK j \in 1 .. n : object[j][1] = other
      BY <1>0, <1>6, <1>8, <2>2 DEF KeysOf
    <3>2. PICK m \in DOMAIN kept : kept[m] = object[j]
      BY <1>1, <2>2, <3>1 DEF Keeps
    <3> QED
      BY <1>4, <3>1, <3>2 DEF KeysOf
  <2> QED
    BY <2>1, <2>2
<1>9. DOMAIN F = KeysOf(a)
  BY <1>7, <1>8 DEF KeysOf
<1>10. F = [other \in KeysOf(a) |-> F[other]]
  BY <1>9
<1>11. Meaning(a) = F
  <2> HIDE DEF F
  <2> QED
    BY <1>4, <1>5, <1>7, <1>10, MeaningIs
<1> QED
  BY <1>5, <1>11

-----------------------------------------------------------------------------
(* config_unset.                                                           *)

\* What is left when one entry is removed.
LEMMA Removed ==
  ASSUME NEW object \in Seq(Entry), NEW i \in DOMAIN object
  PROVE  /\ RemoveAt(object, i) \in Seq(Entry)
         /\ DOMAIN RemoveAt(object, i) = 1 .. (Len(object) - 1)
         /\ \A m \in 1 .. (Len(object) - 1) :
              RemoveAt(object, i)[m] = object[IF m < i THEN m ELSE m + 1]
<1> DEFINE n == Len(object)
           before == SubSeq(object, 1, i - 1)
           after == SubSeq(object, i + 1, n)
<1>0. n \in Nat /\ i \in 1 .. n /\ DOMAIN object = 1 .. n
  BY Indexes
<1>1. /\ before \in Seq(Entry) /\ Len(before) = i - 1
      /\ \A m \in 1 .. (i - 1) : before[m] = object[m]
  <2>1. 1 \in 1 .. (n + 1) /\ i - 1 \in 0 .. n
    BY <1>0
  <2>2. \A j \in 1 .. (i - 1) : object[j] \in Entry
    BY <1>0, Indexes
  <2> QED
    BY <1>0, <2>1, SubSeqProperties
<1>2. /\ after \in Seq(Entry) /\ Len(after) = n - i
      /\ \A m \in 1 .. (n - i) : after[m] = object[i + m]
  <2>1. i + 1 \in 1 .. (n + 1) /\ n \in 0 .. n
    BY <1>0
  <2> QED
    BY <1>0, <2>1, SubSeqProperties
<1> HIDE DEF before, after
<1>3. /\ before \o after \in Seq(Entry)
      /\ Len(before \o after) = Len(before) + Len(after)
      /\ \A m \in 1 .. Len(before) : (before \o after)[m] = before[m]
      /\ \A m \in 1 .. Len(after) : (before \o after)[Len(before) + m] = after[m]
  <2>1. before \in Seq(Entry) /\ after \in Seq(Entry)
    BY <1>1, <1>2
  <2> QED
    BY <2>1, ConcatProperties
<1> DEFINE r == before \o after
<1> HIDE DEF r
<1>4. r \in Seq(Entry) /\ Len(r) = n - 1
  BY <1>0, <1>1, <1>2, <1>3 DEF r
<1>5. DOMAIN r = 1 .. (n - 1)
  BY <1>4
<1>6. ASSUME NEW m \in 1 .. (n - 1) PROVE r[m] = object[IF m < i THEN m ELSE m + 1]
  <2>1. CASE m < i
    <3>1. m \in 1 .. (i - 1) /\ m \in 1 .. Len(before)
      BY <1>0, <1>1, <2>1
    <3> QED
      BY <1>1, <1>3, <2>1, <3>1 DEF r
  <2>2. CASE ~(m < i)
    <3> DEFINE d == m + 1 - i
    <3>1. d \in 1 .. (n - i) /\ d \in 1 .. Len(after) /\ Len(before) + d = m /\ i + d = m + 1
      BY <1>0, <1>1, <1>2, <2>2
    <3> HIDE DEF d
    <3>2. r[Len(before) + d] = after[d]
      BY <1>3, <3>1 DEF r
    <3>3. after[d] = object[i + d]
      BY <1>2, <3>1
    <3> QED
      BY <2>2, <3>1, <3>2, <3>3
  <2> QED
    BY <2>1, <2>2
<1>7. RemoveAt(object, i) = r
  BY DEF RemoveAt, r, before, after
<1> QED
  BY <1>4, <1>5, <1>6, <1>7

\* The key is removed, the values of all other keys are kept.
LEMMA UnsetMeaning ==
  ASSUME NEW object \in Seq(Entry), NEW key \in KeysOf(object)
  PROVE  /\ Unset(object, key) \in Seq(Entry)
         /\ ~HasTwice(object) =>
              /\ ~HasTwice(Unset(object, key))
              /\ Meaning(Unset(object, key))
                   = [other \in (DOMAIN Meaning(object)) \ {key} |-> Meaning(object)[other]]
<1> DEFINE i == First(object, key)
           n == Len(object)
           a == Unset(object, key)
           F == [other \in (DOMAIN Meaning(object)) \ {key} |-> Meaning(object)[other]]
           Place(m) == IF m < i THEN m ELSE m + 1
<1>0. i \in DOMAIN object /\ object[i][1] = key
  BY FirstFacts
<1>n. n \in Nat /\ DOMAIN object = 1 .. n /\ i \in Nat
  BY <1>0, Indexes
<1> HIDE DEF i
<1>1. /\ a \in Seq(Entry) /\ DOMAIN a = 1 .. (n - 1)
      /\ \A m \in 1 .. (n - 1) : a[m] = object[Place(m)]
  BY <1>0, Removed DEF Unset, i
<1> HIDE DEF a
<1>2. SUFFICES ASSUME ~HasTwice(object)
      PROVE  ~HasTwice(a) /\ Meaning(a) = F
  BY <1>1 DEF a
<1>3. \A m \in 1 .. (n - 1) : Place(m) \in DOMAIN object /\ Place(m) # i
  BY <1>n
<1>4. \A j, k \in 1 .. (n - 1) : j < k => Place(j) < Place(k)
  BY <1>n
<1>5. \A k \in DOMAIN object : k # i => \E m \in 1 .. (n - 1) : Place(m) = k
  <2> SUFFICES ASSUME NEW k \in DOMAIN object, k # i
               PROVE  \E m \in 1 .. (n - 1) : Place(m) = k
    OBVIOUS
  <2>1. i \in 1 .. n
    BY <1>0, <1>n
  <2>2. CASE k < i
    <3>1. k \in 1 .. (n - 1) /\ Place(k) = k
      BY <1>n, <2>1, <2>2
    <3> QED
      BY <3>1
  <2>3. CASE i < k
    <3>1. k - 1 \in 1 .. (n - 1) /\ Place(k - 1) = k
      BY <1>n, <2>1, <2>3
    <3> QED
      BY <3>1
  <2> QED
    BY <1>n, <2>2, <2>3
<1> HIDE DEF Place
<1>6. ~HasTwice(a)
  <2> SUFFICES ASSUME NEW j \in DOMAIN a, NEW k \in DOMAIN a, j < k, a[j][1] = a[k][1] PROVE FALSE
    BY DEF HasTwice
  <2>1. object[Place(j)][1] = object[Place(k)][1] /\ Place(j) < Place(k)
    BY <1>1, <1>4
  <2> QED
    BY <1>1, <1>2, <1>3, <2>1 DEF HasTwice
<1>7. DOMAIN Meaning(object) = KeysOf(object)
  BY DEF Meaning
<1>8. ASSUME NEW m \in DOMAIN a PROVE a[m][1] \in DOMAIN F /\ F[a[m][1]] = a[m][2]
  <2> DEFINE k == Place(m)
  <2> HIDE DEF k
  <2>1. k \in DOMAIN object /\ k # i /\ a[m] = object[k]
    BY <1>1, <1>3 DEF k
  <2>2. object[k][1] # key
    <3>1. k < i \/ i < k
      BY <1>n, <2>1
    <3> QED
      BY <1>0, <1>2, <2>1, <3>1 DEF HasTwice
  <2>3. object[k][1] \in KeysOf(object) /\ Meaning(object)[object[k][1]] = object[k][2]
    BY <1>2, <2>1, MeaningAt
  <2> QED
    BY <1>7, <2>1, <2>2, <2>3
<1>9. ASSUME NEW other \in DOMAIN F PROVE other \in KeysOf(a)
  <2>1. PICK k \in DOMAIN object : object[k][1] = other
    BY <1>7, <1>9 DEF KeysOf
  <2>2. k # i
    BY <1>0, <1>9, <2>1
  <2>3. PICK m \in 1 .. (n - 1) : Place(m) = k
    BY <1>5, <2>2
  <2> QED
    BY <1>1, <2>1, <2>3 DEF KeysOf
<1>10. DOMAIN F = KeysOf(a)
  BY <1>8, <1>9 DEF KeysOf
<1>11. F = [other \in KeysOf(a) |-> F[other]]
  BY <1>10
<1>12. Meaning(a) = F
  <2>1. a \in Seq(Entry)
    BY <1>1
  <2> HIDE DEF F
  <2>2. \A m \in DOMAIN a : F[a[m][1]] = a[m][2]
    BY <1>8
  <2> QED
    BY <1>6, <1>11, <2>1, <2>2, MeaningIs
<1> QED
  BY <1>6, <1>12

-----------------------------------------------------------------------------
(* The invariant.                                                          *)

\* Commands that change the object; commands that read it again.
Changes == {r \in Requests : r.command \in {"set", "unset"} /\ r.key \in ValidKeys}

Dumps == {r \in Requests : r.command \in {"set", "unset", "dump"}}

\* Where the program is, what it has read of its command line, and which objects
\* it may meet.
Types ==
  /\ file.object \in Seq(Entry) \cup {Torn}
  /\ DOMAIN pc = Run /\ DOMAIN request = Run /\ DOMAIN memory = Run /\ DOMAIN used = Run
  /\ \A p \in Run : /\ At(p, "options") => request[p] \in Requests
                    /\ At(p, "command") => request[p] \in Dumps
                    /\ Writing(p) => request[p] \in Changes /\ memory[p] \in Seq(Entry)

\* One run at a time is about to write, and what it writes is expected; until it
\* opens the file, the file says what is expected before.
Tidy ==
  /\ \A p, q \in Run : Writing(p) /\ Writing(q) => p = q
  /\ \A p \in Run : Writing(p) => ~HasTwice(memory[p]) /\ Meaning(memory[p]) = Expected(p)
  /\ \A p \in Run : At(p, "write") => file = EmptyFile
  /\ (\A p \in Run : ~At(p, "write"))
       => Readable(file) /\ ~HasTwice(file.object) /\ Meaning(file.object) = expected

\* The inductive invariant of the configuration file.
FileInv == Types /\ (clean => Tidy)

\* A text that is not JSON is not taken for an object.
LEMMA TornIsNoObject == Torn \notin Seq(Entry)
<1>1. Torn[1] = <<"torn", NotString>> /\ 1 \in DOMAIN Torn
  BY DEF Torn
<1>2. <<"torn", NotString>> \notin Entry
  BY ConfigurationAssumption DEF Entry
<1> QED
  BY <1>1, <1>2, Indexes

\* A file that can be read holds an object.
LEMMA ReadableFile ==
  ASSUME Types, Readable(file)
  PROVE  file.object \in Seq(Entry)
BY DEF Types, Readable

\* Commands are told apart by their name.
LEMMA RequestKinds ==
  ASSUME NEW r \in Requests
  PROVE  /\ r.command \in {"set", "unset", "dump", "balance", "help"}
         /\ r.command = "set" => r.value \in Values
<1>1. CASE r \in [command : {"set"}, key : ValidKeys \cup {OtherKey}, value : Values]
  BY <1>1
<1>2. CASE r \in [command : {"unset"}, key : ValidKeys \cup {OtherKey}]
  BY <1>2
<1>3. CASE r \in [command : {"dump"}]
  BY <1>3
<1>4. CASE r \in [command : {"balance"}, given : Options]
  BY <1>4
<1>5. CASE r \in [command : {"help"}]
  BY <1>5
<1> QED
  BY <1>1, <1>2, <1>3, <1>4, <1>5 DEF Requests

\* What a write leaves: in an empty file, the text it writes.
LEMMA OverwrittenObject ==
  ASSUME NEW old, NEW new
  PROVE  /\ Overwritten(old, new).object \in {new.object, Torn}
         /\ old = EmptyFile /\ new.length \in Nat => Overwritten(old, new) = new
BY DEF Overwritten, EmptyFile

\* The invariant holds at first, whatever the file holds.
LEMMA FileInit == Init => FileInv
<1> SUFFICES ASSUME Init PROVE FileInv
  OBVIOUS
<1>1. \A p \in Run : pc[p] = "idle"
  BY DEF Init
<1>2. \A p \in Run : ~Writing(p) /\ ~At(p, "options") /\ ~At(p, "command") /\ ~At(p, "write")
  BY <1>1 DEF Writing, At
<1>3. file.object \in Seq(Entry)
  <2>1. CASE file = EmptyFile
    BY <2>1 DEF EmptyFile
  <2>2. CASE \E object \in Handwritten : file = Text(object)
    <3>1. PICK object \in Handwritten : file.object = object
      BY <2>2 DEF Text
    <3> QED
      BY <3>1, ConfigurationAssumption DEF Entry
  <2> QED
    BY <2>1, <2>2 DEF Init
<1>4. Types
  BY <1>2, <1>3 DEF Init, Types
<1>5. clean => Readable(file) /\ ~HasTwice(file.object)
  BY DEF Init
<1>6. expected = Meaning(file.object)
  BY DEF Init
<1>7. clean => Tidy
  BY <1>2, <1>5, <1>6 DEF Tidy
<1> QED
  BY <1>4, <1>7 DEF FileInv

\* Where a step takes one process, and leaves the others.
LEMMA OneGoes ==
  ASSUME Types, NEW p \in Run, NEW next, Goes(p, next)
  PROVE  /\ DOMAIN pc' = Run /\ pc'[p] = next
         /\ \A q \in Run : q # p => pc'[q] = pc[q]
BY DEF Types, Goes

\* A process that does not write afterwards, and leaves the file alone, keeps the
\* invariant, whatever becomes of its request.
LEMMA Bystander ==
  ASSUME FileInv, NEW p \in Run,
         pc'[p] \in {"success", "failed", "killed", "command", "options"},
         \A q \in Run : q # p => /\ pc'[q] = pc[q] /\ request'[q] = request[q]
                                 /\ memory'[q] = memory[q],
         DOMAIN pc' = Run, DOMAIN request' = Run, DOMAIN memory' = Run, DOMAIN used' = Run,
         pc'[p] = "options" => request'[p] \in Requests,
         pc'[p] = "command" => request'[p] \in Dumps,
         UNCHANGED <<file, expected>>,
         clean' => clean /\ ~At(p, "write")
  PROVE  FileInv'
<1>1. ~Writing(p)' /\ ~At(p, "write")'
  BY DEF Writing, At
<1>2. \A q \in Run : q # p => /\ Writing(q)' = Writing(q) /\ At(q, "write")' = At(q, "write")
                              /\ At(q, "options")' = At(q, "options")
                              /\ At(q, "command")' = At(q, "command")
                              /\ Expected(q)' = Expected(q)
  BY DEF Writing, At, Expected
<1>3. Types'
  <2>1. Types
    BY DEF FileInv
  <2>2. file'.object \in Seq(Entry) \cup {Torn}
    BY <2>1 DEF Types
  <2>3. ASSUME NEW q \in Run
        PROVE  /\ At(q, "options")' => request'[q] \in Requests
               /\ At(q, "command")' => request'[q] \in Dumps
               /\ Writing(q)' => request'[q] \in Changes /\ memory'[q] \in Seq(Entry)
    <3>1. CASE q = p
      BY <1>1, <3>1 DEF At
    <3>2. CASE q # p
      BY <1>2, <2>1, <3>2 DEF Types
    <3> QED
      BY <3>1, <3>2
  <2> QED
    BY <2>2, <2>3 DEF Types
<1>4. ASSUME clean' PROVE Tidy'
  <2>1. Tidy /\ ~At(p, "write")
    BY <1>4 DEF FileInv
  <2>2. (\A q, r \in Run : Writing(q) /\ Writing(r) => q = r)'
    BY <1>1, <1>2, <2>1 DEF Tidy
  <2>3. (\A q \in Run : Writing(q) => ~HasTwice(memory[q]) /\ Meaning(memory[q]) = Expected(q))'
    <3> SUFFICES ASSUME NEW q \in Run, Writing(q)'
                 PROVE  ~HasTwice(memory'[q]) /\ Meaning(memory'[q]) = Expected(q)'
      OBVIOUS
    <3>1. q # p /\ Writing(q)
      BY <1>1, <1>2
    <3>2. Expected(q)' = Expected(q) /\ memory'[q] = memory[q]
      BY <1>2, <3>1
    <3> QED
      BY <2>1, <3>1, <3>2 DEF Tidy
  <2>4. (\A q \in Run : At(q, "write") => file = EmptyFile)'
    BY <1>1, <1>2, <2>1 DEF Tidy
  <2>5. (\A q \in Run : ~At(q, "write"))'
          => (Readable(file) /\ ~HasTwice(file.object) /\ Meaning(file.object) = expected)'
    <3> SUFFICES ASSUME \A q \in Run : ~At(q, "write")'
                 PROVE  (Readable(file) /\ ~HasTwice(file.object) /\ Meaning(file.object) = expected)'
      OBVIOUS
    <3>1. \A q \in Run : ~At(q, "write")
      BY <1>2, <2>1
    <3>2. Readable(file) /\ ~HasTwice(file.object) /\ Meaning(file.object) = expected
      BY <2>1, <3>1 DEF Tidy
    <3> QED
      BY <3>2
  <2> QED
    BY <2>2, <2>3, <2>4, <2>5 DEF Tidy
<1> QED
  BY <1>3, <1>4 DEF FileInv

\* A run that ends.
LEMMA EndedRun ==
  ASSUME Types, NEW p \in Run, Forgets(p)
  PROVE  /\ DOMAIN request' = Run /\ DOMAIN memory' = Run
         /\ \A q \in Run : q # p => request'[q] = request[q] /\ memory'[q] = memory[q]
BY DEF Types, Forgets

\* Starting a run keeps the invariant.
LEMMA StartStep ==
  ASSUME FileInv, NEW p \in Run, Start(p)
  PROVE  FileInv'
<1>1. Types
  BY DEF FileInv
<1>2. /\ DOMAIN pc' = Run /\ pc'[p] = "options" /\ \A q \in Run : q # p => pc'[q] = pc[q]
  BY <1>1, OneGoes DEF Start
<1>3. PICK r \in Requests : request' = [request EXCEPT ![p] = r]
  BY DEF Start
<1>4. /\ DOMAIN request' = Run /\ DOMAIN memory' = Run /\ DOMAIN used' = Run
      /\ request'[p] \in Requests
      /\ \A q \in Run : q # p => request'[q] = request[q] /\ memory'[q] = memory[q]
  BY <1>1, <1>3 DEF Types, Start
<1>5. UNCHANGED <<file, expected>> /\ clean' = clean /\ ~At(p, "write")
  BY DEF Start, At
<1> QED
  BY <1>2, <1>4, <1>5, Bystander

\* Reading the options keeps the invariant.
LEMMA SetConfigStep ==
  ASSUME FileInv, NEW p \in Run, SetConfig(p)
  PROVE  FileInv'
<1>1. Types
  BY DEF FileInv
<1>5. UNCHANGED <<file, expected>> /\ clean' = clean /\ ~At(p, "write") /\ request[p] \in Requests
  BY <1>1 DEF SetConfig, At, Types
<1>6. CASE Fails(p) /\ UNCHANGED used
  <2>1. DOMAIN pc' = Run /\ pc'[p] = "failed" /\ \A q \in Run : q # p => pc'[q] = pc[q]
    BY <1>1, <1>6, OneGoes DEF Fails
  <2>2. /\ DOMAIN request' = Run /\ DOMAIN memory' = Run /\ DOMAIN used' = Run
        /\ \A q \in Run : q # p => request'[q] = request[q] /\ memory'[q] = memory[q]
    BY <1>1, <1>6, EndedRun DEF Fails, Types
  <2> QED
    BY <1>5, <2>1, <2>2, Bystander
<1>7. CASE /\ request[p].command # "balance"
           /\ Goes(p, IF request[p].command = "help" THEN "success" ELSE "command")
           /\ UNCHANGED <<request, memory, used>>
  <2>1. /\ DOMAIN pc' = Run /\ pc'[p] = (IF request[p].command = "help" THEN "success" ELSE "command")
        /\ \A q \in Run : q # p => pc'[q] = pc[q]
    BY <1>1, <1>7, OneGoes
  <2>2. /\ DOMAIN request' = Run /\ DOMAIN memory' = Run /\ DOMAIN used' = Run
        /\ \A q \in Run : q # p => request'[q] = request[q] /\ memory'[q] = memory[q]
    BY <1>1, <1>7 DEF Types
  <2>3. pc'[p] \in {"success", "command"}
    BY <2>1
  <2>4. pc'[p] = "command" => request'[p] \in Dumps
    BY <1>5, <1>7, <2>1, RequestKinds DEF Dumps
  <2> QED
    BY <1>5, <2>1, <2>2, <2>3, <2>4, Bystander
<1>8. CASE /\ Goes(p, "success") /\ UNCHANGED <<request, memory>> /\ DOMAIN used' = Run
  <2>1. DOMAIN pc' = Run /\ pc'[p] = "success" /\ \A q \in Run : q # p => pc'[q] = pc[q]
    BY <1>1, <1>8, OneGoes
  <2>2. /\ DOMAIN request' = Run /\ DOMAIN memory' = Run /\ DOMAIN used' = Run
        /\ \A q \in Run : q # p => request'[q] = request[q] /\ memory'[q] = memory[q]
    BY <1>1, <1>8 DEF Types
  <2> QED
    BY <1>5, <2>1, <2>2, Bystander
<1>9. CASE /\ \E options : used' = [used EXCEPT ![p] = options]
           /\ Goes(p, "success") /\ UNCHANGED <<request, memory>>
  BY <1>1, <1>8, <1>9 DEF Types
<1> QED
  BY <1>6, <1>7, <1>9 DEF SetConfig

\* A change that is not refused: what p is about to write is what the file says,
\* and the command's part.
LEMMA ChangedObject ==
  ASSUME Types, NEW p \in Run, At(p, "command"), Readable(file), request[p].command # "dump",
         ~Refused(request[p], file.object),
         NEW object,
         object = (IF request[p].command = "set"
                     THEN Set(file.object, request[p].key, request[p].value)
                     ELSE Unset(file.object, request[p].key))
  PROVE  /\ request[p] \in Changes /\ object \in Seq(Entry)
         /\ ~HasTwice(file.object) /\ Meaning(file.object) = expected
              => ~HasTwice(object) /\ Meaning(object) = Expected(p)
<1> DEFINE r == request[p]
<1>1. file.object \in Seq(Entry)
  BY ReadableFile
<1>2. r \in Requests /\ r.command \in {"set", "unset"} /\ r.key \in ValidKeys
  BY DEF Types, Dumps, Refused
<1>3. r \in Changes
  BY <1>2 DEF Changes
<1>4. CASE r.command = "set"
  <2> DEFINE s == Set(file.object, r.key, r.value)
  <2>1. r.value \in Values
    BY <1>2, <1>4, RequestKinds
  <2>2. /\ s \in Seq(Entry)
        /\ ~HasTwice(file.object) =>
             /\ ~HasTwice(s)
             /\ Meaning(s)
                  = [other \in (DOMAIN Meaning(file.object)) \cup {r.key} |->
                       IF other = r.key THEN r.value ELSE Meaning(file.object)[other]]
    BY <1>1, <1>2, <2>1, SetMeaning
  <2>3. object = s
    BY <1>4
  <2>4. Expected(p) = [other \in (DOMAIN expected) \cup {r.key} |->
                         IF other = r.key THEN r.value ELSE expected[other]]
    BY <1>4 DEF Expected
  <2> HIDE DEF s, r
  <2>5. Meaning(file.object) = expected /\ ~HasTwice(file.object) => Meaning(s) = Expected(p)
    BY <2>2, <2>4
  <2> QED
    BY <1>3, <2>2, <2>3, <2>5 DEF r
<1>5. CASE r.command = "unset"
  <2>1. r.key \in KeysOf(file.object)
    BY <1>5 DEF Refused
  <2> QED
    BY <1>1, <1>3, <1>5, <2>1, UnsetMeaning DEF Expected
<1> QED
  BY <1>2, <1>4, <1>5

\* Changing the object in memory keeps the invariant: a run that overlaps with
\* another that is about to write is not clean.
LEMMA ChangeStep ==
  ASSUME FileInv, NEW p \in Run, Change(p)
  PROVE  FileInv'
<1> DEFINE r == request[p]
           object == IF r.command = "set" THEN Set(file.object, r.key, r.value)
                                          ELSE Unset(file.object, r.key)
<1>1. Types /\ At(p, "command") /\ ~At(p, "write")
  BY DEF FileInv, Change, At
<1>2. UNCHANGED <<file, expected, used>> /\ DOMAIN used' = Run
  BY <1>1 DEF Change, Types
<1>3. CASE Fails(p) /\ UNCHANGED clean
  <2>1. DOMAIN pc' = Run /\ pc'[p] = "failed" /\ \A q \in Run : q # p => pc'[q] = pc[q]
    BY <1>1, <1>3, OneGoes DEF Fails
  <2>2. /\ DOMAIN request' = Run /\ DOMAIN memory' = Run
        /\ \A q \in Run : q # p => request'[q] = request[q] /\ memory'[q] = memory[q]
    BY <1>1, <1>3, EndedRun DEF Fails
  <2> QED
    BY <1>1, <1>2, <1>3, <2>1, <2>2, Bystander
<1>4. CASE Goes(p, "success") /\ UNCHANGED <<request, memory, clean>>
  <2>1. DOMAIN pc' = Run /\ pc'[p] = "success" /\ \A q \in Run : q # p => pc'[q] = pc[q]
    BY <1>1, <1>4, OneGoes
  <2>2. /\ DOMAIN request' = Run /\ DOMAIN memory' = Run
        /\ \A q \in Run : q # p => request'[q] = request[q] /\ memory'[q] = memory[q]
    BY <1>1, <1>4 DEF Types
  <2> QED
    BY <1>1, <1>2, <1>4, <2>1, <2>2, Bystander
<1>5. CASE /\ Loads(file) /\ r.command # "dump" /\ ~Refused(r, file.object)
           /\ memory' = [memory EXCEPT ![p] = object]
           /\ Goes(p, "truncate")
           /\ clean' = (clean /\ ~OthersWrite(p))
           /\ UNCHANGED request
  <2>1. /\ r \in Changes /\ object \in Seq(Entry)
        /\ ~HasTwice(file.object) /\ Meaning(file.object) = expected
             => ~HasTwice(object) /\ Meaning(object) = Expected(p)
    BY <1>1, <1>5, ChangedObject DEF Loads
  <2> HIDE DEF object
  <2>2. DOMAIN pc' = Run /\ pc'[p] = "truncate" /\ \A q \in Run : q # p => pc'[q] = pc[q]
    BY <1>1, <1>5, OneGoes
  <2>3. /\ DOMAIN memory' = Run /\ memory'[p] = object
        /\ \A q \in Run : q # p => memory'[q] = memory[q]
    BY <1>1, <1>5 DEF Types
  <2>4. \A q \in Run : Expected(q)' = Expected(q)
    BY <1>2, <1>5 DEF Expected
  <2>5. \A q \in Run : At(q, "write")' => At(q, "write") /\ q # p
    BY <2>2 DEF At
  <2>6. \A q \in Run : q # p => /\ Writing(q)' = Writing(q) /\ At(q, "write")' = At(q, "write")
                                /\ At(q, "options")' = At(q, "options")
                                /\ At(q, "command")' = At(q, "command")
    BY <2>2 DEF Writing, At
  <2>7. Types'
    <3>1. ASSUME NEW q \in Run
          PROVE  /\ At(q, "options")' => request'[q] \in Requests
                 /\ At(q, "command")' => request'[q] \in Dumps
                 /\ Writing(q)' => request'[q] \in Changes /\ memory'[q] \in Seq(Entry)
      <4>1. request' = request
        BY <1>5
      <4>2. CASE q = p
        BY <2>1, <2>2, <2>3, <4>1, <4>2 DEF At
      <4>3. CASE q # p
        BY <1>1, <2>3, <2>6, <4>1, <4>3 DEF Types
      <4> QED
        BY <4>2, <4>3
    <3>2. file'.object \in Seq(Entry) \cup {Torn} /\ DOMAIN request' = Run
      BY <1>1, <1>2, <1>5 DEF Types
    <3> QED
      BY <1>2, <2>2, <2>3, <3>1, <3>2 DEF Types
  <2>8. ASSUME clean' PROVE Tidy'
    <3>1. Tidy /\ ~OthersWrite(p)
      BY <1>5, <2>8 DEF FileInv
    <3>2. \A q \in Run : q # p => ~Writing(q) /\ ~Writing(q)'
      BY <2>6, <3>1 DEF OthersWrite
    <3>3. \A q \in Run : ~At(q, "write") /\ ~At(q, "write")'
      BY <1>1, <2>5, <3>2 DEF Writing, At
    <3>4. Readable(file) /\ ~HasTwice(file.object) /\ Meaning(file.object) = expected
      BY <3>1, <3>3 DEF Tidy
    <3>5. ~HasTwice(memory'[p]) /\ Meaning(memory'[p]) = Expected(p)'
      BY <2>1, <2>3, <2>4, <3>4
    <3>6. (\A q \in Run : Writing(q) => ~HasTwice(memory[q]) /\ Meaning(memory[q]) = Expected(q))'
      BY <3>2, <3>5
    <3>7. (Readable(file) /\ ~HasTwice(file.object) /\ Meaning(file.object) = expected)'
      BY <1>2, <3>4
    <3>8. (\A q, s \in Run : Writing(q) /\ Writing(s) => q = s)'
      BY <3>2
    <3> QED
      BY <3>3, <3>6, <3>7, <3>8 DEF Tidy
  <2> QED
    BY <2>7, <2>8 DEF FileInv
<1> QED
  BY <1>3, <1>4, <1>5 DEF Change

\* Emptying the file keeps the invariant: what was in it is in memory.
LEMMA TruncateStep ==
  ASSUME FileInv, NEW p \in Run, Truncate(p)
  PROVE  FileInv'
<1>1. Types /\ Writing(p)
  BY DEF FileInv, Truncate, At, Writing
<1>2. DOMAIN pc' = Run /\ pc'[p] = "write" /\ \A q \in Run : q # p => pc'[q] = pc[q]
  BY <1>1, OneGoes DEF Truncate
<1>3. \A q \in Run : /\ Writing(q)' = Writing(q)
                     /\ At(q, "options")' => At(q, "options")
                     /\ At(q, "command")' => At(q, "command")
                     /\ Expected(q)' = Expected(q)
  BY <1>1, <1>2 DEF Writing, At, Expected, Truncate
<1>4. UNCHANGED <<request, memory, used, expected, clean>> /\ file' = EmptyFile
  BY DEF Truncate
<1>5. Types'
  <2>1. file'.object \in Seq(Entry) \cup {Torn}
    BY <1>4 DEF EmptyFile
  <2> QED
    BY <1>1, <1>2, <1>3, <1>4, <2>1 DEF Types
<1>6. ASSUME clean' PROVE Tidy'
  <2>1. Tidy
    BY <1>4, <1>6 DEF FileInv
  <2>2. At(p, "write")'
    BY <1>2 DEF At
  <2>3. (\A q \in Run : At(q, "write") => file = EmptyFile)'
    BY <1>4
  <2>4. (\A q, r \in Run : Writing(q) /\ Writing(r) => q = r)'
    BY <1>3, <2>1 DEF Tidy
  <2>5. (\A q \in Run : Writing(q) => ~HasTwice(memory[q]) /\ Meaning(memory[q]) = Expected(q))'
    BY <1>3, <1>4, <2>1 DEF Tidy
  <2> QED
    BY <2>2, <2>3, <2>4, <2>5 DEF Tidy
<1> QED
  BY <1>5, <1>6 DEF FileInv

\* A run that has written, wholly or in part.
LEMMA Written ==
  ASSUME Types, NEW p \in Run, At(p, "write"), Goes(p, "success"),
         memory' = [memory EXCEPT ![p] = <<>>], UNCHANGED <<request, used>>,
         file'.object \in {memory[p], Torn}
  PROVE  Types' /\ \A q \in Run : /\ ~At(q, "write")' <=> (q = p \/ ~At(q, "write"))
                                  /\ Writing(q)' <=> q # p /\ Writing(q)
<1>1. DOMAIN pc' = Run /\ pc'[p] = "success" /\ \A q \in Run : q # p => pc'[q] = pc[q]
  BY OneGoes
<1>2. memory[p] \in Seq(Entry)
  BY DEF Types, At, Writing
<1>3. file'.object \in Seq(Entry) \cup {Torn}
  BY <1>2
<1>4. \A q \in Run : q # p => /\ Writing(q)' = Writing(q) /\ At(q, "write")' = At(q, "write")
                              /\ At(q, "options")' = At(q, "options")
                              /\ At(q, "command")' = At(q, "command")
  BY <1>1 DEF Writing, At
<1>5. ~Writing(p)' /\ ~At(p, "options")' /\ ~At(p, "command")' /\ ~At(p, "write")'
  BY <1>1 DEF Writing, At
<1>6. DOMAIN memory' = Run /\ \A q \in Run : q # p => memory'[q] = memory[q]
  BY DEF Types
<1>7. DOMAIN request' = Run /\ DOMAIN used' = Run
  BY DEF Types
<1>8. ASSUME NEW q \in Run
      PROVE  /\ At(q, "options")' => request'[q] \in Requests
             /\ At(q, "command")' => request'[q] \in Dumps
             /\ Writing(q)' => request'[q] \in Changes /\ memory'[q] \in Seq(Entry)
  <2>1. CASE q = p
    BY <1>5, <2>1
  <2>2. CASE q # p
    BY <1>4, <1>6, <2>2 DEF Types
  <2> QED
    BY <2>1, <2>2
<1>9. Types'
  BY <1>1, <1>3, <1>6, <1>7, <1>8 DEF Types
<1> QED
  BY <1>4, <1>5, <1>9

\* Writing keeps the invariant: an empty file then holds what is expected.
LEMMA WriteStep ==
  ASSUME FileInv, NEW p \in Run, Write(p)
  PROVE  FileInv'
<1>1. Types /\ Writing(p) /\ At(p, "write")
  BY DEF FileInv, Write, At, Writing
<1>2. file' = Overwritten(file, Text(memory[p])) /\ expected' = Expected(p)
  BY DEF Write
<1>3. file'.object \in {memory[p], Torn}
  BY <1>2, OverwrittenObject DEF Text
<1>4. Types' /\ \A q \in Run : Writing(q)' <=> q # p /\ Writing(q)
  BY <1>1, <1>3, Written DEF Write
<1>5. ASSUME clean' PROVE Tidy'
  <2>1. Tidy /\ Length(memory[p]) < Bufsiz
    BY <1>5 DEF FileInv, Write
  <2>2. \A q \in Run : Writing(q) => q = p
    BY <1>1, <2>1 DEF Tidy
  <2>3. \A q \in Run : ~Writing(q)'
    BY <1>4, <2>2
  <2>4. \A q \in Run : ~At(q, "write")'
    BY <2>3 DEF Writing, At
  <2>5. memory[p] \in Seq(Entry)
    BY <1>1 DEF Types
  <2>6. Length(memory[p]) \in Nat
    BY <2>5, LengthNat
  <2>7. file' = Text(memory[p])
    <3>1. file = EmptyFile
      BY <1>1, <2>1 DEF Tidy
    <3>2. Text(memory[p]).length \in Nat
      BY <2>6 DEF Text
    <3> QED
      BY <1>2, <3>1, <3>2, OverwrittenObject
  <2>8. file'.length = Length(memory[p]) /\ file'.object = memory[p]
    BY <2>7 DEF Text
  <2>9. Readable(file)'
    BY <2>1, <2>5, <2>8, TornIsNoObject DEF Readable
  <2>10. ~HasTwice(memory[p]) /\ Meaning(memory[p]) = Expected(p)
    BY <1>1, <2>1 DEF Tidy
  <2>11. (~HasTwice(file.object) /\ Meaning(file.object) = expected)'
    BY <1>2, <2>8, <2>10
  <2> QED
    BY <2>3, <2>4, <2>9, <2>11 DEF Tidy
<1> QED
  BY <1>4, <1>5 DEF FileInv

\* A write that is cut short keeps the invariant: it is not clean.
LEMMA ShortWriteStep ==
  ASSUME FileInv, NEW p \in Run, ShortWrite(p)
  PROVE  FileInv'
<1>1. PICK n \in 1 .. (Length(memory[p]) - 1) :
        file' = Overwritten(file, [length |-> n, object |-> Torn])
  BY DEF ShortWrite
<1>2. file'.object \in {memory[p], Torn}
  BY <1>1, OverwrittenObject
<1>3. Types'
  BY <1>2, Written DEF FileInv, ShortWrite
<1> QED
  BY <1>3 DEF FileInv, ShortWrite

\* A run that ends without having written.
LEMMA EndStep ==
  ASSUME FileInv, NEW p \in Run, Forgets(p), UNCHANGED <<file, used, expected>>,
         Goes(p, "failed") \/ Goes(p, "killed"),
         clean' => clean /\ ~At(p, "write")
  PROVE  FileInv'
<1>1. Types
  BY DEF FileInv
<1>2. /\ DOMAIN pc' = Run /\ pc'[p] \in {"failed", "killed"}
      /\ \A q \in Run : q # p => pc'[q] = pc[q]
  BY <1>1, OneGoes
<1>3. /\ DOMAIN request' = Run /\ DOMAIN memory' = Run /\ DOMAIN used' = Run
      /\ \A q \in Run : q # p => request'[q] = request[q] /\ memory'[q] = memory[q]
  BY <1>1, EndedRun DEF Types
<1> QED
  BY <1>2, <1>3, Bystander

\* Every step keeps the invariant.
LEMMA FileStep == FileInv /\ [Next]_vars => FileInv'
<1> SUFFICES ASSUME FileInv, [Next]_vars PROVE FileInv'
  OBVIOUS
<1>1. ASSUME NEW p \in Run, Step(p) PROVE FileInv'
  <2>1. CASE Start(p)
    BY <2>1, StartStep
  <2>2. CASE SetConfig(p)
    BY <2>2, SetConfigStep
  <2>3. CASE Change(p)
    BY <2>3, ChangeStep
  <2>4. CASE Truncate(p)
    BY <2>4, TruncateStep
  <2>5. CASE OpenFails(p)
    <3>1. UNCHANGED clean /\ ~At(p, "write")
      BY <2>5 DEF OpenFails, At
    <3> QED
      BY <2>5, <3>1, EndStep DEF OpenFails, Fails
  <2>6. CASE Write(p)
    BY <2>6, WriteStep
  <2>7. CASE ShortWrite(p)
    BY <2>7, ShortWriteStep
  <2>8. CASE WriteFails(p)
    BY <2>8, EndStep DEF WriteFails, Fails
  <2>9. CASE Kill(p)
    BY <2>9, EndStep DEF Kill
  <2> QED
    BY <1>1, <2>1, <2>2, <2>3, <2>4, <2>5, <2>6, <2>7, <2>8, <2>9 DEF Step
<1>2. CASE UNCHANGED vars
  <2>1. Types' = Types
    BY <1>2 DEF vars, Types, At, Writing
  <2>2. Tidy' = Tidy
    BY <1>2 DEF vars, Tidy, At, Writing, Expected, Readable
  <2> QED
    BY <1>2, <2>1, <2>2 DEF FileInv, vars
<1> QED
  BY <1>1, <1>2 DEF Next

(***************************************************************************)
(* The invariant: while no run is interrupted, cut short or overlapped as  *)
(* it writes, one run at a time is about to write, and either the file or  *)
(* that run's memory says what the commands that succeeded amount to       *)
(* (config.c:81-147, 194-217).                                             *)
(***************************************************************************)
THEOREM FileInvariant == Spec => []FileInv
BY FileInit, FileStep, PTL DEF Spec

(***************************************************************************)
(* The file says what the commands that succeeded amount to: setting or    *)
(* unsetting a key keeps all others (config.c:117-147, 194-217).           *)
(***************************************************************************)
THEOREM SettingsAddUp == Spec => []CommandsAddUp
<1>1. FileInv => CommandsAddUp
  BY DEF FileInv, Tidy, CommandsAddUp
<1> QED
  BY <1>1, FileInvariant, PTL

(***************************************************************************)
(* A balance run goes by its command line, and for the rest by the         *)
(* commands that succeeded before it (opts.c:386-441).                     *)
(***************************************************************************)
THEOREM BalanceUsesSettings == Spec => BalanceSettings
<1> DEFINE A == \A p \in Run :
       (/\ request[p].command = "balance"
        /\ At(p, "options") /\ At(p, "success")'
        /\ clean /\ \A q \in Run : ~At(q, "write"))
         => used'[p] = request[p].given @@ expected
<1>1. FileInv /\ [Next]_vars => [A]_vars
  <2> SUFFICES ASSUME FileInv, Next, NEW p \in Run, request[p].command = "balance",
                      At(p, "options"), At(p, "success")', clean, \A q \in Run : ~At(q, "write")
               PROVE  used'[p] = request[p].given @@ expected
    OBVIOUS
  <2>1. Types /\ Meaning(file.object) = expected
    BY DEF FileInv, Tidy
  <2>2. PICK q \in Run : Step(q)
    BY DEF Next
  <2>3. pc[p] = "options" /\ pc'[p] = "success"
    BY DEF At
  <2>4. q = p
    <3>1. \E next : Goes(q, next)
      BY <2>2 DEF Step, Start, SetConfig, Change, Truncate, OpenFails, Write, ShortWrite,
                  WriteFails, Kill, Fails
    <3> QED
      BY <2>1, <2>3, <3>1, OneGoes
  <2>5. SetConfig(p)
    <3>1. ~Goes(p, "options") /\ ~Goes(p, "failed") /\ ~Goes(p, "killed")
      BY <2>1, <2>3, OneGoes
    <3> QED
      BY <2>2, <2>3, <2>4, <3>1 DEF Step, Start, Change, Truncate, OpenFails, Write, ShortWrite,
                                    WriteFails, Kill, Fails, At
  <2>6. used' = [used EXCEPT ![p] = Merged(request[p].given, file.object)]
    <3>1. ~Goes(p, "failed")
      BY <2>1, <2>3, OneGoes
    <3> QED
      BY <2>5, <3>1 DEF SetConfig, Fails
  <2>7. Merged(request[p].given, file.object) = request[p].given @@ expected
    BY <2>1 DEF Merged
  <2> QED
    BY <2>1, <2>6, <2>7 DEF Types
<1> QED
  BY <1>1, FileInvariant, PTL DEF Spec, BalanceSettings

(***************************************************************************)
(* A file that cannot be read stays so: no command gets as far as to       *)
(* change it (btk.c:76, config.c:98-103).                                  *)
(***************************************************************************)
THEOREM UnreadableStaysSo == Spec => UnreadableForGood
<1> DEFINE A == (~Readable(file) /\ \A p \in Run : ~Writing(p))
                  => UNCHANGED file /\ \A p \in Run : ~Writing(p)'
<1>1. FileInv /\ [Next]_vars => [A]_vars
  <2> SUFFICES ASSUME FileInv, Next, ~Readable(file), \A p \in Run : ~Writing(p)
               PROVE  UNCHANGED file /\ \A p \in Run : ~Writing(p)'
    OBVIOUS
  <2>1. PICK p \in Run : Step(p)
    BY DEF Next
  <2>2. ~At(p, "truncate") /\ ~At(p, "write") /\ Types
    BY DEF FileInv, Writing, At
  <2>3. Start(p) \/ SetConfig(p) \/ Change(p) \/ Kill(p)
    BY <2>1, <2>2 DEF Step, Truncate, OpenFails, Write, ShortWrite, WriteFails
  <2>4. Goes(p, "options") \/ Goes(p, "failed") \/ Goes(p, "killed")
    BY <2>3 DEF Start, SetConfig, Change, Kill, Fails, Loads
  <2>5. pc'[p] \in {"options", "failed", "killed"} /\ \A q \in Run : q # p => pc'[q] = pc[q]
    BY <2>2, <2>4, OneGoes
  <2>6. ASSUME NEW q \in Run PROVE ~Writing(q)'
    BY <2>5 DEF Writing
  <2>7. UNCHANGED file
    BY <2>3 DEF Start, SetConfig, Change, Kill
  <2> QED
    BY <2>6, <2>7
<1> QED
  BY <1>1, FileInvariant, PTL DEF Spec, UnreadableForGood
=============================================================================
