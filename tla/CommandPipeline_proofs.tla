----------------------- MODULE CommandPipeline_proofs -----------------------
(***************************************************************************)
(* What CommandPipeline promises of the items handed to a command and of   *)
(* its outputs, and of the runs that end badly, proved for every set of    *)
(* inputs, every size of the buffer and every number of outputs.           *)
(***************************************************************************)
EXTENDS CommandPipeline, FiniteSetTheorems, SequenceTheorems, WellFoundedInduction, TLAPS

-----------------------------------------------------------------------------
(* The first and the last of some numbers.                                 *)

\* Among natural numbers there is a smallest one: induction.
LEMMA SmallestOne ==
  ASSUME NEW F, F \subseteq Nat, F # {}
  PROVE  \E m \in F : \A n \in F : m <= n
<1>1. PICK m \in F : \A n \in F : ~(<<n, m>> \in OpToRel(<, Nat))
  BY NatLessThanWellFounded, WFMin
<1>2. \A n \in F : ~(n < m)
  BY <1>1 DEF OpToRel
<1> QED
  BY <1>2

\* Min finds it.
LEMMA MinIs ==
  ASSUME NEW F, F \subseteq Nat, F # {}
  PROVE  Min(F) \in F /\ \A n \in F : Min(F) <= n
<1>1. \E m \in F : \A n \in F : m =< n
  BY SmallestOne
<1> QED
  BY <1>1 DEF Min

\* Max finds the largest.
LEMMA MaxIs ==
  ASSUME NEW F, F \subseteq Nat, NEW m \in F, \A n \in F : n <= m
  PROVE  Max(F) = m
<1>1. \A n \in F : m >= n
  OBVIOUS
<1>2. Max(F) \in F /\ Max(F) >= m
  BY <1>1 DEF Max
<1>3. Max(F) \in Nat /\ m \in Nat /\ m >= Max(F)
  BY <1>1, <1>2
<1> QED
  BY <1>2, <1>3

-----------------------------------------------------------------------------
(* Items collected one position at a time: the lines and the strings of an *)
(* input, and what the parser finds in an array.                           *)

Item == Seq(Nat) \ {<<>>}

\* At position n item i[n] is added if c[n].
Collects(f, N, c, i) ==
  f = [n \in 0 .. N |->
         IF n = 0 THEN <<>>
         ELSE IF c[n] THEN Append(f[n - 1], i[n])
         ELSE f[n - 1]]

\* There is such a function: it is continued from any position.
LEMMA CollectsExists ==
  ASSUME NEW N \in Nat, NEW c, NEW i
  PROVE  \E f : Collects(f, N, c, i)
<1> DEFINE F == {n \in 0 .. N : ~ \E f : Collects(f, n, c, i)}
<1> SUFFICES ASSUME F # {} PROVE FALSE
  OBVIOUS
<1> HIDE DEF F
<1>0. F \subseteq Nat
  BY DEF F
<1>1. PICK m \in F : \A n \in F : m <= n
  BY <1>0, SmallestOne
<1>2. m \in 0 .. N /\ ~ \E f : Collects(f, m, c, i)
  BY DEF F
<1>3. m # 0
  <2> SUFFICES ASSUME m = 0 PROVE FALSE
    OBVIOUS
  <2>1. Collects([n \in 0 .. 0 |-> <<>>], 0, c, i)
    BY DEF Collects
  <2> QED
    BY <1>2, <2>1
<1>4. m - 1 \in 0 .. N /\ m - 1 \notin F
  BY <1>1, <1>2, <1>3
<1>5. PICK f : Collects(f, m - 1, c, i)
  BY <1>4 DEF F
<1> DEFINE last == IF c[m] THEN Append(f[m - 1], i[m]) ELSE f[m - 1]
           h == [n \in 0 .. m |-> IF n = m THEN last ELSE f[n]]
<1>6. ASSUME NEW n \in 0 .. m
      PROVE  h[n] = IF n = 0 THEN <<>>
                    ELSE IF c[n] THEN Append(h[n - 1], i[n]) ELSE h[n - 1]
  <2>1. n # 0 => n - 1 \in 0 .. m /\ n - 1 # m /\ h[n - 1] = f[n - 1]
    BY <1>2, <1>6
  <2>2. CASE n = m
    BY <1>3, <2>1, <2>2
  <2>3. CASE n # m
    <3>1. n \in 0 .. (m - 1) /\ h[n] = f[n]
      BY <1>2, <1>6, <2>3
    <3>2. f[n] = IF n = 0 THEN <<>> ELSE IF c[n] THEN Append(f[n - 1], i[n]) ELSE f[n - 1]
      BY <1>5, <3>1 DEF Collects
    <3> QED
      BY <2>1, <3>1, <3>2
  <2> QED
    BY <2>2, <2>3
<1>7. h = [n \in 0 .. m |-> h[n]]
  OBVIOUS
<1> HIDE DEF h
<1>8. Collects(h, m, c, i)
  BY <1>6, <1>7 DEF Collects
<1> QED
  BY <1>2, <1>8

\* Its value at a position, from that at the one before.
LEMMA CollectsStep ==
  ASSUME NEW N \in Nat, NEW c, NEW i, NEW f, Collects(f, N, c, i), NEW n \in 1 .. N
  PROVE  f[n] = IF c[n] THEN Append(f[n - 1], i[n]) ELSE f[n - 1]
<1>1. n \in 0 .. N /\ n # 0
  OBVIOUS
<1> QED
  BY <1>1 DEF Collects

\* It starts with nothing, and collects items.
LEMMA CollectsItems ==
  ASSUME NEW N \in Nat, NEW c, NEW S, NEW i, \A n \in 1 .. N : c[n] => i[n] \in S,
         NEW f, Collects(f, N, c, i)
  PROVE  f[0] = <<>> /\ \A n \in 0 .. N : f[n] \in Seq(S)
<1>0. f[0] = <<>>
  BY DEF Collects
<1> DEFINE F == {n \in 0 .. N : f[n] \notin Seq(S)}
<1> SUFFICES ASSUME F # {} PROVE FALSE
  BY <1>0
<1> HIDE DEF F
<1>1. F \subseteq Nat
  BY DEF F
<1>2. PICK m \in F : \A n \in F : m <= n
  BY <1>1, SmallestOne
<1>3. m \in 0 .. N /\ f[m] \notin Seq(S)
  BY DEF F
<1>4. m # 0
  BY <1>0, <1>3, EmptySeq
<1>5. m - 1 \in 0 .. N /\ m - 1 \notin F /\ m \in 1 .. N
  BY <1>2, <1>3, <1>4
<1>6. f[m - 1] \in Seq(S)
  BY <1>5 DEF F
<1>7. f[m] = IF c[m] THEN Append(f[m - 1], i[m]) ELSE f[m - 1]
  BY <1>5, CollectsStep
<1>8. CASE c[m]
  <2>1. i[m] \in S
    BY <1>5, <1>8
  <2>2. Append(f[m - 1], i[m]) \in Seq(S)
    BY <1>6, <2>1, AppendProperties
  <2> QED
    BY <1>3, <1>7, <1>8, <2>2
<1> QED
  BY <1>3, <1>6, <1>7, <1>8

\* Where nothing is added it stays.
LEMMA CollectsNothing ==
  ASSUME NEW N \in Nat, NEW c, NEW i, NEW f, Collects(f, N, c, i),
         NEW a \in 0 .. N, NEW b \in a .. N, \A n \in (a + 1) .. b : ~c[n]
  PROVE  f[b] = f[a]
<1> DEFINE F == {n \in a .. b : f[n] # f[a]}
<1> SUFFICES ASSUME F # {} PROVE FALSE
  OBVIOUS
<1> HIDE DEF F
<1>1. F \subseteq Nat
  BY DEF F
<1>2. PICK m \in F : \A n \in F : m <= n
  BY <1>1, SmallestOne
<1>3. m \in a .. b /\ f[m] # f[a]
  BY DEF F
<1>4. m - 1 \in a .. b /\ m - 1 \notin F /\ m \in 1 .. N /\ m \in (a + 1) .. b
  BY <1>2, <1>3
<1>5. f[m - 1] = f[a] /\ ~c[m]
  BY <1>4 DEF F
<1>6. f[m] = IF c[m] THEN Append(f[m - 1], i[m]) ELSE f[m - 1]
  BY <1>4, CollectsStep
<1> QED
  BY <1>3, <1>5, <1>6

\* s is how t begins.
Begins(s, t) == Len(s) <= Len(t) /\ \A k \in 1 .. Len(s) : s[k] = t[k]

\* What IsPrefix says.
LEMMA PrefixIs ==
  ASSUME NEW S, NEW s \in Seq(S), NEW t \in Seq(S), Begins(s, t)
  PROVE  IsPrefix(s, t)
<1>1. Len(s) \in Nat /\ Len(t) \in Nat /\ Len(s) <= Len(t)
  BY DEF Begins
<1>2. \A k \in 1 .. Len(s) : t[k] \in S
  BY <1>1
<1>3. /\ SubSeq(t, 1, Len(s)) \in Seq(S)
      /\ Len(SubSeq(t, 1, Len(s))) = Len(s)
      /\ \A k \in 1 .. Len(s) : SubSeq(t, 1, Len(s))[k] = t[k]
  BY <1>1, <1>2, SubSeqProperties
<1>4. SubSeq(s, 1, Len(s)) = s
  BY SubSeqFull
<1>5. \A k \in 1 .. Len(s) : s[k] = SubSeq(t, 1, Len(s))[k]
  BY <1>3 DEF Begins
<1> HIDE DEF Begins
<1>6. s = SubSeq(t, 1, Len(s))
  BY <1>3, <1>5, SeqEqual
<1> QED
  BY <1>1, <1>4, <1>6 DEF IsPrefix

\* Nothing that was collected is lost or moved.
LEMMA CollectsOn ==
  ASSUME NEW N \in Nat, NEW c, NEW S, NEW i, \A n \in 1 .. N : c[n] => i[n] \in S,
         NEW f, Collects(f, N, c, i), NEW a \in 0 .. N, NEW b \in a .. N
  PROVE  Begins(f[a], f[b])
<1>0. \A n \in 0 .. N : f[n] \in Seq(S)
  BY CollectsItems
<1> DEFINE F == {n \in a .. b : ~Begins(f[a], f[n])}
<1> SUFFICES ASSUME F # {} PROVE FALSE
  OBVIOUS
<1> HIDE DEF F
<1>1. F \subseteq Nat
  BY DEF F
<1>2. PICK m \in F : \A n \in F : m <= n
  BY <1>1, SmallestOne
<1>3. m \in a .. b /\ ~Begins(f[a], f[m])
  BY DEF F
<1>4. m # a
  <2>1. f[a] \in Seq(S)
    BY <1>0
  <2>2. Begins(f[a], f[a])
    BY <2>1 DEF Begins
  <2> QED
    BY <1>3, <2>2
<1>5. m - 1 \in a .. b /\ m - 1 \notin F /\ m \in 1 .. N /\ m - 1 \in 0 .. N
  BY <1>2, <1>3, <1>4
<1>6. Begins(f[a], f[m - 1])
  BY <1>5 DEF F
<1>7. f[m] = IF c[m] THEN Append(f[m - 1], i[m]) ELSE f[m - 1]
  BY <1>5, CollectsStep
<1>8. CASE c[m]
  <2> DEFINE s == f[m - 1]
  <2>1. s \in Seq(S) /\ f[a] \in Seq(S) /\ i[m] \in S
    BY <1>0, <1>5, <1>8
  <2> HIDE DEF s
  <2>2. /\ Len(Append(s, i[m])) = Len(s) + 1
        /\ \A k \in 1 .. Len(s) : Append(s, i[m])[k] = s[k]
    BY <2>1, AppendProperties
  <2>3. Len(s) \in Nat /\ Len(f[a]) \in Nat
    BY <2>1
  <2>4. Begins(f[a], s)
    BY <1>6 DEF s
  <2>5. Begins(f[a], Append(s, i[m]))
    BY <2>2, <2>3, <2>4 DEF Begins
  <2>6. f[m] = Append(s, i[m])
    BY <1>7, <1>8 DEF s
  <2> QED
    BY <1>3, <2>5, <2>6
<1>9. CASE ~c[m]
  BY <1>3, <1>6, <1>7, <1>9
<1> QED
  BY <1>8, <1>9

\* The largest of some numbers that are not negative and no more than n.
LEMMA LargestOne ==
  ASSUME NEW n \in Nat, NEW F, F \subseteq 0 .. n, F # {}
  PROVE  \E m \in F : \A k \in F : k <= m
<1> DEFINE G == {n - k : k \in F}
<1>0. \A k \in F : n - k \in Nat
  OBVIOUS
<1>1. G \subseteq Nat /\ G # {}
  BY <1>0
<1>2. PICK d \in G : \A g \in G : d <= g
  BY <1>1, SmallestOne
<1>3. PICK m \in F : d = n - m
  OBVIOUS
<1>4. ASSUME NEW k \in F PROVE k <= m
  <2>1. n - k \in G /\ k \in 0 .. n /\ m \in 0 .. n
    OBVIOUS
  <2>2. n - m <= n - k
    BY <1>2, <1>3, <2>1
  <2> QED
    BY <2>1, <2>2
<1> QED
  BY <1>4

\* s with what t adds to it.
LEMMA ConcatAppend ==
  ASSUME NEW S, NEW s \in Seq(S), NEW t \in Seq(S), NEW e \in S
  PROVE  s \o Append(t, e) = Append(s \o t, e)
<1>1. Append(t, e) = t \o <<e>> /\ <<e>> \in Seq(S)
  BY AppendIsConcat
<1>2. s \o t \in Seq(S)
  BY ConcatProperties
<1>3. Append(s \o t, e) = (s \o t) \o <<e>>
  BY <1>2, AppendIsConcat
<1>4. (s \o t) \o <<e>> = s \o (t \o <<e>>)
  BY <1>1, ConcatAssociative
<1> QED
  BY <1>1, <1>3, <1>4

\* How a sequence begins is how one begins that begins with it.
LEMMA BeginsOn ==
  ASSUME NEW S, NEW s \in Seq(S), NEW t \in Seq(S), NEW u \in Seq(S),
         Begins(s \o t, u)
  PROVE  Begins(s, u)
<1>1. Len(s) \in Nat /\ Len(t) \in Nat /\ Len(u) \in Nat
  OBVIOUS
<1>2. /\ Len(s \o t) = Len(s) + Len(t)
      /\ \A k \in 1 .. Len(s) + Len(t) :
           (s \o t)[k] = IF k <= Len(s) THEN s[k] ELSE t[k - Len(s)]
  BY ConcatProperties
<1>3. \A k \in 1 .. Len(s) : s[k] = (s \o t)[k]
  BY <1>1, <1>2
<1> QED
  BY <1>1, <1>2, <1>3 DEF Begins

-----------------------------------------------------------------------------
(* Bytes.                                                                  *)

\* A sequence given by a function.
LEMMA SequenceIs ==
  ASSUME NEW S, NEW n \in Nat, NEW f \in [1 .. n -> S]
  PROVE  f \in Seq(S) /\ Len(f) = n
<1>1. f \in Seq(S)
  BY SeqDef
<1>2. Len(f) \in Nat /\ DOMAIN f = 1 .. Len(f) /\ DOMAIN f = 1 .. n
  BY <1>1, LenProperties
<1> QED
  BY <1>1, <1>2

\* A part of the input.
LEMMA PositionsAre ==
  ASSUME NEW a \in Nat \ {0}, NEW b \in Nat, a <= b + 1
  PROVE  /\ Positions(a, b) \in Seq(Nat)
         /\ Len(Positions(a, b)) = b - a + 1
         /\ \A k \in 1 .. (b - a + 1) : Positions(a, b)[k] = a + k - 1
<1>1. b - a + 1 \in Nat
  OBVIOUS
<1>2. Positions(a, b) \in [1 .. (b - a + 1) -> Nat]
  BY DEF Positions
<1>3. \A k \in 1 .. (b - a + 1) : Positions(a, b)[k] = a + k - 1
  BY DEF Positions
<1> QED
  BY <1>1, <1>2, <1>3, SequenceIs

\* Parts that follow each other.
LEMMA PositionsJoin ==
  ASSUME NEW a \in Nat \ {0}, NEW b \in Nat, NEW c \in Nat, a <= b + 1, b <= c
  PROVE  Positions(a, b) \o Positions(b + 1, c) = Positions(a, c)
<1> DEFINE x == Positions(a, b)
           y == Positions(b + 1, c)
           z == Positions(a, c)
<1>1. /\ x \in Seq(Nat) /\ Len(x) = b - a + 1
      /\ \A k \in 1 .. (b - a + 1) : x[k] = a + k - 1
  BY PositionsAre
<1>2. /\ y \in Seq(Nat) /\ Len(y) = c - b
      /\ \A k \in 1 .. (c - b) : y[k] = b + 1 + k - 1
  <2>1. b + 1 \in Nat \ {0} /\ b + 1 <= c + 1 /\ c - (b + 1) + 1 = c - b
    OBVIOUS
  <2>2. /\ y \in Seq(Nat) /\ Len(y) = c - (b + 1) + 1
        /\ \A k \in 1 .. (c - (b + 1) + 1) : y[k] = b + 1 + k - 1
    BY <2>1, PositionsAre
  <2> HIDE DEF y
  <2> QED
    BY <2>1, <2>2
<1>3. /\ z \in Seq(Nat) /\ Len(z) = c - a + 1
      /\ \A k \in 1 .. (c - a + 1) : z[k] = a + k - 1
  <2>1. a <= c + 1
    OBVIOUS
  <2> QED
    BY <2>1, PositionsAre
<1> HIDE DEF x, y, z
<1>4. /\ x \o y \in Seq(Nat) /\ Len(x \o y) = Len(x) + Len(y)
      /\ \A k \in 1 .. Len(x) + Len(y) :
           (x \o y)[k] = IF k <= Len(x) THEN x[k] ELSE y[k - Len(x)]
  BY <1>1, <1>2, ConcatProperties
<1> DEFINE w == x \o y
<1>5. /\ w \in Seq(Nat) /\ Len(w) = c - a + 1
      /\ \A k \in 1 .. (c - a + 1) :
           w[k] = IF k <= b - a + 1 THEN x[k] ELSE y[k - (b - a + 1)]
  BY <1>1, <1>2, <1>4
<1> HIDE DEF w
<1>6. ASSUME NEW k \in 1 .. Len(w) PROVE w[k] = z[k]
  <2>1. k \in 1 .. (c - a + 1)
    BY <1>5
  <2>2. CASE k <= b - a + 1
    BY <1>1, <1>3, <1>5, <2>1, <2>2
  <2>3. CASE ~(k <= b - a + 1)
    <3>1. k - (b - a + 1) \in 1 .. (c - b)
      BY <2>1, <2>3
    <3>2. y[k - (b - a + 1)] = b + 1 + (k - (b - a + 1)) - 1
      BY <1>2, <3>1
    <3> QED
      BY <1>3, <1>5, <2>1, <2>3, <3>2
  <2> QED
    BY <2>2, <2>3
<1>7. w = z
  BY <1>3, <1>5, <1>6, SeqEqual
<1> QED
  BY <1>7 DEF w, x, y, z

\* A part of a part.
LEMMA PositionsPart ==
  ASSUME NEW a \in Nat \ {0}, NEW b \in Nat, a <= b + 1,
         NEW j \in Nat \ {0}, NEW k \in 0 .. (b - a + 1), j <= k + 1
  PROVE  SubSeq(Positions(a, b), j, k) = Positions(a + j - 1, a + k - 1)
<1> DEFINE x == Positions(a, b)
           y == SubSeq(x, j, k)
           z == Positions(a + j - 1, a + k - 1)
<1>1. /\ x \in Seq(Nat) /\ Len(x) = b - a + 1
      /\ \A n \in 1 .. (b - a + 1) : x[n] = a + n - 1
  BY PositionsAre
<1>2. a + j - 1 \in Nat \ {0} /\ a + k - 1 \in Nat /\ a + j - 1 <= a + k - 1 + 1
  OBVIOUS
<1>3. (a + k - 1) - (a + j - 1) + 1 = k - j + 1
  OBVIOUS
<1>4. /\ z \in Seq(Nat) /\ Len(z) = (a + k - 1) - (a + j - 1) + 1
      /\ \A n \in 1 .. ((a + k - 1) - (a + j - 1) + 1) : z[n] = a + j - 1 + n - 1
  BY <1>2, PositionsAre
<1> HIDE DEF x, z
<1>5. \A n \in j .. k : x[n] \in Nat
  BY <1>1
<1>6. /\ y \in Seq(Nat) /\ Len(y) = IF j <= k THEN k - j + 1 ELSE 0
      /\ \A n \in 1 .. k - j + 1 : y[n] = x[j + n - 1]
  <2>1. j \in Int /\ k \in Int
    OBVIOUS
  <2> QED
    BY <1>5, <2>1, SubSeqProperties
<1> HIDE DEF y
<1>7. Len(y) = k - j + 1 /\ Len(z) = k - j + 1
  BY <1>3, <1>4, <1>6
<1>8. ASSUME NEW n \in 1 .. (k - j + 1) PROVE y[n] = z[n]
  <2>1. j + n - 1 \in 1 .. (b - a + 1)
    OBVIOUS
  <2>2. y[n] = a + (j + n - 1) - 1
    BY <1>1, <1>6, <2>1
  <2>3. z[n] = a + j - 1 + n - 1
    BY <1>3, <1>4
  <2> QED
    BY <2>2, <2>3
<1>9. y = z
  BY <1>4, <1>6, <1>7, <1>8, SeqEqual
<1> QED
  BY <1>9 DEF y, x, z

-----------------------------------------------------------------------------
(* The lines of an input.                                                  *)

\* The lines within the first n bytes of t, for every n.
LinesTo(t) ==
  LET upTo[n \in 0 .. Len(t)] ==
        IF n = 0 THEN <<>>
        ELSE IF LineEndsAt(t, n) THEN Append(upTo[n - 1], Positions(LineStart(t, n), n))
        ELSE upTo[n - 1]
  IN upTo

\* Where a line ends, and the line.
LineEnds(t)  == [n \in 1 .. Len(t) |-> LineEndsAt(t, n)]
LineItems(t) == [n \in 1 .. Len(t) |-> Positions(LineStart(t, n), n)]

\* The lines are collected from left to right.
LEMMA LinesCollected ==
  ASSUME NEW t \in Seq(Kinds)
  PROVE  Collects(LinesTo(t), Len(t), LineEnds(t), LineItems(t))
<1> DEFINE Is(f) == f = [n \in 0 .. Len(t) |->
                           IF n = 0 THEN <<>>
                           ELSE IF LineEndsAt(t, n)
                                THEN Append(f[n - 1], Positions(LineStart(t, n), n))
                           ELSE f[n - 1]]
<1>0. Len(t) \in Nat
  OBVIOUS
<1>1. PICK f : Collects(f, Len(t), LineEnds(t), LineItems(t))
  BY <1>0, CollectsExists
<1>2. \A n \in 1 .. Len(t) :
        /\ LineEnds(t)[n] = LineEndsAt(t, n)
        /\ LineItems(t)[n] = Positions(LineStart(t, n), n)
  BY DEF LineEnds, LineItems
<1>3. \A g : Is(g) <=> Collects(g, Len(t), LineEnds(t), LineItems(t))
  <2> TAKE g
  <2>1. \A n \in 0 .. Len(t) :
          (IF n = 0 THEN <<>>
           ELSE IF LineEndsAt(t, n) THEN Append(g[n - 1], Positions(LineStart(t, n), n))
           ELSE g[n - 1])
          = (IF n = 0 THEN <<>>
             ELSE IF LineEnds(t)[n] THEN Append(g[n - 1], LineItems(t)[n])
             ELSE g[n - 1])
    <3> TAKE n \in 0 .. Len(t)
    <3>1. CASE n = 0
      BY <3>1
    <3>2. CASE n # 0
      <4>1. n \in 1 .. Len(t)
        BY <1>0, <3>2
      <4> QED
        BY <1>2, <3>2, <4>1
    <3> QED
      BY <3>1, <3>2
  <2> QED
    BY <2>1 DEF Collects
<1>4. LinesTo(t) = CHOOSE g : Is(g)
  BY DEF LinesTo
<1> HIDE DEF Is
<1>5. Is(CHOOSE g : Is(g))
  BY <1>1, <1>3
<1> QED
  BY <1>3, <1>4, <1>5

\* The line of byte n starts behind the last newline before it.
LEMMA LineStartIs ==
  ASSUME NEW t \in Seq(Kinds), NEW n \in 1 .. Len(t), NEW a \in 0 .. n,
         a # 0 => t[a] = "newline", \A p \in (a + 1) .. n : t[p] # "newline"
  PROVE  LineStart(t, n) = a + 1
<1> DEFINE I == {p \in 1 .. n : t[p] = "newline"}
<1>0. n \in Nat /\ I \subseteq Nat
  OBVIOUS
<1>1. LineStart(t, n) = 1 + (IF I # {} THEN Max(I) ELSE 0)
  BY DEF LineStart, SelectLastInSubSeq
<1>2. \A p \in I : p <= a
  BY <1>0
<1>3. CASE a = 0
  <2>1. I = {}
    BY <1>0, <1>2, <1>3
  <2> HIDE DEF I
  <2> QED
    BY <1>1, <1>3, <2>1
<1>4. CASE a # 0
  <2>1. a \in I
    BY <1>4
  <2> HIDE DEF I
  <2>2. Max(I) = a
    BY <1>0, <1>2, <2>1, MaxIs
  <2> QED
    BY <1>1, <2>1, <2>2
<1> QED
  BY <1>3, <1>4

\* Every line has a byte.
LEMMA LinesAreItems ==
  ASSUME NEW t \in Seq(Kinds), NEW n \in 1 .. Len(t), LineEnds(t)[n]
  PROVE  LineItems(t)[n] \in Item
<1>0. LineEndsAt(t, n)
  BY DEF LineEnds
<1>1. t[n] # "newline" /\ n \in Nat /\ Len(t) \in Nat
  BY <1>0 DEF LineEndsAt
<1> DEFINE G == {0} \cup {p \in 1 .. n : t[p] = "newline"}
<1>2. G \subseteq 0 .. n /\ G # {}
  BY <1>1
<1>3. PICK a \in G : \A p \in G : p <= a
  <2> HIDE DEF G
  <2> QED
    BY <1>1, <1>2, LargestOne
<1>4. a \in 0 .. n /\ (a # 0 => t[a] = "newline")
  BY <1>1
<1>5. \A p \in (a + 1) .. n : t[p] # "newline"
  <2> TAKE p \in (a + 1) .. n
  <2>1. p \in 1 .. n /\ ~(p <= a)
    BY <1>1, <1>4
  <2> QED
    BY <1>3, <2>1
<1>6. LineStart(t, n) = a + 1
  BY <1>4, <1>5, LineStartIs
<1>7. a # n
  BY <1>1, <1>4
<1>8. a + 1 \in Nat \ {0} /\ a + 1 <= n + 1 /\ n - (a + 1) + 1 # 0
  BY <1>1, <1>4, <1>7
<1>9. Positions(a + 1, n) \in Seq(Nat) /\ Len(Positions(a + 1, n)) = n - (a + 1) + 1
  BY <1>1, <1>8, PositionsAre
<1>10. Positions(a + 1, n) # <<>>
  BY <1>8, <1>9, EmptySeq
<1> QED
  BY <1>6, <1>9, <1>10 DEF LineItems, Item

\* The lines of a part of an input are items, and begin the lines of the whole.
LEMMA LinesAre ==
  ASSUME NEW t \in Seq(Kinds)
  PROVE  /\ LinesTo(t)[0] = <<>>
         /\ \A n \in 0 .. Len(t) : /\ LinesTo(t)[n] \in Seq(Item)
                                   /\ Begins(LinesTo(t)[n], Lines(t))
         /\ Lines(t) = LinesTo(t)[Len(t)]
<1>0. Len(t) \in Nat
  OBVIOUS
<1>1. Collects(LinesTo(t), Len(t), LineEnds(t), LineItems(t))
  BY LinesCollected
<1>2. \A n \in 1 .. Len(t) : LineEnds(t)[n] => LineItems(t)[n] \in Item
  BY LinesAreItems
<1>3. LinesTo(t)[0] = <<>> /\ \A n \in 0 .. Len(t) : LinesTo(t)[n] \in Seq(Item)
  BY <1>0, <1>1, <1>2, CollectsItems
<1>4. Lines(t) = LinesTo(t)[Len(t)]
  BY DEF Lines, LinesTo
<1>5. ASSUME NEW n \in 0 .. Len(t) PROVE Begins(LinesTo(t)[n], LinesTo(t)[Len(t)])
  <2>1. Len(t) \in n .. Len(t)
    BY <1>0
  <2> QED
    BY <1>0, <1>1, <1>2, <2>1, CollectsOn
<1> QED
  BY <1>3, <1>4, <1>5

\* A line, or nothing, in the bytes behind a: up to a newline or the end.
LEMMA NextLine ==
  ASSUME NEW t \in Seq(Kinds), NEW a \in 0 .. Len(t), NEW l \in a .. Len(t),
         a \notin {0, Len(t)} => t[a] = "newline",
         \A p \in (a + 1) .. l : t[p] # "newline",
         l # Len(t) => t[l + 1] = "newline"
  PROVE  /\ LinesTo(t)[l] = IF l = a THEN LinesTo(t)[a]
                            ELSE Append(LinesTo(t)[a], Positions(a + 1, l))
         /\ l # Len(t) => LinesTo(t)[l + 1] = LinesTo(t)[l]
<1> DEFINE f == LinesTo(t)
<1>0. Len(t) \in Nat
  OBVIOUS
<1>1. Collects(f, Len(t), LineEnds(t), LineItems(t))
  BY LinesCollected
<1>e. \A n \in 1 .. Len(t) : LineEnds(t)[n] <=> LineEndsAt(t, n)
  BY DEF LineEnds
<1> HIDE DEF f
<1>2. ASSUME l # Len(t) PROVE f[l + 1] = f[l]
  <2>1. l + 1 \in 1 .. Len(t) /\ t[l + 1] = "newline" /\ l + 1 - 1 = l
    BY <1>2
  <2>2. ~LineEnds(t)[l + 1]
    BY <1>e, <2>1 DEF LineEndsAt
  <2>3. f[l + 1] = f[l + 1 - 1]
    BY <1>0, <1>1, <2>1, <2>2, CollectsStep
  <2> QED
    BY <2>1, <2>3
<1>3. ASSUME l # a PROVE f[l] = Append(f[a], Positions(a + 1, l))
  <2>1. l - 1 \in a .. Len(t) /\ l \in 1 .. Len(t) /\ l \in (a + 1) .. l /\ a # Len(t)
    BY <1>3
  <2>2. \A n \in (a + 1) .. (l - 1) : ~LineEnds(t)[n]
    <3> TAKE n \in (a + 1) .. (l - 1)
    <3>1. n \in 1 .. Len(t) /\ n + 1 \in (a + 1) .. l /\ n # Len(t)
      OBVIOUS
    <3>2. t[n + 1] # "newline"
      BY <3>1
    <3> QED
      BY <1>e, <3>1, <3>2 DEF LineEndsAt
  <2>3. f[l - 1] = f[a]
    BY <1>0, <1>1, <2>1, <2>2, CollectsNothing
  <2>4. LineEnds(t)[l]
    BY <1>e, <2>1 DEF LineEndsAt
  <2>5. LineStart(t, l) = a + 1
    BY <2>1, LineStartIs
  <2>6. LineItems(t)[l] = Positions(a + 1, l)
    BY <2>1, <2>5 DEF LineItems
  <2>7. f[l] = IF LineEnds(t)[l] THEN Append(f[l - 1], LineItems(t)[l]) ELSE f[l - 1]
    BY <1>0, <1>1, <2>1, CollectsStep
  <2> QED
    BY <2>3, <2>4, <2>6, <2>7
<1> QED
  BY <1>2, <1>3 DEF f

-----------------------------------------------------------------------------
(* The strings of an input, and of an array in it.                         *)

\* The strings within the first n bytes of t, for every n.
StringsTo(t) ==
  LET upTo[n \in 0 .. Len(t)] ==
        IF n = 0 THEN <<>>
        ELSE IF t[n] = "char" THEN Append(upTo[n - 1], <<n>>)
        ELSE upTo[n - 1]
  IN upTo

Chars(t)     == [n \in 1 .. Len(t) |-> t[n] = "char"]
CharItems(t) == [n \in 1 .. Len(t) |-> <<n>>]

\* The strings are collected from left to right.
LEMMA StringsCollected ==
  ASSUME NEW t \in Seq(Kinds)
  PROVE  Collects(StringsTo(t), Len(t), Chars(t), CharItems(t))
<1> DEFINE Is(f) == f = [n \in 0 .. Len(t) |->
                           IF n = 0 THEN <<>>
                           ELSE IF t[n] = "char" THEN Append(f[n - 1], <<n>>)
                           ELSE f[n - 1]]
<1>0. Len(t) \in Nat
  OBVIOUS
<1>1. PICK f : Collects(f, Len(t), Chars(t), CharItems(t))
  BY <1>0, CollectsExists
<1>2. \A n \in 1 .. Len(t) :
        /\ Chars(t)[n] = (t[n] = "char")
        /\ CharItems(t)[n] = <<n>>
  BY DEF Chars, CharItems
<1>3. \A g : Is(g) <=> Collects(g, Len(t), Chars(t), CharItems(t))
  <2> TAKE g
  <2>1. \A n \in 0 .. Len(t) :
          (IF n = 0 THEN <<>>
           ELSE IF t[n] = "char" THEN Append(g[n - 1], <<n>>)
           ELSE g[n - 1])
          = (IF n = 0 THEN <<>>
             ELSE IF Chars(t)[n] THEN Append(g[n - 1], CharItems(t)[n])
             ELSE g[n - 1])
    <3> TAKE n \in 0 .. Len(t)
    <3>1. CASE n = 0
      BY <3>1
    <3>2. CASE n # 0
      <4>1. n \in 1 .. Len(t)
        BY <1>0, <3>2
      <4> QED
        BY <1>2, <3>2, <4>1
    <3> QED
      BY <3>1, <3>2
  <2> QED
    BY <2>1 DEF Collects
<1>4. StringsTo(t) = CHOOSE g : Is(g)
  BY DEF StringsTo
<1> HIDE DEF Is
<1>5. Is(CHOOSE g : Is(g))
  BY <1>1, <1>3
<1> QED
  BY <1>3, <1>4, <1>5

\* The strings of a part of an input are items, and begin those of the whole.
LEMMA StringsAre ==
  ASSUME NEW t \in Seq(Kinds)
  PROVE  /\ StringsTo(t)[0] = <<>>
         /\ \A n \in 0 .. Len(t) : /\ StringsTo(t)[n] \in Seq(Item)
                                   /\ Begins(StringsTo(t)[n], Strings(t))
         /\ Strings(t) = StringsTo(t)[Len(t)]
<1>0. Len(t) \in Nat
  OBVIOUS
<1>1. Collects(StringsTo(t), Len(t), Chars(t), CharItems(t))
  BY StringsCollected
<1>2. \A n \in 1 .. Len(t) : Chars(t)[n] => CharItems(t)[n] \in Item
  BY DEF CharItems, Item
<1>3. StringsTo(t)[0] = <<>> /\ \A n \in 0 .. Len(t) : StringsTo(t)[n] \in Seq(Item)
  BY <1>0, <1>1, <1>2, CollectsItems
<1>4. Strings(t) = StringsTo(t)[Len(t)]
  BY DEF Strings, StringsTo
<1>5. ASSUME NEW n \in 0 .. Len(t) PROVE Begins(StringsTo(t)[n], StringsTo(t)[Len(t)])
  <2>1. Len(t) \in n .. Len(t)
    BY <1>0
  <2> QED
    BY <1>0, <1>1, <1>2, <2>1, CollectsOn
<1> QED
  BY <1>3, <1>4, <1>5

\* Bytes that are no strings add none.
LEMMA NoStrings ==
  ASSUME NEW t \in Seq(Kinds), NEW a \in 0 .. Len(t), NEW b \in a .. Len(t),
         \A n \in (a + 1) .. b : t[n] # "char"
  PROVE  StringsTo(t)[b] = StringsTo(t)[a]
<1>1. Len(t) \in Nat /\ Collects(StringsTo(t), Len(t), Chars(t), CharItems(t))
  BY StringsCollected
<1>2. \A n \in (a + 1) .. b : ~Chars(t)[n]
  <2> TAKE n \in (a + 1) .. b
  <2>1. n \in 1 .. Len(t)
    BY <1>1
  <2> QED
    BY <2>1 DEF Chars
<1> QED
  BY <1>1, <1>2, CollectsNothing

\* What the parser has found in the first k bytes of an array, for every k.
ParsedTo(array) ==
  LET upTo[k \in 0 .. Len(array)] ==
        IF k = 0 THEN <<>>
        ELSE IF text[array[k]] = "char" THEN Append(upTo[k - 1], <<array[k]>>)
        ELSE upTo[k - 1]
  IN upTo

ArrayChars(array) == [k \in 1 .. Len(array) |-> text[array[k]] = "char"]
ArrayItems(array) == [k \in 1 .. Len(array) |-> <<array[k]>>]

\* The parser collects from left to right.
LEMMA ParsedCollected ==
  ASSUME NEW array \in Seq(Nat)
  PROVE  Collects(ParsedTo(array), Len(array), ArrayChars(array), ArrayItems(array))
<1> DEFINE Is(f) == f = [k \in 0 .. Len(array) |->
                           IF k = 0 THEN <<>>
                           ELSE IF text[array[k]] = "char" THEN Append(f[k - 1], <<array[k]>>)
                           ELSE f[k - 1]]
<1>0. Len(array) \in Nat
  OBVIOUS
<1>1. PICK f : Collects(f, Len(array), ArrayChars(array), ArrayItems(array))
  BY <1>0, CollectsExists
<1>2. \A n \in 1 .. Len(array) :
        /\ ArrayChars(array)[n] = (text[array[n]] = "char")
        /\ ArrayItems(array)[n] = <<array[n]>>
  BY DEF ArrayChars, ArrayItems
<1>3. \A g : Is(g) <=> Collects(g, Len(array), ArrayChars(array), ArrayItems(array))
  <2> TAKE g
  <2>1. \A n \in 0 .. Len(array) :
          (IF n = 0 THEN <<>>
           ELSE IF text[array[n]] = "char" THEN Append(g[n - 1], <<array[n]>>)
           ELSE g[n - 1])
          = (IF n = 0 THEN <<>>
             ELSE IF ArrayChars(array)[n] THEN Append(g[n - 1], ArrayItems(array)[n])
             ELSE g[n - 1])
    <3> TAKE n \in 0 .. Len(array)
    <3>1. CASE n = 0
      BY <3>1
    <3>2. CASE n # 0
      <4>1. n \in 1 .. Len(array)
        BY <1>0, <3>2
      <4> QED
        BY <1>2, <3>2, <4>1
    <3> QED
      BY <3>1, <3>2
  <2> QED
    BY <2>1 DEF Collects
<1>4. ParsedTo(array) = CHOOSE g : Is(g)
  BY DEF ParsedTo
<1> HIDE DEF Is
<1>5. Is(CHOOSE g : Is(g))
  BY <1>1, <1>3
<1> QED
  BY <1>3, <1>4, <1>5

\* The parser finds the strings that follow those before the array.
LEMMA ParsedIs ==
  ASSUME text \in Seq(Kinds), NEW a \in 0 .. Len(text), NEW b \in a .. Len(text)
  PROVE  /\ Parsed(Positions(a + 1, b)) \in Seq(Item)
         /\ StringsTo(text)[a] \o Parsed(Positions(a + 1, b)) = StringsTo(text)[b]
<1> DEFINE array == Positions(a + 1, b)
           f == StringsTo(text)
           g == ParsedTo(array)
<1>0. Len(text) \in Nat /\ a \in Nat /\ b \in Nat /\ b - a \in Nat /\ a + 1 \in Nat \ {0}
      /\ a + 1 <= b + 1 /\ b - (a + 1) + 1 = b - a
  OBVIOUS
<1>1. /\ array \in Seq(Nat) /\ Len(array) = b - (a + 1) + 1
      /\ \A k \in 1 .. (b - (a + 1) + 1) : array[k] = a + 1 + k - 1
  BY <1>0, PositionsAre
<1>2. Collects(g, Len(array), ArrayChars(array), ArrayItems(array))
  BY <1>1, ParsedCollected
<1>3. Collects(f, Len(text), Chars(text), CharItems(text))
  BY StringsCollected
<1>4. Parsed(array) = g[Len(array)]
  BY DEF Parsed, ParsedTo
<1>5. f[a] \in Seq(Item)
  BY StringsAre
<1> HIDE DEF array, f, g
<1>6. Len(array) = b - a /\ \A k \in 1 .. (b - a) : array[k] = a + k
  BY <1>0, <1>1
<1>7. \A k \in 1 .. (b - a) : /\ ArrayChars(array)[k] <=> text[a + k] = "char"
                              /\ ArrayItems(array)[k] = <<a + k>>
  BY <1>6 DEF ArrayChars, ArrayItems
<1>8. \A k \in 1 .. (b - a) : /\ Chars(text)[a + k] <=> text[a + k] = "char"
                              /\ CharItems(text)[a + k] = <<a + k>>
  <2> TAKE k \in 1 .. (b - a)
  <2>1. a + k \in 1 .. Len(text)
    BY <1>0
  <2> QED
    BY <2>1 DEF Chars, CharItems
<1>9. ASSUME NEW k \in 1 .. Len(array) PROVE ArrayChars(array)[k] => ArrayItems(array)[k] \in Item
  <2>1. k \in 1 .. (b - a) /\ a + k \in Nat
    BY <1>0, <1>6, <1>9
  <2>2. <<a + k>> \in Item
    BY <2>1 DEF Item
  <2> QED
    BY <1>7, <2>1, <2>2
<1>10. Len(array) \in Nat
  BY <1>6
<1>11. g[0] = <<>> /\ \A k \in 0 .. Len(array) : g[k] \in Seq(Item)
  BY <1>2, <1>9, <1>10, CollectsItems
<1> DEFINE F == {k \in 0 .. (b - a) : f[a] \o g[k] # f[a + k]}
<1>12. F = {}
  <2> SUFFICES ASSUME F # {} PROVE FALSE
    OBVIOUS
  <2> HIDE DEF F
  <2>0. \A k \in F : k \in 0 .. (b - a)
    BY DEF F
  <2>1. F \subseteq Nat
    BY <2>0
  <2>2. PICK m \in F : \A n \in F : m <= n
    BY <2>1, SmallestOne
  <2>3. m \in 0 .. (b - a) /\ f[a] \o g[m] # f[a + m]
    BY DEF F
  <2>4. m # 0
    <3>1. f[a] \o <<>> = f[a]
      BY <1>5, ConcatEmptySeq
    <3>2. a + 0 = a
      BY <1>0
    <3> QED
      BY <1>11, <2>3, <3>1, <3>2
  <2>5. m - 1 \in 0 .. (b - a) /\ m - 1 \notin F /\ m \in 1 .. (b - a)
        /\ a + m \in 1 .. Len(text) /\ a + (m - 1) = a + m - 1
    BY <1>0, <2>2, <2>3, <2>4
  <2>6. f[a] \o g[m - 1] = f[a + m - 1]
    BY <2>5 DEF F
  <2>7. g[m] = IF ArrayChars(array)[m] THEN Append(g[m - 1], ArrayItems(array)[m]) ELSE g[m - 1]
    BY <1>2, <1>6, <1>10, <2>5, CollectsStep
  <2>8. f[a + m] = IF Chars(text)[a + m] THEN Append(f[a + m - 1], CharItems(text)[a + m])
                   ELSE f[a + m - 1]
    BY <1>0, <1>3, <2>5, CollectsStep
  <2>9. CASE text[a + m] = "char"
    <3>1. g[m] = Append(g[m - 1], <<a + m>>)
      BY <1>7, <2>5, <2>7, <2>9
    <3>2. f[a + m] = Append(f[a + m - 1], <<a + m>>)
      BY <1>8, <2>5, <2>8, <2>9
    <3>3. g[m - 1] \in Seq(Item)
      BY <1>6, <1>11, <2>5
    <3>4. <<a + m>> \in Item
      BY <1>0, <2>5 DEF Item
    <3>5. f[a] \o Append(g[m - 1], <<a + m>>) = Append(f[a] \o g[m - 1], <<a + m>>)
      <4> DEFINE s == f[a]
                 u == g[m - 1]
                 e == <<a + m>>
      <4>1. s \in Seq(Item) /\ u \in Seq(Item) /\ e \in Item
        BY <1>5, <3>3, <3>4
      <4> HIDE DEF s, u, e
      <4>2. s \o Append(u, e) = Append(s \o u, e)
        BY <4>1, ConcatAppend
      <4> QED
        BY <4>2 DEF s, u, e
    <3> QED
      BY <2>3, <2>6, <3>1, <3>2, <3>5
  <2>10. CASE text[a + m] # "char"
    BY <1>7, <1>8, <2>3, <2>5, <2>6, <2>7, <2>8, <2>10
  <2> QED
    BY <2>9, <2>10
<1>13. b - a \in 0 .. (b - a) /\ a + (b - a) = b
  BY <1>0
<1>14. f[a] \o g[b - a] = f[b]
  BY <1>12, <1>13
<1>15. g[b - a] \in Seq(Item)
  BY <1>6, <1>11, <1>13
<1> HIDE DEF F
<1>16. Parsed(array) = g[b - a]
  BY <1>4, <1>6
<1> QED
  BY <1>14, <1>15, <1>16 DEF array, f

-----------------------------------------------------------------------------
(* The format of an input.                                                 *)

\* The first of some positions, or 0.
LEMMA FirstIs ==
  ASSUME NEW I, I \subseteq Nat \ {0}, NEW e, e = IF I # {} THEN Min(I) ELSE 0
  PROVE  /\ e \in Nat
         /\ e = 0 => I = {}
         /\ e # 0 => e \in I /\ \A i \in I : e <= i
<1>1. CASE I = {}
  BY <1>1
<1>2. CASE I # {}
  <2>1. I \subseteq Nat
    OBVIOUS
  <2>2. Min(I) \in I /\ \A i \in I : Min(I) <= i
    BY <1>2, <2>1, MinIs
  <2> QED
    BY <1>2, <2>2
<1> QED
  BY <1>1, <1>2

\* What the first telling byte tells.
Told(kind) == [binary |-> "binary", open |-> "json", newline |-> "list"][kind]

\* The first telling byte decides.
LEMMA FormatToldBy ==
  ASSUME NEW t \in Seq(Kinds), NEW p \in 1 .. Len(t), Telling(t[p]),
         \A q \in 1 .. (p - 1) : ~Telling(t[q])
  PROVE  FormatOf(t) = Told(t[p])
<1> DEFINE I == {i \in 1 .. Len(t) : Telling(t[i])}
           e == IF I # {} THEN Min(I) ELSE 0
<1>1. FormatOf(t) = IF e = 0 THEN "list" ELSE Told(t[e])
  BY DEF FormatOf, SelectInSeq, Told
<1>2. I \subseteq Nat \ {0} /\ p \in I
  OBVIOUS
<1>3. ASSUME NEW i \in I PROVE p <= i
  <2>1. i \in 1 .. Len(t) /\ Telling(t[i]) /\ Len(t) \in Nat
    OBVIOUS
  <2>2. i \notin 1 .. (p - 1)
    BY <2>1
  <2> QED
    BY <2>1, <2>2
<1> HIDE DEF I
<1>4. e # 0 /\ e \in I /\ \A i \in I : e <= i
  BY <1>2, FirstIs
<1>5. e = p
  <2>1. e \in Nat /\ p \in Nat /\ e <= p /\ p <= e
    BY <1>2, <1>3, <1>4
  <2> HIDE DEF e
  <2> QED
    BY <2>1
<1> QED
  BY <1>1, <1>4, <1>5

\* Without such a byte it is a list.
LEMMA FormatNotTold ==
  ASSUME NEW t \in Seq(Kinds), \A q \in 1 .. Len(t) : ~Telling(t[q])
  PROVE  FormatOf(t) = "list"
BY DEF FormatOf, SelectInSeq

\* The formats an input may have.
LEMMA FormatIs ==
  ASSUME NEW t \in Seq(Kinds)
  PROVE  FormatOf(t) \in {"list", "json", "binary"}
<1> DEFINE I == {i \in 1 .. Len(t) : Telling(t[i])}
           e == IF I # {} THEN Min(I) ELSE 0
<1>1. FormatOf(t) = IF e = 0 THEN "list" ELSE Told(t[e])
  BY DEF FormatOf, SelectInSeq, Told
<1>2. I \subseteq Nat \ {0}
  OBVIOUS
<1>3. e # 0 => e \in I
  <2> HIDE DEF I
  <2> QED
    BY <1>2, FirstIs
<1>4. e # 0 => t[e] \in {"binary", "open", "newline"}
  BY <1>3 DEF Telling
<1> QED
  BY <1>1, <1>4 DEF Told

\* What there is of the input in the order it should be handed on.
LEMMA ItemsAre ==
  ASSUME NEW t \in Seq(Kinds), NEW form \in {"list", "json", "binary"}
  PROVE  Items(t, form) \in Seq(Seq(Nat))
<1>0. Len(t) \in Nat /\ 0 \in 0 .. Len(t) /\ Len(t) \in 0 .. Len(t) /\ 1 \in Nat \ {0}
      /\ 1 <= Len(t) + 1 /\ Item \subseteq Seq(Nat)
  BY DEF Item
<1>1. CASE form = "list"
  <2>1. Lines(t) \in Seq(Item)
    BY <1>0, LinesAre
  <2>2. Lines(t) \in Seq(Seq(Nat))
    BY <1>0, <2>1, SeqMonotonic
  <2> QED
    BY <1>1, <2>2 DEF Items
<1>2. CASE form = "json"
  <2>1. Strings(t) \in Seq(Item)
    BY <1>0, StringsAre
  <2>2. Strings(t) \in Seq(Seq(Nat))
    BY <1>0, <2>1, SeqMonotonic
  <2> QED
    BY <1>2, <2>2 DEF Items
<1>3. CASE form = "binary"
  <2>1. Positions(1, Len(t)) \in Seq(Nat)
    BY <1>0, PositionsAre
  <2>2. <<Positions(1, Len(t))>> \in Seq(Seq(Nat))
    BY <2>1
  <2>3. Items(t, form) = <<Positions(1, Len(t))>>
    BY <1>3 DEF Items
  <2> QED
    BY <2>2, <2>3
<1> QED
  BY <1>1, <1>2, <1>3

-----------------------------------------------------------------------------
(* The inductive invariant.                                                *)

Made    == [of : Seq(Nat), input : Seq(Nat)]
Formats == {"none", "binary", "list", "json"}
Reading == {"detect", "line", "json", "binary"}
Places  == {"start", "generate", "choose", "process", "finish"} \cup Reading

Types ==
  /\ opts \in Options
  /\ text \in Seq(Kinds)
  /\ sent \in 0 .. Len(text)
  /\ fed \in 0 .. sent
  /\ format \in Formats
  /\ pre \in Seq(Nat)
  /\ buffer \in Seq(Nat)
  /\ room \in Nat
  /\ pending \in Seq(Item)
  /\ done \in Seq(Item)
  /\ output \in Seq(Made)
  /\ printed \in Seq(Made)
  /\ pc \in Places
  /\ opts.source = "pipe" => opts.command = "input"
  /\ closed => sent = Len(text)

\* How main came to where it is, and what it found out about the format.
Way ==
  /\ opts.command \in {"vanity", "unknown"} => pc = "start"
  /\ pc = "start" => format = opts.format
  /\ pc \in {"choose", "process"} \cup Reading => opts.command = "input"
  /\ pc \in Reading => opts.source = "pipe"
  /\ pc = "generate" => opts.command = "create"
  /\ pc \in {"generate", "finish"} => ~(opts.command = "create" /\ opts.trace)
  /\ pc = "detect" => format = "none"
  /\ pc = "line" => format = "list"
  /\ pc = "json" => format = "json"
  /\ pc = "binary" => format = "binary"
  /\ pc \in {"process", "finish"} => opts.source = "arguments" \/ format # "none"
  /\ format = "none" => opts.format = "none"
  /\ opts.source = "pipe" /\ format # "none" => format = Meant

\* Nothing is kept from before the loop, and no item where there should be none.
Fresh ==
  /\ pc \in {"start", "generate", "choose", "detect"} =>
       /\ done = <<>> /\ pending = <<>>
       /\ buffer = <<>> /\ room = Bufsiz /\ ~short
       /\ pc # "choose" \/ format = "none" => pre = NoBuffer
       /\ pre = NoBuffer => fed = 0
  /\ pc \in {"process", "finish"} => pre = NoBuffer
  /\ pc \in {"line", "json", "finish"} => pending = <<>>

\* What detection of the format has read of the input is in pre_buffer; of a
\* list it is a line.
Detected ==
  pc \in {"choose", "line", "json"} /\ pre # NoBuffer =>
    /\ opts.source = "pipe" /\ opts.format = "none"
    /\ done = <<>> /\ buffer = <<>>
    /\ pre = Positions(1, fed) /\ fed <= Bufsiz
    /\ format = "list" =>
         /\ \A p \in 1 .. (fed - 1) : text[p] # "newline"
         /\ fed < Len(text) => fed > 0 /\ text[fed] = "newline"

\* The items so far are the lines of what has been read, which ends with a line.
ListRead ==
  /\ pre = NoBuffer => /\ done \o pending = LinesTo(text)[fed]
                       /\ fed \notin {0, Len(text)} => text[fed] = "newline"
  /\ pc = "finish" => fed = Len(text)

\* The items so far are the strings of what has been read and is no longer in
\* the buffer.
JsonRead ==
  /\ Len(Before) <= fed /\ Len(Before) <= Bufsiz
  /\ Before = Positions(fed - Len(Before) + 1, fed)
  /\ done \o pending = StringsTo(text)[fed - Len(Before)]
  /\ pc = "finish" => fed = Len(text) /\ Before = <<>>

\* The buffers hold all that has been read; without a short read the next one
\* fits.
BinaryRead ==
  /\ Len(buffer) <= fed
  /\ buffer = Positions(fed - Len(buffer) + 1, fed)
  /\ pre # NoBuffer => pre = Positions(1, fed - Len(buffer))
  /\ pre = NoBuffer => Len(buffer) = fed
  /\ done = <<>> /\ pending = <<>>
  /\ ~short => Len(buffer) + Bufsiz = room

Readers ==
  opts.source = "pipe" =>
    /\ format = "list" /\ pc \in {"line", "process", "finish"} => ListRead
    /\ format = "json" /\ pc \in {"json", "process", "finish"} => JsonRead
    /\ format = "binary" /\ pc = "binary" => BinaryRead
    /\ format = "binary" /\ pc \in {"process", "finish"}
         => done \o pending = <<Positions(1, Len(text))>>

Arguments ==
  opts.command = "input" /\ opts.source = "arguments" /\ pc \in {"process", "finish"}
    => done \o pending = Lines(text)

\* Every output was made of an item that was handed on.
OutputsHaveItems ==
  opts.command = "input" =>
    \A k \in DOMAIN Produced : \E x \in DOMAIN done : Produced[k].of = done[x]

Attributed == OutputsFollowItems /\ OutputsHaveItems
Steady     == Way /\ Fresh /\ Detected /\ Readers /\ Arguments

PipeInv ==
  /\ Types
  /\ CrashCauses /\ ListAccepted
  /\ ItemsInOrder
  /\ Attributed
  /\ Running => Steady

\* Of a run that goes on nothing is said about its end.
LEMMA GoesOn ==
  ASSUME outcome \notin {"crashed", "rejected"}
  PROVE  CrashCauses /\ ListAccepted
BY DEF CrashCauses, ListAccepted

\* What a step that hands on no item leaves of ItemsInOrder.
LEMMA ItemsStay ==
  ASSUME ItemsInOrder, UNCHANGED <<opts, text, done>>, outcome' # "done"
  PROVE  ItemsInOrder'
<1>1. Meant' = Meant
  BY DEF Meant
<1> QED
  BY <1>1 DEF ItemsInOrder

\* What a step that prints nothing and adds no output leaves of Attributed.
LEMMA OutputsStay ==
  ASSUME Attributed, UNCHANGED <<opts, done, output, printed>>,
         format' = format \/ format = "none"
  PROVE  Attributed'
<1>1. Produced' = Produced
  BY DEF Produced
<1>2. ~FromBinary' => ~FromBinary
  BY DEF FromBinary
<1> QED
  BY <1>1, <1>2 DEF Attributed, OutputsFollowItems, OutputsHaveItems

\* The invariant says the same where nothing it speaks of changes.
LEMMA SteadyStays ==
  ASSUME Steady, UNCHANGED <<opts, text, readerVars, pending, output, printed, done, pc>>
  PROVE  Steady'
<1>1. UNCHANGED <<opts, text, fed, format, pre, buffer, room, short, pending, done, pc>>
  BY DEF readerVars
<1>2. Meant' = Meant /\ Before' = Before
  BY <1>1 DEF Meant, Before
<1>3. Way'
  BY <1>1, <1>2 DEF Steady, Way
<1>4. Fresh'
  BY <1>1 DEF Steady, Fresh
<1>5. Detected'
  BY <1>1 DEF Steady, Detected
<1>6. Readers'
  BY <1>1, <1>2 DEF Steady, Readers, ListRead, JsonRead, BinaryRead
<1>7. Arguments'
  BY <1>1 DEF Steady, Arguments
<1> QED
  BY <1>3, <1>4, <1>5, <1>6, <1>7 DEF Steady

\* What a run that ends within a reader leaves.
LEMMA EndsInv ==
  ASSUME PipeInv,
         UNCHANGED <<opts, text, sent, closed, format, room, pending, output, printed, done, pc>>,
         pre' \in Seq(Nat), buffer' \in Seq(Nat), fed' \in 0 .. sent,
         outcome' \notin {"running", "done"}, CrashCauses', ListAccepted'
  PROVE  PipeInv'
<1>1. Types'
  BY DEF PipeInv, Types
<1>2. ItemsInOrder'
  BY ItemsStay DEF PipeInv
<1>3. Attributed'
  BY OutputsStay DEF PipeInv
<1> QED
  BY <1>1, <1>2, <1>3 DEF PipeInv, Running

\* The input is meant to have one of three formats.
LEMMA MeantIs ==
  ASSUME Types
  PROVE  Meant \in {"list", "json", "binary"}
<1>1. opts.format \in {"none", "binary", "list", "json"}
  BY DEF Types, Options
<1>2. FormatOf(text) \in {"list", "json", "binary"}
  BY FormatIs DEF Types
<1> QED
  BY <1>1, <1>2 DEF Meant

-----------------------------------------------------------------------------
(* The writer, main up to the readers, and detection of the format.        *)

LEMMA InitInv == Init => PipeInv
<1> SUFFICES ASSUME Init PROVE PipeInv
  OBVIOUS
<1>1. text \in Seq(Kinds) /\ Bufsiz \in Nat
  BY PipelineAssumption DEF Init
<1>2. Types
  <2>1. opts.format \in Formats /\ opts.source \in {"arguments", "pipe"}
    BY DEF Init, Options, Formats
  <2> QED
    BY <1>1, <2>1 DEF Init, Types, NoBuffer, Places
<1>3. CrashCauses /\ ListAccepted
  BY GoesOn DEF Init
<1>4. ItemsInOrder
  <2>1. Meant \in {"list", "json", "binary"}
    BY <1>1, <1>2, MeantIs
  <2>2. Items(text, Meant) \in Seq(Seq(Nat))
    BY <1>1, <2>1, ItemsAre
  <2>3. <<>> \in Seq(Seq(Nat)) /\ Len(<<>>) = 0
    OBVIOUS
  <2>4. Begins(<<>>, Items(text, Meant))
    BY <2>2, <2>3 DEF Begins
  <2>5. IsPrefix(<<>>, Items(text, Meant))
    BY <2>2, <2>3, <2>4, PrefixIs
  <2> QED
    BY <2>5 DEF Init, ItemsInOrder
<1>5. Attributed
  BY DEF Init, Attributed, OutputsFollowItems, OutputsHaveItems, Produced
<1>6. Way
  BY DEF Init, Way, Reading, Meant
<1>7. Fresh /\ Detected /\ Readers /\ Arguments
  BY DEF Init, Fresh, Detected, Readers, Arguments
<1> QED
  BY <1>2, <1>3, <1>4, <1>5, <1>6, <1>7 DEF PipeInv, Steady

LEMMA SendInv ==
  ASSUME PipeInv, Send \/ Close
  PROVE  PipeInv'
<1>1. /\ Running /\ UNCHANGED <<opts, text, readerVars, pending, output, printed, done, pc, outcome>>
      /\ sent' \in sent .. Len(text) /\ (closed' => sent' = Len(text))
  BY DEF Send, Close, PipeInv, Types, Running
<1>2. UNCHANGED <<fed, format, pre, buffer, room, short>>
  BY <1>1 DEF readerVars
<1>3. Types'
  BY <1>1, <1>2 DEF PipeInv, Types
<1>4. CrashCauses' /\ ListAccepted'
  BY <1>1 DEF CrashCauses, ListAccepted, Running
<1>5. ItemsInOrder'
  BY <1>1, ItemsStay DEF PipeInv, Running
<1>6. Attributed'
  BY <1>1, <1>2, OutputsStay DEF PipeInv
<1>7. Steady'
  BY <1>1, SteadyStays DEF PipeInv
<1> QED
  BY <1>3, <1>4, <1>5, <1>6, <1>7 DEF PipeInv

LEMMA DispatchInv ==
  ASSUME PipeInv, Dispatch
  PROVE  PipeInv'
<1>1. /\ outcome = "running" /\ pc = "start" /\ Way /\ Fresh
      /\ UNCHANGED <<opts, text, sent, closed, fed, format, pre, buffer, room, short,
                     pending, output, printed, done>>
  BY DEF Dispatch, At, Running, PipeInv, Steady, pipeVars, readerVars
<1>2. \/ outcome' = "failed" /\ pc' = pc
      \/ outcome' = "crashed" /\ pc' = pc /\ opts.command = "vanity"
      \/ outcome' = outcome /\ pc' = "generate" /\ opts.command = "create" /\ ~opts.trace
      \/ outcome' = outcome /\ pc' = "choose" /\ opts.command = "input"
  <2>1. opts.command \in {"input", "create", "vanity", "unknown"}
    BY DEF PipeInv, Types, Options
  <2>2. \/ opts.command = "unknown" \/ BadOptions
        \/ opts.command = "vanity" /\ ~BadOptions
        \/ opts.command = "create" /\ ~BadOptions
        \/ opts.command = "input"  /\ ~BadOptions
    BY <2>1
  <2> QED
    BY <2>2 DEF Dispatch, Ends, Goes, BadOptions
<1>3. Types'
  BY <1>1, <1>2 DEF PipeInv, Types, Places
<1>4. CrashCauses' /\ ListAccepted'
  BY <1>1, <1>2 DEF CrashCauses, ListAccepted
<1>5. ItemsInOrder'
  BY <1>1, <1>2, ItemsStay DEF PipeInv
<1>6. Attributed'
  BY <1>1, OutputsStay DEF PipeInv
<1>7. ASSUME outcome' = "running" PROVE Steady'
  <2>1. Meant' = Meant
    BY <1>1 DEF Meant
  <2>2. pc' \in {"generate", "choose"}
    BY <1>1, <1>2, <1>7
  <2>3. Way'
    BY <1>1, <1>2, <1>7, <2>1 DEF Way, Reading
  <2>4. Fresh'
    BY <1>1, <2>2 DEF Fresh
  <2>5. Detected'
    BY <1>1, <1>2, <2>2 DEF Fresh, Detected
  <2>6. Readers' /\ Arguments'
    BY <2>2 DEF Readers, Arguments
  <2> QED
    BY <2>3, <2>4, <2>5, <2>6 DEF Steady
<1> QED
  BY <1>3, <1>4, <1>5, <1>6, <1>7 DEF PipeInv, Running

\* The items of a run that reads arguments, or begins to read a pipe.
LEMMA ChooseInv ==
  ASSUME PipeInv, Choose
  PROVE  PipeInv'
<1>1. /\ outcome = "running" /\ pc = "choose" /\ Way /\ Fresh /\ Detected
      /\ UNCHANGED <<opts, text, sent, closed, fed, format, pre, buffer, room, short,
                     output, printed, done>>
      /\ outcome' = outcome
  BY DEF Choose, Goes, At, Running, PipeInv, Steady, pipeVars, readerVars
<1>t. Types
  BY DEF PipeInv
<1>2. /\ opts.command = "input" /\ done = <<>> /\ pending = <<>> /\ buffer = <<>>
      /\ room = Bufsiz /\ (pre = NoBuffer => fed = 0)
      /\ text \in Seq(Kinds) /\ Len(text) \in Nat /\ fed \in Nat
  BY <1>1, <1>t DEF Way, Fresh, Types
<1>3. \/ /\ opts.source = "arguments" /\ pending' = Lines(text) /\ pc' = "process"
      \/ /\ opts.source = "pipe" /\ pending' = <<>>
         /\ \/ format = "none" /\ pc' = "detect" /\ pre = NoBuffer /\ fed = 0
            \/ format = "list" /\ pc' = "line"
            \/ format = "json" /\ pc' = "json"
            \/ format = "binary" /\ pc' = "binary"
  <2>1. opts.source \in {"arguments", "pipe"} /\ format \in {"none", "binary", "list", "json"}
    BY <1>t DEF Types, Options, Formats
  <2> QED
    BY <1>1, <1>2, <2>1 DEF Choose, Goes, Fresh
<1>4. Types'
  <2>1. pending' \in Seq(Item)
    BY <1>2, <1>3, LinesAre, EmptySeq
  <2>2. pc' \in Places
    BY <1>3 DEF Places, Reading
  <2> QED
    BY <1>1, <1>t, <2>1, <2>2 DEF Types
<1>5. CrashCauses' /\ ListAccepted'
  BY <1>1 DEF CrashCauses, ListAccepted
<1>6. ItemsInOrder'
  BY <1>1, ItemsStay DEF PipeInv
<1>7. Attributed'
  BY <1>1, OutputsStay DEF PipeInv
<1>8. Steady'
  <2>1. Meant' = Meant
    BY <1>1 DEF Meant
  <2>2. Way'
    BY <1>1, <1>2, <1>3, <2>1 DEF Way, Reading
  <2>3. Fresh'
    BY <1>1, <1>2, <1>3 DEF Fresh, Detected
  <2>4. Detected'
    BY <1>1, <1>2, <1>3 DEF Detected
  <2>5. Arguments'
    <3>1. Lines(text) \in Seq(Item)
      BY <1>2, LinesAre
    <3>2. <<>> \o Lines(text) = Lines(text)
      BY <3>1, ConcatEmptySeq
    <3> QED
      BY <1>1, <1>2, <1>3, <3>2 DEF Arguments
  <2>6. <<>> \o <<>> = <<>>
    BY ConcatEmptySeq, EmptySeq
  <2>7. opts.source = "pipe" => done' \o pending' = <<>>
    BY <1>1, <1>2, <1>3, <2>6
  <2>8. ASSUME opts.source = "pipe", format = "list", pc' = "line" PROVE ListRead'
    <3>1. LinesTo(text)[0] = <<>>
      BY <1>2, LinesAre
    <3> QED
      BY <1>1, <1>2, <2>7, <2>8, <3>1 DEF ListRead
  <2>e. /\ Positions(1, 0) = <<>>
        /\ Positions(fed + 1, fed) = <<>>
        /\ Len(Positions(1, fed)) = fed /\ fed - fed = 0 /\ 0 + 1 = 1
        /\ Len(<<>>) = 0 /\ 0 - 0 + 1 = 1 /\ fed - 0 = fed
    <3>1. 1 \in Nat \ {0} /\ 0 \in Nat /\ fed \in Nat /\ 1 <= fed + 1 /\ fed - 1 + 1 = fed
      BY <1>2
    <3>2. Len(Positions(1, fed)) = fed
      BY <3>1, PositionsAre
    <3>3. Positions(1, 0) = <<>> /\ Positions(fed + 1, fed) = <<>>
      BY <3>1 DEF Positions
    <3> QED
      BY <3>1, <3>2, <3>3
  <2>9. ASSUME opts.source = "pipe", format = "json", pc' = "json" PROVE JsonRead'
    <3>1. StringsTo(text)[0] = <<>>
      BY <1>2, StringsAre
    <3>2. Before' = Before
      BY <1>1 DEF Before
    <3>3. CASE pre = NoBuffer
      <4>1. Before = <<>> /\ fed = 0
        BY <1>2, <3>3 DEF Before
      <4>2. Bufsiz \in Nat
        BY PipelineAssumption
      <4> QED
        BY <1>1, <1>2, <2>7, <2>9, <2>e, <3>1, <3>2, <4>1, <4>2 DEF JsonRead
    <3>4. CASE pre # NoBuffer
      <4>1. Before = Positions(1, fed) /\ fed <= Bufsiz
        BY <1>1, <3>4 DEF Before, Detected
      <4> QED
        BY <1>1, <1>2, <2>7, <2>9, <2>e, <3>1, <3>2, <4>1 DEF JsonRead
    <3> QED
      BY <3>3, <3>4
  <2>10. ASSUME opts.source = "pipe", format = "binary", pc' = "binary" PROVE BinaryRead'
    <3>1. 0 + Bufsiz = room
      BY <1>2, PipelineAssumption
    <3>2. pre # NoBuffer => pre = Positions(1, fed)
      BY <1>1 DEF Detected
    <3> QED
      BY <1>1, <1>2, <1>3, <2>10, <2>e, <3>1, <3>2 DEF BinaryRead
  <2>11. Readers'
    BY <1>1, <1>3, <2>8, <2>9, <2>10 DEF Readers
  <2> QED
    BY <2>2, <2>3, <2>4, <2>5, <2>11 DEF Steady
<1> QED
  BY <1>4, <1>5, <1>6, <1>7, <1>8 DEF PipeInv

\* The whole input is detected, or what was read of it is too long to tell.
LEMMA DetectFormatInv ==
  ASSUME PipeInv, DetectFormat
  PROVE  PipeInv'
<1> DEFINE I == {i \in 1 .. sent : Telling(text[i])}
           told == IF I # {} THEN Min(I) ELSE 0
           read == IF told = 0 THEN sent ELSE told
<1>1. /\ outcome = "running" /\ pc = "detect" /\ Way /\ Fresh
      /\ UNCHANGED <<opts, text, sent, closed, buffer, room, short, pending,
                     output, printed, done>>
  BY DEF DetectFormat, At, Running, PipeInv, Steady, pipeVars
<1>2. /\ told # 0 \/ closed \/ sent > Bufsiz
      /\ fed' = read
      /\ pre' = Positions(1, read)
      /\ format' = FormatOf(SubSeq(text, 1, read))
      /\ IF read > Bufsiz THEN Ends("crashed") ELSE Goes("choose")
  BY DEF DetectFormat, SelectInSubSeq
<1>t. Types
  BY DEF PipeInv
<1>3. /\ opts.command = "input" /\ opts.source = "pipe" /\ opts.format = "none"
      /\ format = "none" /\ done = <<>> /\ pending = <<>> /\ buffer = <<>>
  BY <1>1 DEF Way, Fresh, Reading
<1>4. /\ text \in Seq(Kinds) /\ Len(text) \in Nat /\ sent \in Nat /\ sent <= Len(text)
      /\ (closed => sent = Len(text)) /\ Bufsiz \in Nat \ {0}
  BY <1>t, PipelineAssumption DEF Types
<1>5. /\ told \in Nat
      /\ told = 0 => \A i \in 1 .. sent : ~Telling(text[i])
      /\ told # 0 => /\ told \in 1 .. sent /\ Telling(text[told])
                     /\ \A i \in 1 .. (told - 1) : ~Telling(text[i])
  <2>1. I \subseteq Nat \ {0}
    OBVIOUS
  <2>2. /\ told \in Nat
        /\ told = 0 => I = {}
        /\ told # 0 => told \in I /\ \A i \in I : told <= i
    <3> HIDE DEF I
    <3> QED
      BY <2>1, FirstIs
  <2> HIDE DEF told
  <2>3. ASSUME told # 0, NEW i \in 1 .. (told - 1) PROVE ~Telling(text[i])
    <3>1. told \in 1 .. sent
      BY <2>2, <2>3
    <3>2. i \in 1 .. sent /\ ~(told <= i)
      BY <1>4, <2>3, <3>1
    <3> QED
      BY <2>2, <2>3, <3>2
  <2> QED
    BY <2>2, <2>3
<1> HIDE DEF told
<1>6. read \in 0 .. sent /\ read \in Nat
  BY <1>4, <1>5
<1>7. \A i \in 1 .. (read - 1) : ~Telling(text[i])
  BY <1>4, <1>5
<1>8. /\ SubSeq(text, 1, read) \in Seq(Kinds)
      /\ Len(SubSeq(text, 1, read)) = read
      /\ \A i \in 1 .. read : SubSeq(text, 1, read)[i] = text[i]
  <2>1. \A i \in 1 .. read : text[i] \in Kinds
    BY <1>4, <1>6
  <2>2. /\ SubSeq(text, 1, read) \in Seq(Kinds)
        /\ Len(SubSeq(text, 1, read)) = IF 1 <= read THEN read - 1 + 1 ELSE 0
        /\ \A i \in 1 .. read - 1 + 1 : SubSeq(text, 1, read)[i] = text[1 + i - 1]
    <3>1. 1 \in Int /\ read \in Int
      BY <1>6
    <3> HIDE DEF read
    <3> QED
      BY <2>1, <3>1, SubSeqProperties
  <2> HIDE DEF read
  <2> QED
    BY <1>6, <2>2
<1>9. Positions(1, read) \in Seq(Nat) /\ Positions(1, read) # NoBuffer
  <2>1. 1 \in Nat \ {0} /\ 1 <= read + 1
    BY <1>6
  <2>2. /\ Positions(1, read) \in Seq(Nat) /\ Len(Positions(1, read)) = read - 1 + 1
        /\ \A k \in 1 .. (read - 1 + 1) : Positions(1, read)[k] = 1 + k - 1
    BY <1>6, <2>1, PositionsAre
  <2> HIDE DEF read
  <2>3. Len(Positions(1, read)) = 1 => Positions(1, read)[1] = 1
    BY <1>6, <2>2
  <2> QED
    BY <2>2, <2>3 DEF NoBuffer
<1>10. format' \in {"list", "json", "binary"}
  BY <1>2, <1>8, FormatIs
<1>11. Types'
  <2>1. pc' \in Places
    BY <1>1, <1>2 DEF Ends, Goes, Places, Reading
  <2> HIDE DEF read
  <2> QED
    BY <1>1, <1>2, <1>6, <1>9, <1>10, <1>t, <2>1 DEF Types, Formats
<1>12. outcome' \in {"crashed", "running"} /\ (outcome' = "running" => pc' = "choose" /\ read <= Bufsiz)
  BY <1>1, <1>2, <1>4, <1>6 DEF Ends, Goes
<1>13. CrashCauses' /\ ListAccepted'
  <2>1. CASE outcome' = "running"
    BY <2>1 DEF CrashCauses, ListAccepted
  <2>2. CASE outcome' = "crashed"
    <3>1. read > Bufsiz
      BY <1>1, <1>2, <2>2 DEF Goes
    <3>2. \A p \in 1 .. Bufsiz : ~Telling(text[p])
      BY <1>4, <1>6, <1>7, <3>1
    <3> QED
      BY <1>1, <1>3, <2>2, <3>2 DEF CrashCauses, ListAccepted
  <2> QED
    BY <1>12, <2>1, <2>2
<1>14. ItemsInOrder'
  BY <1>1, <1>12, ItemsStay DEF PipeInv
<1>15. Attributed'
  BY <1>1, <1>3, OutputsStay DEF PipeInv
<1>16. ASSUME outcome' = "running" PROVE Steady'
  <2>1. pc' = "choose" /\ read <= Bufsiz
    BY <1>12, <1>16
  <2>2. told = 0 => read = Len(text) /\ text = SubSeq(text, 1, read)
    BY <1>2, <1>4, <1>6, <2>1, SubSeqFull
  <2>3. told # 0 => FormatOf(text) = Told(text[told]) /\ format' = Told(text[told])
    <3> SUFFICES ASSUME told # 0
                 PROVE  FormatOf(text) = Told(text[told]) /\ format' = Told(text[told])
      OBVIOUS
    <3>1. told \in 1 .. Len(text) /\ read = told
      BY <1>4, <1>5
    <3>2. FormatOf(text) = Told(text[told])
      BY <1>4, <1>5, <3>1, FormatToldBy
    <3> DEFINE s == SubSeq(text, 1, read)
    <3>3. s \in Seq(Kinds) /\ told \in 1 .. Len(s) /\ s[told] = text[told]
          /\ \A i \in 1 .. (told - 1) : s[i] = text[i]
      BY <1>5, <1>6, <1>8, <3>1
    <3>4. format' = FormatOf(s)
      BY <1>2
    <3> HIDE DEF s
    <3>5. FormatOf(s) = Told(s[told])
      BY <1>5, <3>3, FormatToldBy
    <3> QED
      BY <3>2, <3>3, <3>4, <3>5
  <2>4. format' = FormatOf(text)
    BY <1>2, <2>2, <2>3
  <2>5. Meant' = format'
    BY <1>1, <1>3, <2>4 DEF Meant
  <2>6. Way'
    BY <1>1, <1>3, <1>10, <2>1, <2>5 DEF Way, Reading
  <2>7. Fresh'
    <3>1. room = Bufsiz /\ ~short
      BY <1>1 DEF Fresh
    <3> HIDE DEF read
    <3> QED
      BY <1>1, <1>2, <1>3, <1>9, <1>10, <2>1, <3>1 DEF Fresh
  <2>8. Detected'
    <3>1. ASSUME format' = "list"
          PROVE  /\ \A p \in 1 .. (read - 1) : text[p] # "newline"
                 /\ read < Len(text) => read > 0 /\ text[read] = "newline"
      <4>1. \A p \in 1 .. (read - 1) : text[p] # "newline"
        BY <1>7 DEF Telling
      <4>2. CASE told = 0
        BY <1>4, <2>2, <4>1, <4>2
      <4>3. CASE told # 0
        <5>1. text[told] \in {"binary", "open", "newline"} /\ read = told /\ told \in 1 .. sent
          BY <1>5, <4>3 DEF Telling
        <5>2. text[told] = "newline"
          BY <2>3, <3>1, <4>3, <5>1 DEF Told
        <5> QED
          BY <1>4, <4>1, <5>1, <5>2
      <4> QED
        BY <4>2, <4>3
    <3> HIDE DEF read
    <3> QED
      BY <1>1, <1>2, <1>3, <2>1, <3>1 DEF Detected
  <2>9. Readers' /\ Arguments'
    BY <2>1 DEF Readers, Arguments
  <2> QED
    BY <2>6, <2>7, <2>8, <2>9 DEF Steady
<1> QED
  BY <1>11, <1>13, <1>14, <1>15, <1>16 DEF PipeInv, Running

-----------------------------------------------------------------------------
(* Lines.                                                                  *)

\* What Line makes of the bytes up to the end of a line.
LEMMA LineGiven ==
  ASSUME text \in Seq(Kinds), done \in Seq(Item), pending = <<>>,
         NEW a \in 0 .. Len(text), NEW l \in a .. Len(text),
         a \notin {0, Len(text)} => text[a] = "newline",
         \A p \in (a + 1) .. l : text[p] # "newline",
         l # Len(text) => text[l + 1] = "newline",
         done = LinesTo(text)[a],
         Line(Positions(a + 1, l))
  PROVE  /\ pending' \in Seq(Item)
         /\ done \o pending' = LinesTo(text)[l]
         /\ l # Len(text) => done \o pending' = LinesTo(text)[l + 1]
         /\ outcome' = outcome
         /\ pc' \in {"line", "process"} /\ (pc' = "line" => pending' = <<>>)
<1> DEFINE item == Positions(a + 1, l)
<1>1. Len(text) \in Nat /\ a \in Nat /\ l \in Nat /\ a + 1 \in Nat \ {0} /\ a + 1 <= l + 1
      /\ l - (a + 1) + 1 = l - a
  OBVIOUS
<1>2. item \in Seq(Nat) /\ Len(item) = l - (a + 1) + 1
  BY <1>1, PositionsAre
<1>3. item = <<>> <=> l = a
  <2> HIDE DEF item
  <2> QED
    BY <1>1, <1>2, EmptySeq
<1>4. /\ LinesTo(text)[l] = IF l = a THEN LinesTo(text)[a] ELSE Append(LinesTo(text)[a], item)
      /\ l # Len(text) => LinesTo(text)[l + 1] = LinesTo(text)[l]
  BY NextLine
<1>5. IF item = <<>> THEN Goes("line") /\ UNCHANGED pending
                     ELSE Goes("process") /\ pending' = <<item>>
  BY DEF Line
<1> HIDE DEF item
<1>6. CASE l = a
  <2>1. pending' = <<>>
    BY <1>3, <1>5, <1>6
  <2>2. done \o <<>> = done
    BY ConcatEmptySeq
  <2> QED
    BY <1>3, <1>4, <1>5, <1>6, <2>1, <2>2, EmptySeq DEF Goes
<1>7. CASE l # a
  <2>1. pending' = <<item>> /\ item \in Item
    BY <1>2, <1>3, <1>5, <1>7 DEF Item
  <2>2. <<item>> \in Seq(Item)
    BY <2>1
  <2>3. Append(done, item) = done \o <<item>>
    BY <2>1, AppendIsConcat
  <2> QED
    BY <1>3, <1>4, <1>5, <1>7, <2>1, <2>2, <2>3 DEF Goes
<1> QED
  BY <1>6, <1>7

\* What the readers of lines have in common.
LEMMA LineStep ==
  ASSUME PipeInv, At("line"),
         UNCHANGED <<opts, text, sent, closed, format, buffer, room, short,
                     output, printed, done, outcome>>,
         pre' = NoBuffer, fed' \in 0 .. sent,
         pending' \in Seq(Item), done \o pending' = LinesTo(text)[fed'],
         fed' \notin {0, Len(text)} => text[fed'] = "newline",
         pc' \in {"line", "process", "finish"},
         pc' # "process" => pending' = <<>>,
         pc' = "finish" => fed' = Len(text)
  PROVE  PipeInv'
<1>1. outcome = "running" /\ pc = "line" /\ Way
  BY DEF At, Running, PipeInv, Steady
<1>2. opts.command = "input" /\ opts.source = "pipe" /\ format = "list"
  BY <1>1 DEF Way, Reading
<1>3. Types'
  BY DEF PipeInv, Types, Places, Reading, NoBuffer
<1>4. CrashCauses' /\ ListAccepted'
  BY <1>1 DEF CrashCauses, ListAccepted
<1>5. ItemsInOrder'
  BY <1>1, ItemsStay DEF PipeInv
<1>6. Attributed'
  BY OutputsStay DEF PipeInv
<1>7. Way'
  <2>1. Meant' = Meant
    BY DEF Meant
  <2> QED
    BY <1>1, <1>2, <2>1 DEF Way, Reading
<1>8. Fresh'
  BY DEF Fresh
<1>9. Detected' /\ Arguments'
  BY <1>2 DEF Detected, Arguments
<1>10. ListRead'
  BY DEF ListRead
<1>11. Readers'
  BY <1>2, <1>10 DEF Readers
<1> QED
  BY <1>3, <1>4, <1>5, <1>6, <1>7, <1>8, <1>9, <1>11 DEF PipeInv, Steady

\* The line that detection of the format has read.
LEMMA FirstLineInv ==
  ASSUME PipeInv, FirstLine
  PROVE  PipeInv'
<1>1. /\ At("line") /\ outcome = "running" /\ pc = "line" /\ Way /\ Fresh /\ Detected
      /\ pre # NoBuffer /\ pre' = NoBuffer
      /\ UNCHANGED <<opts, text, sent, closed, fed, format, buffer, room, short,
                     output, printed, done>>
  BY DEF FirstLine, At, Running, PipeInv, Steady, pipeVars
<1>t. Types
  BY DEF PipeInv
<1>2. /\ text \in Seq(Kinds) /\ Len(text) \in Nat /\ sent \in Nat /\ sent <= Len(text)
      /\ fed \in Nat /\ fed <= sent /\ fed \in 0 .. sent /\ done \in Seq(Item)
  BY <1>t DEF Types
<1>3. /\ format = "list" /\ opts.format = "none" /\ done = <<>> /\ pending = <<>>
      /\ pre = Positions(1, fed)
      /\ \A p \in 1 .. (fed - 1) : text[p] # "newline"
      /\ fed < Len(text) => fed > 0 /\ text[fed] = "newline"
  BY <1>1 DEF Way, Fresh, Detected
<1>4. /\ 1 \in Nat \ {0} /\ 1 <= fed + 1 /\ fed - 1 + 1 = fed
      /\ pre \in Seq(Nat) /\ Len(pre) = fed /\ \A k \in 1 .. fed : pre[k] = k
  <2>1. 1 \in Nat \ {0} /\ 1 <= fed + 1 /\ fed - 1 + 1 = fed
    BY <1>2
  <2>2. /\ Positions(1, fed) \in Seq(Nat) /\ Len(Positions(1, fed)) = fed - 1 + 1
        /\ \A k \in 1 .. (fed - 1 + 1) : Positions(1, fed)[k] = 1 + k - 1
    BY <1>2, <2>1, PositionsAre
  <2> QED
    BY <1>2, <1>3, <2>1, <2>2
<1>5. pre = <<>> <=> fed = 0
  BY <1>4, EmptySeq
<1>6. LinesTo(text)[0] = <<>>
  BY <1>2, LinesAre
<1>7. CASE outcome' = "rejected" /\ pre = <<>> /\ pc' = pc /\ UNCHANGED pending
  <2>1. text = <<>>
    BY <1>2, <1>3, <1>5, <1>7, EmptySeq
  <2>2. CrashCauses' /\ ListAccepted'
    BY <1>1, <1>3, <1>7, <2>1 DEF CrashCauses, ListAccepted
  <2>3. <<0>> \in Seq(Nat) /\ buffer \in Seq(Nat)
    BY <1>t DEF Types
  <2> QED
    BY <1>1, <1>2, <1>7, <2>2, <2>3, EndsInv DEF NoBuffer
<1>8. CASE pre = <<>> /\ Line(<<>>)
  <2>1. pc' = "line" /\ outcome' = outcome /\ pending' = <<>> /\ fed' = 0
    BY <1>1, <1>3, <1>5, <1>8 DEF Line, Goes
  <2>2. <<>> \o <<>> = <<>> /\ <<>> \in Seq(Item)
    BY ConcatEmptySeq, EmptySeq
  <2>3. done \o pending' = LinesTo(text)[fed']
    BY <1>3, <1>6, <2>1, <2>2
  <2> QED
    BY <1>1, <1>2, <2>1, <2>2, <2>3, LineStep
<1>9. CASE pre # <<>> /\ Line(Stripped(pre))
  <2>1. fed # 0 /\ Last(pre) = fed
    BY <1>2, <1>4, <1>5, <1>9 DEF Last
  <2> DEFINE l == IF text[fed] = "newline" THEN fed - 1 ELSE fed
  <2>2. l \in 0 .. Len(text) /\ fed \in 1 .. Len(text)
    BY <1>2, <2>1
  <2>3. Stripped(pre) = Positions(1, l)
    <3>1. CASE text[fed] = "newline"
      <4>1. SubSeq(Positions(1, fed), 1, fed - 1) = Positions(1 + 1 - 1, 1 + (fed - 1) - 1)
        <5>1. fed - 1 \in 0 .. (fed - 1 + 1) /\ 1 <= fed - 1 + 1
          BY <1>2, <2>1
        <5> QED
          BY <1>2, <1>4, <5>1, PositionsPart
      <4>2. 1 + 1 - 1 = 1 /\ 1 + (fed - 1) - 1 = fed - 1
        BY <1>2
      <4> QED
        BY <1>3, <1>4, <2>1, <3>1, <4>1, <4>2 DEF Stripped, Front
    <3>2. CASE text[fed] # "newline"
      BY <1>3, <2>1, <3>2 DEF Stripped
    <3> QED
      BY <3>1, <3>2
  <2>4. /\ \A p \in 1 .. l : text[p] # "newline"
        /\ l # Len(text) => text[l + 1] = "newline" /\ l + 1 = fed
        /\ text[fed] # "newline" => fed = Len(text)
    BY <1>2, <1>3, <2>1
  <2>5. l = fed \/ (l + 1 = fed /\ l # Len(text))
    BY <1>2, <2>1, <2>2
  <2> HIDE DEF l
  <2>6. /\ 0 \in 0 .. Len(text) /\ l \in 0 .. Len(text) /\ 0 + 1 = 1
        /\ (0 \notin {0, Len(text)} => text[0] = "newline")
    BY <1>2, <2>2
  <2>7. Line(Positions(0 + 1, l))
    BY <1>9, <2>3
  <2>8. /\ pending' \in Seq(Item)
        /\ done \o pending' = LinesTo(text)[l]
        /\ l # Len(text) => done \o pending' = LinesTo(text)[l + 1]
        /\ outcome' = outcome
        /\ pc' \in {"line", "process"} /\ (pc' = "line" => pending' = <<>>)
    BY <1>2, <1>3, <1>6, <2>4, <2>6, <2>7, LineGiven
  <2>9. done \o pending' = LinesTo(text)[fed]
    BY <2>5, <2>8
  <2>10. fed \notin {0, Len(text)} => text[fed] = "newline"
    BY <2>4
  <2> QED
    BY <1>1, <1>2, <2>8, <2>9, <2>10, LineStep
<1> QED
  BY <1>1, <1>7, <1>8, <1>9 DEF FirstLine, Ends

\* A line read, or refused because it does not fit.
LEMMA ReadLineInv ==
  ASSUME PipeInv, ReadLine
  PROVE  PipeInv'
<1> DEFINE I == {i \in (fed + 1) .. sent : text[i] = "newline"}
           e == IF I # {} THEN Min(I) ELSE 0
           last == IF e = 0 THEN sent ELSE e - 1
<1>1. /\ At("line") /\ outcome = "running" /\ pc = "line" /\ Way /\ Fresh /\ Readers
      /\ pre = NoBuffer /\ pre' = NoBuffer
      /\ UNCHANGED <<opts, text, sent, closed, format, buffer, room, short,
                     output, printed, done>>
  BY DEF ReadLine, At, Running, PipeInv, Steady, pipeVars
<1>2. /\ LineArrived(e)
      /\ fed' = IF e = 0 THEN sent ELSE e
      /\ IF TooLong(last - fed) THEN Ends("rejected") /\ UNCHANGED pending
         ELSE IF Exhausted THEN Goes("finish") /\ UNCHANGED pending
         ELSE Line(Positions(fed + 1, last))
  BY DEF ReadLine, SelectInSubSeq
<1>t. Types
  BY DEF PipeInv
<1>3. /\ text \in Seq(Kinds) /\ Len(text) \in Nat /\ sent \in Nat /\ sent <= Len(text)
      /\ fed \in Nat /\ fed <= sent /\ done \in Seq(Item)
      /\ (closed => sent = Len(text)) /\ Bufsiz \in Nat \ {0}
  BY <1>t, PipelineAssumption DEF Types
<1>4. /\ opts.source = "pipe" /\ format = "list" /\ pending = <<>>
      /\ done \o pending = LinesTo(text)[fed]
      /\ fed \notin {0, Len(text)} => text[fed] = "newline"
  BY <1>1 DEF Way, Reading, Fresh, Readers, ListRead
<1>5. /\ e \in Nat
      /\ e = 0 => \A i \in (fed + 1) .. sent : text[i] # "newline"
      /\ e # 0 => /\ e \in (fed + 1) .. sent /\ text[e] = "newline"
                  /\ \A i \in (fed + 1) .. (e - 1) : text[i] # "newline"
  <2>1. I \subseteq Nat \ {0}
    BY <1>3
  <2>2. /\ e \in Nat
        /\ e = 0 => I = {}
        /\ e # 0 => e \in I /\ \A i \in I : e <= i
    <3> HIDE DEF I
    <3> QED
      BY <2>1, FirstIs
  <2> HIDE DEF e
  <2>3. ASSUME e # 0, NEW i \in (fed + 1) .. (e - 1) PROVE text[i] # "newline"
    <3>1. e \in (fed + 1) .. sent
      BY <2>2, <2>3
    <3>2. i \in (fed + 1) .. sent /\ ~(e <= i)
      BY <1>3, <2>3, <3>1
    <3> QED
      BY <2>2, <2>3, <3>2
  <2> QED
    BY <2>2, <2>3
<1> HIDE DEF e
<1>6. /\ last \in fed .. sent /\ last \in fed .. Len(text) /\ fed \in 0 .. Len(text)
      /\ \A p \in (fed + 1) .. last : text[p] # "newline"
      /\ fed' \in 0 .. sent
  BY <1>2, <1>3, <1>5
<1>7. CASE TooLong(last - fed)
  <2>1. outcome' = "rejected" /\ UNCHANGED <<pending, pc>>
    BY <1>2, <1>7 DEF Ends
  <2>2. LongLine
    <3>1. Bufsiz <= last - fed
      BY <1>3, <1>6, <1>7 DEF TooLong
    <3> DEFINE p == fed + 1
    <3>2. p \in 1 .. Len(text) /\ p + Bufsiz - 1 <= last /\ p + Bufsiz - 1 <= Len(text)
      BY <1>3, <1>6, <3>1
    <3>3. \A q \in p .. (p + Bufsiz - 1) : text[q] # "newline"
      BY <1>3, <1>6, <3>2
    <3> HIDE DEF p
    <3> QED
      BY <1>3, <3>2, <3>3 DEF LongLine
  <2>3. LongLine'
    BY <1>1, <2>2 DEF LongLine
  <2>4. CrashCauses' /\ ListAccepted'
    BY <2>1, <2>3 DEF CrashCauses, ListAccepted
  <2>5. NoBuffer \in Seq(Nat) /\ buffer \in Seq(Nat)
    BY <1>t DEF Types, NoBuffer
  <2> QED
    BY <1>1, <1>6, <2>1, <2>4, <2>5, EndsInv
<1>8. e = 0 /\ ~TooLong(last - fed) => closed
  BY <1>2 DEF LineArrived
<1>9. ~TooLong(last - fed) => (fed' \notin {0, Len(text)} => text[fed'] = "newline")
  <2>1. CASE e = 0
    BY <1>2, <1>3, <1>8, <2>1
  <2>2. CASE e # 0
    BY <1>2, <1>5, <2>2
  <2> QED
    BY <2>1, <2>2
<1>10. CASE ~TooLong(last - fed) /\ Exhausted
  <2>1. outcome' = outcome /\ pc' = "finish" /\ pending' = <<>>
    BY <1>2, <1>4, <1>10 DEF Goes
  <2>2. fed = Len(text) /\ fed' = fed
    BY <1>2, <1>3, <1>5, <1>10 DEF Exhausted
  <2>3. pending' \in Seq(Item)
    BY <2>1, EmptySeq
  <2> QED
    BY <1>1, <1>4, <1>6, <1>9, <1>10, <2>1, <2>2, <2>3, LineStep
<1>11. CASE ~TooLong(last - fed) /\ ~Exhausted
  <2>1. Line(Positions(fed + 1, last))
    BY <1>2, <1>11
  <2>2. last # Len(text) => text[last + 1] = "newline" /\ fed' = last + 1
    BY <1>2, <1>3, <1>5, <1>8, <1>11
  <2>3. last = Len(text) => fed' = last
    BY <1>2, <1>3, <1>5, <1>8, <1>11
  <2>4. done \o <<>> = done
    BY <1>3, ConcatEmptySeq
  <2>5. done = LinesTo(text)[fed]
    BY <1>4, <2>4
  <2> HIDE DEF last
  <2>6. /\ pending' \in Seq(Item)
        /\ done \o pending' = LinesTo(text)[last]
        /\ last # Len(text) => done \o pending' = LinesTo(text)[last + 1]
        /\ outcome' = outcome
        /\ pc' \in {"line", "process"} /\ (pc' = "line" => pending' = <<>>)
    BY <1>3, <1>4, <1>6, <2>1, <2>2, <2>5, LineGiven
  <2>7. done \o pending' = LinesTo(text)[fed']
    BY <2>2, <2>3, <2>6
  <2> QED
    BY <1>1, <1>6, <1>9, <1>11, <2>6, <2>7, LineStep
<1> QED
  BY <1>7, <1>10, <1>11

-----------------------------------------------------------------------------
(* JSON.                                                                   *)

\* The first byte of b from the k-th on that is not white space.
LEMMA NextInkIs ==
  ASSUME NEW b \in Seq(Nat), NEW k \in Nat \ {0}
  PROVE  /\ NextInk(b, k) \in Nat
         /\ NextInk(b, k) = 0 => \A i \in k .. Len(b) : text[b[i]] = "newline"
         /\ NextInk(b, k) # 0 => /\ NextInk(b, k) \in k .. Len(b)
                                 /\ \A i \in k .. (NextInk(b, k) - 1) : text[b[i]] = "newline"
<1> DEFINE I == {i \in k .. Len(b) : text[b[i]] # "newline"}
           e == NextInk(b, k)
<1>1. e = IF I # {} THEN Min(I) ELSE 0
  BY DEF NextInk, SelectInSubSeq
<1>2. I \subseteq Nat \ {0} /\ Len(b) \in Nat
  OBVIOUS
<1>3. /\ e \in Nat
      /\ e = 0 => I = {}
      /\ e # 0 => e \in I /\ \A i \in I : e <= i
  <2> HIDE DEF I, e
  <2> QED
    BY <1>1, <1>2, FirstIs
<1> HIDE DEF e
<1>4. ASSUME e # 0, NEW i \in k .. (e - 1) PROVE text[b[i]] = "newline"
  <2>1. e \in k .. Len(b)
    BY <1>3, <1>4
  <2>2. i \in k .. Len(b) /\ ~(e <= i)
    BY <1>2, <1>4, <2>1
  <2> QED
    BY <1>3, <1>4, <2>2
<1>5. e = 0 => \A i \in k .. Len(b) : text[b[i]] = "newline"
  BY <1>3
<1>6. e # 0 => e \in k .. Len(b)
  BY <1>3
<1> QED
  BY <1>3, <1>4, <1>5, <1>6 DEF e

\* The end of an array is a byte of it.
LEMMA ArrayEndIs ==
  ASSUME NEW b \in Seq(Nat), ArrayEnd(b) # 0
  PROVE  ArrayEnd(b) \in 1 .. Len(b)
<1> DEFINE k == NextInk(b, 1)
           I == {i \in (k + 1) .. Len(b) : text[b[i]] \notin {"char", "newline"}}
           e == IF I # {} THEN Min(I) ELSE 0
<1>1. ArrayEnd(b) = e
  BY DEF ArrayEnd, SelectInSubSeq
<1>2. k \in Nat /\ Len(b) \in Nat
  BY NextInkIs
<1> HIDE DEF k
<1>3. I \subseteq Nat \ {0}
  BY <1>2
<1>4. e # 0 => e \in I
  <2> HIDE DEF I
  <2> QED
    BY <1>3, FirstIs
<1> HIDE DEF e
<1> QED
  BY <1>1, <1>2, <1>4

\* Arithmetic of the part of n bytes that starts behind the c-th.
LEMMA Behind ==
  ASSUME NEW n \in Nat, NEW c \in 0 .. n
  PROVE  /\ n \in Nat /\ c \in Nat /\ c <= n /\ c + 1 \in Nat \ {0} /\ c + 1 <= n + 1
         /\ n - (c + 1) + 1 = n - c /\ n - (n - c) = c
OBVIOUS

\* What the reader of JSON leaves when the run goes on.
LEMMA JsonStep ==
  ASSUME PipeInv, At("json"),
         UNCHANGED <<opts, text, sent, closed, format, room, short,
                     output, printed, done, outcome>>,
         pre' = NoBuffer, fed' \in 0 .. sent, pending' \in Seq(Item),
         NEW c \in 0 .. fed', buffer' = Positions(c + 1, fed'), fed' - c <= Bufsiz,
         done \o pending' = StringsTo(text)[c],
         \/ pc' = "process"
         \/ pc' = "finish" /\ pending' = <<>> /\ c = fed' /\ fed' = Len(text)
  PROVE  PipeInv'
<1>1. outcome = "running" /\ pc = "json" /\ Way
  BY DEF At, Running, PipeInv, Steady
<1>2. opts.command = "input" /\ opts.source = "pipe" /\ format = "json"
  BY <1>1 DEF Way, Reading
<1>3. /\ fed' \in Nat /\ c \in Nat /\ c <= fed' /\ c + 1 \in Nat \ {0} /\ c + 1 <= fed' + 1
      /\ fed' - (c + 1) + 1 = fed' - c /\ fed' - (fed' - c) = c
  <2>1. sent \in Nat
    BY DEF PipeInv, Types
  <2>2. fed' \in Nat
    BY <2>1
  <2> QED
    BY <2>2, Behind
<1>4. buffer' \in Seq(Nat) /\ Len(buffer') = fed' - c
  BY <1>3, PositionsAre
<1>5. Types'
  BY <1>4 DEF PipeInv, Types, Places, Reading, NoBuffer
<1>6. CrashCauses' /\ ListAccepted'
  BY <1>1 DEF CrashCauses, ListAccepted
<1>7. ItemsInOrder'
  BY <1>1, ItemsStay DEF PipeInv
<1>8. Attributed'
  BY OutputsStay DEF PipeInv
<1>9. Way'
  <2>1. Meant' = Meant
    BY DEF Meant
  <2> QED
    BY <1>1, <1>2, <2>1 DEF Way, Reading
<1>10. Fresh'
  BY DEF Fresh
<1>11. Detected' /\ Arguments'
  BY <1>2 DEF Detected, Arguments
<1>12. JsonRead'
  <2>1. Before' = buffer'
    BY DEF Before
  <2>2. fed' - Len(buffer') = c /\ Len(buffer') <= fed' /\ Len(buffer') <= Bufsiz
    BY <1>3, <1>4
  <2>3. pc' = "finish" => buffer' = <<>>
    BY <1>3, <1>4, EmptySeq
  <2> QED
    BY <2>1, <2>2, <2>3 DEF JsonRead
<1>13. Readers'
  BY <1>2, <1>12 DEF Readers
<1> QED
  BY <1>5, <1>6, <1>7, <1>8, <1>9, <1>10, <1>11, <1>13 DEF PipeInv, Steady

\* An array read, or refused because it is not complete.
LEMMA ReadJsonInv ==
  ASSUME PipeInv, ReadJson
  PROVE  PipeInv'
<1> DEFINE asked == Bufsiz - Len(Before)
           read  == IF sent - fed < asked THEN sent - fed ELSE asked
           b     == Before \o Positions(fed + 1, fed + read)
           e     == ArrayEnd(b)
           rest  == NextInk(b, e + 1)
           a     == fed - Len(Before)
           n     == fed + read
<1>1. /\ At("json") /\ outcome = "running" /\ pc = "json" /\ Way /\ Fresh /\ Detected /\ Readers
      /\ pre' = NoBuffer /\ JsonArrived
      /\ UNCHANGED <<opts, text, sent, closed, format, room, short,
                     output, printed, done>>
  BY DEF ReadJson, At, Running, PipeInv, Steady, pipeVars
<1>2. /\ fed' = n
      /\ IF b = <<>> THEN Goes("finish") /\ UNCHANGED <<buffer, pending>>
         ELSE IF e = 0 THEN Ends("rejected") /\ UNCHANGED <<buffer, pending>>
         ELSE /\ buffer' = IF rest = 0 THEN <<>> ELSE SubSeq(b, rest, Len(b))
              /\ pending' = Parsed(SubSeq(b, 1, e))
              /\ Goes("process")
  BY DEF ReadJson
<1>t. Types
  BY DEF PipeInv
<1>3. /\ text \in Seq(Kinds) /\ Len(text) \in Nat /\ sent \in Nat /\ sent <= Len(text)
      /\ fed \in Nat /\ fed <= sent /\ done \in Seq(Item) /\ buffer \in Seq(Nat)
      /\ (closed => sent = Len(text)) /\ Bufsiz \in Nat \ {0} /\ Before \in Seq(Nat)
  BY <1>t, PipelineAssumption DEF Types, Before
<1>4. /\ opts.source = "pipe" /\ format = "json" /\ pending = <<>> /\ Meant = "json"
      /\ Len(Before) <= fed /\ Len(Before) <= Bufsiz
      /\ Before = Positions(a + 1, fed)
      /\ done \o pending = StringsTo(text)[a]
  BY <1>1 DEF Way, Reading, Fresh, Readers, JsonRead
<1>5. /\ Len(Before) \in Nat /\ a \in Nat /\ a <= fed /\ asked \in Nat
      /\ read \in Nat /\ read <= asked /\ n \in fed .. sent /\ n - a <= Bufsiz
      /\ a + Len(Before) = fed
  BY <1>3, <1>4
<1>6. b = Positions(a + 1, n)
  <2>1. a + 1 \in Nat \ {0} /\ a + 1 <= fed + 1 /\ fed <= n /\ n \in Nat
    BY <1>3, <1>5
  <2> HIDE DEF a, n
  <2>2. Positions(a + 1, fed) \o Positions(fed + 1, n) = Positions(a + 1, n)
    BY <1>3, <2>1, PositionsJoin
  <2>3. b = Before \o Positions(fed + 1, n)
    BY DEF n
  <2> QED
    BY <1>4, <2>2, <2>3
<1>7. /\ b \in Seq(Nat) /\ Len(b) = n - a /\ \A k \in 1 .. Len(b) : b[k] = a + k
  <2>1. /\ a + 1 \in Nat \ {0} /\ n \in Nat /\ a + 1 <= n + 1 /\ n - (a + 1) + 1 = n - a
    BY <1>3, <1>5
  <2> HIDE DEF a, n
  <2>2. /\ Positions(a + 1, n) \in Seq(Nat)
        /\ Len(Positions(a + 1, n)) = n - (a + 1) + 1
        /\ \A k \in 1 .. (n - (a + 1) + 1) : Positions(a + 1, n)[k] = a + 1 + k - 1
    BY <2>1, PositionsAre
  <2>3. /\ b \in Seq(Nat) /\ Len(b) = n - a
        /\ \A k \in 1 .. (n - a) : b[k] = a + 1 + k - 1
    BY <1>6, <2>1, <2>2
  <2> HIDE DEF b
  <2>4. \A k \in 1 .. (n - a) : a + 1 + k - 1 = a + k
    BY <1>5
  <2> QED
    BY <2>3, <2>4
<1>8. done = StringsTo(text)[a]
  <2>1. done \o <<>> = done
    BY <1>3, ConcatEmptySeq
  <2> QED
    BY <1>4, <2>1
<1>9. fed' \in 0 .. sent /\ NoBuffer \in Seq(Nat)
  BY <1>2, <1>3, <1>5 DEF NoBuffer
<1>10. CASE b = <<>>
  <2>1. outcome' = outcome /\ pc' = "finish" /\ buffer' = buffer /\ pending' = pending
    BY <1>2, <1>10 DEF Goes
  <2>2. Len(b) = 0
    BY <1>10
  <2>3. n = fed /\ a = fed /\ Len(Before) = 0 /\ read = 0
    <3> HIDE DEF b, read
    <3> QED
      BY <1>3, <1>5, <1>7, <2>2
  <2>4. sent = fed /\ fed = Len(text)
    <3>1. sent - fed < asked /\ sent - fed = 0
      BY <1>3, <2>3
    <3>2. closed
      BY <1>1, <1>3, <2>3, <3>1 DEF JsonArrived
    <3> QED
      BY <1>3, <3>1, <3>2
  <2>5. Before = <<>>
    BY <1>3, <2>3, EmptySeq
  <2>6. buffer' = <<>>
    BY <1>1, <2>1, <2>5 DEF Before, Detected
  <2>7. fed' = fed
    BY <1>2, <2>3
  <2>8. Positions(fed + 1, fed) = <<>>
    <3>1. 1 .. (fed - (fed + 1) + 1) = {}
      BY <1>3
    <3>2. Positions(fed + 1, fed) = [k \in {} |-> fed + 1 + k - 1]
      BY <3>1 DEF Positions
    <3> QED
      BY <3>2
  <2>9. done \o pending' = StringsTo(text)[fed]
    BY <1>4, <2>1, <2>3
  <2>10. fed \in 0 .. fed' /\ fed' - fed <= Bufsiz /\ pending' \in Seq(Item) /\ pending' = <<>>
    BY <1>3, <1>4, <2>1, <2>7, EmptySeq
  <2> HIDE DEF b, read, asked, a, n, e, rest
  <2> QED
    BY <1>1, <1>9, <2>1, <2>4, <2>6, <2>7, <2>8, <2>9, <2>10, JsonStep
<1>11. CASE b # <<>> /\ e = 0
  <2>1. outcome' = "rejected" /\ pc' = pc /\ buffer' = buffer /\ pending' = pending
    BY <1>2, <1>11 DEF Ends
  <2>2. Meant' = "json"
    BY <1>1, <1>4 DEF Meant
  <2>3. CrashCauses' /\ ListAccepted'
    BY <2>1, <2>2 DEF CrashCauses, ListAccepted
  <2> QED
    BY <1>1, <1>3, <1>9, <2>1, <2>3, EndsInv
<1>12. CASE b # <<>> /\ e # 0
  <2>1. /\ outcome' = outcome /\ pc' = "process"
        /\ buffer' = IF rest = 0 THEN <<>> ELSE SubSeq(b, rest, Len(b))
        /\ pending' = Parsed(SubSeq(b, 1, e))
    BY <1>2, <1>12 DEF Goes
  <2>2. e \in 1 .. Len(b)
    <3> HIDE DEF b
    <3> QED
      BY <1>7, <1>12, ArrayEndIs
  <2>3. /\ rest \in Nat
        /\ rest = 0 => \A i \in (e + 1) .. Len(b) : text[b[i]] = "newline"
        /\ rest # 0 => /\ rest \in (e + 1) .. Len(b)
                       /\ \A i \in (e + 1) .. (rest - 1) : text[b[i]] = "newline"
    <3>1. e + 1 \in Nat \ {0}
      BY <1>7, <2>2
    <3> HIDE DEF b, e
    <3> QED
      BY <1>7, <3>1, NextInkIs
  <2> DEFINE c == IF rest = 0 THEN n ELSE a + rest - 1
  <2> HIDE DEF b, read, asked, a, n, e, rest
  <2>4. /\ n \in Nat /\ n <= Len(text) /\ a \in Nat /\ Len(b) \in Nat /\ e \in Nat /\ a + e \in Nat
        /\ a + Len(b) = n /\ a + e <= n
    BY <1>3, <1>5, <1>7, <2>2
  <2>5. c \in (a + e) .. n /\ c \in Nat
    BY <2>2, <2>3, <2>4
  <2>6. \A i \in (a + e + 1) .. c : text[i] # "char"
    <3> TAKE i \in (a + e + 1) .. c
    <3>1. i - a \in (e + 1) .. Len(b) /\ i - a \in 1 .. Len(b) /\ a + (i - a) = i
      BY <2>4, <2>5
    <3>2. b[i - a] = i
      BY <1>7, <3>1
    <3>3. rest # 0 => i - a \in (e + 1) .. (rest - 1)
      BY <2>3, <2>4, <3>1
    <3>4. text[b[i - a]] = "newline"
      BY <2>3, <3>1, <3>3
    <3> QED
      BY <3>2, <3>4
  <2>7. StringsTo(text)[c] = StringsTo(text)[a + e]
    <3>1. a + e \in 0 .. Len(text) /\ c \in (a + e) .. Len(text)
      BY <1>3, <2>4, <2>5
    <3> HIDE DEF c
    <3> QED
      BY <1>3, <2>6, <3>1, NoStrings
  <2>8. SubSeq(b, 1, e) = Positions(a + 1, a + e)
    <3>1. /\ a + 1 \in Nat \ {0} /\ a + 1 <= n + 1 /\ 1 \in Nat \ {0}
          /\ e \in 0 .. (n - (a + 1) + 1) /\ 1 <= e + 1
      BY <1>7, <2>2, <2>4
    <3>2. SubSeq(Positions(a + 1, n), 1, e) = Positions(a + 1 + 1 - 1, a + 1 + e - 1)
      BY <2>4, <3>1, PositionsPart
    <3>3. a + 1 + 1 - 1 = a + 1 /\ a + 1 + e - 1 = a + e
      BY <2>4
    <3> QED
      BY <1>6, <3>2, <3>3
  <2>9. /\ pending' \in Seq(Item)
        /\ StringsTo(text)[a] \o pending' = StringsTo(text)[a + e]
    <3>1. a \in 0 .. Len(text) /\ a + e \in a .. Len(text)
      BY <1>3, <2>4
    <3>2. /\ Parsed(Positions(a + 1, a + e)) \in Seq(Item)
          /\ StringsTo(text)[a] \o Parsed(Positions(a + 1, a + e)) = StringsTo(text)[a + e]
      BY <1>3, <3>1, ParsedIs
    <3> QED
      BY <2>1, <2>8, <3>2
  <2>10. buffer' = Positions(c + 1, n)
    <3>1. CASE rest = 0
      <4>1. c = n
        BY <3>1
      <4>2. 1 .. (n - (n + 1) + 1) = {}
        BY <2>4
      <4>3. Positions(n + 1, n) = [k \in {} |-> n + 1 + k - 1]
        BY <4>2 DEF Positions
      <4> QED
        BY <2>1, <3>1, <4>1, <4>3
    <3>2. CASE rest # 0
      <4>1. /\ a + 1 \in Nat \ {0} /\ a + 1 <= n + 1 /\ rest \in Nat \ {0}
            /\ Len(b) \in 0 .. (n - (a + 1) + 1) /\ rest <= Len(b) + 1
        BY <2>2, <2>3, <2>4, <3>2
      <4>2. SubSeq(Positions(a + 1, n), rest, Len(b))
              = Positions(a + 1 + rest - 1, a + 1 + Len(b) - 1)
        BY <2>4, <4>1, PositionsPart
      <4>3. a + 1 + rest - 1 = c + 1 /\ a + 1 + Len(b) - 1 = n
        BY <2>3, <2>4, <3>2
      <4> QED
        BY <1>6, <2>1, <3>2, <4>2, <4>3
    <3> QED
      BY <3>1, <3>2
  <2>11. c \in 0 .. fed' /\ fed' - c <= Bufsiz /\ buffer' = Positions(c + 1, fed')
    <3>1. n - a <= Bufsiz
      BY <1>5
    <3>2. n - c <= Bufsiz /\ c <= n
      BY <1>3, <2>4, <2>5, <3>1
    <3> HIDE DEF c
    <3> QED
      BY <1>2, <2>4, <2>5, <2>10, <3>2
  <2>12. done \o pending' = StringsTo(text)[c]
    BY <1>8, <2>7, <2>9
  <2> HIDE DEF c
  <2> QED
    BY <1>1, <1>9, <2>1, <2>9, <2>11, <2>12, JsonStep
<1> QED
  BY <1>10, <1>11, <1>12

-----------------------------------------------------------------------------
(* Binary input.                                                           *)

\* Bytes read; those that do not fit follow a short read.
LEMMA ReadBinaryInv ==
  ASSUME PipeInv, ReadBinary
  PROVE  PipeInv'
<1> DEFINE read == IF sent - fed < Bufsiz THEN sent - fed ELSE Bufsiz
           L == Len(buffer)
<1>1. /\ outcome = "running" /\ pc = "binary" /\ Way /\ Fresh /\ Readers
      /\ UNCHANGED <<opts, text, sent, closed, format, pre, pending, output, printed, done>>
      /\ sent > fed
      /\ IF L + read > room
           THEN Ends("crashed") /\ UNCHANGED <<fed, buffer, room, short>>
           ELSE /\ fed' = fed + read
                /\ buffer' = buffer \o Positions(fed + 1, fed + read)
                /\ room' = Grown(read)
                /\ short' = (short \/ read < Bufsiz)
                /\ Goes("binary")
  BY DEF ReadBinary, At, Running, PipeInv, Steady, pipeVars
<1>t. Types
  BY DEF PipeInv
<1>2. /\ text \in Seq(Kinds) /\ Len(text) \in Nat /\ sent \in Nat /\ sent <= Len(text)
      /\ fed \in Nat /\ fed <= sent /\ buffer \in Seq(Nat) /\ L \in Nat /\ room \in Nat
      /\ Bufsiz \in Nat \ {0} /\ pre \in Seq(Nat)
  BY <1>t, PipelineAssumption DEF Types
<1>3. /\ opts.source = "pipe" /\ format = "binary" /\ opts.command = "input"
      /\ BinaryRead
  BY <1>1 DEF Way, Reading, Readers
<1>4. /\ L <= fed /\ buffer = Positions(fed - L + 1, fed)
      /\ pre # NoBuffer => pre = Positions(1, fed - L)
      /\ pre = NoBuffer => L = fed
      /\ done = <<>> /\ pending = <<>>
  BY <1>3 DEF BinaryRead
<1>s. ~short => L + Bufsiz = room
  BY <1>3 DEF BinaryRead
<1>5. read \in Nat /\ read <= Bufsiz /\ fed + read <= sent /\ fed + read \in 0 .. sent
  BY <1>1, <1>2
<1>6. CASE L + read > room
  <2>1. outcome' = "crashed" /\ UNCHANGED <<fed, buffer, room, short, pc>>
    BY <1>1, <1>6 DEF Ends
  <2>2. short
    <3> HIDE DEF read, L
    <3> QED
      BY <1>2, <1>s, <1>5, <1>6
  <2>3. short'
    BY <2>1, <2>2
  <2>4. FromBinary'
    BY <1>1, <1>3 DEF FromBinary
  <2>5. CrashCauses' /\ ListAccepted'
    BY <2>1, <2>3, <2>4 DEF CrashCauses, ListAccepted
  <2>6. fed' \in 0 .. sent /\ pre' \in Seq(Nat) /\ buffer' \in Seq(Nat)
    BY <1>1, <1>2, <2>1
  <2>7. outcome' \notin {"running", "done"}
    BY <2>1
  <2> QED
    BY <1>1, <2>1, <2>5, <2>6, <2>7, EndsInv
<1>7. CASE ~(L + read > room)
  <2>1. /\ fed' = fed + read /\ room' = Grown(read)
        /\ outcome' = outcome /\ pc' = pc
        /\ buffer' = buffer \o Positions(fed + 1, fed + read)
    BY <1>1, <1>7 DEF Goes
  <2>s. short' = (short \/ read < Bufsiz)
    BY <1>1, <1>7
  <2> DEFINE a == fed - L
             n == fed + read
  <2>2. /\ a \in Nat /\ a + 1 \in Nat \ {0} /\ n \in Nat /\ a + 1 <= fed + 1 /\ fed <= n
        /\ a + 1 <= n + 1 /\ n - (a + 1) + 1 = L + read /\ n - (L + read) = a
        /\ n \in 0 .. sent
    BY <1>2, <1>4, <1>5
  <2>3. buffer' = Positions(a + 1, n)
    <3> HIDE DEF a, n
    <3>1. Positions(a + 1, fed) \o Positions(fed + 1, n) = Positions(a + 1, n)
      BY <1>2, <2>2, PositionsJoin
    <3>2. buffer' = buffer \o Positions(fed + 1, n)
      BY <2>1 DEF n
    <3>3. buffer = Positions(a + 1, fed)
      BY <1>4 DEF a
    <3> QED
      BY <3>1, <3>2, <3>3
  <2> HIDE DEF a, n
  <2>4. buffer' \in Seq(Nat) /\ Len(buffer') = L + read
    <3>1. /\ Positions(a + 1, n) \in Seq(Nat) /\ Len(Positions(a + 1, n)) = n - (a + 1) + 1
      BY <2>2, PositionsAre
    <3> QED
      BY <2>2, <2>3, <3>1
  <2>5. fed' = n /\ fed' - Len(buffer') = a
    BY <2>1, <2>2, <2>4 DEF n
  <2>6. room' \in Nat
    BY <1>2, <2>1 DEF Grown
  <2>7. Types'
    BY <1>1, <1>t, <2>1, <2>2, <2>4, <2>5, <2>6 DEF Types
  <2>8. CrashCauses' /\ ListAccepted'
    BY <1>1, <2>1 DEF CrashCauses, ListAccepted
  <2>9. ItemsInOrder'
    BY <1>1, <2>1, ItemsStay DEF PipeInv
  <2>10. Attributed'
    BY <1>1, OutputsStay DEF PipeInv
  <2>11. Way'
    <3>1. Meant' = Meant
      BY <1>1 DEF Meant
    <3> QED
      BY <1>1, <2>1, <3>1 DEF Way, Reading
  <2>12. Fresh' /\ Detected' /\ Arguments'
    BY <1>1, <2>1 DEF Fresh, Detected, Arguments
  <2>13. BinaryRead'
    <3>1. ~short' => Len(buffer') + Bufsiz = room'
      <4> SUFFICES ASSUME ~short' PROVE Len(buffer') + Bufsiz = room'
        OBVIOUS
      <4>1. ~short /\ ~(read < Bufsiz)
        BY <2>s
      <4>2. read = Bufsiz /\ L + Bufsiz = room
        BY <1>2, <1>s, <1>5, <4>1
      <4>3. room' = room + Bufsiz
        BY <2>1, <4>2 DEF Grown
      <4> QED
        BY <1>2, <2>4, <4>2, <4>3
    <3>2. Len(buffer') <= fed'
      BY <1>2, <1>4, <1>5, <2>4, <2>5 DEF n
    <3>3. buffer' = Positions(fed' - Len(buffer') + 1, fed')
      BY <2>3, <2>5
    <3>4. pre' # NoBuffer => pre' = Positions(1, fed' - Len(buffer'))
      BY <1>1, <1>4, <2>5 DEF a
    <3>5. pre' = NoBuffer => Len(buffer') = fed'
      BY <1>1, <1>4, <2>4, <2>5 DEF n
    <3> QED
      BY <1>1, <1>4, <3>1, <3>2, <3>3, <3>4, <3>5 DEF BinaryRead
  <2>14. Readers'
    BY <1>1, <1>3, <2>1, <2>13 DEF Readers
  <2> QED
    BY <2>7, <2>8, <2>9, <2>10, <2>11, <2>12, <2>14 DEF PipeInv, Steady
<1> QED
  BY <1>6, <1>7

\* All that was read is one item, if anything was.
LEMMA EndBinaryInv ==
  ASSUME PipeInv, EndBinary
  PROVE  PipeInv'
<1> DEFINE whole == IF pre # NoBuffer THEN pre \o buffer ELSE buffer
           L == Len(buffer)
<1>1. /\ outcome = "running" /\ pc = "binary" /\ Way /\ Fresh /\ Readers
      /\ UNCHANGED <<opts, text, sent, closed, fed, format, buffer, room, short,
                     output, printed, done>>
      /\ closed /\ fed = sent /\ pre' = NoBuffer
      /\ IF whole = <<>> THEN Ends("crashed") /\ UNCHANGED pending
                         ELSE Goes("process") /\ pending' = <<whole>>
  BY DEF EndBinary, Exhausted, At, Running, PipeInv, Steady, pipeVars
<1>t. Types
  BY DEF PipeInv
<1>2. /\ text \in Seq(Kinds) /\ Len(text) \in Nat
      /\ fed = Len(text) /\ buffer \in Seq(Nat) /\ L \in Nat
  BY <1>1, <1>t DEF Types
<1>3. /\ opts.source = "pipe" /\ format = "binary" /\ opts.command = "input"
      /\ BinaryRead
  BY <1>1 DEF Way, Reading, Readers
<1>4. /\ L <= fed /\ buffer = Positions(fed - L + 1, fed)
      /\ pre # NoBuffer => pre = Positions(1, fed - L)
      /\ pre = NoBuffer => L = fed
      /\ done = <<>> /\ pending = <<>>
  BY <1>3 DEF BinaryRead
<1>5. whole = Positions(1, fed)
  <2>1. CASE pre = NoBuffer
    <3>1. fed - L + 1 = 1
      BY <1>2, <1>4, <2>1
    <3> HIDE DEF L
    <3> QED
      BY <1>4, <2>1, <3>1
  <2>2. CASE pre # NoBuffer
    <3> DEFINE a == fed - L
    <3>1. a \in Nat /\ 1 \in Nat \ {0} /\ 1 <= a + 1 /\ a <= fed /\ fed \in Nat
      BY <1>2, <1>4
    <3> HIDE DEF a
    <3>2. Positions(1, a) \o Positions(a + 1, fed) = Positions(1, fed)
      BY <3>1, PositionsJoin
    <3>3. pre = Positions(1, a) /\ buffer = Positions(a + 1, fed)
      BY <1>4, <2>2 DEF a
    <3> QED
      BY <2>2, <3>2, <3>3
  <2> QED
    BY <2>1, <2>2
<1>6. whole \in Seq(Nat) /\ Len(whole) = fed
  <2>1. 1 \in Nat \ {0} /\ fed \in Nat /\ 1 <= fed + 1 /\ fed - 1 + 1 = fed
    BY <1>2
  <2>2. Positions(1, fed) \in Seq(Nat) /\ Len(Positions(1, fed)) = fed - 1 + 1
    BY <2>1, PositionsAre
  <2> HIDE DEF whole
  <2> QED
    BY <1>5, <2>1, <2>2
<1> HIDE DEF whole
<1>7. CASE whole = <<>>
  <2>1. outcome' = "crashed" /\ UNCHANGED <<pending, pc>>
    BY <1>1, <1>7 DEF Ends
  <2>2. text = <<>>
    BY <1>2, <1>6, <1>7, EmptySeq
  <2>3. FromBinary' /\ text' = <<>>
    BY <1>1, <1>3, <2>2 DEF FromBinary
  <2>4. CrashCauses' /\ ListAccepted'
    BY <2>1, <2>3 DEF CrashCauses, ListAccepted
  <2>5. fed' \in 0 .. sent /\ pre' \in Seq(Nat) /\ buffer' \in Seq(Nat)
    BY <1>1, <1>t DEF Types, NoBuffer
  <2>6. outcome' \notin {"running", "done"}
    BY <2>1
  <2> QED
    BY <1>1, <2>1, <2>4, <2>5, <2>6, EndsInv
<1>8. CASE whole # <<>>
  <2>1. outcome' = outcome /\ pc' = "process" /\ pending' = <<whole>>
    BY <1>1, <1>8 DEF Goes
  <2>2. pending' \in Seq(Item)
    <3>1. whole \in Item
      BY <1>6, <1>8 DEF Item
    <3> QED
      BY <2>1, <3>1
  <2>3. Types'
    BY <1>1, <1>t, <2>1, <2>2 DEF Types, Places, NoBuffer
  <2>4. CrashCauses' /\ ListAccepted'
    BY <1>1, <2>1 DEF CrashCauses, ListAccepted
  <2>5. ItemsInOrder'
    BY <1>1, <2>1, ItemsStay DEF PipeInv
  <2>6. Attributed'
    BY <1>1, OutputsStay DEF PipeInv
  <2>7. Way'
    <3>1. Meant' = Meant
      BY <1>1 DEF Meant
    <3> QED
      BY <1>1, <1>3, <2>1, <3>1 DEF Way, Reading
  <2>8. Fresh' /\ Detected' /\ Arguments'
    BY <1>1, <1>3, <2>1 DEF Fresh, Detected, Arguments
  <2>9. Readers'
    <3>1. <<>> \o pending' = pending'
      BY <2>2, ConcatEmptySeq
    <3>2. done' \o pending' = <<Positions(1, Len(text))>>
      BY <1>1, <1>2, <1>4, <1>5, <2>1, <3>1
    <3> QED
      BY <1>1, <1>3, <2>1, <3>2 DEF Readers
  <2> QED
    BY <2>3, <2>4, <2>5, <2>6, <2>7, <2>8, <2>9 DEF PipeInv, Steady
<1> QED
  BY <1>7, <1>8

-----------------------------------------------------------------------------
(* The command and its output.                                             *)

\* What is left of a concatenation when its first element moves over.
LEMMA MoveOver ==
  ASSUME NEW S, NEW s \in Seq(S), NEW t \in Seq(S), t # <<>>
  PROVE  /\ Head(t) \in S /\ Tail(t) \in Seq(S)
         /\ Append(s, Head(t)) \in Seq(S)
         /\ Append(s, Head(t)) \o Tail(t) = s \o t
<1>1. Head(t) \in S /\ Tail(t) \in Seq(S)
  BY HeadTailProperties
<1>2. Append(s, Head(t)) = s \o <<Head(t)>> /\ Append(s, Head(t)) \in Seq(S)
  BY <1>1, AppendIsConcat, AppendProperties
<1>3. <<Head(t)>> \in Seq(S)
  BY <1>1
<1>4. (s \o <<Head(t)>>) \o Tail(t) = s \o (<<Head(t)>> \o Tail(t))
  BY <1>1, <1>3, ConcatAssociative
<1>5. <<Head(t)>> \o Tail(t) = t
  OBVIOUS
<1> QED
  BY <1>1, <1>2, <1>4, <1>5

\* All the items there are at this point of the run, as far as they are read.
LEMMA AllBegin ==
  ASSUME PipeInv, Running, pc = "process"
  PROVE  /\ opts.command = "input"
         /\ Items(text, Meant) \in Seq(Seq(Nat))
         /\ Begins(done \o pending, Items(text, Meant))
<1>1. Types /\ Way /\ Fresh /\ Readers /\ Arguments
  BY DEF PipeInv, Steady
<1>2. opts.command = "input" /\ pre = NoBuffer
  BY <1>1 DEF Way, Fresh
<1>3. text \in Seq(Kinds) /\ Len(text) \in Nat /\ fed \in 0 .. Len(text) /\ Len(text) \in 0 .. Len(text)
  BY <1>1 DEF Types
<1>4. Items(text, Meant) \in Seq(Seq(Nat))
  BY <1>1, <1>3, MeantIs, ItemsAre
<1>5. opts.source \in {"arguments", "pipe"} /\ format \in {"none", "binary", "list", "json"}
  BY <1>1 DEF Types, Options, Formats
<1>6. CASE opts.source = "arguments"
  <2>1. Meant = "list"
    BY <1>6 DEF Meant
  <2>2. done \o pending = Lines(text)
    BY <1>1, <1>2, <1>6 DEF Arguments
  <2>3. Items(text, Meant) = Lines(text)
    BY <2>1 DEF Items
  <2>4. Begins(Lines(text), Lines(text))
    BY <1>3, LinesAre
  <2> QED
    BY <1>2, <1>4, <2>2, <2>3, <2>4
<1>7. CASE opts.source = "pipe" /\ format = "list"
  <2>1. Meant = "list"
    BY <1>1, <1>7 DEF Way
  <2>2. done \o pending = LinesTo(text)[fed]
    BY <1>1, <1>2, <1>7 DEF Readers, ListRead
  <2>3. Items(text, Meant) = Lines(text)
    BY <2>1 DEF Items
  <2>4. Begins(LinesTo(text)[fed], Lines(text))
    BY <1>3, LinesAre
  <2> QED
    BY <1>2, <1>4, <2>2, <2>3, <2>4
<1>8. CASE opts.source = "pipe" /\ format = "json"
  <2>1. Meant = "json"
    BY <1>1, <1>8 DEF Way
  <2>2. done \o pending = StringsTo(text)[fed - Len(Before)] /\ Len(Before) <= fed
    BY <1>1, <1>8 DEF Readers, JsonRead
  <2>3. Items(text, Meant) = Strings(text)
    BY <2>1 DEF Items
  <2>4. fed - Len(Before) \in 0 .. Len(text)
    <3>1. Len(Before) \in Nat
      BY <1>1 DEF Types, Before
    <3> QED
      BY <1>3, <2>2, <3>1
  <2>5. Begins(StringsTo(text)[fed - Len(Before)], Strings(text))
    BY <1>3, <2>4, StringsAre
  <2> QED
    BY <1>2, <1>4, <2>2, <2>3, <2>5
<1>9. CASE opts.source = "pipe" /\ format = "binary"
  <2>1. Meant = "binary"
    BY <1>1, <1>9 DEF Way
  <2>2. done \o pending = <<Positions(1, Len(text))>>
    BY <1>1, <1>9 DEF Readers
  <2>3. Items(text, Meant) = <<Positions(1, Len(text))>>
    BY <2>1 DEF Items
  <2> DEFINE s == Items(text, Meant)
  <2>4. s \in Seq(Seq(Nat)) /\ done \o pending = s
    BY <1>4, <2>2, <2>3
  <2> HIDE DEF s
  <2>5. Begins(s, s)
    BY <2>4 DEF Begins
  <2>6. Begins(done \o pending, s)
    BY <2>4, <2>5
  <2> QED
    BY <1>2, <1>4, <2>6 DEF s
<1>10. opts.source = "pipe" => format # "none"
  BY <1>1 DEF Way
<1> QED
  BY <1>5, <1>6, <1>7, <1>8, <1>9, <1>10

\* What the outputs of items in order have to be.
Follow(made, from, attached) ==
  /\ \A k \in DOMAIN made : made[k].input \in {NoInput, made[k].of}
  /\ attached => \A k \in DOMAIN made : made[k].input # NoInput
  /\ \A k \in DOMAIN made : \E x \in DOMAIN from : made[k].of = from[x]
  /\ \A j, k \in DOMAIN made : j < k =>
       \E x, y \in DOMAIN from :
         x <= y /\ made[j].of = from[x] /\ made[k].of = from[y]

LEMMA AttributedIs ==
  Attributed <=> (opts.command = "input" => Follow(Produced, done, ~FromBinary))
BY DEF Attributed, OutputsFollowItems, OutputsHaveItems, Follow

\* The outputs of one more item follow those before.
LEMMA FollowOn ==
  ASSUME NEW made \in Seq(Made), NEW more \in Seq(Made), NEW from \in Seq(Item),
         NEW item \in Item, NEW attached \in BOOLEAN, Follow(made, from, attached),
         \A k \in DOMAIN more : /\ more[k].of = item
                                /\ more[k].input = IF attached THEN item ELSE NoInput
  PROVE  Follow(made \o more, Append(from, item), attached)
<1> DEFINE all == made \o more
           to  == Append(from, item)
           N   == Len(made)
           M   == Len(from)
<1>1. /\ N \in Nat /\ M \in Nat /\ Len(more) \in Nat
      /\ DOMAIN made = 1 .. N /\ DOMAIN more = 1 .. Len(more) /\ DOMAIN from = 1 .. M
  OBVIOUS
<1>2. /\ all \in Seq(Made) /\ Len(all) = N + Len(more)
      /\ \A k \in 1 .. N + Len(more) :
           all[k] = IF k <= N THEN made[k] ELSE more[k - N]
  BY ConcatProperties
<1>3. /\ to \in Seq(Item) /\ Len(to) = M + 1 /\ to[M + 1] = item
      /\ \A x \in 1 .. M : to[x] = from[x]
  BY AppendProperties
<1> HIDE DEF all, to, N, M
<1>4. DOMAIN all = 1 .. N + Len(more) /\ DOMAIN to = 1 .. M + 1
  BY <1>2, <1>3
<1>5. ASSUME NEW k \in DOMAIN all
      PROVE  \/ k \in DOMAIN made /\ all[k] = made[k]
             \/ /\ k \notin DOMAIN made /\ all[k].of = item
                /\ all[k].input = IF attached THEN item ELSE NoInput
  <2>1. CASE k <= N
    BY <1>1, <1>2, <1>4, <2>1
  <2>2. CASE ~(k <= N)
    <3>1. k - N \in DOMAIN more /\ all[k] = more[k - N] /\ k \notin DOMAIN made
      BY <1>1, <1>2, <1>4, <2>2
    <3> QED
      BY <3>1
  <2> QED
    BY <2>1, <2>2
<1>6. item # NoInput
  BY DEF Item, NoInput
<1>7. \A x \in DOMAIN from : x \in DOMAIN to /\ to[x] = from[x] /\ x <= M + 1
  BY <1>1, <1>3, <1>4
<1>8. M + 1 \in DOMAIN to /\ M + 1 <= M + 1
  BY <1>1, <1>4
<1>9. \A k \in DOMAIN all : all[k].input \in {NoInput, all[k].of}
  BY <1>5 DEF Follow
<1>10. attached => \A k \in DOMAIN all : all[k].input # NoInput
  BY <1>5, <1>6 DEF Follow
<1>11. \A k \in DOMAIN all : \E x \in DOMAIN to : all[k].of = to[x]
  <2> TAKE k \in DOMAIN all
  <2>1. CASE k \in DOMAIN made
    <3>1. all[k] = made[k]
      BY <1>5, <2>1
    <3>2. PICK x \in DOMAIN from : made[k].of = from[x]
      BY <2>1 DEF Follow
    <3> QED
      BY <1>7, <3>1, <3>2
  <2>2. CASE k \notin DOMAIN made
    BY <1>3, <1>5, <1>8, <2>2
  <2> QED
    BY <2>1, <2>2
<1>12. ASSUME NEW j \in DOMAIN all, NEW k \in DOMAIN all, j < k
       PROVE  \E x, y \in DOMAIN to : x <= y /\ all[j].of = to[x] /\ all[k].of = to[y]
  <2>1. CASE k \in DOMAIN made
    <3>1. j \in DOMAIN made /\ all[j] = made[j] /\ all[k] = made[k]
      BY <1>1, <1>4, <1>5, <1>12, <2>1
    <3>2. PICK x, y \in DOMAIN from : x <= y /\ made[j].of = from[x] /\ made[k].of = from[y]
      BY <1>12, <2>1, <3>1 DEF Follow
    <3> QED
      BY <1>7, <3>1, <3>2
  <2>2. CASE k \notin DOMAIN made
    <3>1. all[k].of = to[M + 1]
      BY <1>3, <1>5, <2>2
    <3>2. CASE j \in DOMAIN made
      <4>1. all[j] = made[j]
        BY <1>5, <3>2
      <4>2. PICK x \in DOMAIN from : made[j].of = from[x]
        BY <3>2 DEF Follow
      <4> QED
        BY <1>7, <1>8, <3>1, <4>1, <4>2
    <3>3. CASE j \notin DOMAIN made
      <4>1. all[j].of = to[M + 1]
        BY <1>3, <1>5, <3>3
      <4> QED
        BY <1>8, <3>1, <4>1
    <3> QED
      BY <3>2, <3>3
  <2> QED
    BY <2>1, <2>2
<1> QED
  BY <1>9, <1>10, <1>11, <1>12 DEF Follow, all, to

\* Fewer outputs of the items.
LEMMA FollowLess ==
  ASSUME NEW made \in Seq(Made), NEW more \in Seq(Made), NEW from, NEW attached \in BOOLEAN,
         Follow(made \o more, from, attached)
  PROVE  Follow(made, from, attached)
<1> DEFINE all == made \o more
           N   == Len(made)
<1>1. N \in Nat /\ Len(more) \in Nat /\ DOMAIN made = 1 .. N
  OBVIOUS
<1>2. /\ all \in Seq(Made) /\ Len(all) = N + Len(more)
      /\ \A k \in 1 .. N + Len(more) :
           all[k] = IF k <= N THEN made[k] ELSE more[k - N]
  BY ConcatProperties
<1>3. Follow(all, from, attached)
  OBVIOUS
<1> HIDE DEF all, N
<1>4. DOMAIN all = 1 .. N + Len(more)
  BY <1>2
<1>5. \A k \in DOMAIN made : k \in DOMAIN all /\ all[k] = made[k]
  BY <1>1, <1>2, <1>4
<1> QED
  BY <1>3, <1>5 DEF Follow

\* Outputs with their items can be printed, also with --trace.
LEMMA FollowPrintable ==
  ASSUME NEW made \in Seq(Made), NEW more \in Seq(Made), NEW from,
         Follow(made \o more, from, TRUE)
  PROVE  Printable(more)
<1> DEFINE all == made \o more
           N   == Len(made)
<1>1. N \in Nat /\ Len(more) \in Nat /\ DOMAIN more = 1 .. Len(more)
  OBVIOUS
<1>2. /\ all \in Seq(Made) /\ Len(all) = N + Len(more)
      /\ \A k \in 1 .. N + Len(more) :
           all[k] = IF k <= N THEN made[k] ELSE more[k - N]
  BY ConcatProperties
<1>3. Follow(all, from, TRUE)
  OBVIOUS
<1> HIDE DEF all, N
<1>4. ASSUME NEW k \in DOMAIN more PROVE more[k].input # NoInput
  <2>1. k + N \in 1 .. N + Len(more) /\ ~(k + N <= N) /\ k + N - N = k
    BY <1>1, <1>4
  <2>2. DOMAIN all = 1 .. N + Len(more)
    BY <1>2
  <2> DEFINE i == k + N
  <2>3. i \in 1 .. N + Len(more) /\ ~(i <= N) /\ i - N = k
    BY <1>1, <1>4, <2>1
  <2> HIDE DEF i
  <2>i. all[i] = more[i - N]
    BY <1>2, <2>3
  <2>4. all[k + N] = more[k]
    BY <2>3, <2>i DEF i
  <2>5. k + N \in DOMAIN all /\ all[k + N] = more[k]
    BY <2>1, <2>2, <2>4
  <2> QED
    BY <1>3, <2>5 DEF Follow
<1> QED
  BY <1>4 DEF Printable

\* What the outputs of an item are, with the item attached or not.
LEMMA OutputsAre ==
  ASSUME NEW item \in Item, NEW n \in Nat, output \in Seq(Made), NEW attached \in BOOLEAN
  PROVE  \E more \in Seq(Made) :
           /\ (IF attached THEN Attached(output \o Outputs(item, n), item, Len(output))
                           ELSE output \o Outputs(item, n)) = output \o more
           /\ Len(more) = n
           /\ \A k \in DOMAIN more : /\ more[k].of = item
                                     /\ more[k].input = IF attached THEN item ELSE NoInput
<1> DEFINE plain == Outputs(item, n)
           with  == [k \in 1 .. n |-> [of |-> item, input |-> item]]
           out   == output \o plain
           N     == Len(output)
<1>0. item \in Seq(Nat) /\ NoInput \in Seq(Nat)
  BY DEF Item, NoInput
<1>1. /\ plain \in Seq(Made) /\ Len(plain) = n
      /\ \A k \in 1 .. n : plain[k] = [of |-> item, input |-> NoInput]
  <2>1. plain \in [1 .. n -> Made]
    BY <1>0 DEF Outputs, Made
  <2>2. \A k \in 1 .. n : plain[k] = [of |-> item, input |-> NoInput]
    BY DEF Outputs
  <2> HIDE DEF plain
  <2> QED
    BY <2>1, <2>2, SequenceIs
<1>2. /\ with \in Seq(Made) /\ Len(with) = n
      /\ \A k \in 1 .. n : with[k] = [of |-> item, input |-> item]
  <2>1. with \in [1 .. n -> Made]
    BY <1>0 DEF Made
  <2>2. \A k \in 1 .. n : with[k] = [of |-> item, input |-> item]
    OBVIOUS
  <2> HIDE DEF with
  <2> QED
    BY <2>1, <2>2, SequenceIs
<1>3. CASE ~attached
  <2>1. \A k \in DOMAIN plain : plain[k].of = item /\ plain[k].input = NoInput
    <3> HIDE DEF plain
    <3> QED
      BY <1>1
  <2> QED
    BY <1>1, <1>3, <2>1
<1>4. CASE attached
  <2> HIDE DEF plain, with
  <2>0. N \in Nat
    OBVIOUS
  <2>1. /\ out \in Seq(Made) /\ Len(out) = N + n
        /\ \A k \in 1 .. N + n : out[k] = IF k <= N THEN output[k] ELSE plain[k - N]
    BY <1>1, ConcatProperties
  <2>2. /\ output \o with \in Seq(Made) /\ Len(output \o with) = N + n
        /\ \A k \in 1 .. N + n :
             (output \o with)[k] = IF k <= N THEN output[k] ELSE with[k - N]
    BY <1>2, ConcatProperties
  <2> DEFINE given == Attached(out, item, N)
             goal  == output \o with
  <2>3. given = [k \in 1 .. N + n |->
                   IF k > N THEN [out[k] EXCEPT !.input = item] ELSE out[k]]
    <3>1. DOMAIN out = 1 .. N + n
      BY <2>1
    <3> HIDE DEF out, N
    <3> QED
      BY <3>1 DEF Attached
  <2> HIDE DEF out, N, given, goal
  <2>4. ASSUME NEW k \in 1 .. N + n
        PROVE  given[k] = goal[k]
    <3>1. CASE k <= N
      BY <2>0, <2>2, <2>1, <2>3, <3>1 DEF goal
    <3>2. CASE ~(k <= N)
      <4>1. k - N \in 1 .. n
        BY <2>0, <3>2
      <4>2. out[k] = [of |-> item, input |-> NoInput]
        BY <1>1, <2>1, <3>2, <4>1
      <4>3. given[k] = [of |-> item, input |-> item]
        BY <2>0, <2>3, <3>2, <4>2
      <4>4. goal[k] = [of |-> item, input |-> item]
        BY <1>2, <2>2, <3>2, <4>1 DEF goal
      <4> QED
        BY <4>3, <4>4
    <3> QED
      BY <3>1, <3>2
  <2>5. given = goal
    <3>1. goal \in Seq(Made) /\ Len(goal) = N + n
      BY <2>2 DEF goal
    <3>2. goal = [k \in 1 .. N + n |-> goal[k]]
      BY <3>1
    <3>3. given = [k \in 1 .. N + n |-> given[k]]
      BY <2>3
    <3> QED
      BY <2>4, <3>2, <3>3
  <2>6. \A k \in DOMAIN with : with[k].of = item /\ with[k].input = item
    BY <1>2
  <2>7. Attached(output \o Outputs(item, n), item, Len(output)) = output \o with
    BY <2>5 DEF given, goal, out, N, plain
  <2> QED
    BY <1>2, <1>4, <2>6, <2>7
<1> QED
  BY <1>3, <1>4

\* An item handed on, with its outputs printed or kept.
LEMMA ProcessItemInv ==
  ASSUME PipeInv, ProcessItem
  PROVE  PipeInv'
<1> DEFINE item == Head(pending)
<1>1. /\ outcome = "running" /\ pc = "process" /\ Running /\ Steady /\ pending # <<>>
      /\ done' = Append(done, item) /\ pending' = Tail(pending)
      /\ UNCHANGED <<opts, text, sent, closed, fed, format, pre, buffer, room, short, pc>>
  BY DEF ProcessItem, At, Running, PipeInv, pipeVars, readerVars
<1>t. Types
  BY DEF PipeInv
<1>2. PICK n \in 1 .. MaxOutputs :
        LET out == output \o Outputs(item, n)
            all == IF FromBinary THEN out ELSE Attached(out, item, Len(output))
        IN IF opts.stream THEN PrintOutput(all)
                          ELSE output' = all /\ UNCHANGED <<printed, outcome>>
  BY DEF ProcessItem
<1>3. /\ done \in Seq(Item) /\ pending \in Seq(Item)
      /\ output \in Seq(Made) /\ printed \in Seq(Made)
      /\ text \in Seq(Kinds) /\ n \in Nat /\ <<>> \in Seq(Made)
  BY <1>t, PipelineAssumption, EmptySeq DEF Types
<1>4. /\ item \in Item /\ done' \in Seq(Item) /\ pending' \in Seq(Item)
      /\ done' \o pending' = done \o pending
  <2>1. pending # <<>> /\ done' = Append(done, Head(pending)) /\ pending' = Tail(pending)
    BY <1>1
  <2>2. done \in Seq(Item) /\ pending \in Seq(Item)
    BY <1>3
  <2>3. /\ Head(pending) \in Item /\ Tail(pending) \in Seq(Item)
        /\ Append(done, Head(pending)) \in Seq(Item)
        /\ Append(done, Head(pending)) \o Tail(pending) = done \o pending
    BY ONLY <2>1, <2>2, MoveOver
  <2> QED
    BY ONLY <2>1, <2>3
<1>5. /\ opts.command = "input"
      /\ Items(text, Meant) \in Seq(Seq(Nat))
      /\ Begins(done \o pending, Items(text, Meant))
  BY <1>1, AllBegin
<1>m. Meant' = Meant /\ Before' = Before /\ FromBinary' = FromBinary
  BY <1>1 DEF Meant, Before, FromBinary
<1> DEFINE attached == ~FromBinary
<1>6. PICK more \in Seq(Made) :
        /\ (IF attached THEN Attached(output \o Outputs(item, n), item, Len(output))
                        ELSE output \o Outputs(item, n)) = output \o more
        /\ Len(more) = n
        /\ \A k \in DOMAIN more : /\ more[k].of = item
                                  /\ more[k].input = IF attached THEN item ELSE NoInput
  <2>1. attached \in BOOLEAN
    OBVIOUS
  <2> HIDE DEF attached, item
  <2> QED
    BY <1>3, <1>4, <2>1, OutputsAre
<1> HIDE DEF item
<1>7. IF opts.stream THEN PrintOutput(output \o more)
                     ELSE output' = output \o more /\ UNCHANGED <<printed, outcome>>
  BY <1>2, <1>6
<1> HIDE DEF attached
<1>8. /\ output \o more \in Seq(Made) /\ printed \o output \in Seq(Made)
      /\ printed \o (output \o more) \in Seq(Made)
      /\ (printed \o output) \o more = printed \o (output \o more)
      /\ (printed \o (output \o more)) \o <<>> = printed \o (output \o more)
      /\ printed \o <<>> = printed
  <2>1. output \o more \in Seq(Made) /\ printed \o output \in Seq(Made)
    BY <1>3, <1>6, ConcatProperties
  <2>2. printed \o (output \o more) \in Seq(Made)
    BY <1>3, <2>1, ConcatProperties
  <2>3. (printed \o output) \o more = printed \o (output \o more)
    <3>1. printed \in Seq(Made) /\ output \in Seq(Made) /\ more \in Seq(Made)
      BY <1>3
    <3> QED
      BY <3>1, ConcatAssociative
  <2>4. (printed \o (output \o more)) \o <<>> = printed \o (output \o more)
    BY <2>2, ConcatEmptySeq
  <2>5. printed \o <<>> = printed
    BY <1>3, ConcatEmptySeq
  <2> QED
    BY <2>1, <2>2, <2>3, <2>4, <2>5
<1>9. Follow(printed \o (output \o more), done', attached)
  <2>1. Follow(printed \o output, done, attached)
    BY <1>5, AttributedIs DEF PipeInv, Produced, attached
  <2>2. attached \in BOOLEAN
    BY DEF attached
  <2>3. \A k \in DOMAIN more : /\ more[k].of = item
                               /\ more[k].input = IF attached THEN item ELSE NoInput
    BY <1>6
  <2>4. Follow((printed \o output) \o more, Append(done, item), attached)
    BY <1>3, <1>4, <1>6, <1>8, <2>1, <2>2, <2>3, FollowOn
  <2> QED
    BY <1>1, <1>8, <2>4 DEF item
<1>10. \/ /\ output' = <<>> /\ printed' = printed \o (output \o more) /\ outcome' = outcome
       \/ /\ output' = <<>> /\ printed' = printed /\ outcome' = "crashed"
          /\ ~Printable(output \o more)
       \/ /\ output' = output \o more /\ printed' = printed /\ outcome' = outcome
  BY <1>7 DEF PrintOutput
<1>11. Types'
  <2>1. output' \in Seq(Made) /\ printed' \in Seq(Made)
    BY <1>3, <1>8, <1>10
  <2> QED
    BY <1>1, <1>4, <1>t, <2>1 DEF Types
<1>12. CrashCauses' /\ ListAccepted'
  <2>1. CASE outcome' = outcome
    BY <1>1, <2>1 DEF CrashCauses, ListAccepted
  <2>2. CASE outcome' = "crashed" /\ ~Printable(output \o more)
    <3>1. attached # TRUE
      BY <1>3, <1>8, <1>9, <2>2, FollowPrintable
    <3>2. FromBinary /\ opts.trace
      BY <2>2, <3>1 DEF attached, Printable
    <3>3. FromBinary' /\ opts'.trace
      BY <1>1, <1>m, <3>2
    <3> QED
      BY <2>2, <3>3 DEF CrashCauses, ListAccepted
  <2> QED
    BY <1>10, <2>1, <2>2
<1>13. ItemsInOrder'
  <2>1. done' \in Seq(Seq(Nat)) /\ pending' \in Seq(Seq(Nat))
    <3>1. Item \subseteq Seq(Nat)
      BY DEF Item
    <3> QED
      BY <1>4, <3>1, SeqMonotonic
  <2>2. Begins(done' \o pending', Items(text, Meant))
    BY <1>4, <1>5
  <2> DEFINE d == done'
             p == pending'
             i == Items(text, Meant)
  <2>3. d \in Seq(Seq(Nat)) /\ p \in Seq(Seq(Nat)) /\ i \in Seq(Seq(Nat)) /\ Begins(d \o p, i)
    BY <1>5, <2>1, <2>2
  <2> HIDE DEF d, p, i
  <2>4. Begins(d, i)
    BY <2>3, BeginsOn
  <2>5. IsPrefix(d, i)
    BY <2>3, <2>4, PrefixIs
  <2>6. IsPrefix(done', Items(text, Meant)) /\ outcome' # "done"
    BY <1>1, <1>10, <2>5 DEF d, i
  <2> QED
    BY <1>1, <1>m, <2>6 DEF ItemsInOrder
<1>14. Attributed'
  <2>1. Follow(Produced', done', attached)
    <3>1. CASE printed' = printed \o (output \o more) /\ output' = <<>>
      <4>1. Produced' = printed \o (output \o more)
        BY <1>8, <3>1 DEF Produced
      <4> QED
        BY <1>9, <4>1
    <3>2. CASE printed' = printed /\ output' = output \o more
      <4>1. Produced' = printed \o (output \o more)
        BY <3>2 DEF Produced
      <4> QED
        BY <1>9, <4>1
    <3>3. CASE printed' = printed /\ output' = <<>>
      <4>1. Produced' = printed
        BY <1>8, <3>3 DEF Produced
      <4>2. attached \in BOOLEAN
        BY DEF attached
      <4> DEFINE to == done'
                 new == output \o more
      <4>3. Follow(printed \o new, to, attached) /\ new \in Seq(Made)
        BY <1>8, <1>9
      <4> HIDE DEF to, new
      <4>4. Follow(printed, to, attached)
        BY <1>3, <4>2, <4>3, FollowLess
      <4> QED
        BY <4>1, <4>4 DEF to
    <3> QED
      BY <1>10, <3>1, <3>2, <3>3
  <2>2. Follow(Produced', done', ~FromBinary')
    BY <1>m, <2>1 DEF attached
  <2> QED
    BY <2>2 DEF Attributed, OutputsFollowItems, OutputsHaveItems, Follow
<1>15. Way' /\ Fresh' /\ Detected' /\ Readers' /\ Arguments'
  <2>1. Way'
    BY <1>1, <1>m DEF Steady, Way
  <2>2. Fresh' /\ Detected'
    BY <1>1 DEF Steady, Fresh, Detected
  <2>3. Arguments'
    BY <1>1, <1>4 DEF Steady, Arguments
  <2>4. Readers'
    BY <1>1, <1>4, <1>m DEF Steady, Readers, ListRead, JsonRead
  <2> QED
    BY <2>1, <2>2, <2>3, <2>4
<1> QED
  BY <1>11, <1>12, <1>13, <1>14, <1>15 DEF PipeInv, Steady

\* The items handed on at the end.
LEMMA AllDone ==
  ASSUME PipeInv, Running, pc = "finish", opts.command = "input"
  PROVE  done = Items(text, Meant)
<1>1. Types /\ Way /\ Fresh /\ Readers /\ Arguments
  BY DEF PipeInv, Steady
<1>2. done \in Seq(Item) /\ pending = <<>> /\ text \in Seq(Kinds) /\ Len(text) \in Nat
  BY <1>1 DEF Types, Fresh
<1>3. done \o pending = done
  BY <1>2, ConcatEmptySeq
<1>4. opts.source \in {"arguments", "pipe"} /\ format \in {"none", "binary", "list", "json"}
  BY <1>1 DEF Types, Options, Formats
<1>5. CASE opts.source = "arguments"
  <2>1. Meant = "list"
    BY <1>5 DEF Meant
  <2>2. done = Lines(text)
    BY <1>1, <1>3, <1>5 DEF Arguments
  <2> QED
    BY <2>1, <2>2 DEF Items
<1>6. CASE opts.source = "pipe" /\ format = "list"
  <2>1. Meant = "list"
    BY <1>1, <1>6 DEF Way
  <2>2. pre = NoBuffer
    BY <1>1 DEF Fresh
  <2>3. done = LinesTo(text)[Len(text)]
    BY <1>1, <1>3, <1>6, <2>2 DEF Readers, ListRead
  <2>4. Lines(text) = LinesTo(text)[Len(text)]
    BY <1>2, LinesAre
  <2> QED
    BY <2>1, <2>3, <2>4 DEF Items
<1>7. CASE opts.source = "pipe" /\ format = "json"
  <2>1. Meant = "json"
    BY <1>1, <1>7 DEF Way
  <2>2. /\ done \o pending = StringsTo(text)[fed - Len(Before)]
        /\ fed = Len(text) /\ Before = <<>>
    BY <1>1, <1>7 DEF Readers, JsonRead
  <2>3. Len(<<>>) = 0 /\ Len(text) - 0 = Len(text)
    BY <1>2
  <2>4. done = StringsTo(text)[Len(text)]
    BY <1>3, <2>2, <2>3
  <2>5. Strings(text) = StringsTo(text)[Len(text)]
    BY <1>2, StringsAre
  <2> QED
    BY <2>1, <2>4, <2>5 DEF Items
<1>8. CASE opts.source = "pipe" /\ format = "binary"
  <2>1. Meant = "binary"
    BY <1>1, <1>8 DEF Way
  <2>2. done = <<Positions(1, Len(text))>>
    BY <1>1, <1>3, <1>8 DEF Readers
  <2> QED
    BY <2>1, <2>2 DEF Items
<1>9. opts.source = "pipe" => format # "none"
  BY <1>1 DEF Way
<1> QED
  BY <1>4, <1>5, <1>6, <1>7, <1>8, <1>9

\* Outputs printed stay what they are.
LEMMA PrintedIs ==
  ASSUME Types
  PROVE  /\ printed \in Seq(Made) /\ output \in Seq(Made) /\ <<>> \in Seq(Made)
         /\ printed \o output \in Seq(Made)
         /\ (printed \o output) \o <<>> = printed \o output
         /\ printed \o <<>> = printed
<1>1. printed \in Seq(Made) /\ output \in Seq(Made) /\ <<>> \in Seq(Made)
  BY DEF Types
<1>2. printed \o output \in Seq(Made)
  BY <1>1, ConcatProperties
<1>3. (printed \o output) \o <<>> = printed \o output
  BY <1>2, ConcatEmptySeq
<1>4. printed \o <<>> = printed
  BY <1>1, ConcatEmptySeq
<1> QED
  BY <1>1, <1>2, <1>3, <1>4

\* The outputs of items not from binary input can be printed.
LEMMA OutputPrintable ==
  ASSUME PipeInv, opts.command = "input", ~FromBinary
  PROVE  Printable(output)
<1>1. Follow(printed \o output, done, TRUE)
  BY AttributedIs DEF PipeInv, Produced
<1>2. printed \in Seq(Made) /\ output \in Seq(Made)
  BY DEF PipeInv, Types
<1> QED
  BY <1>1, <1>2, FollowPrintable

\* The end of the items of one read.
LEMMA NoMoreItemsInv ==
  ASSUME PipeInv, NoMoreItems
  PROVE  PipeInv'
<1>1. /\ outcome = "running" /\ pc = "process" /\ Steady /\ pending = <<>>
      /\ UNCHANGED <<opts, text, sent, closed, fed, format, pre, buffer, room, short,
                     pending, done>>
      /\ IF opts.source = "pipe" /\ format = "json"
           THEN PrintOutput(output) ELSE UNCHANGED <<output, printed, outcome>>
      /\ pc' = IF opts.source = "arguments" \/ format = "binary" THEN "finish"
               ELSE IF format = "json" THEN "json" ELSE "line"
  BY DEF NoMoreItems, At, Running, PipeInv, pipeVars, readerVars
<1>t. Types /\ Way /\ Fresh /\ Detected /\ Readers /\ Arguments
  BY <1>1 DEF PipeInv, Steady
<1>2. opts.command = "input" /\ pre = NoBuffer /\ (opts.source = "arguments" \/ format # "none")
  BY <1>1, <1>t DEF Way, Fresh
<1>3. opts.source \in {"arguments", "pipe"} /\ format \in {"none", "binary", "list", "json"}
  BY <1>t DEF Types, Options, Formats
<1>4. outcome' = outcome /\ output' \in Seq(Made) /\ printed' \in Seq(Made) /\ Produced' = Produced
  <2>1. CASE opts.source = "pipe" /\ format = "json"
    <3>1. Printable(output)
      BY <1>2, <2>1, OutputPrintable DEF FromBinary
    <3>2. output' = <<>> /\ printed' = printed \o output /\ outcome' = outcome
      BY <1>1, <2>1, <3>1 DEF PrintOutput
    <3> QED
      BY <1>t, <3>2, PrintedIs DEF Produced
  <2>2. CASE ~(opts.source = "pipe" /\ format = "json")
    <3>1. UNCHANGED <<output, printed, outcome>>
      BY <1>1, <2>2
    <3> QED
      BY <1>t, <3>1, PrintedIs DEF Produced
  <2> QED
    BY <2>1, <2>2
<1>5. Types'
  BY <1>1, <1>4, <1>t DEF Types, Places, Reading
<1>6. CrashCauses' /\ ListAccepted'
  BY <1>1, <1>4 DEF CrashCauses, ListAccepted
<1>7. ItemsInOrder'
  BY <1>1, <1>4, ItemsStay DEF PipeInv
<1>8. Attributed'
  <2>1. FromBinary' = FromBinary
    BY <1>1 DEF FromBinary
  <2> QED
    BY <1>1, <1>4, <2>1 DEF PipeInv, Attributed, OutputsFollowItems, OutputsHaveItems
<1>9. Steady'
  <2>1. Meant' = Meant /\ Before' = Before
    BY <1>1 DEF Meant, Before
  <2>2. Way'
    BY <1>1, <1>2, <1>3, <1>t, <2>1 DEF Way, Reading
  <2>3. Fresh' /\ Detected'
    BY <1>1, <1>2 DEF Fresh, Detected
  <2>4. Arguments'
    BY <1>1, <1>t DEF Arguments
  <2>5. Readers'
    BY <1>1, <1>2, <1>3, <1>t, <2>1 DEF Readers, ListRead, JsonRead
  <2> QED
    BY <2>2, <2>3, <2>4, <2>5 DEF Steady
<1> QED
  BY <1>5, <1>6, <1>7, <1>8, <1>9 DEF PipeInv

\* A command without input.
LEMMA GenerateInv ==
  ASSUME PipeInv, Generate
  PROVE  PipeInv'
<1>1. /\ outcome = "running" /\ pc = "generate" /\ Steady
      /\ UNCHANGED <<opts, text, sent, closed, fed, format, pre, buffer, room, short,
                     pending, done>>
  BY DEF Generate, At, Running, PipeInv, pipeVars, readerVars
<1>2. PICK n \in {0, 1} :
        IF ~opts.stream
          THEN output' = Outputs(<<>>, n) /\ pc' = "finish" /\ UNCHANGED <<printed, outcome>>
          ELSE IF n = 0 THEN Ends("crashed") /\ UNCHANGED <<output, printed>>
          ELSE PrintOutput(Outputs(<<>>, n)) /\ UNCHANGED pc
  BY DEF Generate
<1>t. Types /\ Way /\ Fresh
  BY <1>1 DEF PipeInv, Steady
<1>3. /\ opts.command = "create" /\ ~(opts.command = "create" /\ opts.trace) /\ opts.source # "pipe"
      /\ done = <<>> /\ pending = <<>> /\ pre = NoBuffer
  BY <1>1, <1>t DEF Way, Fresh, Types
<1>4. Outputs(<<>>, n) \in Seq(Made)
  <2>1. <<>> \in Seq(Nat) /\ NoInput \in Seq(Nat) /\ n \in Nat
    BY DEF NoInput
  <2>2. Outputs(<<>>, n) \in [1 .. n -> Made]
    BY <2>1 DEF Outputs, Made
  <2> QED
    BY <2>1, <2>2, SequenceIs
<1> DEFINE new == Outputs(<<>>, n)
<1> HIDE DEF new
<1>5. \/ output' = new /\ pc' = "finish" /\ printed' = printed /\ outcome' = outcome
      \/ /\ opts.stream /\ outcome' = "crashed" /\ pc' = pc
         /\ output' \in {output, <<>>} /\ printed' = printed
      \/ output' = <<>> /\ printed' = printed \o new /\ outcome' = outcome /\ pc' = pc
  BY <1>2 DEF Ends, PrintOutput, new
<1>6. printed \o new \in Seq(Made)
  BY <1>4, <1>t, PrintedIs, ConcatProperties DEF new
<1>7. output' \in Seq(Made) /\ printed' \in Seq(Made)
  BY <1>4, <1>5, <1>6, <1>t, PrintedIs DEF new
<1>8. Types'
  BY <1>1, <1>5, <1>7, <1>t DEF Types, Places
<1>9. CrashCauses' /\ ListAccepted'
  BY <1>1, <1>3, <1>5 DEF CrashCauses, ListAccepted
<1>10. ItemsInOrder' /\ Attributed'
  BY <1>1, <1>3 DEF ItemsInOrder, Attributed, OutputsFollowItems, OutputsHaveItems
<1>11. ASSUME outcome' = "running" PROVE Steady'
  <2>1. Meant' = Meant
    BY <1>1 DEF Meant
  <2>2. pc' \in {"generate", "finish"}
    BY <1>1, <1>5, <1>11
  <2>3. Way'
    <3>1. Way
      BY <1>t
    <3>2. format = "none" => opts.format = "none"
      BY <3>1 DEF Way
    <3>3. opts' = opts /\ format' = format
      BY <1>1
    <3>4. pc' \notin {"start", "choose", "process"} \cup Reading
      BY <2>2 DEF Reading
    <3>5. ~(opts'.command = "create" /\ opts'.trace)
      BY <1>3, <3>3
    <3>6. opts'.command = "create" /\ opts'.source # "pipe"
      BY <1>3, <3>3
    <3>7. opts.source = "arguments"
      BY <1>3, <1>t DEF Types, Options
    <3>8. opts'.source = "arguments"
      BY <3>3, <3>7
    <3> QED
      BY <2>2, <3>2, <3>3, <3>4, <3>5, <3>6, <3>8 DEF Way, Reading
  <2>4. Fresh'
    BY <1>1, <1>3, <1>t, <2>2 DEF Fresh
  <2>5. Detected' /\ Readers' /\ Arguments'
    BY <1>1, <1>3, <2>2 DEF Detected, Readers, Arguments
  <2> QED
    BY <2>3, <2>4, <2>5 DEF Steady
<1> QED
  BY <1>8, <1>9, <1>10, <1>11 DEF PipeInv, Running

\* The end of the run.
LEMMA FinishInv ==
  ASSUME PipeInv, Finish
  PROVE  PipeInv'
<1>1. /\ outcome = "running" /\ Running /\ pc = "finish" /\ Steady
      /\ UNCHANGED <<opts, text, sent, closed, fed, format, pre, buffer, room, short,
                     pending, done, pc>>
      /\ output' = <<>>
      /\ IF Printable(output) THEN printed' = printed \o output /\ outcome' = "done"
                              ELSE outcome' = "crashed" /\ UNCHANGED printed
  BY DEF Finish, At, Running, PipeInv, pipeVars, readerVars
<1>t. Types /\ Way
  BY <1>1 DEF PipeInv, Steady
<1>2. opts.command \in {"input", "create"} /\ ~(opts.command = "create" /\ opts.trace)
  <2>1. opts.command \in {"input", "create", "vanity", "unknown"}
    BY <1>t DEF Types, Options
  <2> QED
    BY <1>1, <1>t, <2>1 DEF Way
<1>3. Types'
  <2>1. printed' \in Seq(Made)
    BY <1>1, <1>t, PrintedIs
  <2> QED
    BY <1>1, <1>t, <2>1 DEF Types
<1>4. CrashCauses' /\ ListAccepted'
  <2>1. CASE Printable(output)
    BY <1>1, <2>1 DEF CrashCauses, ListAccepted
  <2>2. CASE ~Printable(output)
    <3>1. opts.trace
      BY <2>2 DEF Printable
    <3>2. FromBinary
      BY <1>2, <2>2, <3>1, OutputPrintable
    <3>3. FromBinary' /\ opts'.trace /\ outcome' = "crashed"
      BY <1>1, <2>2, <3>1, <3>2 DEF FromBinary
    <3> QED
      BY <3>3 DEF CrashCauses, ListAccepted
  <2> QED
    BY <2>1, <2>2
<1>5. ItemsInOrder'
  <2>1. opts.command = "input" => done = Items(text, Meant)
    BY <1>1, AllDone
  <2>2. Meant' = Meant
    BY <1>1 DEF Meant
  <2> QED
    BY <1>1, <2>1, <2>2 DEF PipeInv, ItemsInOrder
<1>6. Attributed'
  <2> SUFFICES ASSUME opts.command = "input" PROVE Attributed'
    BY <1>1 DEF Attributed, OutputsFollowItems, OutputsHaveItems
  <2>1. Follow(printed \o output, done, ~FromBinary)
    BY AttributedIs DEF PipeInv, Produced
  <2>2. /\ printed \in Seq(Made) /\ output \in Seq(Made) /\ printed \o <<>> = printed
        /\ (printed \o output) \o <<>> = printed \o output
    BY <1>t, PrintedIs
  <2>3. Follow(Produced', done, ~FromBinary)
    <3>1. CASE Printable(output)
      <4>1. Produced' = printed \o output
        BY <1>1, <2>2, <3>1 DEF Produced
      <4> QED
        BY <2>1, <4>1
    <3>2. CASE ~Printable(output)
      <4>1. Produced' = printed
        BY <1>1, <2>2, <3>2 DEF Produced
      <4>2. (~FromBinary) \in BOOLEAN
        BY DEF FromBinary
      <4>3. Follow(printed, done, ~FromBinary)
        BY <2>1, <2>2, <4>2, FollowLess
      <4> QED
        BY <4>1, <4>3
    <3> QED
      BY <3>1, <3>2
  <2>4. FromBinary' = FromBinary
    BY <1>1 DEF FromBinary
  <2> QED
    BY <1>1, <2>3, <2>4 DEF Attributed, OutputsFollowItems, OutputsHaveItems, Follow
<1>7. outcome' # "running"
  BY <1>1
<1> QED
  BY <1>3, <1>4, <1>5, <1>6, <1>7 DEF PipeInv, Running

-----------------------------------------------------------------------------
(* The theorems.                                                           *)

LEMMA FailureInv ==
  ASSUME PipeInv, ReadFails \/ CommandFails
  PROVE  PipeInv'
<1>1. /\ UNCHANGED <<opts, text, sent, closed, fed, format, pre, buffer, room, short,
                     pending, output, printed, done, pc>>
      /\ outcome' = "failed"
  BY DEF ReadFails, CommandFails, Ends, pipeVars, readerVars
<1>2. CrashCauses' /\ ListAccepted'
  BY <1>1 DEF CrashCauses, ListAccepted
<1>3. pre' \in Seq(Nat) /\ buffer' \in Seq(Nat) /\ fed' \in 0 .. sent
  BY <1>1 DEF PipeInv, Types
<1> QED
  BY <1>1, <1>2, <1>3, EndsInv

\* Nothing changes when nothing happens.
LEMMA StutterInv ==
  ASSUME PipeInv, UNCHANGED vars
  PROVE  PipeInv'
<1>1. /\ UNCHANGED <<opts, text, sent, closed, fed, format, pre, buffer, room, short,
                     pending, output, printed, done, pc, outcome>>
      /\ UNCHANGED <<opts, text, readerVars, pending, output, printed, done, pc>>
  BY DEF vars, pipeVars, readerVars
<1>2. Types'
  BY <1>1 DEF PipeInv, Types
<1>3. Meant' = Meant /\ FromBinary' = FromBinary /\ Produced' = Produced /\ (LongLine' <=> LongLine)
  BY <1>1 DEF Meant, FromBinary, Produced, LongLine
<1>4. CrashCauses' /\ ListAccepted'
  BY <1>1, <1>3 DEF PipeInv, CrashCauses, ListAccepted
<1>5. ItemsInOrder' /\ Attributed'
  BY <1>1, <1>3 DEF PipeInv, ItemsInOrder, Attributed, OutputsFollowItems, OutputsHaveItems
<1>6. Running' => Steady'
  BY <1>1, SteadyStays DEF PipeInv, Running
<1> QED
  BY <1>2, <1>4, <1>5, <1>6 DEF PipeInv

\* What every run of the program satisfies at every point: the way main has
\* come, what the buffers hold, and which items have been handed on.
THEOREM PipelineInvariant == Spec => []PipeInv
<1>1. Init => PipeInv
  BY InitInv
<1>2. PipeInv /\ [Next]_vars => PipeInv'
  BY SendInv, DispatchInv, ChooseInv, DetectFormatInv, FirstLineInv, ReadLineInv,
     ReadJsonInv, ReadBinaryInv, EndBinaryInv, ProcessItemInv, NoMoreItemsInv,
     GenerateInv, FinishInv, FailureInv, StutterInv DEF Next, Program
<1> QED
  BY <1>1, <1>2, PTL DEF Spec

\* However the input is cut into reads, the command is given its items, whole,
\* in order and each once (btk.c:161-310, input.c:23-269).
THEOREM ItemsHandedInOrder == Spec => []ItemsInOrder
<1>1. PipeInv => ItemsInOrder
  BY DEF PipeInv
<1> QED
  BY <1>1, PipelineInvariant, PTL

\* Outputs appear in the order of their items, and --trace finds with each the
\* item it was made of (btk.c:168-174, output.c:93-113).
THEOREM OutputsInOrder == Spec => []OutputsFollowItems
<1>1. PipeInv => OutputsFollowItems
  BY DEF PipeInv, Attributed
<1> QED
  BY <1>1, PipelineInvariant, PTL

\* A list is refused only for a line that is too long, or if it is empty and
\* its format was not given (input.c:96, 120-124).
THEOREM ListsAreAccepted == Spec => []ListAccepted
<1>1. PipeInv => ListAccepted
  BY DEF PipeInv
<1> QED
  BY <1>1, PipelineInvariant, PTL

-----------------------------------------------------------------------------
(* CommandPipeline implements CommandFilter: ProcessItem is Take,          *)
(* NoMoreItems is Show or nothing, Finish is Complete, and whatever else   *)
(* ends the run is Fail.                                                   *)

\* What is given stays so.
LEMMA GivenStays ==
  ASSUME UNCHANGED <<opts, text>>
  PROVE  UNCHANGED Filter!given
<1>1. Meant' = Meant
  BY DEF Meant
<1> QED
  BY <1>1 DEF Filter!given, OfInput

\* A run that fails between two items.
LEMMA EndFails ==
  ASSUME Running, UNCHANGED <<opts, text, done, printed>>, outcome' \notin {"running", "done"}
  PROVE  Filter!Fail
<1>1. FilterEnded = "no" /\ FilterEnded' = "failed"
  BY DEF FilterEnded, Running
<1>2. UNCHANGED Filter!given
  BY GivenStays
<1>3. OfInput(done)' = OfInput(done) /\ OfInput(printed)' = OfInput(printed)
  BY DEF OfInput
<1> QED
  BY <1>1, <1>2, <1>3 DEF Filter!Fail

\* A step that hands on no item and neither adds nor prints an output.
LEMMA NothingShown ==
  ASSUME UNCHANGED <<opts, text, done, output, printed, outcome>>
  PROVE  UNCHANGED Filter!filterVars
<1>1. FilterEnded' = FilterEnded
  BY DEF FilterEnded, Running
<1>2. UNCHANGED Filter!given
  BY GivenStays
<1>3. /\ OfInput(done)' = OfInput(done) /\ OfInput(printed)' = OfInput(printed)
      /\ OfInput(output)' = OfInput(output)
  BY DEF OfInput
<1> QED
  BY <1>1, <1>2, <1>3 DEF Filter!filterVars

\* Where an output carries its item.
LEMMA AttachedIs ==
  ASSUME PipeInv, Running, pc = "process"
  PROVE  ~FromBinary <=> ~(opts.source = "pipe" /\ Meant = "binary")
<1>1. Types /\ Way
  BY DEF PipeInv, Steady
<1>2. opts.source \in {"arguments", "pipe"} /\ opts.source # "arguments" => format = Meant
  BY <1>1 DEF Types, Options, Way
<1> QED
  BY <1>2 DEF FromBinary

\* The converse of PrefixIs.
LEMMA PrefixBegins ==
  ASSUME NEW S, NEW s \in Seq(S), NEW t \in Seq(S), IsPrefix(s, t)
  PROVE  Begins(s, t)
<1>1. /\ Len(s) \in Nat /\ Len(t) \in Nat /\ Len(s) <= Len(t)
      /\ SubSeq(s, 1, Len(s)) = SubSeq(t, 1, Len(s))
  BY DEF IsPrefix
<1>2. \A k \in 1 .. Len(s) : t[k] \in S
  BY <1>1
<1>3. \A k \in 1 .. Len(s) : SubSeq(t, 1, Len(s))[k] = t[k]
  BY <1>1, <1>2, SubSeqProperties
<1>4. SubSeq(s, 1, Len(s)) = s
  BY SubSeqFull
<1>5. s = SubSeq(t, 1, Len(s))
  BY <1>1, <1>4
<1> QED
  BY <1>1, <1>3, <1>5 DEF Begins

\* The item handed on is the next one of the input.
LEMMA NextIsHead ==
  ASSUME PipeInv, PipeInv', opts.command = "input", UNCHANGED <<opts, text>>,
         NEW item \in Item, done' = Append(done, item)
  PROVE  /\ Len(done) < Len(Items(text, Meant))
         /\ Items(text, Meant)[Len(done) + 1] = item
<1> DEFINE all == Items(text, Meant)
           now == Append(done, item)
<1>1. Meant' = Meant
  BY DEF Meant
<1>2. IsPrefix(now, all)
  BY <1>1 DEF PipeInv, ItemsInOrder
<1>3. done \in Seq(Item) /\ text \in Seq(Kinds)
  BY DEF PipeInv, Types
<1>4. Item \subseteq Seq(Nat)
  BY DEF Item
<1>5. now \in Seq(Seq(Nat))
  <2>1. now \in Seq(Item)
    BY <1>3
  <2> QED
    BY <1>4, <2>1, SeqMonotonic
<1>6. all \in Seq(Seq(Nat))
  <2>1. Meant \in {"list", "json", "binary"}
    BY MeantIs DEF PipeInv
  <2> QED
    BY <1>3, <2>1, ItemsAre
<1>7. /\ Len(now) = Len(done) + 1 /\ now[Len(done) + 1] = item /\ Len(done) \in Nat
  BY <1>3
<1> HIDE DEF all, now
<1>8. Begins(now, all)
  BY <1>2, <1>5, <1>6, PrefixBegins
<1>9. Len(done) + 1 <= Len(all) /\ Len(all) \in Nat
  BY <1>6, <1>7, <1>8 DEF Begins
<1>10. now[Len(done) + 1] = all[Len(done) + 1]
  BY <1>7, <1>8 DEF Begins
<1>11. Len(done) < Len(all) /\ all[Len(done) + 1] = item
  BY <1>7, <1>9, <1>10
<1> QED
  BY <1>11 DEF all

\* ProcessItem takes the next item, or the run ends while it is answered.
LEMMA ProcessTakes ==
  ASSUME PipeInv, PipeInv', ProcessItem
  PROVE  Filter!Take \/ Filter!Fail
<1> DEFINE item == Head(pending)
           attached == ~FromBinary
<1>1. /\ outcome = "running" /\ pc = "process" /\ Running /\ Way /\ pending # <<>>
      /\ done' = Append(done, item)
      /\ UNCHANGED <<opts, text>>
  BY DEF ProcessItem, At, Running, PipeInv, Steady, pipeVars
<1>2. PICK n \in 1 .. MaxOutputs :
        LET out == output \o Outputs(item, n)
            all == IF FromBinary THEN out ELSE Attached(out, item, Len(output))
        IN IF opts.stream THEN PrintOutput(all)
                          ELSE output' = all /\ UNCHANGED <<printed, outcome>>
  BY DEF ProcessItem
<1>3. /\ opts.command = "input" /\ output \in Seq(Made) /\ item \in Item /\ n \in Nat
  <2>1. pending \in Seq(Item) /\ output \in Seq(Made)
    BY DEF PipeInv, Types
  <2>2. item \in Item
    BY <1>1, <2>1
  <2> QED
    BY <1>1, <2>1, <2>2, PipelineAssumption DEF Way
<1>4. attached = ~(opts.source = "pipe" /\ Meant = "binary")
  BY <1>1, AttachedIs
<1>b. attached \in BOOLEAN
  OBVIOUS
<1> HIDE DEF attached, item
<1>5. PICK more \in Seq(Made) :
        /\ (IF attached THEN Attached(output \o Outputs(item, n), item, Len(output))
                        ELSE output \o Outputs(item, n)) = output \o more
        /\ Len(more) = n
        /\ \A k \in DOMAIN more : /\ more[k].of = item
                                  /\ more[k].input = IF attached THEN item ELSE NoInput
  BY <1>3, <1>b, OutputsAre
<1>6. IF opts.stream THEN PrintOutput(output \o more)
                     ELSE output' = output \o more /\ UNCHANGED <<printed, outcome>>
  BY <1>2, <1>5 DEF attached
<1> DEFINE all == Items(text, Meant)
           answer == [of |-> item, input |-> IF attached THEN item ELSE <<>>]
<1>7. more = [k \in 1 .. n |-> answer]
  <2>1. \A k \in 1 .. n : more[k] = answer
    <3> SUFFICES ASSUME NEW k \in 1 .. n PROVE more[k] = answer
      OBVIOUS
    <3>1. /\ more[k] \in Made /\ more[k].of = item
          /\ more[k].input = IF attached THEN item ELSE <<>>
      BY <1>5 DEF NoInput
    <3> QED
      BY <3>1 DEF Made
  <2>2. more = [k \in 1 .. n |-> more[k]]
    BY <1>5
  <2> HIDE DEF answer
  <2> QED
    BY <2>1, <2>2
<1>8. Len(done) < Len(all) /\ all[Len(done) + 1] = item
  BY <1>1, <1>3, NextIsHead
<1>9. UNCHANGED Filter!given
  BY <1>1, GivenStays
<1>10. /\ OfInput(all) = all /\ OfInput(done) = done /\ OfInput(done)' = done'
       /\ OfInput(output) = output /\ OfInput(output)' = output'
       /\ OfInput(printed) = printed /\ OfInput(printed)' = printed'
  BY <1>1, <1>3 DEF OfInput
<1>11. Filter!NextItem = item
  BY <1>8, <1>10 DEF Filter!NextItem
<1>12. Filter!Answer(item) = answer
  BY <1>4 DEF Filter!Answer
<1>13. Len(OfInput(done)) < Len(OfInput(all)) /\ OfInput(done)' = Append(OfInput(done), Filter!NextItem)
  BY <1>1, <1>8, <1>10, <1>11
<1> HIDE DEF all, answer
<1>14. FilterEnded = "no"
  BY <1>1 DEF FilterEnded
<1>15. CASE outcome' = "running"
  <2>1. FilterEnded' = "no"
    BY <1>15 DEF FilterEnded, Running
  <2>2. IF opts.stream THEN printed' = printed \o (output \o more) /\ output' = <<>>
                       ELSE output' = output \o more /\ printed' = printed
    BY <1>6, <1>15 DEF PrintOutput
  <2>3. [k \in 1 .. n |-> Filter!Answer(Filter!NextItem)] = more
    BY <1>7, <1>11, <1>12
  <2> QED
    BY <1>9, <1>10, <1>13, <1>14, <2>1, <2>2, <2>3 DEF Filter!Take, all
<1>16. CASE outcome' # "running"
  <2>1. outcome' = "crashed" /\ printed' = printed
    BY <1>1, <1>6, <1>16 DEF PrintOutput
  <2>2. FilterEnded' = "failed"
    BY <2>1 DEF FilterEnded, Running
  <2> QED
    BY <1>9, <1>10, <1>13, <1>14, <2>1, <2>2 DEF Filter!Fail, all
<1> QED
  BY <1>15, <1>16

\* At the end of the items of one read the outputs are shown, or kept.
LEMMA NoMoreItemsShows ==
  ASSUME PipeInv, NoMoreItems
  PROVE  [Filter!FilterNext]_(Filter!filterVars)
<1>1. /\ Running /\ UNCHANGED <<opts, text, done>>
      /\ IF opts.source = "pipe" /\ format = "json"
           THEN PrintOutput(output) ELSE UNCHANGED <<output, printed, outcome>>
  BY DEF NoMoreItems, At, pipeVars
<1>2. CASE UNCHANGED <<output, printed, outcome>>
  BY <1>1, <1>2, NothingShown
<1>3. CASE output' = <<>> /\ printed' = printed \o output /\ outcome' = outcome
  <2>1. FilterEnded = "no" /\ FilterEnded' = "no"
    BY <1>1, <1>3 DEF FilterEnded, Running
  <2>2. UNCHANGED Filter!given
    BY <1>1, GivenStays
  <2>3. /\ OfInput(done)' = OfInput(done) /\ OfInput(output)' = <<>>
        /\ OfInput(printed)' = OfInput(printed) \o OfInput(output)
    <3>1. <<>> = <<>> \o <<>>
      OBVIOUS
    <3> QED
      BY <1>1, <1>3, <3>1 DEF OfInput
  <2>4. Filter!Show
    BY <2>1, <2>2, <2>3 DEF Filter!Show
  <2> QED
    BY <2>4 DEF Filter!FilterNext
<1>4. CASE printed' = printed /\ outcome' = "crashed"
  <2>1. Filter!Fail
    BY <1>1, <1>4, EndFails
  <2> QED
    BY <2>1 DEF Filter!FilterNext
<1> QED
  BY <1>1, <1>2, <1>3, <1>4 DEF PrintOutput

\* A command without input answers nothing.
LEMMA GenerateIsSilent ==
  ASSUME PipeInv, Generate
  PROVE  [Filter!FilterNext]_(Filter!filterVars)
<1>1. /\ Running /\ opts.command # "input" /\ UNCHANGED <<opts, text, done>>
  BY DEF Generate, At, pipeVars, PipeInv, Steady, Way
<1>2. outcome' \in {outcome, "crashed"}
  BY DEF Generate, Ends, PrintOutput
<1>3. UNCHANGED Filter!given
  BY <1>1, GivenStays
<1>4. /\ OfInput(done) = <<>> /\ OfInput(done)' = <<>>
      /\ OfInput(output) = <<>> /\ OfInput(output)' = <<>>
      /\ OfInput(printed) = <<>> /\ OfInput(printed)' = <<>>
  BY <1>1 DEF OfInput
<1>5. CASE outcome' = outcome
  <2>1. FilterEnded = "no" /\ FilterEnded' = "no"
    BY <1>1, <1>5 DEF FilterEnded, Running
  <2> QED
    BY <1>3, <1>4, <2>1 DEF Filter!filterVars
<1>6. CASE outcome' = "crashed"
  <2>1. FilterEnded = "no" /\ FilterEnded' = "failed"
    BY <1>1, <1>6 DEF FilterEnded, Running
  <2>2. Filter!Fail
    BY <1>3, <1>4, <2>1 DEF Filter!Fail
  <2> QED
    BY <2>2 DEF Filter!FilterNext
<1> QED
  BY <1>2, <1>5, <1>6

\* The run succeeds when all items are answered, and shows what waits.
LEMMA FinishCompletes ==
  ASSUME PipeInv, Finish
  PROVE  Filter!Complete \/ Filter!Fail
<1>1. /\ Running /\ pc = "finish" /\ UNCHANGED <<opts, text, done>> /\ output' = <<>>
      /\ \/ printed' = printed \o output /\ outcome' = "done"
         \/ outcome' = "crashed" /\ printed' = printed
  BY DEF Finish, At, pipeVars
<1>2. CASE printed' = printed \o output /\ outcome' = "done"
  <2>1. FilterEnded = "no" /\ FilterEnded' = "done"
    BY <1>1, <1>2 DEF FilterEnded, Running
  <2>2. UNCHANGED Filter!given
    BY <1>1, GivenStays
  <2>3. OfInput(done) = OfInput(Items(text, Meant))
    BY <1>1, AllDone DEF OfInput
  <2>4. /\ OfInput(done)' = OfInput(done) /\ OfInput(output)' = <<>>
        /\ OfInput(printed)' = OfInput(printed) \o OfInput(output)
    <3>1. <<>> = <<>> \o <<>>
      OBVIOUS
    <3> QED
      BY <1>1, <1>2, <3>1 DEF OfInput
  <2> QED
    BY <2>1, <2>2, <2>3, <2>4 DEF Filter!Complete
<1>3. CASE outcome' = "crashed" /\ printed' = printed
  BY <1>1, <1>3, EndFails
<1> QED
  BY <1>1, <1>2, <1>3

\* Everything else is nothing to the filter, or the end of the run.
LEMMA RestIsSilent ==
  ASSUME PipeInv,
         Send \/ Close \/ Dispatch \/ Choose \/ DetectFormat \/ FirstLine \/ ReadLine
           \/ ReadJson \/ ReadBinary \/ EndBinary \/ ReadFails \/ CommandFails
  PROVE  [Filter!FilterNext]_(Filter!filterVars)
<1>1. Running /\ UNCHANGED <<opts, text, done, output, printed>>
  BY DEF Send, Close, Dispatch, Choose, DetectFormat, FirstLine, ReadLine, ReadJson,
         ReadBinary, EndBinary, ReadFails, CommandFails, At, pipeVars
<1>2. outcome' \in {outcome, "failed", "crashed", "rejected"}
  <2>1. CASE Send \/ Close \/ Choose
    BY <2>1 DEF Send, Close, Choose, Goes, Ends
  <2>6. CASE Dispatch
    <3>1. opts.command \in {"input", "create", "vanity", "unknown"} /\ BadOptions \in BOOLEAN
      BY DEF PipeInv, Types, Options, BadOptions
    <3> QED
      BY <2>6, <3>1 DEF Dispatch, Goes, Ends
  <2>7. CASE DetectFormat
    <3>1. Ends("crashed") \/ Goes("choose")
      BY <2>7 DEF DetectFormat
    <3> QED
      BY <3>1 DEF Goes, Ends
  <2>2. CASE FirstLine \/ ReadLine
    BY <2>2 DEF FirstLine, ReadLine, Line, Goes, Ends
  <2>3. CASE ReadJson
    BY <2>3 DEF ReadJson, Goes, Ends
  <2>4. CASE ReadBinary \/ EndBinary
    BY <2>4 DEF ReadBinary, EndBinary, Goes, Ends
  <2>5. CASE ReadFails \/ CommandFails
    BY <2>5 DEF ReadFails, CommandFails, Ends
  <2> QED
    BY <2>1, <2>2, <2>3, <2>4, <2>5, <2>6, <2>7
<1>3. CASE outcome' = outcome
  BY <1>1, <1>3, NothingShown
<1>4. CASE outcome' \in {"failed", "crashed", "rejected"}
  <2>1. Filter!Fail
    BY <1>1, <1>4, EndFails
  <2> QED
    BY <2>1 DEF Filter!FilterNext
<1> QED
  BY <1>2, <1>3, <1>4

\* Every run of the program is a run of the filter: items are answered one
\* after the other, none twice, none left out when the run succeeds
\* (btk.c:161-350, output.c:93-113).
THEOREM RunsAreFiltered == Spec => ImplementsFilter
<1>1. Init => Filter!FilterInit
  BY DEF Init, Filter!FilterInit, OfInput, FilterEnded, Running
<1>2. PipeInv /\ PipeInv' /\ [Next]_vars => [Filter!FilterNext]_(Filter!filterVars)
  <2> SUFFICES ASSUME PipeInv, PipeInv', [Next]_vars
               PROVE  [Filter!FilterNext]_(Filter!filterVars)
    OBVIOUS
  <2>1. CASE ProcessItem
    BY <2>1, ProcessTakes DEF Filter!FilterNext
  <2>2. CASE NoMoreItems
    BY <2>2, NoMoreItemsShows
  <2>3. CASE Generate
    BY <2>3, GenerateIsSilent
  <2>4. CASE Finish
    BY <2>4, FinishCompletes DEF Filter!FilterNext
  <2>5. CASE UNCHANGED vars
    BY <2>5, NothingShown DEF vars, pipeVars
  <2> QED
    BY <2>1, <2>2, <2>3, <2>4, <2>5, RestIsSilent DEF Next, Program
<1> QED
  BY <1>1, <1>2, PipelineInvariant, PTL DEF Spec, ImplementsFilter, Filter!FilterSpec

\* The run dies only of the causes listed (btk.c:132, 195, 412, input.c:36-48,
\* 236, json.c:90).
THEOREM CrashesAreExplained == Spec => []CrashCauses
<1>1. PipeInv => CrashCauses
  BY DEF PipeInv
<1> QED
  BY <1>1, PipelineInvariant, PTL

=============================================================================
