------------------------- MODULE Conversions_proofs -------------------------
(***************************************************************************)
(* What Conversions promises of command lines, proved for every command    *)
(* and every row of options, and of the two hashes, proved for every       *)
(* message and every length of a block, and of numbers, for each of those  *)
(* a run takes.                                                            *)
(***************************************************************************)
EXTENDS Conversions, FiniteSetTheorems, WellFoundedInduction, TLAPS

\* A set of numbers that is not empty has a smallest member.
LEMMA SmallestOne ==
  ASSUME NEW F, F \subseteq Nat, F # {}
  PROVE  \E m \in F : \A n \in F : m <= n
<1>1. PICK m \in F : \A n \in F : ~(<<n, m>> \in OpToRel(<, Nat))
  BY NatLessThanWellFounded, WFMin
<1>2. \A n \in F : ~(n < m)
  BY <1>1 DEF OpToRel
<1> QED
  BY <1>2

\* Of two members of a set there is one if it has no more than one.
LEMMA OneMember ==
  ASSUME NEW S, IsFiniteSet(S), Cardinality(S) <= 1, NEW x \in S, NEW y \in S
  PROVE  x = y
<1> SUFFICES ASSUME x # y PROVE FALSE
  OBVIOUS
<1>1. IsFiniteSet({x}) /\ Cardinality({x}) = 1
  BY FS_Singleton
<1>2. {x} \in SUBSET S /\ {x} # S
  OBVIOUS
<1>3. Cardinality({x}) <= Cardinality(S) /\ (Cardinality(S) = Cardinality({x}) => S = {x})
  BY <1>2, FS_Subset
<1>4. Cardinality(S) \in Nat
  BY FS_CardinalityType
<1> QED
  BY <1>1, <1>2, <1>3, <1>4

\* A set of one member at most has no more.
LEMMA NoMoreThanOne ==
  ASSUME NEW S, \A x, y \in S : x = y
  PROVE  IsFiniteSet(S) /\ Cardinality(S) <= 1 /\ Cardinality(S) \in Nat
<1>1. CASE S = {}
  BY <1>1, FS_EmptySet
<1>2. CASE S # {}
  <2>1. PICK x : S = {x}
    BY <1>2
  <2>2. IsFiniteSet({x}) /\ Cardinality({x}) = 1
    BY FS_Singleton
  <2> QED
    BY <2>1, <2>2
<1> QED
  BY <1>1, <1>2

-----------------------------------------------------------------------------
(* One option.                                                             *)

\* An option that is refused whatever was read before it.
Refusing(command, token) ==
  \/ O!NameOf(token) \notin O!Permitted(command)
  \/ /\ O!NameOf(token) \in DOMAIN O!Choices
     /\ O!ArgOf(token) \notin O!Choices[O!NameOf(token)]
  \/ token.long /\ O!NameOf(token) = "threads" /\ token.arg < 1

\* The flags an option sets.
Adds(token) ==
  IF O!NameOf(token) \in DOMAIN O!Choices
    THEN {<<O!NameOf(token), O!ArgOf(token)>>} \cup O!Implied(O!NameOf(token), O!ArgOf(token))
  ELSE IF O!NameOf(token) \in O!Switches /\ token # O!Short("i", "")
    THEN {<<O!NameOf(token), "">>}
  ELSE {}

Counts(token) == token.long /\ token.name = "threads"

\* What opts_get does with an option while none is refused.
TokenRead(command, opts, token) ==
  IF O!NameOf(token) \notin O!Permitted(command) THEN O!Refuse(opts) ELSE O!Apply(opts, token)

Fields == {"flags", "kept", "threads", "refused"}

Shape(opts) ==
  /\ opts = [field \in Fields |-> opts[field]]
  /\ opts.refused \in BOOLEAN

\* The kinds of options.
LEMMA Kinds ==
  /\ DOMAIN O!Choices = {"in-format", "in-type", "out-format", "out-type", "compressed"}
  /\ DOMAIN O!Choices \cap O!Kept = {} /\ DOMAIN O!Choices \cap O!Switches = {}
  /\ O!Kept \cap O!Switches = {}
  /\ "threads" \notin DOMAIN O!Choices \cup O!Kept \cup O!Switches
<1>1. DOMAIN O!Choices = {"in-format", "in-type", "out-format", "out-type", "compressed"}
  BY DEF O!Choices
<1>2. DOMAIN O!Choices \cap O!Kept = {} /\ "threads" \notin DOMAIN O!Choices \cup O!Kept
  BY <1>1 DEF O!Kept
<1>3. DOMAIN O!Choices \cap O!Switches = {} /\ "threads" \notin O!Switches
  BY <1>1 DEF O!Switches
<1>4. O!Kept \cap O!Switches = {}
  BY DEF O!Kept, O!Switches
<1> QED
  BY <1>1, <1>2, <1>3, <1>4

\* A letter stands for an option.
LEMMA LettersName ==
  ASSUME NEW l \in DOMAIN O!Letters
  PROVE  O!Letters[l][1] \in O!Names
<1>1. /\ {"in-format", "in-type", "out-format", "out-type", "compressed"} \subseteq O!Names
      /\ {"stream", "case-insensitive"} \subseteq O!Names
      /\ {"grep", "hostname", "port"} \subseteq O!Names
      /\ "threads" \in O!Names
  BY Kinds DEF O!Names, O!Kept, O!Switches
<1>2. l \in {"l", "b", "j", "w", "x", "r", "s", "d", "L", "Q", "B", "J", "W", "X", "D", "R", "C", "U",
             "S", "G", "h", "p", "i", "t"}
  BY DEF O!Letters
<1>3. O!Letters[l][1] \in
        {"in-format", "in-type", "out-format", "out-type", "compressed", "stream", "case-insensitive",
         "grep", "hostname", "port", "threads"}
  <2>1. CASE l = "l"
    BY <2>1 DEF O!Letters
  <2>2. CASE l = "b"
    BY <2>2 DEF O!Letters
  <2>3. CASE l = "j"
    BY <2>3 DEF O!Letters
  <2>4. CASE l = "w"
    BY <2>4 DEF O!Letters
  <2>5. CASE l = "x"
    BY <2>5 DEF O!Letters
  <2>6. CASE l = "r"
    BY <2>6 DEF O!Letters
  <2>7. CASE l = "s"
    BY <2>7 DEF O!Letters
  <2>8. CASE l = "d"
    BY <2>8 DEF O!Letters
  <2>9. CASE l = "L"
    BY <2>9 DEF O!Letters
  <2>10. CASE l = "Q"
    BY <2>10 DEF O!Letters
  <2>11. CASE l = "B"
    BY <2>11 DEF O!Letters
  <2>12. CASE l = "J"
    BY <2>12 DEF O!Letters
  <2>13. CASE l = "W"
    BY <2>13 DEF O!Letters
  <2>14. CASE l = "X"
    BY <2>14 DEF O!Letters
  <2>15. CASE l = "D"
    BY <2>15 DEF O!Letters
  <2>16. CASE l = "R"
    BY <2>16 DEF O!Letters
  <2>17. CASE l = "C"
    BY <2>17 DEF O!Letters
  <2>18. CASE l = "U"
    BY <2>18 DEF O!Letters
  <2>19. CASE l = "S"
    BY <2>19 DEF O!Letters
  <2>20. CASE l = "G"
    BY <2>20 DEF O!Letters
  <2>21. CASE l = "h"
    BY <2>21 DEF O!Letters
  <2>22. CASE l = "p"
    BY <2>22 DEF O!Letters
  <2>23. CASE l = "i"
    BY <2>23 DEF O!Letters
  <2>24. CASE l = "t"
    BY <2>24 DEF O!Letters
  <2> QED
    BY <1>2, <2>1, <2>2, <2>3, <2>4, <2>5, <2>6, <2>7, <2>8, <2>9, <2>10, <2>11, <2>12, <2>13, <2>14, <2>15, <2>16, <2>17, <2>18, <2>19, <2>20, <2>21, <2>22, <2>23, <2>24
<1> QED
  BY <1>1, <1>3

LEMMA TokensName ==
  ASSUME NEW token, O!IsToken(token)
  PROVE  O!NameOf(token) \in O!Names
<1>1. CASE token.long
  BY <1>1 DEF O!IsToken, O!NameOf
<1>2. CASE ~token.long
  BY <1>2, LettersName DEF O!IsToken, O!NameOf
<1> QED
  BY <1>1, <1>2

\* What a step makes of the options if it does not refuse.
Made(opts, flags, kept, threads) ==
  /\ Shape(opts)
  /\ ~opts.refused
  /\ opts.flags = flags /\ opts.kept = kept /\ opts.threads = threads

LEMMA Updates ==
  ASSUME NEW opts, Shape(opts), ~opts.refused, NEW x
  PROVE  /\ Shape(O!Refuse(opts)) /\ O!Refuse(opts).refused
         /\ Made(opts, opts.flags, opts.kept, opts.threads)
         /\ Made([opts EXCEPT !.flags = @ \cup x], opts.flags \cup x, opts.kept, opts.threads)
         /\ Made([opts EXCEPT !.kept = @ \cup x], opts.flags, opts.kept \cup x, opts.threads)
         /\ Made([opts EXCEPT !.threads = x], opts.flags, opts.kept, x)
<1>1. Shape(O!Refuse(opts)) /\ O!Refuse(opts).refused
  BY DEF Shape, Fields, O!Refuse
<1>2. Made([opts EXCEPT !.flags = @ \cup x], opts.flags \cup x, opts.kept, opts.threads)
  BY DEF Shape, Fields, Made
<1>3. Made([opts EXCEPT !.kept = @ \cup x], opts.flags, opts.kept \cup x, opts.threads)
  BY DEF Shape, Fields, Made
<1>4. Made([opts EXCEPT !.threads = x], opts.flags, opts.kept, x)
  BY DEF Shape, Fields, Made
<1>5. Made(opts, opts.flags, opts.kept, opts.threads)
  BY DEF Made
<1> QED
  BY <1>1, <1>2, <1>3, <1>4, <1>5

\* Options of one shape are the same if their fields are.
LEMMA SameShape ==
  ASSUME NEW o, NEW p, NEW f, NEW k, NEW t, Made(o, f, k, t), Made(p, f, k, t)
  PROVE  o = p
<1>1. o.flags = p.flags /\ o.kept = p.kept /\ o.threads = p.threads
  BY DEF Made
<1>2. o.refused = FALSE
  BY DEF Made, Shape
<1>3. p.refused = FALSE
  BY DEF Made, Shape
<1>4. \A field \in Fields : o[field] = p[field]
  BY <1>1, <1>2, <1>3 DEF Fields
<1> QED
  BY <1>4 DEF Made, Shape

\* An option is refused or sets what it sets.
StepOf(command, opts, token, next) ==
  LET bad == Refusing(command, token) \/ O!NameOf(token) \in O!Kept \cap opts.kept
  IN  /\ bad => Shape(next) /\ next.refused
      /\ ~bad => Made(next, opts.flags \cup Adds(token),
                      opts.kept \cup ({O!NameOf(token)} \cap O!Kept),
                      IF Counts(token) THEN token.arg ELSE opts.threads)

LEMMA OneStep ==
  ASSUME NEW command, NEW token, O!IsToken(token), NEW opts, Shape(opts), ~opts.refused
  PROVE  StepOf(command, opts, token, TokenRead(command, opts, token))
<1> DEFINE name == O!NameOf(token)
           arg == O!ArgOf(token)
           next == TokenRead(command, opts, token)
           flags == opts.flags \cup Adds(token)
           kept == opts.kept \cup ({name} \cap O!Kept)
           threads == IF Counts(token) THEN token.arg ELSE opts.threads
           bad == Refusing(command, token) \/ name \in O!Kept \cap opts.kept
<1>0. name \in O!Names
  BY TokensName
<1>s. Counts(token) <=> token.long /\ name = "threads"
  BY DEF Counts, O!NameOf
<1>k. kept = IF name \in O!Kept THEN opts.kept \cup {name} ELSE opts.kept
  OBVIOUS
<1>u. Shape(O!Refuse(opts)) /\ O!Refuse(opts).refused
  BY Updates
<1> SUFFICES /\ bad => next = O!Refuse(opts)
             /\ ~bad => Made(next, flags, kept, threads)
  BY <1>u DEF StepOf
<1> HIDE DEF kept
<1>1. CASE name \notin O!Permitted(command)
  BY <1>1 DEF TokenRead, Refusing
<1>2. CASE name \in O!Permitted(command)
  <2>0. next = O!Apply(opts, token)
    BY <1>2 DEF TokenRead
  <2>1. CASE name \in DOMAIN O!Choices
    <3>0. name \notin O!Kept /\ name # "threads"
      BY <2>1, Kinds
    <3>1. next = IF arg \notin O!Choices[name] THEN O!Refuse(opts)
                 ELSE [opts EXCEPT !.flags = @ \cup {<<name, arg>>} \cup O!Implied(name, arg)]
      BY <2>0, <2>1, <3>0, Kinds DEF O!Apply
    <3>2. bad <=> arg \notin O!Choices[name]
      BY <1>2, <2>1, <3>0 DEF Refusing
    <3>3. Adds(token) = {<<name, arg>>} \cup O!Implied(name, arg)
      BY <2>1 DEF Adds
    <3>4. [opts EXCEPT !.flags = @ \cup {<<name, arg>>} \cup O!Implied(name, arg)]
            = [opts EXCEPT !.flags = @ \cup Adds(token)]
      <4>1. opts.flags \cup {<<name, arg>>} \cup O!Implied(name, arg) = opts.flags \cup Adds(token)
        BY <3>3
      <4> QED
        BY <4>1
    <3>5. Made([opts EXCEPT !.flags = @ \cup Adds(token)], flags, opts.kept, opts.threads)
      BY Updates
    <3>6. kept = opts.kept /\ threads = opts.threads
      BY <1>k, <1>s, <3>0
    <3> HIDE DEF name, arg, next, flags, threads, bad
    <3> QED
      BY <3>1, <3>2, <3>4, <3>5, <3>6
  <2>2. CASE name \in O!Kept
    <3>0. name \notin DOMAIN O!Choices /\ name \notin O!Switches /\ name # "threads"
      BY <2>2, Kinds
    <3>1. next = IF name \in opts.kept THEN O!Refuse(opts) ELSE [opts EXCEPT !.kept = @ \cup {name}]
      BY <2>0, <2>2, <3>0 DEF O!Apply
    <3>2. bad <=> name \in opts.kept
      BY <1>2, <2>2, <3>0 DEF Refusing
    <3>3. flags = opts.flags
      BY <3>0 DEF Adds
    <3>5. Made([opts EXCEPT !.kept = @ \cup {name}], opts.flags, opts.kept \cup {name}, opts.threads)
      BY Updates
    <3>6. kept = opts.kept \cup {name} /\ threads = opts.threads
      BY <1>k, <1>s, <2>2, <3>0
    <3> HIDE DEF name, arg, next, flags, threads, bad
    <3> QED
      BY <3>1, <3>2, <3>3, <3>5, <3>6
  <2>3. CASE name \in O!Switches
    <3>0. name \notin DOMAIN O!Choices /\ name \notin O!Kept /\ name # "threads"
      BY <2>3, Kinds
    <3>1. next = IF token = O!Short("i", "") THEN opts
                 ELSE [opts EXCEPT !.flags = @ \cup {<<name, "">>}]
      BY <2>0, <2>3, <3>0 DEF O!Apply
    <3>2. ~bad
      BY <1>2, <3>0 DEF Refusing
    <3>3. flags = IF token = O!Short("i", "") THEN opts.flags ELSE opts.flags \cup {<<name, "">>}
      BY <2>3, <3>0 DEF Adds
    <3>4. Made(opts, opts.flags, opts.kept, opts.threads)
      BY Updates
    <3>5. Made([opts EXCEPT !.flags = @ \cup {<<name, "">>}], opts.flags \cup {<<name, "">>},
               opts.kept, opts.threads)
      BY Updates
    <3>6. kept = opts.kept /\ threads = opts.threads
      BY <1>k, <1>s, <3>0
    <3> HIDE DEF name, arg, next, flags, threads, bad
    <3> QED
      BY <3>1, <3>2, <3>3, <3>4, <3>5, <3>6
  <2>4. CASE name = "threads"
    <3>0. name \notin DOMAIN O!Choices /\ name \notin O!Kept /\ name \notin O!Switches
      BY <2>4, Kinds
    <3>1. next = IF ~token.long THEN opts
                 ELSE IF token.arg < 1 THEN O!Refuse(opts) ELSE [opts EXCEPT !.threads = token.arg]
      BY <2>0, <2>4, <3>0 DEF O!Apply
    <3>2. bad <=> token.long /\ token.arg < 1
      BY <1>2, <2>4, <3>0 DEF Refusing
    <3>3. flags = opts.flags
      BY <3>0 DEF Adds
    <3>4. Made(opts, opts.flags, opts.kept, opts.threads)
      BY Updates
    <3>5. Made([opts EXCEPT !.threads = token.arg], opts.flags, opts.kept, token.arg)
      BY Updates
    <3>6. kept = opts.kept /\ threads = IF token.long THEN token.arg ELSE opts.threads
      BY <1>k, <1>s, <2>4, <3>0
    <3> HIDE DEF name, arg, next, flags, threads, bad
    <3> QED
      BY <3>1, <3>2, <3>3, <3>4, <3>5, <3>6
  <2> QED
    BY <1>0, <2>1, <2>2, <2>3, <2>4 DEF O!Names
<1> QED
  BY <1>1, <1>2

-----------------------------------------------------------------------------
(* A row of options.                                                       *)

Line(tokens) ==
  /\ tokens \in Seq(Range(tokens))
  /\ \A token \in Range(tokens) : O!IsToken(token)

\* The function by which OptsGet is defined.
IsRead(f, command, tokens, n) ==
  f = [k \in 0 .. n |->
         IF k = 0 THEN O!NoOpts
         ELSE IF f[k - 1].refused THEN f[k - 1]
         ELSE TokenRead(command, f[k - 1], tokens[k])]

\* There is such a function: it is continued from any option.
LEMMA ReadExists ==
  ASSUME NEW command, NEW tokens, NEW N \in Nat
  PROVE  \E f : IsRead(f, command, tokens, N)
<1> DEFINE F == {n \in 0 .. N : ~ \E f : IsRead(f, command, tokens, n)}
<1> SUFFICES ASSUME F # {} PROVE FALSE
  OBVIOUS
<1> HIDE DEF F
<1>0. F \subseteq Nat
  BY DEF F
<1>1. PICK m \in F : \A n \in F : m <= n
  BY <1>0, SmallestOne
<1>2. m \in 0 .. N /\ ~ \E f : IsRead(f, command, tokens, m)
  BY DEF F
<1>3. m # 0
  <2> SUFFICES ASSUME m = 0 PROVE FALSE
    OBVIOUS
  <2>1. IsRead([n \in 0 .. 0 |-> O!NoOpts], command, tokens, 0)
    BY DEF IsRead
  <2> QED
    BY <1>2, <2>1
<1>4. m - 1 \in 0 .. N /\ m - 1 \notin F
  BY <1>1, <1>2, <1>3
<1>5. PICK f : IsRead(f, command, tokens, m - 1)
  BY <1>4 DEF F
<1> DEFINE Next1(o, n) == IF o.refused THEN o ELSE TokenRead(command, o, tokens[n])
           h == [n \in 0 .. m |-> IF n = m THEN Next1(f[m - 1], m) ELSE f[n]]
<1> HIDE DEF Next1
<1>6. ASSUME NEW n \in 0 .. m
      PROVE  h[n] = IF n = 0 THEN O!NoOpts ELSE Next1(h[n - 1], n)
  <2>1. n # 0 => n - 1 \in 0 .. m /\ n - 1 # m /\ h[n - 1] = f[n - 1]
    BY <1>2, <1>6
  <2>2. CASE n = m
    BY <1>3, <2>1, <2>2
  <2>3. CASE n # m
    <3>1. n \in 0 .. (m - 1) /\ h[n] = f[n]
      BY <1>2, <1>6, <2>3
    <3>2. f[n] = IF n = 0 THEN O!NoOpts ELSE Next1(f[n - 1], n)
      BY <1>5, <3>1 DEF IsRead, Next1
    <3> QED
      BY <2>1, <3>1, <3>2
  <2> QED
    BY <2>2, <2>3
<1>7. h = [n \in 0 .. m |-> h[n]]
  OBVIOUS
<1> HIDE DEF h
<1>8. h = [n \in 0 .. m |-> IF n = 0 THEN O!NoOpts ELSE Next1(h[n - 1], n)]
  BY <1>6, <1>7
<1>9. IsRead(h, command, tokens, m)
  BY <1>8 DEF IsRead, Next1
<1> QED
  BY <1>2, <1>9

\* A row is refused for one of its options, or for two of one kept name.
RefusedAmong(command, tokens, S) ==
  \/ \E i \in S : Refusing(command, tokens[i])
  \/ \E i, j \in S : /\ i # j /\ O!NameOf(tokens[i]) = O!NameOf(tokens[j])
                     /\ O!NameOf(tokens[i]) \in O!Kept

FlagsOf(tokens, S) == UNION {Adds(tokens[i]) : i \in S}
KeptOf(tokens, S) == {O!NameOf(tokens[i]) : i \in S} \cap O!Kept

\* The number of threads: the last one given.
ThreadsOf(tokens, k, threads) ==
  \/ (\A i \in 1 .. k : ~Counts(tokens[i])) /\ threads = 1
  \/ \E i \in 1 .. k : /\ Counts(tokens[i]) /\ threads = tokens[i].arg
                       /\ \A j \in (i + 1) .. k : ~Counts(tokens[j])

\* What the first k options make.
ReadUpto(command, tokens, k, opts) ==
  /\ RefusedAmong(command, tokens, 1 .. k) => Shape(opts) /\ opts.refused
  /\ ~RefusedAmong(command, tokens, 1 .. k) =>
       /\ Made(opts, FlagsOf(tokens, 1 .. k), KeptOf(tokens, 1 .. k), opts.threads)
       /\ ThreadsOf(tokens, k, opts.threads)

\* One option more.
LEMMA OneMore ==
  ASSUME NEW tokens, NEW k \in Nat, k # 0, NEW command
  PROVE  /\ RefusedAmong(command, tokens, 1 .. k)
              <=> \/ RefusedAmong(command, tokens, 1 .. (k - 1))
                  \/ Refusing(command, tokens[k])
                  \/ O!NameOf(tokens[k]) \in O!Kept \cap KeptOf(tokens, 1 .. (k - 1))
         /\ FlagsOf(tokens, 1 .. k) = FlagsOf(tokens, 1 .. (k - 1)) \cup Adds(tokens[k])
         /\ KeptOf(tokens, 1 .. k)
              = KeptOf(tokens, 1 .. (k - 1)) \cup ({O!NameOf(tokens[k])} \cap O!Kept)
<1>1. /\ 1 .. k = (1 .. (k - 1)) \cup {k} /\ k \notin 1 .. (k - 1)
  OBVIOUS
<1> DEFINE S == 1 .. (k - 1)
<1>2. 1 .. k = S \cup {k} /\ k \notin S
  BY <1>1
<1> HIDE DEF S
<1>3. RefusedAmong(command, tokens, S \cup {k})
        <=> \/ RefusedAmong(command, tokens, S)
            \/ Refusing(command, tokens[k])
            \/ O!NameOf(tokens[k]) \in O!Kept \cap KeptOf(tokens, S)
  BY <1>2 DEF RefusedAmong, KeptOf
<1>4. FlagsOf(tokens, S \cup {k}) = FlagsOf(tokens, S) \cup Adds(tokens[k])
  BY DEF FlagsOf
<1>5. KeptOf(tokens, S \cup {k}) = KeptOf(tokens, S) \cup ({O!NameOf(tokens[k])} \cap O!Kept)
  BY DEF KeptOf
<1> QED
  BY <1>2, <1>3, <1>4, <1>5 DEF S

LEMMA ReadSoFar ==
  ASSUME NEW command, NEW tokens, Line(tokens), NEW f, IsRead(f, command, tokens, Len(tokens)),
         NEW k \in 0 .. Len(tokens)
  PROVE  ReadUpto(command, tokens, k, f[k])
<1> DEFINE N == Len(tokens)
<1>0. N \in Nat /\ DOMAIN tokens = 1 .. N
  BY DEF Line
<1>r. \A i \in 1 .. N : O!IsToken(tokens[i])
  BY <1>0 DEF Line, Range
<1> HIDE DEF N
<1>f. IsRead(f, command, tokens, N) /\ k \in 0 .. N
  BY DEF N
<1> DEFINE F == {n \in 0 .. N : ~ReadUpto(command, tokens, n, f[n])}
<1> SUFFICES ASSUME F # {} PROVE FALSE
  BY <1>f
<1> HIDE DEF F
<1>1. F \subseteq Nat
  BY <1>0 DEF F
<1>2. PICK m \in F : \A n \in F : m <= n
  BY <1>1, SmallestOne
<1>3. m \in 0 .. N /\ m \in Nat /\ ~ReadUpto(command, tokens, m, f[m])
  BY <1>0 DEF F
<1>4. m # 0
  <2> SUFFICES ASSUME m = 0 PROVE FALSE
    OBVIOUS
  <2>1. f[0] = O!NoOpts
    BY <1>0, <1>f DEF IsRead
  <2>2. Made(O!NoOpts, {}, {}, 1)
    BY DEF Made, Shape, Fields, O!NoOpts
  <2>3. 1 .. 0 = {}
    OBVIOUS
  <2>4. ~RefusedAmong(command, tokens, {}) /\ FlagsOf(tokens, {}) = {} /\ KeptOf(tokens, {}) = {}
    BY DEF RefusedAmong, FlagsOf, KeptOf
  <2>5. ThreadsOf(tokens, 0, 1)
    BY <2>3 DEF ThreadsOf
  <2>6. O!NoOpts.threads = 1
    BY <2>2 DEF Made
  <2>7. ReadUpto(command, tokens, 0, f[0])
    BY <2>1, <2>2, <2>3, <2>4, <2>5, <2>6 DEF ReadUpto
  <2> QED
    BY <1>3, <2>7
<1>5. m - 1 \in 0 .. N /\ m - 1 \notin F /\ m \in 1 .. N
  BY <1>0, <1>2, <1>3, <1>4
<1> DEFINE o == f[m - 1]
           p == f[m]
           token == tokens[m]
<1>6. ReadUpto(command, tokens, m - 1, o)
  BY <1>5 DEF F
<1>7. p = IF o.refused THEN o ELSE TokenRead(command, o, token)
  BY <1>4, <1>5, <1>3, <1>f DEF IsRead
<1>8. O!IsToken(token)
  BY <1>5, <1>r
<1> HIDE DEF o, p, token
<1>9. CASE RefusedAmong(command, tokens, 1 .. (m - 1))
  <2>1. Shape(o) /\ o.refused
    BY <1>6, <1>9 DEF ReadUpto
  <2>2. RefusedAmong(command, tokens, 1 .. m)
    BY <1>3, <1>4, <1>9, OneMore
  <2> QED
    BY <1>3, <1>7, <2>1, <2>2 DEF ReadUpto, p
<1>10. CASE ~RefusedAmong(command, tokens, 1 .. (m - 1))
  <2>1. /\ Made(o, FlagsOf(tokens, 1 .. (m - 1)), KeptOf(tokens, 1 .. (m - 1)), o.threads)
        /\ ThreadsOf(tokens, m - 1, o.threads)
    BY <1>6, <1>10 DEF ReadUpto
  <2>2. Shape(o) /\ ~o.refused /\ o.flags = FlagsOf(tokens, 1 .. (m - 1))
        /\ o.kept = KeptOf(tokens, 1 .. (m - 1))
    BY <2>1 DEF Made
  <2>3. StepOf(command, o, token, p)
    BY <1>7, <1>8, <2>2, OneStep
  <2> DEFINE bad == Refusing(command, token) \/ O!NameOf(token) \in O!Kept \cap o.kept
             threads == IF Counts(token) THEN token.arg ELSE o.threads
  <2>4. /\ RefusedAmong(command, tokens, 1 .. m) <=> bad
        /\ FlagsOf(tokens, 1 .. m) = o.flags \cup Adds(token)
        /\ KeptOf(tokens, 1 .. m) = o.kept \cup ({O!NameOf(token)} \cap O!Kept)
    <3>1. /\ RefusedAmong(command, tokens, 1 .. m)
               <=> \/ RefusedAmong(command, tokens, 1 .. (m - 1))
                   \/ Refusing(command, tokens[m])
                   \/ O!NameOf(tokens[m]) \in O!Kept \cap KeptOf(tokens, 1 .. (m - 1))
          /\ FlagsOf(tokens, 1 .. m) = FlagsOf(tokens, 1 .. (m - 1)) \cup Adds(tokens[m])
          /\ KeptOf(tokens, 1 .. m)
               = KeptOf(tokens, 1 .. (m - 1)) \cup ({O!NameOf(tokens[m])} \cap O!Kept)
      BY <1>3, <1>4, OneMore
    <3> QED
      BY <1>10, <2>2, <3>1 DEF token
  <2>5. ThreadsOf(tokens, m, threads)
    <3>1. CASE Counts(token)
      <4>1. \A j \in (m + 1) .. m : ~Counts(tokens[j])
        BY <1>3
      <4> QED
        BY <1>3, <1>4, <3>1, <4>1 DEF ThreadsOf, token
    <3>2. CASE ~Counts(token)
      <4>1. threads = o.threads /\ ~Counts(tokens[m])
        BY <3>2 DEF token
      <4>2. CASE (\A i \in 1 .. (m - 1) : ~Counts(tokens[i])) /\ o.threads = 1
        <5>1. \A i \in 1 .. m : ~Counts(tokens[i])
          BY <1>3, <4>1, <4>2
        <5> QED
          BY <4>1, <4>2, <5>1 DEF ThreadsOf
      <4>3. CASE \E i \in 1 .. (m - 1) : /\ Counts(tokens[i]) /\ o.threads = tokens[i].arg
                                          /\ \A j \in (i + 1) .. (m - 1) : ~Counts(tokens[j])
        <5>1. PICK i \in 1 .. (m - 1) : /\ Counts(tokens[i]) /\ o.threads = tokens[i].arg
                                         /\ \A j \in (i + 1) .. (m - 1) : ~Counts(tokens[j])
          BY <4>3
        <5>2. i \in 1 .. m /\ \A j \in (i + 1) .. m : ~Counts(tokens[j])
          BY <1>3, <4>1, <5>1
        <5> QED
          BY <4>1, <5>1, <5>2 DEF ThreadsOf
      <4> QED
        BY <2>1, <4>2, <4>3 DEF ThreadsOf
    <3> QED
      BY <3>1, <3>2
  <2>6. bad => Shape(p) /\ p.refused
    BY <2>3 DEF StepOf
  <2>7. ~bad => Made(p, o.flags \cup Adds(token), o.kept \cup ({O!NameOf(token)} \cap O!Kept), threads)
    BY <2>3 DEF StepOf
  <2>8. ~bad => p.threads = threads
    BY <2>7 DEF Made
  <2> HIDE DEF bad, threads
  <2>9. ReadUpto(command, tokens, m, p)
    BY <2>4, <2>5, <2>6, <2>7, <2>8 DEF ReadUpto
  <2> QED
    BY <1>3, <2>9 DEF p
<1> QED
  BY <1>9, <1>10

\* What all of them make.
LEMMA OptsGetIs ==
  ASSUME NEW command, NEW tokens, Line(tokens)
  PROVE  \E opts : /\ O!OptsGet(command, tokens) = O!OneType(opts)
                   /\ ReadUpto(command, tokens, Len(tokens), opts)
<1> DEFINE N == Len(tokens)
           g == CHOOSE f : IsRead(f, command, tokens, N)
<1>0. N \in Nat
  BY DEF Line
<1>1. IsRead(g, command, tokens, N)
  BY <1>0, ReadExists
<1>2. O!OptsGet(command, tokens) = O!OneType(g[N])
  BY DEF O!OptsGet, IsRead, TokenRead
<1>3. ReadUpto(command, tokens, N, g[N])
  BY <1>0, <1>1, ReadSoFar
<1> QED
  BY <1>2, <1>3

-----------------------------------------------------------------------------
(* The order of the options.                                               *)

\* Backwards there are the same options.
LEMMA Backwards ==
  ASSUME NEW tokens, Line(tokens)
  PROVE  /\ Line(Reverse(tokens))
         /\ Len(Reverse(tokens)) = Len(tokens)
         /\ \A i \in 1 .. Len(tokens) :
              /\ Len(tokens) - i + 1 \in 1 .. Len(tokens)
              /\ Reverse(tokens)[i] = tokens[Len(tokens) - i + 1]
              /\ tokens[i] = Reverse(tokens)[Len(tokens) - i + 1]
<1> DEFINE N == Len(tokens)
           back == Reverse(tokens)
<1>1. N \in Nat /\ DOMAIN tokens = 1 .. N /\ \A i \in 1 .. N : tokens[i] \in Range(tokens)
  BY DEF Line, Range
<1>2. back = [i \in 1 .. N |-> tokens[N - i + 1]]
  BY DEF Reverse
<1>3. \A i \in 1 .. N : N - i + 1 \in 1 .. N /\ N - (N - i + 1) + 1 = i
  BY <1>1
<1>4. \A i \in 1 .. N : back[i] = tokens[N - i + 1] /\ tokens[i] = back[N - i + 1]
  BY <1>2, <1>3
<1> HIDE DEF N, back
<1>5. back \in [1 .. N -> Range(tokens)]
  BY <1>1, <1>2, <1>3
<1>6. back \in Seq(Range(tokens)) /\ Len(back) = N /\ DOMAIN back = 1 .. N
  BY <1>1, <1>5
<1>7. Range(back) \subseteq Range(tokens)
  BY <1>5, <1>6 DEF Range
<1>8. back \in [1 .. N -> Range(back)]
  BY <1>5, <1>6 DEF Range
<1>9. back \in Seq(Range(back))
  BY <1>1, <1>8
<1>10. Line(back)
  BY <1>7, <1>9 DEF Line
<1> QED
  BY <1>3, <1>4, <1>6, <1>10 DEF N, back

\* What a row makes depends on the options in it only.
LEMMA SameOptions ==
  ASSUME NEW command, NEW N \in Nat, NEW a, NEW b,
         \A i \in 1 .. N : N - i + 1 \in 1 .. N /\ a[i] = b[N - i + 1] /\ b[i] = a[N - i + 1]
  PROVE  /\ RefusedAmong(command, a, 1 .. N) => RefusedAmong(command, b, 1 .. N)
         /\ FlagsOf(a, 1 .. N) \subseteq FlagsOf(b, 1 .. N)
         /\ KeptOf(a, 1 .. N) \subseteq KeptOf(b, 1 .. N)
<1>1. ASSUME NEW i \in 1 .. N, Refusing(command, a[i])
      PROVE  RefusedAmong(command, b, 1 .. N)
  <2>1. N - i + 1 \in 1 .. N /\ a[i] = b[N - i + 1]
    OBVIOUS
  <2> QED
    BY <1>1, <2>1 DEF RefusedAmong
<1>2. ASSUME NEW i \in 1 .. N, NEW j \in 1 .. N, i # j, O!NameOf(a[i]) = O!NameOf(a[j]),
             O!NameOf(a[i]) \in O!Kept
      PROVE  RefusedAmong(command, b, 1 .. N)
  <2>1. N - i + 1 \in 1 .. N /\ a[i] = b[N - i + 1]
    OBVIOUS
  <2>2. N - j + 1 \in 1 .. N /\ a[j] = b[N - j + 1]
    OBVIOUS
  <2>3. N - i + 1 # N - j + 1
    BY <1>2
  <2> QED
    BY <1>2, <2>1, <2>2, <2>3 DEF RefusedAmong
<1>3. ASSUME NEW x, x \in FlagsOf(a, 1 .. N) PROVE x \in FlagsOf(b, 1 .. N)
  <2>1. PICK i \in 1 .. N : x \in Adds(a[i])
    BY <1>3 DEF FlagsOf
  <2>2. N - i + 1 \in 1 .. N /\ a[i] = b[N - i + 1]
    OBVIOUS
  <2> QED
    BY <2>1, <2>2 DEF FlagsOf
<1>4. ASSUME NEW x, x \in KeptOf(a, 1 .. N) PROVE x \in KeptOf(b, 1 .. N)
  <2>1. PICK i \in 1 .. N : x = O!NameOf(a[i])
    BY <1>4 DEF KeptOf
  <2>2. N - i + 1 \in 1 .. N /\ a[i] = b[N - i + 1]
    OBVIOUS
  <2> QED
    BY <1>4, <2>1, <2>2 DEF KeptOf
<1> QED
  BY <1>1, <1>2, <1>3, <1>4 DEF RefusedAmong

\* The last number of threads is the only one.
LEMMA SameThreads ==
  ASSUME NEW N \in Nat, NEW a, NEW b, NEW x, NEW y,
         \A i \in 1 .. N : N - i + 1 \in 1 .. N /\ a[i] = b[N - i + 1] /\ b[i] = a[N - i + 1],
         \A i, j \in 1 .. N : Counts(a[i]) /\ Counts(a[j]) => i = j,
         ThreadsOf(a, N, x), ThreadsOf(b, N, y)
  PROVE  x = y
<1>1. CASE \A i \in 1 .. N : ~Counts(a[i])
  <2>1. \A i \in 1 .. N : ~Counts(b[i])
    BY <1>1
  <2> QED
    BY <1>1, <2>1 DEF ThreadsOf
<1>2. CASE \E i \in 1 .. N : Counts(a[i])
  <2>1. PICK i \in 1 .. N : Counts(a[i]) /\ x = a[i].arg
    BY <1>2 DEF ThreadsOf
  <2>2. N - i + 1 \in 1 .. N /\ a[i] = b[N - i + 1]
    OBVIOUS
  <2>3. PICK j \in 1 .. N : Counts(b[j]) /\ y = b[j].arg
    BY <2>1, <2>2 DEF ThreadsOf
  <2>4. N - j + 1 \in 1 .. N /\ b[j] = a[N - j + 1]
    OBVIOUS
  <2>5. N - j + 1 = i
    BY <2>1, <2>3, <2>4
  <2> QED
    BY <2>1, <2>3, <2>4, <2>5
<1> QED
  BY <1>1, <1>2

\* Rows that are read backwards come to the same.
LEMMA OrderMeansNothing ==
  ASSUME NEW command, NEW tokens, Line(tokens), ~OrderMatters(tokens),
         NEW o, ReadUpto(command, tokens, Len(tokens), o),
         NEW p, ReadUpto(command, Reverse(tokens), Len(tokens), p)
  PROVE  o = p \/ (o.refused /\ p.refused)
<1> DEFINE N == Len(tokens)
           back == Reverse(tokens)
<1>0. N \in Nat /\ DOMAIN tokens = 1 .. N
  BY DEF Line
<1>1. \A i \in 1 .. N : N - i + 1 \in 1 .. N /\ tokens[i] = back[N - i + 1] /\ back[i] = tokens[N - i + 1]
  BY Backwards
<1>2. \A i, j \in 1 .. N : Counts(tokens[i]) /\ Counts(tokens[j]) => i = j
  <2> DEFINE C1 == {k \in DOMAIN tokens : tokens[k].long /\ tokens[k].name = "threads"}
  <2>1. ~(Cardinality(C1) > 1)
    BY DEF OrderMatters
  <2>2. IsFiniteSet(1 .. N) /\ C1 \in SUBSET (1 .. N)
    BY <1>0, FS_Interval
  <2>3. IsFiniteSet(C1)
    BY <2>2, FS_Subset
  <2>4. Cardinality(C1) \in Nat
    BY <2>3, FS_CardinalityType
  <2>5. Cardinality(C1) <= 1
    BY <2>1, <2>4
  <2>6. \A i, j \in C1 : i = j
    BY <2>3, <2>5, OneMember
  <2> QED
    BY <1>0, <2>6 DEF Counts
<1> HIDE DEF N, back
<1>3. ReadUpto(command, tokens, N, o) /\ ReadUpto(command, back, N, p)
  BY DEF N, back
<1>4. /\ RefusedAmong(command, tokens, 1 .. N) <=> RefusedAmong(command, back, 1 .. N)
      /\ FlagsOf(tokens, 1 .. N) = FlagsOf(back, 1 .. N)
      /\ KeptOf(tokens, 1 .. N) = KeptOf(back, 1 .. N)
  <2>1. /\ RefusedAmong(command, tokens, 1 .. N) => RefusedAmong(command, back, 1 .. N)
        /\ FlagsOf(tokens, 1 .. N) \subseteq FlagsOf(back, 1 .. N)
        /\ KeptOf(tokens, 1 .. N) \subseteq KeptOf(back, 1 .. N)
    BY <1>0, <1>1, SameOptions
  <2>2. /\ RefusedAmong(command, back, 1 .. N) => RefusedAmong(command, tokens, 1 .. N)
        /\ FlagsOf(back, 1 .. N) \subseteq FlagsOf(tokens, 1 .. N)
        /\ KeptOf(back, 1 .. N) \subseteq KeptOf(tokens, 1 .. N)
    BY <1>0, <1>1, SameOptions
  <2> QED
    BY <2>1, <2>2
<1>5. CASE RefusedAmong(command, tokens, 1 .. N)
  BY <1>3, <1>4, <1>5 DEF ReadUpto
<1>6. CASE ~RefusedAmong(command, tokens, 1 .. N)
  <2>1. /\ Made(o, FlagsOf(tokens, 1 .. N), KeptOf(tokens, 1 .. N), o.threads)
        /\ ThreadsOf(tokens, N, o.threads)
        /\ Made(p, FlagsOf(back, 1 .. N), KeptOf(back, 1 .. N), p.threads)
        /\ ThreadsOf(back, N, p.threads)
    BY <1>3, <1>4, <1>6 DEF ReadUpto
  <2>2. o.threads = p.threads
    BY <1>0, <1>1, <1>2, <2>1, SameThreads
  <2>3. Made(p, FlagsOf(tokens, 1 .. N), KeptOf(tokens, 1 .. N), o.threads)
    BY <1>4, <2>1, <2>2
  <2>4. o = p
    BY <2>1, <2>3, SameShape
  <2> QED
    BY <2>4
<1> QED
  BY <1>5, <1>6

-----------------------------------------------------------------------------
(* What the flags mean.                                                    *)

Outs == {"list", "binary", "json", "qrcode"}

\* What a command that prints its own way does not allow.
Plain == {"node", "config", "help"}

\* The flags that opts_get sets go together.
Together(command, flags) ==
  /\ <<"in-type", "raw">> \in flags => <<"in-format", "binary">> \in flags
  /\ <<"in-type", "binary">> \in flags => <<"in-format", "binary">> \in flags
  /\ <<"in-format", "binary">> \in flags =>
       <<"in-type", "binary">> \in flags \/ <<"in-type", "raw">> \in flags
  /\ <<"out-type", "raw">> \in flags => <<"out-format", "binary">> \in flags
  /\ \A a : <<"out-format", a>> \in flags => a \in Outs /\ command \notin Plain
  /\ \A a : <<"out-type", a>> \in flags => command \in {"privkey", "pubkey"}
  /\ <<"trace", "">> \in flags => command \notin Plain

LEMMA PermittedIs ==
  ASSUME NEW command \in O!Commands
  PROVE  /\ "out-format" \in O!Permitted(command) => command \notin Plain
         /\ "out-type" \in O!Permitted(command) => command \in {"privkey", "pubkey"}
         /\ "trace" \in O!Permitted(command) => command \notin Plain
<1>1. CASE command \in {"privkey", "pubkey"}
  BY <1>1 DEF Plain
<1>2. CASE command \in {"address", "balance"}
  <2>1. "out-type" \notin O!Permitted(command)
    BY <1>2 DEF O!Permitted, O!Reading
  <2> QED
    BY <1>2, <2>1 DEF Plain
<1>3. CASE command = "node"
  BY <1>3 DEF O!Permitted
<1>4. CASE command = "config"
  BY <1>4 DEF O!Permitted
<1>5. CASE command = "help"
  BY <1>5 DEF O!Permitted
<1>6. CASE command = "version"
  <2>1. O!Permitted(command) = {"out-format"}
    BY <1>6 DEF O!Permitted
  <2> QED
    BY <1>6, <2>1 DEF Plain
<1>7. CASE command = "vanity"
  <2>1. O!Permitted(command) = {"case-insensitive", "threads"}
    BY <1>7 DEF O!Permitted
  <2> QED
    BY <1>7, <2>1 DEF Plain
<1> QED
  BY <1>1, <1>2, <1>3, <1>4, <1>5, <1>6, <1>7 DEF O!Commands

\* What one option sets.
LEMMA AddsIs ==
  ASSUME NEW command \in O!Commands, NEW token, ~Refusing(command, token)
  PROVE  Together(command, Adds(token))
<1> DEFINE name == O!NameOf(token)
           arg == O!ArgOf(token)
<1>1. /\ name \in O!Permitted(command)
      /\ name \in DOMAIN O!Choices => arg \in O!Choices[name]
  BY DEF Refusing
<1>p. /\ name \in {"out-format", "trace"} => command \notin Plain
      /\ name = "out-type" => command \in {"privkey", "pubkey"}
  BY <1>1, PermittedIs
<1>c. Adds(token) = IF name \in DOMAIN O!Choices THEN {<<name, arg>>} \cup O!Implied(name, arg)
                    ELSE IF name \in O!Switches /\ token # O!Short("i", "") THEN {<<name, "">>}
                    ELSE {}
  BY DEF Adds
<1> HIDE DEF name, arg
<1>2. CASE name \in DOMAIN O!Choices
  <2>0. Adds(token) = {<<name, arg>>} \cup O!Implied(name, arg)
    BY <1>2, <1>c
  <2>1. CASE name = "in-format"
    <3>1. O!Implied(name, arg) = IF arg = "binary" THEN {<<"in-type", "binary">>} ELSE {}
      BY <2>1 DEF O!Implied
    <3>2. CASE arg = "binary"
      <4>1. Adds(token) = {<<"in-format", "binary">>, <<"in-type", "binary">>}
        BY <2>0, <2>1, <3>1, <3>2
      <4> QED
        BY <4>1 DEF Together
    <3>3. CASE arg # "binary"
      <4>1. Adds(token) = {<<"in-format", arg>>}
        BY <2>0, <2>1, <3>1, <3>3
      <4> QED
        BY <4>1, <3>3 DEF Together
    <3> QED
      BY <3>2, <3>3
  <2>2. CASE name = "in-type"
    <3>1. O!Implied(name, arg) = IF arg \in {"raw", "binary"} THEN {<<"in-format", "binary">>} ELSE {}
      BY <2>2 DEF O!Implied
    <3>2. CASE arg = "binary"
      <4>1. Adds(token) = {<<"in-type", "binary">>, <<"in-format", "binary">>}
        BY <2>0, <2>2, <3>1, <3>2
      <4> QED
        BY <4>1 DEF Together
    <3>3. CASE arg = "raw"
      <4>1. Adds(token) = {<<"in-type", "raw">>, <<"in-format", "binary">>}
        BY <2>0, <2>2, <3>1, <3>3
      <4> QED
        BY <4>1, <2>2 DEF Together
    <3>4. CASE arg \notin {"binary", "raw"}
      <4>1. Adds(token) = {<<"in-type", arg>>}
        BY <2>0, <2>2, <3>1, <3>4
      <4> QED
        BY <4>1, <3>4 DEF Together
    <3> QED
      BY <3>2, <3>3, <3>4
  <2>3. CASE name = "out-type"
    <3>1. O!Implied(name, arg) = IF arg = "raw" THEN {<<"out-format", "binary">>} ELSE {}
      BY <2>3 DEF O!Implied
    <3>2. command \in {"privkey", "pubkey"} /\ command \notin Plain
      BY <1>p, <2>3 DEF Plain
    <3>3. CASE arg = "raw"
      <4>1. Adds(token) = {<<"out-type", "raw">>, <<"out-format", "binary">>}
        BY <2>0, <2>3, <3>1, <3>3
      <4> QED
        BY <4>1, <3>2 DEF Together, Outs
    <3>4. CASE arg # "raw"
      <4>1. Adds(token) = {<<"out-type", arg>>}
        BY <2>0, <2>3, <3>1, <3>4
      <4> QED
        BY <4>1, <3>2, <3>4 DEF Together
    <3> QED
      BY <3>3, <3>4
  <2>4. CASE name = "out-format"
    <3>1. O!Implied(name, arg) = {}
      BY <2>4 DEF O!Implied
    <3>2. O!Choices["out-format"] = Outs
      BY DEF O!Choices, O!Formats, Outs
    <3>3. arg \in Outs /\ command \notin Plain
      BY <1>1, <1>2, <1>p, <2>4, <3>2
    <3> QED
      BY <2>0, <2>4, <3>1, <3>3 DEF Together
  <2>5. CASE name = "compressed"
    <3>1. O!Implied(name, arg) = {}
      BY <2>5 DEF O!Implied
    <3> QED
      BY <2>0, <2>5, <3>1 DEF Together
  <2> QED
    BY <1>2, <2>1, <2>2, <2>3, <2>4, <2>5, Kinds
<1>3. CASE name \notin DOMAIN O!Choices
  <2>0. Adds(token) \subseteq {<<name, "">>}
    BY <1>3, <1>c
  <2>1. name \notin {"in-format", "in-type", "out-format", "out-type"}
    BY <1>3, Kinds
  <2> QED
    BY <1>p, <2>0, <2>1 DEF Together
<1> QED
  BY <1>2, <1>3

LEMMA FlagsTogether ==
  ASSUME NEW command \in O!Commands, NEW tokens, NEW S,
         \A i \in S : ~Refusing(command, tokens[i])
  PROVE  Together(command, FlagsOf(tokens, S))
<1>1. \A i \in S : Together(command, Adds(tokens[i])) /\ Adds(tokens[i]) \subseteq FlagsOf(tokens, S)
  BY AddsIs DEF FlagsOf
<1>2. \A x \in FlagsOf(tokens, S) : \E i \in S : x \in Adds(tokens[i])
  BY DEF FlagsOf
<1> DEFINE fl == FlagsOf(tokens, S)
<1> HIDE DEF fl
<1>3. \A x \in fl : \E s : x \in s /\ s \subseteq fl /\ Together(command, s)
  BY <1>1, <1>2 DEF fl
<1>4. <<"in-type", "raw">> \in fl => <<"in-format", "binary">> \in fl
  BY <1>3 DEF Together
<1>5. <<"in-type", "binary">> \in fl => <<"in-format", "binary">> \in fl
  BY <1>3 DEF Together
<1>6. <<"in-format", "binary">> \in fl => <<"in-type", "binary">> \in fl \/ <<"in-type", "raw">> \in fl
  BY <1>3 DEF Together
<1>7. <<"out-type", "raw">> \in fl => <<"out-format", "binary">> \in fl
  BY <1>3 DEF Together
<1>8. ASSUME NEW a, <<"out-format", a>> \in fl PROVE a \in Outs /\ command \notin Plain
  BY <1>3, <1>8 DEF Together
<1>9. ASSUME NEW a, <<"out-type", a>> \in fl PROVE command \in {"privkey", "pubkey"}
  BY <1>3, <1>9 DEF Together
<1>10. <<"trace", "">> \in fl => command \notin Plain
  BY <1>3 DEF Together
<1>11. Together(command, fl)
  BY <1>4, <1>5, <1>6, <1>7, <1>8, <1>9, <1>10 DEF Together
<1> QED
  BY <1>11 DEF fl

-----------------------------------------------------------------------------
(* What btk_init and the commands make of them.                            *)

Words == O!Formats \cup {"qrcode", "wif", "hex", "raw", "string", "decimal", "sbd", "true", "false"}

\* The module of the options counts as this one does.
LEMMA SameCount ==
  ASSUME NEW S
  PROVE  O!Cardinality(S) = Cardinality(S)
BY DEF O!Cardinality, Cardinality

LEMMA OfIs ==
  ASSUME NEW opts, NEW group
  PROVE  /\ O!Of(opts, group) = {arg \in Words : <<group, arg>> \in opts.flags}
         /\ IsFiniteSet(O!Of(opts, group))
         /\ \A a : a \in O!Of(opts, group) <=> a \in Words /\ <<group, a>> \in opts.flags
<1>1. O!Of(opts, group) = {arg \in Words : <<group, arg>> \in opts.flags}
  BY DEF O!Of, Words
<1>2. Words = {"list", "binary", "json", "qrcode", "wif", "hex", "raw", "string", "decimal", "sbd",
               "true", "false"}
  BY DEF Words, O!Formats
<1>3. IsFiniteSet(Words)
  <2>1. IsFiniteSet({})
    BY FS_EmptySet
  <2>2. IsFiniteSet({} \cup {"list"})
    BY <2>1, FS_AddElement
  <2>3. IsFiniteSet(({} \cup {"list"}) \cup {"binary"})
    BY <2>2, FS_AddElement
  <2> DEFINE A == {"list", "binary"}
  <2>4. IsFiniteSet(A)
    <3>1. A = ({} \cup {"list"}) \cup {"binary"}
      OBVIOUS
    <3> QED
      BY <2>3, <3>1
  <2> HIDE DEF A
  <2>5. IsFiniteSet(A \cup {"json"})
    BY <2>4, FS_AddElement
  <2>6. IsFiniteSet(A \cup {"json"} \cup {"qrcode"})
    BY <2>5, FS_AddElement
  <2>7. IsFiniteSet(A \cup {"json"} \cup {"qrcode"} \cup {"wif"})
    BY <2>6, FS_AddElement
  <2>8. IsFiniteSet(A \cup {"json"} \cup {"qrcode"} \cup {"wif"} \cup {"hex"})
    BY <2>7, FS_AddElement
  <2> DEFINE B == A \cup {"json"} \cup {"qrcode"} \cup {"wif"} \cup {"hex"}
  <2>9. IsFiniteSet(B)
    BY <2>8
  <2> HIDE DEF B
  <2>10. IsFiniteSet(B \cup {"raw"})
    BY <2>9, FS_AddElement
  <2>11. IsFiniteSet(B \cup {"raw"} \cup {"string"})
    BY <2>10, FS_AddElement
  <2>12. IsFiniteSet(B \cup {"raw"} \cup {"string"} \cup {"decimal"})
    BY <2>11, FS_AddElement
  <2>13. IsFiniteSet(B \cup {"raw"} \cup {"string"} \cup {"decimal"} \cup {"sbd"})
    BY <2>12, FS_AddElement
  <2> DEFINE C1 == B \cup {"raw"} \cup {"string"} \cup {"decimal"} \cup {"sbd"}
  <2>14. IsFiniteSet(C1)
    BY <2>13
  <2> HIDE DEF C1
  <2>15. IsFiniteSet(C1 \cup {"true"})
    BY <2>14, FS_AddElement
  <2>16. IsFiniteSet(C1 \cup {"true"} \cup {"false"})
    BY <2>15, FS_AddElement
  <2>17. Words = C1 \cup {"true"} \cup {"false"}
    BY <1>2 DEF A, B, C1
  <2> QED
    BY <2>16, <2>17
<1>4. O!Of(opts, group) \in SUBSET Words
  BY <1>1
<1> QED
  BY <1>1, <1>3, <1>4, FS_Subset

\* One of the formats it can have, and nothing that speaks against it.
Ready(command, opts) ==
  /\ \A group \in {"in-type", "in-format"} : \A a, b \in O!Of(opts, group) : a = b
  /\ O!Of(opts, "in-type") \cap {"raw", "binary"} # {} <=> "binary" \in O!Of(opts, "in-format")
  /\ \E p \in Outs :
       /\ O!Of(opts, "out-format") = {p}
       /\ "raw" \in O!Of(opts, "out-type") => p = "binary"
       /\ command \in Plain => p = "json"
       /\ O!Is(opts, "trace") => p = "json"
  /\ O!Of(opts, "out-type") # {} => command \in {"privkey", "pubkey"}
  /\ O!Is(opts, "trace") => /\ "binary" \notin O!Of(opts, "in-format")
                            /\ ~O!Is(opts, "create")
                            /\ command \notin Plain

\* A flag more changes its own group only.
LEMMA SetsIs ==
  ASSUME NEW opts, Shape(opts), ~opts.refused, NEW group, NEW arg
  PROVE  /\ Made(O!Sets(opts, group, arg), opts.flags \cup {<<group, arg>>}, opts.kept, opts.threads)
         /\ \A other : other # group => O!Of(O!Sets(opts, group, arg), other) = O!Of(opts, other)
         /\ arg \in Words => O!Of(O!Sets(opts, group, arg), group) = O!Of(opts, group) \cup {arg}
         /\ \A switch : switch # group => (O!Is(O!Sets(opts, group, arg), switch) <=> O!Is(opts, switch))
<1> DEFINE next == O!Sets(opts, group, arg)
<1>1. Made(next, opts.flags \cup {<<group, arg>>}, opts.kept, opts.threads)
  BY Updates DEF O!Sets
<1>2. next.flags = opts.flags \cup {<<group, arg>>}
  BY <1>1 DEF Made
<1> HIDE DEF next
<1>3. ASSUME NEW other, other # group PROVE O!Of(next, other) = O!Of(opts, other)
  BY <1>2, <1>3 DEF O!Of
<1>4. ASSUME arg \in Words PROVE O!Of(next, group) = O!Of(opts, group) \cup {arg}
  BY <1>2, <1>4 DEF O!Of, Words
<1>5. ASSUME NEW switch, switch # group PROVE O!Is(next, switch) <=> O!Is(opts, switch)
  BY <1>2, <1>5 DEF O!Is
<1> QED
  BY <1>1, <1>3, <1>4, <1>5 DEF next

LEMMA SetsOthers ==
  ASSUME NEW opts, Shape(opts), ~opts.refused, NEW group, NEW arg, NEW other, other # group
  PROVE  O!Of(O!Sets(opts, group, arg), other) = O!Of(opts, other)
<1> DEFINE next == O!Sets(opts, group, arg)
<1>1. Made(next, opts.flags \cup {<<group, arg>>}, opts.kept, opts.threads)
  BY SetsIs
<1>2. next.flags = opts.flags \cup {<<group, arg>>}
  BY <1>1 DEF Made
<1> HIDE DEF next
<1>3. O!Of(next, other) = O!Of(opts, other)
  BY <1>2 DEF O!Of
<1> QED
  BY <1>3 DEF next

LEMMA SetsOwn ==
  ASSUME NEW opts, Shape(opts), ~opts.refused, NEW group, NEW arg \in Words
  PROVE  O!Of(O!Sets(opts, group, arg), group) = O!Of(opts, group) \cup {arg}
BY SetsIs

LEMMA InitReady ==
  ASSUME NEW command \in O!Commands, NEW opts, Shape(opts), ~opts.refused,
         Together(command, opts.flags),
         \A a, b \in O!Of(opts, "in-type") : a = b,
         ~O!BtkInit(opts).refused
  PROVE  Shape(O!BtkInit(opts)) /\ Ready(command, O!BtkInit(opts))
<1> DEFINE made == O!DefaultFormat(opts)
           in == O!Of(opts, "in-format")
           out == O!Of(opts, "out-format")
<1>r. Shape(O!Refuse(opts)) /\ O!Refuse(opts).refused
  BY Updates
<1>1. /\ O!BtkInit(opts) = made
      /\ ~(Cardinality(in) > 1) /\ ~(Cardinality(out) > 1)
      /\ ~O!TraceRefused(made)
  <2> DEFINE bad == \/ opts.refused
                    \/ Cardinality(in) > 1
                    \/ Cardinality(out) > 1
                    \/ "binary" \in out /\ "grep" \in opts.kept
                    \/ O!TraceRefused(made)
  <2>1. O!BtkInit(opts) = IF bad THEN O!Refuse(opts) ELSE made
    <3>1. /\ O!Cardinality(O!Of(opts, "in-format")) = Cardinality(O!Of(opts, "in-format"))
          /\ O!Cardinality(O!Of(opts, "out-format")) = Cardinality(O!Of(opts, "out-format"))
      BY SameCount
    <3> QED
      BY <3>1 DEF O!BtkInit
  <2> HIDE DEF bad
  <2>2. ~bad
    BY <1>r, <2>1
  <2>3. O!BtkInit(opts) = made
    BY <2>1, <2>2
  <2> QED
    BY <2>2, <2>3 DEF bad
<1>2. \A a, b \in in : a = b
  <2>1. IsFiniteSet(in) /\ Cardinality(in) \in Nat
    BY OfIs, FS_CardinalityType
  <2>2. Cardinality(in) <= 1
    BY <1>1, <2>1
  <2> QED
    BY <2>1, <2>2, OneMember
<1>3. \A a, b \in out : a = b
  <2>1. IsFiniteSet(out) /\ Cardinality(out) \in Nat
    BY OfIs, FS_CardinalityType
  <2>2. Cardinality(out) <= 1
    BY <1>1, <2>1
  <2> QED
    BY <2>1, <2>2, OneMember
<1>4. made = IF out = {} THEN O!Sets(opts, "out-format", "json") ELSE opts
  BY DEF O!DefaultFormat, O!Sets
<1>5. Outs \subseteq Words /\ "raw" \in Words
  BY DEF Outs, Words, O!Formats
<1>6. \A a \in out : a \in Outs /\ command \notin Plain
  BY OfIs DEF Together
<1>7. "raw" \in O!Of(opts, "out-type") => "binary" \in out
  <2>1. "binary" \in Words
    BY DEF Words, O!Formats
  <2> QED
    BY <2>1, OfIs DEF Together
<1>8. O!Of(opts, "out-type") # {} => command \in {"privkey", "pubkey"}
  BY OfIs DEF Together
<1>9. O!Of(opts, "in-type") \cap {"raw", "binary"} # {} <=> "binary" \in in
  <2>1. {"raw", "binary"} \subseteq Words
    BY DEF Words, O!Formats
  <2>2. \A a \in {"raw", "binary"} : a \in O!Of(opts, "in-type") <=> <<"in-type", a>> \in opts.flags
    BY <2>1, OfIs
  <2>3. "binary" \in in <=> <<"in-format", "binary">> \in opts.flags
    BY <2>1, OfIs
  <2> QED
    BY <2>2, <2>3 DEF Together
<1>10. O!Is(opts, "trace") => command \notin Plain
  BY DEF O!Is, Together
<1>11. /\ Shape(made)
       /\ \A group \in {"in-type", "in-format", "out-type"} : O!Of(made, group) = O!Of(opts, group)
       /\ \A switch \in {"trace", "create"} : O!Is(made, switch) <=> O!Is(opts, switch)
       /\ O!Of(made, "out-format") = IF out = {} THEN {"json"} ELSE out
  <2>1. CASE out = {}
    <3>1. "json" \in Words
      BY DEF Words, O!Formats
    <3>2. made = O!Sets(opts, "out-format", "json")
      BY <1>4, <2>1
    <3> HIDE DEF made
    <3>3. Shape(made)
      BY <3>2, SetsIs DEF Made
    <3>4. O!Of(made, "out-format") = {"json"}
      <4>1. O!Of(O!Sets(opts, "out-format", "json"), "out-format") = out \cup {"json"}
        BY <3>1, SetsIs
      <4> QED
        BY <2>1, <3>2, <4>1
    <3>5. \A group \in {"in-type", "in-format", "out-type"} : O!Of(made, group) = O!Of(opts, group)
      <4>1. \A group : group # "out-format" =>
              O!Of(O!Sets(opts, "out-format", "json"), group) = O!Of(opts, group)
        BY SetsIs
      <4>2. "in-type" # "out-format" /\ "in-format" # "out-format" /\ "out-type" # "out-format"
        OBVIOUS
      <4> QED
        BY <3>2, <4>1, <4>2
    <3>6. \A switch \in {"trace", "create"} : O!Is(made, switch) <=> O!Is(opts, switch)
      BY <3>2, SetsIs
    <3> QED
      BY <2>1, <3>3, <3>4, <3>5, <3>6
  <2>2. CASE out # {}
    BY <1>4, <2>2
  <2> QED
    BY <2>1, <2>2
<1>12. O!Is(made, "trace") => /\ "json" \in O!Of(made, "out-format")
                              /\ "binary" \notin O!Of(made, "in-format")
                              /\ ~O!Is(made, "create")
  BY <1>1 DEF O!TraceRefused
<1> HIDE DEF made, in
<1>13. PICK p \in Outs : /\ O!Of(made, "out-format") = {p}
                         /\ out = {} => p = "json"
                         /\ out # {} => p \in out
  <2>1. CASE out = {}
    BY <1>11, <2>1 DEF Outs
  <2>2. CASE out # {}
    <3>1. PICK p \in out : out = {p}
      BY <1>3, <2>2
    <3> QED
      BY <1>6, <1>11, <2>2, <3>1
  <2> QED
    BY <2>1, <2>2
<1>14. "raw" \in O!Of(made, "out-type") => p = "binary"
  BY <1>3, <1>7, <1>11, <1>13
<1>15. command \in Plain => p = "json"
  BY <1>6, <1>13
<1>16. O!Is(made, "trace") => p = "json"
  BY <1>12, <1>13
<1>17. Ready(command, made)
  <2>1. \A group \in {"in-type", "in-format"} : \A a, b \in O!Of(made, group) : a = b
    BY <1>2, <1>11 DEF in
  <2>2. O!Of(made, "in-type") \cap {"raw", "binary"} # {} <=> "binary" \in O!Of(made, "in-format")
    BY <1>9, <1>11 DEF in
  <2>3. O!Of(made, "out-type") # {} => command \in {"privkey", "pubkey"}
    BY <1>8, <1>11
  <2>4. O!Is(made, "trace") => command \notin Plain
    BY <1>10, <1>11
  <2> QED
    BY <2>1, <2>2, <2>3, <2>4, <1>12, <1>13, <1>14, <1>15, <1>16 DEF Ready
<1> QED
  BY <1>1, <1>11, <1>17

\* What OptionsOneMeaning asks of options that are accepted.
Meaning(command, opts) ==
  LET types == O!Of(opts, "in-type")
      out == O!Of(opts, "out-type")
      printed == O!PrintedAs(opts)
  IN  /\ Cardinality(types) <= 1 /\ Cardinality(O!Of(opts, "in-format")) <= 1
      /\ types \cap {"raw", "binary"} # {} <=> O!Of(opts, "in-format") = {"binary"}
      /\ "raw" \in out => out = {"raw"} /\ printed = "binary"
      /\ printed \in
           (IF command \in {"node", "config"} THEN {"list"}
            ELSE IF command = "help" THEN {"binary"} ELSE O!Of(opts, "out-format"))
      /\ O!Is(opts, "trace") => /\ printed = "json"
                                /\ O!Of(opts, "in-format") # {"binary"}
                                /\ ~O!Is(opts, "create")

\* A single format is the one that is printed.
LEMMA PrintedIs ==
  ASSUME NEW opts, NEW p \in Outs, O!Of(opts, "out-format") = {p}
  PROVE  O!PrintedAs(opts) = p
<1>1. CASE p = "list"
  BY <1>1 DEF O!PrintedAs
<1>2. CASE p = "qrcode"
  BY <1>2 DEF O!PrintedAs
<1>3. CASE p = "binary"
  BY <1>3 DEF O!PrintedAs
<1>4. CASE p = "json"
  BY <1>4 DEF O!PrintedAs
<1> QED
  BY <1>1, <1>2, <1>3, <1>4 DEF Outs

\* What is true of the input whatever a command adds.
LEMMA InputMeans ==
  ASSUME NEW command, NEW b, Ready(command, b), NEW f,
         \A group \in {"in-type", "in-format"} : O!Of(f, group) = O!Of(b, group)
  PROVE  /\ Cardinality(O!Of(f, "in-type")) <= 1 /\ Cardinality(O!Of(f, "in-format")) <= 1
         /\ O!Of(f, "in-type") \cap {"raw", "binary"} # {} <=> O!Of(f, "in-format") = {"binary"}
<1>1. \A x, y \in O!Of(f, "in-type") : x = y
  BY DEF Ready
<1>2. \A x, y \in O!Of(f, "in-format") : x = y
  BY DEF Ready
<1>3. Cardinality(O!Of(f, "in-type")) <= 1 /\ Cardinality(O!Of(f, "in-format")) <= 1
  BY <1>1, <1>2, NoMoreThanOne
<1>4. O!Of(f, "in-type") \cap {"raw", "binary"} # {} <=> "binary" \in O!Of(f, "in-format")
  BY DEF Ready
<1>5. "binary" \in O!Of(f, "in-format") <=> O!Of(f, "in-format") = {"binary"}
  BY <1>2
<1> QED
  BY <1>3, <1>4, <1>5

\* A command that leaves the formats alone.
LEMMA LeavesFormats ==
  ASSUME NEW command, command \notin Plain, NEW b, Ready(command, b), NEW f,
         \A group \in {"in-type", "in-format", "out-format"} : O!Of(f, group) = O!Of(b, group),
         \A switch \in {"trace", "create"} : O!Is(f, switch) <=> O!Is(b, switch),
         "raw" \in O!Of(f, "out-type") => O!Of(f, "out-type") = {"raw"} /\ "raw" \in O!Of(b, "out-type")
  PROVE  Meaning(command, f)
<1>1. PICK p \in Outs :
        /\ O!Of(b, "out-format") = {p}
        /\ "raw" \in O!Of(b, "out-type") => p = "binary"
        /\ O!Is(b, "trace") => p = "json"
  BY DEF Ready
<1>2. O!Of(f, "out-format") = {p}
  BY <1>1
<1>3. O!PrintedAs(f) = p
  BY <1>2, PrintedIs
<1>4. "raw" \in O!Of(f, "out-type") => O!Of(f, "out-type") = {"raw"} /\ O!PrintedAs(f) = "binary"
  BY <1>1, <1>3
<1>5. O!PrintedAs(f) \in (IF command \in {"node", "config"} THEN {"list"}
            ELSE IF command = "help" THEN {"binary"} ELSE O!Of(f, "out-format"))
  BY <1>2, <1>3 DEF Plain
<1>6. O!Is(f, "trace") => /\ O!PrintedAs(f) = "json"
                          /\ O!Of(f, "in-format") # {"binary"}
                          /\ ~O!Is(f, "create")
  BY <1>1, <1>3 DEF Ready
<1>7. /\ Cardinality(O!Of(f, "in-type")) <= 1 /\ Cardinality(O!Of(f, "in-format")) <= 1
      /\ O!Of(f, "in-type") \cap {"raw", "binary"} # {} <=> O!Of(f, "in-format") = {"binary"}
  BY InputMeans
<1> QED
  BY <1>4, <1>5, <1>6, <1>7 DEF Meaning

\* A command that prints its own way.
LEMMA PrintsItsWay ==
  ASSUME NEW command \in Plain, NEW b, Shape(b), ~b.refused, Ready(command, b), NEW own,
         own = IF command = "help" THEN "binary" ELSE "list"
  PROVE  Meaning(command, O!Sets(b, "out-format", own))
<1> DEFINE f == O!Sets(b, "out-format", own)
<1>1. O!Of(b, "out-format") = {"json"} /\ O!Of(b, "out-type") = {} /\ ~O!Is(b, "trace")
  BY DEF Ready, Plain
<1>2. own \in Words
  BY DEF Words, O!Formats
<1>3. \A group : group # "out-format" => O!Of(f, group) = O!Of(b, group)
  BY SetsOthers
<1>4. O!Of(f, "out-format") = {"json"} \cup {own}
  BY <1>1, <1>2, SetsOwn
<1>5. O!Is(f, "trace") <=> O!Is(b, "trace")
  BY SetsIs
<1> HIDE DEF f
<1>6. O!PrintedAs(f) = own
  <2>1. CASE own = "list"
    BY <1>4, <2>1 DEF O!PrintedAs
  <2>2. CASE own = "binary"
    BY <1>4, <2>2 DEF O!PrintedAs
  <2> QED
    BY <2>1, <2>2
<1>7. O!Of(f, "out-type") = {} /\ ~O!Is(f, "trace")
  BY <1>1, <1>3, <1>5
<1>8. \A group \in {"in-type", "in-format"} : O!Of(f, group) = O!Of(b, group)
  BY <1>3
<1>9. /\ Cardinality(O!Of(f, "in-type")) <= 1 /\ Cardinality(O!Of(f, "in-format")) <= 1
      /\ O!Of(f, "in-type") \cap {"raw", "binary"} # {} <=> O!Of(f, "in-format") = {"binary"}
  BY <1>8, InputMeans
<1>10. own \in (IF command \in {"node", "config"} THEN {"list"}
               ELSE IF command = "help" THEN {"binary"} ELSE O!Of(f, "out-format"))
  BY DEF Plain
<1>11. Meaning(command, f)
  BY <1>6, <1>7, <1>9, <1>10 DEF Meaning
<1> QED
  BY <1>11 DEF f

\* The init functions.
LEMMA InitMeans ==
  ASSUME NEW command \in O!Commands, command # "vanity", NEW b, Shape(b), ~b.refused,
         Ready(command, b), ~O!CommandInit(command, b).refused
  PROVE  Meaning(command, O!CommandInit(command, b))
<1> DEFINE f == O!CommandInit(command, b)
<1>r. Shape(O!Refuse(b)) /\ O!Refuse(b).refused
  BY Updates
<1>w. command \notin {"privkey", "pubkey"} => "raw" \notin O!Of(b, "out-type")
  BY DEF Ready
<1>s. ASSUME f = b, command \notin Plain, "raw" \in O!Of(b, "out-type") => O!Of(b, "out-type") = {"raw"}
      PROVE  Meaning(command, f)
  BY <1>s, LeavesFormats
<1>1. CASE command = "privkey"
  <2>0. f = O!PrivkeyInit(b)
    BY <1>1 DEF O!CommandInit
  <2>1. ~("raw" \in O!Of(b, "out-type") /\ O!Of(b, "out-type") # {"raw"})
    BY <1>r, <2>0 DEF O!PrivkeyInit
  <2>2. f = IF O!Of(b, "out-type") = {} THEN O!Sets(b, "out-type", "wif") ELSE b
    BY <2>0, <2>1 DEF O!PrivkeyInit
  <2>3. CASE O!Of(b, "out-type") = {}
    <3>1. "wif" \in Words
      BY DEF Words
    <3>2. O!Of(O!Sets(b, "out-type", "wif"), "out-type") = {"wif"}
      BY <2>3, <3>1, SetsOwn
    <3>3. \A group : group # "out-type" =>
            O!Of(O!Sets(b, "out-type", "wif"), group) = O!Of(b, group)
      BY SetsOthers
    <3>4. \A switch : switch # "out-type" =>
            (O!Is(O!Sets(b, "out-type", "wif"), switch) <=> O!Is(b, switch))
      BY SetsIs
    <3>5. f = O!Sets(b, "out-type", "wif")
      BY <2>2, <2>3
    <3> HIDE DEF f
    <3>6. \A group \in {"in-type", "in-format", "out-format"} : O!Of(f, group) = O!Of(b, group)
      BY <3>3, <3>5
    <3>7. \A switch \in {"trace", "create"} : O!Is(f, switch) <=> O!Is(b, switch)
      BY <3>4, <3>5
    <3>8. "raw" \notin O!Of(f, "out-type")
      BY <3>2, <3>5
    <3>9. Meaning(command, f)
      BY <1>1, <3>6, <3>7, <3>8, LeavesFormats DEF Plain
    <3> QED
      BY <3>9 DEF f
  <2>4. CASE O!Of(b, "out-type") # {}
    BY <1>1, <1>s, <2>1, <2>2, <2>4 DEF Plain
  <2> QED
    BY <2>3, <2>4
<1>2. CASE command = "pubkey"
  <2>0. f = O!PubkeyInit(b)
    BY <1>2 DEF O!CommandInit
  <2>1. ~(O!Of(b, "out-type") \ {"hex"} # {})
    BY <1>r, <2>0 DEF O!PubkeyInit
  <2>2. f = b /\ "raw" \notin O!Of(b, "out-type")
    BY <2>0, <2>1 DEF O!PubkeyInit
  <2> QED
    BY <1>2, <1>s, <2>2 DEF Plain
<1>3. CASE command = "address"
  <2>0. f = O!AddressInit(b)
    BY <1>3 DEF O!CommandInit
  <2>1. f = b \/ f = O!Sets(b, "legacy", "")
    BY <2>0 DEF O!AddressInit
  <2>2. CASE f = b
    BY <1>3, <1>s, <1>w, <2>2 DEF Plain
  <2>3. CASE f = O!Sets(b, "legacy", "")
    <3>1. \A group : group # "legacy" => O!Of(O!Sets(b, "legacy", ""), group) = O!Of(b, group)
      BY SetsOthers
    <3>2. \A switch : switch # "legacy" => (O!Is(O!Sets(b, "legacy", ""), switch) <=> O!Is(b, switch))
      BY SetsIs
    <3> HIDE DEF f
    <3>3. \A group \in {"in-type", "in-format", "out-format", "out-type"} : O!Of(f, group) = O!Of(b, group)
      BY <2>3, <3>1
    <3>4. \A switch \in {"trace", "create"} : O!Is(f, switch) <=> O!Is(b, switch)
      BY <2>3, <3>2
    <3>5. "raw" \notin O!Of(f, "out-type")
      BY <1>3, <1>w, <3>3
    <3>6. Meaning(command, f)
      BY <1>3, <3>3, <3>4, <3>5, LeavesFormats DEF Plain
    <3> QED
      BY <3>6 DEF f
  <2> QED
    BY <2>1, <2>2, <2>3
<1>4. CASE command = "balance"
  <2>0. f = O!BalanceInit(b)
    BY <1>4 DEF O!CommandInit
  <2>1. f = b
    BY <1>r, <2>0 DEF O!BalanceInit
  <2> QED
    BY <1>4, <1>s, <1>w, <2>1 DEF Plain
<1>5. CASE command = "version"
  <2>1. f = b
    BY <1>5 DEF O!CommandInit
  <2> QED
    BY <1>5, <1>s, <1>w, <2>1 DEF Plain
<1>6. CASE command = "node"
  <2>0. f = O!NodeInit(b)
    BY <1>6 DEF O!CommandInit
  <2>1. f = O!Sets(b, "out-format", "list")
    BY <1>r, <2>0 DEF O!NodeInit
  <2> QED
    BY <1>6, <2>1, PrintsItsWay DEF Plain
<1>7. CASE command = "config"
  <2>0. f = O!ConfigInit(b)
    BY <1>7 DEF O!CommandInit
  <2>1. f = O!Sets(b, "out-format", "list")
    BY <1>r, <2>0 DEF O!ConfigInit
  <2> QED
    BY <1>7, <2>1, PrintsItsWay DEF Plain
<1>8. CASE command = "help"
  <2>0. f = O!HelpInit(b)
    BY <1>8 DEF O!CommandInit
  <2>1. f = O!Sets(b, "out-format", "binary")
    BY <2>0 DEF O!HelpInit
  <2> QED
    BY <1>8, <2>1, PrintsItsWay DEF Plain
<1> QED
  BY <1>1, <1>2, <1>3, <1>4, <1>5, <1>6, <1>7, <1>8 DEF O!Commands

\* What is configured sets no flag and refuses nothing.
LEMMA ConfigSets ==
  ASSUME NEW command, NEW opts, Shape(opts), NEW configured
  PROVE  /\ Shape(O!OptsSetConfig(command, opts, configured))
         /\ O!OptsSetConfig(command, opts, configured).refused = opts.refused
         /\ O!OptsSetConfig(command, opts, configured).flags = opts.flags
<1> DEFINE more == [opts EXCEPT !.kept = @ \cup configured]
<1>1. Shape(more) /\ more.refused = opts.refused /\ more.flags = opts.flags
  BY DEF Shape, Fields
<1>2. O!OptsSetConfig(command, opts, configured) \in {more, opts}
  BY DEF O!OptsSetConfig
<1> QED
  BY <1>1, <1>2

\* What is accepted of a row of options.
LEMMA AcceptMeans ==
  ASSUME NEW command \in O!Commands, NEW tokens, Line(tokens), NEW configured,
         ~O!Accept(command, tokens, configured).refused
  PROVE  Meaning(command, O!Accept(command, tokens, configured))
<1> DEFINE N == Len(tokens)
           g == O!OptsGet(command, tokens)
           s == O!OptsSetConfig(command, g, configured)
           b == O!BtkInit(s)
<1>1. PICK opts : g = O!OneType(opts) /\ ReadUpto(command, tokens, N, opts)
  BY OptsGetIs
<1>2. O!Accept(command, tokens, configured) = IF b.refused \/ command = "vanity" THEN b ELSE O!CommandInit(command, b)
  BY DEF O!Accept
<1>3. ~b.refused
  BY <1>2
<1>s. Shape(g)
  <2>1. Shape(opts)
    BY <1>1 DEF ReadUpto, Made
  <2>2. g \in {opts, O!Refuse(opts)}
    BY <1>1 DEF O!OneType
  <2>3. Shape(O!Refuse(opts))
    BY <2>1 DEF Shape, Fields, O!Refuse
  <2> QED
    BY <2>1, <2>2, <2>3
<1>c. Shape(s) /\ s.refused = g.refused /\ s.flags = g.flags
  BY <1>s, ConfigSets
<1> HIDE DEF s
<1>4. ASSUME g.refused PROVE FALSE
  <2>1. b = O!Refuse(s)
    BY <1>4, <1>c DEF O!BtkInit
  <2>2. O!Refuse(s).refused
    BY <1>c DEF Shape, Fields, O!Refuse
  <2> QED
    BY <1>3, <2>1, <2>2
<1> HIDE DEF g
<1>5. ~opts.refused /\ g = opts /\ ~(Cardinality(O!Of(opts, "in-type")) > 1)
  <2>1. Shape(opts)
    BY <1>1 DEF ReadUpto, Made
  <2>2. O!Refuse(opts).refused
    BY <2>1 DEF Shape, Fields, O!Refuse
  <2>3. g = IF O!Cardinality(O!Of(opts, "in-type")) > 1 THEN O!Refuse(opts) ELSE opts
    BY <1>1 DEF O!OneType
  <2>4. ~(O!Cardinality(O!Of(opts, "in-type")) > 1)
    BY <1>4, <2>2, <2>3
  <2> QED
    BY <1>4, <2>3, <2>4, SameCount
<1>6. ~RefusedAmong(command, tokens, 1 .. N)
  BY <1>1, <1>5 DEF ReadUpto
<1>7. Made(opts, FlagsOf(tokens, 1 .. N), KeptOf(tokens, 1 .. N), opts.threads)
  BY <1>1, <1>6 DEF ReadUpto
<1>8. Shape(opts) /\ opts.flags = FlagsOf(tokens, 1 .. N)
  BY <1>7 DEF Made
<1>9. Together(command, opts.flags)
  BY <1>6, <1>8, FlagsTogether DEF RefusedAmong
<1>10. \A x, y \in O!Of(opts, "in-type") : x = y
  <2>1. IsFiniteSet(O!Of(opts, "in-type"))
    BY OfIs
  <2>2. Cardinality(O!Of(opts, "in-type")) \in Nat
    BY <2>1, FS_CardinalityType
  <2>3. Cardinality(O!Of(opts, "in-type")) <= 1
    BY <1>5, <2>2
  <2> QED
    BY <2>1, <2>3, OneMember
<1>11. Shape(b) /\ Ready(command, b)
  <2>1. ~s.refused /\ Together(command, s.flags)
    BY <1>4, <1>5, <1>9, <1>c
  <2>2. \A x, y \in O!Of(s, "in-type") : x = y
    <3>1. O!Of(s, "in-type") = O!Of(opts, "in-type")
      BY <1>5, <1>c, OfIs
    <3> QED
      BY <1>10, <3>1
  <2> QED
    BY <1>3, <1>c, <2>1, <2>2, InitReady
<1> HIDE DEF b
<1>12. CASE command = "vanity"
  <2>1. "raw" \notin O!Of(b, "out-type")
    BY <1>11, <1>12 DEF Ready
  <2>2. Meaning(command, b)
    BY <1>11, <1>12, <2>1, LeavesFormats DEF Plain
  <2> QED
    BY <1>2, <1>12, <2>2
<1>13. CASE command # "vanity"
  <2>1. O!Accept(command, tokens, configured) = O!CommandInit(command, b)
    BY <1>2, <1>3, <1>13
  <2> QED
    BY <1>3, <1>11, <1>13, <2>1, InitMeans
<1> QED
  BY <1>12, <1>13

\* What btk_init and the init functions refuse they do not take back.
LEMMA StaysRefused ==
  ASSUME NEW command, NEW tokens, Line(tokens), NEW configured, NEW opts,
         O!OptsGet(command, tokens) = O!OneType(opts), Shape(opts), opts.refused
  PROVE  O!Accept(command, tokens, configured).refused = TRUE
<1> DEFINE g == O!OptsGet(command, tokens)
           s == O!OptsSetConfig(command, g, configured)
<1>1. g \in {opts, O!Refuse(opts)}
  BY DEF O!OneType
<1>2. Shape(O!Refuse(opts)) /\ O!Refuse(opts).refused
  BY DEF Shape, Fields, O!Refuse
<1>3. Shape(g) /\ g.refused
  BY <1>1, <1>2
<1>s. Shape(s) /\ s.refused
  BY <1>3, ConfigSets
<1>4. O!BtkInit(s) = O!Refuse(s)
  BY <1>s DEF O!BtkInit
<1>5. O!Refuse(s).refused = TRUE
  BY <1>s DEF Shape, Fields, O!Refuse
<1>6. O!Accept(command, tokens, configured) = O!Refuse(s)
  BY <1>4, <1>5 DEF O!Accept
<1> QED
  BY <1>5, <1>6

LEMMA OrderAgrees ==
  ASSUME NEW command, NEW tokens, Line(tokens), NEW configured, ~OrderMatters(tokens)
  PROVE  Agree(O!Accept(command, tokens, configured), O!Accept(command, Reverse(tokens), configured))
<1> DEFINE N == Len(tokens)
           back == Reverse(tokens)
<1>1. Line(back) /\ Len(back) = N
  BY Backwards
<1>2. PICK o : O!OptsGet(command, tokens) = O!OneType(o) /\ ReadUpto(command, tokens, N, o)
  BY OptsGetIs
<1>3. PICK p : O!OptsGet(command, back) = O!OneType(p) /\ ReadUpto(command, back, N, p)
  BY <1>1, OptsGetIs
<1>4. o = p \/ (o.refused /\ p.refused)
  BY <1>2, <1>3, OrderMeansNothing
<1> HIDE DEF N, back
<1>5. CASE o = p
  <2>1. O!Accept(command, tokens, configured) = O!Accept(command, back, configured)
    BY <1>2, <1>3, <1>5 DEF O!Accept
  <2> QED
    BY <2>1 DEF Agree, back
<1>6. CASE o.refused /\ p.refused
  <2>1. Shape(o) /\ Shape(p)
    BY <1>2, <1>3 DEF ReadUpto, Made
  <2>2. O!Accept(command, tokens, configured).refused = TRUE
    BY <1>2, <1>6, <2>1, StaysRefused
  <2>3. O!Accept(command, back, configured).refused = TRUE
    BY <1>1, <1>3, <1>6, <2>1, StaysRefused
  <2> QED
    BY <2>2, <2>3 DEF Agree, back
<1> QED
  BY <1>4, <1>5, <1>6

-----------------------------------------------------------------------------
(* The theorems.                                                           *)

\* What is converted was taken from the inputs of its kind.
Taken == input.kind = "options" => input.value \in CommandLines

LEMMA TakenAlways == Spec => []Taken
<1>1. Init => Taken
  BY DEF Init, Taken, Nothing
<1>2. ASSUME Taken, [Next]_input PROVE Taken'
  <2>1. CASE PutBack
    BY <2>1 DEF PutBack, Taken, Nothing
  <2>2. CASE UNCHANGED input
    BY <1>2, <2>2 DEF Taken
  <2>3. CASE TakeOptions
    BY <2>3 DEF TakeOptions, Takes, Taken
  <2>4. CASE TakeNumber \/ TakeRow \/ TakeProgram \/ TakeMessage
    BY <2>4 DEF TakeNumber, TakeRow, TakeProgram, TakeMessage, Takes, Taken
  <2>5. CASE TakeKey \/ TakePoint \/ TakeScript
    BY <2>5 DEF TakeKey, TakePoint, TakeScript, Takes, Taken
  <2>6. CASE TakeCoin \/ TakeBlock \/ TakeTrace
    BY <2>6 DEF TakeCoin, TakeBlock, TakeTrace, Takes, Taken
  <2> QED
    BY <1>2, <2>1, <2>2, <2>3, <2>4, <2>5, <2>6 DEF Next
<1> QED
  BY <1>1, <1>2, PTL DEF Spec

\* Whatever options of whatever command are given: what is accepted has one type
\* and one format of the input, one way to print, and does not depend on the
\* order the options are in, whatever is configured (opts.c:134-384, btk.c:352-392).
THEOREM OptionsMeanOneThing == Spec => []OptionsOneMeaning
<1>1. ASSUME Taken PROVE OptionsOneMeaning
  <2> SUFFICES ASSUME input.kind = "options" PROVE OptionsOneMeaning
    BY DEF OptionsOneMeaning
  <2> DEFINE command == input.value.command
             tokens == input.value.tokens
             configured == input.value.configured
             opts == O!Accept(command, tokens, configured)
  <2>1. command \in O!Commands /\ Line(tokens)
    BY <1>1, ConversionsAssumption DEF Taken, Line
  <2>2. ~OrderMatters(tokens) => Agree(opts, O!Accept(command, Reverse(tokens), configured))
    BY <2>1, OrderAgrees
  <2>3. ~opts.refused => Meaning(command, opts)
    BY <2>1, AcceptMeans
  <2> QED
    BY <2>2, <2>3 DEF OptionsOneMeaning, Meaning
<1> QED
  BY <1>1, TakenAlways, PTL

-----------------------------------------------------------------------------
(* Division.                                                               *)

\* A number and its parts.
LEMMA DivMod ==
  ASSUME NEW n \in Nat, NEW d \in Nat, d # 0
  PROVE  /\ n \div d \in Nat /\ n % d \in 0 .. (d - 1)
         /\ n = (n \div d) * d + (n % d)
OBVIOUS

LEMMA Times ==
  ASSUME NEW a \in Nat, NEW b \in Nat
  PROVE  a * b \in Nat /\ (a # 0 /\ b # 0 => a * b # 0 /\ a * b >= a /\ a * b >= b) /\ a * b = b * a
OBVIOUS

LEMMA NoSmaller ==
  ASSUME NEW p \in Nat, NEW q \in Nat, NEW d \in Nat, NEW r \in Nat, NEW s \in Nat,
         r < d, p * d + r = q * d + s
  PROVE  p >= q
<1> SUFFICES ASSUME q >= p + 1 PROVE FALSE
  OBVIOUS
<1>1. PICK k \in Nat : q = p + 1 + k
  <2>1. q - p - 1 \in Nat /\ q = p + 1 + (q - p - 1)
    OBVIOUS
  <2> QED
    BY <2>1
<1>2. q * d = p * d + d + k * d
  BY <1>1
<1>3. k * d \in Nat /\ p * d \in Nat
  OBVIOUS
<1> QED
  BY <1>2, <1>3

\* The parts are the only ones.
LEMMA DivIs ==
  ASSUME NEW n \in Nat, NEW d \in Nat, NEW q \in Nat, NEW r \in Nat, r < d, n = q * d + r
  PROVE  n \div d = q /\ n % d = r
<1>1. /\ n \div d \in Nat /\ n % d \in Nat /\ n % d < d
      /\ n = (n \div d) * d + (n % d)
  <2>0. d # 0 /\ d \in Nat
    OBVIOUS
  <2>1. n \div d \in Nat /\ n % d \in 0 .. (d - 1) /\ n = (n \div d) * d + (n % d)
    BY <2>0, DivMod
  <2> DEFINE x == n % d
  <2>2. x \in 0 .. (d - 1)
    BY <2>1
  <2> HIDE DEF x
  <2>3. x \in Nat /\ x < d
    BY <2>0, <2>2
  <2> QED
    BY <2>1, <2>3 DEF x
<1>2. q >= n \div d /\ n \div d >= q
  BY <1>1, NoSmaller
<1>3. n \div d = q
  BY <1>1, <1>2
<1>4. (n \div d) * d = q * d /\ q * d \in Nat
  BY <1>3
<1> QED
  BY <1>1, <1>3, <1>4

\* Dividing twice.
LEMMA DivTwice ==
  ASSUME NEW n \in Nat, NEW a \in Nat, NEW b \in Nat, a # 0, b # 0
  PROVE  n \div (a * b) = (n \div a) \div b /\ (n % (a * b)) \div a = (n \div a) % b
         /\ (n % (a * b)) % a = n % a
<1> DEFINE q == n \div a
           r == n % a
           p == q \div b
           s == q % b
<1>1. q \in Nat /\ r \in Nat /\ r < a /\ n = q * a + r
  BY DivMod
<1>2. p \in Nat /\ s \in Nat /\ s <= b - 1 /\ q = p * b + s
  BY <1>1, DivMod
<1> HIDE DEF q, r, p, s
<1>3. a * b \in Nat /\ p * (a * b) = (p * b) * a
  BY <1>2
<1>4. q * a = (p * b) * a + s * a
  BY <1>2
<1>5. s * a + a <= a * b
  <2>1. PICK k \in Nat : b = s + 1 + k
    <3>1. b - s - 1 \in Nat /\ b = s + 1 + (b - s - 1)
      BY <1>2
    <3> QED
      BY <3>1
  <2>2. a * b = s * a + a + k * a /\ k * a \in Nat
    BY <2>1, <1>2
  <2> QED
    BY <2>2, <1>2
<1>6. s * a + r \in Nat /\ s * a + r < a * b
  BY <1>1, <1>2, <1>3, <1>5
<1>7. n = p * (a * b) + (s * a + r)
  BY <1>1, <1>2, <1>3, <1>4
<1>8. n \div (a * b) = p /\ n % (a * b) = s * a + r
  BY <1>2, <1>3, <1>6, <1>7, DivIs
<1>9. (s * a + r) \div a = s /\ (s * a + r) % a = r
  BY <1>1, <1>2, <1>6, DivIs
<1> QED
  BY <1>8, <1>9 DEF q, r, p, s

-----------------------------------------------------------------------------
(* Functions that are defined by recursion on a number.                    *)

\* f follows the recursion up to n.
Follows(f, start, step, n) ==
  f[0] = start /\ \A k \in 1 .. n : f[k] = step[<<k, f[k - 1]>>]

LEMMA FollowsUpto ==
  ASSUME NEW T, NEW start \in T, NEW step \in [Nat \X T -> T], NEW n \in Nat
  PROVE  \E f \in [0 .. n -> T] : Follows(f, start, step, n)
<1> DEFINE F == {m \in Nat : ~ \E f \in [0 .. m -> T] : Follows(f, start, step, m)}
<1> SUFFICES ASSUME F # {} PROVE FALSE
  OBVIOUS
<1>0. F \subseteq Nat
  OBVIOUS
<1> HIDE DEF F
<1>1. PICK m \in F : \A k \in F : m <= k
  BY <1>0, SmallestOne
<1>2. m \in Nat /\ ~ \E f \in [0 .. m -> T] : Follows(f, start, step, m)
  BY DEF F
<1>3. m # 0
  <2> SUFFICES ASSUME m = 0 PROVE FALSE
    OBVIOUS
  <2>1. Follows([k \in 0 .. 0 |-> start], start, step, 0)
    BY DEF Follows
  <2> QED
    BY <1>2, <2>1
<1>4. m - 1 \in Nat /\ m - 1 \notin F
  BY <1>1, <1>2, <1>3
<1>5. PICK f \in [0 .. (m - 1) -> T] : Follows(f, start, step, m - 1)
  BY <1>4 DEF F
<1> DEFINE last == step[<<m, f[m - 1]>>]
           h == [k \in 0 .. m |-> IF k = m THEN last ELSE f[k]]
<1>6. last \in T
  <2>1. f[m - 1] \in T
    BY <1>4
  <2> QED
    BY <2>1, <1>2
<1> HIDE DEF last
<1>7. h \in [0 .. m -> T]
  BY <1>2, <1>6
<1>8. h[m] = last /\ \A k \in 0 .. (m - 1) : h[k] = f[k]
  BY <1>2
<1> HIDE DEF h
<1>9. h[0] = start
  BY <1>2, <1>3, <1>5, <1>8 DEF Follows
<1>10. ASSUME NEW k \in 1 .. m PROVE h[k] = step[<<k, h[k - 1]>>]
  <2>1. k - 1 \in 0 .. (m - 1) /\ h[k - 1] = f[k - 1]
    BY <1>2, <1>8
  <2>2. CASE k = m
    BY <1>8, <2>1, <2>2 DEF last
  <2>3. CASE k # m
    <3>1. k \in 1 .. (m - 1) /\ h[k] = f[k]
      BY <1>2, <1>8, <2>3
    <3> QED
      BY <1>5, <2>1, <3>1 DEF Follows
  <2> QED
    BY <2>2, <2>3
<1> QED
  BY <1>2, <1>7, <1>9, <1>10 DEF Follows

LEMMA FollowsAgree ==
  ASSUME NEW start, NEW step, NEW n \in Nat, NEW m \in Nat, m <= n,
         NEW f, Follows(f, start, step, n), NEW g, Follows(g, start, step, m)
  PROVE  \A k \in 0 .. m : f[k] = g[k]
<1> DEFINE F == {k \in 0 .. m : f[k] # g[k]}
<1> SUFFICES ASSUME F # {} PROVE FALSE
  OBVIOUS
<1>0. F \subseteq Nat
  OBVIOUS
<1> HIDE DEF F
<1>1. PICK k \in F : \A j \in F : k <= j
  BY <1>0, SmallestOne
<1>2. k \in 0 .. m /\ f[k] # g[k]
  BY DEF F
<1>3. k # 0
  BY <1>2 DEF Follows
<1>4. k - 1 \in 0 .. m /\ k - 1 \notin F
  BY <1>1, <1>2, <1>3
<1>5. f[k - 1] = g[k - 1]
  BY <1>4 DEF F
<1>6. k \in 1 .. n /\ k \in 1 .. m
  BY <1>2, <1>3
<1> QED
  BY <1>2, <1>5, <1>6 DEF Follows

LEMMA Recursion ==
  ASSUME NEW T, NEW start \in T, NEW step \in [Nat \X T -> T]
  PROVE  \E f \in [Nat -> T] : \A n \in Nat : Follows(f, start, step, n)
<1> DEFINE upto(n) == CHOOSE f : f \in [0 .. n -> T] /\ Follows(f, start, step, n)
           h == [n \in Nat |-> upto(n)[n]]
<1>1. ASSUME NEW n \in Nat PROVE upto(n) \in [0 .. n -> T] /\ Follows(upto(n), start, step, n)
  BY FollowsUpto
<1> HIDE DEF upto
<1>2. h \in [Nat -> T]
  <2>1. ASSUME NEW n \in Nat PROVE upto(n)[n] \in T
    BY <1>1
  <2> QED
    BY <2>1
<1>3. \A n \in Nat : h[n] = upto(n)[n]
  OBVIOUS
<1> HIDE DEF h
<1>4. h[0] = start
  BY <1>1, <1>3 DEF Follows
<1>5. ASSUME NEW k \in Nat, k # 0 PROVE h[k] = step[<<k, h[k - 1]>>]
  <2>1. k - 1 \in Nat /\ k - 1 <= k
    BY <1>5
  <2>2. \A j \in 0 .. (k - 1) : upto(k)[j] = upto(k - 1)[j]
    BY <1>1, <2>1, FollowsAgree
  <2>3. upto(k)[k - 1] = h[k - 1]
    BY <1>3, <2>1, <2>2
  <2>4. upto(k)[k] = step[<<k, upto(k)[k - 1]>>]
    BY <1>1, <1>5 DEF Follows
  <2> QED
    BY <1>3, <2>3, <2>4
<1> QED
  BY <1>2, <1>4, <1>5 DEF Follows

-----------------------------------------------------------------------------
(* Powers.                                                                 *)

LEMMA PowerIs ==
  ASSUME NEW base \in Nat
  PROVE  Power(base, 0) = 1 /\ \A e \in Nat : Power(base, e + 1) = base * Power(base, e)
<1> DEFINE step == [at \in Nat \X Nat |-> base * at[2]]
           power == CHOOSE g : g = [k \in Nat |-> IF k = 0 THEN 1 ELSE base * g[k - 1]]
<1>1. step \in [Nat \X Nat -> Nat]
  OBVIOUS
<1>2. \A k, n \in Nat : step[<<k, n>>] = base * n
  OBVIOUS
<1> HIDE DEF step
<1>3. PICK f \in [Nat -> Nat] : \A n \in Nat : Follows(f, 1, step, n)
  BY <1>1, Recursion
<1>4. f[0] = 1
  BY <1>3 DEF Follows
<1>5. ASSUME NEW k \in Nat, k # 0 PROVE f[k] = base * f[k - 1]
  <2>1. f[k] = step[<<k, f[k - 1]>>]
    BY <1>3, <1>5 DEF Follows
  <2>2. f[k - 1] \in Nat
    BY <1>5
  <2> QED
    BY <1>2, <2>1, <2>2
<1>6. f = [k \in Nat |-> IF k = 0 THEN 1 ELSE base * f[k - 1]]
  <2>1. f = [k \in Nat |-> f[k]]
    OBVIOUS
  <2> QED
    BY <1>4, <1>5, <2>1
<1>7. power = [k \in Nat |-> IF k = 0 THEN 1 ELSE base * power[k - 1]]
  BY <1>6
<1> HIDE DEF power
<1>8. power[0] = 1
  BY <1>7
<1>9. ASSUME NEW e \in Nat PROVE power[e + 1] = base * power[e]
  <2>1. e + 1 \in Nat /\ e + 1 # 0 /\ (e + 1) - 1 = e
    OBVIOUS
  <2> QED
    BY <1>7, <2>1
<1> QED
  BY <1>8, <1>9 DEF Power, power

\* A power is a positive number: there is no smallest exponent for which it is not.
LEMMA PowerPositive ==
  ASSUME NEW base \in Nat, base # 0, NEW e \in Nat
  PROVE  Power(base, e) \in Nat /\ Power(base, e) # 0
<1> DEFINE F == {k \in Nat : ~(Power(base, k) \in Nat /\ Power(base, k) # 0)}
<1> SUFFICES ASSUME F # {} PROVE FALSE
  OBVIOUS
<1>0. F \subseteq Nat
  OBVIOUS
<1> HIDE DEF F
<1>1. PICK m \in F : \A k \in F : m <= k
  BY <1>0, SmallestOne
<1>2. m \in Nat /\ ~(Power(base, m) \in Nat /\ Power(base, m) # 0)
  BY DEF F
<1>3. m # 0
  BY <1>2, PowerIs
<1>4. m - 1 \in Nat /\ m - 1 \notin F
  BY <1>1, <1>2, <1>3
<1>5. Power(base, m - 1) \in Nat /\ Power(base, m - 1) # 0
  BY <1>4 DEF F
<1>6. Power(base, (m - 1) + 1) = base * Power(base, m - 1)
  BY <1>4, PowerIs
<1>7. (m - 1) + 1 = m
  BY <1>2
<1>8. Power(base, m) = base * Power(base, m - 1)
  BY <1>6, <1>7
<1> HIDE DEF F
<1> QED
  BY <1>2, <1>5, <1>8, Times

LEMMA PowerSum ==
  ASSUME NEW base \in Nat, base # 0, NEW a \in Nat, NEW b \in Nat
  PROVE  Power(base, a + b) = Power(base, a) * Power(base, b)
<1> DEFINE F == {k \in Nat : Power(base, k + b) # Power(base, k) * Power(base, b)}
<1> SUFFICES ASSUME F # {} PROVE FALSE
  OBVIOUS
<1>0. F \subseteq Nat
  OBVIOUS
<1> HIDE DEF F
<1>1. PICK m \in F : \A k \in F : m <= k
  BY <1>0, SmallestOne
<1>2. m \in Nat /\ Power(base, m + b) # Power(base, m) * Power(base, b)
  BY DEF F
<1>3. m # 0
  <2>1. Power(base, 0) = 1 /\ Power(base, b) \in Nat /\ 0 + b = b
    BY PowerIs, PowerPositive
  <2>2. 1 * Power(base, b) = Power(base, b)
    BY <2>1
  <2> QED
    BY <1>2, <2>1, <2>2
<1>4. m - 1 \in Nat /\ m - 1 \notin F
  BY <1>1, <1>2, <1>3
<1>5. Power(base, (m - 1) + b) = Power(base, m - 1) * Power(base, b)
  BY <1>4 DEF F
<1>6. Power(base, ((m - 1) + b) + 1) = base * Power(base, (m - 1) + b)
  BY <1>4, PowerIs
<1>7. Power(base, (m - 1) + 1) = base * Power(base, m - 1)
  BY <1>4, PowerIs
<1>8. ((m - 1) + b) + 1 = m + b /\ (m - 1) + 1 = m
  BY <1>2
<1>9. Power(base, m - 1) \in Nat /\ Power(base, b) \in Nat
  BY <1>4, PowerPositive
<1>10. base * (Power(base, m - 1) * Power(base, b)) = (base * Power(base, m - 1)) * Power(base, b)
  BY <1>9
<1> QED
  BY <1>2, <1>5, <1>6, <1>7, <1>8, <1>10

-----------------------------------------------------------------------------
(* Sequences.                                                              *)

LEMMA RowIs ==
  ASSUME NEW S, NEW n \in Nat, NEW f \in [1 .. n -> S]
  PROVE  f \in Seq(S) /\ Len(f) = n
OBVIOUS

LEMMA ConcatIs ==
  ASSUME NEW S, NEW s \in Seq(S), NEW t \in Seq(S)
  PROVE  /\ s \o t \in Seq(S) /\ Len(s \o t) = Len(s) + Len(t)
         /\ \A k \in 1 .. Len(s) : (s \o t)[k] = s[k]
         /\ \A k \in 1 .. Len(t) : (s \o t)[Len(s) + k] = t[k]
OBVIOUS

LEMMA SliceIs ==
  ASSUME NEW S, NEW s \in Seq(S), NEW m \in 1 .. (Len(s) + 1), NEW n \in (m - 1) .. Len(s)
  PROVE  /\ SubSeq(s, m, n) \in Seq(S) /\ Len(SubSeq(s, m, n)) = n - m + 1
         /\ \A k \in 1 .. (n - m + 1) : SubSeq(s, m, n)[k] = s[m - 1 + k]
OBVIOUS

LEMMA SameRow ==
  ASSUME NEW S, NEW s \in Seq(S), NEW t \in Seq(S), Len(s) = Len(t),
         \A k \in 1 .. Len(s) : s[k] = t[k]
  PROVE  s = t
OBVIOUS

LEMMA Associates ==
  ASSUME NEW S, NEW s \in Seq(S), NEW t \in Seq(S), NEW u \in Seq(S)
  PROVE  (s \o t) \o u = s \o (t \o u)
OBVIOUS

LEMMA EmptyRow ==
  ASSUME NEW S, NEW s \in Seq(S)
  PROVE  <<>> \in Seq(S) /\ s \o <<>> = s /\ <<>> \o s = s /\ (s = <<>> <=> Len(s) = 0)
OBVIOUS

\* A row is cut in two and is what its pieces come to.
LEMMA CutInTwo ==
  ASSUME NEW S, NEW s \in Seq(S), NEW n \in 0 .. Len(s)
  PROVE  /\ SubSeq(s, 1, n) \in Seq(S) /\ Len(SubSeq(s, 1, n)) = n
         /\ SubSeq(s, n + 1, Len(s)) \in Seq(S) /\ Len(SubSeq(s, n + 1, Len(s))) = Len(s) - n
         /\ s = SubSeq(s, 1, n) \o SubSeq(s, n + 1, Len(s))
<1> DEFINE a == SubSeq(s, 1, n)
           b == SubSeq(s, n + 1, Len(s))
<1>0. Len(s) \in Nat
  OBVIOUS
<1>1. a \in Seq(S) /\ Len(a) = n /\ \A k \in 1 .. n : a[k] = s[k]
  BY <1>0, SliceIs
<1>2. b \in Seq(S) /\ Len(b) = Len(s) - n /\ \A k \in 1 .. (Len(s) - n) : b[k] = s[n + k]
  <2>1. n + 1 \in 1 .. (Len(s) + 1) /\ Len(s) \in ((n + 1) - 1) .. Len(s)
    BY <1>0
  <2>2. /\ b \in Seq(S) /\ Len(b) = Len(s) - (n + 1) + 1
        /\ \A k \in 1 .. (Len(s) - (n + 1) + 1) : b[k] = s[(n + 1) - 1 + k]
    BY <2>1, SliceIs
  <2> QED
    BY <1>0, <2>2
<1> HIDE DEF a, b
<1>3. a \o b \in Seq(S) /\ Len(a \o b) = Len(s)
  <2>1. a \in Seq(S) /\ b \in Seq(S) /\ Len(a) + Len(b) = Len(s)
    BY <1>0, <1>1, <1>2
  <2>2. a \o b \in Seq(S) /\ Len(a \o b) = Len(a) + Len(b)
    BY <2>1, ConcatIs
  <2> QED
    BY <2>1, <2>2
<1>4. ASSUME NEW k \in 1 .. Len(s) PROVE s[k] = (a \o b)[k]
  <2>1. CASE k <= n
    BY <1>1, <1>2, <2>1, ConcatIs
  <2>2. CASE ~(k <= n)
    <3>1. k - n \in 1 .. Len(b) /\ Len(a) + (k - n) = k /\ n + (k - n) = k
      BY <1>0, <1>1, <1>2, <2>2
    <3>2. (a \o b)[Len(a) + (k - n)] = b[k - n]
      BY <1>1, <1>2, <3>1, ConcatIs
    <3>3. b[k - n] = s[n + (k - n)]
      BY <1>2, <3>1
    <3> QED
      BY <3>1, <3>2, <3>3
  <2> QED
    BY <2>1, <2>2
<1>5. s = a \o b
  BY <1>3, <1>4, SameRow
<1> QED
  BY <1>1, <1>2, <1>5 DEF a, b

LEMMA ReverseIs ==
  ASSUME NEW S, NEW s \in Seq(S)
  PROVE  /\ Reverse(s) \in Seq(S) /\ Len(Reverse(s)) = Len(s)
         /\ \A k \in 1 .. Len(s) : Reverse(s)[k] = s[Len(s) - k + 1]
<1>1. Len(s) \in Nat /\ \A k \in 1 .. Len(s) : Len(s) - k + 1 \in 1 .. Len(s)
  OBVIOUS
<1>2. [k \in 1 .. Len(s) |-> s[(Len(s) - k) + 1]] \in [1 .. Len(s) -> S]
  BY <1>1
<1> QED
  BY <1>1, <1>2, RowIs DEF Reverse

LEMMA ReverseTwice ==
  ASSUME NEW S, NEW s \in Seq(S)
  PROVE  Reverse(Reverse(s)) = s
<1> DEFINE r == Reverse(s)
<1>1. /\ r \in Seq(S) /\ Len(r) = Len(s) /\ Len(s) \in Nat
      /\ \A k \in 1 .. Len(s) : r[k] = s[Len(s) - k + 1]
  BY ReverseIs
<1> HIDE DEF r
<1>2. /\ Reverse(r) \in Seq(S) /\ Len(Reverse(r)) = Len(s)
      /\ \A k \in 1 .. Len(s) : Reverse(r)[k] = r[Len(s) - k + 1]
  BY <1>1, ReverseIs
<1>3. ASSUME NEW k \in 1 .. Len(s) PROVE s[k] = Reverse(r)[k]
  <2>1. Len(s) - k + 1 \in 1 .. Len(s) /\ Len(s) - (Len(s) - k + 1) + 1 = k
    BY <1>1
  <2> QED
    BY <1>1, <1>2, <2>1
<1> QED
  BY <1>2, <1>3, SameRow DEF r

LEMMA ReverseConcat ==
  ASSUME NEW S, NEW s \in Seq(S), NEW t \in Seq(S)
  PROVE  Reverse(s \o t) = Reverse(t) \o Reverse(s)
<1> DEFINE st == s \o t
           rs == Reverse(s)
           rt == Reverse(t)
<1>0. Len(s) \in Nat /\ Len(t) \in Nat
  OBVIOUS
<1>1. /\ st \in Seq(S) /\ Len(st) = Len(s) + Len(t)
      /\ \A k \in 1 .. Len(s) : st[k] = s[k]
      /\ \A k \in 1 .. Len(t) : st[Len(s) + k] = t[k]
  BY ConcatIs
<1>2. rs \in Seq(S) /\ Len(rs) = Len(s) /\ \A k \in 1 .. Len(s) : rs[k] = s[Len(s) - k + 1]
  BY ReverseIs
<1>3. rt \in Seq(S) /\ Len(rt) = Len(t) /\ \A k \in 1 .. Len(t) : rt[k] = t[Len(t) - k + 1]
  BY ReverseIs
<1> HIDE DEF st, rs, rt
<1>4. /\ Reverse(st) \in Seq(S) /\ Len(Reverse(st)) = Len(s) + Len(t)
      /\ \A k \in 1 .. (Len(s) + Len(t)) : Reverse(st)[k] = st[Len(s) + Len(t) - k + 1]
  <2>1. st \in Seq(S)
    BY <1>1
  <2>2. /\ Reverse(st) \in Seq(S) /\ Len(Reverse(st)) = Len(st)
        /\ \A k \in 1 .. Len(st) : Reverse(st)[k] = st[Len(st) - k + 1]
    BY <2>1, ReverseIs
  <2> QED
    BY <1>1, <2>2
<1>5. /\ rt \o rs \in Seq(S) /\ Len(rt \o rs) = Len(s) + Len(t)
      /\ \A k \in 1 .. Len(t) : (rt \o rs)[k] = rt[k]
      /\ \A k \in 1 .. Len(s) : (rt \o rs)[Len(t) + k] = rs[k]
  <2>1. rt \in Seq(S) /\ rs \in Seq(S)
    BY <1>2, <1>3
  <2>2. /\ rt \o rs \in Seq(S) /\ Len(rt \o rs) = Len(rt) + Len(rs)
        /\ \A k \in 1 .. Len(rt) : (rt \o rs)[k] = rt[k]
        /\ \A k \in 1 .. Len(rs) : (rt \o rs)[Len(rt) + k] = rs[k]
    BY <2>1, ConcatIs
  <2>3. Len(rt) = Len(t) /\ Len(rs) = Len(s)
    BY <1>2, <1>3
  <2>4. Len(rt) + Len(rs) = Len(s) + Len(t)
    BY <1>0, <2>3
  <2> QED
    BY <2>2, <2>3, <2>4
<1>6. ASSUME NEW k \in 1 .. (Len(s) + Len(t)) PROVE Reverse(st)[k] = (rt \o rs)[k]
  <2>1. CASE k <= Len(t)
    <3>1. /\ k \in 1 .. Len(t) /\ Len(t) - k + 1 \in 1 .. Len(t)
          /\ Len(s) + Len(t) - k + 1 = Len(s) + (Len(t) - k + 1)
      BY <1>0, <2>1
    <3>2. Reverse(st)[k] = st[Len(s) + (Len(t) - k + 1)]
      BY <1>4, <3>1
    <3>3. st[Len(s) + (Len(t) - k + 1)] = t[Len(t) - k + 1]
      BY <1>1, <3>1
    <3>4. (rt \o rs)[k] = t[Len(t) - k + 1]
      BY <1>3, <1>5, <3>1
    <3> QED
      BY <3>2, <3>3, <3>4
  <2>2. CASE ~(k <= Len(t))
    <3> DEFINE j == k - Len(t)
    <3>1. /\ j \in 1 .. Len(s) /\ k = Len(t) + j /\ Len(s) - j + 1 \in 1 .. Len(s)
          /\ Len(s) + Len(t) - k + 1 = Len(s) - j + 1
      BY <1>0, <2>2
    <3> HIDE DEF j
    <3> QED
      BY <1>1, <1>2, <1>4, <1>5, <3>1
  <2> QED
    BY <2>1, <2>2
<1> QED
  BY <1>4, <1>5, <1>6, SameRow DEF st, rs, rt

-----------------------------------------------------------------------------
(* Digits.                                                                 *)

LEMMA BaseIs == Base \in Nat /\ Base > 4 /\ Half \in Nat /\ Half > 2 /\ Base = 2 * Half
BY BytesAssumption DEF Half

LEMMA BytesAre ==
  ASSUME NEW n \in Nat, NEW width \in Nat
  PROVE  /\ BigEndian(n, width) \in Seq(0 .. (Base - 1)) /\ Len(BigEndian(n, width)) = width
         /\ \A k \in 1 .. width : BigEndian(n, width)[k] = (n \div Power(Base, width - k)) % Base
<1>1. ASSUME NEW k \in 1 .. width PROVE (n \div Power(Base, width - k)) % Base \in 0 .. (Base - 1)
  <2>1. Power(Base, width - k) \in Nat /\ Power(Base, width - k) # 0
    BY BaseIs, PowerPositive
  <2>2. n \div Power(Base, width - k) \in Nat
    BY <2>1, DivMod
  <2>3. Base \in Nat /\ Base # 0
    BY BaseIs
  <2> QED
    BY <2>2, <2>3, DivMod
<1>2. BigEndian(n, width) \in [1 .. width -> 0 .. (Base - 1)]
  BY <1>1 DEF BigEndian
<1> QED
  BY <1>2, RowIs DEF BigEndian

\* A digit below the width is not changed by what is cut off above it.
LEMMA LowDigit ==
  ASSUME NEW n \in Nat, NEW width \in Nat, NEW j \in Nat, j < width
  PROVE  ((n % Power(Base, width)) \div Power(Base, j)) % Base = (n \div Power(Base, j)) % Base
<1> DEFINE a == Power(Base, j)
           c == Power(Base, width - j - 1)
<1>1. width - j - 1 \in Nat /\ (width - j - 1) + 1 = width - j /\ j + (width - j) = width
  OBVIOUS
<1>2. a \in Nat /\ a # 0 /\ c \in Nat /\ c # 0
  BY <1>1, BaseIs, PowerPositive
<1> DEFINE d == Base * c
<1>3. Power(Base, width - j) = d
  BY <1>1, BaseIs, PowerIs
<1>4. Power(Base, width) = a * d
  <2>1. Power(Base, j + (width - j)) = Power(Base, j) * Power(Base, width - j)
    BY <1>1, BaseIs, PowerSum
  <2> QED
    BY <1>1, <1>3, <2>1
<1>5. d \in Nat /\ d # 0
  BY <1>2, BaseIs, Times
<1>7. n \div a \in Nat
  BY <1>2, DivMod
<1> HIDE DEF a, c
<1>8. ((n \div a) % d) % Base = (n \div a) % Base
  <2>1. Base \in Nat /\ Base # 0
    BY BaseIs
  <2>2. ASSUME NEW m \in Nat PROVE (m % (Base * c)) % Base = m % Base
    BY <1>2, <2>1, DivTwice
  <2> QED
    BY <1>7, <2>2 DEF d
<1> HIDE DEF d
<1>6. (n % (a * d)) \div a = (n \div a) % d
  <2>1. a \in Nat /\ a # 0 /\ d \in Nat /\ d # 0
    BY <1>2, <1>5
  <2>2. /\ n \div (a * d) = (n \div a) \div d /\ (n % (a * d)) \div a = (n \div a) % d
        /\ (n % (a * d)) % a = n % a
    BY <2>1, DivTwice
  <2> QED
    BY <2>2
<1>9. ((n % Power(Base, width)) \div a) % Base = (n \div a) % Base
  BY <1>4, <1>6, <1>8
<1> QED
  BY <1>9 DEF a

LEMMA HighDigit ==
  ASSUME NEW n \in Nat, NEW low \in Nat, NEW j \in Nat
  PROVE  n \div Power(Base, j + low) = (n \div Power(Base, low)) \div Power(Base, j)
<1>1. Power(Base, low) \in Nat /\ Power(Base, low) # 0 /\ Power(Base, j) \in Nat /\ Power(Base, j) # 0
  BY BaseIs, PowerPositive
<1>2. Power(Base, j + low) = Power(Base, low) * Power(Base, j)
  <2>1. Power(Base, j + low) = Power(Base, j) * Power(Base, low)
    BY BaseIs, PowerSum
  <2> QED
    BY <1>1, <2>1, Times
<1> DEFINE w == Power(Base, low)
           v == Power(Base, j)
<1>3. w \in Nat /\ w # 0 /\ v \in Nat /\ v # 0
  BY <1>1
<1> HIDE DEF w, v
<1>4. n \div (w * v) = (n \div w) \div v
  BY <1>3, DivTwice
<1> QED
  BY <1>2, <1>4 DEF w, v

\* The digits of a number are those of its two halves.
LEMMA TwoHalves ==
  ASSUME NEW n \in Nat, NEW high \in Nat, NEW low \in Nat
  PROVE  BigEndian(n, high + low)
           = BigEndian((n \div Power(Base, low)) % Power(Base, high), high)
               \o BigEndian(n % Power(Base, low), low)
<1> DEFINE w == Power(Base, low)
           v == Power(Base, high)
           s == BigEndian((n \div w) % v, high)
           t == BigEndian(n % w, low)
           u == BigEndian(n, high + low)
           D == 0 .. (Base - 1)
<1>1. w \in Nat /\ w # 0 /\ v \in Nat /\ v # 0
  BY BaseIs, PowerPositive
<1> HIDE DEF w, v
<1>2. n \div w \in Nat /\ n % w \in Nat /\ (n \div w) % v \in Nat
  <2>1. n \div w \in Nat /\ n % w \in 0 .. (w - 1)
    BY <1>1, DivMod
  <2>2. (n \div w) % v \in 0 .. (v - 1)
    BY <1>1, <2>1, DivMod
  <2> QED
    BY <2>1, <2>2
<1>3. /\ s \in Seq(D) /\ Len(s) = high
      /\ \A k \in 1 .. high : s[k] = (((n \div w) % v) \div Power(Base, high - k)) % Base
  BY <1>2, BytesAre
<1>4. /\ t \in Seq(D) /\ Len(t) = low
      /\ \A k \in 1 .. low : t[k] = ((n % w) \div Power(Base, low - k)) % Base
  BY <1>2, BytesAre
<1>5. /\ u \in Seq(D) /\ Len(u) = high + low
      /\ \A k \in 1 .. (high + low) : u[k] = (n \div Power(Base, high + low - k)) % Base
  BY BytesAre
<1> HIDE DEF s, t, u, D
<1>6. /\ s \o t \in Seq(D) /\ Len(s \o t) = high + low
      /\ \A k \in 1 .. high : (s \o t)[k] = s[k]
      /\ \A k \in 1 .. low : (s \o t)[high + k] = t[k]
  <2>1. s \in Seq(D) /\ t \in Seq(D) /\ Len(s) = high /\ Len(t) = low
    BY <1>3, <1>4
  <2>2. /\ s \o t \in Seq(D) /\ Len(s \o t) = Len(s) + Len(t)
        /\ \A k \in 1 .. Len(s) : (s \o t)[k] = s[k]
        /\ \A k \in 1 .. Len(t) : (s \o t)[Len(s) + k] = t[k]
    BY <2>1, ConcatIs
  <2> QED
    BY <2>1, <2>2
<1>7. ASSUME NEW k \in 1 .. (high + low) PROVE u[k] = (s \o t)[k]
  <2>1. CASE k <= high
    <3>1. k \in 1 .. high /\ high - k \in Nat /\ high - k < high /\ high + low - k = (high - k) + low
      BY <2>1
    <3>2. n \div Power(Base, (high - k) + low) = (n \div w) \div Power(Base, high - k)
      BY <3>1, HighDigit DEF w
    <3>3. s[k] = ((n \div w) \div Power(Base, high - k)) % Base
      BY <1>2, <1>3, <3>1, LowDigit DEF v
    <3> QED
      BY <1>5, <1>6, <3>1, <3>2, <3>3
  <2>2. CASE ~(k <= high)
    <3> DEFINE j == k - high
    <3>1. j \in 1 .. low /\ k = high + j /\ low - j \in Nat /\ low - j < low /\ high + low - k = low - j
      BY <2>2
    <3> HIDE DEF j
    <3>2. t[j] = (n \div Power(Base, low - j)) % Base
      BY <1>4, <3>1, LowDigit DEF w
    <3> QED
      BY <1>5, <1>6, <3>1, <3>2
  <2> QED
    BY <2>1, <2>2
<1>8. u = s \o t
  BY <1>5, <1>6, <1>7, SameRow
<1> QED
  BY <1>8 DEF s, t, u, w, v

-----------------------------------------------------------------------------
(* Blocks.                                                                 *)

BL == HashBlockLen
WL == HashWordLen

LEMMA LengthsAre == BL \in Nat /\ WL \in Nat /\ WL # 0 /\ 2 * WL <= BL /\ BL # 0
BY HashAssumption DEF BL, WL

\* The whole blocks of a row.
Block(m, b) == SubSeq(m, (b - 1) * BL + 1, b * BL)
Cut(m) == [b \in 1 .. (Len(m) \div BL) |-> Block(m, b)]

LEMMA Places ==
  ASSUME NEW q \in Nat, NEW b \in 1 .. q
  PROVE  (b - 1) * BL \in Nat /\ b * BL = (b - 1) * BL + BL /\ b * BL <= q * BL /\ b * BL \in Nat
<1>1. q = b + (q - b) /\ q - b \in Nat /\ b - 1 \in Nat /\ b = (b - 1) + 1
  OBVIOUS
<1> DEFINE c == q - b
           a == b - 1
<1>2. q = b + c /\ c \in Nat /\ a \in Nat /\ b = a + 1 /\ b \in Nat
  BY <1>1
<1> HIDE DEF c, a
<1>3. q * BL = b * BL + c * BL /\ c * BL \in Nat
  BY <1>2, LengthsAre
<1>4. b * BL = a * BL + BL /\ a * BL \in Nat /\ b * BL \in Nat
  BY <1>2, LengthsAre
<1> QED
  BY <1>3, <1>4, LengthsAre DEF a

LEMMA BlockIs ==
  ASSUME NEW S, NEW m \in Seq(S), NEW q \in Nat, q * BL <= Len(m), NEW b \in 1 .. q
  PROVE  /\ Block(m, b) \in Seq(S) /\ Len(Block(m, b)) = BL
         /\ \A k \in 1 .. BL : Block(m, b)[k] = m[(b - 1) * BL + k]
<1> DEFINE i == (b - 1) * BL
           j == b * BL
<1>1. i \in Nat /\ j = i + BL /\ j <= Len(m) /\ Len(m) \in Nat
  <2>1. i \in Nat /\ j = i + BL /\ j <= q * BL /\ j \in Nat
    BY Places
  <2>2. q * BL \in Nat /\ Len(m) \in Nat
    BY LengthsAre
  <2> HIDE DEF i, j
  <2> QED
    BY <2>1, <2>2
<1> HIDE DEF i, j
<1>2. i + 1 \in 1 .. (Len(m) + 1) /\ j \in ((i + 1) - 1) .. Len(m) /\ j - (i + 1) + 1 = BL
  BY <1>1, LengthsAre
<1>3. /\ SubSeq(m, i + 1, j) \in Seq(S) /\ Len(SubSeq(m, i + 1, j)) = j - (i + 1) + 1
      /\ \A k \in 1 .. (j - (i + 1) + 1) : SubSeq(m, i + 1, j)[k] = m[(i + 1) - 1 + k]
  BY <1>2, SliceIs
<1>4. \A k \in 1 .. BL : (i + 1) - 1 + k = i + k
  BY <1>1, LengthsAre
<1>5. /\ SubSeq(m, i + 1, j) \in Seq(S) /\ Len(SubSeq(m, i + 1, j)) = BL
      /\ \A k \in 1 .. BL : SubSeq(m, i + 1, j)[k] = m[i + k]
  BY <1>2, <1>3, <1>4
<1> QED
  BY <1>5 DEF i, j, Block

LEMMA CutIs ==
  ASSUME NEW S, NEW m \in Seq(S), NEW q \in Nat, NEW r \in Nat, r < BL, Len(m) = q * BL + r
  PROVE  /\ Cut(m) \in Seq(Seq(S)) /\ Len(Cut(m)) = q
         /\ \A b \in 1 .. q : Cut(m)[b] = Block(m, b)
<1>1. Len(m) \div BL = q
  BY LengthsAre, DivIs
<1>2. q * BL <= Len(m)
  BY LengthsAre
<1>3. ASSUME NEW b \in 1 .. q PROVE Block(m, b) \in Seq(S)
  BY <1>2, BlockIs
<1>4. Cut(m) = [b \in 1 .. q |-> Block(m, b)]
  BY <1>1 DEF Cut
<1>5. Cut(m) \in [1 .. q -> Seq(S)]
  BY <1>3, <1>4
<1> QED
  BY <1>4, <1>5, RowIs

\* Whole blocks in front do not shift what follows.
LEMMA CutConcat ==
  ASSUME NEW S, NEW u \in Seq(S), NEW v \in Seq(S), Len(u) % BL = 0
  PROVE  Cut(u \o v) = Cut(u) \o Cut(v)
<1> DEFINE p == Len(u) \div BL
           q == Len(v) \div BL
           r == Len(v) % BL
           w == u \o v
<1>0. Len(u) \in Nat /\ Len(v) \in Nat
  OBVIOUS
<1>1. p \in Nat /\ Len(u) = p * BL + 0
  <2>1. p \in Nat /\ Len(u) = p * BL + (Len(u) % BL)
    BY <1>0, LengthsAre, DivMod
  <2> QED
    BY <2>1
<1>2. q \in Nat /\ r \in Nat /\ r < BL /\ Len(v) = q * BL + r
  <2>1. q \in Nat /\ r \in 0 .. (BL - 1) /\ Len(v) = q * BL + r
    BY <1>0, LengthsAre, DivMod
  <2> QED
    BY <2>1, LengthsAre
<1>3. /\ w \in Seq(S) /\ Len(w) = Len(u) + Len(v)
      /\ \A k \in 1 .. Len(u) : w[k] = u[k]
      /\ \A k \in 1 .. Len(v) : w[Len(u) + k] = v[k]
  BY ConcatIs
<1> HIDE DEF p, q, r, w
<1>4. Len(w) = (p + q) * BL + r /\ p + q \in Nat /\ p * BL \in Nat /\ q * BL \in Nat
  BY <1>1, <1>2, <1>3, LengthsAre
<1>5. /\ Cut(u) \in Seq(Seq(S)) /\ Len(Cut(u)) = p
      /\ \A b \in 1 .. p : Cut(u)[b] = Block(u, b)
  <2>1. 0 < BL /\ 0 \in Nat
    BY LengthsAre
  <2> QED
    BY <1>1, <2>1, CutIs
<1>6. /\ Cut(v) \in Seq(Seq(S)) /\ Len(Cut(v)) = q
      /\ \A b \in 1 .. q : Cut(v)[b] = Block(v, b)
  BY <1>2, CutIs
<1>7. /\ Cut(w) \in Seq(Seq(S)) /\ Len(Cut(w)) = p + q
      /\ \A b \in 1 .. (p + q) : Cut(w)[b] = Block(w, b)
  BY <1>2, <1>3, <1>4, CutIs
<1>8. /\ Cut(u) \o Cut(v) \in Seq(Seq(S)) /\ Len(Cut(u) \o Cut(v)) = p + q
      /\ \A b \in 1 .. p : (Cut(u) \o Cut(v))[b] = Cut(u)[b]
      /\ \A b \in 1 .. q : (Cut(u) \o Cut(v))[p + b] = Cut(v)[b]
  <2> DEFINE s == Cut(u)
             t == Cut(v)
             T == Seq(S)
  <2>1. s \in Seq(T) /\ t \in Seq(T) /\ Len(s) = p /\ Len(t) = q
    BY <1>5, <1>6
  <2> HIDE DEF s, t, T
  <2>0. s \in Seq(T) /\ t \in Seq(T)
    BY <2>1
  <2>2. /\ s \o t \in Seq(T) /\ Len(s \o t) = Len(s) + Len(t)
        /\ \A k \in 1 .. Len(s) : (s \o t)[k] = s[k]
        /\ \A k \in 1 .. Len(t) : (s \o t)[Len(s) + k] = t[k]
    BY <2>0, ConcatIs
  <2>3. /\ s \o t \in Seq(T) /\ Len(s \o t) = p + q
        /\ \A k \in 1 .. p : (s \o t)[k] = s[k]
        /\ \A k \in 1 .. q : (s \o t)[p + k] = t[k]
    BY <2>1, <2>2
  <2> QED
    BY <2>3 DEF s, t, T
<1>9. ASSUME NEW b \in 1 .. (p + q) PROVE Cut(w)[b] = (Cut(u) \o Cut(v))[b]
  <2>0. /\ Block(w, b) \in Seq(S) /\ Len(Block(w, b)) = BL
        /\ \A k \in 1 .. BL : Block(w, b)[k] = w[(b - 1) * BL + k]
    <3>1. (p + q) * BL <= Len(w)
      BY <1>2, <1>4, LengthsAre
    <3>2. w \in Seq(S) /\ p + q \in Nat
      BY <1>3, <1>4
    <3> DEFINE n == p + q
    <3>3. n \in Nat /\ n * BL <= Len(w) /\ b \in 1 .. n
      BY <3>1, <3>2
    <3> HIDE DEF n
    <3> QED
      BY <3>2, <3>3, BlockIs
  <2>1. CASE b <= p
    <3>1. b \in 1 .. p /\ p * BL <= Len(u)
      BY <1>1, <1>4, <2>1
    <3>2. /\ Block(u, b) \in Seq(S) /\ Len(Block(u, b)) = BL
          /\ \A k \in 1 .. BL : Block(u, b)[k] = u[(b - 1) * BL + k]
      <4>1. p \in Nat
        BY <1>1
      <4> QED
        BY <3>1, <4>1, BlockIs
    <3>3. ASSUME NEW k \in 1 .. BL PROVE Block(w, b)[k] = Block(u, b)[k]
      <4>1. (b - 1) * BL \in Nat /\ b * BL = (b - 1) * BL + BL /\ b * BL <= p * BL
        BY <1>1, <3>1, Places
      <4> DEFINE i == (b - 1) * BL
                 j == b * BL
                 l == p * BL
      <4>a. i \in Nat /\ j = i + BL /\ j <= l /\ l \in Nat /\ Len(u) = l
        BY <1>1, <1>4, <4>1
      <4> HIDE DEF i, j, l
      <4>b. i + k \in 1 .. Len(u)
        BY <4>a, LengthsAre
      <4>2. (b - 1) * BL + k \in 1 .. Len(u)
        BY <4>b DEF i
      <4>3. w[(b - 1) * BL + k] = u[(b - 1) * BL + k]
        BY <1>3, <4>2
      <4> QED
        BY <2>0, <3>2, <4>3
    <3>4. Block(w, b) = Block(u, b)
      BY <2>0, <3>2, <3>3, SameRow
    <3>5. Cut(w)[b] = Block(w, b) /\ Cut(u)[b] = Block(u, b) /\ (Cut(u) \o Cut(v))[b] = Cut(u)[b]
      BY <1>5, <1>7, <1>8, <3>1
    <3> QED
      BY <3>4, <3>5
  <2>2. CASE ~(b <= p)
    <3> DEFINE c == b - p
    <3>1. c \in 1 .. q /\ b = p + c
      BY <1>1, <1>2, <2>2
    <3> HIDE DEF c
    <3>2. q * BL <= Len(v)
      BY <1>2, <1>4
    <3>3. /\ Block(v, c) \in Seq(S) /\ Len(Block(v, c)) = BL
          /\ \A k \in 1 .. BL : Block(v, c)[k] = v[(c - 1) * BL + k]
      BY <1>2, <3>1, <3>2, BlockIs
    <3>4. (b - 1) * BL = p * BL + (c - 1) * BL
      <4>1. c - 1 \in Nat /\ b - 1 = p + (c - 1)
        BY <1>1, <3>1
      <4> DEFINE d == c - 1
      <4>2. d \in Nat /\ b - 1 = p + d
        BY <4>1
      <4> HIDE DEF d
      <4>3. (p + d) * BL = p * BL + d * BL
        BY <1>1, <4>2, LengthsAre
      <4> QED
        BY <4>2, <4>3 DEF d
    <3>5. ASSUME NEW k \in 1 .. BL PROVE Block(w, b)[k] = Block(v, c)[k]
      <4>1. (c - 1) * BL \in Nat /\ c * BL = (c - 1) * BL + BL /\ c * BL <= q * BL /\ c * BL \in Nat
        BY <1>2, <3>1, Places
      <4> DEFINE i == (c - 1) * BL
      <4>2. i \in Nat /\ i + k \in 1 .. Len(v)
        BY <1>2, <1>4, <3>2, <4>1, LengthsAre
      <4> HIDE DEF i
      <4> DEFINE l == p * BL
                 j == (b - 1) * BL
      <4>a. l \in Nat /\ Len(u) = l /\ j = l + i
        BY <1>1, <1>4, <3>4 DEF i
      <4> HIDE DEF l, j
      <4>b. j + k = Len(u) + (i + k)
        BY <4>2, <4>a
      <4>3. (b - 1) * BL + k = Len(u) + (i + k)
        BY <4>b DEF j
      <4>4. w[Len(u) + (i + k)] = v[i + k]
        BY <1>3, <4>2
      <4> QED
        BY <2>0, <3>3, <4>3, <4>4 DEF i
    <3>6. Block(w, b) = Block(v, c)
      BY <2>0, <3>3, <3>5, SameRow
    <3>7. Cut(w)[b] = Block(w, b) /\ Cut(v)[c] = Block(v, c) /\ (Cut(u) \o Cut(v))[b] = Cut(v)[c]
      BY <1>6, <1>7, <1>8, <3>1
    <3> QED
      BY <3>6, <3>7
  <2> QED
    BY <2>1, <2>2
<1>10. Cut(w) = Cut(u) \o Cut(v)
  <2> DEFINE s == Cut(w)
             t == Cut(u) \o Cut(v)
             T == Seq(S)
  <2>1. s \in Seq(T) /\ t \in Seq(T) /\ Len(s) = p + q /\ Len(t) = p + q
        /\ \A k \in 1 .. (p + q) : s[k] = t[k]
    BY <1>7, <1>8, <1>9
  <2> HIDE DEF s, t, T
  <2>2. s = t
    BY <2>1, SameRow
  <2> QED
    BY <2>2 DEF s, t
<1> QED
  BY <1>10 DEF w

LEMMA CutNothing ==
  ASSUME NEW S, NEW m \in Seq(S), Len(m) < BL
  PROVE  Cut(m) = <<>>
<1>1. Len(m) \in Nat /\ Len(m) = 0 * BL + Len(m)
  BY LengthsAre
<1>2. Len(m) \div BL = 0
  BY <1>1, LengthsAre, DivIs
<1>3. Cut(m) = [b \in 1 .. 0 |-> Block(m, b)]
  BY <1>2 DEF Cut
<1> QED
  BY <1>3

-----------------------------------------------------------------------------
(* A context of a hash.                                                    *)

W == Power(Base, WL)

LEMMA WordIs == /\ W \in Nat /\ W # 0 /\ ByteBits \in Nat /\ ByteBits # 0
                /\ W \div ByteBits \in Nat /\ W \div ByteBits # 0
                /\ W = ByteBits * (W \div ByteBits)
<1>1. W \in Nat /\ W # 0
  BY BaseIs, LengthsAre, PowerPositive DEF W
<1>2. ByteBits \in Nat /\ ByteBits # 0 /\ W % ByteBits = 0
  BY HashAssumption DEF W, WL
<1> DEFINE v == W \div ByteBits
<1>3. v \in Nat /\ W = v * ByteBits + (W % ByteBits)
  BY <1>1, <1>2, DivMod
<1> HIDE DEF v
<1>4. W = v * ByteBits /\ v * ByteBits = ByteBits * v /\ v # 0
  BY <1>1, <1>2, <1>3
<1> QED
  BY <1>1, <1>2, <1>3, <1>4 DEF v

\* The model of the hashes writes bytes and numbers as this module does.
LEMMA SameOperators ==
  /\ H!Word = W
  /\ \A s : H!Reverse(s) = Reverse(s)
  /\ \A n, width : H!BigEndian(n, width) = BigEndian(n, width)
  /\ \A len : H!Zeroes(len) = Zeroes(len)
  /\ H!Half = Half
<1>1. \A b, e : H!Power(b, e) = Power(b, e)
  BY DEF H!Power, Power
<1>2. H!Word = W
  BY <1>1 DEF H!Word, W, WL
<1>3. \A s : H!Reverse(s) = Reverse(s)
  BY DEF H!Reverse, Reverse
<1>4. \A n, width : H!BigEndian(n, width) = BigEndian(n, width)
  BY <1>1 DEF H!BigEndian, BigEndian
<1>5. \A len : H!Zeroes(len) = Zeroes(len)
  BY DEF H!Zeroes, Zeroes
<1>6. H!Half = Half
  BY DEF H!Half, Half
<1> QED
  BY <1>2, <1>3, <1>4, <1>5, <1>6

LEMMA SlicesAre ==
  ASSUME NEW S, NEW data \in Seq(S)
  PROVE  [b \in 1 .. (Len(data) \div HashBlockLen) |->
            Slice(data, (b - 1) * HashBlockLen + 1, HashBlockLen)] = Cut(data)
<1>1. Len(data) \div BL \in Nat
  <2>1. Len(data) \in Nat
    OBVIOUS
  <2> QED
    BY <2>1, LengthsAre, DivMod
<1> DEFINE q == Len(data) \div BL
<1>2. q \in Nat
  BY <1>1
<1> HIDE DEF q
<1>3. ASSUME NEW b \in 1 .. q
      PROVE  Slice(data, (b - 1) * HashBlockLen + 1, HashBlockLen) = Block(data, b)
  <2> DEFINE i == (b - 1) * BL
             j == b * BL
  <2>1. i \in Nat /\ j = i + BL
    BY <1>2, Places
  <2> HIDE DEF i, j
  <2>2. i + 1 + BL - 1 = j
    BY <2>1, LengthsAre
  <2>3. SubSeq(data, i + 1, i + 1 + BL - 1) = SubSeq(data, i + 1, j)
    BY <2>2
  <2> QED
    BY <2>3 DEF i, j, Slice, Block, BL
<1>4. [b \in 1 .. q |-> Slice(data, (b - 1) * HashBlockLen + 1, HashBlockLen)]
        = [b \in 1 .. q |-> Block(data, b)]
  BY <1>3
<1> QED
  BY <1>4 DEF Cut, q, BL

LEMMA CompressedIs ==
  ASSUME NEW S, NEW data \in Seq(S), NEW state
  PROVE  H!Compressed(state, data) = state \o Cut(data)
<1>1. H!Compressed(state, data)
        = state \o [b \in 1 .. (Len(data) \div HashBlockLen) |->
                      Slice(data, (b - 1) * HashBlockLen + 1, HashBlockLen)]
  BY DEF H!Compressed, H!Slice, Slice
<1> QED
  BY <1>1, SlicesAre

\* A buffer in which data stands from place n on.
Replaced(S, next, buffer, n, data) ==
  /\ next \in Seq(S) /\ Len(next) = BL
  /\ \A k \in 1 .. n : next[k] = buffer[k]
  /\ \A k \in 1 .. Len(data) : next[n + k] = data[k]
  /\ \A k \in (n + Len(data) + 1) .. BL : next[k] = buffer[k]

LEMMA CopiedIs ==
  ASSUME NEW S, NEW buffer \in Seq(S), Len(buffer) = BL, NEW data \in Seq(S), NEW n \in Nat,
         n + Len(data) <= BL
  PROVE  Replaced(S, H!Copied(buffer, n, data), buffer, n, data)
<1> DEFINE next == [k \in 1 .. BL |-> IF k - n \in DOMAIN data THEN data[k - n] ELSE buffer[k]]
<1>0. Len(data) \in Nat /\ DOMAIN data = 1 .. Len(data) /\ BL \in Nat
  BY LengthsAre
<1>1. ASSUME NEW k \in 1 .. BL
      PROVE  (IF k - n \in DOMAIN data THEN data[k - n] ELSE buffer[k]) \in S
  OBVIOUS
<1>2. next \in [1 .. BL -> S]
  BY <1>1
<1>3. next \in Seq(S) /\ Len(next) = BL
  BY <1>0, <1>2, RowIs
<1>4. ASSUME NEW k \in 1 .. n PROVE next[k] = buffer[k]
  <2>1. k \in 1 .. BL /\ k - n \notin DOMAIN data
    BY <1>0
  <2> QED
    BY <2>1
<1>5. ASSUME NEW k \in 1 .. Len(data) PROVE next[n + k] = data[k]
  <2>1. n + k \in 1 .. BL /\ (n + k) - n = k
    BY <1>0
  <2> QED
    BY <1>0, <2>1
<1>6. ASSUME NEW k \in (n + Len(data) + 1) .. BL PROVE next[k] = buffer[k]
  <2>1. k \in 1 .. BL /\ k - n \notin DOMAIN data
    BY <1>0
  <2> QED
    BY <2>1
<1>7. H!Copied(buffer, n, data) = next
  BY DEF H!Copied, BL
<1> QED
  BY <1>3, <1>4, <1>5, <1>6, <1>7 DEF Replaced

CtxFields == {"state", "low", "high", "num", "buffer"}

\* The length that was counted so far, in bits, in two words.
Counting(ctx, total) == ctx.low = total % W /\ ctx.high = (total \div W) % W

\* Whole blocks were compressed, and what is left stands in the buffer.
Standing(S, ctx, whole, rest) ==
  /\ DOMAIN ctx = CtxFields
  /\ whole \in Seq(S) /\ rest \in Seq(S) /\ Len(whole) % BL = 0 /\ Len(rest) < BL
  /\ ctx.state = Cut(whole) /\ ctx.num = Len(rest)
  /\ ctx.buffer \in Seq(S) /\ Len(ctx.buffer) = BL
  /\ \A k \in 1 .. Len(rest) : ctx.buffer[k] = rest[k]

LEMMA AddWithin ==
  ASSUME NEW a \in Nat, NEW b \in Nat, NEW d \in Nat, d # 0
  PROVE  ((a % d) + b) % d = (a + b) % d
<1> DEFINE p == a \div d
           r == a % d
           s == (r + b) \div d
           t == (r + b) % d
<1>1. p \in Nat /\ r \in 0 .. (d - 1) /\ a = p * d + r
  BY DivMod
<1>2. r \in Nat /\ r + b \in Nat
  BY <1>1
<1> HIDE DEF p, r
<1>3. s \in Nat /\ t \in 0 .. (d - 1) /\ r + b = s * d + t
  BY <1>2, DivMod
<1> HIDE DEF s, t
<1>4. (p + s) * d = p * d + s * d /\ p * d \in Nat /\ s * d \in Nat /\ p + s \in Nat
  BY <1>1, <1>3
<1>5. a + b \in Nat /\ t \in Nat /\ t < d /\ a + b = (p + s) * d + t
  BY <1>1, <1>2, <1>3, <1>4
<1>6. (a + b) % d = t
  BY <1>4, <1>5, DivIs
<1> QED
  BY <1>6 DEF t, r

\* A sum whose low word is smaller than what was added to has a carry.
LEMMA Carries ==
  ASSUME NEW total \in Nat, NEW x \in Nat
  PROVE  LET low == ((total % W) + x) % W
             carry == IF low < total % W THEN 1 ELSE 0
         IN  /\ low = (total + x) % W
             /\ (total + x) \div W = (total \div W) + carry + (x \div W)
<1> DEFINE a == total \div W
           l == total % W
           b == x \div W
           y == x % W
           low == (l + x) % W
<1>1. a \in Nat /\ l \in 0 .. (W - 1) /\ total = a * W + l
  BY WordIs, DivMod
<1>2. b \in Nat /\ y \in 0 .. (W - 1) /\ x = b * W + y
  BY WordIs, DivMod
<1>3. low = (total + x) % W
  BY WordIs, AddWithin
<1> HIDE DEF a, l, b, y
<1>4. /\ (a + b) * W = a * W + b * W /\ (a + 1 + b) * W = a * W + W + b * W
      /\ a * W \in Nat /\ b * W \in Nat
  BY <1>1, <1>2, WordIs
<1>5. total + x \in Nat /\ l \in Nat /\ y \in Nat /\ W \in Nat
  BY <1>1, <1>2, WordIs
<1>6. CASE l + y < W
  <2>1. total + x = (a + b) * W + (l + y) /\ a + b \in Nat /\ l + y \in Nat
    BY <1>1, <1>2, <1>4, <1>5
  <2>2. (total + x) \div W = a + b /\ (total + x) % W = l + y
    BY <1>5, <1>6, <2>1, DivIs
  <2>3. ~(low < l)
    BY <1>3, <1>5, <2>2
  <2>4. (total + x) \div W = a + 0 + b
    BY <1>1, <1>2, <2>2
  <2> QED
    BY <1>3, <2>3, <2>4 DEF a, l, b
<1>7. CASE ~(l + y < W)
  <2>1. total + x = (a + 1 + b) * W + (l + y - W) /\ a + 1 + b \in Nat /\ l + y - W \in Nat
        /\ l + y - W < W /\ l + y - W < l
    BY <1>1, <1>2, <1>4, <1>5, <1>7
  <2>2. (total + x) \div W = a + 1 + b /\ (total + x) % W = l + y - W
    BY <1>5, <2>1, DivIs
  <2>3. low < l
    BY <1>3, <2>1, <2>2
  <2> QED
    BY <1>3, <2>2, <2>3 DEF a, l, b
<1> QED
  BY <1>6, <1>7

LEMMA CountedIs ==
  ASSUME NEW ctx, DOMAIN ctx = CtxFields, NEW total \in Nat, Counting(ctx, total), NEW len \in Nat
  PROVE  LET next == H!CountedBits(ctx, len)
         IN  /\ DOMAIN next = CtxFields /\ next.state = ctx.state /\ next.num = ctx.num
             /\ next.buffer = ctx.buffer
             /\ Counting(next, total + len * ByteBits)
<1> DEFINE x == len * ByteBits
           low == ((total % W) + x) % W
           carry == IF low < total % W THEN 1 ELSE 0
           high == (((total \div W) % W) + carry + (x \div W)) % W
           v == W \div ByteBits
<1>1. x \in Nat /\ x = ByteBits * len
  BY WordIs, Times
<1>2. x \div W = len \div v
  <2>1. x \div ByteBits = len
    <3>1. x = len * ByteBits + 0 /\ 0 < ByteBits /\ 0 \in Nat
      BY <1>1, WordIs
    <3> HIDE DEF x
    <3> QED
      BY <1>1, <3>1, WordIs, DivIs
  <2>2. v \in Nat /\ v # 0 /\ W = ByteBits * v
    BY WordIs
  <2> HIDE DEF x, v
  <2>3. x \div (ByteBits * v) = (x \div ByteBits) \div v
    BY <1>1, <2>2, WordIs, DivTwice
  <2> QED
    BY <2>1, <2>2, <2>3
<1>3. H!CountedBits(ctx, len) = [ctx EXCEPT !.low = low, !.high = high]
  <2>1. ctx.low = total % W /\ ctx.high = (total \div W) % W
    BY DEF Counting
  <2> HIDE DEF v, x
  <2>2. x = len * ByteBits
    BY DEF x
  <2> QED
    BY <1>2, <2>1, <2>2, SameOperators DEF H!CountedBits, v
<1> HIDE DEF x
<1>4. low = (total + x) % W /\ (total + x) \div W = (total \div W) + carry + (x \div W)
  BY <1>1, Carries
<1>5. high = ((total + x) \div W) % W
  <2> DEFINE a == total \div W
             b == carry + (x \div W)
  <2>1. a \in Nat /\ x \div W \in Nat /\ carry \in Nat
    BY <1>1, WordIs, DivMod
  <2>2. b \in Nat /\ a + b = a + carry + (x \div W)
    BY <2>1
  <2>3. a % W \in Nat
    BY <2>1, WordIs, DivMod
  <2>4. (a % W) + carry + (x \div W) = (a % W) + b
    BY <2>1, <2>3
  <2>6. W \in Nat /\ W # 0 /\ a \in Nat /\ b \in Nat
    BY <2>1, <2>2, WordIs
  <2> HIDE DEF a, b
  <2>5. ((a % W) + b) % W = (a + b) % W
    BY <2>6, AddWithin
  <2> USE DEF a
  <2> QED
    BY <1>4, <2>2, <2>4, <2>5
<1> HIDE DEF low, high
<1> DEFINE next == [ctx EXCEPT !.low = low, !.high = high]
<1>6. /\ DOMAIN next = CtxFields /\ next.state = ctx.state /\ next.num = ctx.num
      /\ next.buffer = ctx.buffer /\ next.low = low /\ next.high = high
  BY DEF CtxFields
<1> HIDE DEF next
<1>7. Counting(next, total + x)
  BY <1>4, <1>5, <1>6 DEF Counting
<1> QED
  BY <1>3, <1>6, <1>7 DEF next, x

-----------------------------------------------------------------------------
(* Bytes that are handed over.                                             *)

LEMMA RestKeeps ==
  ASSUME NEW ctx, DOMAIN ctx = CtxFields, NEW data
  PROVE  LET whole == (Len(data) \div BL) * BL
             rest == SubSeq(data, whole + 1, Len(data))
             next == H!Rest(ctx, data)
         IN  /\ DOMAIN next = CtxFields /\ next.low = ctx.low /\ next.high = ctx.high
             /\ next.state = H!Compressed(ctx.state, data)
             /\ next.num = (IF rest = <<>> THEN ctx.num ELSE Len(rest))
             /\ next.buffer = H!Copied(ctx.buffer, 0, rest)
<1> DEFINE rest == SubSeq(data, (Len(data) \div BL) * BL + 1, Len(data))
           num == IF rest = <<>> THEN ctx.num ELSE Len(rest)
           state == H!Compressed(ctx.state, data)
           buffer == H!Copied(ctx.buffer, 0, rest)
           next == [ctx EXCEPT !.state = state, !.num = num, !.buffer = buffer]
<1>1. H!Rest(ctx, data) = next
  BY DEF H!Rest, BL
<1> HIDE DEF num, state, buffer
<1>2. /\ DOMAIN next = CtxFields /\ next.low = ctx.low /\ next.high = ctx.high
      /\ next.state = state /\ next.num = num /\ next.buffer = buffer
  BY DEF CtxFields
<1> HIDE DEF next
<1> QED
  BY <1>1, <1>2 DEF num, state, buffer

\* When nothing is left in the buffer, whole blocks go past it.
LEMMA RestStands ==
  ASSUME NEW S, NEW ctx, NEW whole, Standing(S, ctx, whole, <<>>), NEW data \in Seq(S)
  PROVE  \E more \in Seq(S), rest \in Seq(S) :
           /\ data = more \o rest
           /\ Standing(S, H!Rest(ctx, data), whole \o more, rest)
<1> DEFINE q == Len(data) \div BL
           r == Len(data) % BL
           n == q * BL
           more == SubSeq(data, 1, n)
           rest == SubSeq(data, n + 1, Len(data))
           next == H!Rest(ctx, data)
<1>0. Len(data) \in Nat
  OBVIOUS
<1>1. q \in Nat /\ r \in 0 .. (BL - 1) /\ Len(data) = n + r
  BY <1>0, LengthsAre, DivMod
<1>2. n \in Nat /\ n % BL = 0 /\ r \in Nat /\ r < BL
  <2> DEFINE m == q * BL
  <2>1. m \in Nat /\ m = q * BL + 0 /\ 0 \in Nat /\ 0 < BL
    BY <1>1, LengthsAre
  <2> HIDE DEF m, q
  <2>2. m % BL = 0
    BY <1>1, <2>1, LengthsAre, DivIs
  <2> QED
    BY <1>1, <2>1, <2>2, LengthsAre DEF m
<1>3. DOMAIN ctx = CtxFields
  BY DEF Standing
<1>4. /\ DOMAIN next = CtxFields
      /\ next.state = H!Compressed(ctx.state, data)
      /\ next.num = (IF rest = <<>> THEN ctx.num ELSE Len(rest))
      /\ next.buffer = H!Copied(ctx.buffer, 0, rest)
  BY <1>3, RestKeeps
<1> HIDE DEF n, q, r, next
<1>5. /\ more \in Seq(S) /\ Len(more) = n /\ rest \in Seq(S) /\ Len(rest) = r
      /\ data = more \o rest
  <2>1. n \in 0 .. Len(data) /\ Len(data) - n = r
    BY <1>0, <1>1, <1>2
  <2> QED
    BY <2>1, CutInTwo
<1> HIDE DEF more, rest
<1>6. /\ whole \in Seq(S) /\ Len(whole) % BL = 0 /\ ctx.state = Cut(whole) /\ ctx.num = 0
      /\ ctx.buffer \in Seq(S) /\ Len(ctx.buffer) = BL
  BY DEF Standing
<1>7. next.num = Len(rest)
  <2>1. rest = <<>> => Len(rest) = 0
    OBVIOUS
  <2> QED
    BY <1>4, <1>6, <2>1
<1>8. /\ next.buffer \in Seq(S) /\ Len(next.buffer) = BL
      /\ \A k \in 1 .. Len(rest) : next.buffer[k] = rest[k]
  <2> DEFINE old == ctx.buffer
             b == H!Copied(old, 0, rest)
  <2>1. 0 + Len(rest) <= BL /\ 0 \in Nat /\ Len(rest) \in Nat
    BY <1>1, <1>2, <1>5, LengthsAre
  <2>a. rest \in Seq(S) /\ old \in Seq(S) /\ Len(old) = BL
    BY <1>5, <1>6
  <2> HIDE DEF old
  <2>2. /\ b \in Seq(S) /\ Len(b) = BL
        /\ \A k \in 1 .. Len(rest) : b[0 + k] = rest[k]
    <3>1. Replaced(S, b, old, 0, rest)
      BY <2>1, <2>a, CopiedIs
    <3> HIDE DEF b
    <3> QED
      BY <3>1 DEF Replaced
  <2>3. \A k \in 1 .. Len(rest) : 0 + k = k
    BY <2>1
  <2> HIDE DEF b
  <2>4. \A k \in 1 .. Len(rest) : b[k] = rest[k]
    BY <2>2, <2>3
  <2> QED
    BY <1>4, <2>2, <2>4 DEF b, old
<1>9. next.state = Cut(whole \o more)
  <2>1. next.state = Cut(whole) \o Cut(data)
    BY <1>4, <1>6, CompressedIs
  <2>2. Cut(rest) = <<>>
    BY <1>2, <1>5, CutNothing
  <2>3. Cut(data) = Cut(more) \o Cut(rest)
    BY <1>2, <1>5, CutConcat
  <2>4. Cut(more) \in Seq(Seq(S))
    <3>1. Len(more) = q * BL + 0 /\ 0 \in Nat /\ 0 < BL
      BY <1>1, <1>2, <1>5, LengthsAre DEF n
    <3> QED
      BY <1>1, <1>5, <3>1, CutIs
  <2>5. Cut(more) \o <<>> = Cut(more)
    BY <2>4, EmptyRow
  <2>6. Cut(whole \o more) = Cut(whole) \o Cut(more)
    BY <1>5, <1>6, CutConcat
  <2> QED
    BY <2>1, <2>2, <2>3, <2>5, <2>6
<1>10. whole \o more \in Seq(S) /\ Len(whole \o more) % BL = 0
  <2>1. whole \o more \in Seq(S) /\ Len(whole \o more) = Len(whole) + Len(more)
    BY <1>5, <1>6, ConcatIs
  <2>2. Len(whole) \in Nat /\ n \in Nat
    BY <1>2, <1>6
  <2>3. ((Len(whole) % BL) + n) % BL = (Len(whole) + n) % BL
    BY <2>2, LengthsAre, AddWithin
  <2>4. (0 + n) % BL = 0
    BY <1>2
  <2> QED
    BY <1>5, <1>6, <2>1, <2>3, <2>4
<1>11. Len(rest) < BL
  BY <1>2, <1>5
<1>12. Standing(S, next, whole \o more, rest)
  BY <1>4, <1>5, <1>7, <1>8, <1>9, <1>10, <1>11 DEF Standing
<1> QED
  BY <1>5, <1>12 DEF next

\* A row stands at the head of a buffer.
Heads(S, buffer, row) ==
  /\ buffer \in Seq(S) /\ Len(buffer) = BL
  /\ \A k \in 1 .. Len(row) : buffer[k] = row[k]

\* The rest in the buffer and what follows it.
LEMMA Filled ==
  ASSUME NEW S, NEW ctx, NEW whole, NEW rest, Standing(S, ctx, whole, rest),
         NEW data \in Seq(S), Len(rest) + Len(data) <= BL
  PROVE  Heads(S, H!Copied(ctx.buffer, ctx.num, data), rest \o data)
<1> DEFINE buffer == H!Copied(ctx.buffer, ctx.num, data)
<1>0. /\ ctx.buffer \in Seq(S) /\ Len(ctx.buffer) = BL /\ ctx.num = Len(rest) /\ rest \in Seq(S)
      /\ \A k \in 1 .. Len(rest) : ctx.buffer[k] = rest[k]
  BY DEF Standing
<1>n. Len(rest) \in Nat /\ Len(data) \in Nat
  BY <1>0
<1>1. /\ buffer \in Seq(S) /\ Len(buffer) = BL
      /\ \A k \in 1 .. Len(rest) : buffer[k] = ctx.buffer[k]
      /\ \A k \in 1 .. Len(data) : buffer[Len(rest) + k] = data[k]
  <2> DEFINE n == ctx.num
             old == ctx.buffer
             b == H!Copied(old, n, data)
  <2>1. n \in Nat /\ n + Len(data) <= BL /\ n = Len(rest)
    BY <1>0, <1>n
  <2>2. old \in Seq(S) /\ Len(old) = BL
    BY <1>0
  <2> HIDE DEF n, old
  <2>3. Replaced(S, b, old, n, data)
    BY <2>1, <2>2, CopiedIs
  <2> HIDE DEF b
  <2>4. buffer = b
    BY DEF buffer, b, n, old
  <2> QED
    BY <2>1, <2>3, <2>4 DEF old, Replaced
<1> HIDE DEF buffer
<1>2. /\ Len(rest \o data) = Len(rest) + Len(data)
      /\ \A k \in 1 .. Len(rest) : (rest \o data)[k] = rest[k]
      /\ \A k \in 1 .. Len(data) : (rest \o data)[Len(rest) + k] = data[k]
  BY <1>0, ConcatIs
<1>3. ASSUME NEW k \in 1 .. Len(rest \o data) PROVE buffer[k] = (rest \o data)[k]
  <2>1. CASE k <= Len(rest)
    <3>1. k \in 1 .. Len(rest)
      BY <1>n, <1>2, <2>1
    <3> QED
      BY <1>0, <1>1, <1>2, <3>1
  <2>2. CASE ~(k <= Len(rest))
    <3> DEFINE j == k - Len(rest)
    <3>1. j \in 1 .. Len(data) /\ k = Len(rest) + j
      BY <1>n, <1>2, <2>2
    <3> HIDE DEF j
    <3> QED
      BY <1>1, <1>2, <3>1
  <2> QED
    BY <2>1, <2>2
<1> QED
  BY <1>1, <1>3 DEF buffer, Heads

\* What a context is after a message.
Reached(S, ctx, message) ==
  /\ \E whole \in Seq(S), rest \in Seq(S) :
       message = whole \o rest /\ Standing(S, ctx, whole, rest)
  /\ Counting(ctx, Len(message) * ByteBits)

LEMMA StandsAlike ==
  ASSUME NEW S, NEW ctx, NEW next, NEW whole, NEW rest, Standing(S, ctx, whole, rest),
         DOMAIN next = CtxFields, next.state = ctx.state, next.num = ctx.num,
         next.buffer = ctx.buffer
  PROVE  Standing(S, next, whole, rest)
BY DEF Standing

LEMMA WholeWith ==
  ASSUME NEW S, NEW whole \in Seq(S), Len(whole) % BL = 0, NEW row \in Seq(S), Len(row) % BL = 0
  PROVE  whole \o row \in Seq(S) /\ Len(whole \o row) % BL = 0
<1>1. whole \o row \in Seq(S) /\ Len(whole \o row) = Len(whole) + Len(row)
  BY ConcatIs
<1> DEFINE a == Len(whole)
           b == Len(row)
<1>2. a \in Nat /\ b \in Nat /\ BL \in Nat /\ BL # 0
  BY LengthsAre
<1> HIDE DEF a, b
<1>3. ((a % BL) + b) % BL = (a + b) % BL
  BY <1>2, AddWithin
<1>4. (0 + b) % BL = b % BL
  BY <1>2
<1> QED
  BY <1>1, <1>3, <1>4 DEF a, b

\* The buffer is filled up and compressed.
LEMMA FillStands ==
  ASSUME NEW S, 0 \in S, NEW ctx, NEW whole, NEW rest, Standing(S, ctx, whole, rest),
         NEW data \in Seq(S), Len(rest) + Len(data) = BL
  PROVE  LET first == H!Copied(ctx.buffer, ctx.num, data)
             next == [ctx EXCEPT !.state = H!Compressed(@, first), !.num = 0,
                                 !.buffer = H!Zeroes(BL)]
         IN  Standing(S, next, whole \o (rest \o data), <<>>)
<1> DEFINE first == H!Copied(ctx.buffer, ctx.num, data)
           row == rest \o data
           state == H!Compressed(ctx.state, first)
           next == [ctx EXCEPT !.state = state, !.num = 0, !.buffer = H!Zeroes(BL)]
<1>0. /\ DOMAIN ctx = CtxFields /\ whole \in Seq(S) /\ rest \in Seq(S) /\ Len(whole) % BL = 0
      /\ ctx.state = Cut(whole)
  BY DEF Standing
<1>1. row \in Seq(S) /\ Len(row) = BL
  BY <1>0, ConcatIs
<1>2. first = row
  <2>1. /\ first \in Seq(S) /\ Len(first) = BL
        /\ \A k \in 1 .. Len(row) : first[k] = row[k]
    <3>1. Len(rest) + Len(data) <= BL
      BY LengthsAre
    <3> QED
      BY <3>1, Filled DEF Heads
  <2> HIDE DEF first, row
  <2> QED
    BY <1>1, <2>1, SameRow
<1> HIDE DEF first
<1>3. state = Cut(whole \o row)
  <2>1. state = Cut(whole) \o Cut(row)
    BY <1>0, <1>1, <1>2, CompressedIs
  <2> HIDE DEF row
  <2> QED
    BY <1>0, <1>1, <2>1, CutConcat
<1> HIDE DEF state
<1>4. DOMAIN next = CtxFields /\ next.state = state /\ next.num = 0 /\ next.buffer = H!Zeroes(BL)
  BY <1>0 DEF CtxFields
<1>5. H!Zeroes(BL) \in Seq(S) /\ Len(H!Zeroes(BL)) = BL
  <2>1. [k \in 1 .. BL |-> 0] \in [1 .. BL -> S]
    OBVIOUS
  <2>2. H!Zeroes(BL) = [k \in 1 .. BL |-> 0]
    BY DEF H!Zeroes
  <2> QED
    BY <2>1, <2>2, LengthsAre, RowIs
<1>6. whole \o row \in Seq(S) /\ Len(whole \o row) % BL = 0
  <2>1. BL % BL = 0
    <3>1. BL = 1 * BL + 0 /\ 1 \in Nat /\ 0 \in Nat /\ 0 < BL /\ BL \in Nat
      BY LengthsAre
    <3> QED
      BY <3>1, DivIs
  <2> HIDE DEF row
  <2> QED
    BY <1>0, <1>1, <2>1, WholeWith
<1>7. <<>> \in Seq(S) /\ Len(<<>>) = 0 /\ 0 < BL
  BY LengthsAre
<1> HIDE DEF next, row
<1>8. Standing(S, next, whole \o row, <<>>)
  BY <1>3, <1>4, <1>5, <1>6, <1>7 DEF Standing
<1> QED
  BY <1>8 DEF next, row, state, first

\* A context stands at the end of a row, and has the length of another.
Passed(S, next, counted, row) ==
  /\ \E more \in Seq(S), left \in Seq(S) : row = more \o left /\ Standing(S, next, more, left)
  /\ next.low = counted.low /\ next.high = counted.high

LEMMA UpdateStands ==
  ASSUME NEW S, 0 \in S, NEW ctx, NEW whole, NEW rest, Standing(S, ctx, whole, rest),
         NEW data \in Seq(S), data # <<>>,
         NEW counted, counted = H!CountedBits(ctx, Len(data)),
         DOMAIN counted = CtxFields, counted.state = ctx.state, counted.num = ctx.num,
         counted.buffer = ctx.buffer
  PROVE  Passed(S, H!HashUpdate(ctx, data), counted, whole \o (rest \o data))
<1> DEFINE next == H!HashUpdate(ctx, data)
           room == BL - ctx.num
<1>0. /\ whole \in Seq(S) /\ rest \in Seq(S) /\ ctx.num = Len(rest) /\ Len(rest) \in Nat
      /\ Len(rest) < BL /\ Len(data) \in Nat /\ Len(data) # 0
  BY DEF Standing
<1>s. Standing(S, counted, whole, rest)
  BY StandsAlike
<1>1. CASE ctx.num = 0
  <2>1. next = H!Rest(counted, data)
    BY <1>1 DEF H!HashUpdate
  <2>2. rest = <<>>
    <3>1. rest \in Seq(S) /\ Len(rest) = 0
      BY <1>0, <1>1
    <3> QED
      BY <3>1, EmptyRow
  <2>3. PICK more \in Seq(S), left \in Seq(S) :
          data = more \o left /\ Standing(S, H!Rest(counted, data), whole \o more, left)
    BY <1>s, <2>2, RestStands
  <2>4. whole \o (rest \o data) = (whole \o more) \o left
    <3>1. rest \o data = data
      BY <2>2, EmptyRow
    <3>2. (whole \o more) \o left = whole \o (more \o left)
      <4>1. whole \in Seq(S) /\ more \in Seq(S) /\ left \in Seq(S)
        BY <1>0, <2>3
      <4> QED
        BY <4>1, Associates
    <3> QED
      BY <2>3, <3>1, <3>2
  <2>5. whole \o more \in Seq(S)
    BY <1>0, <2>3, ConcatIs
  <2>6. H!Rest(counted, data).low = counted.low /\ H!Rest(counted, data).high = counted.high
    BY RestKeeps
  <2> HIDE DEF next
  <2>7. next.low = counted.low /\ next.high = counted.high /\ Standing(S, next, whole \o more, left)
    BY <2>1, <2>3, <2>6
  <2> QED
    BY <2>3, <2>4, <2>5, <2>7 DEF next, Passed
<1>2. CASE ctx.num # 0 /\ Len(data) < room
  <2> DEFINE num == ctx.num + Len(data)
             buffer == H!Copied(ctx.buffer, ctx.num, data)
             made == [counted EXCEPT !.num = num, !.buffer = buffer]
             left == rest \o data
  <2>1. next = made
    <3>1. next = [counted EXCEPT !.num = @ + Len(data), !.buffer = H!Copied(@, ctx.num, data)]
      BY <1>2 DEF H!HashUpdate, BL
    <3> QED
      BY <3>1
  <2>2. /\ buffer \in Seq(S) /\ Len(buffer) = BL
        /\ \A k \in 1 .. Len(left) : buffer[k] = left[k]
    <3>1. Len(rest) + Len(data) <= BL
      BY <1>0, <1>2, LengthsAre
    <3> QED
      BY <3>1, Filled DEF Heads
  <2>3. left \in Seq(S) /\ Len(left) = num
    BY <1>0, ConcatIs
  <2>4. num < BL
    BY <1>0, <1>2, LengthsAre
  <2> HIDE DEF num, buffer, left
  <2>5. /\ DOMAIN made = CtxFields /\ made.num = num /\ made.buffer = buffer
        /\ made.state = counted.state /\ made.low = counted.low /\ made.high = counted.high
    BY DEF CtxFields
  <2> HIDE DEF made, next
  <2>6. Standing(S, made, whole, left)
    BY <1>s, <2>2, <2>3, <2>4, <2>5 DEF Standing
  <2>7. Standing(S, next, whole, left) /\ next.low = counted.low /\ next.high = counted.high
    BY <2>1, <2>5, <2>6
  <2>8. \E more \in Seq(S), l \in Seq(S) :
          whole \o (rest \o data) = more \o l /\ Standing(S, next, more, l)
    BY <1>0, <2>3, <2>7 DEF left
  <2> QED
    BY <2>7, <2>8 DEF next, Passed
<1>3. CASE ctx.num # 0 /\ ~(Len(data) < room)
  <2> DEFINE a == SubSeq(data, 1, room)
             b == SubSeq(data, room + 1, Len(data))
             first == H!Copied(ctx.buffer, ctx.num, a)
             filled == [counted EXCEPT !.state = H!Compressed(@, first), !.num = 0,
                                       !.buffer = H!Zeroes(BL)]
             all == whole \o (rest \o a)
  <2>1. next = H!Rest(filled, b)
    BY <1>3 DEF H!HashUpdate, BL
  <2>2. /\ a \in Seq(S) /\ Len(a) = room /\ b \in Seq(S) /\ data = a \o b
    <3>1. room \in 0 .. Len(data)
      BY <1>0, <1>3, LengthsAre
    <3> QED
      BY <3>1, CutInTwo
  <2>3. Len(rest) + Len(a) = BL
    BY <1>0, <2>2, LengthsAre
  <2> HIDE DEF a, b
  <2>4. Standing(S, filled, all, <<>>)
    <3> DEFINE f == H!Copied(counted.buffer, counted.num, a)
               g == [counted EXCEPT !.state = H!Compressed(@, f), !.num = 0, !.buffer = H!Zeroes(BL)]
    <3>1. Standing(S, g, all, <<>>)
      BY <1>s, <2>2, <2>3, FillStands
    <3> QED
      BY <3>1
  <2>5. filled.low = counted.low /\ filled.high = counted.high /\ DOMAIN filled = CtxFields
    BY DEF CtxFields
  <2> HIDE DEF filled, all, next
  <2>6. PICK more \in Seq(S), left \in Seq(S) :
          b = more \o left /\ Standing(S, H!Rest(filled, b), all \o more, left)
    BY <2>2, <2>4, RestStands
  <2>7. H!Rest(filled, b).low = filled.low /\ H!Rest(filled, b).high = filled.high
    BY <2>5, RestKeeps
  <2>8. /\ all \in Seq(S) /\ all \o more \in Seq(S) /\ rest \o a \in Seq(S)
    <3>1. all \in Seq(S)
      BY <2>4 DEF Standing
    <3> QED
      BY <1>0, <2>2, <2>6, <3>1, ConcatIs
  <2>9. whole \o (rest \o data) = (all \o more) \o left
    <3>1. rest \o data = (rest \o a) \o b
      <4>1. rest \in Seq(S) /\ a \in Seq(S) /\ b \in Seq(S)
        BY <1>0, <2>2
      <4>2. (rest \o a) \o b = rest \o (a \o b)
        BY <4>1
      <4> QED
        BY <2>2, <4>2
    <3>2. whole \o ((rest \o a) \o b) = (whole \o (rest \o a)) \o b
      <4> DEFINE row == rest \o a
      <4>1. whole \in Seq(S) /\ row \in Seq(S) /\ b \in Seq(S)
        BY <1>0, <2>2, <2>8
      <4> HIDE DEF row
      <4>2. (whole \o row) \o b = whole \o (row \o b)
        BY <4>1
      <4> QED
        BY <4>2 DEF row
    <3>3. all \o (more \o left) = (all \o more) \o left
      <4>1. all \in Seq(S) /\ more \in Seq(S) /\ left \in Seq(S)
        BY <2>6, <2>8
      <4> QED
        BY <4>1, Associates
    <3> QED
      BY <2>6, <3>1, <3>2, <3>3 DEF all
  <2>10. Standing(S, next, all \o more, left) /\ next.low = counted.low /\ next.high = counted.high
    BY <2>1, <2>5, <2>6, <2>7
  <2> QED
    BY <2>6, <2>8, <2>9, <2>10 DEF next, Passed
<1> QED
  BY <1>1, <1>2, <1>3

\* A part of a message is added to what the context has reached.
LEMMA UpdateReaches ==
  ASSUME NEW S, 0 \in S, NEW ctx, NEW message \in Seq(S), Reached(S, ctx, message),
         NEW data \in Seq(S)
  PROVE  Reached(S, H!HashUpdate(ctx, data), message \o data)
<1> DEFINE next == H!HashUpdate(ctx, data)
           total == Len(message) * ByteBits
           len == Len(data)
           counted == H!CountedBits(ctx, len)
<1>1. CASE data = <<>>
  <2>1. next = ctx
    BY <1>1 DEF H!HashUpdate
  <2>2. message \o data = message
    BY <1>1, EmptyRow
  <2> QED
    BY <2>1, <2>2
<1>2. CASE data # <<>>
  <2>1. PICK whole \in Seq(S), rest \in Seq(S) :
          message = whole \o rest /\ Standing(S, ctx, whole, rest)
    BY DEF Reached
  <2>2. Len(message) \in Nat /\ len \in Nat /\ total \in Nat
    <3>1. Len(message) \in Nat /\ Len(data) \in Nat
      OBVIOUS
    <3> QED
      BY <3>1, WordIs
  <2>3. DOMAIN ctx = CtxFields /\ Counting(ctx, total)
    BY <2>1 DEF Standing, Reached
  <2>4. (Len(message) + len) * ByteBits = total + len * ByteBits
    <3> DEFINE m == Len(message)
    <3>1. m \in Nat /\ len \in Nat
      BY <2>2
    <3> HIDE DEF m, len
    <3>2. (m + len) * ByteBits = m * ByteBits + len * ByteBits
      BY <3>1, WordIs
    <3> QED
      BY <3>2 DEF m
  <2> HIDE DEF total, len
  <2>5. /\ DOMAIN counted = CtxFields /\ counted.state = ctx.state /\ counted.num = ctx.num
        /\ counted.buffer = ctx.buffer
        /\ Counting(counted, total + len * ByteBits)
    BY <2>2, <2>3, CountedIs
  <2> HIDE DEF counted, next
  <2>6. /\ \E more \in Seq(S), left \in Seq(S) :
             whole \o (rest \o data) = more \o left /\ Standing(S, next, more, left)
        /\ next.low = counted.low /\ next.high = counted.high
    <3>1. counted = H!CountedBits(ctx, Len(data))
      BY DEF counted, len
    <3>2. Standing(S, ctx, whole, rest) /\ data # <<>>
      BY <1>2, <2>1
    <3>3. /\ DOMAIN counted = CtxFields /\ counted.state = ctx.state /\ counted.num = ctx.num
          /\ counted.buffer = ctx.buffer
      BY <2>5
    <3>4. Passed(S, next, counted, whole \o (rest \o data))
      BY <3>1, <3>2, <3>3, UpdateStands DEF next
    <3> QED
      BY <3>4 DEF Passed
  <2>7. message \o data = whole \o (rest \o data) /\ Len(message \o data) = Len(message) + len
    <3>1. (whole \o rest) \o data = whole \o (rest \o data)
      BY <2>1, Associates
    <3>2. Len(message \o data) = Len(message) + Len(data)
      BY ConcatIs
    <3> QED
      BY <2>1, <3>1, <3>2 DEF len
  <2>8. Counting(next, Len(message \o data) * ByteBits)
    BY <2>4, <2>5, <2>6, <2>7 DEF Counting
  <2> QED
    BY <2>6, <2>7, <2>8 DEF Reached, next
<1> QED
  BY <1>1, <1>2

LEMMA InitReaches ==
  ASSUME NEW S, 0 \in S
  PROVE  Reached(S, H!HashInit, <<>>)
<1> DEFINE ctx == H!HashInit
           zeroes == H!Zeroes(BL)
<1>1. ctx = [state |-> <<>>, low |-> 0, high |-> 0, num |-> 0, buffer |-> zeroes]
  BY DEF H!HashInit, BL
<1>2. zeroes \in Seq(S) /\ Len(zeroes) = BL
  <2>1. [k \in 1 .. BL |-> 0] \in [1 .. BL -> S]
    OBVIOUS
  <2>2. zeroes = [k \in 1 .. BL |-> 0]
    BY DEF H!Zeroes
  <2> HIDE DEF zeroes
  <2> QED
    BY <2>1, <2>2, LengthsAre, RowIs
<1> HIDE DEF zeroes
<1>3. /\ DOMAIN ctx = CtxFields /\ ctx.state = <<>> /\ ctx.low = 0 /\ ctx.high = 0 /\ ctx.num = 0
      /\ ctx.buffer = zeroes
  BY <1>1 DEF CtxFields
<1> HIDE DEF ctx
<1>4. <<>> \in Seq(S) /\ Len(<<>>) = 0 /\ 0 < BL /\ <<>> \o <<>> = <<>>
  BY LengthsAre
<1>5. Cut(<<>>) = <<>>
  BY <1>4, CutNothing
<1>6. 0 % BL = 0 /\ 0 % W = 0 /\ 0 \div W = 0 /\ 0 * ByteBits = 0
  <2>1. 0 = 0 * BL + 0 /\ 0 < BL /\ BL \in Nat /\ 0 = 0 * W + 0 /\ 0 < W /\ W \in Nat
    BY LengthsAre, WordIs
  <2>2. 0 % BL = 0 /\ 0 % W = 0 /\ 0 \div W = 0
    BY <2>1, DivIs
  <2> QED
    BY <2>2, WordIs
<1>7. Standing(S, ctx, <<>>, <<>>)
  BY <1>2, <1>3, <1>4, <1>5, <1>6 DEF Standing
<1>8. Counting(ctx, 0)
  BY <1>3, <1>6 DEF Counting
<1> QED
  BY <1>4, <1>6, <1>7, <1>8 DEF Reached, ctx

-----------------------------------------------------------------------------
(* The end of a message.                                                   *)

LEMMA OneRemainder ==
  ASSUME NEW o \in Nat, NEW d \in Nat, NEW y \in 0 .. (d - 1), NEW z \in 0 .. (d - 1),
         (o + y) % d = 0, (o + z) % d = 0
  PROVE  y = z
<1> DEFINE n == o + d - 1
<1>0. n \in Nat /\ d # 0 /\ o + y \in Nat /\ o + z \in Nat
  OBVIOUS
<1>1. ASSUME NEW x \in 0 .. (d - 1), (o + x) % d = 0 PROVE n % d = d - 1 - x
  <2> DEFINE p == (o + x) \div d
  <2>1. o + x \in Nat
    OBVIOUS
  <2>2. p \in Nat /\ o + x = p * d + 0
    <3>1. p \in Nat /\ o + x = p * d + ((o + x) % d)
      BY <1>0, <2>1, DivMod
    <3> QED
      BY <1>1, <3>1
  <2> HIDE DEF p
  <2>3. p * d \in Nat
    BY <2>2
  <2>4. d - 1 - x \in Nat /\ d - 1 - x < d /\ n = p * d + (d - 1 - x)
    BY <1>1, <2>2, <2>3
  <2> HIDE DEF n
  <2> QED
    BY <1>0, <2>2, <2>4, DivIs
<1>2. n % d = d - 1 - y /\ n % d = d - 1 - z
  BY <1>1
<1> HIDE DEF n
<1>3. d - 1 - y = d - 1 - z
  BY <1>2
<1> QED
  BY <1>3

LEMMA LengthIs ==
  ASSUME NEW ctx, NEW total \in Nat, Counting(ctx, total), NEW endian \in {"big", "lit"}
  PROVE  (IF endian = "big" THEN H!BigEndian(ctx.high, WL) \o H!BigEndian(ctx.low, WL)
          ELSE H!Reverse(H!BigEndian(ctx.low, WL)) \o H!Reverse(H!BigEndian(ctx.high, WL)))
           = InOrder(BigEndian(total, 2 * WL), endian)
<1> DEFINE D == 0 .. (Base - 1)
           s == BigEndian(ctx.high, WL)
           t == BigEndian(ctx.low, WL)
           u == BigEndian(total, 2 * WL)
<1>1. ctx.low = total % W /\ ctx.high = (total \div W) % W
  BY DEF Counting
<1>2. ctx.low \in Nat /\ ctx.high \in Nat
  <2>1. total \div W \in Nat /\ total % W \in 0 .. (W - 1)
    BY WordIs, DivMod
  <2>2. (total \div W) % W \in 0 .. (W - 1)
    BY <2>1, WordIs, DivMod
  <2>3. ctx.low \in 0 .. (W - 1) /\ ctx.high \in 0 .. (W - 1)
    BY <1>1, <2>1, <2>2
  <2> QED
    BY <2>3, WordIs
<1>3. s \in Seq(D) /\ t \in Seq(D)
  BY <1>2, LengthsAre, BytesAre
<1>4. u = s \o t
  <2>1. BigEndian(total, WL + WL)
          = BigEndian((total \div Power(Base, WL)) % Power(Base, WL), WL)
              \o BigEndian(total % Power(Base, WL), WL)
    BY LengthsAre, TwoHalves
  <2>2. WL + WL = 2 * WL
    BY LengthsAre
  <2> QED
    BY <1>1, <2>1, <2>2 DEF W
<1> HIDE DEF s, t, u, D
<1>5. Reverse(u) = Reverse(t) \o Reverse(s)
  BY <1>3, <1>4, ReverseConcat
<1>6. /\ H!BigEndian(ctx.high, WL) = s /\ H!BigEndian(ctx.low, WL) = t
      /\ H!Reverse(s) = Reverse(s) /\ H!Reverse(t) = Reverse(t)
  BY SameOperators DEF s, t
<1>7. InOrder(u, endian) = IF endian = "big" THEN u ELSE Reverse(u)
  BY DEF InOrder
<1> QED
  BY <1>4, <1>5, <1>6, <1>7 DEF u

LEMMA ZeroesAre ==
  ASSUME NEW S, 0 \in S, NEW n \in Nat
  PROVE  /\ Zeroes(n) \in Seq(S) /\ Len(Zeroes(n)) = n /\ H!Zeroes(n) = Zeroes(n)
         /\ \A k \in 1 .. n : Zeroes(n)[k] = 0
<1>1. [k \in 1 .. n |-> 0] \in [1 .. n -> S]
  OBVIOUS
<1> QED
  BY <1>1, RowIs, SameOperators DEF Zeroes

LEMMA ZeroesAdd ==
  ASSUME NEW a \in Nat, NEW b \in Nat
  PROVE  Zeroes(a) \o Zeroes(b) = Zeroes(a + b)
<1> DEFINE s == Zeroes(a)
           t == Zeroes(b)
           u == Zeroes(a + b)
<1>0. 0 \in Nat /\ a + b \in Nat
  OBVIOUS
<1>1. s \in Seq(Nat) /\ Len(s) = a /\ \A k \in 1 .. a : s[k] = 0
  BY <1>0, ZeroesAre
<1>2. t \in Seq(Nat) /\ Len(t) = b /\ \A k \in 1 .. b : t[k] = 0
  BY <1>0, ZeroesAre
<1>3. u \in Seq(Nat) /\ Len(u) = a + b /\ \A k \in 1 .. (a + b) : u[k] = 0
  BY <1>0, ZeroesAre
<1> HIDE DEF s, t, u
<1>4. s \in Seq(Nat) /\ t \in Seq(Nat)
  BY <1>1, <1>2
<1>5. /\ s \o t \in Seq(Nat) /\ Len(s \o t) = Len(s) + Len(t)
      /\ \A k \in 1 .. Len(s) : (s \o t)[k] = s[k]
      /\ \A k \in 1 .. Len(t) : (s \o t)[Len(s) + k] = t[k]
  BY <1>4, ConcatIs
<1>6. ASSUME NEW k \in 1 .. (a + b) PROVE (s \o t)[k] = u[k]
  <2>1. CASE k <= a
    <3>1. k \in 1 .. a
      BY <2>1
    <3> QED
      BY <1>1, <1>3, <1>5, <3>1
  <2>2. CASE ~(k <= a)
    <3> DEFINE j == k - a
    <3>1. j \in 1 .. b /\ k = a + j
      BY <2>2
    <3> HIDE DEF j
    <3> QED
      BY <1>1, <1>2, <1>3, <1>5, <3>1
  <2> QED
    BY <2>1, <2>2
<1>7. s \o t \in Seq(Nat) /\ Len(s \o t) = Len(u)
  BY <1>1, <1>2, <1>3, <1>5
<1>8. s \o t = u
  BY <1>3, <1>6, <1>7, SameRow
<1> QED
  BY <1>8 DEF s, t, u

\* A buffer up to a place.
Padded(S, buffer, upto, row) ==
  buffer \in Seq(S) /\ Len(buffer) = BL /\ SubSeq(buffer, 1, upto) = row

\* A head that stands in the buffer is filled up with zeros.
LEMMA PadIs ==
  ASSUME NEW S, 0 \in S, NEW buffer \in Seq(S), Len(buffer) = BL, NEW head \in Seq(S),
         \A k \in 1 .. Len(head) : buffer[k] = head[k],
         NEW upto \in Nat, Len(head) <= upto, upto <= BL
  PROVE  Padded(S, H!Copied(buffer, Len(head), H!Zeroes(upto - Len(head))), upto,
                head \o Zeroes(upto - Len(head)))
<1> DEFINE n == Len(head)
           zeroes == Zeroes(upto - n)
           next == H!Copied(buffer, n, zeroes)
           a == SubSeq(next, 1, upto)
           b == head \o zeroes
<1>0. n \in Nat /\ upto - n \in Nat /\ n + (upto - n) = upto
  OBVIOUS
<1>1. /\ zeroes \in Seq(S) /\ Len(zeroes) = upto - n /\ H!Zeroes(upto - n) = zeroes
      /\ \A k \in 1 .. (upto - n) : zeroes[k] = 0
  BY <1>0, ZeroesAre
<1> HIDE DEF zeroes
<1>2. Replaced(S, next, buffer, n, zeroes)
  <2>1. n + Len(zeroes) <= BL
    BY <1>0, <1>1
  <2> QED
    BY <1>0, <1>1, <2>1, CopiedIs
<1> HIDE DEF next
<1>3. /\ next \in Seq(S) /\ Len(next) = BL
      /\ \A k \in 1 .. n : next[k] = head[k]
      /\ \A k \in 1 .. Len(zeroes) : next[n + k] = zeroes[k]
  BY <1>2 DEF Replaced
<1>4. a \in Seq(S) /\ Len(a) = upto /\ \A k \in 1 .. upto : a[k] = next[k]
  <2>1. 1 \in 1 .. (Len(next) + 1) /\ upto \in (1 - 1) .. Len(next) /\ upto - 1 + 1 = upto
    BY <1>3, LengthsAre
  <2>2. /\ a \in Seq(S) /\ Len(a) = upto - 1 + 1
        /\ \A k \in 1 .. (upto - 1 + 1) : a[k] = next[1 - 1 + k]
    BY <1>3, <2>1, SliceIs
  <2>3. \A k \in 1 .. upto : 1 - 1 + k = k
    OBVIOUS
  <2> QED
    BY <2>1, <2>2, <2>3
<1>5. /\ b \in Seq(S) /\ Len(b) = upto
      /\ \A k \in 1 .. n : b[k] = head[k]
      /\ \A k \in 1 .. Len(zeroes) : b[n + k] = zeroes[k]
  <2>1. head \in Seq(S) /\ zeroes \in Seq(S)
    BY <1>1
  <2>2. /\ b \in Seq(S) /\ Len(b) = Len(head) + Len(zeroes)
        /\ \A k \in 1 .. Len(head) : b[k] = head[k]
        /\ \A k \in 1 .. Len(zeroes) : b[Len(head) + k] = zeroes[k]
    BY <2>1, ConcatIs
  <2> QED
    BY <1>0, <1>1, <2>2
<1>6. ASSUME NEW k \in 1 .. upto PROVE a[k] = b[k]
  <2>1. CASE k <= n
    <3>1. k \in 1 .. n
      BY <1>0, <2>1
    <3> QED
      BY <1>3, <1>4, <1>5, <3>1
  <2>2. CASE ~(k <= n)
    <3> DEFINE j == k - n
    <3>1. j \in 1 .. Len(zeroes) /\ k = n + j
      BY <1>0, <1>1, <2>2
    <3> HIDE DEF j
    <3>2. a[k] = next[n + j] /\ next[n + j] = zeroes[j] /\ b[n + j] = zeroes[j]
      BY <1>3, <1>4, <1>5, <3>1
    <3> QED
      BY <3>1, <3>2
  <2> QED
    BY <2>1, <2>2
<1> HIDE DEF a, b
<1>7. a = b
  BY <1>4, <1>5, <1>6, SameRow
<1> QED
  BY <1>1, <1>3, <1>7 DEF a, b, next, zeroes, Padded

\* The head of the last blocks: what is left of the message, and the mark.
LEMMA MarkedIs ==
  ASSUME NEW S, Half \in S, NEW ctx, NEW whole, NEW rest, Standing(S, ctx, whole, rest)
  PROVE  /\ rest \o <<Half>> \in Seq(S) /\ Len(rest \o <<Half>>) = ctx.num + 1
         /\ Len(rest \o <<Half>>) <= BL
         /\ Heads(S, H!Copied(ctx.buffer, ctx.num, <<H!EndMark>>), rest \o <<Half>>)
<1> DEFINE one == <<Half>>
<1>0. rest \in Seq(S) /\ ctx.num = Len(rest) /\ Len(rest) < BL /\ Len(rest) \in Nat
  BY DEF Standing
<1>1. one \in Seq(S) /\ Len(one) = 1
  OBVIOUS
<1>2. <<H!EndMark>> = one
  BY SameOperators DEF H!EndMark
<1> HIDE DEF one
<1>3. rest \o one \in Seq(S) /\ Len(rest \o one) = Len(rest) + 1
  BY <1>0, <1>1, ConcatIs
<1>4. Len(rest) + Len(one) <= BL
  BY <1>0, <1>1, LengthsAre
<1>5. Heads(S, H!Copied(ctx.buffer, ctx.num, one), rest \o one)
  BY <1>1, <1>4, Filled
<1>6. Len(rest \o one) <= BL
  BY <1>0, <1>3, LengthsAre
<1> QED
  BY <1>0, <1>2, <1>3, <1>5, <1>6 DEF one

\* The zeros of the standard are those that fill the last block.
LEMMA FillingIs ==
  ASSUME NEW S, NEW whole \in Seq(S), Len(whole) % BL = 0, NEW rest \in Seq(S),
         NEW zeros \in 0 .. (BL - 1), NEW full \in {BL, 2 * BL},
         Len(rest) + 1 + zeros + 2 * WL = full
  PROVE  LET open == Len(whole \o rest) + 1 + 2 * WL
         IN  (CHOOSE z \in 0 .. (BL - 1) : (open + z) % BL = 0) = zeros
<1> DEFINE a == Len(whole)
           r == Len(rest)
           open == Len(whole \o rest) + 1 + 2 * WL
<1>1. a \in Nat /\ r \in Nat /\ Len(whole \o rest) = a + r /\ a % BL = 0
  BY ConcatIs
<1> HIDE DEF a, r
<1>2. open \in Nat /\ open + zeros = a + full /\ full \in Nat
  BY <1>1, LengthsAre DEF r
<1> HIDE DEF open
<1>3. full % BL = 0
  <2>1. BL = 1 * BL + 0 /\ 2 * BL = 2 * BL + 0 /\ 0 < BL /\ BL \in Nat /\ 2 * BL \in Nat
    BY LengthsAre
  <2>2. BL % BL = 0 /\ (2 * BL) % BL = 0
    <3> DEFINE twice == 2 * BL
    <3>1. BL % BL = 0
      <4>1. BL = 1 * BL + 0 /\ 1 \in Nat /\ 0 \in Nat /\ 0 < BL /\ BL \in Nat
        BY LengthsAre
      <4> QED
        BY <4>1, DivIs
    <3>2. twice = 2 * BL + 0 /\ twice \in Nat /\ 2 \in Nat /\ 0 \in Nat /\ 0 < BL /\ BL \in Nat
      BY <2>1
    <3> HIDE DEF twice
    <3>3. twice % BL = 0
      BY <3>2, DivIs
    <3> QED
      BY <3>1, <3>3 DEF twice
  <2> QED
    BY <2>2
<1>4. (open + zeros) % BL = 0
  <2>1. ((a % BL) + full) % BL = (a + full) % BL
    BY <1>1, <1>2, LengthsAre, AddWithin
  <2>2. 0 + full = full
    BY <1>2
  <2> QED
    BY <1>1, <1>2, <1>3, <2>1, <2>2
<1>5. ASSUME NEW z \in 0 .. (BL - 1), (open + z) % BL = 0 PROVE z = zeros
  BY <1>2, <1>4, <1>5, LengthsAre, OneRemainder
<1>6. (CHOOSE z \in 0 .. (BL - 1) : (open + z) % BL = 0) = zeros
  BY <1>4, <1>5
<1> QED
  BY <1>6 DEF open

\* The zeros that fill the last block, or the last two.
Fills(rest, zeros) ==
  /\ zeros \in 0 .. (BL - 1)
  /\ Len(rest) + 1 + zeros + 2 * WL \in {BL, 2 * BL}

LengthOf(message, endian) == InOrder(BigEndian(Len(message) * ByteBits, 2 * WL), endian)

\* The length at the end of the last block.
LEMMA LengthRow ==
  ASSUME NEW S, 0 .. (Base - 1) \subseteq S, NEW total \in Nat, NEW endian \in {"big", "lit"}
  PROVE  /\ InOrder(BigEndian(total, 2 * WL), endian) \in Seq(S)
         /\ Len(InOrder(BigEndian(total, 2 * WL), endian)) = 2 * WL
<1> DEFINE bytes == BigEndian(total, 2 * WL)
           D == 0 .. (Base - 1)
<1>1. 2 * WL \in Nat
  BY LengthsAre
<1>2. bytes \in Seq(D) /\ Len(bytes) = 2 * WL
  BY <1>1, BytesAre
<1> HIDE DEF bytes
<1>3. bytes \in Seq(S)
  <2>1. D \subseteq S
    OBVIOUS
  <2> HIDE DEF D
  <2>2. Len(bytes) \in Nat /\ bytes \in [1 .. Len(bytes) -> D]
    BY <1>2
  <2>3. bytes \in [1 .. Len(bytes) -> S]
    BY <2>1, <2>2
  <2> QED
    BY <2>2, <2>3, RowIs
<1>4. Reverse(bytes) \in Seq(S) /\ Len(Reverse(bytes)) = Len(bytes)
  BY <1>3, ReverseIs
<1> QED
  BY <1>2, <1>3, <1>4 DEF InOrder, bytes

\* The row the standards ask for, cut behind the whole blocks of the message.
LEMMA StandardIs ==
  ASSUME NEW S, 0 .. (Base - 1) \subseteq S, NEW whole \in Seq(S), Len(whole) % BL = 0,
         NEW rest \in Seq(S),
         NEW zeros, Fills(rest, zeros), NEW endian \in {"big", "lit"}
  PROVE  StandardBlocks(whole \o rest, endian)
           = Cut(whole) \o Cut(((rest \o <<Half>>) \o Zeroes(zeros)) \o LengthOf(whole \o rest, endian))
<1> DEFINE m == whole \o rest
           one == <<Half>>
           length == LengthOf(m, endian)
           zeroes == Zeroes(zeros)
           tail == ((rest \o one) \o zeroes) \o length
           row == ((m \o one) \o zeroes) \o length
<1>1. 0 \in S /\ Half \in S
  BY BaseIs
<1>2. one \in Seq(S)
  BY <1>1
<1>3. zeroes \in Seq(S)
  <2>1. zeros \in Nat
    BY LengthsAre DEF Fills
  <2> QED
    BY <1>1, <2>1, ZeroesAre
<1>4. length \in Seq(S)
  <2>1. Len(m) \in Nat
    <3>1. m \in Seq(S)
      BY ConcatIs
    <3> QED
      BY <3>1
  <2>2. Len(m) * ByteBits \in Nat
    BY <2>1, WordIs
  <2> QED
    BY <2>2, LengthRow DEF LengthOf
<1>5. (CHOOSE z \in 0 .. (BL - 1) : (Len(m) + 1 + 2 * WL + z) % BL = 0) = zeros
  <2> DEFINE full == Len(rest) + 1 + zeros + 2 * WL
  <2>1. zeros \in 0 .. (BL - 1) /\ full \in {BL, 2 * BL} /\ full = Len(rest) + 1 + zeros + 2 * WL
    BY DEF Fills
  <2> HIDE DEF full
  <2> QED
    BY <2>1, FillingIs
<1>6. StandardBlocks(m, endian)
        = [b \in 1 .. (Len(row) \div HashBlockLen) |->
             Slice(row, (b - 1) * HashBlockLen + 1, HashBlockLen)]
  <2> DEFINE open == Len(m) + 1 + 2 * HashWordLen
             found == CHOOSE z \in 0 .. (HashBlockLen - 1) : (open + z) % HashBlockLen = 0
             long == ((m \o <<Half>>) \o Zeroes(found))
                       \o InOrder(BigEndian(Len(m) * ByteBits, 2 * HashWordLen), endian)
  <2>1. StandardBlocks(m, endian)
          = [b \in 1 .. (Len(long) \div HashBlockLen) |->
               Slice(long, (b - 1) * HashBlockLen + 1, HashBlockLen)]
    BY DEF StandardBlocks
  <2>2. found = zeros
    BY <1>5 DEF BL, WL
  <2> HIDE DEF found
  <2>3. long = row
    BY <2>2 DEF BL, WL, LengthOf
  <2> QED
    BY <2>1, <2>3
<1> HIDE DEF one, length, zeroes
<1>7. row = whole \o tail /\ row \in Seq(S) /\ tail \in Seq(S)
  <2>0. whole \in Seq(S) /\ rest \in Seq(S) /\ one \in Seq(S) /\ zeroes \in Seq(S)
        /\ length \in Seq(S)
    BY <1>2, <1>3, <1>4
  <2> DEFINE a == rest \o one
             b == a \o zeroes
  <2>1. a \in Seq(S) /\ m \o one = whole \o a
    BY <2>0
  <2> HIDE DEF a
  <2>2. b \in Seq(S) /\ (whole \o a) \o zeroes = whole \o b
    <3>1. whole \in Seq(S) /\ a \in Seq(S) /\ zeroes \in Seq(S)
      BY <2>0, <2>1
    <3>2. a \o zeroes \in Seq(S)
      BY <3>1, ConcatIs
    <3>3. (whole \o a) \o zeroes = whole \o (a \o zeroes)
      BY <3>1
    <3> QED
      BY <3>2, <3>3
  <2> HIDE DEF b
  <2>3. b \o length \in Seq(S) /\ (whole \o b) \o length = whole \o (b \o length)
    <3>1. whole \in Seq(S) /\ b \in Seq(S) /\ length \in Seq(S)
      BY <2>0, <2>2
    <3>2. b \o length \in Seq(S)
      BY <3>1, ConcatIs
    <3>3. (whole \o b) \o length = whole \o (b \o length)
      BY <3>1
    <3> QED
      BY <3>2, <3>3
  <2>4. whole \o (b \o length) \in Seq(S)
    BY <2>0, <2>3, ConcatIs
  <2>5. tail = b \o length
    BY DEF a, b
  <2>6. row = whole \o (b \o length)
    BY <2>1, <2>2, <2>3
  <2> QED
    BY <2>3, <2>4, <2>5, <2>6
<1>8. StandardBlocks(m, endian) = Cut(row)
  BY <1>6, <1>7, SlicesAre
<1>9. Cut(whole \o tail) = Cut(whole) \o Cut(tail)
  BY <1>7, CutConcat
<1> QED
  BY <1>7, <1>8, <1>9 DEF one, length, zeroes

\* The two ways a message ends.
FinalPlain(ctx, endian, length) ==
  length = IF endian = "big" THEN H!BigEndian(ctx.high, WL) \o H!BigEndian(ctx.low, WL)
           ELSE H!Reverse(H!BigEndian(ctx.low, WL)) \o H!Reverse(H!BigEndian(ctx.high, WL))

LEMMA FinalShort ==
  ASSUME NEW ctx, NEW endian, NEW length, FinalPlain(ctx, endian, length),
         NEW n, n = ctx.num + 1, NEW room, room = BL - 2 * WL, n <= room,
         NEW marked, marked = H!Copied(ctx.buffer, ctx.num, <<H!EndMark>>)
  PROVE  H!HashFinal(ctx, endian)
           = H!Compressed(ctx.state,
               SubSeq(H!Copied(marked, n, H!Zeroes(room - n)), 1, room) \o length)
BY DEF FinalPlain, H!HashFinal, H!LengthFits, BL, WL

LEMMA FinalLong ==
  ASSUME NEW ctx, NEW endian, NEW length, FinalPlain(ctx, endian, length),
         NEW n, n = ctx.num + 1, NEW room, room = BL - 2 * WL, ~(n <= room),
         NEW marked, marked = H!Copied(ctx.buffer, ctx.num, <<H!EndMark>>),
         NEW filled, filled = H!Copied(marked, n, H!Zeroes(BL - n))
  PROVE  H!HashFinal(ctx, endian)
           = H!Compressed(H!Compressed(ctx.state, filled),
               SubSeq(H!Copied(filled, 0, H!Zeroes(room - 0)), 1, room) \o length)
BY DEF FinalPlain, H!HashFinal, H!LengthFits, BL, WL

\* The length fits behind the mark.
LEMMA ShortEnd ==
  ASSUME NEW S, 0 .. (Base - 1) \subseteq S, NEW whole \in Seq(S), Len(whole) % BL = 0,
         NEW rest \in Seq(S), NEW n, n = Len(rest \o <<Half>>), n = Len(rest) + 1,
         rest \o <<Half>> \in Seq(S),
         NEW marked, Heads(S, marked, rest \o <<Half>>), NEW endian \in {"big", "lit"},
         NEW room, room = BL - 2 * WL, n <= room,
         NEW length, length = LengthOf(whole \o rest, endian)
  PROVE  H!Compressed(Cut(whole), SubSeq(H!Copied(marked, n, H!Zeroes(room - n)), 1, room) \o length)
           = StandardBlocks(whole \o rest, endian)
<1> DEFINE head == rest \o <<Half>>
           zeros == room - n
           next == H!Copied(marked, n, H!Zeroes(room - n))
           row == (head \o Zeroes(zeros)) \o length
<1>0. 0 \in S /\ n \in Nat /\ room \in Nat /\ zeros \in Nat /\ room <= BL
  BY BaseIs, LengthsAre
<1>1. SubSeq(next, 1, room) = head \o Zeroes(zeros)
  <2>1. /\ marked \in Seq(S) /\ Len(marked) = BL /\ head \in Seq(S) /\ n = Len(head)
        /\ \A k \in 1 .. Len(head) : marked[k] = head[k]
    BY DEF Heads
  <2> HIDE DEF head
  <2>2. Len(head) <= room
    BY <2>1
  <2>3. Padded(S, H!Copied(marked, Len(head), H!Zeroes(room - Len(head))), room,
               head \o Zeroes(room - Len(head)))
    BY <1>0, <2>1, <2>2, PadIs
  <2> QED
    BY <2>1, <2>3 DEF Padded
<1>2. length \in Seq(S)
  <2>1. whole \o rest \in Seq(S)
    BY ConcatIs
  <2>2. Len(whole \o rest) \in Nat
    BY <2>1
  <2>3. Len(whole \o rest) * ByteBits \in Nat
    BY <2>2, WordIs
  <2> QED
    BY <2>3, LengthRow DEF LengthOf
<1>3. Zeroes(zeros) \in Seq(S)
  BY <1>0, ZeroesAre
<1>4. row \in Seq(S)
  <2> DEFINE z == Zeroes(zeros)
             c == head \o z
  <2>1. head \in Seq(S) /\ z \in Seq(S)
    BY <1>3
  <2> HIDE DEF head, z
  <2>2. c \in Seq(S)
    BY <2>1, ConcatIs
  <2> HIDE DEF c
  <2>3. c \o length \in Seq(S)
    BY <1>2, <2>2, ConcatIs
  <2> QED
    BY <2>3 DEF c, z
<1>5. H!Compressed(Cut(whole), row) = Cut(whole) \o Cut(row)
  <2> HIDE DEF row
  <2> QED
    BY <1>4, CompressedIs
<1>6. StandardBlocks(whole \o rest, endian) = Cut(whole) \o Cut(row)
  <2>1. Fills(rest, zeros)
    <3>1. Len(rest) \in Nat
      OBVIOUS
    <3>2. zeros \in 0 .. (BL - 1) /\ Len(rest) + 1 + zeros + 2 * WL = BL
      BY <1>0, <3>1, LengthsAre
    <3> QED
      BY <3>2 DEF Fills
  <2> HIDE DEF zeros
  <2>2. Len(whole) % BL = 0 /\ whole \in Seq(S) /\ rest \in Seq(S) /\ 0 .. (Base - 1) \subseteq S
    OBVIOUS
  <2>3. StandardBlocks(whole \o rest, endian)
          = Cut(whole) \o Cut(((rest \o <<Half>>) \o Zeroes(zeros)) \o LengthOf(whole \o rest, endian))
    BY <2>1, <2>2, StandardIs
  <2> QED
    BY <2>3
<1> HIDE DEF next, head, zeros
<1>7. SubSeq(next, 1, room) \o length = row
  BY <1>1
<1> QED
  BY <1>5, <1>6, <1>7 DEF next

\* The length goes to a block of its own.
LEMMA LongEnd ==
  ASSUME NEW S, 0 .. (Base - 1) \subseteq S, NEW whole \in Seq(S), Len(whole) % BL = 0,
         NEW rest \in Seq(S), NEW n, n = Len(rest \o <<Half>>), n = Len(rest) + 1, n <= BL,
         rest \o <<Half>> \in Seq(S),
         NEW marked, Heads(S, marked, rest \o <<Half>>), NEW endian \in {"big", "lit"},
         NEW room, room = BL - 2 * WL, ~(n <= room),
         NEW filled, filled = H!Copied(marked, n, H!Zeroes(BL - n)),
         NEW length, length = LengthOf(whole \o rest, endian)
  PROVE  H!Compressed(H!Compressed(Cut(whole), filled),
           SubSeq(H!Copied(filled, 0, H!Zeroes(room - 0)), 1, room) \o length)
           = StandardBlocks(whole \o rest, endian)
<1> DEFINE head == rest \o <<Half>>
           after == BL - n
           next == H!Copied(filled, 0, H!Zeroes(room - 0))
           a == Zeroes(after)
           b == Zeroes(room)
           zeros == after + room
           front == head \o a
           back == b \o length
<1>0. /\ 0 \in S /\ n \in Nat /\ room \in Nat /\ room <= BL /\ after \in Nat /\ 0 \in Nat
      /\ BL \in Nat /\ n + after = BL /\ Len(rest) \in Nat /\ room - 0 = room /\ 0 <= room
  BY BaseIs, LengthsAre
<1>1. /\ marked \in Seq(S) /\ Len(marked) = BL /\ head \in Seq(S) /\ n = Len(head)
      /\ \A k \in 1 .. Len(head) : marked[k] = head[k]
  BY DEF Heads
<1> HIDE DEF head
<1>2. filled = front /\ front \in Seq(S) /\ Len(front) = BL
  <2>1. BL <= BL /\ Len(head) <= BL
    BY <1>0, <1>1
  <2>2. Padded(S, H!Copied(marked, Len(head), H!Zeroes(BL - Len(head))), BL,
               head \o Zeroes(BL - Len(head)))
    BY <1>0, <1>1, <2>1, PadIs
  <2>3. filled \in Seq(S) /\ Len(filled) = BL /\ SubSeq(filled, 1, BL) = front
    BY <1>1, <2>2 DEF Padded
  <2>4. SubSeq(filled, 1, Len(filled)) = filled
    BY <2>3
  <2> HIDE DEF front
  <2> QED
    BY <2>3, <2>4
<1>3. SubSeq(next, 1, room) = b
  <2> DEFINE none == SubSeq(filled, 1, 0)
  <2>1. filled \in Seq(S) /\ Len(filled) = BL /\ none \in Seq(S) /\ Len(none) = 0
    <3>1. filled \in Seq(S) /\ Len(filled) = BL
      BY <1>2
    <3>2. 0 \in 0 .. Len(filled)
      BY <1>0, <3>1
    <3> QED
      BY <3>1, <3>2, CutInTwo
  <2> HIDE DEF none
  <2>2. \A k \in 1 .. Len(none) : filled[k] = none[k]
    BY <2>1
  <2>3. Len(none) <= room
    BY <1>0, <2>1
  <2>4. Padded(S, H!Copied(filled, Len(none), H!Zeroes(room - Len(none))), room,
               none \o Zeroes(room - Len(none)))
    BY <1>0, <2>1, <2>2, <2>3, PadIs
  <2>5. SubSeq(next, 1, room) = none \o b
    BY <1>0, <2>1, <2>4 DEF Padded
  <2>6. b \in Seq(S)
    BY <1>0, ZeroesAre
  <2> HIDE DEF b
  <2>7. none = <<>> /\ <<>> \o b = b
    BY <2>1, <2>6, EmptyRow
  <2> QED
    BY <2>5, <2>7
<1>4. length \in Seq(S)
  <2>1. whole \o rest \in Seq(S)
    BY ConcatIs
  <2>2. Len(whole \o rest) \in Nat
    BY <2>1
  <2>3. Len(whole \o rest) * ByteBits \in Nat
    BY <2>2, WordIs
  <2> QED
    BY <2>3, LengthRow DEF LengthOf
<1>5. a \in Seq(S) /\ b \in Seq(S) /\ a \o b = Zeroes(zeros)
  BY <1>0, ZeroesAre, ZeroesAdd
<1> HIDE DEF a, b
<1>6. back \in Seq(S)
  BY <1>4, <1>5, ConcatIs
<1>7. H!Compressed(H!Compressed(Cut(whole), filled), back) = Cut((whole \o front) \o back)
  <2>0. front \in Seq(S) /\ back \in Seq(S) /\ filled = front
    BY <1>2, <1>6
  <2>a. Len(front) % BL = 0
    <3>1. BL = 1 * BL + 0 /\ 1 \in Nat /\ 0 \in Nat /\ 0 < BL /\ BL \in Nat
      BY LengthsAre
    <3>2. BL % BL = 0
      BY <3>1, DivIs
    <3> QED
      BY <1>2, <3>2
  <2> HIDE DEF front, back
  <2>1. H!Compressed(Cut(whole), filled) = Cut(whole) \o Cut(front)
    BY <2>0, CompressedIs
  <2>2. Cut(whole) \o Cut(front) = Cut(whole \o front)
    BY <2>0, CutConcat
  <2>3. whole \o front \in Seq(S) /\ Len(whole \o front) % BL = 0
    BY <2>0, <2>a, WholeWith
  <2> DEFINE w == whole \o front
  <2>4. w \in Seq(S) /\ Len(w) % BL = 0
    BY <2>3
  <2> HIDE DEF w
  <2>5. H!Compressed(Cut(w), back) = Cut(w) \o Cut(back)
    BY <2>0, CompressedIs
  <2>6. Cut(w) \o Cut(back) = Cut(w \o back)
    BY <2>0, <2>4, CutConcat
  <2> QED
    BY <2>1, <2>2, <2>5, <2>6 DEF w
<1> DEFINE tail == (head \o Zeroes(zeros)) \o length
<1>8. tail = front \o back /\ tail \in Seq(S)
  <2>0. head \in Seq(S) /\ a \in Seq(S) /\ b \in Seq(S) /\ length \in Seq(S)
    BY <1>1, <1>4, <1>5
  <2>1. front \in Seq(S) /\ (head \o a) \o b = head \o (a \o b)
    <3>1. head \in Seq(S) /\ a \in Seq(S) /\ b \in Seq(S)
      BY <2>0
    <3>2. (head \o a) \o b = head \o (a \o b)
      BY <3>1
    <3> QED
      BY <3>1, <3>2, ConcatIs
  <2>2. front \o b = head \o Zeroes(zeros)
    BY <1>5, <2>1
  <2> HIDE DEF front
  <2>3. (front \o b) \o length = front \o (b \o length)
    <3>1. front \in Seq(S) /\ b \in Seq(S) /\ length \in Seq(S)
      BY <2>0, <2>1
    <3> QED
      BY <3>1
  <2>4. tail = front \o back
    BY <2>2, <2>3
  <2>5. front \o back \in Seq(S)
    BY <1>6, <2>1, ConcatIs
  <2> QED
    BY <2>4, <2>5
<1>9. StandardBlocks(whole \o rest, endian) = Cut(whole) \o Cut(tail)
  <2>1. Fills(rest, zeros)
    <3>1. zeros \in 0 .. (BL - 1) /\ Len(rest) + 1 + zeros + 2 * WL = 2 * BL
      BY <1>0, LengthsAre
    <3> QED
      BY <3>1 DEF Fills
  <2> HIDE DEF zeros
  <2>2. Len(whole) % BL = 0 /\ whole \in Seq(S) /\ rest \in Seq(S) /\ 0 .. (Base - 1) \subseteq S
    OBVIOUS
  <2>3. StandardBlocks(whole \o rest, endian)
          = Cut(whole) \o Cut(((rest \o <<Half>>) \o Zeroes(zeros)) \o LengthOf(whole \o rest, endian))
    BY <2>1, <2>2, StandardIs
  <2> QED
    BY <2>3 DEF head
<1>10. Cut(whole) \o Cut(tail) = Cut(whole \o tail)
  <2>1. tail \in Seq(S)
    BY <1>8
  <2> HIDE DEF tail
  <2> QED
    BY <2>1, CutConcat
<1>11. whole \o tail = (whole \o front) \o back
  <2>1. whole \in Seq(S) /\ front \in Seq(S) /\ back \in Seq(S) /\ tail = front \o back
    BY <1>2, <1>6, <1>8
  <2> HIDE DEF front, back, tail
  <2>2. (whole \o front) \o back = whole \o (front \o back)
    BY <2>1
  <2> QED
    BY <2>1, <2>2
<1> HIDE DEF front, tail, next
<1>12. SubSeq(next, 1, room) \o length = back
  BY <1>3
<1> QED
  BY <1>7, <1>9, <1>10, <1>11, <1>12 DEF next

\* Whatever was compressed and stands in the buffer, the blocks at the end are
\* those of the standard.
LEMMA FinalIs ==
  ASSUME NEW S, 0 .. (Base - 1) \subseteq S, NEW ctx, NEW message, Reached(S, ctx, message),
         NEW endian \in {"big", "lit"}
  PROVE  H!HashFinal(ctx, endian) = StandardBlocks(message, endian)
<1>1. PICK whole \in Seq(S), rest \in Seq(S) :
        message = whole \o rest /\ Standing(S, ctx, whole, rest)
  BY DEF Reached
<1> DEFINE marked == H!Copied(ctx.buffer, ctx.num, <<H!EndMark>>)
           n == ctx.num + 1
           room == BL - 2 * WL
           filled == H!Copied(marked, n, H!Zeroes(BL - n))
           total == Len(message) * ByteBits
           length == LengthOf(message, endian)
<1>2. FinalPlain(ctx, endian, length)
  <2>1. Len(message) \in Nat
    <3>1. message \in Seq(S)
      BY <1>1, ConcatIs
    <3> QED
      BY <3>1
  <2>2. total \in Nat /\ Counting(ctx, total)
    BY <2>1, WordIs DEF Reached
  <2>3. length = InOrder(BigEndian(total, 2 * WL), endian)
    BY DEF LengthOf
  <2> HIDE DEF total, length
  <2> QED
    BY <2>2, <2>3, LengthIs DEF FinalPlain
<1>3. /\ Len(whole) % BL = 0 /\ ctx.state = Cut(whole) /\ ctx.num = Len(rest)
  BY <1>1 DEF Standing
<1>4. /\ rest \o <<Half>> \in Seq(S) /\ Len(rest \o <<Half>>) = n /\ n <= BL
      /\ Heads(S, marked, rest \o <<Half>>)
  <2>1. Half \in S
    BY BaseIs
  <2> QED
    BY <1>1, <2>1, MarkedIs
<1>6. /\ n = Len(rest) + 1 /\ length = LengthOf(whole \o rest, endian) /\ room = BL - 2 * WL
      /\ filled = H!Copied(marked, n, H!Zeroes(BL - n)) /\ n = ctx.num + 1
      /\ marked = H!Copied(ctx.buffer, ctx.num, <<H!EndMark>>)
  BY <1>1, <1>3 DEF length
<1> HIDE DEF marked, n, room, filled, length
<1>7. CASE n <= room
  <2>1. H!HashFinal(ctx, endian)
          = H!Compressed(ctx.state,
              SubSeq(H!Copied(marked, n, H!Zeroes(room - n)), 1, room) \o length)
    BY <1>2, <1>6, <1>7, FinalShort
  <2>2. H!Compressed(Cut(whole), SubSeq(H!Copied(marked, n, H!Zeroes(room - n)), 1, room) \o length)
          = StandardBlocks(whole \o rest, endian)
    BY <1>3, <1>4, <1>6, <1>7, ShortEnd
  <2> QED
    BY <1>1, <1>3, <2>1, <2>2
<1>8. CASE ~(n <= room)
  <2>1. H!HashFinal(ctx, endian)
          = H!Compressed(H!Compressed(ctx.state, filled),
              SubSeq(H!Copied(filled, 0, H!Zeroes(room - 0)), 1, room) \o length)
    BY <1>2, <1>6, <1>8, FinalLong
  <2>2. H!Compressed(H!Compressed(Cut(whole), filled),
          SubSeq(H!Copied(filled, 0, H!Zeroes(room - 0)), 1, room) \o length)
          = StandardBlocks(whole \o rest, endian)
    BY <1>3, <1>4, <1>6, <1>8, LongEnd
  <2> QED
    BY <1>1, <1>3, <2>1, <2>2
<1> QED
  BY <1>7, <1>8

\* The contexts a message goes through that is handed over in parts.
Contexts(c, parts) ==
  c = [k \in 0 .. Len(parts) |-> IF k = 0 THEN H!HashInit ELSE H!HashUpdate(c[k - 1], parts[k])]

LEMMA DigestOf ==
  ASSUME NEW parts, NEW g, Contexts(g, parts), NEW endian
  PROVE  \E c : Contexts(c, parts) /\ H!Digest(parts, endian) = H!HashFinal(c[Len(parts)], endian)
<1> DEFINE c == CHOOSE f : f = [k \in 0 .. Len(parts) |->
                                  IF k = 0 THEN H!HashInit ELSE H!HashUpdate(f[k - 1], parts[k])]
<1>1. Contexts(c, parts)
  BY DEF Contexts
<1>2. H!Digest(parts, endian) = H!HashFinal(c[Len(parts)], endian)
  BY DEF H!Digest
<1> QED
  BY <1>1, <1>2

\* A message that is handed over in one part.
LEMMA DigestOfOne ==
  ASSUME NEW S, 0 .. (Base - 1) \subseteq S, NEW message \in Seq(S), NEW endian \in {"big", "lit"}
  PROVE  H!Digest(<<message>>, endian) = StandardBlocks(message, endian)
<1> DEFINE parts == <<message>>
           c1 == H!HashUpdate(H!HashInit, message)
           g == [k \in 0 .. 1 |-> IF k = 0 THEN H!HashInit ELSE c1]
<1>0. 0 \in S
  BY BaseIs
<1>1. Len(parts) = 1 /\ parts[1] = message
  OBVIOUS
<1> HIDE DEF parts
<1>2. Contexts(g, parts)
  <2>1. g[0] = H!HashInit
    OBVIOUS
  <2>2. \A k \in 0 .. 1 : g[k] = IF k = 0 THEN H!HashInit ELSE H!HashUpdate(g[k - 1], parts[k])
    BY <1>1, <2>1
  <2>3. g = [k \in 0 .. 1 |-> g[k]]
    OBVIOUS
  <2> HIDE DEF g
  <2> QED
    BY <1>1, <2>2, <2>3 DEF Contexts
<1> HIDE DEF g, c1
<1>3. PICK c : Contexts(c, parts) /\ H!Digest(parts, endian) = H!HashFinal(c[Len(parts)], endian)
  BY <1>2, DigestOf
<1>4. c[0] = H!HashInit /\ c[1] = H!HashUpdate(c[0], message)
  BY <1>1, <1>3 DEF Contexts
<1>5. Reached(S, c[0], <<>>)
  BY <1>0, <1>4, InitReaches
<1>6. <<>> \in Seq(S) /\ <<>> \o message = message
  BY EmptyRow
<1>7. Reached(S, c[1], <<>> \o message)
  <2>1. Reached(S, H!HashUpdate(c[0], message), <<>> \o message)
    BY <1>0, <1>5, <1>6, UpdateReaches
  <2> QED
    BY <1>4, <2>1
<1>8. H!HashFinal(c[1], endian) = StandardBlocks(message, endian)
  <2>1. Reached(S, c[1], message)
    BY <1>6, <1>7
  <2> QED
    BY <2>1, FinalIs
<1> QED
  BY <1>1, <1>3, <1>8 DEF parts

\* A message that is handed over in three parts.
LEMMA DigestOfThree ==
  ASSUME NEW S, 0 .. (Base - 1) \subseteq S, NEW p \in Seq(S), NEW q \in Seq(S), NEW r \in Seq(S),
         NEW endian \in {"big", "lit"}
  PROVE  H!Digest(<<p, q, r>>, endian) = StandardBlocks((p \o q) \o r, endian)
<1> DEFINE parts == <<p, q, r>>
           c1 == H!HashUpdate(H!HashInit, p)
           c2 == H!HashUpdate(c1, q)
           c3 == H!HashUpdate(c2, r)
           g == [k \in 0 .. 3 |-> IF k = 0 THEN H!HashInit ELSE
                                  IF k = 1 THEN c1 ELSE IF k = 2 THEN c2 ELSE c3]
<1>0. 0 \in S
  BY BaseIs
<1>1. Len(parts) = 3 /\ parts[1] = p /\ parts[2] = q /\ parts[3] = r
  OBVIOUS
<1> HIDE DEF parts
<1>2. Contexts(g, parts)
  <2>a. c1 = H!HashUpdate(H!HashInit, p) /\ c2 = H!HashUpdate(c1, q) /\ c3 = H!HashUpdate(c2, r)
    OBVIOUS
  <2> HIDE DEF c1, c2, c3
  <2>1. g[0] = H!HashInit /\ g[1] = c1 /\ g[2] = c2 /\ g[3] = c3
    OBVIOUS
  <2>3. g = [k \in 0 .. 3 |-> g[k]]
    OBVIOUS
  <2> HIDE DEF g
  <2>2. ASSUME NEW k \in 0 .. 3
        PROVE  g[k] = IF k = 0 THEN H!HashInit ELSE H!HashUpdate(g[k - 1], parts[k])
    <3>1. k = 0 \/ k = 1 \/ k = 2 \/ k = 3
      OBVIOUS
    <3>2. CASE k = 0
      BY <2>1, <3>2
    <3>3. CASE k = 1
      BY <1>1, <2>a, <2>1, <3>3
    <3>4. CASE k = 2
      BY <1>1, <2>a, <2>1, <3>4
    <3>5. CASE k = 3
      BY <1>1, <2>a, <2>1, <3>5
    <3> QED
      BY <3>1, <3>2, <3>3, <3>4, <3>5
  <2> QED
    BY <1>1, <2>2, <2>3 DEF Contexts
<1> HIDE DEF g, c1, c2, c3
<1>3. PICK c : Contexts(c, parts) /\ H!Digest(parts, endian) = H!HashFinal(c[Len(parts)], endian)
  BY <1>2, DigestOf
<1>4. /\ c[0] = H!HashInit /\ c[1] = H!HashUpdate(c[0], p)
      /\ c[2] = H!HashUpdate(c[1], q) /\ c[3] = H!HashUpdate(c[2], r)
  BY <1>1, <1>3 DEF Contexts
<1>5. Reached(S, c[0], <<>>)
  BY <1>0, <1>4, InitReaches
<1>6. <<>> \in Seq(S) /\ <<>> \o p = p
  BY EmptyRow
<1>7. Reached(S, c[1], p)
  <2>1. Reached(S, H!HashUpdate(c[0], p), <<>> \o p)
    BY <1>0, <1>5, <1>6, UpdateReaches
  <2> QED
    BY <1>4, <1>6, <2>1
<1>8. Reached(S, c[2], p \o q)
  <2>1. Reached(S, H!HashUpdate(c[1], q), p \o q)
    BY <1>0, <1>7, UpdateReaches
  <2> QED
    BY <1>4, <2>1
<1>9. Reached(S, c[3], (p \o q) \o r)
  <2> DEFINE pq == p \o q
  <2>1. pq \in Seq(S) /\ Reached(S, c[2], pq)
    BY <1>8, ConcatIs
  <2> HIDE DEF pq
  <2>2. Reached(S, H!HashUpdate(c[2], r), pq \o r)
    BY <1>0, <2>1, UpdateReaches
  <2> QED
    BY <1>4, <2>2 DEF pq
<1>10. H!HashFinal(c[3], endian) = StandardBlocks((p \o q) \o r, endian)
  BY <1>9, FinalIs
<1> QED
  BY <1>1, <1>3, <1>10 DEF parts

\* A message is what its three parts come to.
LEMMA CutInThree ==
  ASSUME NEW S, NEW m \in Seq(S), NEW i \in 0 .. Len(m), NEW j \in i .. Len(m)
  PROVE  /\ SubSeq(m, 1, i) \in Seq(S) /\ SubSeq(m, i + 1, j) \in Seq(S)
         /\ SubSeq(m, j + 1, Len(m)) \in Seq(S)
         /\ (SubSeq(m, 1, i) \o SubSeq(m, i + 1, j)) \o SubSeq(m, j + 1, Len(m)) = m
<1> DEFINE p == SubSeq(m, 1, i)
           q == SubSeq(m, i + 1, j)
           r == SubSeq(m, j + 1, Len(m))
           a == SubSeq(m, 1, j)
<1>0. Len(m) \in Nat /\ i \in Nat /\ j \in 0 .. Len(m) /\ i <= j /\ j \in Nat /\ i <= Len(m)
  OBVIOUS
<1>1. /\ a \in Seq(S) /\ Len(a) = j /\ r \in Seq(S) /\ m = a \o r
  BY <1>0, CutInTwo
<1>2. \A k \in 1 .. j : a[k] = m[k]
  BY <1>0
<1>3. p \in Seq(S) /\ Len(p) = i /\ \A k \in 1 .. i : p[k] = m[k]
  BY <1>0
<1>4. q \in Seq(S) /\ Len(q) = j - i /\ \A k \in 1 .. (j - i) : q[k] = m[i + k]
  <2>1. i + 1 \in 1 .. (Len(m) + 1) /\ j \in ((i + 1) - 1) .. Len(m) /\ j - (i + 1) + 1 = j - i
    BY <1>0
  <2>2. /\ q \in Seq(S) /\ Len(q) = j - (i + 1) + 1
        /\ \A k \in 1 .. (j - (i + 1) + 1) : q[k] = m[(i + 1) - 1 + k]
    BY <2>1, SliceIs
  <2>3. \A k \in 1 .. (j - i) : (i + 1) - 1 + k = i + k
    BY <1>0
  <2> QED
    BY <2>1, <2>2, <2>3
<1> HIDE DEF p, q, r, a
<1>5. p \o q = a
  <2>1. /\ p \o q \in Seq(S) /\ Len(p \o q) = Len(p) + Len(q)
        /\ \A k \in 1 .. Len(p) : (p \o q)[k] = p[k]
        /\ \A k \in 1 .. Len(q) : (p \o q)[Len(p) + k] = q[k]
    <3>1. p \in Seq(S) /\ q \in Seq(S)
      BY <1>3, <1>4
    <3> QED
      BY <3>1, ConcatIs
  <2>2. ASSUME NEW k \in 1 .. j PROVE (p \o q)[k] = a[k]
    <3>1. CASE k <= i
      <4>1. k \in 1 .. i
        BY <1>0, <3>1
      <4> QED
        BY <1>2, <1>3, <2>1, <4>1
    <3>2. CASE ~(k <= i)
      <4> DEFINE l == k - i
      <4>1. l \in 1 .. (j - i) /\ k = i + l
        BY <1>0, <3>2
      <4> HIDE DEF l
      <4> QED
        BY <1>2, <1>3, <1>4, <2>1, <4>1
    <3> QED
      BY <3>1, <3>2
  <2>3. Len(p \o q) = j /\ Len(p \o q) = Len(a)
    BY <1>0, <1>1, <1>3, <1>4, <2>1
  <2> DEFINE s == p \o q
  <2>4. s \in Seq(S) /\ a \in Seq(S) /\ Len(s) = Len(a) /\ \A k \in 1 .. Len(s) : s[k] = a[k]
    BY <1>1, <2>1, <2>2, <2>3
  <2> HIDE DEF s
  <2>5. s = a
    BY <2>4, SameRow
  <2> QED
    BY <2>5 DEF s
<1> QED
  BY <1>1, <1>3, <1>4, <1>5 DEF p, q, r, a

HashTaken == input.kind = "message" => input.value \in Messages

LEMMA HashTakenAlways == Spec => []HashTaken
<1>1. Init => HashTaken
  BY DEF Init, HashTaken, Nothing
<1>2. ASSUME HashTaken, [Next]_input PROVE HashTaken'
  <2>1. CASE PutBack
    BY <2>1 DEF PutBack, HashTaken, Nothing
  <2>2. CASE UNCHANGED input
    BY <1>2, <2>2 DEF HashTaken
  <2>3. CASE TakeMessage
    BY <2>3 DEF TakeMessage, Takes, HashTaken
  <2>4. CASE TakeNumber \/ TakeRow \/ TakeProgram \/ TakeOptions
    BY <2>4 DEF TakeNumber, TakeRow, TakeProgram, TakeOptions, Takes, HashTaken
  <2>5. CASE TakeKey \/ TakePoint \/ TakeScript
    BY <2>5 DEF TakeKey, TakePoint, TakeScript, Takes, HashTaken
  <2>6. CASE TakeCoin \/ TakeBlock \/ TakeTrace
    BY <2>6 DEF TakeCoin, TakeBlock, TakeTrace, Takes, HashTaken
  <2> QED
    BY <1>2, <2>1, <2>2, <2>3, <2>4, <2>5, <2>6 DEF Next
<1> QED
  BY <1>1, <1>2, PTL DEF Spec

\* SHA-256 and RIPEMD-160 compress the blocks the standards ask for, for every
\* message, every length of a block and of a word, and whatever the parts the
\* message is handed over in (sha256.c:81, rmd160.c:104).
THEOREM DigestsAreStandard == Spec => []DigestsAgree
<1>1. ASSUME HashTaken PROVE DigestsAgree
  <2> SUFFICES ASSUME input.kind = "message" PROVE DigestsAgree
    BY DEF DigestsAgree
  <2> DEFINE m == input.value
             S == (0 .. (Base - 1)) \cup Range(m)
  <2>1. m \in Seq(S)
    <3>1. m \in Seq(Range(m))
      BY <1>1, HashAssumption DEF HashTaken
    <3> HIDE DEF m
    <3>2. Len(m) \in Nat /\ m \in [1 .. Len(m) -> Range(m)]
      BY <3>1
    <3>3. m \in [1 .. Len(m) -> S]
      BY <3>2
    <3> HIDE DEF S
    <3> QED
      BY <3>2, <3>3, RowIs
  <2>2. 0 .. (Base - 1) \subseteq S
    OBVIOUS
  <2> HIDE DEF m, S
  <2>3. ASSUME NEW endian \in {"big", "lit"}
        PROVE  /\ H!Digest(<<m>>, endian) = StandardBlocks(m, endian)
               /\ \A i \in 0 .. Len(m) : \A j \in i .. Len(m) :
                    H!Digest(<<SubSeq(m, 1, i), SubSeq(m, i + 1, j), SubSeq(m, j + 1, Len(m))>>,
                             endian)
                      = StandardBlocks(m, endian)
    <3>1. H!Digest(<<m>>, endian) = StandardBlocks(m, endian)
      BY <2>1, <2>2, DigestOfOne
    <3>2. ASSUME NEW i \in 0 .. Len(m), NEW j \in i .. Len(m)
          PROVE  H!Digest(<<SubSeq(m, 1, i), SubSeq(m, i + 1, j), SubSeq(m, j + 1, Len(m))>>,
                          endian)
                   = StandardBlocks(m, endian)
      <4> DEFINE p == SubSeq(m, 1, i)
                 q == SubSeq(m, i + 1, j)
                 r == SubSeq(m, j + 1, Len(m))
      <4>1. p \in Seq(S) /\ q \in Seq(S) /\ r \in Seq(S) /\ (p \o q) \o r = m
        BY <2>1, CutInThree
      <4> HIDE DEF p, q, r
      <4>2. H!Digest(<<p, q, r>>, endian) = StandardBlocks((p \o q) \o r, endian)
        BY <2>2, <4>1, DigestOfThree
      <4> QED
        BY <4>1, <4>2 DEF p, q, r
    <3> QED
      BY <3>1, <3>2
  <2>4. ASSUME NEW i \in 0 .. Len(m), NEW j \in i .. Len(m)
        PROVE  LET parts == <<SubSeq(m, 1, i), SubSeq(m, i + 1, j), SubSeq(m, j + 1, Len(m))>>
               IN  /\ H!Sha256(parts) = StandardBlocks(m, "big")
                   /\ H!Rmd160(parts) = StandardBlocks(m, "lit")
                   /\ H!CryptoGetSha256(m) = H!Sha256(parts)
                   /\ H!CryptoGetRmd160(m) = H!Rmd160(parts)
    <3> DEFINE parts == <<SubSeq(m, 1, i), SubSeq(m, i + 1, j), SubSeq(m, j + 1, Len(m))>>
    <3>1. /\ H!Digest(parts, "big") = StandardBlocks(m, "big")
          /\ H!Digest(parts, "lit") = StandardBlocks(m, "lit")
          /\ H!Digest(<<m>>, "big") = StandardBlocks(m, "big")
          /\ H!Digest(<<m>>, "lit") = StandardBlocks(m, "lit")
      BY <2>3
    <3> HIDE DEF parts
    <3>2. /\ H!Sha256(parts) = H!Digest(parts, "big") /\ H!Rmd160(parts) = H!Digest(parts, "lit")
          /\ H!CryptoGetSha256(m) = H!Digest(<<m>>, "big")
          /\ H!CryptoGetRmd160(m) = H!Digest(<<m>>, "lit")
      BY DEF H!Sha256, H!Rmd160, H!CryptoGetSha256, H!CryptoGetRmd160
    <3>3. /\ H!Sha256(parts) = StandardBlocks(m, "big")
          /\ H!Rmd160(parts) = StandardBlocks(m, "lit")
          /\ H!CryptoGetSha256(m) = H!Sha256(parts)
          /\ H!CryptoGetRmd160(m) = H!Rmd160(parts)
      BY <3>1, <3>2
    <3> QED
      BY <3>3 DEF parts
  <2> QED
    BY <2>4 DEF DigestsAgree, m
<1> QED
  BY <1>1, HashTakenAlways, PTL

-----------------------------------------------------------------------------
(* Numbers of fixed width.                                                 *)

\* What the first bytes of a row come to.
Values(v, bytes, base) ==
  v = [k \in 0 .. Len(bytes) |-> IF k = 0 THEN 0 ELSE v[k - 1] * base + bytes[k]]

LEMMA ValueIs ==
  ASSUME NEW bytes, Len(bytes) \in Nat, NEW base, NEW g, Values(g, bytes, base)
  PROVE  Value(bytes, base) = g[Len(bytes)]
<1> DEFINE v == CHOOSE f : f = [k \in 0 .. Len(bytes) |->
                                  IF k = 0 THEN 0 ELSE f[k - 1] * base + bytes[k]]
<1>1. Values(v, bytes, base)
  BY DEF Values
<1>2. Value(bytes, base) = v[Len(bytes)]
  BY DEF Value
<1> HIDE DEF v
<1> DEFINE F == {k \in 0 .. Len(bytes) : v[k] # g[k]}
<1> SUFFICES ASSUME F # {} PROVE FALSE
  BY <1>2
<1>3. F \subseteq Nat
  OBVIOUS
<1> HIDE DEF F
<1>4. PICK k \in F : \A j \in F : k <= j
  BY <1>3, SmallestOne
<1>5. k \in 0 .. Len(bytes) /\ v[k] # g[k]
  BY DEF F
<1>6. v[0] = 0 /\ g[0] = 0
  BY <1>1 DEF Values
<1>7. k # 0
  BY <1>5, <1>6
<1>8. k - 1 \in 0 .. Len(bytes) /\ k - 1 \notin F
  BY <1>4, <1>5, <1>7
<1>9. v[k - 1] = g[k - 1]
  BY <1>8 DEF F
<1>10. v[k] = v[k - 1] * base + bytes[k] /\ g[k] = g[k - 1] * base + bytes[k]
  BY <1>1, <1>5, <1>7 DEF Values
<1> QED
  BY <1>5, <1>9, <1>10

\* A number that fits in the width is what its digits come to.
LEMMA DigitsComeTo ==
  ASSUME NEW n \in Nat, NEW width \in Nat, n \div Power(Base, width) = 0
  PROVE  Value(BigEndian(n, width), Base) = n
<1> DEFINE bytes == BigEndian(n, width)
           g == [k \in 0 .. width |-> n \div Power(Base, width - k)]
<1>1. Len(bytes) = width /\ \A k \in 1 .. width : bytes[k] = (n \div Power(Base, width - k)) % Base
  BY BytesAre
<1> HIDE DEF bytes
<1>2. g[0] = 0
  BY Z3
<1>3. ASSUME NEW k \in 1 .. width PROVE g[k] = g[k - 1] * Base + bytes[k]
  <2> DEFINE j == width - k
             a == Power(Base, j)
             q == n \div a
  <2>1. j \in Nat /\ width - (k - 1) = j + 1 /\ k \in 0 .. width /\ k - 1 \in 0 .. width
    OBVIOUS
  <2> HIDE DEF j
  <2>2. a \in Nat /\ a # 0
    BY <2>1, BaseIs, PowerPositive
  <2>3. Power(Base, j + 1) = Base * a
    BY <2>1, BaseIs, PowerIs
  <2>4. Base * a = a * Base
    BY <2>2, BaseIs
  <2>5. q \in Nat
    BY <2>2, DivMod
  <2>6. n \div (a * Base) = q \div Base
    <3>1. Base \in Nat /\ Base # 0
      BY BaseIs
    <3> HIDE DEF a
    <3> QED
      BY <2>2, <3>1, DivTwice
  <2>7. g[k - 1] = q \div Base
    <3>1. g[k - 1] = n \div Power(Base, j + 1)
      BY <2>1
    <3> QED
      BY <2>3, <2>4, <2>6, <3>1
  <2>8. g[k] = q /\ bytes[k] = q % Base
    BY <1>1, <2>1 DEF j
  <2> HIDE DEF q
  <2>9. q = (q \div Base) * Base + (q % Base)
    <3>1. q \in Nat /\ Base \in Nat /\ Base # 0
      BY <2>5, BaseIs
    <3> QED
      BY <3>1, DivMod
  <2> QED
    BY <2>7, <2>8, <2>9
<1>4. Values(g, bytes, Base)
  <2>1. g = [k \in 0 .. width |-> g[k]]
    OBVIOUS
  <2> HIDE DEF g
  <2>3. ASSUME NEW k \in 0 .. width
        PROVE  g[k] = IF k = 0 THEN 0 ELSE g[k - 1] * Base + bytes[k]
    <3>1. CASE k = 0
      BY <1>2, <3>1
    <3>2. CASE k # 0
      <4>1. k \in 1 .. width
        BY <3>2
      <4> QED
        BY <1>3, <3>2, <4>1
    <3> QED
      BY <3>1, <3>2
  <2>2. g = [k \in 0 .. width |-> IF k = 0 THEN 0 ELSE g[k - 1] * Base + bytes[k]]
    BY <2>1, <2>3
  <2> QED
    BY <1>1, <2>2 DEF Values
<1>5. g[width] = n
  <2>1. Power(Base, 0) = 1 /\ width - width = 0 /\ n \div 1 = n
    <3>1. n = n * 1 + 0 /\ 1 \in Nat /\ 0 \in Nat /\ 0 < 1
      OBVIOUS
    <3>2. n \div 1 = n
      BY <3>1, DivIs
    <3> QED
      BY <3>2, BaseIs, PowerIs
  <2> QED
    BY <2>1
<1> HIDE DEF g
<1>6. Value(bytes, Base) = g[Len(bytes)]
  BY <1>1, <1>4, ValueIs
<1> QED
  BY <1>1, <1>5, <1>6 DEF bytes

\* A number below a power has no digits above it.
LEMMA FitsBelow ==
  ASSUME NEW n \in Nat, NEW width \in Nat, n < Power(Base, width)
  PROVE  n \div Power(Base, width) = 0
<1> DEFINE p == Power(Base, width)
<1>1. p \in Nat /\ n < p
  BY BaseIs, PowerPositive
<1> HIDE DEF p
<1>2. n = 0 * p + n /\ 0 \in Nat
  BY <1>1
<1>3. n \div p = 0
  BY <1>1, <1>2, DivIs
<1> QED
  BY <1>3 DEF p

\* Bytes that were written are read back, whatever is before and after them.
LEMMA ReadAgain ==
  ASSUME NEW S, NEW before \in Seq(S), NEW bytes \in Seq(S), NEW after \in Seq(S),
         NEW at, at = Len(before) + 1
  PROVE  Slice(before \o bytes \o after, at, Len(bytes)) = bytes
<1> DEFINE row == before \o bytes \o after
           s == Slice(row, at, Len(bytes))
<1>0. Len(before) \in Nat /\ Len(bytes) \in Nat /\ Len(after) \in Nat
  OBVIOUS
<1>1. /\ row \in Seq(S) /\ Len(row) = Len(before) + Len(bytes) + Len(after)
      /\ \A k \in 1 .. Len(bytes) : row[Len(before) + k] = bytes[k]
  <2> DEFINE fore == before \o bytes
  <2>1. /\ fore \in Seq(S) /\ Len(fore) = Len(before) + Len(bytes)
        /\ \A k \in 1 .. Len(bytes) : fore[Len(before) + k] = bytes[k]
    BY ConcatIs
  <2> HIDE DEF fore
  <2>2. /\ fore \o after \in Seq(S) /\ Len(fore \o after) = Len(fore) + Len(after)
        /\ \A k \in 1 .. Len(fore) : (fore \o after)[k] = fore[k]
    <3>1. fore \in Seq(S) /\ after \in Seq(S)
      BY <2>1
    <3> QED
      BY <3>1, ConcatIs
  <2>3. \A k \in 1 .. Len(bytes) : Len(before) + k \in 1 .. Len(fore)
    BY <1>0, <2>1
  <2>4. row = fore \o after
    BY DEF fore
  <2> HIDE DEF row
  <2> QED
    BY <2>1, <2>2, <2>3, <2>4
<1> HIDE DEF row
<1>2. /\ s \in Seq(S) /\ Len(s) = Len(bytes)
      /\ \A k \in 1 .. Len(bytes) : s[k] = row[Len(before) + k]
  <2> DEFINE m == Len(before) + 1
             l == m + Len(bytes) - 1
  <2>1. m \in 1 .. (Len(row) + 1) /\ l \in (m - 1) .. Len(row) /\ l - m + 1 = Len(bytes)
        /\ m - 1 = Len(before)
    BY <1>0, <1>1
  <2>2. s = SubSeq(row, m, l)
    BY DEF Slice
  <2> HIDE DEF m, l, s
  <2>3. /\ SubSeq(row, m, l) \in Seq(S) /\ Len(SubSeq(row, m, l)) = l - m + 1
        /\ \A k \in 1 .. (l - m + 1) : SubSeq(row, m, l)[k] = row[m - 1 + k]
    BY <1>1, <2>1, SliceIs
  <2> QED
    BY <2>1, <2>2, <2>3
<1> HIDE DEF s
<1>3. s = bytes
  BY <1>1, <1>2, SameRow
<1> QED
  BY <1>3 DEF s, row

LEMMA UintIs ==
  ASSUME NEW n \in Nat, NEW width \in Nat, NEW endian \in Endians
  PROVE  /\ SerializeUint(n, width, endian) \in Seq(Nat)
         /\ Len(SerializeUint(n, width, endian)) = width
<1> DEFINE bytes == BigEndian(n, width)
<1>1. bytes \in Seq(0 .. (Base - 1)) /\ Len(bytes) = width
  BY BytesAre
<1> HIDE DEF bytes
<1>2. bytes \in Seq(Nat)
  <2> DEFINE D == 0 .. (Base - 1)
  <2>1. D \subseteq Nat /\ bytes \in Seq(D)
    BY <1>1
  <2> HIDE DEF D
  <2>2. Len(bytes) \in Nat /\ bytes \in [1 .. Len(bytes) -> D]
    BY <2>1
  <2>3. bytes \in [1 .. Len(bytes) -> Nat]
    BY <2>1, <2>2
  <2> QED
    BY <2>2, <2>3, RowIs
<1>3. Reverse(bytes) \in Seq(Nat) /\ Len(Reverse(bytes)) = Len(bytes)
  BY <1>2, ReverseIs
<1> QED
  BY <1>1, <1>2, <1>3 DEF SerializeUint, InOrder, bytes

\* Where a number stands in a row it is read, whatever the order of its bytes.
LEMMA UintReads ==
  ASSUME NEW n \in Nat, NEW width \in Nat, n \div Power(Base, width) = 0, NEW endian \in Endians,
         NEW row, NEW at, Slice(row, at, width) = SerializeUint(n, width, endian)
  PROVE  DeserializeUint(row, at, width, endian) = Read(n, at + width)
<1> DEFINE bytes == BigEndian(n, width)
<1>1. bytes \in Seq(0 .. (Base - 1))
  BY BytesAre
<1>2. Value(bytes, Base) = n
  BY DigitsComeTo
<1> HIDE DEF bytes
<1>3. Reverse(Reverse(bytes)) = bytes
  BY <1>1, ReverseTwice
<1>4. SerializeUint(n, width, endian) = InOrder(bytes, endian)
  BY DEF SerializeUint, bytes
<1>5. InOrder(InOrder(bytes, endian), endian) = bytes
  BY <1>3 DEF InOrder
<1> QED
  BY <1>2, <1>4, <1>5 DEF DeserializeUint

\* A power is not smaller for a greater exponent, as far as zeros are concerned.
LEMMA FitsAbove ==
  ASSUME NEW n \in Nat, NEW a \in Nat, NEW b \in Nat, n \div Power(Base, a) = 0
  PROVE  n \div Power(Base, b + a) = 0
<1>1. n \div Power(Base, b + a) = (n \div Power(Base, a)) \div Power(Base, b)
  BY HighDigit
<1> DEFINE p == Power(Base, b)
<1>2. p \in Nat /\ p # 0
  BY BaseIs, PowerPositive
<1> HIDE DEF p
<1>3. 0 \div p = 0
  <2>1. 0 = 0 * p + 0 /\ 0 \in Nat /\ 0 < p
    BY <1>2
  <2> QED
    BY <1>2, <2>1, DivIs
<1> QED
  BY <1>1, <1>3 DEF p

LEMMA WithinIs ==
  ASSUME NEW bytes \in Seq(Nat)
  PROVE  LET before == <<Base - 1>>
             after == <<0, Base - 1>>
         IN  /\ before \in Seq(Nat) /\ Len(before) = 1 /\ after \in Seq(Nat) /\ Len(after) = 2
             /\ Within(bytes) = (before \o bytes) \o after
BY BaseIs DEF Within

LEMMA UintsReadBack ==
  ASSUME NEW n \in Nat, n \div Power(Base, 8) = 0
  PROVE  UintReadsBack(n)
<1>1. ASSUME NEW endian \in Endians, NEW width \in {1, 2, 4, 8}, width = 8 \/ n < Power(Base, width)
      PROVE  Reads(LAMBDA row, at : DeserializeUint(row, at, width, endian),
                   SerializeUint(n, width, endian), n)
  <2> DEFINE bytes == SerializeUint(n, width, endian)
             before == <<Base - 1>>
             after == <<0, Base - 1>>
             whole == Within(bytes)
  <2>0. width \in Nat
    OBVIOUS
  <2>1. bytes \in Seq(Nat) /\ Len(bytes) = width
    BY <2>0, UintIs
  <2>2. n \div Power(Base, width) = 0
    BY <1>1, <2>0, FitsBelow
  <2>3. Slice(whole, 2, width) = bytes
    <3> HIDE DEF bytes
    <3>1. /\ before \in Seq(Nat) /\ Len(before) = 1 /\ after \in Seq(Nat)
          /\ whole = (before \o bytes) \o after
      BY <2>1, WithinIs
    <3>2. 2 = Len(before) + 1
      BY <3>1
    <3> HIDE DEF before, after, whole
    <3>3. Slice(before \o bytes \o after, 2, Len(bytes)) = bytes
      BY <2>1, <3>1, <3>2, ReadAgain
    <3> QED
      BY <2>1, <3>1, <3>3
  <2>4. DeserializeUint(whole, 2, width, endian) = Read(n, 2 + width)
    BY <2>0, <2>2, <2>3, UintReads
  <2> HIDE DEF bytes
  <2>5. DeserializeUint(Within(bytes), 2, width, endian) = Read(n, 2 + Len(bytes))
    BY <2>1, <2>4
  <2>6. Reads(LAMBDA row, at : DeserializeUint(row, at, width, endian), bytes, n)
    BY <2>5 DEF Reads
  <2> QED
    BY <2>6 DEF bytes
<1> QED
  BY <1>1 DEF UintReadsBack

-----------------------------------------------------------------------------
(* Compact numbers.                                                        *)

\* A marked number has the width of its mark.
LEMMA MarkIs ==
  ASSUME NEW n \in Nat, n \div Power(Base, 8) = 0
  PROVE  /\ Mark(n) \in 0 .. 3
         /\ Mark(n) = 0 <=> n < Base - 3
         /\ Mark(n) # 0 => n \div Power(Base, Widths[Mark(n)]) = 0
<1>0. Base \in Nat /\ Marks[1] = Base - 3
  BY BaseIs DEF Marks
<1>1. Power(Base, 2) \in Nat /\ Power(Base, 4) \in Nat
  BY BaseIs, PowerPositive
<1>2. Base - 3 < Power(Base, 2)
  <2>1. Power(Base, 0) = 1 /\ Power(Base, 0 + 1) = Base * Power(Base, 0)
        /\ Power(Base, 1 + 1) = Base * Power(Base, 1)
    BY BaseIs, PowerIs
  <2>2. 0 + 1 = 1 /\ 1 + 1 = 2
    OBVIOUS
  <2>3. Power(Base, 2) = Base * Base
    BY <2>1, <2>2, BaseIs
  <2>4. Base * Base >= Base
    BY BaseIs, Times
  <2> QED
    BY <1>0, <2>3, <2>4, BaseIs
<1>3. CASE n < Base - 3
  <2>1. Mark(n) = 0
    BY <1>0, <1>1, <1>2, <1>3 DEF Mark
  <2> QED
    BY <1>3, <2>1
<1>4. CASE ~(n < Base - 3) /\ n < Power(Base, 2)
  <2>1. Mark(n) = 1
    BY <1>0, <1>1, <1>4 DEF Mark
  <2>2. n \div Power(Base, 2) = 0
    BY <1>4, FitsBelow
  <2>3. Widths[1] = 2
    BY DEF Widths
  <2> QED
    BY <1>4, <2>1, <2>2, <2>3
<1>5. CASE ~(n < Base - 3) /\ ~(n < Power(Base, 2)) /\ n < Power(Base, 4)
  <2>1. Mark(n) = 2
    BY <1>0, <1>1, <1>5 DEF Mark
  <2>2. n \div Power(Base, 4) = 0
    BY <1>5, FitsBelow
  <2>3. Widths[2] = 4
    BY DEF Widths
  <2> QED
    BY <1>5, <2>1, <2>2, <2>3
<1>6. CASE ~(n < Base - 3) /\ ~(n < Power(Base, 2)) /\ ~(n < Power(Base, 4))
  <2>1. Mark(n) = 3
    BY <1>0, <1>1, <1>6 DEF Mark
  <2>2. Widths[3] = 8
    BY DEF Widths
  <2> QED
    BY <1>6, <2>1, <2>2
<1> QED
  BY <1>3, <1>4, <1>5, <1>6

\* The two forms of a compact number.
LEMMA CompuintIs ==
  ASSUME NEW n \in Nat, n \div Power(Base, 8) = 0, NEW endian \in Endians
  PROVE  \/ SerializeCompuint(n, endian) = <<n>> /\ n < Marks[1]
         \/ \E m \in 1 .. 3 :
              /\ SerializeCompuint(n, endian) = <<Marks[m]>> \o SerializeUint(n, Widths[m], endian)
              /\ n \div Power(Base, Widths[m]) = 0
<1>1. CASE Mark(n) = 0
  BY <1>1, MarkIs DEF SerializeCompuint, Marks
<1>2. CASE Mark(n) # 0
  <2> DEFINE m == Mark(n)
  <2>1. m \in 1 .. 3 /\ n \div Power(Base, Widths[m]) = 0
    BY <1>2, MarkIs
  <2>2. SerializeCompuint(n, endian) = <<Marks[m]>> \o SerializeUint(n, Widths[m], endian)
    BY <1>2 DEF SerializeCompuint
  <2> QED
    BY <2>1, <2>2
<1> QED
  BY <1>1, <1>2

LEMMA MarkRead ==
  ASSUME NEW m \in 1 .. 3
  PROVE  /\ Marks[m] \in Nat /\ ~(Marks[m] < Marks[1]) /\ Marks[m] - Marks[1] + 1 = m
         /\ Widths[m] \in Nat
<1>1. m = 1 \/ m = 2 \/ m = 3
  OBVIOUS
<1> QED
  BY <1>1, BaseIs DEF Marks, Widths

LEMMA CompuintReads ==
  ASSUME NEW n \in Nat, n \div Power(Base, 8) = 0, NEW endian \in Endians,
         NEW before \in Seq(Nat), NEW after \in Seq(Nat), NEW at, at = Len(before) + 1,
         NEW bytes, bytes = SerializeCompuint(n, endian)
  PROVE  /\ bytes \in Seq(Nat)
         /\ DeserializeCompuint(before \o bytes \o after, at, endian) = Read(n, at + Len(bytes))
<1> DEFINE row == before \o bytes \o after
<1>0. Len(before) \in Nat /\ at \in Nat
  OBVIOUS
<1>1. ASSUME NEW head \in Nat, NEW tail \in Seq(Nat), bytes = <<head>> \o tail
      PROVE  bytes \in Seq(Nat) /\ Len(bytes) = 1 + Len(tail) /\ bytes[1] = head /\ row[at] = head
  <2>1. <<head>> \in Seq(Nat) /\ Len(<<head>>) = 1 /\ <<head>>[1] = head
    OBVIOUS
  <2> DEFINE one == <<head>>
  <2>2. one \in Seq(Nat) /\ Len(one) = 1 /\ one[1] = head /\ bytes = one \o tail
    BY <1>1, <2>1
  <2> HIDE DEF one
  <2>3. /\ one \o tail \in Seq(Nat) /\ Len(one \o tail) = Len(one) + Len(tail)
        /\ \A k \in 1 .. Len(one) : (one \o tail)[k] = one[k]
    BY <2>2, ConcatIs
  <2>4. bytes \in Seq(Nat) /\ Len(bytes) = 1 + Len(tail) /\ bytes[1] = head
    BY <2>2, <2>3
  <2>5. Len(tail) \in Nat
    OBVIOUS
  <2> DEFINE fore == before \o bytes
  <2>6. /\ fore \in Seq(Nat) /\ Len(fore) = Len(before) + Len(bytes)
        /\ \A k \in 1 .. Len(bytes) : fore[Len(before) + k] = bytes[k]
    <3>1. before \in Seq(Nat) /\ bytes \in Seq(Nat)
      BY <2>4
    <3> QED
      BY <3>1, ConcatIs
  <2>7. fore[at] = head /\ at \in 1 .. Len(fore)
    BY <1>0, <2>4, <2>5, <2>6
  <2> HIDE DEF fore
  <2>8. \A k \in 1 .. Len(fore) : (fore \o after)[k] = fore[k]
    <3>1. fore \in Seq(Nat) /\ after \in Seq(Nat)
      BY <2>6
    <3> QED
      BY <3>1, ConcatIs
  <2>9. row = fore \o after
    BY DEF fore
  <2> HIDE DEF row
  <2> QED
    BY <2>4, <2>7, <2>8, <2>9
<1>2. CASE bytes = <<n>> /\ n < Marks[1]
  <2>1. <<>> \in Seq(Nat) /\ Len(<<>>) = 0 /\ bytes = <<n>> \o <<>>
    BY <1>2
  <2>2. bytes \in Seq(Nat) /\ Len(bytes) = 1 + Len(<<>>) /\ row[at] = n
    BY <1>1, <2>1
  <2> HIDE DEF row
  <2>3. DeserializeCompuint(row, at, endian) = Read(n, at + 1)
    BY <1>2, <2>2 DEF DeserializeCompuint
  <2>4. Len(bytes) = 1
    BY <2>1, <2>2
  <2> QED
    BY <2>2, <2>3, <2>4 DEF row
<1>3. CASE \E m \in 1 .. 3 : /\ bytes = <<Marks[m]>> \o SerializeUint(n, Widths[m], endian)
                             /\ n \div Power(Base, Widths[m]) = 0
  <2>1. PICK m \in 1 .. 3 : /\ bytes = <<Marks[m]>> \o SerializeUint(n, Widths[m], endian)
                            /\ n \div Power(Base, Widths[m]) = 0
    BY <1>3
  <2> DEFINE head == Marks[m]
             w == Widths[m]
             tail == SerializeUint(n, w, endian)
  <2>2. head \in Nat /\ ~(head < Marks[1]) /\ head - Marks[1] + 1 = m /\ w \in Nat
    BY MarkRead
  <2>3. tail \in Seq(Nat) /\ Len(tail) = w /\ bytes = <<head>> \o tail
    BY <2>1, <2>2, UintIs
  <2>4. bytes \in Seq(Nat) /\ Len(bytes) = 1 + w /\ row[at] = head
    <3> HIDE DEF head, tail, row
    <3> QED
      BY <1>1, <2>2, <2>3
  <2>5. Slice(row, at + 1, w) = tail
    <3> DEFINE one == <<head>>
               fore == before \o one
    <3>1. one \in Seq(Nat) /\ Len(one) = 1
      BY <2>2
    <3>2. bytes = one \o tail
      BY <2>3
    <3> HIDE DEF one, tail
    <3>3. fore \in Seq(Nat) /\ Len(fore) = Len(before) + 1
      <4>1. before \in Seq(Nat) /\ one \in Seq(Nat)
        BY <3>1
      <4>2. before \o one \in Seq(Nat) /\ Len(before \o one) = Len(before) + Len(one)
        BY <4>1, ConcatIs
      <4> QED
        BY <3>1, <4>2
    <3>4. before \o bytes = fore \o tail
      <4>1. before \in Seq(Nat) /\ one \in Seq(Nat) /\ tail \in Seq(Nat)
        BY <2>3, <3>1
      <4>2. (before \o one) \o tail = before \o (one \o tail)
        BY <4>1
      <4> QED
        BY <3>2, <4>2
    <3>5. row = (fore \o tail) \o after
      BY <3>4
    <3> HIDE DEF fore, row
    <3>6. at + 1 = Len(fore) + 1 /\ tail \in Seq(Nat) /\ Len(tail) = w
      BY <1>0, <2>3, <3>3
    <3>7. Slice(fore \o tail \o after, at + 1, Len(tail)) = tail
      BY <3>3, <3>6, ReadAgain
    <3> QED
      BY <3>5, <3>6, <3>7
  <2>6. DeserializeUint(row, at + 1, w, endian) = Read(n, (at + 1) + w)
    <3> HIDE DEF row
    <3>1. n \div Power(Base, w) = 0 /\ w \in Nat
      BY <2>1, <2>2
    <3> QED
      BY <2>5, <3>1, UintReads
  <2> HIDE DEF row, tail
  <2>7. DeserializeCompuint(row, at, endian) = DeserializeUint(row, at + 1, w, endian)
    BY <2>2, <2>4 DEF DeserializeCompuint
  <2>8. (at + 1) + w = at + Len(bytes)
    <3>1. at \in Nat /\ w \in Nat /\ Len(bytes) = 1 + w
      BY <1>0, <2>2, <2>4
    <3> HIDE DEF w
    <3> QED
      BY <3>1
  <2> QED
    BY <2>4, <2>6, <2>7, <2>8 DEF row
<1>4. \/ bytes = <<n>> /\ n < Marks[1]
      \/ \E m \in 1 .. 3 : /\ bytes = <<Marks[m]>> \o SerializeUint(n, Widths[m], endian)
                           /\ n \div Power(Base, Widths[m]) = 0
  BY CompuintIs
<1> QED
  BY <1>2, <1>3, <1>4

\* The bytes that are there tell whether the number is whole.
LEMMA CompuintCut ==
  ASSUME NEW n \in Nat, n \div Power(Base, 8) = 0,
         NEW bytes, bytes = SerializeCompuint(n, "big"), NEW len \in 1 .. Len(bytes)
  PROVE  CompactuintGetValue(SubSeq(bytes, 1, len))
           = IF len = Len(bytes) THEN {Read(n, len + 1)} ELSE {}
<1> DEFINE input1 == SubSeq(bytes, 1, len)
           width == IF input1[1] < Marks[1] THEN 0 ELSE Widths[input1[1] - Marks[1] + 1]
<1>0. "big" \in Endians
  BY DEF Endians
<1>1. bytes \in Seq(Nat) /\ Len(bytes) \in Nat
  <2>1. <<>> \in Seq(Nat) /\ 1 = Len(<<>>) + 1
    OBVIOUS
  <2>2. bytes \in Seq(Nat)
    BY <1>0, <2>1, CompuintReads
  <2> QED
    BY <2>2
<1>2. Len(input1) = len /\ input1[1] = bytes[1] /\ len \in Nat
  BY <1>1
<1>3. (len = Len(bytes)) => input1 = bytes
  BY <1>1
<1> HIDE DEF input1
<1>4. width \in Nat /\ Len(bytes) = width + 1
  <2>1. CASE bytes = <<n>> /\ n < Marks[1]
    BY <1>2, <2>1
  <2>2. CASE \E m \in 1 .. 3 : /\ bytes = <<Marks[m]>> \o SerializeUint(n, Widths[m], "big")
                               /\ n \div Power(Base, Widths[m]) = 0
    <3>1. PICK m \in 1 .. 3 : bytes = <<Marks[m]>> \o SerializeUint(n, Widths[m], "big")
      BY <2>2
    <3> DEFINE w == Widths[m]
               tail == SerializeUint(n, w, "big")
               one == <<Marks[m]>>
    <3>2. Marks[m] \in Nat /\ ~(Marks[m] < Marks[1]) /\ Marks[m] - Marks[1] + 1 = m /\ w \in Nat
      BY MarkRead
    <3>3. tail \in Seq(Nat) /\ Len(tail) = w
      BY <1>0, <3>2, UintIs
    <3>4. one \in Seq(Nat) /\ Len(one) = 1 /\ one[1] = Marks[m]
      BY <3>2
    <3>5. bytes = one \o tail
      BY <3>1
    <3> HIDE DEF tail, one
    <3>6. Len(bytes) = 1 + w /\ bytes[1] = Marks[m]
      <4>1. /\ Len(one \o tail) = Len(one) + Len(tail)
            /\ \A k \in 1 .. Len(one) : (one \o tail)[k] = one[k]
        BY <3>3, <3>4, ConcatIs
      <4> QED
        BY <3>3, <3>4, <3>5, <4>1
    <3>7. width = w
      BY <1>2, <3>2, <3>6
    <3> HIDE DEF width, w
    <3> QED
      BY <3>2, <3>6, <3>7
  <2> QED
    BY <1>0, <2>1, <2>2, CompuintIs
<1>5. CompactuintGetValue(input1)
        = IF Len(input1) <= width THEN {} ELSE {DeserializeCompuint(input1, 1, "big")}
  BY DEF CompactuintGetValue
<1> HIDE DEF width
<1>6. CASE len = Len(bytes)
  <2>1. DeserializeCompuint(bytes, 1, "big") = Read(n, 1 + Len(bytes))
    <3> DEFINE none == SubSeq(bytes, 1, 0)
    <3>1. none \in Seq(Nat) /\ 1 = Len(none) + 1
      BY <1>1
    <3>2. none \o bytes \o none = bytes
      <4>1. none = <<>>
        BY <1>1
      <4>2. <<>> \o bytes = bytes /\ bytes \o <<>> = bytes
        BY <1>1, EmptyRow
      <4> QED
        BY <4>1, <4>2
    <3> HIDE DEF none
    <3>3. DeserializeCompuint(none \o bytes \o none, 1, "big") = Read(n, 1 + Len(bytes))
      BY <1>0, <3>1, CompuintReads
    <3> QED
      BY <3>2, <3>3
  <2>2. 1 + Len(bytes) = len + 1 /\ ~(Len(input1) <= width)
    BY <1>1, <1>2, <1>4, <1>6
  <2> QED
    BY <1>3, <1>5, <1>6, <2>1, <2>2 DEF input1
<1>7. CASE len # Len(bytes)
  <2>1. Len(input1) <= width
    BY <1>1, <1>2, <1>4, <1>7
  <2> QED
    BY <1>5, <1>7, <2>1 DEF input1
<1> QED
  BY <1>6, <1>7

LEMMA CompuintsReadBack ==
  ASSUME NEW n \in Nat, n \div Power(Base, 8) = 0
  PROVE  CompuintReadsBack(n)
<1>1. ASSUME NEW endian \in Endians
      PROVE  Reads(LAMBDA row, at : DeserializeCompuint(row, at, endian),
                   SerializeCompuint(n, endian), n)
  <2> DEFINE bytes == SerializeCompuint(n, endian)
             before == <<Base - 1>>
             after == <<0, Base - 1>>
  <2>1. bytes \in Seq(Nat)
    <3>1. <<>> \in Seq(Nat) /\ 1 = Len(<<>>) + 1
      OBVIOUS
    <3> QED
      BY <3>1, CompuintReads
  <2>2. /\ before \in Seq(Nat) /\ after \in Seq(Nat) /\ 2 = Len(before) + 1
        /\ Within(bytes) = (before \o bytes) \o after
    <3> HIDE DEF bytes
    <3> QED
      BY <2>1, WithinIs
  <2> HIDE DEF before, after
  <2>3. DeserializeCompuint(before \o bytes \o after, 2, endian) = Read(n, 2 + Len(bytes))
    BY <2>2, CompuintReads
  <2> HIDE DEF bytes
  <2>4. DeserializeCompuint(Within(bytes), 2, endian) = Read(n, 2 + Len(bytes))
    BY <2>2, <2>3
  <2>5. Reads(LAMBDA row, at : DeserializeCompuint(row, at, endian), bytes, n)
    BY <2>4 DEF Reads
  <2> QED
    BY <2>5 DEF bytes
<1>2. LET bytes == SerializeCompuint(n, "big")
      IN  \A len \in 1 .. Len(bytes) :
            CompactuintGetValue(SubSeq(bytes, 1, len))
              = IF len = Len(bytes) THEN {Read(n, len + 1)} ELSE {}
  BY CompuintCut
<1> QED
  BY <1>1, <1>2 DEF CompuintReadsBack

-----------------------------------------------------------------------------
(* Amounts.                                                                *)

LEMMA GreatestOne ==
  ASSUME NEW d \in Nat, NEW F, F \subseteq 0 .. d, F # {}
  PROVE  Max(F) \in F /\ \A k \in F : k <= Max(F)
<1> DEFINE G == {j \in Nat : \E k \in F : j = d - k}
<1>1. G # {}
  <2>1. PICK k \in F : TRUE
    OBVIOUS
  <2>2. d - k \in Nat
    BY <2>1
  <2>3. d - k \in G
    BY <2>2
  <2> QED
    BY <2>3
<1>2. G \subseteq Nat
  OBVIOUS
<1>3. PICK j \in G : \A l \in G : j <= l
  <2> HIDE DEF G
  <2> QED
    BY <1>1, <1>2, SmallestOne
<1>4. PICK k \in F : j = d - k
  OBVIOUS
<1>5. ASSUME NEW l \in F PROVE k >= l
  <2>1. d - l \in G
    OBVIOUS
  <2>2. j <= d - l
    BY <1>3, <2>1
  <2> QED
    BY <1>4, <2>2
<1>6. \E x \in F : \A y \in F : x >= y
  BY <1>5
<1>7. Max(F) \in F /\ \A y \in F : Max(F) >= y
  BY <1>6 DEF Max
<1> DEFINE m == Max(F)
<1>8. m \in F /\ \A y \in F : m >= y
  BY <1>7
<1> HIDE DEF m
<1>9. \A y \in F : y <= m
  BY <1>8
<1> QED
  BY <1>8, <1>9 DEF m

LEMMA TenIs == Ten \in Nat /\ Ten > 1 /\ Ten - 1 \in Nat /\ Ten - 1 # 0 /\ Ten # 0
BY BytesAssumption

\* The zeros at the end of a number, and what is before them.
LEMMA ZerosAre ==
  ASSUME NEW n \in Nat, n # 0
  PROVE  LET e == Zeros(n)
             m == n \div Power(Ten, e)
         IN  /\ e \in 0 .. (Ten - 1) /\ m \in Nat /\ m # 0 /\ n = Power(Ten, e) * m
             /\ e < Ten - 1 => m % Ten # 0
<1> DEFINE F == {k \in 0 .. (Ten - 1) : n % Power(Ten, k) = 0}
           e == Max(F)
           p == Power(Ten, e)
           m == n \div p
<1>1. F \subseteq 0 .. (Ten - 1) /\ F # {}
  <2>1. Power(Ten, 0) = 1
    BY TenIs, PowerIs
  <2>2. n % 1 = 0
    <3>1. n = n * 1 + 0 /\ 1 \in Nat /\ 0 \in Nat /\ 0 < 1
      OBVIOUS
    <3> QED
      BY <3>1, DivIs
  <2>3. 0 \in F
    BY <2>1, <2>2, TenIs
  <2> QED
    BY <2>3
<1>2. e \in F /\ \A k \in F : k <= e
  <2> HIDE DEF F
  <2> QED
    BY <1>1, TenIs, GreatestOne
<1>3. Zeros(n) = e
  BY DEF Zeros
<1> HIDE DEF e
<1>4. e \in 0 .. (Ten - 1) /\ n % p = 0 /\ e \in Nat
  BY <1>2
<1>5. p \in Nat /\ p # 0
  BY <1>4, TenIs, PowerPositive
<1> HIDE DEF p
<1>6. m \in Nat /\ n = m * p + (n % p)
  BY <1>5, DivMod
<1> HIDE DEF m
<1>7. n = p * m /\ m # 0
  BY <1>4, <1>5, <1>6
<1>8. ASSUME e < Ten - 1, m % Ten = 0 PROVE FALSE
  <2> DEFINE q == m \div Ten
             r == Ten * p
  <2>1. q \in Nat /\ m = q * Ten + (m % Ten)
    BY <1>6, TenIs, DivMod
  <2> HIDE DEF q
  <2>2. m = q * Ten
    BY <1>8, <2>1, TenIs
  <2>3. Power(Ten, e + 1) = r
    BY <1>4, TenIs, PowerIs DEF p
  <2>4. r \in Nat /\ r # 0
    BY <1>5, TenIs, Times
  <2>5. n = q * r + 0
    BY <1>5, <1>7, <2>1, <2>2, TenIs
  <2> HIDE DEF r
  <2>6. n % r = 0
    BY <2>1, <2>4, <2>5, DivIs
  <2>7. e + 1 \in 0 .. (Ten - 1)
    BY <1>4, <1>8, TenIs
  <2>8. e + 1 \in F
    BY <2>3, <2>6, <2>7
  <2>9. e + 1 <= e
    BY <1>2, <2>8
  <2> QED
    BY <1>4, <2>9
<1> QED
  BY <1>3, <1>4, <1>6, <1>7, <1>8 DEF p, m

\* The digit before the zeros is not 0, so that it has a place among the others.
LEMMA DigitBack ==
  ASSUME NEW m \in Nat, m % Ten # 0, NEW x, x = (m \div Ten) * (Ten - 1) + (m % Ten) - 1
  PROVE  x \in Nat /\ (x \div (Ten - 1)) * Ten + LastDigit(x) = m
<1> DEFINE q == m \div Ten
           r == m % Ten
           d == Ten - 1
<1>1. q \in Nat /\ r \in 0 .. (Ten - 1) /\ m = q * Ten + r
  BY TenIs, DivMod
<1>2. r # 0 /\ x = q * d + r - 1
  OBVIOUS
<1> HIDE DEF q, r
<1>3. d \in Nat /\ d # 0 /\ Ten = d + 1 /\ q * d \in Nat
  BY <1>1, TenIs
<1> HIDE DEF d
<1>4. x = q * d + (r - 1) /\ r - 1 \in Nat /\ r - 1 < d /\ x \in Nat
  BY <1>1, <1>2, <1>3
<1>5. x \div d = q /\ x % d = r - 1
  <2> DEFINE s == r - 1
  <2>1. x \in Nat /\ d \in Nat /\ q \in Nat /\ s \in Nat /\ s < d /\ x = q * d + s
    BY <1>1, <1>3, <1>4
  <2> HIDE DEF s
  <2>2. x \div d = q /\ x % d = s
    BY <2>1, DivIs
  <2> QED
    BY <2>2 DEF s
<1>6. LastDigit(x) = r
  BY <1>1, <1>5 DEF LastDigit, d
<1> QED
  BY <1>1, <1>4, <1>5, <1>6 DEF d

LEMMA AmountsReadBack ==
  ASSUME NEW n \in Nat
  PROVE  CamountUncompress(CamountCompress(n)) = n
<1>1. CASE n = 0
  BY <1>1 DEF CamountCompress, CamountUncompress
<1>2. CASE n # 0
  <2> DEFINE e == Zeros(n)
             p == Power(Ten, e)
             m == n \div p
             y == IF e < Ten - 1 THEN (m \div Ten) * (Ten - 1) + (m % Ten) - 1 ELSE m - 1
             c == 1 + y * Ten + e
             back == IF e < Ten - 1 THEN (y \div (Ten - 1)) * Ten + LastDigit(y) ELSE y + 1
  <2>1. /\ e \in 0 .. (Ten - 1) /\ m \in Nat /\ m # 0 /\ n = p * m
        /\ e < Ten - 1 => m % Ten # 0
    BY <1>2, ZerosAre
  <2> HIDE DEF e, p, m
  <2>2. y \in Nat /\ back = m
    <3>1. CASE e < Ten - 1
      <4> DEFINE x == (m \div Ten) * (Ten - 1) + (m % Ten) - 1
      <4>1. m % Ten # 0 /\ m \in Nat
        BY <2>1, <3>1
      <4>2. x \in Nat /\ (x \div (Ten - 1)) * Ten + LastDigit(x) = m
        BY <4>1, DigitBack
      <4>3. y = x
        BY <3>1
      <4> HIDE DEF x, y
      <4> QED
        BY <3>1, <4>2, <4>3
    <3>2. CASE ~(e < Ten - 1)
      <4>1. y = m - 1
        BY <3>2
      <4> HIDE DEF y
      <4> QED
        BY <2>1, <3>2, <4>1
    <3> QED
      BY <3>1, <3>2
  <2>3. CamountCompress(n) = c
    <3>1. CASE e < Ten - 1
      <4>1. CamountCompress(n) = 1 + ((m \div Ten) * (Ten - 1) + (m % Ten) - 1) * Ten + e
        BY <1>2, <3>1 DEF CamountCompress, e, m, p
      <4> QED
        BY <3>1, <4>1
    <3>2. CASE ~(e < Ten - 1)
      <4>1. CamountCompress(n) = 1 + (m - 1) * Ten + Ten - 1
        BY <1>2, <3>2 DEF CamountCompress, e, m, p
      <4>2. e = Ten - 1 /\ y = m - 1
        BY <2>1, <3>2, TenIs
      <4> HIDE DEF y
      <4>3. 1 + y * Ten + Ten - 1 = 1 + y * Ten + (Ten - 1)
        BY <2>2, TenIs
      <4> QED
        BY <4>1, <4>2, <4>3
    <3> QED
      BY <3>1, <3>2
  <2> HIDE DEF y
  <2>4. c # 0 /\ c - 1 = y * Ten + e /\ y * Ten \in Nat /\ c - 1 \in Nat
    BY <2>1, <2>2, TenIs
  <2> HIDE DEF c
  <2>5. (c - 1) % Ten = e /\ (c - 1) \div Ten = y
    <3> DEFINE z == c - 1
    <3>1. /\ z \in Nat /\ Ten \in Nat /\ y \in Nat /\ e \in Nat /\ e < Ten
          /\ z = y * Ten + e
      BY <2>1, <2>2, <2>4, TenIs
    <3> HIDE DEF z
    <3>2. z \div Ten = y /\ z % Ten = e
      BY <3>1, DivIs
    <3> QED
      BY <3>2 DEF z
  <2>6. CamountUncompress(c) = Power(Ten, e) * back
    <3>1. CamountUncompress(c)
            = Power(Ten, (c - 1) % Ten)
                * (IF (c - 1) % Ten < Ten - 1
                   THEN (((c - 1) \div Ten) \div (Ten - 1)) * Ten + LastDigit((c - 1) \div Ten)
                   ELSE (c - 1) \div Ten + 1)
      BY <2>4 DEF CamountUncompress
    <3> QED
      BY <2>5, <3>1
  <2> HIDE DEF back
  <2> QED
    BY <2>1, <2>2, <2>3, <2>6 DEF p
<1> QED
  BY <1>1, <1>2

-----------------------------------------------------------------------------
(* Hexadecimal text.                                                       *)

LEMMA HexIs == HexBase \in Nat /\ HexBase > 1 /\ HexBase * HexBase = Base
<1>1. \E h \in 2 .. Base : h * h = Base
  BY NumbersAssumption
<1>2. HexBase \in 2 .. Base /\ HexBase * HexBase = Base
  BY <1>1 DEF HexBase
<1> QED
  BY <1>2, BaseIs

\* Two digits of the text stand for a byte.
LEMMA TwoDigits ==
  ASSUME NEW j \in Nat
  PROVE  Power(HexBase, j + j) = Power(Base, j)
<1> DEFINE F == {k \in Nat : Power(HexBase, k + k) # Power(Base, k)}
<1> SUFFICES ASSUME F # {} PROVE FALSE
  OBVIOUS
<1>0. F \subseteq Nat
  OBVIOUS
<1> HIDE DEF F
<1>1. PICK m \in F : \A k \in F : m <= k
  BY <1>0, SmallestOne
<1>2. m \in Nat /\ Power(HexBase, m + m) # Power(Base, m)
  BY DEF F
<1>3. m # 0
  <2>1. Power(HexBase, 0) = 1 /\ Power(Base, 0) = 1 /\ 0 + 0 = 0
    BY HexIs, BaseIs, PowerIs
  <2> QED
    BY <1>2, <2>1
<1>4. m - 1 \in Nat /\ m - 1 \notin F
  BY <1>1, <1>2, <1>3
<1> DEFINE i == m - 1
           h == HexBase
           p == Power(h, i + i)
<1>5. i \in Nat /\ Power(h, i + i) = Power(Base, i) /\ m = i + 1 /\ m + m = ((i + i) + 1) + 1
  BY <1>4, <1>2 DEF F
<1> HIDE DEF i
<1>6. h \in Nat /\ h # 0 /\ h * h = Base
  BY HexIs
<1>7. i + i \in Nat /\ (i + i) + 1 \in Nat
  BY <1>5
<1> HIDE DEF h
<1>8. Power(h, (i + i) + 1) = h * p /\ Power(h, ((i + i) + 1) + 1) = h * Power(h, (i + i) + 1)
  BY <1>6, <1>7, PowerIs
<1>9. Power(Base, i + 1) = Base * Power(Base, i)
  BY <1>5, BaseIs, PowerIs
<1>10. p \in Nat
  BY <1>6, <1>7, PowerPositive
<1> HIDE DEF p
<1>11. h * (h * p) = (h * h) * p
  BY <1>6, <1>10
<1>12. Power(h, m + m) = Base * p /\ Power(Base, m) = Base * p
  BY <1>5, <1>6, <1>8, <1>9, <1>11 DEF p
<1> QED
  BY <1>2, <1>12 DEF h

\* A byte is what its two digits come to.
LEMMA ByteOfDigits ==
  ASSUME NEW n \in Nat, NEW j \in Nat
  PROVE  ((n \div Power(HexBase, (j + j) + 1)) % HexBase) * HexBase
           + ((n \div Power(HexBase, j + j)) % HexBase)
         = (n \div Power(Base, j)) % Base
<1> DEFINE h == HexBase
           p == Power(h, j + j)
           q == n \div p
<1>1. h \in Nat /\ h # 0 /\ h * h = Base
  BY HexIs
<1>2. j + j \in Nat
  OBVIOUS
<1> HIDE DEF h
<1>3. p \in Nat /\ p # 0
  BY <1>1, <1>2, PowerPositive
<1>4. Power(h, (j + j) + 1) = p * h
  <2>1. Power(h, (j + j) + 1) = h * p
    BY <1>1, <1>2, PowerIs
  <2> HIDE DEF p
  <2> QED
    BY <1>1, <1>3, <2>1, Times
<1>5. p = Power(Base, j)
  BY TwoDigits DEF h
<1> HIDE DEF p
<1>6. n \div (p * h) = q \div h
  BY <1>1, <1>3, DivTwice
<1>7. q \in Nat
  BY <1>3, DivMod
<1> HIDE DEF q
<1> DEFINE b == q % (h * h)
<1>8. b \div h = (q \div h) % h /\ b % h = q % h
  BY <1>1, <1>7, DivTwice
<1>9. b = (b \div h) * h + (b % h)
  <2>1. h * h \in Nat /\ h * h # 0
    BY <1>1, BaseIs
  <2> DEFINE d == h * h
  <2>2. d \in Nat /\ d # 0 /\ b = q % d
    BY <2>1
  <2> HIDE DEF d, b
  <2>3. q % d \in 0 .. (d - 1)
    BY <1>7, <2>2, DivMod
  <2>4. b \in Nat
    BY <2>2, <2>3
  <2> QED
    BY <1>1, <2>4, DivMod
<1>10. b = q % Base
  BY <1>1
<1> HIDE DEF b
<1>11. ((q \div h) % h) * h + (q % h) = q % Base
  BY <1>8, <1>9, <1>10
<1> QED
  BY <1>4, <1>5, <1>6, <1>11 DEF h, p, q

HexText(n, capital) ==
  [k \in 1 .. 8 |-> Digit((n \div Power(HexBase, 8 - k)) % HexBase, capital)]

LEMMA HexTextIs ==
  ASSUME NEW n \in Nat, NEW capital
  PROVE  /\ Len(HexText(n, capital)) = 8 /\ DOMAIN HexText(n, capital) = 1 .. 8
         /\ \A k \in 1 .. 8 :
              /\ HexText(n, capital)[k].digit = (n \div Power(HexBase, 8 - k)) % HexBase
              /\ HexIschar(HexText(n, capital)[k])
<1> DEFINE text == HexText(n, capital)
<1>1. text = [k \in 1 .. 8 |-> Digit((n \div Power(HexBase, 8 - k)) % HexBase, capital)]
  BY DEF HexText
<1> HIDE DEF text
<1>2. Len(text) = 8 /\ DOMAIN text = 1 .. 8
  BY <1>1
<1>3. ASSUME NEW k \in 1 .. 8
      PROVE  text[k].digit = (n \div Power(HexBase, 8 - k)) % HexBase /\ HexIschar(text[k])
  <2> DEFINE x == (n \div Power(HexBase, 8 - k)) % HexBase
  <2>1. x \in 0 .. (HexBase - 1)
    <3> DEFINE p == Power(HexBase, 8 - k)
    <3>1. 8 - k \in Nat /\ HexBase \in Nat /\ HexBase # 0
      BY HexIs
    <3>2. p \in Nat /\ p # 0
      BY <3>1, PowerPositive
    <3> HIDE DEF p
    <3>3. n \div p \in Nat
      BY <3>2, DivMod
    <3> DEFINE q == n \div p
    <3>4. q \in Nat
      BY <3>3
    <3> HIDE DEF q
    <3>5. q % HexBase \in 0 .. (HexBase - 1)
      BY <3>1, <3>4, DivMod
    <3> QED
      BY <3>5 DEF q, p
  <2>2. text[k] = Digit(x, capital)
    BY <1>1
  <2> HIDE DEF x
  <2>3. text[k].digit = x
    BY <2>2 DEF Digit
  <2>4. x < HexBase
    BY <2>1, HexIs
  <2>5. HexIschar(text[k])
    BY <2>3, <2>4 DEF HexIschar
  <2> QED
    BY <2>3, <2>5 DEF x
<1> QED
  BY <1>2, <1>3 DEF text

LEMMA TailShorter ==
  ASSUME NEW S, NEW s \in Seq(S), Len(s) = 8
  PROVE  Len(Tail(s)) = 7
<1>1. s # <<>>
  OBVIOUS
<1> QED
  BY <1>1

LEMMA HexsReadBack ==
  ASSUME NEW n \in Nat
  PROVE  HexReadsBack(n)
<1>1. ASSUME NEW capital \in BOOLEAN
      PROVE  LET text == HexText(n, capital)
             IN  /\ HexStrToRaw(text) = {BigEndian(n % Power(HexBase, 8), 4)}
                 /\ HexStrToRaw(Tail(text)) = {}
                 /\ HexStrToRaw([text EXCEPT ![3] = NoDigit]) = {}
  <2> DEFINE text == HexText(n, capital)
             low == n % Power(HexBase, 8)
             raw == [k \in 1 .. 4 |-> text[2 * k - 1].digit * HexBase + text[2 * k].digit]
  <2>1. /\ Len(text) = 8 /\ DOMAIN text = 1 .. 8
        /\ \A k \in 1 .. 8 : /\ text[k].digit = (n \div Power(HexBase, 8 - k)) % HexBase
                             /\ HexIschar(text[k])
    BY HexTextIs
  <2>2. text \in Seq({text[k] : k \in 1 .. 8})
    <3> DEFINE T == {text[k] : k \in 1 .. 8}
    <3>1. text = [k \in 1 .. 8 |-> text[k]]
      BY DEF HexText
    <3> HIDE DEF text
    <3>2. text \in [1 .. 8 -> T]
      BY <3>1
    <3> HIDE DEF T
    <3>3. text \in Seq(T)
      BY <3>2, RowIs
    <3> QED
      BY <3>3 DEF T
  <2> HIDE DEF text
  <2>3. HexStrToRaw(text) = {raw}
    <3>1. Len(text) % 2 = 0 /\ Len(text) \div 2 = 4
      BY <2>1
    <3>2. ~ \E k \in DOMAIN text : ~HexIschar(text[k])
      BY <2>1
    <3> QED
      BY <3>1, <3>2 DEF HexStrToRaw
  <2>4. raw = BigEndian(low, 4)
    <3>1. Power(HexBase, 8) = Power(Base, 4)
      <4>1. 4 + 4 = 8 /\ 4 \in Nat
        OBVIOUS
      <4> QED
        BY <4>1, TwoDigits
    <3>2. ASSUME NEW k \in 1 .. 4
          PROVE  text[2 * k - 1].digit * HexBase + text[2 * k].digit
                   = (low \div Power(Base, 4 - k)) % Base
      <4> DEFINE j == 4 - k
      <4>1. /\ j \in Nat /\ j < 4 /\ 2 * k - 1 \in 1 .. 8 /\ 2 * k \in 1 .. 8
            /\ 8 - (2 * k - 1) = (j + j) + 1 /\ 8 - 2 * k = j + j
        OBVIOUS
      <4> HIDE DEF j
      <4>2. /\ text[2 * k - 1].digit = (n \div Power(HexBase, (j + j) + 1)) % HexBase
            /\ text[2 * k].digit = (n \div Power(HexBase, j + j)) % HexBase
        BY <2>1, <4>1
      <4>3. text[2 * k - 1].digit * HexBase + text[2 * k].digit = (n \div Power(Base, j)) % Base
        BY <4>1, <4>2, ByteOfDigits
      <4>4. ((n % Power(Base, 4)) \div Power(Base, j)) % Base = (n \div Power(Base, j)) % Base
        BY <4>1, LowDigit
      <4> QED
        BY <3>1, <4>3, <4>4 DEF j
    <3> HIDE DEF low
    <3> QED
      BY <3>2 DEF BigEndian
  <2>5. HexStrToRaw(Tail(text)) = {}
    <3>1. Len(Tail(text)) = 7
      BY <2>1, <2>2, TailShorter
    <3>2. 7 % 2 = 1
      OBVIOUS
    <3> DEFINE tail == Tail(text)
    <3>5. Len(tail) = 7
      BY <3>1
    <3> HIDE DEF tail
    <3>3. Len(tail) % 2 # 0
      <4> DEFINE len == Len(tail)
      <4>1. len = 7
        BY <3>5
      <4> HIDE DEF len
      <4>2. len % 2 # 0
        BY <4>1
      <4> QED
        BY <4>2 DEF len
    <3>4. HexStrToRaw(tail) = {}
      BY <3>3 DEF HexStrToRaw
    <3> QED
      BY <3>4 DEF tail
  <2>6. HexStrToRaw([text EXCEPT ![3] = NoDigit]) = {}
    <3> DEFINE other == [text EXCEPT ![3] = NoDigit]
    <3>1. 3 \in DOMAIN other /\ other[3] = NoDigit
      BY <2>1
    <3> HIDE DEF other
    <3>2. ~HexIschar(other[3])
      <4>1. NoDigit.digit = HexBase
        BY DEF NoDigit
      <4>2. ~(HexBase < HexBase)
        BY HexIs
      <4> QED
        BY <3>1, <4>1, <4>2 DEF HexIschar
    <3>3. HexStrToRaw(other) = {}
      BY <3>1, <3>2 DEF HexStrToRaw
    <3> QED
      BY <3>3 DEF other
  <2> QED
    BY <2>3, <2>4, <2>5, <2>6 DEF text
<1> QED
  BY <1>1 DEF HexReadsBack, HexText

-----------------------------------------------------------------------------
(* Numbers of the chainstate.                                              *)

\* What seven bits of a byte can be.
Sevens == 0 .. (Half - 1)

\* The digits of m, when those of smaller numbers are in f.
DigitsStep(m, f) == IF m < Half THEN <<m>> ELSE Append(f[Above(m)], m % Half)

LEMMA AboveIs ==
  ASSUME NEW m \in Nat, ~(m < Half)
  PROVE  /\ Above(m) \in Nat /\ Above(m) < m /\ m % Half \in Sevens
         /\ m = (Above(m) + 1) * Half + (m % Half)
<1> DEFINE q == m \div Half
           r == m % Half
<1>0. Half \in Nat /\ Half > 2 /\ Half # 0
  BY BaseIs
<1>1. q \in Nat /\ r \in 0 .. (Half - 1) /\ m = q * Half + r
  BY <1>0, DivMod
<1>2. Above(m) = q - 1
  BY DEF Above
<1> HIDE DEF q, r
<1>3. q # 0
  BY <1>0, <1>1
<1>4. q * Half >= q /\ q * Half \in Nat
  BY <1>0, <1>1, <1>3, Times
<1>5. q - 1 \in Nat /\ q - 1 < m /\ (q - 1) + 1 = q
  BY <1>0, <1>1, <1>3, <1>4
<1> QED
  BY <1>1, <1>2, <1>5 DEF r, Sevens

LEMMA DigitsUpto ==
  ASSUME NEW n \in Nat
  PROVE  \E f : \A m \in 0 .. n : f[m] = DigitsStep(m, f)
<1> DEFINE F == {k \in Nat : ~ \E f : \A m \in 0 .. k : f[m] = DigitsStep(m, f)}
<1> SUFFICES ASSUME F # {} PROVE FALSE
  OBVIOUS
<1>0. F \subseteq Nat
  OBVIOUS
<1> HIDE DEF F
<1>1. PICK l \in F : \A k \in F : l <= k
  BY <1>0, SmallestOne
<1>2. l \in Nat /\ ~ \E f : \A m \in 0 .. l : f[m] = DigitsStep(m, f)
  BY DEF F
<1>3. l # 0
  <2> SUFFICES ASSUME l = 0 PROVE FALSE
    OBVIOUS
  <2> DEFINE f == [m \in 0 .. 0 |-> <<0>>]
  <2>1. f[0] = DigitsStep(0, f)
    BY BaseIs DEF DigitsStep
  <2>2. \A m \in 0 .. 0 : m = 0
    OBVIOUS
  <2> HIDE DEF f
  <2>3. \A m \in 0 .. l : f[m] = DigitsStep(m, f)
    BY <2>1, <2>2
  <2> QED
    BY <1>2, <2>3
<1>4. l - 1 \in Nat /\ l - 1 \notin F
  BY <1>1, <1>2, <1>3
<1>5. PICK f : \A m \in 0 .. (l - 1) : f[m] = DigitsStep(m, f)
  BY <1>4 DEF F
<1> DEFINE last == DigitsStep(l, f)
           h == [k \in 0 .. l |-> IF k = l THEN last ELSE f[k]]
<1>6. h[l] = last /\ \A k \in 0 .. (l - 1) : h[k] = f[k]
  BY <1>2
<1> HIDE DEF h
<1>7. ASSUME NEW m \in 0 .. l PROVE DigitsStep(m, h) = DigitsStep(m, f)
  <2>1. CASE m < Half
    BY <2>1 DEF DigitsStep
  <2>2. CASE ~(m < Half)
    <3>1. m \in Nat
      BY <1>2
    <3>2. Above(m) \in Nat /\ Above(m) < m
      BY <2>2, <3>1, AboveIs
    <3> DEFINE a == Above(m)
    <3>3. a \in 0 .. (l - 1)
      BY <1>2, <3>2
    <3> HIDE DEF a
    <3>4. h[a] = f[a]
      BY <1>6, <3>3
    <3> QED
      BY <2>2, <3>4 DEF DigitsStep, a
  <2> QED
    BY <2>1, <2>2
<1>8. ASSUME NEW m \in 0 .. l PROVE h[m] = DigitsStep(m, h)
  <2>1. CASE m = l
    BY <1>6, <1>7, <2>1
  <2>2. CASE m # l
    <3>1. m \in 0 .. (l - 1)
      BY <1>2, <2>2
    <3> QED
      BY <1>5, <1>6, <1>7, <3>1
  <2> QED
    BY <2>1, <2>2
<1> QED
  BY <1>2, <1>8

LEMMA DigitsAgree ==
  ASSUME NEW n \in Nat, NEW l \in 0 .. n,
         NEW f, \A m \in 0 .. n : f[m] = DigitsStep(m, f),
         NEW g, \A m \in 0 .. l : g[m] = DigitsStep(m, g)
  PROVE  f[l] = g[l]
<1> DEFINE F == {k \in 0 .. l : f[k] # g[k]}
<1> SUFFICES ASSUME F # {} PROVE FALSE
  OBVIOUS
<1>0. F \subseteq Nat
  OBVIOUS
<1> HIDE DEF F
<1>1. PICK k \in F : \A j \in F : k <= j
  BY <1>0, SmallestOne
<1>2. k \in 0 .. l /\ f[k] # g[k] /\ k \in 0 .. n /\ k \in Nat
  BY DEF F
<1>3. DigitsStep(k, f) = DigitsStep(k, g)
  <2>1. CASE k < Half
    BY <2>1 DEF DigitsStep
  <2>2. CASE ~(k < Half)
    <3> DEFINE a == Above(k)
    <3>1. a \in Nat /\ a < k
      BY <1>2, <2>2, AboveIs
    <3> HIDE DEF a
    <3>2. a \in 0 .. l /\ a \notin F
      BY <1>1, <1>2, <3>1
    <3>3. f[a] = g[a]
      BY <3>2 DEF F
    <3> QED
      BY <2>2, <3>3 DEF DigitsStep, a
  <2> QED
    BY <2>1, <2>2
<1> QED
  BY <1>2, <1>3

LEMMA DigitsExist == \E d : d = [m \in Nat |-> DigitsStep(m, d)]
<1> DEFINE upto(n) == CHOOSE f : \A m \in 0 .. n : f[m] = DigitsStep(m, f)
           d == [n \in Nat |-> upto(n)[n]]
<1>1. ASSUME NEW n \in Nat PROVE \A m \in 0 .. n : upto(n)[m] = DigitsStep(m, upto(n))
  BY DigitsUpto
<1> HIDE DEF upto
<1>2. \A n \in Nat : d[n] = upto(n)[n]
  OBVIOUS
<1>3. d = [n \in Nat |-> d[n]]
  OBVIOUS
<1> HIDE DEF d
<1>4. ASSUME NEW n \in Nat PROVE d[n] = DigitsStep(n, d)
  <2>0. n \in 0 .. n
    OBVIOUS
  <2>1. d[n] = DigitsStep(n, upto(n))
    BY <1>1, <1>2, <2>0
  <2>2. DigitsStep(n, upto(n)) = DigitsStep(n, d)
    <3>1. CASE n < Half
      BY <3>1 DEF DigitsStep
    <3>2. CASE ~(n < Half)
      <4> DEFINE a == Above(n)
                 f == upto(n)
                 g == upto(a)
      <4>1. a \in Nat /\ a < n
        BY <3>2, AboveIs
      <4> HIDE DEF a
      <4>2. a \in 0 .. n
        BY <4>1
      <4>3. (\A m \in 0 .. n : f[m] = DigitsStep(m, f)) /\ (\A m \in 0 .. a : g[m] = DigitsStep(m, g))
        BY <1>1, <4>1
      <4> HIDE DEF f, g
      <4>4. f[a] = g[a]
        BY <4>2, <4>3, DigitsAgree
      <4>5. f[a] = d[a]
        BY <1>2, <4>1, <4>4 DEF g
      <4> QED
        BY <3>2, <4>5 DEF DigitsStep, a, f
    <3> QED
      BY <3>1, <3>2
  <2> QED
    BY <2>1, <2>2
<1>5. d = [n \in Nat |-> DigitsStep(n, d)]
  BY <1>3, <1>4
<1> QED
  BY <1>5

\* All bytes but the last have the high bit.
Flagged(row) == [k \in DOMAIN row |-> IF k < Len(row) THEN row[k] + Half ELSE row[k]]

LEMMA VarintDigits ==
  \E d : (\A m \in Nat : d[m] = DigitsStep(m, d)) /\ (\A n : SerializeVarint(n) = Flagged(d[n]))
<1> DEFINE d == CHOOSE f : f = [m \in Nat |-> IF m < Half THEN <<m>> ELSE Append(f[Above(m)], m % Half)]
<1>1. d = [m \in Nat |-> IF m < Half THEN <<m>> ELSE Append(d[Above(m)], m % Half)]
  BY DigitsExist DEF DigitsStep
<1>2. \A n : SerializeVarint(n) = Flagged(d[n])
  BY DEF SerializeVarint, Flagged
<1> HIDE DEF d
<1>3. \A m \in Nat : d[m] = DigitsStep(m, d)
  BY <1>1 DEF DigitsStep
<1> QED
  BY <1>2, <1>3

\* A row of digits comes to m, when every digit takes one off the next.
Comes(row, m) ==
  /\ row \in Seq(Sevens) /\ Len(row) # 0
  /\ \E v : /\ v[0] = 0 /\ v[Len(row)] = m + 1
            /\ \A k \in 0 .. Len(row) : v[k] \in Nat
            /\ \A k \in 1 .. Len(row) : v[k] = v[k - 1] * Half + row[k] + 1

LEMMA SevensAre ==
  /\ Half \in Nat /\ Half > 2 /\ \A d \in Sevens : d \in Nat /\ d < Half
  /\ \A d \in Nat : d < Half => d \in Sevens
BY BaseIs DEF Sevens

LEMMA ComesOne ==
  ASSUME NEW m \in Nat, m < Half
  PROVE  Comes(<<m>>, m)
<1> DEFINE row == <<m>>
           v == [k \in 0 .. 1 |-> IF k = 0 THEN 0 ELSE m + 1]
<1>1. row \in Seq(Sevens) /\ Len(row) = 1 /\ row[1] = m
  BY SevensAre
<1>2. v[0] = 0 /\ v[1] = m + 1
  OBVIOUS
<1> HIDE DEF v, row
<1>3. \A k \in 0 .. 1 : v[k] \in Nat
  <2>1. \A k \in 0 .. 1 : k = 0 \/ k = 1
    OBVIOUS
  <2> QED
    BY <1>2, <2>1
<1>4. \A k \in 1 .. 1 : v[k] = v[k - 1] * Half + row[k] + 1
  <2>1. \A k \in 1 .. 1 : k = 1
    OBVIOUS
  <2>2. v[1] = v[1 - 1] * Half + row[1] + 1
    BY <1>1, <1>2, SevensAre
  <2> QED
    BY <2>1, <2>2
<1>5. Comes(row, m)
  BY <1>1, <1>2, <1>3, <1>4 DEF Comes
<1> QED
  BY <1>5 DEF row

LEMMA AppendIs ==
  ASSUME NEW S, NEW row \in Seq(S), NEW r \in S
  PROVE  /\ Append(row, r) \in Seq(S) /\ Len(Append(row, r)) = Len(row) + 1
         /\ \A k \in 1 .. Len(row) : Append(row, r)[k] = row[k]
         /\ Append(row, r)[Len(row) + 1] = r
OBVIOUS

LEMMA ComesMore ==
  ASSUME NEW a \in Nat, NEW row, Comes(row, a), NEW r \in Sevens,
         NEW m \in Nat, m = (a + 1) * Half + r
  PROVE  Comes(Append(row, r), m)
<1>1. row \in Seq(Sevens) /\ Len(row) # 0
  BY DEF Comes
<1>2. PICK v : /\ v[0] = 0 /\ v[Len(row)] = a + 1
               /\ \A k \in 0 .. Len(row) : v[k] \in Nat
               /\ \A k \in 1 .. Len(row) : v[k] = v[k - 1] * Half + row[k] + 1
  BY DEF Comes
<1> DEFINE len == Len(row)
           more == Append(row, r)
           w == [k \in 0 .. (len + 1) |-> IF k <= len THEN v[k] ELSE m + 1]
<1>3. len \in Nat
  BY <1>1
<1>4. /\ more \in Seq(Sevens) /\ Len(more) = len + 1
      /\ \A k \in 1 .. len : more[k] = row[k]
      /\ more[len + 1] = r
  BY <1>1, AppendIs
<1>5. v[len] = a + 1 /\ (\A k \in 0 .. len : v[k] \in Nat)
      /\ (\A k \in 1 .. len : v[k] = v[k - 1] * Half + row[k] + 1)
  BY <1>2
<1> HIDE DEF len, more
<1>6. w[len + 1] = m + 1 /\ \A k \in 0 .. len : w[k] = v[k]
  BY <1>3
<1> HIDE DEF w
<1>7. ASSUME NEW k \in 0 .. (len + 1) PROVE w[k] \in Nat
  <2>1. k \in 0 .. len \/ k = len + 1
    BY <1>3
  <2> QED
    BY <1>5, <1>6, <2>1
<1>8. ASSUME NEW k \in 1 .. (len + 1) PROVE w[k] = w[k - 1] * Half + more[k] + 1
  <2>1. CASE k = len + 1
    <3>1. k - 1 = len /\ len \in 0 .. len
      BY <1>3, <2>1
    <3>2. w[k - 1] = a + 1
      BY <1>5, <1>6, <3>1
    <3> QED
      BY <1>4, <1>6, <2>1, <3>2
  <2>2. CASE k # len + 1
    <3>1. k \in 1 .. len /\ k \in 0 .. len /\ k - 1 \in 0 .. len
      BY <1>3, <2>2
    <3> QED
      BY <1>4, <1>5, <1>6, <3>1
  <2> QED
    BY <2>1, <2>2
<1>9. w[0] = 0
  <2>1. 0 \in 0 .. len
    BY <1>3
  <2> QED
    BY <1>2, <1>6, <2>1
<1>10. Comes(more, m)
  <2>1. Len(more) # 0
    BY <1>3, <1>4
  <2> QED
    BY <1>4, <1>6, <1>7, <1>8, <1>9, <2>1 DEF Comes
<1> QED
  BY <1>10 DEF more

LEMMA DigitsCome ==
  ASSUME NEW d, \A m \in Nat : d[m] = DigitsStep(m, d), NEW n \in Nat
  PROVE  Comes(d[n], n)
<1> DEFINE F == {k \in Nat : ~Comes(d[k], k)}
<1> SUFFICES ASSUME F # {} PROVE FALSE
  OBVIOUS
<1>0. F \subseteq Nat
  OBVIOUS
<1> HIDE DEF F
<1>1. PICK m \in F : \A k \in F : m <= k
  BY <1>0, SmallestOne
<1>2. m \in Nat /\ ~Comes(d[m], m) /\ d[m] = DigitsStep(m, d)
  BY DEF F
<1>3. CASE m < Half
  <2>1. d[m] = <<m>>
    BY <1>2, <1>3 DEF DigitsStep
  <2> QED
    BY <1>2, <1>3, <2>1, ComesOne
<1>4. CASE ~(m < Half)
  <2> DEFINE a == Above(m)
             r == m % Half
  <2>1. a \in Nat /\ a < m /\ r \in Sevens /\ m = (a + 1) * Half + r
    BY <1>2, <1>4, AboveIs
  <2>2. d[m] = Append(d[a], r)
    BY <1>2, <1>4 DEF DigitsStep
  <2> HIDE DEF a, r
  <2>3. a \notin F
    BY <1>1, <1>2, <2>1
  <2>4. Comes(d[a], a)
    BY <2>1, <2>3 DEF F
  <2>5. Comes(Append(d[a], r), m)
    BY <1>2, <2>1, <2>4, ComesMore
  <2> QED
    BY <1>2, <2>2, <2>5
<1> QED
  BY <1>3, <1>4

LEMMA FlaggedIs ==
  ASSUME NEW row \in Seq(Sevens), Len(row) # 0
  PROVE  /\ Flagged(row) \in Seq(Nat) /\ Len(Flagged(row)) = Len(row)
         /\ \A k \in 1 .. (Len(row) - 1) : Flagged(row)[k] = row[k] + Half
         /\ Flagged(row)[Len(row)] = row[Len(row)]
<1> DEFINE bytes == Flagged(row)
<1>1. Len(row) \in Nat /\ DOMAIN row = 1 .. Len(row) /\ \A k \in 1 .. Len(row) : row[k] \in Nat
  <2>1. Len(row) \in Nat /\ DOMAIN row = 1 .. Len(row)
    OBVIOUS
  <2>2. \A k \in 1 .. Len(row) : row[k] \in Sevens
    OBVIOUS
  <2> QED
    BY <2>1, <2>2, SevensAre
<1>2. bytes = [k \in 1 .. Len(row) |-> IF k < Len(row) THEN row[k] + Half ELSE row[k]]
  BY <1>1 DEF Flagged
<1> HIDE DEF bytes
<1>3. bytes \in [1 .. Len(row) -> Nat]
  <2>1. ASSUME NEW k \in 1 .. Len(row)
        PROVE  (IF k < Len(row) THEN row[k] + Half ELSE row[k]) \in Nat
    BY <1>1, SevensAre
  <2> QED
    BY <1>2, <2>1
<1>4. bytes \in Seq(Nat) /\ Len(bytes) = Len(row)
  BY <1>1, <1>3, RowIs
<1>5. ASSUME NEW k \in 1 .. (Len(row) - 1) PROVE bytes[k] = row[k] + Half
  BY <1>1, <1>2
<1>6. bytes[Len(row)] = row[Len(row)]
  BY <1>1, <1>2
<1> QED
  BY <1>4, <1>5, <1>6 DEF bytes

\* What the bytes of a number come to, from place at on.
Decodes(v, input1, at, last) ==
  v = [k \in (at - 1) .. last |->
         IF k < at THEN 0 ELSE v[k - 1] * Half + (input1[k] % Half) + (input1[k] \div Half)]

\* The last byte of a number is the first one without the high bit.
Ends(input1, at, k) ==
  k \in at .. Len(input1) /\ input1[k] < Half /\ \A j \in at .. (k - 1) : input1[j] >= Half

LEMMA DecodesTo ==
  ASSUME NEW input1, Len(input1) \in Nat, \A k \in 1 .. Len(input1) : input1[k] \in Nat,
         NEW at \in Nat, at # 0, NEW last, Ends(input1, at, last),
         NEW g, Decodes(g, input1, at, last)
  PROVE  DeserializeVarint(input1, at) = Read(g[last], last + 1)
<1> DEFINE found == CHOOSE k \in at .. Len(input1) :
                      input1[k] < Half /\ \A j \in at .. (k - 1) : input1[j] >= Half
           v == CHOOSE f : f = [k \in (at - 1) .. found |->
                  IF k < at THEN 0 ELSE f[k - 1] * Half + (input1[k] % Half) + (input1[k] \div Half)]
<1>0. last \in at .. Len(input1) /\ last \in Nat
  BY DEF Ends
<1>1. ASSUME NEW k, Ends(input1, at, k) PROVE k = last
  <2>1. k \in at .. Len(input1) /\ k \in Nat
    BY <1>1 DEF Ends
  <2>2. CASE k < last
    <3>1. k \in at .. (last - 1)
      BY <1>0, <2>1, <2>2
    <3>2. input1[k] >= Half /\ input1[k] < Half
      BY <1>1, <3>1 DEF Ends
    <3>3. input1[k] \in Nat
      BY <2>1
    <3> QED
      BY <3>2, <3>3, SevensAre
  <2>3. CASE last < k
    <3>1. last \in at .. (k - 1)
      BY <1>0, <2>1, <2>3
    <3>2. input1[last] >= Half /\ input1[last] < Half
      BY <1>1, <3>1 DEF Ends
    <3>3. input1[last] \in Nat
      BY <1>0
    <3> QED
      BY <3>2, <3>3, SevensAre
  <2> QED
    BY <1>0, <2>1, <2>2, <2>3
<1>2. found = last
  <2>1. \E k \in at .. Len(input1) : input1[k] < Half /\ \A j \in at .. (k - 1) : input1[j] >= Half
    BY DEF Ends
  <2>2. Ends(input1, at, found)
    BY <2>1 DEF Ends
  <2> HIDE DEF found
  <2> QED
    BY <1>1, <2>2
<1> HIDE DEF found
<1>3. DeserializeVarint(input1, at) = Read(v[found], found + 1)
  BY DEF DeserializeVarint, found
<1>4. Decodes(v, input1, at, last)
  BY <1>2 DEF Decodes
<1> HIDE DEF v
<1> DEFINE F == {k \in at .. last : v[k] # g[k]}
<1>5. F = {}
  <2> SUFFICES ASSUME F # {} PROVE FALSE
    OBVIOUS
  <2>0. F \subseteq Nat
    OBVIOUS
  <2> HIDE DEF F
  <2>1. PICK k \in F : \A j \in F : k <= j
    BY <2>0, SmallestOne
  <2>2. k \in at .. last /\ v[k] # g[k] /\ k \in Nat
    BY DEF F
  <2>3. /\ v[k] = v[k - 1] * Half + (input1[k] % Half) + (input1[k] \div Half)
        /\ g[k] = g[k - 1] * Half + (input1[k] % Half) + (input1[k] \div Half)
    <3>1. k \in (at - 1) .. last /\ ~(k < at)
      BY <2>2
    <3> QED
      BY <1>4, <3>1 DEF Decodes
  <2>4. v[k - 1] = g[k - 1]
    <3>1. CASE k = at
      <4>1. k - 1 \in (at - 1) .. last /\ k - 1 < at
        BY <1>0, <2>2, <3>1
      <4>2. v[k - 1] = 0 /\ g[k - 1] = 0
        BY <1>4, <4>1 DEF Decodes
      <4> QED
        BY <4>2
    <3>2. CASE k # at
      <4>1. k - 1 \in at .. last /\ k - 1 \notin F
        BY <1>0, <2>1, <2>2, <3>2
      <4> QED
        BY <4>1 DEF F
    <3> QED
      BY <3>1, <3>2
  <2> QED
    BY <2>2, <2>3, <2>4
<1>6. v[last] = g[last]
  <2>1. last \in at .. last
    BY <1>0
  <2> QED
    BY <1>5, <2>1
<1> QED
  BY <1>2, <1>3, <1>6

\* A byte without and with the high bit.
LEMMA SevenBits ==
  ASSUME NEW d \in Sevens
  PROVE  d % Half = d /\ d \div Half = 0 /\ (d + Half) % Half = d /\ (d + Half) \div Half = 1
<1>1. /\ d \in Nat /\ d < Half /\ Half \in Nat /\ 0 \in Nat /\ 1 \in Nat
      /\ d = 0 * Half + d
  BY SevensAre
<1>2. d \div Half = 0 /\ d % Half = d
  BY <1>1, DivIs
<1> DEFINE e == d + Half
<1>3. e \in Nat /\ e = 1 * Half + d
  BY <1>1
<1> HIDE DEF e
<1>4. e \div Half = 1 /\ e % Half = d
  BY <1>1, <1>3, DivIs
<1> QED
  BY <1>2, <1>4 DEF e

\* A number whose row of digits stands in the input, at place 2.
LEMMA RowReads ==
  ASSUME NEW n \in Nat, NEW row, Comes(row, n), NEW whole, Len(whole) \in Nat,
         \A k \in 1 .. Len(whole) : whole[k] \in Nat,
         Len(whole) > Len(row), \A k \in 1 .. Len(row) : whole[k + 1] = Flagged(row)[k]
  PROVE  DeserializeVarint(whole, 2) = Read(n, Len(row) + 2)
<1> DEFINE len == Len(row)
           last == len + 1
<1>1. row \in Seq(Sevens) /\ len # 0 /\ len \in Nat /\ \A k \in 1 .. len : row[k] \in Sevens
  BY DEF Comes
<1>2. PICK v : /\ v[0] = 0 /\ v[len] = n + 1
               /\ \A k \in 0 .. len : v[k] \in Nat
               /\ \A k \in 1 .. len : v[k] = v[k - 1] * Half + row[k] + 1
  BY DEF Comes
<1>3. /\ \A k \in 1 .. (len - 1) : whole[k + 1] = row[k] + Half
      /\ whole[last] = row[len]
  <2>1. /\ \A k \in 1 .. (len - 1) : Flagged(row)[k] = row[k] + Half
        /\ Flagged(row)[len] = row[len]
    BY <1>1, FlaggedIs
  <2>2. \A k \in 1 .. (len - 1) : k \in 1 .. len
    BY <1>1
  <2>3. len \in 1 .. len
    BY <1>1
  <2>4. whole[len + 1] = Flagged(row)[len]
    BY <2>3
  <2> QED
    BY <2>1, <2>2, <2>4
<1> HIDE DEF len
<1>4. Ends(whole, 2, last)
  <2>1. last \in 2 .. Len(whole)
    BY <1>1 DEF len
  <2>2. whole[last] < Half
    <3>1. len \in 1 .. len
      BY <1>1
    <3> QED
      BY <1>1, <1>3, <3>1, SevensAre
  <2>3. ASSUME NEW j \in 2 .. (last - 1) PROVE whole[j] >= Half
    <3> DEFINE k == j - 1
    <3>1. k \in 1 .. (len - 1) /\ k \in 1 .. len /\ j = k + 1
      BY <1>1
    <3> HIDE DEF k
    <3>2. whole[j] = row[k] + Half /\ row[k] \in Nat
      BY <1>1, <1>3, <3>1, SevensAre
    <3> QED
      BY <3>2, SevensAre
  <2> QED
    BY <2>1, <2>2, <2>3 DEF Ends
<1> DEFINE g == [k \in (2 - 1) .. last |-> IF k < last THEN v[k - 1] ELSE n]
<1>5. /\ g = [k \in (2 - 1) .. last |-> g[k]] /\ g[last] = n
      /\ \A k \in 1 .. len : g[k] = v[k - 1]
  BY <1>1
<1> HIDE DEF g
<1>6. ASSUME NEW k \in (2 - 1) .. last
      PROVE  g[k] = IF k < 2 THEN 0
                    ELSE g[k - 1] * Half + (whole[k] % Half) + (whole[k] \div Half)
  <2>1. CASE k < 2
    <3>1. k = 1 /\ 1 \in 1 .. len /\ 1 - 1 = 0
      BY <1>1, <2>1
    <3> QED
      BY <1>2, <1>5, <2>1, <3>1
  <2>2. CASE ~(k < 2)
    <3> DEFINE j == k - 1
    <3>1. j \in 1 .. len /\ k = j + 1 /\ j - 1 \in 0 .. len /\ j \in Nat
      BY <1>1, <2>2
    <3> HIDE DEF j
    <3>2. g[j] = v[j - 1] /\ row[j] \in Sevens /\ v[j] = v[j - 1] * Half + row[j] + 1
      BY <1>1, <1>2, <1>5, <3>1
    <3>3. v[j - 1] \in Nat /\ row[j] \in Nat /\ v[j - 1] * Half \in Nat
      BY <1>2, <3>1, <3>2, SevensAre
    <3>4. CASE j = len
      <4>1. whole[k] = row[j] /\ g[k] = n /\ v[j] = n + 1
        BY <1>2, <1>3, <1>5, <3>1, <3>4
      <4>2. whole[k] % Half = row[j] /\ whole[k] \div Half = 0
        BY <3>2, <4>1, SevenBits
      <4>3. n = v[j - 1] * Half + row[j] + 0
        BY <3>2, <3>3, <4>1
      <4>4. k - 1 = j
        BY <3>1
      <4> QED
        BY <2>2, <3>2, <4>1, <4>2, <4>3, <4>4
    <3>5. CASE j # len
      <4>1. j \in 1 .. (len - 1) /\ k \in 1 .. len /\ k - 1 = j
        BY <1>1, <3>1, <3>5
      <4>2. whole[k] = row[j] + Half /\ g[k] = v[j]
        BY <1>3, <1>5, <3>1, <4>1
      <4>3. whole[k] % Half = row[j] /\ whole[k] \div Half = 1
        BY <3>2, <4>2, SevenBits
      <4> QED
        BY <2>2, <3>2, <4>1, <4>2, <4>3
    <3> QED
      BY <3>4, <3>5
  <2> QED
    BY <2>1, <2>2
<1>7. Decodes(g, whole, 2, last)
  <2> DEFINE h == [k \in (2 - 1) .. last |->
                     IF k < 2 THEN 0
                     ELSE g[k - 1] * Half + (whole[k] % Half) + (whole[k] \div Half)]
  <2>1. g = h
    BY <1>5, <1>6
  <2> QED
    BY <2>1 DEF Decodes
<1> HIDE DEF last
<1>8. DeserializeVarint(whole, 2) = Read(g[last], last + 1)
  <2>1. 2 \in Nat /\ 2 # 0
    OBVIOUS
  <2> QED
    BY <1>4, <1>7, <2>1, DecodesTo
<1>9. last + 1 = Len(row) + 2
  BY <1>1 DEF last, len
<1> QED
  BY <1>5, <1>8, <1>9

\* What is written is read back, whatever is before and after it.
LEMMA VarintReads ==
  ASSUME NEW n \in Nat
  PROVE  Reads(DeserializeVarint, SerializeVarint(n), n)
<1>1. PICK d : (\A m \in Nat : d[m] = DigitsStep(m, d)) /\ (\A m : SerializeVarint(m) = Flagged(d[m]))
  BY VarintDigits
<1> DEFINE row == d[n]
           bytes == Flagged(row)
           before == <<Base - 1>>
           after == <<0, Base - 1>>
           fore == before \o bytes
           whole == fore \o after
<1>2. Comes(row, n)
  BY <1>1, DigitsCome
<1>3. SerializeVarint(n) = bytes
  BY <1>1
<1> HIDE DEF row
<1>4. bytes \in Seq(Nat) /\ Len(bytes) = Len(row) /\ Len(row) \in Nat /\ Len(row) # 0
  <2>1. row \in Seq(Sevens) /\ Len(row) # 0
    BY <1>2 DEF Comes
  <2>2. Len(row) \in Nat
    BY <2>1
  <2> QED
    BY <2>1, <2>2, FlaggedIs
<1> HIDE DEF bytes
<1>5. /\ before \in Seq(Nat) /\ Len(before) = 1 /\ after \in Seq(Nat) /\ Len(after) = 2
      /\ Within(bytes) = whole
  BY <1>4, WithinIs
<1> HIDE DEF before, after
<1>6. fore \in Seq(Nat) /\ Len(fore) = 1 + Len(bytes)
      /\ \A k \in 1 .. Len(bytes) : fore[1 + k] = bytes[k]
  <2>1. before \in Seq(Nat) /\ bytes \in Seq(Nat)
    BY <1>4, <1>5
  <2>2. /\ before \o bytes \in Seq(Nat) /\ Len(before \o bytes) = Len(before) + Len(bytes)
        /\ \A k \in 1 .. Len(bytes) : (before \o bytes)[Len(before) + k] = bytes[k]
    BY <2>1, ConcatIs
  <2> QED
    BY <1>5, <2>2
<1> HIDE DEF fore
<1>7. /\ whole \in Seq(Nat) /\ Len(whole) = Len(fore) + 2
      /\ \A k \in 1 .. Len(fore) : whole[k] = fore[k]
  <2>1. fore \in Seq(Nat) /\ after \in Seq(Nat)
    BY <1>5, <1>6
  <2>2. /\ fore \o after \in Seq(Nat) /\ Len(fore \o after) = Len(fore) + Len(after)
        /\ \A k \in 1 .. Len(fore) : (fore \o after)[k] = fore[k]
    BY <2>1, ConcatIs
  <2> QED
    BY <1>5, <2>2
<1> HIDE DEF whole
<1>8. /\ Len(whole) \in Nat /\ \A k \in 1 .. Len(whole) : whole[k] \in Nat
  BY <1>7
<1>9. Len(whole) > Len(row) /\ \A k \in 1 .. Len(row) : whole[k + 1] = bytes[k]
  <2>1. Len(whole) > Len(row)
    BY <1>4, <1>6, <1>7
  <2>2. ASSUME NEW k \in 1 .. Len(row) PROVE whole[k + 1] = bytes[k]
    <3>1. k + 1 \in 1 .. Len(fore) /\ k + 1 = 1 + k /\ k \in 1 .. Len(bytes)
      BY <1>4, <1>6
    <3> QED
      BY <1>6, <1>7, <3>1
  <2> QED
    BY <2>1, <2>2
<1>10. DeserializeVarint(whole, 2) = Read(n, Len(row) + 2)
  BY <1>2, <1>8, <1>9, RowReads DEF bytes
<1>11. Len(row) + 2 = 2 + Len(bytes)
  BY <1>4
<1>12. Reads(DeserializeVarint, bytes, n)
  BY <1>5, <1>10, <1>11 DEF Reads
<1> QED
  BY <1>3, <1>12

\* A row of one byte that is read is the one that is written.
LEMMA OneByteAgain ==
  ASSUME NEW b \in Nat, b < Half
  PROVE  SerializeVarint(DeserializeVarint(<<b>>, 1).value) = <<b>>
<1> DEFINE row == <<b>>
           g == [k \in (1 - 1) .. 1 |-> IF k < 1 THEN 0 ELSE b]
<1>1. Len(row) = 1 /\ row[1] = b /\ b \in Sevens
  BY SevensAre
<1>2. b % Half = b /\ b \div Half = 0
  BY <1>1, SevenBits
<1>a. Flagged(row) = row
  <2>1. row \in Seq(Sevens) /\ Len(row) # 0
    BY <1>1
  <2> HIDE DEF row
  <2>2. /\ Flagged(row) \in Seq(Nat) /\ Len(Flagged(row)) = Len(row)
        /\ Flagged(row)[Len(row)] = row[Len(row)]
    BY <2>1, FlaggedIs
  <2>3. \A k \in 1 .. Len(row) : Flagged(row)[k] = row[k]
    BY <1>1, <2>2
  <2>4. row \in Seq(Nat)
    BY <1>1 DEF row
  <2> QED
    BY <2>2, <2>3, <2>4, SameRow
<1> HIDE DEF row
<1>3. Ends(row, 1, 1)
  BY <1>1 DEF Ends
<1>4. g[0] = 0 /\ g[1] = b /\ g = [k \in (1 - 1) .. 1 |-> g[k]]
  OBVIOUS
<1> HIDE DEF g
<1>5. ASSUME NEW k \in (1 - 1) .. 1
      PROVE  g[k] = IF k < 1 THEN 0 ELSE g[k - 1] * Half + (row[k] % Half) + (row[k] \div Half)
  <2>1. k = 0 \/ k = 1
    OBVIOUS
  <2>2. CASE k = 0
    BY <1>4, <2>2
  <2>3. CASE k = 1
    <3>1. g[1] = g[1 - 1] * Half + (row[1] % Half) + (row[1] \div Half)
      BY <1>1, <1>2, <1>4, SevensAre
    <3> QED
      BY <2>3, <3>1
  <2> QED
    BY <2>1, <2>2, <2>3
<1>6. Decodes(g, row, 1, 1)
  <2> DEFINE h == [k \in (1 - 1) .. 1 |->
                     IF k < 1 THEN 0 ELSE g[k - 1] * Half + (row[k] % Half) + (row[k] \div Half)]
  <2>1. g = h
    BY <1>4, <1>5
  <2> QED
    BY <2>1 DEF Decodes
<1>7. DeserializeVarint(row, 1) = Read(b, 1 + 1)
  <2>1. Len(row) \in Nat /\ 1 \in Nat /\ 1 # 0 /\ \A k \in 1 .. Len(row) : row[k] \in Nat
    BY <1>1
  <2>2. DeserializeVarint(row, 1) = Read(g[1], 1 + 1)
    BY <1>3, <1>6, <2>1, DecodesTo
  <2> QED
    BY <1>4, <2>2
<1>8. DeserializeVarint(row, 1).value = b
  BY <1>7 DEF Read
<1>9. PICK d : (\A m \in Nat : d[m] = DigitsStep(m, d)) /\ (\A m : SerializeVarint(m) = Flagged(d[m]))
  BY VarintDigits
<1>10. d[b] = row
  BY <1>9 DEF DigitsStep, row
<1>11. SerializeVarint(b) = row
  BY <1>9, <1>10, <1>a
<1> QED
  BY <1>8, <1>11 DEF row

\* A row of one and one more is a row of two.
LEMMA AppendedToOne ==
  ASSUME NEW S, NEW p \in S, NEW q \in S
  PROVE  Append(<<p>>, q) = <<p, q>>
<1> DEFINE one == <<p>>
           two == <<p, q>>
           more == Append(one, q)
<1>1. one \in Seq(S) /\ Len(one) = 1 /\ one[1] = p
  OBVIOUS
<1>2. two \in Seq(S) /\ Len(two) = 2 /\ two[1] = p /\ two[2] = q
  OBVIOUS
<1> HIDE DEF one, two
<1>3. /\ more \in Seq(S) /\ Len(more) = Len(one) + 1
      /\ \A k \in 1 .. Len(one) : more[k] = one[k]
      /\ more[Len(one) + 1] = q
  BY <1>1, AppendIs
<1> HIDE DEF more
<1>4. more[1] = p /\ more[2] = q /\ Len(more) = 2
  BY <1>1, <1>3
<1>5. \A k \in 1 .. Len(more) : more[k] = two[k]
  BY <1>2, <1>4
<1>6. more = two
  BY <1>2, <1>3, <1>4, <1>5, SameRow
<1> QED
  BY <1>6 DEF more, one, two

\* And so is one of two bytes.
LEMMA TwoBytesAgain ==
  ASSUME NEW a \in Nat, a < Base, a >= Half, NEW b \in Nat, b < Half
  PROVE  SerializeVarint(DeserializeVarint(<<a, b>>, 1).value) = <<a, b>>
<1> DEFINE row == <<a, b>>
           x == a - Half
           n == (x + 1) * Half + b
           g == [k \in (1 - 1) .. 2 |-> IF k = 0 THEN 0 ELSE IF k = 1 THEN x + 1 ELSE n]
           digits == <<x, b>>
<1>1. Len(row) = 2 /\ row[1] = a /\ row[2] = b /\ b \in Sevens
  BY SevensAre
<1>2. x \in Nat /\ x < Half /\ x \in Sevens /\ a = x + Half
  <2>1. Base = 2 * Half
    BY BaseIs
  <2>2. x \in Nat /\ x < Half /\ a = x + Half
    BY <2>1, SevensAre
  <2> HIDE DEF x
  <2> QED
    BY <2>2, SevensAre
<1>3. digits \in Seq(Sevens) /\ Len(digits) = 2 /\ digits[1] = x /\ digits[2] = b
  BY <1>1, <1>2
<1>4. Append(<<x>>, b) = digits
  <2> HIDE DEF x
  <2>1. x \in Sevens /\ b \in Sevens
    BY <1>1, <1>2
  <2> QED
    BY <2>1, AppendedToOne
<1> HIDE DEF digits, row
<1> HIDE DEF x
<1>5. n \in Nat
  BY <1>2, SevensAre
<1>6. n \div Half = x + 1 /\ n % Half = b
  <2> DEFINE y == x + 1
  <2>1. y \in Nat /\ n = y * Half + b /\ Half \in Nat
    BY <1>2, SevensAre
  <2> HIDE DEF y, n
  <2>2. n \div Half = y /\ n % Half = b
    BY <1>5, <2>1, DivIs
  <2> QED
    BY <2>2 DEF y
<1>7. ~(n < Half) /\ Above(n) = x
  <2>1. (x + 1) * Half = x * Half + Half /\ x * Half \in Nat
    BY <1>2, SevensAre
  <2>2. ~(n < Half)
    BY <1>2, <2>1, SevensAre
  <2> HIDE DEF n
  <2>3. Above(n) = x
    BY <1>2, <1>6 DEF Above
  <2> QED
    BY <2>2, <2>3
<1>8. Flagged(digits) = row
  <2>1. Len(digits) # 0
    BY <1>3
  <2>2. /\ Flagged(digits) \in Seq(Nat) /\ Len(Flagged(digits)) = Len(digits)
        /\ \A k \in 1 .. (Len(digits) - 1) : Flagged(digits)[k] = digits[k] + Half
        /\ Flagged(digits)[Len(digits)] = digits[Len(digits)]
    BY <1>3, <2>1, FlaggedIs
  <2>3. Flagged(digits)[1] = a /\ Flagged(digits)[2] = b
    <3>1. 1 \in 1 .. (Len(digits) - 1)
      BY <1>3
    <3>2. Flagged(digits)[1] = digits[1] + Half
      BY <2>2, <3>1
    <3> QED
      BY <1>2, <1>3, <2>2, <3>2
  <2>4. \A k \in 1 .. 2 : Flagged(digits)[k] = row[k]
    <3>1. \A k \in 1 .. 2 : k = 1 \/ k = 2
      OBVIOUS
    <3> QED
      BY <1>1, <2>3, <3>1
  <2>5. row \in Seq(Nat)
    BY DEF row
  <2> QED
    BY <1>1, <1>3, <2>2, <2>4, <2>5, SameRow
<1>9. Ends(row, 1, 2)
  <2>1. \A j \in 1 .. (2 - 1) : j = 1
    OBVIOUS
  <2> QED
    BY <1>1, <2>1 DEF Ends
<1>10. g[0] = 0 /\ g[1] = x + 1 /\ g[2] = n /\ g = [k \in (1 - 1) .. 2 |-> g[k]]
  <2> HIDE DEF n
  <2> QED
    OBVIOUS
<1> HIDE DEF g
<1>11. ASSUME NEW k \in (1 - 1) .. 2
       PROVE  g[k] = IF k < 1 THEN 0 ELSE g[k - 1] * Half + (row[k] % Half) + (row[k] \div Half)
  <2>1. k = 0 \/ k = 1 \/ k = 2
    OBVIOUS
  <2>2. CASE k = 0
    BY <1>10, <2>2
  <2>3. CASE k = 1
    <3>1. a % Half = x /\ a \div Half = 1
      BY <1>2, SevenBits
    <3>2. g[1] = g[1 - 1] * Half + (row[1] % Half) + (row[1] \div Half)
      BY <1>1, <1>2, <1>10, <3>1, SevensAre
    <3> QED
      BY <2>3, <3>2
  <2>4. CASE k = 2
    <3>1. b % Half = b /\ b \div Half = 0
      BY <1>1, SevenBits
    <3>2. n = (x + 1) * Half + b + 0
      BY <1>2, SevensAre
    <3> HIDE DEF n
    <3>3. g[2] = g[2 - 1] * Half + (row[2] % Half) + (row[2] \div Half)
      BY <1>1, <1>10, <3>1, <3>2
    <3> QED
      BY <2>4, <3>3
  <2> QED
    BY <2>1, <2>2, <2>3, <2>4
<1>12. Decodes(g, row, 1, 2)
  <2> DEFINE h == [k \in (1 - 1) .. 2 |->
                     IF k < 1 THEN 0 ELSE g[k - 1] * Half + (row[k] % Half) + (row[k] \div Half)]
  <2>1. g = h
    BY <1>10, <1>11
  <2> QED
    BY <2>1 DEF Decodes
<1> HIDE DEF n
<1>13. DeserializeVarint(row, 1).value = n
  <2>1. Len(row) \in Nat /\ 1 \in Nat /\ 1 # 0 /\ \A k \in 1 .. Len(row) : row[k] \in Nat
    <3>1. \A k \in 1 .. 2 : k = 1 \/ k = 2
      OBVIOUS
    <3> QED
      BY <1>1, <3>1
  <2>2. DeserializeVarint(row, 1) = Read(g[2], 2 + 1)
    BY <1>9, <1>12, <2>1, DecodesTo
  <2> QED
    BY <1>10, <2>2 DEF Read
<1>14. PICK d : (\A m \in Nat : d[m] = DigitsStep(m, d)) /\ (\A m : SerializeVarint(m) = Flagged(d[m]))
  BY VarintDigits
<1>15. d[n] = digits
  <2>1. d[x] = <<x>>
    BY <1>2, <1>14 DEF DigitsStep
  <2>2. d[n] = Append(d[Above(n)], n % Half)
    BY <1>5, <1>7, <1>14 DEF DigitsStep
  <2> QED
    BY <1>4, <1>6, <1>7, <2>1, <2>2
<1>16. SerializeVarint(n) = row
  BY <1>8, <1>14, <1>15
<1> QED
  BY <1>13, <1>16 DEF row

LEMMA VarintsReadBack ==
  ASSUME NEW n \in Nat
  PROVE  VarintReadsBack(n)
<1> DEFINE a == (n \div Base) % Base
           b == n % Base
           rows == {<<b>>, <<a, b>>}
<1>1. a \in Nat /\ a < Base /\ b \in Nat
  <2> DEFINE q == n \div Base
  <2>1. Base \in Nat /\ Base # 0
    BY BaseIs
  <2>2. q \in Nat /\ b \in 0 .. (Base - 1)
    BY <2>1, DivMod
  <2> HIDE DEF q, b
  <2>3. q % Base \in 0 .. (Base - 1)
    BY <2>1, <2>2, DivMod
  <2> QED
    BY <2>1, <2>2, <2>3 DEF q
<1> HIDE DEF a, b
<1>2. ASSUME NEW row \in rows, row[Len(row)] < Half, Len(row) = 2 => row[1] >= Half
      PROVE  SerializeVarint(DeserializeVarint(row, 1).value) = row
  <2>1. CASE row = <<b>>
    <3>1. b < Half
      BY <1>2, <2>1
    <3> QED
      BY <1>1, <2>1, <3>1, OneByteAgain
  <2>2. CASE row = <<a, b>>
    <3>1. b < Half /\ a >= Half
      BY <1>2, <2>2
    <3> QED
      BY <1>1, <2>2, <3>1, TwoBytesAgain
  <2> QED
    BY <2>1, <2>2
<1>3. \A row \in {r \in rows : r[Len(r)] < Half /\ (Len(r) = 2 => r[1] >= Half)} :
        SerializeVarint(DeserializeVarint(row, 1).value) = row
  BY <1>2
<1> QED
  BY <1>3, VarintReads DEF VarintReadsBack, a, b

-----------------------------------------------------------------------------

NumberTaken == input.kind = "number" => input.value \in Numbers

LEMMA NumberTakenAlways == Spec => []NumberTaken
<1>1. Init => NumberTaken
  BY DEF Init, NumberTaken, Nothing
<1>2. ASSUME NumberTaken, [Next]_input PROVE NumberTaken'
  <2>1. CASE PutBack
    BY <2>1 DEF PutBack, NumberTaken, Nothing
  <2>2. CASE UNCHANGED input
    BY <1>2, <2>2 DEF NumberTaken
  <2>3. CASE TakeNumber
    BY <2>3 DEF TakeNumber, Takes, NumberTaken
  <2>4. CASE TakeMessage \/ TakeRow \/ TakeProgram \/ TakeOptions
    BY <2>4 DEF TakeMessage, TakeRow, TakeProgram, TakeOptions, Takes, NumberTaken
  <2>5. CASE TakeKey \/ TakePoint \/ TakeScript
    BY <2>5 DEF TakeKey, TakePoint, TakeScript, Takes, NumberTaken
  <2>6. CASE TakeCoin \/ TakeBlock \/ TakeTrace
    BY <2>6 DEF TakeCoin, TakeBlock, TakeTrace, Takes, NumberTaken
  <2> QED
    BY <1>2, <2>1, <2>2, <2>3, <2>4, <2>5, <2>6 DEF Next
<1> QED
  BY <1>1, <1>2, PTL DEF Spec

\* Every number of eight bytes reads back from each of its forms: in each width and
\* order of bytes that holds it, as a compact number, as a number of the chainstate
\* and in hexadecimal; and an amount of the chainstate from the one it is compressed to
\* (serialize.c, compactuint.c, camount.c, hex.c).
THEOREM NumbersRoundTrip == Spec => []NumbersReadBack
<1>1. ASSUME NumberTaken PROVE NumbersReadBack
  <2> SUFFICES ASSUME input.kind = "number" PROVE NumbersReadBack
    BY DEF NumbersReadBack
  <2> DEFINE n == input.value
  <2>1. n \in Nat /\ n \div Power(Base, 7) < Base
    BY <1>1, NumbersAssumption DEF NumberTaken
  <2> HIDE DEF n
  <2>2. n \div Power(Base, 8) = 0
    <3> DEFINE p == Power(Base, 7)
               q == n \div p
    <3>1. p \in Nat /\ p # 0
      BY BaseIs, PowerPositive
    <3> HIDE DEF p
    <3>2. q \in Nat
      BY <2>1, <3>1, DivMod
    <3>3. n \div Power(Base, 1 + 7) = q \div Power(Base, 1)
      BY <2>1, HighDigit DEF p
    <3>4. Power(Base, 1) = Base
      <4>1. Power(Base, 0) = 1 /\ Power(Base, 0 + 1) = Base * Power(Base, 0) /\ 0 + 1 = 1
        BY BaseIs, PowerIs
      <4> QED
        BY <4>1, BaseIs
    <3>5. q < Base
      BY <2>1 DEF p
    <3> HIDE DEF q
    <3>6. q \div Base = 0
      <4>1. q = 0 * Base + q /\ 0 \in Nat /\ Base \in Nat
        BY <3>2, BaseIs
      <4> QED
        BY <3>2, <3>5, <4>1, DivIs
    <3>7. 1 + 7 = 8
      OBVIOUS
    <3> QED
      BY <3>3, <3>4, <3>6, <3>7
  <2>3. UintReadsBack(n) /\ CompuintReadsBack(n)
    BY <2>1, <2>2, UintsReadBack, CompuintsReadBack
  <2>4. VarintReadsBack(n) /\ HexReadsBack(n)
    BY <2>1, VarintsReadBack, HexsReadBack
  <2>5. AmountReadsBack(n)
    BY <2>1, AmountsReadBack DEF AmountReadsBack
  <2> QED
    BY <2>3, <2>4, <2>5 DEF NumbersReadBack, n
<1> QED
  BY <1>1, NumberTakenAlways, PTL
=============================================================================
