------------------------------- MODULE Points -------------------------------
(***************************************************************************)
(* Public keys: points of the curve y^2 = x^3 + 7 over the numbers modulo  *)
(* P (mods/point.c, mods/pubkey.c).  The code's P has 256 bits; here it is *)
(* a small prime that leaves 3 when divided by 4, as the code's does, with *)
(* a curve of a prime number of points.                                    *)
(***************************************************************************)
EXTENDS Integers, Sequences, FiniteSets

CONSTANTS
  P,          \* BITCOIN_PRIME
  Generator,  \* BITCOIN_GENERATOR_POINT: [x, y]
  KeyBits     \* PUBKEY_POINTS: the bits of a private key

Point(x, y) == [x |-> x, y |-> y]

\* mpz_invert leaves a number without an inverse as it is.
Inverse(a) ==
  IF a % P = 0 THEN a ELSE CHOOSE b \in 1 .. (P - 1) : (a * b) % P = 1

Square(x) == (x * x * x + 7) % P

PointVerify(a) == (a.y * a.y) % P = Square(a.x)

PointDouble(a) ==
  LET slope == (3 * a.x * a.x * Inverse(2 * a.y)) % P
      x == (slope * slope - 2 * a.x) % P
  IN  Point(x, (slope * (a.x - x) - a.y) % P)

PointAdd(a, b) ==
  LET slope == ((a.y - b.y) * Inverse(a.x - b.x)) % P
      x == (slope * slope - (a.x + b.x)) % P
  IN  Point(x, (slope * (a.x - x) - a.y) % P)

\* Mutant of RightParity: the flag is not looked at.
RightParityAny(y, flag) == TRUE

\* flag: 2 or 3, for an even or odd y
RightParity(y, flag) == y % 2 = flag % 2

\* point_solve_y: a root of the square, if it has one, by raising it to (P + 1) / 4.
PointSolveY(x, flag) ==
  LET power[k \in Nat] == IF k = 0 THEN 1 ELSE (power[k - 1] * Square(x)) % P
      y == power[(P + 1) \div 4]
  IN  IF RightParity(y, flag) THEN y ELSE (-y) % P

-----------------------------------------------------------------------------
(* pubkey.c.                                                               *)

BitSet(key, i) == (key \div 2 ^ i) % 2 = 1

Nowhere == Point(0, 0)   \* a point just initialised

\* Mutant of Sum: no look whether there is something to add to.
SumAlways(point, other) == PointAdd(point, other)

Sum(point, other) == IF point = Nowhere THEN other ELSE PointAdd(point, other)

\* pubkey_get: the doubles of the generator, and the sum of those whose bit is
\* set; {} is its error.
PubkeyGet(key) ==
  LET points[i \in 0 .. (KeyBits - 1)] ==
        IF i = 0 THEN Generator ELSE PointDouble(points[i - 1])
      sum[i \in 0 .. KeyBits] ==
        IF i = 0 THEN Nowhere
        ELSE IF BitSet(key, i - 1) THEN Sum(sum[i - 1], points[i - 1]) ELSE sum[i - 1]
  IN  IF key = 0 \/ \E i \in 0 .. (KeyBits - 1) : ~PointVerify(points[i]) THEN {}
      ELSE {sum[KeyBits]}

\* The bytes of a key: the flag, x, and y in the long form.
Short(point) == [flag |-> 2 + (point.y % 2), x |-> point.x]
Long(point)  == [flag |-> 4, x |-> point.x, y |-> point.y]

PubkeyCompress(key) == IF key.flag = 4 THEN Short(Point(key.x, key.y)) ELSE key

\* pubkey_uncompress; {} is its error.
PubkeyUncompress(key) ==
  IF key.flag = 4 THEN {key}
  ELSE LET point == Point(key.x, PointSolveY(key.x, key.flag))
       IN  IF PointVerify(point) THEN {Long(point)} ELSE {}

-----------------------------------------------------------------------------
(* What a public key ought to be: the generator added to itself.           *)

Infinity == Point(-1, -1)

Curve == {a \in [x : 0 .. (P - 1), y : 0 .. (P - 1)] : PointVerify(a)}

\* The group law.
Plus(a, b) ==
  CASE a = Infinity -> b
    [] b = Infinity -> a
    [] a # Infinity /\ b # Infinity /\ a.x = b.x /\ (a.y + b.y) % P = 0 -> Infinity
    [] a = b /\ a # Infinity /\ a.y # 0 -> PointDouble(a)
    [] OTHER -> PointAdd(a, b)

Multiple(k) ==
  LET multiple[j \in 0 .. k] == IF j = 0 THEN Infinity ELSE Plus(multiple[j - 1], Generator)
  IN  multiple[k]

\* The number of points, the one at infinity among them.
Order == 1 + Cardinality(Curve)
=============================================================================
