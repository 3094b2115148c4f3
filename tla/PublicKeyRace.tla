---------------------------- MODULE PublicKeyRace ----------------------------
(***************************************************************************)
(* Workers of the vanity search that compute public keys at the same time  *)
(* (thread_worker of mods/gd_vanity.c, pubkey_get of mods/pubkey.c).       *)
(*                                                                         *)
(* point_double, point_add and point_verify keep what they compute in      *)
(* static big numbers, which all threads share without a lock.  A step is  *)
(* a call of a function on big numbers, or two or three of them that work  *)
(* on the same one.                                                        *)
(***************************************************************************)
EXTENDS Points

CONSTANTS Workers, Keys

VARIABLES
  pc,       \* the line a worker is at
  key,      \* its private key
  points,   \* the doubles of the generator it has made
  i,        \* the bit it is at
  point,    \* the sum so far
  doubling, \* the static numbers of point_double: tempx, tempy, slope
  adding,   \* those of point_add
  checking  \* those of point_verify

vars == <<pc, key, points, i, point, doubling, adding, checking>>

Numbers == [x |-> 0, y |-> 0, slope |-> 0, sumx |-> 0, sumy |-> 0]

Init ==
  /\ pc = [w \in Workers |-> "double"]
  /\ key \in [Workers -> Keys]
  /\ points = [w \in Workers |-> [b \in 0 .. (KeyBits - 1) |->
                                    IF b = 0 THEN Generator ELSE Nowhere]]
  /\ i = [w \in Workers |-> 1]
  /\ point = [w \in Workers |-> Nowhere]
  /\ doubling = Numbers /\ adding = Numbers /\ checking = Numbers

Goto(w, from, to) == pc[w] = from /\ pc' = [pc EXCEPT ![w] = to]

-----------------------------------------------------------------------------
(* point_double(points[i], points[i - 1])                                  *)

Source(w) == points[w][i[w] - 1]

Doubles(w, from, to, numbers) ==
  /\ Goto(w, from, to)
  /\ doubling' = numbers
  /\ UNCHANGED <<key, points, i, point, adding, checking>>

StoresDouble(w, from, to, result) ==
  /\ Goto(w, from, to)
  /\ points' = [points EXCEPT ![w][i[w]] = result]
  /\ UNCHANGED <<key, i, point, doubling, adding, checking>>

Double(w) ==
  LET a == Source(w)
      d == doubling
      result == points[w][i[w]]
  IN  \/ i[w] < KeyBits /\ Doubles(w, "double", "double2", [d EXCEPT !.x = 3 * a.x * a.x])
      \/ Doubles(w, "double2", "double3", [d EXCEPT !.y = Inverse(2 * a.y)])
      \/ Doubles(w, "double3", "double4", [d EXCEPT !.slope = (d.x * d.y) % P])
      \/ Doubles(w, "double4", "double5", [d EXCEPT !.x = 2 * a.x])
      \/ StoresDouble(w, "double5", "double6", [result EXCEPT !.x = (d.slope * d.slope - d.x) % P])
      \/ Doubles(w, "double6", "double7", [d EXCEPT !.x = a.x - result.x])
      \/ Doubles(w, "double7", "double8", [d EXCEPT !.x = d.slope * d.x])
      \/ StoresDouble(w, "double8", "check", [result EXCEPT !.y = (d.x - a.y) % P])

-----------------------------------------------------------------------------
(* point_verify(points[i])                                                 *)

Checks(w, from, to, numbers) ==
  /\ Goto(w, from, to)
  /\ checking' = numbers
  /\ UNCHANGED <<key, points, i, point, doubling, adding>>

\* The doubles are checked as they are made; then each again, not the sum,
\* when it was added.
Verify(w, from, step2, step3, good, bad) ==
  LET a == points[w][i[w]]
      c == checking
  IN  \/ Checks(w, from, step2, [c EXCEPT !.x = a.x * a.x * a.x + 7])
      \/ Checks(w, step2, step3, [c EXCEPT !.y = a.y * a.y])
      \/ /\ pc[w] = step3
         /\ pc' = [pc EXCEPT ![w] = IF (c.x - c.y) % P = 0 THEN good ELSE bad]
         /\ i' = [i EXCEPT ![w] = @ + 1]
         /\ UNCHANGED <<key, points, point, doubling, adding, checking>>

EndDoubles(w) ==
  /\ i[w] = KeyBits
  /\ Goto(w, "double", "bit")
  /\ i' = [i EXCEPT ![w] = 0]
  /\ UNCHANGED <<key, points, point, doubling, adding, checking>>

-----------------------------------------------------------------------------
(* The bits of the key, and point_add(point, point, points[i])             *)

NextBit(w) ==
  /\ pc[w] = "bit"
  /\ IF i[w] = KeyBits
       THEN pc' = [pc EXCEPT ![w] = "done"] /\ UNCHANGED <<i, point>>
       ELSE IF ~BitSet(key[w], i[w])
         THEN i' = [i EXCEPT ![w] = @ + 1] /\ UNCHANGED <<pc, point>>
       ELSE IF point[w] = Nowhere
         THEN /\ point' = [point EXCEPT ![w] = points[w][i[w]]]
              /\ pc' = [pc EXCEPT ![w] = "recheck"]
              /\ UNCHANGED i
       ELSE pc' = [pc EXCEPT ![w] = "add"] /\ UNCHANGED <<i, point>>
  /\ UNCHANGED <<key, points, doubling, adding, checking>>

Adds(w, from, to, numbers) ==
  /\ Goto(w, from, to)
  /\ adding' = numbers
  /\ UNCHANGED <<key, points, i, point, doubling, checking>>

Add(w) ==
  LET a == point[w]
      b == points[w][i[w]]
      s == adding
  IN  \/ Adds(w, "add", "add2", [s EXCEPT !.x = a.x - b.x])
      \/ Adds(w, "add2", "add3", [s EXCEPT !.y = a.y - b.y])
      \/ Adds(w, "add3", "add4", [s EXCEPT !.x = Inverse(s.x)])
      \/ Adds(w, "add4", "add5", [s EXCEPT !.slope = (s.y * s.x) % P])
      \/ Adds(w, "add5", "add6", [s EXCEPT !.y = s.slope * s.slope])
      \/ Adds(w, "add6", "add7", [s EXCEPT !.x = a.x + b.x])
      \/ Adds(w, "add7", "add8", [s EXCEPT !.sumx = (s.y - s.x) % P])
      \/ Adds(w, "add8", "add9", [s EXCEPT !.x = a.x - s.sumx])
      \/ Adds(w, "add9", "add10", [s EXCEPT !.x = s.slope * s.x])
      \/ Adds(w, "add10", "add11", [s EXCEPT !.sumy = (s.x - a.y) % P])
      \/ /\ Goto(w, "add11", "recheck")
         /\ point' = [point EXCEPT ![w] = Point(s.sumx, s.sumy)]
         /\ UNCHANGED <<key, points, i, doubling, adding, checking>>

Next == \E w \in Workers :
  \/ Double(w) \/ EndDoubles(w) \/ NextBit(w) \/ Add(w)
  \/ Verify(w, "check", "check2", "check3", "double", "failed")
  \/ Verify(w, "recheck", "recheck2", "recheck3", "bit", "failed")

Spec == Init /\ [][Next]_vars

(***************************************************************************)
(* A worker that is told its public key has the one of its private key,    *)
(* whatever the other workers do at the same time: the search works in     *)
(* threads that are said not to share state (trd.md lines 50-51, 100;      *)
(* point.c lines 41-182, pubkey.c lines 88-117).                           *)
(***************************************************************************)
KeysBelong == \A w \in Workers : pc[w] = "done" => point[w] = Multiple(key[w])
=============================================================================
