--------------------------- MODULE MCPublicKeyRace ---------------------------
(***************************************************************************)
(* Two workers with keys of two bits on a curve of 31 points; both bits    *)
(* are set in one of the keys, so that each worker doubles once and adds   *)
(* at most once.                                                           *)
(***************************************************************************)
EXTENDS PublicKeyRace

MCGenerator == Point(2, 12)
=============================================================================
