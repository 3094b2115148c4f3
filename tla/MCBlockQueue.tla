---------------------------- MODULE MCBlockQueue ----------------------------
(***************************************************************************)
(* Instances of BlockQueue for TLC: a run over a few new blocks with a     *)
(* small cap, and malloc'ed memory that is zero, looks READY, or holds     *)
(* some other word.                                                        *)
(***************************************************************************)
EXTENDS BlockQueue

ZeroedMemory == {EMPTY}
AnyMemory    == {EMPTY, READY, FINAL + 1}
=============================================================================
