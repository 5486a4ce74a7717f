----------------------------- MODULE MCCacheL2 -----------------------------
(* Instances of CacheL2 for TLC. *)
EXTENDS CacheL2

Zero == {[o \in Lane |-> 0]}

(* A byte access to a safe lane and a two byte access to the first lanes. *)
TwoPieces == {{2}, {0, 1}}
OnePiece == {{2}}
=============================================================================
