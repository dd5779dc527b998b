--------------------------- MODULE MCInitdbBridge ---------------------------
(* Three calls of popen or system, one after the other or overlapping.      *)
EXTENDS InitdbBridge, TLC

MCCodes == {-1, 0, 1}
\* Calls are interchangeable.
Symmetry == Permutations(Calls)
============================================================================
