----------------------------- MODULE MCOverlay -----------------------------
(* A lower layer with a directory of one file, and names above it for a     *)
(* directory to make and to move things into.                               *)
EXTENDS Overlay, TLC

CONSTANTS v1, none, lowerBytes, f1, f2

d == <<"d">>
df == <<"d", "f">>
e == <<"e">>
ef == <<"e", "f">>
MCPaths == {d, df, e, ef}
MCLower == d :> Dir @@ df :> File(11)
MCFds == {f1, f2}
FdSymmetry == Permutations(MCFds)
MCLowerData == 11 :> lowerBytes
============================================================================
