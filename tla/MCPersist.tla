----------------------------- MODULE MCPersist -----------------------------
(* A small data directory in the order saveNode sorts it: a marker file, a  *)
(* directory that is empty until the backend makes a heap file in it, and   *)
(* the control file.                                                        *)
EXTENDS Persist, TLC

CONSTANTS root, PG_VERSION, base, heap, control

MCPaths == {PG_VERSION, base, heap, control}
MCParent == (heap :> base) @@ [p \in {PG_VERSION, base, control} |-> root]
MCRank == root :> 0 @@ PG_VERSION :> 1 @@ base :> 2 @@ heap :> 3 @@ control :> 4
MCDirs == {base}
MCEssential == {PG_VERSION, control}
MCInitial == {PG_VERSION, base, control}
\* Processes are interchangeable.
Symmetry == Permutations(Dbs)
============================================================================
