------------------------------ MODULE MCDriver ------------------------------
(* Two users, two pools that have one DSN or two, one or two connections    *)
(* each: users are apart in some initial states and share in the others.    *)
EXTENDS Driver, TLC

Symmetry == Permutations(Users) \union Permutations(Pools) \union Permutations(Stmts)
                \union Permutations(Dsns)
============================================================================
