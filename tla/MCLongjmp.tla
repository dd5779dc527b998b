----------------------------- MODULE MCLongjmp -----------------------------
(* The fixture of wasmpass_test.go (an owner, a runner with an indirect call,  *)
(* a function that jumps), three larger programs, and every program of two     *)
(* functions.                                                                  *)
EXTENDS Longjmp

CONSTANTS main, run, deep, leaf, lj

Graph(m, r, d, ind, own, al) ==
    [calls |-> [f \in Funcs |-> CASE f = main -> m [] f = run -> r [] f = deep -> d [] OTHER -> {}],
     indirect |-> ind, owners |-> own, alloc |-> al]

MCLarge == {
    Graph({lj}, {}, {lj}, {run}, {main}, {main, run}),
    Graph({run, leaf}, {lj}, {lj}, {deep}, {run}, {deep, leaf}),
    Graph({deep}, {lj}, {lj, leaf}, {leaf}, {run}, {main, deep}),
    Graph({lj}, {lj}, {leaf, lj}, {}, {main, run}, {run, deep})}

Two == {main, run}
MCPrograms == {g \in MCLarge \union
    {Graph(m, r, {}, ind, own, al) :
        m \in SUBSET {main, run, lj}, r \in SUBSET {main, run, lj},
        ind \in SUBSET Two, own \in SUBSET Two, al \in SUBSET Two} : Compiled(g)}
============================================================================
