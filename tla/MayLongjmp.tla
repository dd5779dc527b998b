----------------------------- MODULE MayLongjmp ----------------------------
(***************************************************************************)
(* The part of internal/wasmpass that decides where a longjmp may pass:    *)
(* mayLongjmpSet collects the functions that can reach the import          *)
(* _emscripten_throw_longjmp, by a worklist over the callers of what it    *)
(* has, and Instrument puts a guard after every call of one of them and    *)
(* after every indirect call.                                              *)
(***************************************************************************)
EXTENDS Integers, FiniteSets

CONSTANTS
    Funcs,    \* the functions that the module defines
    Jumper,   \* emscripten_longjmp, the one that calls the import
    Table,    \* the functions in the table of indirect calls
    Programs  \* call graphs

\* A program has the direct calls of each function; the functions with an indirect
\* call, with calls through invoke_ imports, with frames on the shadow stack.
Graphs == [calls : [Funcs -> SUBSET Funcs], indirect : SUBSET Funcs,
           owners : SUBSET Funcs, alloc : SUBSET Funcs]

\* How the compiler translates setjmp and longjmp: a longjmp is a call of Jumper; a
\* function that calls setjmp makes all its calls through invoke_ imports, and calls
\* Jumper to pass on a longjmp that is not for it.
Compiled(g) ==
    /\ g.calls[Jumper] = {}
    /\ Jumper \notin g.owners \union g.indirect \union g.alloc
    /\ \A f \in g.owners : g.calls[f] = {Jumper} /\ f \notin g.indirect

ASSUME ProgramAssumption ==
    /\ IsFiniteSet(Funcs)
    /\ Jumper \in Funcs
    /\ Table \subseteq Funcs \ {Jumper}
    /\ Programs \subseteq Graphs
    /\ \A g \in Programs : Compiled(g)

VARIABLES
    prog,     \* the program that is compiled
    scanned,  \* the function bodies have been read
    set,      \* the functions found
    work      \* those whose callers have not been looked up

passVars == <<prog, scanned, set, work>>

PassTypeOK ==
    /\ prog \in Graphs /\ Compiled(prog)
    /\ scanned \in BOOLEAN
    /\ set \subseteq Funcs /\ work \subseteq set

PassInit ==
    /\ prog \in Programs
    /\ scanned = FALSE
    /\ set = {} /\ work = {}

Callers(f) == {g \in Funcs : f \in prog.calls[g]}

\* The loop without the test of ind.
ScanDirectCalls ==
    /\ ~scanned /\ scanned' = TRUE
    /\ set' = {Jumper}
    /\ work' = set'
    /\ UNCHANGED prog

\* The loop over the function bodies: calls of the import and indirect calls.
Scan ==
    /\ ~scanned /\ scanned' = TRUE
    /\ set' = {Jumper} \union prog.indirect
    /\ work' = set'
    /\ UNCHANGED prog

\* A round that does not go on from what it adds.
PropagateOneLevel(f) ==
    /\ f \in work
    /\ set' = set \union Callers(f)
    /\ work' = work \ {f}
    /\ UNCHANGED <<prog, scanned>>

\* One round of the worklist. It is a stack whose first content comes from a map in
\* any order; here any member may be next.
Propagate(f) ==
    /\ f \in work
    /\ set' = set \union Callers(f)
    /\ work' = (work \ {f}) \union (Callers(f) \ set)
    /\ UNCHANGED <<prog, scanned>>

PassNext == Scan \/ \E f \in Funcs : Propagate(f)

PassDone == scanned /\ work = {}

\* Where Instrument puts a guard: a site is a kind of call and its callee.
Guarded(site) ==
    \/ site.kind \in {"indirect", "seed"}
    \/ site.kind = "call" /\ site.to \in set

----------------------------------------------------------------------------

\* C contains whatever throws, or calls something in C or something unknown.
Covers(C) ==
    /\ Jumper \in C /\ prog.indirect \subseteq C
    /\ \A f \in C : Callers(f) \subseteq C

\* wasmpass: a guard "after every call that can transitively reach the longjmp throw
\* primitive".  When the worklist is empty the set covers, and no smaller one does.
SetIsLeastCover ==
    PassDone => Covers(set) /\ \A C \in SUBSET Funcs : Covers(C) => set \subseteq C
============================================================================
