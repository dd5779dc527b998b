----------------------------- MODULE WasmPasses -----------------------------
(***************************************************************************)
(* internal/wasmpass: the three rewritings of a module, on its bytes.      *)
(* StripExports keeps the roots, Prelink turns the imported memory, table  *)
(* and base globals into definitions of the module, and Instrument puts a  *)
(* guard after every call that a longjmp may leave.  Indices of functions, *)
(* globals and locals count from 0, as in the module.                      *)
(***************************************************************************)
EXTENDS WasmBinary, FiniteSets

CONSTANTS
    Roots,         \* names of the exports that stay
    BaseGlobals,   \* function from the names of base globals to their values
    SeedImport,    \* name of the import that throws a longjmp
    StackPointer,  \* name of the global __stack_pointer
    ThrewAddr      \* address of __THREW__

\* The list of exports alone decides; what functions refer to stays.
StripExports(m) == [m EXCEPT !.Exports = SelectSeq(@, LAMBDA e : e.Name \in Roots)]

----------------------------------------------------------------------------
(* Prelink *)

GlobalImports(m) == SelectSeq(m.Imports, LAMBDA i : i.Kind = kGlobal)
globalIndexOfImport(m, name) ==
    LET i == SelectInSeq(GlobalImports(m), LAMBDA g : g.Name = name) IN i - 1

IsBase(i) == i.Kind = kGlobal /\ i.Name \in DOMAIN BaseGlobals
Stays(i) == i.Kind = kFunc \/ (i.Kind = kGlobal /\ ~IsBase(i))
\* The last of the imports of a kind, if any.
LastOf(m, kind) == SelectLastInSeq(m.Imports, LAMBDA i : i.Kind = kind)

Internalized(i) ==
    <<i.Desc.GType, Flag(i.Desc.GMutable), \h41>> \o putS32(BaseGlobals[i.Name]) \o <<\h0b>>

foldOffset(e) == IF e[1] = \h23 THEN <<\h41>> \o putS32(0) \o <<\h0b>> ELSE e

\* The new globals behind the module's own, ...
JoinGlobalsBehind(new, own) == own \o new
\* ... and in front of them.
JoinGlobals(new, own) == new \o own

Prelink(m) ==
    LET new == SelectSeq(m.Imports, IsBase)
        mem == LastOf(m, kMem)
        table == LastOf(m, kTable)
        Fold(s) == [s EXCEPT !.Offset = foldOffset(@)]
    IN  [m EXCEPT !.Imports = SelectSeq(@, Stays),
                  !.NewMems = IF mem = 0 THEN @ ELSE putU32(1) \o encodeLimits(m.Imports[mem].Desc.Lim),
                  !.NewTables = IF table = 0 THEN @
                                ELSE putU32(1) \o <<m.Imports[table].Desc.Elem>>
                                       \o encodeLimits(m.Imports[table].Desc.Lim),
                  !.Globals = JoinGlobals(FlattenSeq([i \in DOMAIN new |-> Internalized(new[i])]), @),
                  !.GlobalN = @ + Len(new),
                  !.Elems = [i \in DOMAIN @ |-> Fold(@[i])],
                  !.Datas = [i \in DOMAIN @ |-> Fold(@[i])]]

----------------------------------------------------------------------------
(* The instructions of a body *)

RECURSIVE AfterU32s(_, _, _)
AfterU32s(b, p, n) == IF n = 0 THEN p ELSE AfterU32s(b, u32(b, p).p, n - 1)

OneIndex == {\h0c, \h0d, \h10, \hd2} \union \h20..\h26
\* The end of the operands of 0xfc and a sub-opcode.
AfterMisc(b, sub) ==
    CASE sub.v \in 0..7 -> sub.p
      [] sub.v = 8 -> u32(b, sub.p).p + 1
      [] sub.v \in {9, 13, 15, 16, 17} -> u32(b, sub.p).p
      [] sub.v = 10 -> sub.p + 2
      [] sub.v = 11 -> sub.p + 1
      [] sub.v \in {12, 14} -> AfterU32s(b, sub.p, 2)
\* walkInstr's position: where the instruction at p ends.
NextInstr(b, p) ==
    LET op == b[p]
        q == p + 1
    IN  CASE op \in {\h02, \h03, \h04, \h41, \h42} -> s64(b, q).p
          [] op \in OneIndex -> u32(b, q).p
          [] op = \h0e -> LET n == u32(b, q) IN AfterU32s(b, n.p, n.v + 1)
          [] op \in {\h11} \union \h28..\h3e -> AfterU32s(b, q, 2)
          [] op = \h1c -> LET n == u32(b, q) IN n.p + n.v
          [] op \in {\h3f, \h40, \hd0} -> q + 1
          [] op = \h43 -> q + 4
          [] op = \h44 -> q + 8
          [] op = \hfc -> AfterMisc(b, u32(b, q))
          [] op \in {\h00, \h01, \h05, \h0b, \h0f, \h1a, \h1b, \hd1} \union \h45..\hc4 -> q

RECURSIVE Starts(_, _)
\* The positions where the instructions of a body start.
Starts(b, p) == IF p > Len(b) THEN <<>> ELSE <<p>> \o Starts(b, NextInstr(b, p))

Target(b, p) == u32(b, p + 1).v
CallsAt(b, at) ==
    [calls |-> {Target(b, p) : p \in {x \in at : b[x] = \h10}}, indirect |-> \E p \in at : b[p] = \h11]
funcCalls(b) == CallsAt(b, ToSet(Starts(b, 1)))

bodyWritesGlobal(b, g) == \E p \in ToSet(Starts(b, 1)) : b[p] = \h24 /\ Target(b, p) = g

----------------------------------------------------------------------------
(* Instrument *)

FuncImports(m) == SelectSeq(m.Imports, LAMBDA i : i.Kind = kFunc)
numImportFuncs(m) == Len(FuncImports(m))
Seed(m) == SelectLastInSeq(FuncImports(m), LAMBDA i : i.Name = SeedImport) - 1

\* The functions of the module, by index, that call one of a set.
CallersOf(m, set) ==
    {numImportFuncs(m) + i - 1 : i \in {j \in DOMAIN m.Codes : funcCalls(m.Codes[j].Body).calls \cap set # {}}}
RECURSIVE WithCallers(_, _)
WithCallers(m, set) ==
    IF CallersOf(m, set) \subseteq set THEN set ELSE WithCallers(m, set \union CallersOf(m, set))
\* Only the functions that call the import themselves, or call indirectly.
mayLongjmpDirect(m) ==
    CallersOf(m, {Seed(m)}) \union
    {numImportFuncs(m) + i - 1 : i \in {j \in DOMAIN m.Codes : funcCalls(m.Codes[j].Body).indirect}}
mayLongjmpSet(m) ==
    WithCallers(m, CallersOf(m, {Seed(m)}) \union
                   {numImportFuncs(m) + i - 1 : i \in {j \in DOMAIN m.Codes : funcCalls(m.Codes[j].Body).indirect}})

zeroConst(vt) ==
    CASE vt = \h7f -> <<\h41, 0>>
      [] vt = \h7e -> <<\h42, 0>>
      [] vt = \h7d -> <<\h43, 0, 0, 0, 0>>
      [] vt = \h7c -> <<\h44, 0, 0, 0, 0, 0, 0, 0, 0>>

buildGuard(results, writesSP, local, sp) ==
    <<\h41>> \o putS32(ThrewAddr) \o <<\h28>> \o putU32(2) \o putU32(0) \o <<\h04, \h40>>
    \o (IF writesSP THEN <<\h20>> \o putU32(local) \o <<\h24>> \o putU32(sp) ELSE <<>>)
    \o FlattenSeq([i \in DOMAIN results |-> zeroConst(results[i])])
    \o <<\h0f, \h0b>>

\* The index and the locals with one more of type vt.
addLocal(params, locals, vt) ==
    [index |-> params + FoldLeft(LAMBDA n, l : n + l.Count, 0, locals),
     locals |-> IF locals # <<>> /\ Last(locals).Type = vt
                THEN [locals EXCEPT ![Len(locals)].Count = @ + 1]
                ELSE Append(locals, [Count |-> 1, Type |-> vt])]

\* The code with a guard behind each of its instructions at `guarded`.
GuardedCode(code, type, sp, guarded, writesSP) ==
    LET b == code.Body
        starts == Starts(b, 1)
        save == addLocal(Len(type.Params), code.Locals, \h7f)
        guard == buildGuard(type.Results, writesSP, save.index, sp)
        Out(p) == SubSeq(b, p, NextInstr(b, p) - 1) \o (IF p \in guarded THEN guard ELSE <<>>)
    IN  [Locals |-> IF writesSP THEN save.locals ELSE code.Locals,
         Body |-> (IF writesSP THEN <<\h23>> \o putU32(sp) \o <<\h21>> \o putU32(save.index) ELSE <<>>)
                  \o FlattenSeq([k \in DOMAIN starts |-> Out(starts[k])])]
InstrumentCode(m, i, set) ==
    LET b == m.Codes[i].Body
        sp == globalIndexOfImport(m, StackPointer)
        guarded == {p \in ToSet(Starts(b, 1)) : b[p] = \h11 \/ (b[p] = \h10 /\ Target(b, p) \in set)}
    IN  IF guarded = {} THEN m.Codes[i]
        ELSE GuardedCode(m.Codes[i], m.Types[m.Funcs[i] + 1], sp, guarded, bodyWritesGlobal(b, sp))

\* Instrument and Prelink in the order of Transform: the stack pointer is looked up
\* among the imports before Prelink, and named by that index after it.
Instrument(m) ==
    [m EXCEPT !.Codes = [i \in DOMAIN @ |-> InstrumentCode(m, i, mayLongjmpSet(m) \union {Seed(m)})]]
Transform(m) == LET s == StripExports(m) IN [Prelink(s) EXCEPT !.Codes = Instrument(s).Codes]
=============================================================================
