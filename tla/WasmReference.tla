---------------------------- MODULE WasmReference ----------------------------
(***************************************************************************)
(* What WasmBinary and WasmPasses are compared with: the number format as  *)
(* WebAssembly defines it, modules as a compiler writes them, with numbers *)
(* padded to a fixed length, what the index space of globals and the       *)
(* segments of a module mean, and instruction lists.                       *)
(***************************************************************************)
EXTENDS WasmPasses

\* v in n groups of seven bits; more groups than v needs are padding.
Leb(v, n) == [i \in 1..n |-> ((v \div 128^(i - 1)) % 128) + (IF i < n THEN 128 ELSE 0)]
FitsU(v, n) == v < 128^n
FitsS(v, n) == -64 * 128^(n - 1) <= v /\ v < 64 * 128^(n - 1)

\* An unsigned number of Bits32, in any length it fits, is read back, and written in
\* the shortest of them.
UnsignedExact(v, n) ==
    FitsU(v, n) => /\ u32(Leb(v, n) \o <<1>>, 1) = At(v, n + 1)
                   /\ \E k \in 1..n : /\ putU32(v) = Leb(v, k)
                                      /\ \A j \in 1..(k - 1) : ~FitsU(v, j)
SignedExact(v, n) ==
    FitsS(v, n) => /\ s64(Leb(v, n) \o <<1>>, 1) = At(v, n + 1)
                   /\ \E k \in 1..n : /\ putS32(v) = Leb(v, k)
                                      /\ \A j \in 1..(k - 1) : ~FitsS(v, j)

----------------------------------------------------------------------------
(* A module as a compiler writes it: p is the length of its numbers, `custom` is   *)
(* the payload of a custom section in front and at the end.                        *)

PadCounted(s, p) == Leb(Len(s), p) \o s
PadVec(s, p) == Leb(Len(s), p) \o FlattenSeq(s)
PadSection(id, s, p) == <<id>> \o PadCounted(s, p)
PadLimits(l, p) ==
    <<(IF l.HasMax THEN 1 ELSE 0) + (IF l.Shared THEN 2 ELSE 0)>> \o Leb(l.Min, p)
        \o (IF l.HasMax THEN Leb(l.Max, p) ELSE <<>>)
PadImport(i, p) ==
    PadCounted(i.Module, p) \o PadCounted(i.Name, p) \o <<i.Kind>> \o
    (IF i.Kind = kFunc THEN Leb(i.Desc, p)
     ELSE IF i.Kind = kGlobal THEN <<i.Desc.GType, IF i.Desc.GMutable THEN 1 ELSE 0>>
     ELSE (IF i.Kind = kTable THEN <<i.Desc.Elem>> ELSE <<>>) \o PadLimits(i.Desc.Lim, p))
PadType(t, p) == <<\h60>> \o PadCounted(t.Params, p) \o PadCounted(t.Results, p)
PadExport(e, p) == PadCounted(e.Name, p) \o <<e.Kind>> \o Leb(e.Index, p)
PadElem(e, p) == Leb(0, p) \o e.Offset \o PadVec([i \in DOMAIN e.Funcs |-> Leb(e.Funcs[i], p)], p)
PadData(d, p) == Leb(0, p) \o d.Offset \o PadCounted(d.Data, p)
PadCode(c, p) ==
    PadCounted(PadVec([i \in DOMAIN c.Locals |-> Leb(c.Locals[i].Count, p) \o <<c.Locals[i].Type>>], p)
               \o c.Body, p)
Each(Pad(_, _), s, p) == PadVec([i \in DOMAIN s |-> Pad(s[i], p)], p)

Compiled(m, p, custom) ==
    <<0, 97, 115, 109, 1, 0, 0, 0>>
    \o PadSection(0, custom, p)
    \o PadSection(1, Each(PadType, m.Types, p), p)
    \o PadSection(2, Each(PadImport, m.Imports, p), p)
    \o PadSection(3, Each(Leb, m.Funcs, p), p)
    \o PadSection(6, Leb(m.GlobalN, p) \o m.Globals, p)
    \o PadSection(7, Each(PadExport, m.Exports, p), p)
    \o (IF m.hasStart THEN PadSection(8, Leb(0, p), p) ELSE <<>>)
    \o PadSection(9, Each(PadElem, m.Elems, p), p)
    \o (IF m.hasDataCnt THEN PadSection(12, Leb(Len(m.Datas), p), p) ELSE <<>>)
    \o PadSection(10, Each(PadCode, m.Codes, p), p)
    \o PadSection(11, Each(PadData, m.Datas, p), p)
    \o PadSection(0, custom, p)

\* The sections that are kept as they are.
Raw(m, p) ==
    [rawTypes |-> Each(PadType, m.Types, p), rawFunc |-> Each(Leb, m.Funcs, p),
     rawStart |-> IF m.hasStart THEN Leb(0, p) ELSE <<>>,
     rawDataCnt |-> IF m.hasDataCnt THEN Leb(Len(m.Datas), p) ELSE <<>>]

\* A compiled module is read as what it says, what Encode writes of it is read the
\* same, and TestRoundTripStable: writing it again changes nothing.
ReadAs(d, m, raw) ==
    /\ d.ok
    /\ d.module = [f \in DOMAIN m |-> IF f \in DOMAIN raw THEN raw[f] ELSE m[f]]
    /\ Decode(Encode(d.module)) = d
ReadExactly(m, p, custom) == ReadAs(Decode(Compiled(m, p, custom)), m, Raw(m, p))

----------------------------------------------------------------------------
(* What the globals, the memory, the table and the segments of a module are when   *)
(* it is instantiated with the values env of its imports.  An initial value may    *)
(* name any global before its own.                                                 *)

RECURSIVE OwnGlobals(_, _, _)
OwnGlobals(b, p, n) ==
    IF n = 0 THEN <<>>
    ELSE LET e == constExpr(b, p + 2)
         IN  <<[GType |-> b[p], GMutable |-> b[p + 1] = 1, Expr |-> e.v]>> \o OwnGlobals(b, e.p, n - 1)
Value(e, globals) ==
    IF e[1] = \h23 THEN globals[u32(e, 2).v + 1].Value ELSE <<e[1], s64(e, 2).v>>
Globals(m, env) ==
    LET in == [i \in DOMAIN GlobalImports(m) |->
                  LET g == GlobalImports(m)[i]
                  IN  [GType |-> g.Desc.GType, GMutable |-> g.Desc.GMutable, Value |-> <<\h41, env[g.Name]>>]]
        own == OwnGlobals(m.Globals, 1, m.GlobalN)
        Define(gs, g) == Append(gs, [GType |-> g.GType, GMutable |-> g.GMutable, Value |-> Value(g.Expr, gs)])
    IN  FoldLeft(Define, in, own)
Memory(m) ==
    IF m.NewMems # <<>> THEN readLimits(m.NewMems, 2).v ELSE m.Imports[LastOf(m, kMem)].Desc.Lim
Table(m) ==
    IF m.NewTables # <<>> THEN [Elem |-> m.NewTables[2], Lim |-> readLimits(m.NewTables, 3).v]
    ELSE m.Imports[LastOf(m, kTable)].Desc
Instantiated(m, env) ==
    LET gs == Globals(m, env)
    IN  [globals |-> gs, memory |-> Memory(m), table |-> Table(m), funcs |-> FuncImports(m),
         elems |-> [i \in DOMAIN m.Elems |-> <<Value(m.Elems[i].Offset, gs), m.Elems[i].Funcs>>],
         datas |-> [i \in DOMAIN m.Datas |-> <<Value(m.Datas[i].Offset, gs), m.Datas[i].Data>>]]

\* What Prelink relies on: no other global is imported behind a base global, and the
\* base that an offset names has the value 0.
Linkable(m) ==
    /\ LET gi == GlobalImports(m)
       IN  \A i, j \in DOMAIN gi : i < j /\ IsBase(gi[i]) => IsBase(gi[j])
    /\ \A s \in ToSet(m.Elems) \union ToSet(m.Datas) :
           s.Offset[1] = \h23 =>
               LET g == u32(s.Offset, 2).v + 1
               IN  g \in DOMAIN GlobalImports(m) /\ IsBase(GlobalImports(m)[g])
                   /\ BaseGlobals[GlobalImports(m)[g].Name] = 0

\* Every index of a global means the same before and after Transform, and the segments
\* land where they did, without an import of a memory, a table or a base global; of
\* the exports the roots are left.
LinkedInto(d, m, env) ==
    /\ Instantiated(d, env) = Instantiated(m, env)
    /\ \A i \in ToSet(d.Imports) : i.Kind \in {kFunc, kGlobal} /\ ~IsBase(i)
    /\ ToSet(d.Exports) = {e \in ToSet(m.Exports) : e.Name \in Roots}
LinkedSame(m, env) == Linkable(m) => LinkedInto(Decode(Encode(Transform(m))).module, m, env)

----------------------------------------------------------------------------
(* Bodies as lists of instructions                                                 *)

\* An instruction: its bytes, and what it calls or sets.
Plain(bytes) == [bytes |-> bytes, does |-> "nothing", index |-> 0]
Calls(k, p) == [bytes |-> <<\h10>> \o Leb(k, p), does |-> "call", index |-> k]
CallsIndirect(p) == [bytes |-> <<\h11>> \o Leb(0, p) \o Leb(0, p), does |-> "indirect", index |-> 0]
SetsGlobal(g, p) == [bytes |-> <<\h24>> \o Leb(g, p), does |-> "set", index |-> g]
Assembled(list) == FlattenSeq([i \in DOMAIN list |-> list[i].bytes])

\* The functions from which a chain of calls reaches the import seed, or an indirect
\* call; `lists` has the instructions of function nImp + i - 1 at i.
Jumping(lists, nImp, seed) ==
    LET All == {nImp + i - 1 : i \in DOMAIN lists}
        Does(f, x) == \E i \in ToSet(lists[f - nImp + 1]) :
                         i.does = "indirect" \/ (i.does = "call" /\ i.index \in x \union {seed})
        Closed == {x \in SUBSET All : \A f \in All : Does(f, x) => f \in x}
    IN  {f \in All : \A x \in Closed : f \in x}

\* The guard of a function with these results, that saves sp in `local` if it saves it.
GuardOf(results, saves, local, sp) ==
    LET zero == [t \in {\h7f, \h7e, \h7d, \h7c} |->
                   CASE t = \h7f -> <<\h41>> \o Leb(0, 1) [] t = \h7e -> <<\h42>> \o Leb(0, 1)
                     [] t = \h7d -> <<\h43>> \o [i \in 1..4 |-> 0] [] t = \h7c -> <<\h44>> \o [i \in 1..8 |-> 0]]
        address == CHOOSE b \in {Leb(ThrewAddr, n) : n \in {k \in 1..4 : FitsS(ThrewAddr, k)}} :
                       \A n \in 1..4 : FitsS(ThrewAddr, n) => Len(b) <= n
    IN  <<\h41>> \o address \o <<\h28, 2, 0, \h04, \h40>>
        \o (IF saves THEN <<\h20, local, \h24, sp>> ELSE <<>>)
        \o FlattenSeq([i \in DOMAIN results |-> zero[results[i]]]) \o <<\h0f, \h0b>>

RECURSIVE LocalTypes(_)
LocalTypes(ls) == IF ls = <<>> THEN <<>> ELSE [i \in 1..Head(ls).Count |-> Head(ls).Type] \o LocalTypes(Tail(ls))

\* The module m, whose bodies are `lists`, after Instrument: each instruction is where
\* it was and behind each call that a longjmp may leave stands the guard; a function
\* that moves the stack pointer first saves it in a local that it did not have, of
\* type i32, and has its other locals unchanged.
GuardedAs(m, after, lists, sp) ==
    LET jumping == Jumping(lists, Len(FuncImports(m)), Seed(m))
    IN  \A f \in DOMAIN lists :
            LET list == lists[f]
                type == m.Types[m.Funcs[f] + 1]
                Leaves(i) == i.does = "indirect" \/ (i.does = "call" /\ i.index \in jumping \union {Seed(m)})
                guarded == \E i \in ToSet(list) : Leaves(i)
                saves == guarded /\ \E i \in ToSet(list) : i.does = "set" /\ i.index = sp
                before == LocalTypes(m.Codes[f].Locals)
                local == Len(type.Params) + Len(before)
                guard == GuardOf(type.Results, saves, local, sp)
            IN  /\ after.Codes[f].Body =
                     (IF saves THEN <<\h23, sp, \h21, local>> ELSE <<>>)
                     \o FlattenSeq([i \in DOMAIN list |-> list[i].bytes \o (IF Leaves(list[i]) THEN guard ELSE <<>>)])
                /\ LocalTypes(after.Codes[f].Locals) = before \o (IF saves THEN <<\h7f>> ELSE <<>>)
GuardedExactly(m, lists, sp) == GuardedAs(m, Instrument(m), lists, sp)
=============================================================================
