----------------------------- MODULE WasmBinary -----------------------------
(***************************************************************************)
(* internal/wasmpass/wasm.go: reading and writing WebAssembly modules.     *)
(* Bytes are numbers and positions start at 1.  The two widths of the code *)
(* are parameters, 32 and 64 there: what does not fit is lost, as it is    *)
(* there.  Reading beyond the end, and segments with a flag other than 0,  *)
(* panic in the code and are outside of the domains of these operators.    *)
(***************************************************************************)
EXTENDS Integers, Sequences, SequencesExt

CONSTANTS
    Bits32,  \* width of uint32
    Bits64   \* width of uint64 and int64

ASSUME WidthAssumption == Bits32 \in 1..31 /\ Bits64 \in 1..31

\* What a reader gives: the value, and where the cursor is left.
At(v, p) == [v |-> v, p |-> p]

kFunc == 0
kTable == 1
kMem == 2
kGlobal == 3

----------------------------------------------------------------------------
(* LEB128 *)

RECURSIVE Groups(_, _)
\* The groups of seven bits that start at p.
Groups(b, p) == <<b[p] % 128>> \o (IF b[p] < 128 THEN <<>> ELSE Groups(b, p + 1))

\* Joined, the least significant first; what the width does not hold is lost.
Joined(g, w) ==
    FoldLeftDomain(LAMBDA r, i : (r + (IF 7 * (i - 1) >= w THEN 0 ELSE g[i] * 2^(7 * (i - 1)))) % 2^w, 0, g)

Number(g, w, p) == At(Joined(g, w), p + Len(g))
u32(b, p) == Number(Groups(b, p), Bits32, p)
u64(b, p) == Number(Groups(b, p), Bits64, p)

\* A signed number without and with the extension of its sign.
s64Unextended(b, p) ==
    LET g == Groups(b, p)
        r == Joined(g, Bits64)
    IN  At(IF r >= 2^(Bits64 - 1) THEN r - 2^Bits64 ELSE r, p + Len(g))
s64(b, p) ==
    LET g == Groups(b, p)
        r == Joined(g, Bits64)
        s == 7 * Len(g)
    IN  At(IF s < Bits64 /\ g[Len(g)] >= 64 THEN r - 2^s
           ELSE IF r >= 2^(Bits64 - 1) THEN r - 2^Bits64 ELSE r, p + Len(g))

RECURSIVE putU32(_)
putU32(v) == IF v < 128 THEN <<v>> ELSE <<128 + (v % 128)>> \o putU32(v \div 128)

RECURSIVE putS32(_)
putS32(v) ==
    LET x == v % 128
        rest == v \div 128
    IN  IF (rest = 0 /\ x < 64) \/ (rest = -1 /\ x >= 64) THEN <<x>> ELSE <<128 + x>> \o putS32(rest)

----------------------------------------------------------------------------
(* Reading a module *)

Bytes(b, p, n) == At(SubSeq(b, p, p + n - 1), p + n)
\* A number n and then n bytes: a name, a list of value types, a section.
Counted(b, p) == LET n == u32(b, p) IN Bytes(b, n.p, n.v)
\* A number n and then n items, each read by Item.
Vec(Item(_, _), b, p) ==
    LET n == u32(b, p)
        Step(r, i) == LET x == Item(b, r.p) IN At(Append(r.v, x.v), x.p)
    IN  FoldLeft(Step, At(<<>>, n.p), [i \in 1..n.v |-> i])

ReadType(b, p) ==
    LET params == Counted(b, p + 1)
        results == Counted(b, params.p)
    IN  At([Params |-> params.v, Results |-> results.v], results.p)

ReadMax(b, flag, min) ==
    LET max == IF flag \in {1, 3} THEN u32(b, min.p) ELSE At(0, min.p)
    IN  At([Min |-> min.v, Max |-> max.v, HasMax |-> flag \in {1, 3}, Shared |-> flag \in {2, 3}], max.p)
readLimits(b, p) == ReadMax(b, b[p], u32(b, p + 1))

ReadDesc(b, kind, p) ==
    CASE kind = kFunc -> u32(b, p)
      [] kind = kTable -> LET l == readLimits(b, p + 1)
                          IN  At([Elem |-> b[p], Lim |-> [l.v EXCEPT !.Shared = FALSE]], l.p)
      [] kind = kMem -> LET l == readLimits(b, p) IN At([Lim |-> l.v], l.p)
      [] kind = kGlobal -> At([GType |-> b[p], GMutable |-> b[p + 1] = 1], p + 2)
ReadNamedImport(b, module, name) ==
    LET desc == ReadDesc(b, b[name.p], name.p + 1)
    IN  At([Module |-> module.v, Name |-> name.v, Kind |-> b[name.p], Desc |-> desc.v], desc.p)
ReadImport(b, p) == LET module == Counted(b, p) IN ReadNamedImport(b, module, Counted(b, module.p))

ReadExport(b, p) ==
    LET name == Counted(b, p)
        index == u32(b, name.p + 1)
    IN  At([Name |-> name.v, Kind |-> b[name.p], Index |-> index.v], index.p)

RECURSIVE EndOfExpr(_, _)
\* The end of the constant expression at p: the instruction that is end, not the first
\* byte that looks like it.
EndOfExpr(b, p) ==
    CASE b[p] = \h0b -> p + 1
      [] b[p] \in {\h23, \h41} -> EndOfExpr(b, u32(b, p + 1).p)
      [] b[p] = \h42 -> EndOfExpr(b, u64(b, p + 1).p)
      [] b[p] = \h43 -> EndOfExpr(b, p + 5)
      [] b[p] = \h44 -> EndOfExpr(b, p + 9)
      [] OTHER -> EndOfExpr(b, p + 1)
constExpr(b, p) == LET e == EndOfExpr(b, p) IN At(SubSeq(b, p, e - 1), e)

ReadElem(b, p) ==
    LET flag == u32(b, p)
        offset == constExpr(b, flag.p)
        funcs == Vec(u32, b, offset.p)
    IN  At([Offset |-> offset.v, Funcs |-> funcs.v], funcs.p)

ReadData(b, p) ==
    LET flag == u32(b, p)
        offset == constExpr(b, flag.p)
        data == Counted(b, offset.p)
    IN  At([Offset |-> offset.v, Data |-> data.v], data.p)

ReadLocals(b, p) == LET n == u32(b, p) IN At([Count |-> n.v, Type |-> b[n.p]], n.p + 1)
ReadCode(b, p) ==
    LET size == u32(b, p)
        locals == Vec(ReadLocals, b, size.p)
        end == size.p + size.v
    IN  At([Locals |-> locals.v, Body |-> SubSeq(b, locals.p, end - 1)], end)

Header == <<0, 97, 115, 109, 1, 0, 0, 0>>
EmptyModule ==
    [rawTypes |-> <<>>, rawFunc |-> <<>>, rawStart |-> <<>>, rawDataCnt |-> <<>>,
     hasStart |-> FALSE, hasDataCnt |-> FALSE, Types |-> <<>>, Imports |-> <<>>, Exports |-> <<>>,
     Funcs |-> <<>>, GlobalN |-> 0, Globals |-> <<>>, NewTables |-> <<>>, NewMems |-> <<>>,
     Elems |-> <<>>, Datas |-> <<>>, Codes |-> <<>>]

\* The module m with what a section holds.
DecodeSection(m, id, s) ==
    CASE id = 0 -> m
      [] id = 1 -> [m EXCEPT !.rawTypes = s, !.Types = @ \o Vec(ReadType, s, 1).v]
      [] id = 2 -> [m EXCEPT !.Imports = @ \o Vec(ReadImport, s, 1).v]
      [] id = 3 -> [m EXCEPT !.rawFunc = s, !.Funcs = @ \o Vec(u32, s, 1).v]
      [] id = 4 -> [m EXCEPT !.NewTables = s]
      [] id = 5 -> [m EXCEPT !.NewMems = s]
      [] id = 6 -> LET n == u32(s, 1) IN [m EXCEPT !.GlobalN = n.v, !.Globals = SubSeq(s, n.p, Len(s))]
      [] id = 7 -> [m EXCEPT !.Exports = @ \o Vec(ReadExport, s, 1).v]
      [] id = 8 -> [m EXCEPT !.rawStart = s, !.hasStart = TRUE]
      [] id = 9 -> [m EXCEPT !.Elems = @ \o Vec(ReadElem, s, 1).v]
      [] id = 10 -> [m EXCEPT !.Codes = @ \o Vec(ReadCode, s, 1).v]
      [] id = 11 -> [m EXCEPT !.Datas = @ \o Vec(ReadData, s, 1).v]
      [] id = 12 -> [m EXCEPT !.rawDataCnt = s, !.hasDataCnt = TRUE]

RECURSIVE DecodeFrom(_, _, _)
DecodeFrom(m, b, p) ==
    IF p > Len(b) THEN [ok |-> TRUE, module |-> m]
    ELSE IF b[p] > 12 THEN [ok |-> FALSE, module |-> EmptyModule]
    ELSE LET s == Counted(b, p + 1) IN DecodeFrom(DecodeSection(m, b[p], s.v), b, s.p)
Decode(b) ==
    IF Len(b) < 8 \/ SubSeq(b, 1, 4) # SubSeq(Header, 1, 4) THEN [ok |-> FALSE, module |-> EmptyModule]
    ELSE DecodeFrom(EmptyModule, b, 9)

----------------------------------------------------------------------------
(* Writing a module *)

putName(s) == putU32(Len(s)) \o s
\* The number of the items of s, and each of them as Put writes it.
PutVec(Put(_), s) == putU32(Len(s)) \o FlattenSeq([i \in DOMAIN s |-> Put(s[i])])
section(id, payload) == <<id>> \o putName(payload)

encodeLimits(l) ==
    <<(IF l.Shared THEN 2 ELSE 0) + (IF l.HasMax THEN 1 ELSE 0)>> \o putU32(l.Min)
        \o (IF l.HasMax THEN putU32(l.Max) ELSE <<>>)

Flag(b) == IF b THEN 1 ELSE 0
encodeImport(i) ==
    putName(i.Module) \o putName(i.Name) \o <<i.Kind>> \o
    (CASE i.Kind = kFunc -> putU32(i.Desc)
       [] i.Kind = kTable -> <<i.Desc.Elem>> \o encodeLimits(i.Desc.Lim)
       [] i.Kind = kMem -> encodeLimits(i.Desc.Lim)
       [] i.Kind = kGlobal -> <<i.Desc.GType, Flag(i.Desc.GMutable)>>)
encodeExport(x) == putName(x.Name) \o <<x.Kind>> \o putU32(x.Index)
encodeElem(s) == putU32(0) \o s.Offset \o PutVec(putU32, s.Funcs)
encodeData(s) == putU32(0) \o s.Offset \o putName(s.Data)
encodeLocals(l) == putU32(l.Count) \o <<l.Type>>
encodeCode(c) == putName(PutVec(encodeLocals, c.Locals) \o c.Body)
encodeGlobals(m) == putU32(m.GlobalN) \o m.Globals

IfAny(id, payload) == IF payload = <<>> THEN <<>> ELSE section(id, payload)
Encode(m) ==
    Header
    \o section(1, m.rawTypes)
    \o section(2, PutVec(encodeImport, m.Imports))
    \o section(3, m.rawFunc)
    \o IfAny(4, m.NewTables)
    \o IfAny(5, m.NewMems)
    \o section(6, encodeGlobals(m))
    \o section(7, PutVec(encodeExport, m.Exports))
    \o (IF m.hasStart THEN section(8, m.rawStart) ELSE <<>>)
    \o section(9, PutVec(encodeElem, m.Elems))
    \o (IF m.hasDataCnt THEN section(12, m.rawDataCnt) ELSE <<>>)
    \o section(10, PutVec(encodeCode, m.Codes))
    \o section(11, PutVec(encodeData, m.Datas))
=============================================================================
