----------------------------- MODULE HostModules -----------------------------
(***************************************************************************)
(* emscripten/patch.go, dylink.go, wasm.go, syscall.go, systemcb.go and    *)
(* wazero_port.go: the module a guest is rewritten to, the small modules   *)
(* that are generated beside it, and the table slots the callbacks get.    *)
(* A name of the code is what Name says of it.  A module that is only a    *)
(* header, and limits of a shared memory, are outside of the domains.      *)
(***************************************************************************)
EXTENDS WasmBinary

CONSTANTS
    Name,                 \* the bytes of each name that the code writes
    MinPages, MaxPages,   \* 2048 and 32768
    ReservedTableSlots,
    DefaultMemoryBase, DefaultStackPointer, DefaultHeapBase

----------------------------------------------------------------------------
(* Numbers, names, sections *)

RECURSIVE encodeLEB128U(_)
encodeLEB128U(v) ==
    IF v \div 128 = 0 THEN <<v % 128>> ELSE <<128 + (v % 128)>> \o encodeLEB128U(v \div 128)
RECURSIVE encodeLEB128S(_)
encodeLEB128S(v) ==
    LET b == v % 128
        rest == v \div 128
    IN  IF rest = (IF b >= 64 THEN -1 ELSE 0) THEN <<b>> ELSE <<128 + b>> \o encodeLEB128S(rest)
readLEB128U(b, p) == u64(b, p)

encodeCounted(s) == encodeLEB128U(Len(s)) \o s
encodeSection(id, payload) == <<id>> \o encodeCounted(payload)
encodeName(n) == encodeCounted(Name[n])
\* The number of items of s, and each of them as Put writes it.
encodeEach(Put(_, _), s) == encodeLEB128U(Len(s)) \o FlattenSeq([i \in DOMAIN s |-> Put(s[i], i - 1)])
ConstI32(v) == <<\h41>> \o encodeLEB128S(v) \o <<\h0b>>

----------------------------------------------------------------------------
(* patch.go: what is not a function is imported from env.extras instead of env *)

rewriteNumber(b, p) == LET n == readLEB128U(b, p) IN At(encodeLEB128U(n.v), n.p)
rewriteMax(b, flag, min) ==
    LET max == IF flag = 1 THEN rewriteNumber(b, min.p) ELSE At(<<>>, min.p)
    IN  At(<<flag>> \o min.v \o max.v, max.p)
rewriteLimits(b, p) == rewriteMax(b, b[p], rewriteNumber(b, p + 1))
rewriteDesc(b, kind, p) ==
    CASE kind = kFunc -> rewriteNumber(b, p)
      [] kind = kTable -> LET l == rewriteLimits(b, p + 1) IN At(<<b[p]>> \o l.v, l.p)
      [] kind = kMem -> rewriteLimits(b, p)
      [] kind = kGlobal -> At(<<b[p], b[p + 1]>>, p + 2)
rewriteNamedImport(b, module, name, kind) ==
    LET newModName == IF module = Name["env"] /\ kind # kFunc THEN Name["env.extras"] ELSE module
        desc == rewriteDesc(b, kind, name.p + 1)
    IN  At(encodeCounted(newModName) \o encodeCounted(name.v) \o <<kind>> \o desc.v, desc.p)
rewriteImport(b, p) ==
    LET module == Counted(b, p)
        name == Counted(b, module.p)
    IN  rewriteNamedImport(b, module.v, name, b[name.p])
rewriteImportSection(s) == LET imports == Vec(rewriteImport, s, 1).v
                           IN  encodeLEB128U(Len(imports)) \o FlattenSeq(imports)

RECURSIVE RewriteFrom(_, _)
RewriteFrom(b, p) ==
    IF p > Len(b) THEN <<>>
    ELSE LET size == readLEB128U(b, p + 1)
             end == size.p + size.v
             s == SubSeq(b, size.p, end - 1)
         IN  encodeSection(b[p], IF b[p] = 2 THEN rewriteImportSection(s) ELSE s) \o RewriteFrom(b, end)

IsWasm(b) == Len(b) >= 8 /\ SubSeq(b, 1, 4) = SubSeq(Header, 1, 4)
PatchWasmImports(b) ==
    IF IsWasm(b) THEN [ok |-> TRUE, wasm |-> SubSeq(b, 1, 8) \o RewriteFrom(b, 9)]
    ELSE [ok |-> FALSE, wasm |-> <<>>]

----------------------------------------------------------------------------
(* dylink.go *)

\* A number of Bits32, or that the module ends within it.
uleb(b, p) ==
    IF \E i \in p..Len(b) : b[i] < 128 THEN [ok |-> TRUE, v |-> u32(b, p).v, p |-> u32(b, p).p]
    ELSE [ok |-> FALSE, v |-> 0, p |-> Len(b) + 1]
NoDylink == [ok |-> FALSE, memSize |-> 0, tableSize |-> 0]
\* memSize, the alignment of the memory, which is skipped, and tableSize.
DylinkSizes(b, memSize) ==
    LET tableSize == uleb(b, uleb(b, memSize.p).p)
    IN  IF tableSize.ok THEN [ok |-> TRUE, memSize |-> memSize.v, tableSize |-> tableSize.v] ELSE NoDylink
DylinkNamed(b, nameLen, subsection) ==
    IF /\ nameLen.ok /\ subsection - 1 <= Len(b)
       /\ SubSeq(b, nameLen.p, subsection - 1) = Name["dylink.0"]
       /\ subsection <= Len(b) /\ b[subsection] = 1
    THEN DylinkSizes(b, uleb(b, uleb(b, subsection + 1).p))
    ELSE NoDylink
ParseDylink(b) ==
    LET nameLen == uleb(b, uleb(b, 10).p)
    IN  IF IsWasm(b) /\ b[9] = 0 THEN DylinkNamed(b, nameLen, nameLen.p + nameLen.v) ELSE NoDylink

----------------------------------------------------------------------------
(* The generated modules *)

globalDef(name, mutable, init) == [name |-> name, mutable |-> mutable, init |-> init]
DefineGlobal(g, i) == <<\h7f, Flag(g.mutable)>> \o ConstI32(g.init)
ExportGlobal(g, i) == encodeName(g.name) \o <<kGlobal>> \o encodeLEB128U(i)

\* `globals` is a map in the code: any order of its entries.
buildGOTMemModule(globals) ==
    Header \o encodeSection(6, encodeEach(DefineGlobal, globals))
           \o encodeSection(7, encodeEach(ExportGlobal, globals))

buildEnvExtrasModule(memMin, memMax, tableMin, globals) ==
    Header
    \o encodeSection(4, <<1, \h70, 0>> \o encodeLEB128U(tableMin))
    \o encodeSection(5, <<1, 1>> \o encodeLEB128U(memMin) \o encodeLEB128U(memMax))
    \o encodeSection(6, encodeEach(DefineGlobal, globals))
    \o encodeSection(7, encodeLEB128U(Len(globals) + 2)
                        \o encodeName("__indirect_function_table") \o <<kTable, 0>>
                        \o encodeName("memory") \o <<kMem, 0>>
                        \o FlattenSeq([i \in DOMAIN globals |-> ExportGlobal(globals[i], i - 1)]))

\* A bridge: one wrapper for each host function, of `arities[i]` parameters of type
\* i32, that passes its parameters on, placed in the table from baseIndex.
EncodeArity(n, i) == <<\h60, n>> \o [k \in 1..n |-> \h7f] \o <<1, \h7f>>
Wrapper(n, i) == encodeCounted(<<0>> \o FlattenSeq([k \in 1..n |-> <<\h20, k - 1>>]) \o <<\h10, i, \h0b>>)
buildBridge(host, names, types, typeOf, baseIndex) ==
    LET n == Len(names)
    IN  Header
        \o encodeSection(1, encodeEach(EncodeArity, types))
        \o encodeSection(2, encodeLEB128U(n + 2)
              \o FlattenSeq([i \in 1..n |-> encodeName(host) \o encodeName(names[i]) \o <<kFunc, typeOf[i]>>])
              \o encodeName("env.extras") \o encodeName("memory") \o <<kMem, 0, 0>>
              \o encodeName("env.extras") \o encodeName("__indirect_function_table") \o <<kTable, \h70, 0, 0>>)
        \o encodeSection(3, <<n>> \o typeOf)
        \o encodeSection(9, <<1, 0>> \o ConstI32(baseIndex)
              \o encodeLEB128U(n) \o FlattenSeq([i \in 1..n |-> encodeLEB128U(n + i - 1)]))
        \o encodeSection(10, encodeEach(Wrapper, [i \in 1..n |-> types[typeOf[i] + 1]]))

buildCallbackBridgeModule(baseIndex) ==
    buildBridge("initdb_host", <<"handle_system", "handle_popen", "handle_pclose">>, <<1, 2>>, <<0, 1, 0>>, baseIndex)
buildRWBridgeModule(baseIndex) ==
    buildBridge("rw_host", <<"handle_read", "handle_write">>, <<2>>, <<0, 0>>, baseIndex)

----------------------------------------------------------------------------
(* A runtime: its modules, and the table slots it has given away *)

\* The shared objects for a patched module (PrepareAndCompilePrepatched).
EnvExtras(patched) ==
    buildEnvExtrasModule(MinPages, MaxPages, ParseDylink(patched).tableSize + 1 + ReservedTableSlots,
        <<globalDef("__memory_base", FALSE, DefaultMemoryBase),
          globalDef("__stack_pointer", TRUE, DefaultStackPointer),
          globalDef("__table_base", FALSE, 0)>>)
GotMem == buildGOTMemModule(<<globalDef("__heap_base", TRUE, DefaultHeapBase)>>)

\* A module whose dylink section cannot be read gets no runtime.
NoRuntime == [ok |-> FALSE]
NewWZRuntime(patched) ==
    LET sizes == ParseDylink(patched)
    IN  IF ~sizes.ok THEN NoRuntime
        ELSE [ok |-> TRUE, extras |-> EnvExtras(patched), got |-> GotMem,
              bridges |-> <<>>, bases |-> <<>>, nextCB |-> sizes.tableSize + 1]

RegisterRWCallbacksOneSlot(rt) ==
    [rt EXCEPT !.bridges = Append(@, buildRWBridgeModule(rt.nextCB)),
               !.bases = Append(@, rt.nextCB), !.nextCB = @ + 1]
RegisterRWCallbacks(rt) ==
    [rt EXCEPT !.bridges = Append(@, buildRWBridgeModule(rt.nextCB)),
               !.bases = Append(@, rt.nextCB), !.nextCB = @ + 2]
RegisterInitdbCallbacks(rt) ==
    [rt EXCEPT !.bridges = Append(@, buildCallbackBridgeModule(rt.nextCB)),
               !.bases = Append(@, rt.nextCB), !.nextCB = @ + 3]
=============================================================================
