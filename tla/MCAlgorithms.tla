---------------------------- MODULE MCAlgorithms ----------------------------
(***************************************************************************)
(* One input of one algorithm at a time: `sample` is the input that is     *)
(* looked at, and each invariant compares what the algorithm makes of it   *)
(* with a reference definition.                                            *)
(***************************************************************************)
EXTENDS HostReference, WireReference, CallReference, Commands, BundleFs

NoSample == [kind |-> "none"]

----------------------------------------------------------------------------
(* Modules.  Names are <<1>>..<<6>>; 32 bits are scaled to 10 and 64 to 17, so that *)
(* both need more than one group, and the last group is not a whole one.           *)

MCBits32 == 10
MCBits64 == 17
SPName == <<1>>
MemoryBase == <<2>>
HeapBase == <<3>>
GotName == <<4>>
SeedName == <<5>>
OtherName == <<6, 6>>
MCBaseGlobals == [n \in {SPName, MemoryBase, HeapBase} |-> IF n = MemoryBase THEN 0 ELSE 70]
MCRoots == {<<1>>, <<2>>}
MCThrewAddr == 200

Numbers == [kind : {"number"}, v : (-300..1023) \union {-65536, -8193, -8192, 8191, 8192, 65535}, n : 1..3]

I(name, kind, desc) == [Module |-> OtherName, Name |-> name, Kind |-> kind, Desc |-> desc]
Lim(min, max, has, shared) == [Min |-> min, Max |-> max, HasMax |-> has, Shared |-> shared]
GlobalImport(name, mut) == I(name, kGlobal, [GType |-> \h7f, GMutable |-> mut])
FuncImport(name) == I(name, kFunc, 1)
TheMemory == I(<<1>>, kMem, [Lim |-> Lim(3, 300, TRUE, TRUE)])
TheTable == I(<<2>>, kTable, [Elem |-> \h70, Lim |-> Lim(200, 0, FALSE, FALSE)])

Const(v) == <<\h41>> \o Leb(v, 1) \o <<\h0b>>
Get(g) == <<\h23, g, \h0b>>
Double == <<\h44>> \o [i \in 1..8 |-> \h0b] \o <<\h0b>>

Base == [EmptyModule EXCEPT
            !.Types = <<[Params |-> <<>>, Results |-> <<>>], [Params |-> <<\h7f>>, Results |-> <<\h7c, \h7e>>]>>]

\* Modules with everything a section can hold.
ImportLists == {<<>>, <<TheMemory>>, <<FuncImport(SeedName), TheTable, GlobalImport(SPName, TRUE)>>,
    <<GlobalImport(GotName, FALSE), I(<<>>, kMem, [Lim |-> Lim(0, 0, FALSE, TRUE)])>>,
    <<I(<<1>>, kMem, [Lim |-> Lim(0, 0, FALSE, FALSE)]), I(<<2>>, kTable, [Elem |-> \h70, Lim |-> Lim(1, 1, TRUE, FALSE)])>>}
SomeExports == {<<>>, <<[Name |-> <<1>>, Kind |-> 0, Index |-> 2], [Name |-> <<7, 0>>, Kind |-> 2, Index |-> 130]>>}
SomeElems == {<<>>, <<[Offset |-> <<\h41, \h8b, \h00, \h0b>>, Funcs |-> <<1, 200>>]>>,
    <<[Offset |-> Get(\h0b), Funcs |-> <<>>], [Offset |-> Const(\h0b), Funcs |-> <<2>>]>>}
SomeDatas == {<<>>, <<[Offset |-> <<\h42, \h0b, \h0b>>, Data |-> <<\h0b, 0>>]>>, <<[Offset |-> Const(-1), Data |-> <<>>]>>}
SomeCodes == {<<>>,
    <<[Locals |-> <<>>, Body |-> <<\h0b>>],
      [Locals |-> <<[Count |-> 2, Type |-> \h7f], [Count |-> 130, Type |-> \h7c]>>, Body |-> <<\h10, 0, \h0b>>]>>}
Modules ==
    [kind : {"module"}, p : 2..3, custom : {<<>>, <<1, 0, 9>>}, full : BOOLEAN, imports : ImportLists,
     exports : SomeExports, elems : SomeElems, datas : SomeDatas, codes : SomeCodes]
ModuleOf(s) ==
    [Base EXCEPT !.Imports = s.imports, !.Exports = s.exports, !.Elems = s.elems, !.Datas = s.datas,
                 !.Codes = s.codes, !.Funcs = [i \in DOMAIN s.codes |-> i - 1],
                 !.hasStart = s.full, !.hasDataCnt = s.full,
                 !.GlobalN = IF s.full THEN 2 ELSE 0,
                 !.Globals = IF s.full THEN <<\h7f, 1>> \o Const(5) \o <<\h7c, 0>> \o Double ELSE <<>>]

\* Modules to link: a few globals in any order, and segments that name one.
GlobalOrders == BoundedSeq({GlobalImport(SPName, TRUE), GlobalImport(MemoryBase, FALSE),
                            GlobalImport(HeapBase, FALSE), GlobalImport(GotName, TRUE)}, 3)
Links == [kind : {"link"}, globals : GlobalOrders, elem : {Const(3), Get(0), Get(1)}, data : {Const(-7), Get(0), Get(2)}]
LinkOf(s) ==
    LET m == [Base EXCEPT
                !.Imports = <<TheMemory, FuncImport(SeedName)>> \o s.globals \o <<TheTable, FuncImport(OtherName)>>,
                !.Elems = <<[Offset |-> s.elem, Funcs |-> <<0, 1>>]>>,
                !.Datas = <<[Offset |-> s.data, Data |-> <<\h23>>]>>,
                !.Exports = <<[Name |-> <<7, 0>>, Kind |-> kGlobal, Index |-> 0], [Name |-> <<2>>, Kind |-> kGlobal, Index |-> 1]>>,
                !.GlobalN = 2,
                !.Globals = <<\h7c, 0>> \o Double \o <<\h7f, 1>> \o (IF s.globals = <<>> THEN Const(9) ELSE Get(0))]
    IN  Decode(Compiled(m, 2, <<>>)).module
LinkEnv == [n \in {SPName, MemoryBase, HeapBase, GotName} |-> IF n = GotName THEN 33 ELSE MCBaseGlobals[n]]

\* Bodies: operands that look like the opcodes of calls, ends and assignments.
Instructions ==
    {Plain(<<\h01>>), Plain(<<\h02, \h40>>), Plain(<<\h0e, 1, 0, \h10>>), Plain(<<\h41, \h90, \h24>>),
     Plain(<<\h44, \h10, 1, \h24, 1, \h11, 1, \h0b, \h10>>), Plain(<<\h43, \h24, 1, \h10, 1>>),
     Plain(<<\hfc, \h0a, 0, 0>>), Plain(<<\hfc, \h0b, 0>>), Plain(<<\hfc, \h08, \h90, 0, \h10>>),
     Plain(<<\h28, 2, \h10>>), Plain(<<\h20, \h24>>), Plain(<<\h1c, 1, \h7f>>), Plain(<<\h6a>>),
     Plain(<<\h3f, 0>>), Plain(<<\hd2, \h10>>),
     Calls(0, 1), Calls(1, 1), Calls(2, 2), Calls(3, 1), CallsIndirect(2), SetsGlobal(0, 1), SetsGlobal(1, 2)}
End == Plain(<<\h0b>>)
FrameShapes ==
    {[type |-> [Params |-> <<>>, Results |-> <<>>], locals |-> <<>>],
     [type |-> [Params |-> <<\h7c>>, Results |-> <<\h7f>>], locals |-> <<[Count |-> 2, Type |-> \h7f]>>],
     [type |-> [Params |-> <<\h7f, \h7f>>, Results |-> <<\h7c, \h7d>>],
      locals |-> <<[Count |-> 1, Type |-> \h7f], [Count |-> 3, Type |-> \h7e]>>]}
Bodies == [kind : {"body"}, first : [1..2 -> Instructions], second : {Calls(1, 2), Calls(2, 1), CallsIndirect(1), End},
           shape : FrameShapes, sp : 0..1]
ListsOf(s) == <<<<s.first[1], s.first[2], End>>, <<s.second, SetsGlobal(s.sp, 1), End>>>>
BodyOf(s) ==
    [Base EXCEPT
        !.Types = <<s.shape.type, [Params |-> <<>>, Results |-> <<\h7e>>]>>,
        !.Imports = (IF s.sp = 1 THEN <<GlobalImport(MemoryBase, FALSE)>> ELSE <<>>)
                    \o <<FuncImport(OtherName), GlobalImport(SPName, TRUE), FuncImport(SeedName)>>,
        !.Funcs = <<0, 1>>,
        !.Codes = <<[Locals |-> s.shape.locals, Body |-> Assembled(ListsOf(s)[1])],
                    [Locals |-> <<>>, Body |-> Assembled(ListsOf(s)[2])]>>]

\* The modules and numbers that a compiler writes are read as what they say, and what
\* is written of them is read the same (wasm.go, TestRoundTripStable).
ModuleSurvives ==
    /\ sample.kind = "module" => ReadExactly(ModuleOf(sample), sample.p, sample.custom)
    /\ sample.kind = "number" =>
           /\ sample.v \in 0..1023 => UnsignedExact(sample.v, sample.n)
           /\ SignedExact(sample.v, sample.n)

\* Linking the base globals in keeps the meaning of every index and offset
\* (Prelink, foldOffset), and leaves the roots as exports.
LinkingKeepsMeaning ==
    sample.kind = "link" => LinkedSame(LinkOf(sample), LinkEnv)

\* Instrument adds a guard behind each call that a longjmp may leave, and nothing
\* else (walkInstr, buildGuard, addLocal; TestInstrumentIsSuperset).
OnlyGuardsAdded ==
    sample.kind = "body" => GuardedExactly(BodyOf(sample), ListsOf(sample), sample.sp)

\* Guests and their hosts: a table of a size around the lengths of a number, signed and
\* not; every order in which the callbacks of a runtime can be registered.
MCNames == <<"env", "env.extras", "dylink.0", "GOT.mem", "memory", "__indirect_function_table", "__memory_base",
    "__stack_pointer", "__table_base", "__heap_base", "rw_host", "handle_read", "handle_write",
    "initdb_host", "handle_system", "handle_popen", "handle_pclose">>
MCName == [n \in {MCNames[i] : i \in DOMAIN MCNames} |-> <<100, CHOOSE i \in DOMAIN MCNames : MCNames[i] = n>>]
GuestImport(module, name, kind, desc) == [Module |-> MCName[module], Name |-> MCName[name], Kind |-> kind, Desc |-> desc]
GuestImports ==
    {GuestImport("env", "memory", kMem, [Lim |-> Lim(3, 600, TRUE, FALSE)]),
     GuestImport("env", "__indirect_function_table", kTable, [Elem |-> \h70, Lim |-> Lim(2, 0, FALSE, FALSE)]),
     GuestImport("env", "__stack_pointer", kGlobal, [GType |-> \h7f, GMutable |-> TRUE]),
     GuestImport("env", "__table_base", kGlobal, [GType |-> \h7f, GMutable |-> FALSE]),
     GuestImport("env", "__memory_base", kFunc, 1),
     GuestImport("GOT.mem", "__heap_base", kGlobal, [GType |-> \h7f, GMutable |-> TRUE])}
Registrations == {<<>>, <<"rw">>, <<"initdb">>, <<"rw", "initdb">>, <<"initdb", "rw">>}
Guests == [kind : {"guest"}, p : 2..3, imports : BoundedSeq(GuestImports, 2), mem : {0, 500},
           table : {0, 9, 61, 62, 63, 120, 127, 300}, order : Registrations]
GuestOf(s) == [Base EXCEPT !.Imports = s.imports]

\* A guest finds what it imports, under the names it was given, and each callback index
\* reaches its host function through a slot of its own (PatchWasmImports, ParseDylink,
\* buildEnvExtrasModule, the bridges, nextCB).
GuestFitsItsHost ==
    sample.kind = "guest" => FitsItsHost(GuestOf(sample), sample.p, sample.mem, sample.table, sample.order)

----------------------------------------------------------------------------
(* The wire protocol.  Counts are scaled to three bits, the integers to one, two   *)
(* and three bytes.                                                                *)

MCBits16 == 3
MCIntLen == [int2 |-> 1, int4 |-> 2, int8 |-> 3]

Sqls == {<<>>, <<83>>, <<83, 32, 36, 49>>, <<83, 0, 49>>}
Texts == {<<>>, <<49>>, <<92, 120, 48>>}
Requests ==
    [kind : {"request"}, sql : Sqls, params : BoundedSeq(Texts, 2) \union {[i \in 1..n |-> <<i>>] : n \in 6..9},
     isNull : BoundedSeq(BOOLEAN, 2), oids : BoundedSeq({16, 25, 701}, 2) \union {[i \in 1..9 |-> 25]}]

Nil == <<"nil", <<>>>>
I64(v) == <<"int64", <<v>>>>
\* Values by the oid of their type and their format; a text that looks like a bytea is
\* a text, and a float is the text or the bits that the server sends.
ValuesOf(oid, format) ==
    {Nil} \union
    CASE oid = 16 -> {<<"bool", <<0>>>>, <<"bool", <<1>>>>}
      [] oid = 17 -> {<<"[]byte", <<>>>>, <<"[]byte", <<0, 175>>>>}
      [] oid = 20 -> {I64(-8388608), I64(-1), I64(8388607)}
      [] oid = 21 -> {I64(-128), I64(0), I64(127)}
      [] oid = 23 -> {I64(-32768), I64(255), I64(32767)}
      [] oid = 26 -> {I64(0), I64(32768), I64(65535)}
      [] oid = 25 -> {<<"string", <<>>>>, <<"string", <<92, 120, 48, 48>>>>, <<"string", <<49, 50>>>>}
      [] oid = 700 -> {<<"float64", <<66, 200, 0, 0>>>>}
      [] oid = 701 /\ format = 1 -> {<<"float64", <<127, 240, 0, 0, 0, 0, 0, 0>>>>}
      [] oid = 701 /\ format = 0 -> {<<"float64", t>> : t \in {<<49, 46, 53>>, NaN, Infinity, <<45>> \o Infinity}}
Formats(oid) == IF oid = 25 THEN {0} ELSE IF oid = 700 THEN {1} ELSE {0, 1}
Column(oid, f, name) == [name |-> name, oid |-> oid, format |-> f]
Columns == UNION {{Column(oid, f, <<97>>) : f \in Formats(oid)} : oid \in {16, 17, 20, 21, 23, 26, 25, 700, 701}}
Cells == UNION {[col : {c}, v : ValuesOf(c.oid, c.format)] : c \in Columns}
\* The second statement has one column less than the first, and one of another type.
FewCells == {c \in Cells : c.col.oid \in {16, 26, 25}}
Replies == [kind : {"reply"}, cell1 : Cells, cell2 : FewCells, rest : {<<>>, <<68, 0, 0, 0>>, <<67, 0, 0, 0, 6, 49>>}]
Times == [kind : {"time"}, hour : {0, 23}, minute : {0, 59}, zone : {0, 60, -480, 330}]

\* A request that is built says to the server what the caller asked (bindMessage and
\* the others, indices and counts of their fields).
RequestArrives ==
    sample.kind = "request" =>
        /\ ServerGets(sample.sql, sample.params, sample.isNull, sample.oids)
        /\ ServerStarts(sample.sql, <<100>>)

\* A reply is read as what the server sent: each value by the type and the format of
\* its own column, of its own statement; and arguments reach the server as the values
\* they are (parse, decodeDataRow, encodeParams, Next).
ReplyIsRead ==
    /\ sample.kind = "time" => TimeArrives(sample.hour, sample.minute, sample.zone)
    /\ sample.kind = "reply" =>
        LET c1 == sample.cell1
            c2 == sample.cell2
        IN  /\ TwoStatements(<<c1.col, c2.col>>, <<c2.col>>, <<c1.v, c2.v>>, <<c2.v>>, sample.rest)
            /\ ErrorArrives(<<c1.col, c2.col>>, <<c1.v, c2.v>>, <<69>>, <<>>)
            /\ ErrorArrives(<<c2.col>>, <<c2.v>>, <<70>>, <<120, 121>>)
            /\ ComesBack(c1.col, c1.v, c2.v)

----------------------------------------------------------------------------
(* Calls: guest memories of up to 176 bytes.                                       *)

Zeros(n) == [i \in 1..n |-> 0]
Ones(n) == [i \in 1..n |-> 1]
Strings == {<<>>, <<45>>, <<7, 8>>, [i \in 1..15 |-> 9], [i \in 1..16 |-> i]}
Mains == [kind : {"main"}, args : BoundedSeq(Strings, 3), sp : {160, 176}]
Bridges == {"wt", "aot"}
Stdins == [kind : {"stdin"}, bridge : Bridges, stdin : {Ones(n) : n \in 0..2} \union {[i \in 1..n |-> i] : n \in 3..7},
           lens : BoundedSeq({0, 1, 3}, 3)]
Streams == [kind : {"stream"}, ptr : {0, 3, 8, 9}, max : 0..5, pending : {Ones(n) : n \in 0..1} \union {[i \in 1..n |-> i + 1] : n \in 2..6}]
Files == [kind : {"file"}, at : {84, 88, 92}, decoy : {0, 4}, field : {0, 48, 60, 76}, tail : {0, 3}]

MCOperators == {"<", ">/dev/null", "2>&1", "|"}
MCShellOperators == MCOperators \union {">log"}
MCOptions == {"--boot", "--single", "-F", "-c", "-D", "-V", "--version"}
Field(t, q) == [text |-> t, quoted |-> q]
Fields == {Field("--boot", FALSE), Field("--single", FALSE), Field("-F", FALSE), Field("-c", FALSE), Field("-D", FALSE),
           Field("x=y", FALSE), Field("template1", TRUE), Field("-V", FALSE), Field("<", FALSE), Field("<", TRUE),
           Field(">log", FALSE)}
Programs == {[program |-> <<"postgres">>, quoted |-> FALSE], [program |-> <<"my", "postgres">>, quoted |-> TRUE]}
ShellCommands == {[kind |-> "command", program |-> p.program, quoted |-> p.quoted, fields |-> f] :
                 p \in Programs, f \in BoundedSeq(Fields, 4)}
MCSharedObjects == {"a.so"}
ManifestFiles == {<<"", "x", "bin", "f">>, <<"", "x", "a.so">>, <<"", "x", "f">>, <<"", "x", ".", "f">>, <<"", "x", "y", "..", "bin", "g">>, <<"h">>}
Manifests == [kind : {"bundle"}, n : 1..2, manifest : BoundedSeq([file : ManifestFiles, start : 0..2, end : {1, 3}], 2)
                 \union [1..3 -> [file : ManifestFiles, start : {1}, end : {4}]]]
MCBlob == <<11, 12, 13, 14>>

\* The guest is told what the host says: arguments and names, stdin, the streams of
\* the protocol and the FILE of stdout (CallMain, Fopen, fdRead, RegisterRWCallbacks,
\* FindStdoutFILE, the memory bridges).
GuestIsTold ==
    /\ sample.kind = "main" => ArgumentsArrive([mem |-> Ones(176), sp |-> sample.sp], sample.args)
    /\ sample.kind = "stdin" => StdinArrives(sample.bridge, Zeros(80), sample.stdin, sample.lens)
    /\ sample.kind = "stream" => StreamsPass(Zeros(10), sample.ptr, sample.max, sample.pending)
    /\ sample.kind = "file" => StdoutFound(Zeros(176 + sample.tail), sample.at, sample.decoy, sample.field)

----------------------------------------------------------------------------
Init == sample = NoSample
TakeNumber == sample = NoSample /\ sample' \in Numbers
TakeModule == sample = NoSample /\ sample' \in Modules
TakeLink == sample = NoSample /\ sample' \in Links
TakeBody == sample = NoSample /\ sample' \in Bodies
TakeGuest == sample = NoSample /\ sample' \in Guests
TakeRequest == sample = NoSample /\ sample' \in Requests
TakeReply == sample = NoSample /\ sample' \in Replies \union Times
TakeCall == sample = NoSample /\ sample' \in Mains \union Stdins \union Streams \union Files
TakeCommand == sample = NoSample /\ sample' \in ShellCommands
TakeBundle == sample = NoSample /\ sample' \in Manifests
Return == sample # NoSample /\ sample' = NoSample

Next == TakeNumber \/ TakeModule \/ TakeLink \/ TakeBody \/ TakeGuest \/ TakeRequest \/ TakeReply
        \/ TakeCall \/ TakeCommand \/ TakeBundle \/ Return
Spec == Init /\ [][Next]_sample
=============================================================================
