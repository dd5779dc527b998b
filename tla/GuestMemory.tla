----------------------------- MODULE GuestMemory -----------------------------
(***************************************************************************)
(* How the host reaches into a guest's linear memory: the memory bridges   *)
(* of emscripten/wasmtime_port.go ("wt") and aot_membridge.go ("aot"), and *)
(* what goes through them: arguments, strings, stdin and the streams of    *)
(* the wire protocol.  A memory is a sequence of bytes, the byte of        *)
(* address a is at a + 1.  "wt" adds addresses in 32 bits: a range that    *)
(* wraps there panics and is outside of the domains.                       *)
(***************************************************************************)
EXTENDS WasmBinary

\* The bytes v from address a on.
Put(mem, a, v) == [i \in DOMAIN mem |-> IF i - a \in DOMAIN v THEN v[i - a] ELSE mem[i]]
\* A number in k bytes, the least significant first, and back in 32 bits.
LittleEndian(v, k) == [i \in 1..k |-> IF 8 * (i - 1) >= Bits32 THEN 0 ELSE (v \div 256^(i - 1)) % 256]
Uint32(b) == FoldLeftDomain(LAMBDA r, i : (r + (IF 8 * (i - 1) >= Bits32 THEN 0 ELSE b[i] * 256^(i - 1))) % 2^Bits32, 0, b)

EndOf(bridge, a, n) == IF bridge = "aot" THEN a + n ELSE (a + n) % 2^Bits32
Read(bridge, mem, a, n) ==
    IF EndOf(bridge, a, n) > Len(mem) THEN [ok |-> FALSE, v |-> <<>>]
    ELSE [ok |-> TRUE, v |-> SubSeq(mem, a + 1, a + n)]
Write(bridge, mem, a, v) == IF EndOf(bridge, a, Len(v)) > Len(mem) THEN mem ELSE Put(mem, a, v)
ReadUint32Le(bridge, mem, a) ==
    LET r == Read(bridge, mem, a, 4) IN IF r.ok THEN Uint32(r.v) ELSE 0
WriteUint32Le(bridge, mem, a, v) == Write(bridge, mem, a, LittleEndian(v, 4))

RECURSIVE readCString(_, _)
\* The bytes from p to the next zero, or to the end of the memory.
readCString(mem, p) ==
    IF p >= Len(mem) \/ mem[p + 1] = 0 THEN <<>> ELSE <<mem[p + 1]>> \o readCString(mem, p + 1)

----------------------------------------------------------------------------
(* Arguments.  A state of the guest has its memory and its stack pointer.          *)

Aligned(a) == a - (a % 16)
\* The guest's _emscripten_stack_alloc.
stackAlloc(g, n) == [g EXCEPT !.sp = Aligned(@ - n)]
PutStringUnended(g, s) == LET h == stackAlloc(g, Len(s)) IN [h EXCEPT !.mem = Put(@, h.sp, s)]
PutString(g, s) == LET h == stackAlloc(g, Len(s) + 1) IN [h EXCEPT !.mem = Put(@, h.sp, s \o <<0>>)]

\* wazero: one string and its pointer after the other, behind the vector.
wzCallMain(g, args) ==
    LET vector == stackAlloc(g, (Len(args) + 1) * 4)
        argv == vector.sp
        PutArg(h, i) == LET s == PutString(h, args[i])
                        IN  [s EXCEPT !.mem = Put(@, argv + (i - 1) * 4, LittleEndian(s.sp, 4))]
        filled == FoldLeftDomain(PutArg, vector, args)
    IN  [guest |-> [filled EXCEPT !.mem = Put(@, argv + Len(args) * 4, LittleEndian(0, 4))], argc |-> Len(args), argv |-> argv]

\* wasmtime: all allocations first, then the strings and the vector.
wtCallMain(g, args) ==
    LET vector == stackAlloc(g, (Len(args) + 1) * 4)
        argv == vector.sp
        Alloc(r, i) == LET h == stackAlloc(r.guest, Len(args[i]) + 1)
                       IN  [guest |-> h, ptrs |-> Append(r.ptrs, h.sp)]
        all == FoldLeftDomain(Alloc, [guest |-> vector, ptrs |-> <<>>], args)
        PutArg(mem, i) == Put(Put(mem, all.ptrs[i], args[i] \o <<0>>), argv + (i - 1) * 4, LittleEndian(all.ptrs[i], 4))
        filled == FoldLeftDomain(PutArg, all.guest.mem, args)
    IN  [guest |-> [all.guest EXCEPT !.mem = Put(filled, argv + Len(args) * 4, LittleEndian(0, 4))],
         argc |-> Len(args), argv |-> argv]

\* aot: the strings from the top down without gaps, the last one first, then the vector.
aotCallMain(g, args) ==
    LET Below(i) == FoldLeftDomain(LAMBDA n, k : IF k < i THEN n ELSE n + Len(args[k]) + 1, 0, args)
        ptrs == [i \in DOMAIN args |-> g.sp - Below(i)]
        argv == Aligned(Aligned(g.sp - Below(1)) - (Len(args) + 1) * 4)
        strings == FoldLeftDomain(LAMBDA mem, i : Put(mem, ptrs[i], args[i] \o <<0>>), g.mem, args)
        vector == FlattenSeq([i \in DOMAIN args |-> LittleEndian(ptrs[i], 4)]) \o LittleEndian(0, 4)
    IN  [guest |-> [mem |-> Put(strings, argv, vector), sp |-> argv], argc |-> Len(args), argv |-> argv]

\* The addresses that Fopen gives to the guest's fopen.
Fopen(g, path, mode) ==
    LET p == PutString(g, path)
        m == PutString(p, mode)
    IN  [guest |-> m, path |-> p.sp, mode |-> m.sp]

----------------------------------------------------------------------------
(* Streams *)

\* fd_read of descriptor 0: what is left of stdin into the buffers of a list.
fdReadStdin(bridge, mem, stdin, pos, iovsPtr, iovsLen, nreadPtr) ==
    LET Fill(r, i) ==
            LET bufPtr == ReadUint32Le(bridge, r.mem, iovsPtr + (i - 1) * 8)
                bufLen == ReadUint32Le(bridge, r.mem, iovsPtr + (i - 1) * 8 + 4)
                left == Len(stdin) - r.pos
                n == IF bufLen < left THEN bufLen ELSE left
            IN  [mem |-> Write(bridge, r.mem, bufPtr, SubSeq(stdin, r.pos + 1, r.pos + n)), pos |-> r.pos + n]
        all == FoldLeft(Fill, [mem |-> mem, pos |-> pos], [i \in 1..iovsLen |-> i])
    IN  [mem |-> WriteUint32Le(bridge, all.mem, nreadPtr, all.pos - pos), pos |-> all.pos]

\* The read callback of wasmtime: as much of what is pending as fits before the end.
wtReadCallback(mem, ptr, max, pending) ==
    LET end == IF (ptr + max) % 2^Bits32 > Len(mem) THEN Len(mem) ELSE (ptr + max) % 2^Bits32
        room == end - ptr
        n == IF ptr > Len(mem) THEN 0 ELSE IF Len(pending) < room THEN Len(pending) ELSE room
    IN  [mem |-> Put(mem, ptr, SubSeq(pending, 1, n)), n |-> n]
\* The read callback of wazero: taken first, and lost if it does not fit.
wzReadCallback(mem, ptr, max, pending) ==
    LET n == IF Len(pending) < max THEN Len(pending) ELSE max
    IN  [mem |-> Write("aot", mem, ptr, SubSeq(pending, 1, n)), n |-> n]
\* The write callback: what the guest sends, or nothing, but it is told all was taken.
writeCallback(mem, ptr, length) ==
    [sent |-> IF ptr + length <= Len(mem) THEN SubSeq(mem, ptr + 1, ptr + length) ELSE <<>>, n |-> length]

----------------------------------------------------------------------------
(* The FILE of stdout: flags 5, fd 1, lock -1, buf_size 1024 *)

FileMin == 84
IsStdout(mem, p) ==
    LET Word(offset) == SubSeq(mem, p + offset + 1, p + offset + 4)
    IN  /\ Word(0) = <<5, 0, 0, 0>> /\ Word(60) = <<1, 0, 0, 0>>
        /\ Word(76) = <<255, 255, 255, 255>> /\ Word(48) = <<0, 4, 0, 0>>
FindStdoutFILE(mem) ==
    LET found == {p \in 0..(Len(mem) - FileMin) : p % 4 = 0 /\ IsStdout(mem, p)}
    IN  IF found = {} THEN 0 ELSE CHOOSE p \in found : \A q \in found : p <= q
=============================================================================
