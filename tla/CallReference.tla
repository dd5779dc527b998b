---------------------------- MODULE CallReference ----------------------------
(***************************************************************************)
(* What GuestMemory is compared with: what the guest reads from its        *)
(* memory.                                                                 *)
(***************************************************************************)
EXTENDS GuestMemory

StringAt(mem, a) == LET zero == CHOOSE z \in a..(Len(mem) - 1) : mem[z + 1] = 0 /\ \A i \in a..(z - 1) : mem[i + 1] # 0
                   IN  SubSeq(mem, a + 1, zero)
WordAt(mem, a) == mem[a + 1] + 256 * mem[a + 2]

\* main's arguments are the strings of the host; nothing above the stack has moved, and
\* the stack pointer is below all that was written.
MainGets(r, g, args) ==
    /\ r.argc = Len(args) /\ r.argv % 4 = 0
    /\ \A i \in DOMAIN args : StringAt(r.guest.mem, WordAt(r.guest.mem, r.argv + 4 * (i - 1))) = args[i]
    /\ WordAt(r.guest.mem, r.argv + 4 * Len(args)) = 0
    /\ Len(r.guest.mem) = Len(g.mem) /\ r.guest.sp % 16 = 0
    /\ \A i \in DOMAIN g.mem : r.guest.mem[i] # g.mem[i] => r.guest.sp < i /\ i <= g.sp
ArgumentsArrive(g, args) ==
    /\ MainGets(wzCallMain(g, args), g, args)
    /\ MainGets(wtCallMain(g, args), g, args)
    /\ MainGets(aotCallMain(g, args), g, args)
    /\ Len(args) = 2 =>
          LET f == Fopen(g, args[1], args[2])
          IN  readCString(f.guest.mem, f.path) = args[1] /\ readCString(f.guest.mem, f.mode) = args[2]

RECURSIVE Drained(_, _, _, _, _)
\* What a guest reads that calls fd_read until it is told 0, with buffers of the sizes
\* `lens` one behind the other at address 64, and the list of them at address 8.
Drained(bridge, mem, stdin, pos, lens) ==
    LET r == fdReadStdin(bridge, mem, stdin, pos, 8, Len(lens), 0)
        n == WordAt(r.mem, 0)
    IN  IF n = 0 THEN <<>> ELSE SubSeq(r.mem, 65, 64 + n) \o Drained(bridge, r.mem, stdin, r.pos, lens)
StdinArrives(bridge, mem, stdin, lens) ==
    LET Before(i) == FoldLeftDomain(LAMBDA n, k : IF k < i THEN n + lens[k] ELSE n, 0, lens)
        list == FlattenSeq([i \in DOMAIN lens |-> LittleEndian(64 + Before(i), 4) \o LittleEndian(lens[i], 4)])
    IN  (\E l \in ToSet(lens) : l > 0) => Drained(bridge, Put(mem, 8, list), stdin, 0, lens) = stdin

\* A request goes from the host to the guest, and back, as long as the guest names a
\* range of its memory.
StreamsPass(mem, ptr, max, pending) ==
    ptr + max <= Len(mem) =>
        LET n == IF Len(pending) < max THEN Len(pending) ELSE max
            moved == [mem |-> Put(mem, ptr, SubSeq(pending, 1, n)), n |-> n]
        IN  /\ wtReadCallback(mem, ptr, max, pending) = moved
            /\ wzReadCallback(mem, ptr, max, pending) = moved
            /\ writeCallback(moved.mem, ptr, n) = [sent |-> SubSeq(pending, 1, n), n |-> n]

\* The FILE of stdout is found where it is, whatever else is in the memory in front.
StdoutFound(mem, at, decoy, field) ==
    LET Put4(m, p, offset, v) == IF offset = field /\ p = decoy THEN m ELSE Put(m, p + offset, v)
        File(m, p) == Put4(Put4(Put4(Put4(m, p, 0, <<5, 0, 0, 0>>), p, 60, <<1, 0, 0, 0>>),
                                p, 76, <<255, 255, 255, 255>>), p, 48, <<0, 4, 0, 0>>)
    IN  FindStdoutFILE(File(File(mem, decoy), at)) = at
=============================================================================
