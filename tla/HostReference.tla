---------------------------- MODULE HostReference ----------------------------
(***************************************************************************)
(* What HostModules is compared with: a guest finds what it imports, and   *)
(* each callback index that it is told leads to the host function meant.   *)
(***************************************************************************)
EXTENDS HostModules, WasmReference

Dylink(mem, table, p) ==
    PadCounted(Name["dylink.0"], p) \o <<1>>
        \o PadCounted(Leb(mem, p) \o Leb(0, p) \o Leb(table, p) \o Leb(0, p), p)

\* The patched module differs in where it imports what is not a function from.
PatchedExactly(before, after) ==
    LET Moved(i) == IF i.Kind # kFunc /\ i.Module = Name["env"] THEN [i EXCEPT !.Module = Name["env.extras"]] ELSE i
    IN  after = [before EXCEPT !.Imports = [i \in DOMAIN @ |-> Moved(@[i])]]

\* The sizes are read; of a module that ends early they are refused or the same, and
\* one that ends within the name of its dylink section gets no runtime.
DylinkNameEnd == 8 + 3 + Len(Name["dylink.0"])
SizesRead(wasm, mem, table) ==
    LET sizes == [ok |-> TRUE, memSize |-> mem, tableSize |-> table]
    IN  /\ ParseDylink(wasm) = sizes
        /\ \A n \in 9..40 : ParseDylink(SubSeq(wasm, 1, n)) \in {sizes, NoDylink}
        /\ \A n \in 9..DylinkNameEnd : NewWZRuntime(SubSeq(wasm, 1, n)) = NoRuntime

LimitsOffer(offer, want) == offer.Min >= want.Min /\ (want.HasMax => offer.HasMax /\ offer.Max <= want.Max)
Offers(m, x, i) ==
    /\ x.Kind = i.Kind
    /\ x.Kind = kMem => LimitsOffer(Memory(m), i.Desc.Lim)
    /\ x.Kind = kTable => LimitsOffer(Table(m).Lim, i.Desc.Lim)
    /\ x.Kind = kGlobal => LET g == OwnGlobals(m.Globals, 1, m.GlobalN)[x.Index + 1]
                           IN  g.GType = i.Desc.GType /\ g.GMutable = i.Desc.GMutable
\* The module m gives every import of the guest that names `from`.
Satisfies(m, from, guest) ==
    \A i \in ToSet(guest.Imports) :
        i.Module = from => \E x \in ToSet(m.Exports) : x.Name = i.Name /\ Offers(m, x, i)

\* What a call of each slot of a bridge reaches, with all parameters in their order:
\* n functions are imported, and the wrappers are placed from the slot `first`.
ReachedIn(m, imports, first) ==
    LET n == Len(imports)
        Pass(type) == FlattenSeq([k \in DOMAIN type.Params |-> <<\h20, k - 1>>])
        Wraps(f, k) == /\ m.Funcs[f] = imports[k].Desc
                       /\ m.Codes[f] = [Locals |-> <<>>,
                                        Body |-> Pass(m.Types[m.Funcs[f] + 1]) \o <<\h10, k - 1, \h0b>>]
    IN  {[slot |-> first + i - 1, host |-> imports[k].Module, name |-> imports[k].Name,
          arity |-> Len(m.Types[imports[k].Desc + 1].Params)] :
            <<i, k>> \in {<<i, k>> \in (DOMAIN m.Elems[1].Funcs) \X (1..n) :
                             Wraps(m.Elems[1].Funcs[i] - n + 1, k)}}
Reaches(bridge) ==
    LET m == Decode(bridge).module
    IN  ReachedIn(m, FuncImports(m), Value(m.Elems[1].Offset, <<>>)[2])

Callback(slot, host, name, arity) == [slot |-> slot, host |-> Name[host], name |-> Name[name], arity |-> arity]
Meant(what, base) ==
    IF what = "rw" THEN {Callback(base, "rw_host", "handle_read", 2), Callback(base + 1, "rw_host", "handle_write", 2)}
    ELSE {Callback(base, "initdb_host", "handle_system", 1), Callback(base + 1, "initdb_host", "handle_popen", 2),
          Callback(base + 2, "initdb_host", "handle_pclose", 1)}

\* After the registrations `order`: each index that was handed out reaches what it is
\* for, through a slot of the table that neither the guest nor another callback has.
CallbacksReach(rt, extras, order, table) ==
    LET meant == UNION {Meant(order[i], rt.bases[i]) : i \in DOMAIN order}
    IN  /\ UNION {Reaches(b) : b \in ToSet(rt.bridges)} = meant
        /\ \A c, d \in meant : c.slot = d.slot => c = d
        /\ \A c \in meant : table < c.slot /\ c.slot < Table(extras).Lim.Min
Registered(rt, order) ==
    FoldLeft(LAMBDA r, what : IF what = "rw" THEN RegisterRWCallbacks(r) ELSE RegisterInitdbCallbacks(r), rt, order)

\* A guest on a new runtime, and one with the imports of m, its numbers in p bytes.
FitsRuntime(guest, rt, extras, order, table) ==
    /\ Satisfies(extras, Name["env.extras"], guest)
    /\ Satisfies(Decode(rt.got).module, Name["GOT.mem"], guest)
    /\ CallbacksReach(Registered(rt, order), extras, order, table)
PatchedFits(before, after, rt, order, table) ==
    PatchedExactly(before, after) /\ rt.ok /\ FitsRuntime(after, rt, Decode(rt.extras).module, order, table)
GuestFits(wasm, patched, mem, table, order) ==
    /\ patched.ok
    /\ SizesRead(patched.wasm, mem, table)
    /\ PatchedFits(Decode(wasm).module, Decode(patched.wasm).module, NewWZRuntime(patched.wasm), order, table)
Hosted(wasm, mem, table, order) == GuestFits(wasm, PatchWasmImports(wasm), mem, table, order)
FitsItsHost(m, p, mem, table, order) == Hosted(Compiled(m, p, Dylink(mem, table, p)), mem, table, order)
=============================================================================
