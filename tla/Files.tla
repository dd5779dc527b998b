------------------------------- MODULE Files -------------------------------
(***************************************************************************)
(* Reading and writing: the WASI calls of emscripten/wasi.go and           *)
(* getdents64, ftruncate64 and dup of emscripten/emsyscall.go, over the    *)
(* descriptors of vfs/vfs.go and the buffer of a file in memory that       *)
(* vfs/file.go grows.  One file and one directory, both in the upper layer *)
(* (module Overlay has names and layers).                                  *)
(*                                                                         *)
(* They are to behave as the plain calls of module ByteFile.  A use in     *)
(* which they do not is named in Gaps, and a program makes that use only   *)
(* if Gaps contains it:                                                    *)
(*   stale   write beyond the end of a file that was truncated             *)
(*   append  write through an O_APPEND descriptor that is not at the end   *)
(*   empty   pwrite of no bytes beyond the end of the file                 *)
(*   long    scan a directory that does not fit the caller's buffer        *)
(*   change  create a name in a directory while it is scanned              *)
(***************************************************************************)
EXTENDS Integers, SequencesExt

CONSTANTS
    Names, Dots,  \* names in the directory, "." and ".."
    StdIn,        \* stdinData
    Byte, Zero,   \* the bytes written, and the byte of fresh memory
    MaxFd,        \* a bound on nextFD
    MaxLen,       \* a bound on the length of the file
    Positions,    \* the positions, distances and lengths given to calls
    MinCap,       \* the smallest buffer that WriteAt makes (4096)
    Batch,        \* how many records fit the buffer given to getdents64
    WriteVecs,    \* the iovec arrays given to writes, buffers with their bytes
    ReadVecs,     \* the iovec arrays given to reads, lengths of buffers
    Gaps

ASSUME FilesAssumption ==
    /\ MaxFd \in Nat \ 0 .. 2 /\ MaxLen \in Nat /\ MinCap \in Nat /\ Batch \in Nat \ {0}
    /\ Zero \notin Byte
    /\ Positions \subseteq 0 .. MaxLen
    /\ StdIn \in Seq(Byte) /\ ReadVecs \subseteq Seq(Nat) /\ WriteVecs \subseteq Seq(Seq(Byte))
    /\ IsFiniteSet(Names) /\ IsFiniteSet(Dots)
    /\ Dots \intersect Names = {}

VARIABLES
    data,    \* node.Data
    spare,   \* the bytes of its array beyond len(node.Data), up to its capacity
    names,   \* the entries of the directory
    fds,     \* the open descriptors; those of the directory with the entries the
             \* scan still owes and those it has given
    nextFD,
    stdin,   \* stdinPos
    reply    \* what the call returned: a count or an offset, and the data read

vars == <<data, spare, names, fds, nextFD, stdin, reply>>

Nothing == [n |-> 0, data |-> <<>>]
Got(s) == [n |-> Len(s), data |-> s]
Moved(k) == [n |-> k, data |-> <<>>]

OnFile(f) == f \in DOMAIN fds /\ fds[f].kind = "file"
OnDir(f) == f \in DOMAIN fds /\ fds[f].kind = "dir"
Fresh(k) == [i \in 1 .. k |-> Zero]

\* New, a new file and a directory with some entries.
Init ==
    /\ data = <<>> /\ spare = <<>>
    /\ names \in {Dots \union S : S \in SUBSET Names}
    /\ fds = [f \in {} |-> 0]
    /\ nextFD = 3
    /\ stdin = 0
    /\ reply = Nothing

----------------------------------------------------------------------------
(* The file in memory.  A buffer is its visible bytes and the spare ones.  *)

File == [data |-> data, spare |-> spare]
Cap(b) == Len(b.data) + Len(b.spare)

ReadAt(s, off, k) == SubSeq(s, off + 1, IF off + k < Len(s) THEN off + k ELSE Len(s))

\* The longer buffer that WriteAt reslices or makes: fresh memory is zero.
Grown(b, needed) ==
    LET room == b.data \o b.spare
        twice == 2 * Cap(b)
        newCap == CHOOSE c \in {needed, twice, MinCap} : \A d \in {needed, twice, MinCap} : d <= c
    IN  IF needed <= Len(b.data) THEN b
        ELSE IF needed <= Cap(b)
        THEN [data |-> SubSeq(room, 1, needed), spare |-> SubSeq(room, needed + 1, Len(room))]
        ELSE [data |-> b.data \o Fresh(needed - Len(b.data)), spare |-> Fresh(newCap - needed)]

WriteAt(b, p, off) ==
    LET g == Grown(b, off + Len(p)) IN
    [g EXCEPT !.data = [i \in DOMAIN @ |-> IF i \in off + 1 .. off + Len(p) THEN p[i - off] ELSE @[i]]]

\* A longer file takes the array it has.
TruncatedInPlace(b, k) ==
    IF k < Len(b.data)
    THEN [data |-> SubSeq(b.data, 1, k), spare |-> SubSeq(b.data, k + 1, Len(b.data)) \o b.spare]
    ELSE Grown(b, k)

\* FS.Truncate: a shorter file keeps its array, a longer one gets a new one.
Truncated(b, k) ==
    IF k < Len(b.data)
    THEN [data |-> SubSeq(b.data, 1, k), spare |-> SubSeq(b.data, k + 1, Len(b.data)) \o b.spare]
    ELSE IF k > Len(b.data)
    THEN [data |-> b.data \o Fresh(k - Len(b.data)), spare |-> <<>>]
    ELSE b

\* No byte left from before a truncation comes back between the end and off.
Clean(off) == \A i \in 1 .. off - Len(data) : i \in DOMAIN spare => spare[i] = Zero

----------------------------------------------------------------------------
(* Vectored transfers: the loops over the iovec array.                     *)

\* A read fills buffer after buffer and stops at a short one.
ReadBuf(s, off, acc, k) ==
    IF acc.short THEN acc
    ELSE LET p == ReadAt(s, off + Len(acc.got), k) IN [got |-> acc.got \o p, short |-> Len(p) < k]
Reading(s, off, lens) ==
    LET r[i \in 0 .. Len(lens)] ==
            IF i = 0 THEN [got |-> <<>>, short |-> FALSE] ELSE ReadBuf(s, off, r[i - 1], lens[i])
    IN  r
Readv(s, off, lens) == Reading(s, off, lens)[Len(lens)].got

\* fd_write passes over empty buffers, fd_pwrite hands them to WriteAt too.
WriteBuf(acc, p, passEmpty) ==
    IF passEmpty /\ p = <<>> THEN acc
    ELSE [b |-> WriteAt(acc.b, p, acc.off), off |-> acc.off + Len(p)]
Writing(b, off, iovs, passEmpty) ==
    LET w[i \in 0 .. Len(iovs)] ==
            IF i = 0 THEN [b |-> b, off |-> off] ELSE WriteBuf(w[i - 1], iovs[i], passEmpty)
    IN  w
Writev(b, off, iovs, passEmpty) == Writing(b, off, iovs, passEmpty)[Len(iovs)].b

\* All the bytes of an array of buffers, and how many a read asks for.
Joining(iovs) == LET j[i \in 0 .. Len(iovs)] == IF i = 0 THEN <<>> ELSE j[i - 1] \o iovs[i] IN j
Joined(iovs) == Joining(iovs)[Len(iovs)]
Length(iovs) == Len(Joined(iovs))
Adding(lens) == LET n[i \in 0 .. Len(lens)] == IF i = 0 THEN 0 ELSE n[i - 1] + lens[i] IN n
Total(lens) == Adding(lens)[Len(lens)]

----------------------------------------------------------------------------
(* Descriptors.                                                            *)

SetFile(b) == data' = b.data /\ spare' = b.spare
AddFd(d) ==
    /\ nextFD <= MaxFd
    /\ fds' = [f \in DOMAIN fds \union {nextFD} |-> IF f = nextFD THEN d ELSE fds[f]]
    /\ nextFD' = nextFD + 1
    /\ reply' = Nothing
SetOff(f, off) == fds' = [fds EXCEPT ![f].off = off]
Keep == UNCHANGED <<data, spare>>

\* Open of the file; O_TRUNC drops its array.
OpenFile(append, trunc) ==
    /\ SetFile(IF trunc THEN [data |-> <<>>, spare |-> <<>>] ELSE File)
    /\ AddFd([kind |-> "file", append |-> append, off |-> IF append THEN Len(data') ELSE 0])
    /\ UNCHANGED <<names, stdin>>

OpenDir ==
    /\ AddFd([kind |-> "dir", off |-> 0, owed |-> names, given |-> {}])
    /\ Keep /\ UNCHANGED <<names, stdin>>

\* Dup; of a standard stream it gives a placeholder that nothing can be done with.
Dup(f) ==
    /\ f \in DOMAIN fds \union 0 .. 2
    /\ AddFd(IF f \in DOMAIN fds THEN fds[f] ELSE [kind |-> "std"])
    /\ Keep /\ UNCHANGED <<names, stdin>>

Close(f) ==
    /\ f \in DOMAIN fds
    /\ fds' = [g \in DOMAIN fds \ {f} |-> fds[g]]
    /\ reply' = Nothing
    /\ Keep /\ UNCHANGED <<names, nextFD, stdin>>

----------------------------------------------------------------------------
(* The calls.                                                              *)

\* fd_read, from standard input, the file or nothing.
FdRead(f, lens) ==
    /\ reply' = CASE OnFile(f) -> Got(Readv(data, fds[f].off, lens))
                  [] f = 0 -> Got(Readv(StdIn, stdin, lens))
                  [] OTHER -> Nothing
    /\ fds' = IF OnFile(f) THEN [fds EXCEPT ![f].off = @ + reply'.n] ELSE fds
    /\ stdin' = IF f = 0 THEN stdin + reply'.n ELSE stdin
    /\ Keep /\ UNCHANGED <<names, nextFD>>

\* fd_write: standard output and error take everything.
FdWrite(f, iovs) ==
    LET k == Length(iovs) IN
    /\ IF OnFile(f)
       THEN LET off == fds[f].off IN
            /\ off + k <= MaxLen
            /\ fds[f].append /\ off # Len(data) => "append" \in Gaps
            /\ k > 0 => Clean(off) \/ "stale" \in Gaps
            /\ SetFile(Writev(File, off, iovs, TRUE))
            /\ SetOff(f, off + k)
            /\ reply' = Moved(k)
       ELSE /\ reply' = IF f \in {1, 2} THEN Moved(k) ELSE Nothing
            /\ Keep /\ UNCHANGED fds
    /\ UNCHANGED <<names, nextFD, stdin>>

\* fd_pread reports a descriptor it cannot read as the end of the file.
FdPread(f, off, lens) ==
    /\ reply' = IF OnFile(f) THEN Got(Readv(data, off, lens)) ELSE Nothing
    /\ Keep /\ UNCHANGED <<names, fds, nextFD, stdin>>

FdPwrite(f, off, iovs) ==
    /\ IF OnFile(f)
       THEN /\ off + Length(iovs) <= MaxLen
            /\ Length(iovs) = 0 /\ off > Len(data) => "empty" \in Gaps
            /\ Clean(off) \/ "stale" \in Gaps
            /\ SetFile(Writev(File, off, iovs, FALSE))
            /\ reply' = Moved(Length(iovs))
       ELSE reply' = Nothing /\ Keep
    /\ UNCHANGED <<names, fds, nextFD, stdin>>

\* fd_seek; the position may be beyond the end, not before the beginning.
FdSeek(f, offset, whence) ==
    LET base == CASE whence = "set" -> 0 [] whence = "cur" -> fds[f].off [] whence = "end" -> Len(data)
        new == base + offset
    IN  /\ OnFile(f) /\ new <= MaxLen
        /\ IF new < 0 THEN reply' = Nothing /\ UNCHANGED fds ELSE reply' = Moved(new) /\ SetOff(f, new)
        /\ Keep /\ UNCHANGED <<names, nextFD, stdin>>

Ftruncate(f, k) ==
    /\ OnFile(f)
    /\ SetFile(Truncated(File, k))
    /\ reply' = Nothing
    /\ UNCHANGED <<names, fds, nextFD, stdin>>

\* rewinddir: a new scan.
Rewind(f) ==
    /\ OnDir(f)
    /\ fds' = [fds EXCEPT ![f] = [kind |-> "dir", off |-> 0, owed |-> names, given |-> {}]]
    /\ reply' = Nothing
    /\ Keep /\ UNCHANGED <<names, nextFD, stdin>>

\* getdents64 counts the entries it has given, in a list that Readdir makes anew in
\* every call: "." and "..", then the children, a Go map and so in any order.
Listings == {SetToSeq(Dots) \o s : s \in SetToSeqs(names \ Dots)}
Getdents64(f) ==
    /\ OnDir(f)
    /\ Cardinality(names) > Batch => "long" \in Gaps
    /\ \E allEntries \in Listings :
          LET given == ReadAt(allEntries, fds[f].off, Batch) IN
          /\ reply' = Got(given)
          /\ fds' = [fds EXCEPT ![f] = [kind |-> "dir", off |-> @.off + Len(given),
                                        owed |-> @.owed \ ToSet(given),
                                        given |-> @.given \union ToSet(given)]]
    /\ Keep /\ UNCHANGED <<names, nextFD, stdin>>

\* Names made and removed meanwhile.
Create(n) ==
    /\ n \notin names
    /\ (\E f \in DOMAIN fds : OnDir(f) /\ fds[f].off > 0) => "change" \in Gaps
    /\ names' = names \union {n}
    /\ reply' = Nothing
    /\ Keep /\ UNCHANGED <<fds, nextFD, stdin>>

Unlink(n) ==
    /\ n \in names
    /\ names' = names \ {n}
    /\ fds' = [f \in DOMAIN fds |-> IF OnDir(f) THEN [fds[f] EXCEPT !.owed = @ \ {n}] ELSE fds[f]]
    /\ reply' = Nothing
    /\ Keep /\ UNCHANGED <<nextFD, stdin>>

Next ==
    \/ \E a, t \in BOOLEAN : OpenFile(a, t)
    \/ OpenDir
    \/ \E f \in {0, 1} \union 3 .. MaxFd :
          \/ Dup(f) \/ Close(f) \/ Rewind(f) \/ Getdents64(f)
          \/ \E lens \in ReadVecs : FdRead(f, lens) \/ \E off \in Positions : FdPread(f, off, lens)
          \/ \E iovs \in WriteVecs : FdWrite(f, iovs) \/ \E off \in Positions : FdPwrite(f, off, iovs)
          \/ \E o \in Positions \union {-1}, whence \in {"set", "cur", "end"} : FdSeek(f, o, whence)
          \/ \E k \in Positions : Ftruncate(f, k)
    \/ \E n \in Names : Create(n) \/ Unlink(n)

Spec == Init /\ [][Next]_vars

----------------------------------------------------------------------------
(* The plain calls.                                                        *)

PlainFd(d) ==
    CASE d.kind = "file" -> d
      [] d.kind = "dir" -> [kind |-> "dir", owed |-> d.owed, given |-> d.given]
      [] OTHER -> d

Plain == INSTANCE ByteFile WITH
    bytes <- data,
    fds <- [f \in DOMAIN fds |-> PlainFd(fds[f])],
    Data <- {Joined(v) : v \in WriteVecs},
    Sizes <- {Total(v) : v \in ReadVecs}

\* vfs/file.go: "pread/pwrite at arbitrary offsets and lseek" that "the database
\* relies on".  Whatever the sizes of the buffers, and however the array behind the
\* file grew and shrank, a call reads and writes what the plain call does.
ImplementsByteFile == Plain!Spec

\* JOURNAL.md:239, of getdents64: "subsequent calls to return new entries and a final
\* call to return 0 (EOF)".  A call returns no entry of this scan again, and the scan
\* ends only when every entry that was there all along has been returned.
ScanGivesEachOnce ==
    [][\A f \in DOMAIN fds : OnDir(f) /\ f \in DOMAIN fds' =>
          /\ fds'[f].off > fds[f].off => ToSet(reply'.data) \intersect fds[f].given = {}
          /\ Getdents64(f) /\ reply'.n = 0 => fds[f].owed = {}]_vars
============================================================================
