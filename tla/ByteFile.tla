------------------------------ MODULE ByteFile -----------------------------
(***************************************************************************)
(* What the file calls promise to PostgreSQL: one file of bytes and one    *)
(* directory, read and written through descriptors in the manner of POSIX. *)
(* A vectored transfer is one transfer of the concatenated buffers, bytes  *)
(* that were never written read as zero, and a scan of the directory       *)
(* returns each entry once.  A failed transfer is one of no bytes.         *)
(***************************************************************************)
EXTENDS Integers, SequencesExt

CONSTANTS
    Names,   \* the names that may be in the directory, and ...
    Dots,    \* ... the two that always are
    StdIn,   \* what is on standard input
    MaxFd,   \* the descriptors are 0 .. MaxFd
    MaxLen,  \* the longest file
    Data,    \* the strings of bytes a program writes
    Sizes,   \* the numbers of bytes it asks for
    Zero     \* the byte of a hole

VARIABLES
    bytes,   \* the content of the file
    names,   \* the entries of the directory
    fds,     \* the open descriptors
    stdin,   \* how much of the standard input was read
    reply    \* the number of bytes moved, or the new offset, and what was read

byteVars == <<bytes, names, fds, stdin, reply>>

NoFds == [f \in {} |-> 0]
Nothing == [n |-> 0, data |-> <<>>]
Got(s) == [n |-> Len(s), data |-> s]
Moved(k) == [n |-> k, data |-> <<>>]

OnFile(f) == f \in DOMAIN fds /\ fds[f].kind = "file"
OnDir(f) == f \in DOMAIN fds /\ fds[f].kind = "dir"
With(f, d) == [g \in DOMAIN fds \union {f} |-> IF g = f THEN d ELSE fds[g]]
At(f, k) == [fds EXCEPT ![f].off = k]

Zeros(k) == [i \in 1 .. k |-> Zero]
Written(s, k) == SubSeq(s \o Zeros(k - Len(s)), 1, k)
Put(s, data, off) ==
    IF data = <<>> THEN s
    ELSE Written(s, off) \o data \o SubSeq(s, off + Len(data) + 1, Len(s))
Part(s, off, k) == SubSeq(s, off + 1, IF off + k < Len(s) THEN off + k ELSE Len(s))

Init ==
    /\ bytes = <<>>
    /\ names \in {Dots \union S : S \in SUBSET Names}
    /\ fds = NoFds
    /\ stdin = 0
    /\ reply = Nothing

----------------------------------------------------------------------------

OpenFile(f, append, trunc) ==
    /\ f \notin DOMAIN fds
    /\ bytes' = IF trunc THEN <<>> ELSE bytes
    /\ fds' = With(f, [kind |-> "file", append |-> append, off |-> IF append THEN Len(bytes') ELSE 0])
    /\ reply' = Nothing
    /\ UNCHANGED <<names, stdin>>

\* A descriptor of the directory knows the entries it still has to return: those
\* that have been there since the scan began.
OpenDir(f) ==
    /\ f \notin DOMAIN fds
    /\ fds' = With(f, [kind |-> "dir", owed |-> names, given |-> {}])
    /\ reply' = Nothing
    /\ UNCHANGED <<bytes, names, stdin>>

\* A duplicate starts where the original is; one of a standard stream is a token.
Dup(f, g) ==
    /\ g \notin DOMAIN fds
    /\ \/ f \in DOMAIN fds /\ fds' = With(g, fds[f])
       \/ f \in 0 .. 2 /\ fds' = With(g, [kind |-> "std"])
    /\ reply' = Nothing
    /\ UNCHANGED <<bytes, names, stdin>>

Close(f) ==
    /\ fds' = [g \in DOMAIN fds \ {f} |-> fds[g]]
    /\ reply' = Nothing
    /\ UNCHANGED <<bytes, names, stdin>>

Read(f, k) ==
    /\ reply' = Got(CASE OnFile(f) -> Part(bytes, fds[f].off, k)
                      [] f = 0 -> Part(StdIn, stdin, k)
                      [] OTHER -> <<>>)
    /\ fds' = IF OnFile(f) THEN At(f, fds[f].off + reply'.n) ELSE fds
    /\ stdin' = IF f = 0 THEN stdin + reply'.n ELSE stdin
    /\ UNCHANGED <<bytes, names>>

Write(f, data) ==
    /\ IF OnFile(f)
       THEN LET off == IF fds[f].append THEN Len(bytes) ELSE fds[f].off IN
            /\ bytes' = Put(bytes, data, off)
            /\ fds' = IF data = <<>> THEN fds ELSE At(f, off + Len(data))
            /\ reply' = Moved(Len(data))
       ELSE /\ reply' = IF f \in {1, 2} THEN Moved(Len(data)) ELSE Nothing
            /\ UNCHANGED <<bytes, fds>>
    /\ UNCHANGED <<names, stdin>>

Pread(f, off, k) ==
    /\ reply' = IF OnFile(f) THEN Got(Part(bytes, off, k)) ELSE Nothing
    /\ UNCHANGED <<bytes, names, fds, stdin>>

Pwrite(f, off, data) ==
    /\ bytes' = IF OnFile(f) THEN Put(bytes, data, off) ELSE bytes
    /\ reply' = IF OnFile(f) THEN Moved(Len(data)) ELSE Nothing
    /\ UNCHANGED <<names, fds, stdin>>

Seek(f, off) ==
    /\ OnFile(f) /\ off \in 0 .. MaxLen
    /\ fds' = At(f, off)
    /\ reply' = Moved(off)
    /\ UNCHANGED <<bytes, names, stdin>>

Rewind(f) ==
    /\ OnDir(f)
    /\ fds' = With(f, [kind |-> "dir", owed |-> names, given |-> {}])
    /\ reply' = Nothing
    /\ UNCHANGED <<bytes, names, stdin>>

Fail == reply' = Nothing /\ UNCHANGED <<bytes, names, fds, stdin>>

Truncate(f, k) ==
    /\ OnFile(f)
    /\ bytes' = Written(bytes, k)
    /\ reply' = Nothing
    /\ UNCHANGED <<names, fds, stdin>>

\* Some entries not returned before, each once; none only when none is owed.
ReadDir(f) ==
    /\ OnDir(f)
    /\ \E s \in UNION {SetToSeqs(S) : S \in SUBSET (names \ fds[f].given)} :
          /\ s = <<>> => fds[f].owed = {}
          /\ reply' = Got(s)
          /\ fds' = With(f, [kind |-> "dir", owed |-> fds[f].owed \ ToSet(s), given |-> fds[f].given \union ToSet(s)])
    /\ UNCHANGED <<bytes, names, stdin>>

Owing(S) == [f \in DOMAIN fds |->
                IF fds[f].kind = "dir" THEN [fds[f] EXCEPT !.owed = @ \intersect S] ELSE fds[f]]
Create(n) ==
    /\ n \in Names /\ names' = names \union {n}
    /\ reply' = Nothing
    /\ UNCHANGED <<bytes, fds, stdin>>
Unlink(n) ==
    /\ n \in Names /\ names' = names \ {n}
    /\ fds' = Owing(names')
    /\ reply' = Nothing
    /\ UNCHANGED <<bytes, stdin>>

Next ==
    \/ \E f \in 3 .. MaxFd :
          \/ \E a, t \in BOOLEAN : OpenFile(f, a, t)
          \/ OpenDir(f) \/ Rewind(f) \/ ReadDir(f)
          \/ \E g \in 0 .. MaxFd : Dup(g, f)
          \/ \E k \in 0 .. MaxLen : Seek(f, k) \/ Truncate(f, k)
    \/ \E f \in 0 .. MaxFd :
          \/ Close(f)
          \/ \E k \in Sizes : Read(f, k) \/ \E off \in 0 .. MaxLen : Pread(f, off, k)
          \/ \E data \in Data : Write(f, data) \/ \E off \in 0 .. MaxLen : Pwrite(f, off, data)
    \/ \E n \in Names : Create(n) \/ Unlink(n)
    \/ Fail

Spec == Init /\ [][Next]_byteVars
============================================================================
