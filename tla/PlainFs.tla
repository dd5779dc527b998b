------------------------------ MODULE PlainFs ------------------------------
(***************************************************************************)
(* What the overlay promises to the program that runs on it: one file      *)
(* system, without layers.  A tree of directories and files, files with an *)
(* identity that outlives their name while a descriptor is open, and the   *)
(* operations of vfs.FS with the outcome their documentation gives them.   *)
(* An operation that cannot be done changes nothing.                       *)
(***************************************************************************)
EXTENDS Naturals, SequencesExt

CONSTANTS
    Paths,     \* the absolute paths, sequences of names, without the root
    Fds,       \* file descriptors
    Data,      \* contents of files
    Empty,     \* the content of a file without bytes
    Ids,       \* identities of files
    InitTree,  \* the tree and ...
    InitData   \* ... the contents of its files at the start

VARIABLES
    tree,   \* what is at each existing path
    data,   \* the content of each file
    fd,     \* the file each descriptor is open on, 0 when it is closed
    reads   \* what a read of all the file through a descriptor returns

plainVars == <<tree, data, fd, reads>>

Dir == [typ |-> "dir", ino |-> 0]
File(i) == [typ |-> "file", ino |-> i]

Init ==
    /\ tree = InitTree
    /\ data = InitData
    /\ fd = [f \in Fds |-> 0]
    /\ reads = [f \in Fds |-> Empty]

----------------------------------------------------------------------------

Used(t, o) == {t[p].ino : p \in DOMAIN t} \union Range(o)

\* The state an operation leaves: files without name or descriptor are gone.
Becomes(t, d, o) ==
    /\ tree' = t
    /\ fd' = o
    /\ data' = [i \in Ids |-> IF i \in Used(tree', fd') THEN d[i] ELSE Empty]
    /\ reads' = [f \in Fds |-> IF o[f] = 0 THEN Empty ELSE d[o[f]]]

Is(p, typ) == p \in DOMAIN tree /\ tree[p].typ = typ
Above(p) == {q \in Paths : IsStrictPrefix(q, p)}
Below(p) == {q \in DOMAIN tree : IsPrefix(p, q)}
CanMake(p) == \A q \in Above(p) : q \in DOMAIN tree => Is(q, "dir")

\* The tree without p, and with `sub` at and below p in directories made for it.
Cut(p) == Restrict(tree, DOMAIN tree \ Below(p))
Leaf(p, n) == [q \in {p} |-> n]
Graft(t, p, sub) ==
    [q \in DOMAIN sub \union Above(p) \union {r \in DOMAIN t : ~IsPrefix(p, r)} |->
        IF q \in DOMAIN sub THEN sub[q] ELSE IF q \in Above(p) THEN Dir ELSE t[q]]
WithDirs(t, P) == [q \in DOMAIN t \union P |-> IF q \in P THEN Dir ELSE t[q]]

\* Open of an existing file, with O_TRUNC or not, or of a new one.
OpenFile(f, p) ==
    /\ fd[f] = 0 /\ Is(p, "file")
    /\ Becomes(tree, data, [fd EXCEPT ![f] = tree[p].ino])
OpenTrunc(f, p) ==
    /\ fd[f] = 0 /\ Is(p, "file")
    /\ Becomes(tree, [data EXCEPT ![tree[p].ino] = Empty], [fd EXCEPT ![f] = tree[p].ino])
New == Ids \ Used(tree, fd)
OpenCreate(f, p) ==
    /\ fd[f] = 0 /\ p \notin DOMAIN tree /\ CanMake(p)
    /\ \E i \in New : Becomes(Graft(tree, p, Leaf(p, File(i))), data, [fd EXCEPT ![f] = i])
Close(f) == fd[f] # 0 /\ Becomes(tree, data, [fd EXCEPT ![f] = 0])
Dup(f, g) == fd[f] # 0 /\ fd[g] = 0 /\ Becomes(tree, data, [fd EXCEPT ![g] = fd[f]])

\* Writing and truncating through a descriptor change the file it is open on.
Write(f, v) == fd[f] # 0 /\ Becomes(tree, [data EXCEPT ![fd[f]] = v], fd)

WriteFile(p, v) ==
    /\ ~Is(p, "dir") /\ CanMake(p)
    /\ \E i \in New : Becomes(Graft(tree, p, Leaf(p, File(i))), [data EXCEPT ![i] = v], fd)
Unlink(p) == Is(p, "file") /\ Becomes(Cut(p), data, fd)
Rmdir(p) == Is(p, "dir") /\ Below(p) = {p} /\ Becomes(Cut(p), data, fd)
MkdirAll(p) ==
    /\ p \in DOMAIN tree => Is(p, "dir")
    /\ CanMake(p)
    /\ Becomes(WithDirs(tree, Above(p) \union {p}), data, fd)

\* Rename moves all that is below p, and replaces a file at q.
Moved(p, q) ==
    LET from(r) == p \o SubSeq(r, Len(q) + 1, Len(r))
    IN  [r \in {s \in Paths : IsPrefix(q, s) /\ from(s) \in DOMAIN tree} |-> tree[from(r)]]
Rename(p, q) ==
    /\ p \in DOMAIN tree /\ CanMake(q)
    /\ p # q => ~IsPrefix(p, q) /\ ~IsPrefix(q, p)
    /\ q \in DOMAIN tree => p = q \/ (Is(q, "file") /\ Is(p, "file"))
    /\ Becomes(Graft(Cut(p), q, Moved(p, q)), data, fd)

Next ==
    \/ \E f \in Fds, p \in Paths : OpenFile(f, p) \/ OpenTrunc(f, p) \/ OpenCreate(f, p)
    \/ \E f \in Fds : Close(f) \/ \E g \in Fds : Dup(f, g)
    \/ \E f \in Fds, v \in Data : Write(f, v)
    \/ \E p \in Paths : Unlink(p) \/ Rmdir(p) \/ MkdirAll(p) \/ \E v \in Data : WriteFile(p, v)
    \/ \E p, q \in Paths : Rename(p, q)

Spec == Init /\ [][Next]_plainVars
============================================================================
