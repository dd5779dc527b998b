------------------------------ MODULE Overlay ------------------------------
(***************************************************************************)
(* vfs.FS: a writable tree in memory (upper) over a read-only file system  *)
(* (lower), with copy-up, whiteouts and a table of open files, as          *)
(* vfs/vfs.go and vfs/memfs.go have it.  Symbolic links, permissions and   *)
(* positions within a file are left out: a file's content is one value.    *)
(*                                                                         *)
(* The overlay is to look like one plain file system (module PlainFs).     *)
(* Where it does not, a use of it is named in Gaps, and a program makes    *)
(* that use only if Gaps contains it:                                      *)
(*   remake    create something where a lower directory was removed        *)
(*   shadow    create a directory where there is a lower file              *)
(*   movedir   rename a directory that has entries in the lower layer      *)
(*   overwrite replace a directory, or move one into or over its own path  *)
(*   misplace  rename below something that is not a directory              *)
(*   moved     truncate a file after its name was removed or changed       *)
(*   handle    change a lower file that another descriptor is open on      *)
(***************************************************************************)
EXTENDS Naturals, SequencesExt

CONSTANTS
    Paths,      \* the absolute paths, sequences of names, without the root
    Lower,      \* the entries of the lower layer
    LowerData,  \* the content of its files
    Inodes,     \* identities of upper nodes of files: a bound on their number
    Fds,        \* a bound on the open descriptors
    Written,    \* the contents a program writes
    Empty,
    Gaps

Dir == [typ |-> "dir", ino |-> 0]
White == [typ |-> "white", ino |-> 0]
File(i) == [typ |-> "file", ino |-> i]
Ids == Inodes \union DOMAIN LowerData
Data == Written \union Range(LowerData) \union {Empty}

ASSUME OverlayAssumption ==
    /\ Paths \subseteq Seq(UNION {Range(p) : p \in Paths})
    /\ <<>> \notin Paths
    /\ \A p \in Paths : \A n \in 1..Len(p) : SubSeq(p, 1, n) \in Paths
    /\ 0 \notin Ids
    /\ Inodes \intersect DOMAIN LowerData = {}
    /\ DOMAIN Lower \subseteq Paths
    /\ Lower \in [DOMAIN Lower -> {Dir} \union {File(i) : i \in DOMAIN LowerData}]
    /\ \A p \in DOMAIN Lower, q \in Paths :
          IsStrictPrefix(q, p) => q \in DOMAIN Lower /\ Lower[q] = Dir
    /\ \A p, q \in DOMAIN Lower : Lower[p] = Lower[q] => p = q \/ Lower[p] = Dir

VARIABLES
    upper,    \* the writable tree: path -> directory, file node or whiteout
    content,  \* the bytes of each upper file node
    fds       \* the open files

vars == <<upper, content, fds>>

\* An open file refers to an upper node, or reads the lower file of its path.
Closed == [kind |-> "none", ino |-> 0, path |-> <<>>]
Opened(kind, i, p) == [kind |-> kind, ino |-> i, path |-> p]

Above(p) == {q \in Paths : IsStrictPrefix(q, p)}
LowerChildren(p) == {q \in DOMAIN Lower : IsStrictPrefix(p, q)}

Nodes == {Dir, White} \union {File(i) : i \in Ids}

\* What is above a node of the tree is a directory of the tree.
IsTree(u) ==
    /\ DOMAIN u \subseteq Paths
    /\ \A p \in DOMAIN u : u[p] \in Nodes
    /\ \A p \in DOMAIN u : \A q \in Above(p) : q \in DOMAIN u /\ u[q] = Dir

TypeOK ==
    /\ IsTree(upper)
    /\ content \in [Ids -> Data]
    /\ fds \in [Fds -> {Closed} \union [kind : {"upper", "lower"}, ino : Ids, path : Paths]]

\* New.
Init ==
    /\ upper = [p \in {} |-> Dir]
    /\ content = [i \in Ids |-> Empty]
    /\ fds = [f \in Fds |-> Closed]

----------------------------------------------------------------------------
(* Lookup.                                                                 *)

inUpper(p) == p \in DOMAIN upper /\ upper[p] # White
upperWhiteout(p) == p \in DOMAIN upper /\ upper[p] = White
lowerHas(p) == p \in DOMAIN Lower

\* statNode: the upper layer answers, or hides, before the lower one.
statNode(p) == inUpper(p) \/ (~upperWhiteout(p) /\ lowerHas(p))
Node(p) == IF inUpper(p) THEN upper[p] ELSE Lower[p]

\* eval walks p component by component.
eval(p) == \A q \in Above(p) \union {p} : statNode(q)
IsFile(p) == eval(p) /\ Node(p).typ = "file"
IsDirectory(p) == eval(p) /\ Node(p) = Dir

ListedIgnoringWhiteouts(p) ==
    LET kids == {q \in Paths : Front(q) = p}
        live == {q \in kids : inUpper(p) /\ q \in DOMAIN upper /\ upper[q] # White}
    IN  live \union {q \in kids : lowerHas(q)}
\* readdirNames merges the upper entries with the lower ones that have no whiteout.
readdirNames(p) ==
    LET kids == {q \in Paths : Front(q) = p}
        mine == {q \in kids : inUpper(p) /\ q \in DOMAIN upper}
        white == {q \in mine : upper[q] = White}
    IN  (mine \ white) \union {q \in kids \ white : lowerHas(q)}

----------------------------------------------------------------------------
(* The writable tree.                                                      *)

Used(u, o) == {u[p].ino : p \in DOMAIN u} \union {o[f].ino : f \in Fds}

\* The state an operation leaves.  Nodes without name or descriptor are garbage.
Becomes(u, c, o) ==
    /\ upper' = u
    /\ fds' = o
    /\ content' = [i \in Ids |-> IF i \in Used(u, o) THEN c[i] ELSE Empty]

\* mkdirAll replaces whiteouts on the way and fails on a file.
CanMkdirAll(u, P) == \A q \in P : q \in DOMAIN u => u[q].typ # "file"
mkdirAll(u, P) == [q \in DOMAIN u \union P |-> IF q \in P THEN Dir ELSE u[q]]

\* place attaches a node, with what is below it, in the place of what was there.
CanPlace(u, p) == CanMkdirAll(u, Above(p))
RemoveTree(u, p) == Restrict(u, {q \in DOMAIN u : ~IsPrefix(p, q)})
Attached(u, sub) == [q \in DOMAIN u \union DOMAIN sub |-> IF q \in DOMAIN sub THEN sub[q] ELSE u[q]]
place(u, p, sub) == Attached(mkdirAll(RemoveTree(u, p), Above(p)), sub)
At(p, n) == [q \in {p} |-> n]

RemovedWithoutWhiteout(u, p) == RemoveTree(u, p)
\* removeChild: the upper tree without p, with a whiteout when the lower layer has p.
removeChild(u, p) == IF lowerHas(p) THEN place(u, p, At(p, White)) ELSE RemoveTree(u, p)

\* A node for a new file, and the one that a lower file is copied up to.
InUpperUse(i) ==
    \/ \E p \in DOMAIN upper : upper[p].ino = i
    \/ \E f \in Fds : fds[f].kind = "upper" /\ fds[f].ino = i
Fresh == {i \in Inodes : ~InUpperUse(i)}
UpNode(p) == IF InUpperUse(Lower[p].ino) THEN CHOOSE i \in Fresh : TRUE ELSE Lower[p].ino

\* copyUp: p is in the upper layer already, or can be placed there.
CanCopyUp(p) == ~inUpper(p) => CanPlace(upper, p) /\ (InUpperUse(Lower[p].ino) => Fresh # {})
\* The tree and the contents then.  A directory comes without its entries.
copyUp(p) ==
    IF inUpper(p) THEN [tree |-> upper, data |-> content]
    ELSE IF Lower[p] = Dir THEN [tree |-> place(upper, p, At(p, Dir)), data |-> content]
    ELSE [tree |-> place(upper, p, At(p, File(UpNode(p)))),
          data |-> [content EXCEPT ![UpNode(p)] = LowerData[Lower[p].ino]]]
----------------------------------------------------------------------------
(* Uses in which the overlay does not keep its promise.                    *)

Gap(name) == name \in Gaps
KeepsRemoved(P) == Gap("remake") \/ \A q \in P : upperWhiteout(q) => LowerChildren(q) = {}
KeepsFiles(P) == Gap("shadow") \/ \A q \in P : statNode(q) => Node(q) = Dir
KeepsHandles(p, others) ==
    (Gap("handle") \/ inUpper(p)) \/ \A f \in others : fds[f].kind = "lower" => fds[f].path # p

----------------------------------------------------------------------------
(* Open, Close, Dup, Write, Truncate.                                      *)

\* Open for reading: an upper node, or a handle over the lower file.
OpenRead(f, p) ==
    /\ fds[f] = Closed /\ IsFile(p)
    /\ LET kind == IF inUpper(p) THEN "upper" ELSE "lower" IN
        Becomes(upper, content, [fds EXCEPT ![f] = Opened(kind, Node(p).ino, p)])

\* Open for writing copies up, with O_TRUNC without the bytes.
OpenWrite(f, p, trunc) ==
    /\ fds[f] = Closed /\ IsFile(p) /\ CanCopyUp(p)
    /\ KeepsHandles(p, Fds)
    /\ LET up == copyUp(p)  i == up.tree[p].ino IN
        Becomes(up.tree, IF trunc THEN [up.data EXCEPT ![i] = Empty] ELSE up.data,
                [fds EXCEPT ![f] = Opened("upper", i, p)])

\* O_CREAT: a missing file is placed, its directories made.
OpenCreate(f, p) ==
    /\ fds[f] = Closed /\ ~eval(p)
    /\ KeepsRemoved(Above(p) \union {p}) /\ KeepsFiles(Above(p))
    /\ CanPlace(upper, p)
    /\ \E i \in Fresh : Becomes(place(upper, p, At(p, File(i))), content,
                                [fds EXCEPT ![f] = Opened("upper", i, p)])

Close(f) == fds[f] # Closed /\ Becomes(upper, content, [fds EXCEPT ![f] = Closed])
Dup(f, g) == /\ fds[f] # Closed /\ fds[g] = Closed
             /\ Becomes(upper, content, [fds EXCEPT ![g] = fds[f]])

\* A lower handle refuses writes.
Write(f, v) ==
    /\ fds[f].kind = "upper"
    /\ Becomes(upper, [content EXCEPT ![fds[f].ino] = v], fds)

\* Truncate copies up what the path of the descriptor names now: it is rebound to
\* the file found there, or to a copy of the lower file of that name.
Truncate(f) ==
    /\ fds[f] # Closed
    /\ LET p == fds[f].path IN
        /\ Gap("moved") \/ (IsFile(p) /\ Node(p).ino = fds[f].ino)
        /\ IF inUpper(p) THEN upper[p].typ = "file" ELSE lowerHas(p) /\ Lower[p] # Dir
        /\ CanCopyUp(p) /\ KeepsHandles(p, Fds \ {f})
        /\ LET up == copyUp(p)  i == up.tree[p].ino IN
            Becomes(up.tree, [up.data EXCEPT ![i] = Empty],
                    [fds EXCEPT ![f] = Opened("upper", i, p)])

----------------------------------------------------------------------------
(* Names.                                                                  *)

\* WriteFile places a new node whatever is there.
WriteFile(p, v) ==
    /\ KeepsRemoved(Above(p) \union {p}) /\ KeepsFiles(Above(p))
    /\ Gap("overwrite") \/ ~IsDirectory(p)
    /\ CanPlace(upper, p)
    /\ \E i \in Fresh : Becomes(place(upper, p, At(p, File(i))), [content EXCEPT ![i] = v], fds)

MkdirAll(p) ==
    /\ KeepsRemoved(Above(p) \union {p}) /\ KeepsFiles(Above(p) \union {p})
    /\ CanMkdirAll(upper, Above(p) \union {p})
    /\ Becomes(mkdirAll(upper, Above(p) \union {p}), content, fds)

Unlink(p) == IsFile(p) /\ Becomes(removeChild(upper, p), content, fds)
Rmdir(p) ==
    /\ IsDirectory(p) /\ readdirNames(p) = {}
    /\ Becomes(removeChild(upper, p), content, fds)

\* Rename copies p up, takes it from its place, leaves a whiteout and places it
\* at q; when q cannot be placed it is in neither.
Moved(u, p, q) ==
    LET from(r) == p \o SubSeq(r, Len(q) + 1, Len(r))
    IN  [r \in {s \in Paths : IsPrefix(q, s) /\ from(s) \in DOMAIN u} |-> u[from(r)]]
Fits(u, p, q) == \A r \in DOMAIN u : IsPrefix(p, r) => q \o SubSeq(r, Len(p) + 1, Len(r)) \in Paths
MayRename(p, q) ==
    /\ KeepsHandles(p, Fds)
    /\ Gap("movedir") \/ Node(p) # Dir \/ \A r \in LowerChildren(p) : ~eval(r)
    /\ Gap("overwrite") \/ p = q
         \/ (~IsPrefix(p, q) /\ ~IsPrefix(q, p) /\ (statNode(q) => Node(q) # Dir /\ Node(p) # Dir))
    /\ Gap("misplace") \/ CanPlace(upper, q)
    /\ KeepsRemoved((Above(q) \union {q}) \ {p}) /\ KeepsFiles(Above(q))
Rename(p, q) ==
    /\ eval(p) /\ CanCopyUp(p) /\ MayRename(p, q)
    /\ LET up == copyUp(p)  u == removeChild(up.tree, p) IN
        /\ Fits(up.tree, p, q)
        /\ Becomes(IF CanPlace(u, q) THEN place(u, q, Moved(up.tree, p, q)) ELSE u, up.data, fds)

Next ==
    \/ \E f \in Fds, p \in Paths :
          OpenRead(f, p) \/ OpenCreate(f, p) \/ \E t \in BOOLEAN : OpenWrite(f, p, t)
    \/ \E f \in Fds : Close(f) \/ Truncate(f) \/ \E g \in Fds : Dup(f, g)
    \/ \E f \in Fds, v \in Written : Write(f, v)
    \/ \E p \in Paths : MkdirAll(p) \/ Unlink(p) \/ Rmdir(p) \/ \E v \in Written : WriteFile(p, v)
    \/ \E p, q \in Paths : Rename(p, q)

Spec == Init /\ [][Next]_vars

----------------------------------------------------------------------------
(* The plain file system that the overlay shows.                           *)

Visible == {p \in Paths : eval(p)}
ViewTree == [p \in Visible |-> Node(p)]
ViewUsed == {Node(p).ino : p \in Visible} \union {fds[f].ino : f \in Fds}
\* The bytes of a file: an upper node's, or a lower file's that is not copied up.
Bytes(i) == IF i \in DOMAIN LowerData /\ ~InUpperUse(i) THEN LowerData[i] ELSE content[i]
ViewData == [i \in Ids |-> IF i \in ViewUsed THEN Bytes(i) ELSE Empty]
ViewFd == [f \in Fds |-> fds[f].ino]
ViewReads == [f \in Fds |-> CASE fds[f].kind = "upper" -> content[fds[f].ino]
                              [] fds[f].kind = "lower" -> LowerData[fds[f].ino]
                              [] OTHER -> Empty]
StartData == [i \in Ids |-> IF \E p \in DOMAIN Lower : Lower[p] = File(i) THEN LowerData[i] ELSE Empty]

Plain == INSTANCE PlainFs WITH
    InitTree <- Lower, InitData <- StartData,
    tree <- ViewTree, data <- ViewData, fd <- ViewFd, reads <- ViewReads

\* JOURNAL.md:757: "overlay with copy-up + whiteouts".  The program above sees one
\* file system: every operation changes what is visible exactly as it would on a
\* plain tree, deleted lower entries stay deleted, descriptors keep their file,
\* and an operation that fails changes nothing.
ImplementsPlainFs == Plain!Spec

\* readdir lists, in every directory, exactly the names that can be opened there,
\* although it merges the layers by names and eval looks them up one by one.
ListingIsLookup ==
    \A p \in Visible : Node(p) = Dir => readdirNames(p) = {q \in Visible : Front(q) = p}
============================================================================
