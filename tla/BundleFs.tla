------------------------------ MODULE BundleFs ------------------------------
(***************************************************************************)
(* bundlefs.go: the read-only file system over one blob of bytes and a     *)
(* manifest that says which range of it is which file.  A path is the      *)
(* sequence of its components, the root is the empty one.  A manifest with *)
(* a file at the root, or with one file below another, which panics, is    *)
(* outside of the domain.                                                  *)
(***************************************************************************)
EXTENDS Samples, Integers, Sequences, SequencesExt

CONSTANTS
    SharedObjects,  \* the file names that end in .so
    Blob            \* the data of the bundle

ASSUME BlobAssumption == Blob \in Seq(0..255)

\* A node has the names in it with what is told of each of them, apart from the node
\* that is looked up by its path: these are two maps in the code.
NoEntries == [c \in {} |-> <<>>]
Root == [isDir |-> TRUE, exec |-> TRUE, start |-> 0, end |-> 0, children |-> NoEntries]
FileNode(start, end, exec) == [isDir |-> FALSE, exec |-> exec, start |-> start, end |-> end, children |-> NoEntries]
bundleInfo(n) == [isDir |-> n.isDir, exec |-> n.exec, size |-> IF n.isDir THEN 0 ELSE n.end - n.start]
With(nodes, path, node) == [p \in DOMAIN nodes \union {path} |-> IF p = path THEN node ELSE nodes[p]]
Place(path, k) == SubSeq(path, 1, k)
Parent(path) == Place(path, Len(path) - 1)

\* path.Clean of a rooted path, without the root.
Follow(p, c) == CASE c \in {"", "."} -> p
                [] c = ".." -> IF p = <<>> THEN p ELSE Parent(p)
                [] OTHER -> Append(p, c)
Cleaning(file) == LET p[k \in 0..Len(file)] == IF k = 0 THEN <<>> ELSE Follow(p[k - 1], file[k]) IN p
Clean(file) == Cleaning(file)[Len(file)]

EntryAtOnce(nodes, path, k, child) ==
    [nodes EXCEPT ![Place(path, k - 1)].children = IF path[k] \in DOMAIN @ THEN @ ELSE With(@, path[k], bundleInfo(child))]
\* The entry of a child in its directory.
EntryAt(nodes, path, k, child) ==
    [nodes EXCEPT ![Place(path, k - 1)].children = With(@, path[k], bundleInfo(child))]
\* The k-th component of a path: the node at its end, a directory before if none is listed.
EnterPart(nodes, path, k, node) ==
    LET child == IF k = Len(path) THEN node ELSE Root IN
    IF k # Len(path) /\ path[k] \in DOMAIN nodes[Place(path, k - 1)].children THEN nodes
    ELSE With(EntryAt(nodes, path, k, child), Place(path, k), child)
Entering(nodes, path, node) ==
    LET ns[k \in 0..Len(path)] == IF k = 0 THEN nodes ELSE EnterPart(ns[k - 1], path, k, node) IN ns
\* A node at path, and a directory at each place above it.
insert(nodes, path, node) == Entering(nodes, path, node)[Len(path)]

\* What is under /bin/ and the shared objects can be executed.
Executable(file) == \/ \E i \in 2..(Len(file) - 1) : file[i] = "bin"
                    \/ file[Len(file)] \in SharedObjects

Loading(manifest) ==
    LET ns[i \in 0..Len(manifest)] ==
            IF i = 0 THEN [p \in {<<>>} |-> Root]
            ELSE LET e == manifest[i]
                 IN  insert(ns[i - 1], Clean(e.file), FileNode(e.start, e.end, Executable(e.file)))
    IN  ns
loadBundleFS(manifest, data) ==
    IF \E i \in DOMAIN manifest : \/ manifest[i].start < 0 \/ manifest[i].end > Len(data)
                                  \/ manifest[i].start > manifest[i].end
    THEN [ok |-> FALSE, data |-> <<>>, nodes |-> <<>>]
    ELSE [ok |-> TRUE, data |-> data, nodes |-> Loading(manifest)[Len(manifest)]]

----------------------------------------------------------------------------
(* Looking up *)

Stat(b, path) ==
    IF path \notin DOMAIN b.nodes THEN [err |-> "not exist"]
    ELSE [err |-> "", info |-> bundleInfo(b.nodes[path])]
\* The names in a directory, with what is told of each; each time in an order of its own.
ReadDir(b, path) ==
    IF path \notin DOMAIN b.nodes \/ ~b.nodes[path].isDir THEN [err |-> "not exist", entries |-> NoEntries]
    ELSE [err |-> "", entries |-> b.nodes[path].children]

----------------------------------------------------------------------------
(* Handles of a file: its bytes and the position *)

bytes(b, path) == SubSeq(b.data, b.nodes[path].start + 1, b.nodes[path].end)
ReadAt(bs, n, off) ==
    IF off < 0 THEN [v |-> <<>>, err |-> "negative"]
    ELSE IF off >= Len(bs) THEN [v |-> <<>>, err |-> "EOF"]
    ELSE IF Len(bs) - off < n THEN [v |-> SubSeq(bs, off + 1, Len(bs)), err |-> "EOF"]
    ELSE [v |-> SubSeq(bs, off + 1, off + n), err |-> ""]
FileRead(bs, n, off) == LET r == ReadAt(bs, n, off) IN [v |-> r.v, err |-> r.err, off |-> off + Len(r.v)]
Seek(bs, off, offset, whence) ==
    LET abs == offset + (CASE whence = "start" -> 0 [] whence = "current" -> off [] whence = "end" -> Len(bs))
    IN  IF abs < 0 THEN [err |-> "negative", off |-> off] ELSE [err |-> "", off |-> abs]

----------------------------------------------------------------------------
(* Handles of a directory: the order it took at the first call, and the position   *)

DirReadDir(d, n) ==
    IF n <= 0 THEN [v |-> SubSeq(d.entries, d.pos + 1, Len(d.entries)), err |-> "", d |-> [d EXCEPT !.pos = Len(d.entries)]]
    ELSE IF d.pos >= Len(d.entries) THEN [v |-> <<>>, err |-> "EOF", d |-> d]
    ELSE LET end == IF d.pos + n > Len(d.entries) THEN Len(d.entries) ELSE d.pos + n
         IN  [v |-> SubSeq(d.entries, d.pos + 1, end), err |-> "", d |-> [d EXCEPT !.pos = end]]

----------------------------------------------------------------------------
(* What it is compared with: what a manifest says of the files in it, the directories *)
(* above them, and the bytes that are read.                                           *)

\* What is read and listed, in steps of n, until the first EOF.
ReadOn(bs, n, acc) ==
    IF acc.done THEN acc
    ELSE LET r == FileRead(bs, n, acc.off) IN [v |-> acc.v \o r.v, off |-> r.off, done |-> r.err = "EOF"]
Reading(bs, n, off) ==
    LET r[k \in 0..(Len(bs) + 1)] == IF k = 0 THEN [v |-> <<>>, off |-> off, done |-> FALSE] ELSE ReadOn(bs, n, r[k - 1])
    IN  r
ReadsTo(bs, n, off, v) == LET r == Reading(bs, n, off)[Len(bs) + 1] IN r.done /\ r.v = v

ListOn(n, acc) ==
    IF acc.done THEN acc
    ELSE LET r == DirReadDir(acc.d, n) IN [v |-> acc.v \o r.v, d |-> r.d, done |-> r.err = "EOF"]
Listing(order, n) ==
    LET r[k \in 0..(Len(order) + 1)] ==
            IF k = 0 THEN [v |-> <<>>, d |-> [entries |-> order, pos |-> 0], done |-> FALSE] ELSE ListOn(n, r[k - 1])
    IN  r
Lists(order, n) == LET r == Listing(order, n)[Len(order) + 1] IN r.done /\ r.v = order

----------------------------------------------------------------------------

PathOf(manifest, i) == Clean(manifest[i].file)
PathsOf(manifest) == {PathOf(manifest, i) : i \in DOMAIN manifest}
\* No file is the root or lies below another one.
Sound(manifest) == /\ <<>> \notin PathsOf(manifest)
                   /\ \A p, q \in PathsOf(manifest) : p # q => ~IsStrictPrefix(p, q)
DirsOf(p) == {Place(p, k) : k \in 0..(Len(p) - 1)}
Above(manifest) == {<<>>} \union UNION {DirsOf(p) : p \in PathsOf(manifest)}
Below(manifest, d) == {p[Len(d) + 1] : p \in {p \in PathsOf(manifest) : IsStrictPrefix(d, p)}}
IsLast(manifest, p, i) == PathOf(manifest, i) = p /\ \A j \in DOMAIN manifest : j > i => PathOf(manifest, j) # p
LastEntry(manifest, p) == manifest[CHOOSE i \in DOMAIN manifest : IsLast(manifest, p, i)]

FileServed(b, p, e, n) ==
    LET content == SubSeq(b.data, e.start + 1, e.end)
        bs == bytes(b, p)
    IN  /\ Stat(b, p) = [err |-> "", info |-> [isDir |-> FALSE, exec |-> Executable(e.file), size |-> e.end - e.start]]
        /\ ReadsTo(bs, n, 0, content)
        /\ \A k \in 0..Len(content) :
              LET s == Seek(bs, n, -k, "end")
              IN  s.err = "" /\ ReadsTo(bs, n, s.off, SubSeq(content, Len(content) - k + 1, Len(content)))
\* A directory lists the names in it, and tells of each what looking it up tells.
DirServed(b, d, names, n) ==
    /\ Stat(b, d) = [err |-> "", info |-> [isDir |-> TRUE, exec |-> TRUE, size |-> 0]]
    /\ ReadDir(b, d) = [err |-> "", entries |-> [c \in names |-> Stat(b, Append(d, c)).info]]
    /\ \A order \in SetToSeqs(names) : Lists(order, n)

\* A range beyond the blob is refused.  Else there is a file for each path of the
\* manifest with the bytes of its last entry, a directory for each place above one, and
\* nothing else; in steps of n bytes or names everything is read once, in its order.
ManifestServed(manifest, data, n) ==
    LET b == loadBundleFS(manifest, data) IN
    /\ b.ok = \A i \in DOMAIN manifest : LET e == manifest[i] IN 0 <= e.start /\ e.start <= e.end /\ e.end <= Len(data)
    /\ b.ok /\ Sound(manifest) =>
        /\ DOMAIN b.nodes = PathsOf(manifest) \union Above(manifest)
        /\ \A p \in PathsOf(manifest) : FileServed(b, p, LastEntry(manifest, p), n)
        /\ \A d \in Above(manifest) : DirServed(b, d, Below(manifest, d), n)

\* The bundle serves what its manifest says, whatever it is read in steps of
\* (loadBundleFS, insert, ReadAt, Seek, ReadDir).
BundleServesManifest == sample.kind = "bundle" => ManifestServed(sample.manifest, Blob, sample.n)
=============================================================================
