------------------------------ MODULE Persist ------------------------------
(***************************************************************************)
(* The life of clusters over one host directory: Open, Sync and Close of   *)
(* pglite.go with SaveSubtree and LoadSubtree of vfs/persist.go, one host  *)
(* file operation per step, so that a crash, a failing operation or        *)
(* another process using the same directory can come between any two.      *)
(*                                                                         *)
(* A tree maps the paths it contains to their content.  saveNode and       *)
(* fs.WalkDir visit a tree in one order: a directory comes before its      *)
(* entries and entries are sorted by name.  Rank is that order and `todo`  *)
(* what a walk has met and not yet visited.                                *)
(***************************************************************************)
EXTENDS Naturals, Functions

CONSTANTS
    Dbs,         \* processes that open the same persistDir
    Root,        \* the data directory
    Paths,       \* the paths that can exist below it
    Parent,      \* the directory of each path
    Rank,        \* its place in the order of a walk
    Dirs,        \* which paths are directories
    Essential,   \* PG_VERSION and global/pg_control
    Marker,      \* PG_VERSION, all that isPersistedCluster looks at
    Initial,     \* the paths initdb creates
    MaxVersion   \* bound on the changes of a file's content

Everything == Paths \union {Root}

ASSUME PersistAssumption ==
    /\ Root \notin Paths
    /\ Dirs \subseteq Paths
    /\ Parent \in [Paths -> {Root} \union Dirs]
    /\ Rank \in [Everything -> Nat]
    /\ \A p \in Paths : Rank[Parent[p]] < Rank[p]
    /\ \A p, q \in Everything : Rank[p] = Rank[q] => p = q
    /\ Marker \in Essential /\ Essential \subseteq Initial \ Dirs
    /\ Initial \subseteq Paths
    /\ \A p \in Initial : Parent[p] \in Initial \union {Root}
    /\ MaxVersion \in Nat

VARIABLES
    host,       \* the tree at persistDir, Root included when it exists
    mem,        \* the data directory in each process's VFS
    pc,         \* where each process is
    todo,       \* what its walk has still to visit
    saving,     \* the call that a save belongs to
    result,     \* how the last Open, Sync or Close ended
    disturbed,  \* another process changed the host during this walk (history)
    kept,       \* the cluster of the last complete undisturbed save (history)
    saved       \* a save has been completed by a running database (history)

vars == <<host, mem, pc, todo, saving, result, disturbed, kept, saved>>

\* The content of a file is a version; an interrupted write leaves a torn one.
Dir == MaxVersion + 1
Torn == MaxVersion + 2
Content == 0..Torn
IsDir(p) == p = Root \/ p \in Dirs
IsTree(t) ==
    /\ DOMAIN t \subseteq Everything /\ t \in [DOMAIN t -> Content]
    /\ \A p \in DOMAIN t : IsDir(p) <=> t[p] = Dir
    /\ \A p \in DOMAIN t \ {Root} : Parent[p] \in DOMAIN t
NoTree == [p \in {} |-> Dir]

Saving == {"clear", "mkroot", "copy", "writing"}
Points == {"off", "load", "running"} \union Saving

TypeOK ==
    /\ IsTree(host)
    /\ DOMAIN mem = Dbs /\ \A d \in Dbs : IsTree(mem[d])
    /\ pc \in [Dbs -> Points]
    /\ todo \in [Dbs -> SUBSET Everything]
    /\ saving \in [Dbs -> {"none", "open", "sync", "close"}]
    /\ result \in [Dbs -> {"none", "ok", "error"}]
    /\ disturbed \in [Dbs -> BOOLEAN]
    /\ IsTree(kept)
    /\ \A d \in Dbs : pc[d] \in Saving <=> saving[d] # "none"
    /\ saved \in BOOLEAN

Init ==
    /\ host = NoTree
    /\ mem = [d \in Dbs |-> NoTree]
    /\ pc = [d \in Dbs |-> "off"]
    /\ todo = [d \in Dbs |-> {}]
    /\ saving = [d \in Dbs |-> "none"]
    /\ result = [d \in Dbs |-> "none"]
    /\ disturbed = [d \in Dbs |-> FALSE]
    /\ kept = NoTree
    /\ saved = FALSE

----------------------------------------------------------------------------

With(tree, p, content) ==
    [q \in DOMAIN tree \union {p} |-> IF q = p THEN content ELSE tree[q]]
Without(tree, p) == Restrict(tree, DOMAIN tree \ {p})

Entries(tree, dir) == {p \in DOMAIN tree \ {Root} : Parent[p] = dir}
IsNext(d, p) == p \in todo[d] /\ \A q \in todo[d] : Rank[p] <= Rank[q]
Goto(d, point) == pc' = [pc EXCEPT ![d] = point]
Ends(d, r) == result' = [result EXCEPT ![d] = r]

\* A step of d changes the host: whoever else is walking it is disturbed, and
\* what an earlier save left is no longer the last word.
Touches(d) ==
    /\ disturbed' = [e \in Dbs |-> disturbed[e] \/ (e # d /\ pc[e] \in Saving \union {"load"})]
    /\ kept' = NoTree
    /\ UNCHANGED saved
Untouched == UNCHANGED <<host, disturbed, kept, saved>>

\* A walk begins: it is disturbed from the start if another is changing the host.
BeginWalk(d) == disturbed' = [disturbed EXCEPT ![d] = \E e \in Dbs \ {d} : pc[e] \in Saving]

\* The process gives its database up: Close, or an Open that failed.
Off(d, r) ==
    /\ Goto(d, "off") /\ Ends(d, r)
    /\ mem' = [mem EXCEPT ![d] = NoTree]
    /\ todo' = [todo EXCEPT ![d] = {}]
    /\ saving' = [saving EXCEPT ![d] = "none"]

----------------------------------------------------------------------------
(* Open.                                                                   *)

isPersistedCluster == Marker \in DOMAIN host

Load(d) ==
    /\ pc[d] = "off" /\ isPersistedCluster
    /\ Goto(d, "load") /\ Ends(d, "none")
    /\ mem' = [mem EXCEPT ![d] = NoTree]
    /\ todo' = [todo EXCEPT ![d] = {Root}]
    /\ BeginWalk(d)
    /\ UNCHANGED <<host, saving, kept, saved>>

\* Otherwise initdb, whose exit code is ignored: its outcome counts if it left
\* the essential files.
BeginSave(d, call) ==
    /\ Goto(d, "clear")
    /\ saving' = [saving EXCEPT ![d] = call]
    /\ BeginWalk(d)
Initdb(d) ==
    /\ pc[d] = "off" /\ ~isPersistedCluster
    /\ \E S \in {Initial} \union {Initial \ {p} : p \in Essential} :
          IF Essential \subseteq S
          THEN /\ mem' = [mem EXCEPT ![d] =
                        [p \in S \union {Root} |-> IF IsDir(p) THEN Dir ELSE 0]]
               /\ BeginSave(d, "open") /\ Ends(d, "none")
               /\ UNCHANGED <<host, todo, kept, saved>>
          ELSE Off(d, "error") /\ Untouched

LoadEntryWithoutDescending(d) ==
    /\ pc[d] = "load"
    /\ \E p \in DOMAIN host :
          /\ IsNext(d, p)
          /\ mem' = [mem EXCEPT ![d] = With(@, p, host[p])]
          /\ todo' = [todo EXCEPT ![d] = IF p = Root THEN Entries(host, p) ELSE @ \ {p}]
    /\ UNCHANGED <<pc, saving, result>> /\ Untouched

\* LoadSubtree: the walk meets the next entry.  One that has vanished since its
\* directory was listed, or cannot be read, makes Open fail.
LoadEntry(d) ==
    /\ pc[d] = "load"
    /\ \E p \in DOMAIN host :
          /\ IsNext(d, p)
          /\ mem' = [mem EXCEPT ![d] = With(@, p, host[p])]
          /\ todo' = [todo EXCEPT ![d] = (@ \ {p}) \union Entries(host, p)]
    /\ UNCHANGED <<pc, saving, result>> /\ Untouched
LoadFails(d) ==
    /\ pc[d] = "load"
    /\ Off(d, "error") /\ Untouched

\* startWire, on what was loaded or created.  PostgreSQL reads PG_VERSION and the
\* control file before anything else and does not start without them.
StartWire(d) ==
    /\ pc[d] = "load" /\ todo[d] = {}
    /\ Essential \subseteq DOMAIN mem[d]
    /\ Goto(d, "running") /\ Ends(d, "ok")
    /\ UNCHANGED <<mem, todo, saving>> /\ Untouched

----------------------------------------------------------------------------
(* A running database.                                                     *)

\* The backend writes, creates or removes a file of the data directory.
Backend(d) ==
    /\ pc[d] = "running"
    /\ \E p \in Paths \ Dirs :
          \/ /\ Parent[p] \in DOMAIN mem[d]
             /\ \E v \in 0..MaxVersion : mem' = [mem EXCEPT ![d] = With(@, p, v)]
          \/ /\ p \in DOMAIN mem[d] \ Essential
             /\ mem' = [mem EXCEPT ![d] = Without(@, p)]
    /\ UNCHANGED <<pc, todo, saving, result>> /\ Untouched

Sync(d) ==
    /\ pc[d] = "running"
    /\ BeginSave(d, "sync") /\ Ends(d, "none")
    /\ UNCHANGED <<host, mem, todo, kept, saved>>
Close(d) ==
    /\ pc[d] = "running"
    /\ BeginSave(d, "close") /\ Ends(d, "none")
    /\ UNCHANGED <<host, mem, todo, kept, saved>>

\* SaveSubtree returns to Open, which has its backend to start, Sync or Close.
SaveReturns(d, r) ==
    IF saving[d] = "close" \/ (saving[d] = "open" /\ r = "error")
    THEN Off(d, r)
    ELSE /\ Goto(d, IF saving[d] = "open" THEN "load" ELSE "running") /\ Ends(d, r)
         /\ todo' = [todo EXCEPT ![d] = {}]
         /\ saving' = [saving EXCEPT ![d] = "none"]
         /\ UNCHANGED mem

\* os.RemoveAll: entries first, in no particular order.
RemoveEntry(d) ==
    /\ pc[d] = "clear"
    /\ \E p \in DOMAIN host :
          /\ Entries(host, p) = {}
          /\ host' = Without(host, p)
    /\ Touches(d)
    /\ UNCHANGED <<mem, pc, todo, saving, result>>
ClearedWithoutRemoving(d) ==
    /\ pc[d] = "clear"
    /\ Goto(d, "mkroot")
    /\ UNCHANGED <<mem, todo, saving, result>> /\ Untouched
Cleared(d) ==
    /\ pc[d] = "clear" /\ host = NoTree
    /\ Goto(d, "mkroot")
    /\ UNCHANGED <<mem, todo, saving, result>> /\ Untouched

\* os.MkdirAll(hostDir).  saveNode will visit all of the tree in memory, which
\* cannot change meanwhile: the backend waits for db.mu, the VFS is locked.
MakeRoot(d) ==
    /\ pc[d] = "mkroot"
    /\ host' = With(host, Root, Dir)
    /\ Goto(d, "copy")
    /\ todo' = [todo EXCEPT ![d] = DOMAIN mem[d] \ {Root}]
    /\ Touches(d)
    /\ UNCHANGED <<mem, saving, result>>

\* os.MkdirAll makes a directory, and again those above it that another process
\* has removed.
Above(p) ==
    {q \in Everything : \A S \in SUBSET Everything :
        p \in S /\ (\A r \in S \ {Root} : Parent[r] \in S) => q \in S}
WithDirs(tree, D) == [q \in DOMAIN tree \union D |-> IF q \in D THEN Dir ELSE tree[q]]

\* saveNode makes the next directory, ...
SaveDir(d) ==
    /\ pc[d] = "copy"
    /\ \E p \in Dirs :
          /\ IsNext(d, p)
          /\ host' = WithDirs(host, Above(p))
          /\ todo' = [todo EXCEPT ![d] = @ \ {p}]
    /\ Touches(d)
    /\ UNCHANGED <<mem, pc, saving, result>>

\* ... or creates the next file with os.WriteFile, ...
CreateFile(d) ==
    /\ pc[d] = "copy"
    /\ \E p \in Paths \ Dirs :
          /\ IsNext(d, p) /\ Parent[p] \in DOMAIN host
          /\ host' = With(host, p, Torn)
    /\ Goto(d, "writing")
    /\ Touches(d)
    /\ UNCHANGED <<mem, todo, saving, result>>

\* ... and writes its bytes, into the void if another process has removed it.
WriteFile(d) ==
    /\ pc[d] = "writing"
    /\ \E p \in Paths \ Dirs :
          /\ IsNext(d, p)
          /\ host' = IF p \in DOMAIN host THEN With(host, p, mem[d][p]) ELSE host
          /\ todo' = [todo EXCEPT ![d] = @ \ {p}]
    /\ Goto(d, "copy")
    /\ Touches(d)
    /\ UNCHANGED <<mem, saving, result>>

SaveDone(d) ==
    /\ pc[d] = "copy" /\ todo[d] = {}
    /\ SaveReturns(d, "ok")
    /\ kept' = IF disturbed[d] THEN NoTree ELSE mem[d]
    /\ saved' = TRUE
    /\ UNCHANGED <<host, disturbed>>

\* Any host operation may fail: the save stops where it is.
SaveFailsSilently(d) ==
    /\ pc[d] \in Saving
    /\ SaveReturns(d, "ok") /\ Untouched
SaveFails(d) ==
    /\ pc[d] \in Saving
    /\ SaveReturns(d, "error") /\ Untouched

\* The process dies; the host directory is all that is left of it.
Crash(d) ==
    /\ pc[d] # "off"
    /\ Off(d, "none") /\ Untouched

----------------------------------------------------------------------------

SaveStep(d) ==
    \/ RemoveEntry(d) \/ Cleared(d) \/ MakeRoot(d) \/ SaveDir(d)
    \/ CreateFile(d) \/ WriteFile(d) \/ SaveDone(d)

Next == \E d \in Dbs :
    \/ Load(d) \/ Initdb(d) \/ LoadEntry(d) \/ LoadFails(d) \/ StartWire(d)
    \/ Backend(d) \/ Sync(d) \/ Close(d) \/ SaveStep(d) \/ SaveFails(d) \/ Crash(d)

Spec == Init /\ [][Next]_vars

----------------------------------------------------------------------------
(* Safety.                                                                 *)

\* What a complete save left is on the host, entry for entry and byte for byte:
\* nothing of an older cluster survives beside it and nothing touches it until
\* the next save begins, whatever crashes or fails in between.
SavedIsOnHost == kept # NoTree => host = kept

\* An Open that follows it loads exactly that cluster, empty directories
\* included.
ReopenedIsSaved ==
    \A d \in Dbs :
        pc[d] = "load" /\ todo[d] = {} /\ kept # NoTree /\ ~disturbed[d] => mem[d] = kept

\* A Sync, Close or first Open that reports success has left its cluster on the
\* host, even after saves that failed or crashed half-way, unless another
\* process worked on the directory at the same time.
SuccessIsSaved ==
    [][\A d \in Dbs :
          pc[d] \in Saving /\ result'[d] = "ok" /\ ~disturbed[d] => host' = mem[d]]_vars
============================================================================
