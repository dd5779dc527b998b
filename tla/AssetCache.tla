----------------------------- MODULE AssetCache -----------------------------
(***************************************************************************)
(* The two caches below the user cache directory, shared by every process  *)
(* that opens a database: downloadAssets of assets.go with Fetch of        *)
(* pgassets.go fills the asset directory, compileCached of                 *)
(* backend_wasmtime.go keeps the compiled module.  Both stage under one    *)
(* fixed name, dir.tmp and path.tmp, and rename into place.  A step is one *)
(* operation on the host, so another process, a crash or a failing         *)
(* operation can come between any two.                                     *)
(*                                                                         *)
(* A process that holds a directory or a file open keeps it when another   *)
(* renames or removes it: `at` follows where that object is now.           *)
(***************************************************************************)
EXTENDS Naturals, Sequences

CONSTANTS
    Procs,      \* processes opening a database with Config.Download
    Files,      \* assetNames in the order Fetch writes them, the manifest last
    Data        \* pglite.data, whose size the manifest is checked against

Names == {Files[i] : i \in 1..Len(Files)}

ASSUME AssetAssumption ==
    /\ Files \in Seq(Names) /\ Len(Files) > 1
    /\ \A i, j \in 1..Len(Files) : Files[i] = Files[j] => i = j
    /\ Data \in Names /\ Data # Files[Len(Files)]

VARIABLES
    there,      \* whether the directory, dir or dir.tmp, exists
    holds,      \* the files in it: none, torn, short (truncated body) or whole
    image,      \* path and path.tmp: none, stale (another engine), torn, whole
    pc,         \* what each process does next
    i,          \* the file it is at
    todo,       \* the names its RemoveAll has listed and not yet unlinked
    at,         \* where the directory or file it holds open is now
    short,      \* the pglite.data it fetched was truncated
    raced,      \* processes have filled this cache at the same time (history)
    faulted     \* a process crashed or a write failed half-way (history)

vars == <<there, holds, image, pc, i, todo, at, short, raced, faulted>>
disk == <<there, holds, image>>

Dir == "dir"
InPlace == "dir"
Staging == "tmp"
Where == {"dir", "tmp"}

Fetching == {"clear", "unlink tmp", "mkdir", "get", "write", "replace", "unlink dir", "rename"}
Compiling == {"truncate", "store", "publish"}
Points == {"off", "check", "read", "load", "open"} \union Fetching \union Compiling

Init ==
    /\ there = [w \in Where |-> FALSE]
    /\ holds = [w \in Where |-> [n \in Names |-> "none"]]
    /\ \E old \in {"none", "stale"} : image = [w \in Where |-> IF w = Dir THEN old ELSE "none"]
    /\ pc = [p \in Procs |-> "off"]
    /\ i = [p \in Procs |-> 1]
    /\ todo = [p \in Procs |-> {}]
    /\ at = [p \in Procs |-> "gone"]
    /\ short = [p \in Procs |-> FALSE]
    /\ raced = {}
    /\ faulted = FALSE

----------------------------------------------------------------------------

\* What p leaves behind as it moves: nothing open and nothing listed.
Idle(p) == /\ at' = [at EXCEPT ![p] = "gone"]
           /\ todo' = [todo EXCEPT ![p] = {}]
Goto(p, point, file) == /\ pc' = [pc EXCEPT ![p] = point]
                        /\ i' = [i EXCEPT ![p] = file]
Enter(p, point) == Goto(p, point, 1) /\ Idle(p)
Returns(p) == Enter(p, "off") /\ short' = [short EXCEPT ![p] = FALSE]
Others(p, points) == \E q \in Procs \ {p} : pc[q] \in points
Races(p, cache, points) ==
    raced' = IF Others(p, points) THEN raced \union {cache} ELSE raced

Open(p) ==
    /\ pc[p] = "off"
    /\ Enter(p, "check")
    /\ UNCHANGED <<disk, short, raced, faulted>>

----------------------------------------------------------------------------
(* assetsComplete and downloadAssets.                                      *)

\* One os.Stat; the first name that is missing decides.
CheckFile(p) ==
    /\ pc[p] = "check"
    /\ IF holds[Dir][Files[i[p]]] = "none"
       THEN Enter(p, "clear") /\ Races(p, "assets", Fetching)
       ELSE /\ IF i[p] < Len(Files) THEN Goto(p, "check", i[p] + 1) ELSE Goto(p, "read", 1)
            /\ UNCHANGED <<at, todo, raced>>
    /\ UNCHANGED <<disk, short, faulted>>

\* os.RemoveAll lists the directory it has opened, unlinks what it listed and
\* removes the directory by name, which fails when it has filled again.
RemoveAll(p, from, w, unlinking, then) ==
    /\ pc[p] = from
    /\ IF there[w]
       THEN /\ Goto(p, unlinking, 1)
            /\ at' = [at EXCEPT ![p] = w]
            /\ todo' = [todo EXCEPT ![p] = {n \in Names : holds[w][n] # "none"}]
       ELSE Enter(p, then)
    /\ UNCHANGED <<disk, short, raced, faulted>>

ClearStaging(p) == RemoveAll(p, "clear", Staging, "unlink tmp", "mkdir")
ClearDir(p) == RemoveAll(p, "replace", Dir, "unlink dir", "rename")

Writes(q, n) == pc[q] = "write" /\ Files[i[q]] = n
Unlink(p) ==
    /\ pc[p] \in {"unlink tmp", "unlink dir"}
    /\ \E n \in todo[p] :
          /\ todo' = [todo EXCEPT ![p] = @ \ {n}]
          /\ IF at[p] = "gone" THEN UNCHANGED <<holds, at>>
             ELSE /\ holds' = [holds EXCEPT ![at[p]][n] = "none"]
                  /\ at' = [q \in Procs |-> IF at[q] = at[p] /\ Writes(q, n) THEN "gone" ELSE at[q]]
    /\ UNCHANGED <<there, image, pc, i, short, raced, faulted>>

Empty(w) == \A n \in Names : holds[w][n] = "none"
RemoveDir(p, w, unlinking, then, refused(_)) ==
    /\ pc[p] = unlinking /\ todo[p] = {}
    /\ IF there[w] /\ ~Empty(w)
       THEN refused(p) /\ UNCHANGED there
       ELSE /\ there' = [there EXCEPT ![w] = FALSE]
            /\ Goto(p, then, 1)
            /\ at' = [q \in Procs |-> IF q = p \/ (at[q] = w /\ pc[q] \notin Compiling)
                                      THEN "gone" ELSE at[q]]
            /\ UNCHANGED <<todo, short>>
    /\ UNCHANGED <<holds, image, raced, faulted>>

\* A staging directory that cannot be removed fails the download; the error
\* of removing the old cache is dropped and the rename decides.
RemoveStaging(p) == RemoveDir(p, Staging, "unlink tmp", "mkdir", Returns)
RemoveOld(p) ==
    RemoveDir(p, Dir, "unlink dir", "rename", LAMBDA q : Enter(q, "rename") /\ UNCHANGED short)

MkdirStaging(p) ==
    /\ pc[p] = "mkdir"
    /\ there' = [there EXCEPT ![Staging] = TRUE]
    /\ Enter(p, "get")
    /\ UNCHANGED <<holds, image, short, raced, faulted>>

----------------------------------------------------------------------------
(* Fetch: one GET and one os.WriteFile per file.                           *)

\* extractManifest refuses a pglite.data of another size than the glue gives.
Refused(p) == short[p] /\ i[p] = Len(Files)

\* The GET succeeds and the file is created or truncated in the staging
\* directory, if that still exists.
GetFile(p) ==
    /\ pc[p] = "get" /\ ~Refused(p) /\ there[Staging]
    /\ holds' = [holds EXCEPT ![Staging][Files[i[p]]] = "torn"]
    /\ at' = [at EXCEPT ![p] = Staging]
    /\ pc' = [pc EXCEPT ![p] = "write"]
    /\ \E truncated \in IF Files[i[p]] = Data THEN BOOLEAN ELSE {short[p]} :
          short' = [short EXCEPT ![p] = truncated]
    /\ UNCHANGED <<there, image, i, todo, raced, faulted>>

WriteFileUnflushed(p) ==
    /\ pc[p] = "write"
    /\ IF i[p] < Len(Files) THEN Goto(p, "get", i[p] + 1) ELSE Goto(p, "replace", 1)
    /\ at' = [at EXCEPT ![p] = "gone"]
    /\ UNCHANGED <<disk, todo, short, raced, faulted>>
WriteFile(p) ==
    /\ pc[p] = "write"
    /\ IF at[p] = "gone" THEN UNCHANGED holds
       ELSE holds' = [holds EXCEPT ![at[p]][Files[i[p]]] =
                        IF Files[i[p]] = Data /\ short[p] THEN "short" ELSE "whole"]
    /\ IF i[p] < Len(Files) THEN Goto(p, "get", i[p] + 1) ELSE Goto(p, "replace", 1)
    /\ at' = [at EXCEPT ![p] = "gone"]
    /\ UNCHANGED <<there, image, todo, short, raced, faulted>>

\* A GET, a create or the validation fails: Open returns the error and what is
\* staged stays behind.
FetchFails(p) ==
    /\ pc[p] \in {"clear", "mkdir", "get"}
    /\ Returns(p)
    /\ UNCHANGED <<disk, raced, faulted>>

\* os.Rename refuses a directory in the way of a directory.
RenameStaging(p) ==
    /\ pc[p] = "rename"
    /\ IF there[Staging] /\ ~there[Dir]
       THEN /\ there' = [there EXCEPT ![Dir] = TRUE, ![Staging] = FALSE]
            /\ holds' = [holds EXCEPT ![Dir] = holds[Staging],
                                      ![Staging] = [n \in Names |-> "none"]]
            /\ at' = [q \in Procs |-> IF at[q] = Staging /\ pc[q] \notin Compiling
                                      THEN Dir ELSE at[q]]
            /\ Goto(p, "read", 1)
            /\ UNCHANGED <<todo, short>>
       ELSE Returns(p) /\ UNCHANGED <<there, holds>>
    /\ UNCHANGED <<image, raced, faulted>>

----------------------------------------------------------------------------
(* Open reads the artifacts by name, one after the other.  One that is      *)
(* missing or not whole fails it: a wasm that does not compile, a manifest  *)
(* that does not parse or does not fit its data.                            *)

ReadAsset(p) ==
    /\ pc[p] = "read"
    /\ IF holds[Dir][Files[i[p]]] # "whole" THEN Returns(p)
       ELSE /\ IF i[p] < Len(Files) THEN Goto(p, "read", i[p] + 1) ELSE Goto(p, "load", 1)
            /\ UNCHANGED <<at, todo, short>>
    /\ UNCHANGED <<disk, raced, faulted>>

----------------------------------------------------------------------------
(* compileCached.  The engine refuses an image that is torn or was made by  *)
(* another version of it, and the module is compiled again.                 *)

Load(p) ==
    /\ pc[p] = "load"
    /\ IF image[Dir] = "whole" THEN Enter(p, "open") /\ UNCHANGED raced
       ELSE Enter(p, "truncate") /\ Races(p, "image", Compiling)
    /\ UNCHANGED <<disk, short, faulted>>

TruncateImage(p) ==
    /\ pc[p] = "truncate"
    /\ image' = [image EXCEPT ![Staging] = "torn"]
    /\ Goto(p, "store", 1)
    /\ at' = [at EXCEPT ![p] = Staging]
    /\ UNCHANGED <<there, holds, todo, short, raced, faulted>>

StoreImage(p) ==
    /\ pc[p] = "store"
    /\ IF at[p] = "gone" THEN UNCHANGED image
       ELSE image' = [image EXCEPT ![at[p]] = "whole"]
    /\ Enter(p, "publish")
    /\ UNCHANGED <<there, holds, short, raced, faulted>>

\* rename(2) replaces what was at path; without a path.tmp it fails and the
\* error is dropped.
PublishImage(p) ==
    /\ pc[p] = "publish"
    /\ Goto(p, "open", 1)
    /\ IF image[Staging] = "none" THEN UNCHANGED <<image, at>>
       ELSE /\ image' = [image EXCEPT ![Dir] = image[Staging], ![Staging] = "none"]
            /\ at' = [q \in Procs |-> IF pc[q] # "store" THEN at[q]
                                      ELSE IF at[q] = Staging THEN Dir ELSE "gone"]
    /\ UNCHANGED <<there, holds, todo, short, raced, faulted>>

\* The file cannot be created: the module runs uncached.
ImageFails(p) ==
    /\ pc[p] = "truncate"
    /\ Enter(p, "open")
    /\ UNCHANGED <<disk, short, raced, faulted>>

----------------------------------------------------------------------------

\* A write that fails half-way leaves the file torn.
WriteFails(p) ==
    /\ pc[p] \in {"write", "store"}
    /\ IF pc[p] = "write" THEN Returns(p) ELSE Enter(p, "open") /\ UNCHANGED short
    /\ faulted' = TRUE
    /\ UNCHANGED <<disk, raced>>

\* The process dies, or a running one ends.
Crash(p) ==
    /\ pc[p] # "off"
    /\ Returns(p)
    /\ faulted' = (faulted \/ pc[p] \in {"write", "store"})
    /\ UNCHANGED <<disk, raced>>

Step(p) ==
    \/ Open(p) \/ CheckFile(p)
    \/ ClearStaging(p) \/ ClearDir(p) \/ Unlink(p) \/ RemoveStaging(p) \/ RemoveOld(p)
    \/ MkdirStaging(p) \/ GetFile(p) \/ WriteFile(p) \/ FetchFails(p) \/ RenameStaging(p)
    \/ ReadAsset(p)
    \/ Load(p) \/ TruncateImage(p) \/ StoreImage(p) \/ PublishImage(p) \/ ImageFails(p)
    \/ WriteFails(p) \/ Crash(p)
Next == \E p \in Procs : Step(p)

Spec == Init /\ [][Next]_vars

----------------------------------------------------------------------------
(* Properties.                                                             *)

assetsComplete == \A n \in Names : holds[Dir][n] # "none"
Whole == \A n \in Names : holds[Dir][n] = "whole"

\* A partial fetch never looks complete (assets.go:58), and what looks complete
\* stays: as long as no two processes downloaded at the same time, a directory in
\* which every name exists holds every file whole, whatever crashed or failed
\* before, and a process that was told so finds each file it has still to read in
\* place and whole, although others check, download and remove meanwhile.  Nor
\* does path hold a torn image unless two processes wrote path.tmp together.
LooksCompleteIsWhole ==
    /\ "assets" \notin raced =>
          /\ assetsComplete => Whole
          /\ \A p \in Procs : pc[p] = "read" =>
                \A j \in i[p]..Len(Files) : holds[Dir][Files[j]] = "whole"
    /\ "image" \notin raced => image[Dir] # "torn"

\* Even processes that race in one staging directory or one path.tmp heal what
\* they published: while none has died writing, whatever is torn at the final
\* name is open in a process that is about to complete it.
TornIsBeingWritten ==
    ~faulted =>
        /\ \A n \in Names : holds[Dir][n] = "torn" =>
              \E p \in Procs : at[p] = Dir /\ Writes(p, n)
        /\ image[Dir] = "torn" => \E p \in Procs : at[p] = Dir /\ pc[p] = "store"
============================================================================
