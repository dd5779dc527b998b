# Verification of pglite-go

pglite-go runs PostgreSQL, compiled to WebAssembly by PGlite, inside a Go process. One backend
session lives in one wasm instance; the Go code is both its operating system (files, memory,
callbacks) and its client (the wire protocol). This directory holds TLA+ models of that Go code,
the TLC configurations that check them and TLAPS proofs about them.

## 1. Inventory

| Component | State it keeps | Operations | Talks to |
|---|---|---|---|
| **Connection to the backend** `wire.go` (`wireConn`) | `out`/`off` (staged request, bytes read), `in` (captured reply), `tx` | `startWire`, `exec`, `simpleQuery`, `extendedQuery`, `close`; codecs | wasm exports `PostgresMainLoopOnce`, `PostgresMainLongJmp`, `pq_buffer_remaining_data`, `pgl_pq_flush`; the backend calls back `read`/`write` |
| **Database handle** `pglite.go`, `query.go` (`DB`) | `mu`, `wire` (nil once closed), `vfs`, `persistDir` | `Open`, `Query`, `QueryParams`, `Exec`, `Sync`, `Close` | wireConn, VFS, persistence |
| **Served connections** `serveconn.go` | per connection: startup state, batch of pipelined messages; holds `db.mu` for its life | `ServeConn`, `serveStartup`, `sendStartupResponse`, message loop | the same wireConn, raw relay of replies |
| **Initdb bridge** `cluster.go` | `lastPgResult`, `pendingPgArgs`, `capturedStdout`, shared by callbacks | `runInitdb`, `runPostgres`, `insertDataDir`, `readVFS` | initdb's `system`/`popen`/`pclose` callbacks; VFS |
| **Overlay file system** `vfs/vfs.go`, `vfs/memfs.go`, `vfs/file.go` | upper `MemFS` tree, whiteouts, cwd, fd table (a `Dup` copies the offset) | `Open`, `Read`, `Write`, `Pread`, `Pwrite`, `Seek`, `Mkdir*`, `Unlink`, `Rmdir`, `Rename`, `Truncate`, `Dup*`, `Stat*`, `ReadDir` | the lower read-only `fs.FS` (the bundle) |
| **Host persistence** `vfs/persist.go` | a host directory | `SaveSubtree` (remove all, then write), `LoadSubtree` | `Open`, `Sync`, `Close` |
| **Bundle layer** `bundlefs.go` | index of `pglite.data` | `fs.FS` reads | lower layer of the overlay |
| **Syscalls over the VFS** `emscripten/emsyscall.go`, `wasi.go` | none but the fd table's and `getdents64`'s cursor | `getdents64`, `*at` calls, `dup*`, `fd_read`/`fd_write`/`fd_pread`/`fd_pwrite` | VFS |
| **Runtime callbacks** `emscripten/syscall.go`, `systemcb.go` | timers, heap size | stubs, `ParseSystemCommand` | wasm memory |
| **Engine ports** `wasmtime_port.go`, `wazero_port.go`, `aot_*.go`, `backend_*.go` | instances, callback table slots, saved stack pointer | `invoke_*` trampolines, `CallExport*`, callback registration | engines, memory |
| **Assets and caches** `assets*.go`, `internal/pgassets`, `compileCached` | a cache directory shared by processes | resolve, download, stage, rename | network, host files |
| **SQL driver** `pgdriver/driver.go` | clusters by DSN (never closed) | `Open`, `Exec`, `Query`, `Begin`, `Commit`, `Rollback` | `DB` |
| **wasm passes** `internal/wasmpass`, `patch.go`, `wasm.go`, `dylink.go` | a decoded module | strip exports, prelink, find what may longjmp, instrument | build time only |
| **Tools** `internal/genaot`, `fetchwasm`, `cmd/*` | none | code generation, download, command line | |

What makes this system hard:

* **One session, many callers.** Goroutines that call the API and goroutines that serve
  sockets share one PostgreSQL session: its transaction status, its unnamed prepared statement
  and its "ignore until Sync" flag outlive whoever left them behind.
* **Errors that unwind the host.** An ERROR leaves `PostgresMainLoopOnce` as a wasm exception or
  as `exit(100)` in the middle of a pipelined batch, and the pump has to go on exactly there.
* **Handshakes without the lock, connections with it.** `ServeConn` answers the SSL negotiation
  before it takes `db.mu` and then keeps it until the client leaves.
* **Persistence that rewrites a directory in place.** A crash between two file operations of
  `SaveSubtree`, or a failing one, leaves a host directory that the next `Open` interprets.
* **A longjmp without exceptions.** The transpiled backend has no traps: a longjmp is a flag, and every
  frame on the way has to look at it and return.
* **A writable file system over a read-only one.** Copy-up, whiteouts and open descriptors must
  together look like one plain file system.
* **Caches that processes share.** Every process downloads and compiles into the same directory,
  through one fixed temporary name, and takes a file that exists for a file that is complete.
* **One of everything for initdb.** All pipes of initdb share one pending command, one result, one
  capture of its output and one file.
* **A pool over one session.** `database/sql` hands out connections as if each had a session of its
  own; here all connections of a DSN have the same one.
* **Bytes in two widths.** Modules, protocol messages and guest memory are read and rewritten by
  hand-written codecs over 32- and 64-bit integers.

## 2. Modules

Protocol and database handle:

| Module | Models | State ↔ code |
|---|---|---|
| `PgBackend` | the wasm backend as `wire.go` uses it (external): what one protocol message does to the session, when an ERROR is raised, what `PostgresMainLongJmp` restores | `tx`, `skip` = ignore until Sync, `rfq` = ReadyForQuery owed, `prepared` = the unnamed statement, `buffered` = committed, and maybe only in the backend's buffers, `unsaved` = in the VFS and not on the host |
| `Wire` | the body of `wireConn.exec` as steps: loop test, reads of `Chunk` bytes, `PostgresMainLoopOnce` (returns, raises in either form, exits), recovery, which may fail itself (`RecoverFails`), flush | `out`, `off`, `in`, `tx` are the fields; `pump` is the control point; `cons` the messages the backend has taken |
| `AtomicSession` | abstract: what one call of `exec` promises, the request answered message by message in one step, or the exit of the backend at one of its messages with the effect of those before it | `phase`, `req`, `session`, `alive`, `reply`; actions `Submit`, `Answer`, `Exit`, `Refuse`, `Forget` |
| `WireExec` | `exec` on its own, shown to implement `AtomicSession` | adds `pg0`, the session when the request came |
| `Session` | one open `DB`: `Query`, `QueryParams`, `Exec`, `Sync`, `Close` by goroutines (`Users`) and `ServeConn` by connections (`Clients`), sharing `db.mu` and one `Wire` | `mu`, `open` (`db.wire # nil`), `pc` per goroutine, `call`/`result`, per connection `hello`, `batch`, `told`; `refused` records for the properties that CHECKPOINT could not flush |
| `WireCodec` | the message builders of `wire.go` and the decoders of rows, types, errors and command tags, on bytes | none: functions |
| `WireReference` | what `WireCodec` is compared with: the server's side, what it takes from a request and the bytes it answers with | |
| `Driver` | `pgdriver`: clusters by DSN under their lock, connections that are pointers to one cluster, `Begin`, `Commit`, `Rollback`, statements; the pool of `database/sql` is external | `mu`, `clusters` are the driver's; `status`, `work`, `data` what the session of a DSN has open and committed; `pc`, `pool` per user |

Files:

| Module | Models | State ↔ code |
|---|---|---|
| `Persist` | `Open`, `Sync`, `Close` of several processes over one host directory, `SaveSubtree`/`LoadSubtree` one host operation per step, with failing operations and crashes | `host` and `mem[d]` are trees, `todo[d]` is what `saveNode`/`WalkDir` has met and not visited |
| `PlainFs` | abstract: one file system without layers | tree, file contents, descriptors |
| `Overlay` | `vfs.FS` over `memFS` and a read-only lower layer: lookup, copy-up, whiteouts, open files, all name operations; shown to implement `PlainFs` | `upper` is the `memFS` tree flattened to paths, `content` the bytes of upper nodes, `fds` the table |
| `ByteFile` | abstract: one file of bytes and one directory in the manner of POSIX; a vectored transfer is one transfer, holes read as zero, a scan gives each entry once | content, descriptors, entries owed to a scan |
| `Files` | `fd_read`, `fd_write`, `fd_pread`, `fd_pwrite`, `fd_seek` (`wasi.go`), `dup`, `ftruncate64`, `getdents64` (`emsyscall.go`) over the descriptors of `vfs.go` and the growing buffer of `file.go`; shown to implement `ByteFile` | `data` is `node.Data`, `spare` what its array holds beyond, `fds` the table with offsets, `stdin` is `stdinPos`, `reply` what the call writes for its caller |
| `BundleFs` | `bundlefs.go`: a manifest becomes an `fs.FS` over one blob; `Open`, `Stat`, `ReadDir`, reads and seeks of opened files; its second half is what that is compared with: what a manifest says of files and directories | none: functions; `nodes` is the table by name, a directory's `children` a copy of what is told of each entry, because the code writes the two apart |
| `AssetCache` | `downloadAssets` with `Fetch` and `compileCached`, for several processes on one cache directory, one host operation per step, with crashes, failing requests, truncated bodies and failing writes | `there`, `holds` are `dir` and `dir.tmp`, `image` is `path` and `path.tmp`; `pc`, `i`, `todo` the place of a process in the code; `at` where the directory or file it holds open is now |

Initdb and the wasm host:

| Module | Models | State ↔ code |
|---|---|---|
| `InitdbBridge` | the `system`, `popen` and `pclose` callbacks of `runInitdb`; initdb is external and calls them in any order | the variables of `runInitdb`: `lastPgResult`, `pendingPgArgs`, `capturedStdout`, and the file `.popen_output`; per call `stage`, `wrote`, `input`, `code`, `told` |
| `Commands` | `ParseSystemCommand` and `insertDataDir` on pieces of a command line; its second half is what they are compared with: what a shell and getopt make of a command | none: functions |
| `Sjlj` | abstract: a longjmp takes every frame above the one that called setjmp off in one step, and that frame goes on with its own stack pointer | frames, shadow stack in use |
| `MayLongjmp` | `mayLongjmpSet` of `wasmpass`, the worklist that finds the functions a longjmp may pass, and the choice of guarded calls in `Instrument` | `prog` is the call graph of the module, `set` and `work` are the variables of the same name |
| `Longjmp` | programs so instrumented, and the same programs on an engine: calls through `invoke_*`, the throwing import, guards, `CallExportRaw`, `exit()`; shown to implement `Sjlj` | `stack` the wasm frames, `sp` is `__stack_pointer`, `threw` is `__THREW__`, `backend` which of the two it is; `jump` records the longjmp in progress for the properties |
| `WasmBinary` | `wasmpass/wasm.go`: LEB128, cursors, all sections read and written | none: functions on bytes |
| `WasmPasses` | `StripExports`, `Prelink`, `Instrument` on those modules | none |
| `HostModules` | `patch.go`, `dylink.go`, `wasm.go`: the patched main module, the modules generated beside it, table slots of the callbacks, the refusal of a module whose `dylink.0` cannot be read | none |
| `GuestMemory` | the memory bridges of the engines, `CallMain` on all three, strings, `stdin` and the wire streams in guest memory | a guest is its memory and its stack pointer |
| `WasmReference`, `HostReference`, `CallReference` | what these are compared with: numbers as WebAssembly defines them, modules as a compiler writes them, instruction lists; a guest that finds what it imports; what a guest reads | |
| `Samples` | the one input an algorithm is looked at with | `sample` |

`SessionProofs` (`WireExec` and `Session`), `PersistProofs`, `OverlayProofs`, `FilesProofs`,
`LongjmpProofs`, `AssetProofs` (`AssetCache` and `BundleFs`), `InitdbProofs` (`InitdbBridge` and
`Commands`) and `DriverProofs` hold the theorems and their lemmas; the `MC` modules are the instances for TLC.

How they compose. `Session` extends `Wire`, so a pump step is the same action in `WireExec` and
under the lock, and `WireExec` shows that a whole pump is one step of `AtomicSession`. `Driver` takes from
`Session` that a call of the `DB` runs alone, and makes it one step. `Longjmp` extends `MayLongjmp`:
the program runs with the set that the worklist has computed. That a longjmp out of an exported
function reaches the host as one, whatever the engine, is what `Wire` takes as given in `LoopRaises`.
`WasmPasses` extends `WasmBinary`: what the passes do to bytes is compared with what they mean for
instruction lists, and what the guards they insert do at run time is in `Longjmp`. `BundleFs` ends
where the constant lower layer of `Overlay` begins.

Operator names are those of the code where there is one (`isPersistedCluster`, `readdirNames`,
`copyUp`, `removeChild`, `ServeStartup`, ...). The operators that no definition uses (for example
`LockWithoutWaiting`, `RemovedWithoutWhiteout`, `FlushUnframed`) are defective variants of the
definition that follows them; putting one in its place makes the property named in
`PROJECT.json` fail, which shows that the property depends on that line of the code.

## 3. Runs

| Run | Question | Bounds and why they are enough |
|---|---|---|
| `wire_exec` | Does the pump answer every request as one atomic step, whatever it raises and however it reads? (`WholeRequestTaken`, `ReadyAfterSync`, `ExecIsAtomic`, `ExecReturns`) | two-byte messages read in chunks of three bytes, so that a message is split and the next is read with it; requests with simple, extended and failing messages and the Terminate of `close`; FATAL errors happen (`MayDie`). Section 5 removes the bounds |
| `session_safety` | Do callers and connections sharing one session keep out of each other's way? (`TypeOK`, `BackendHasOneOwner`, `AnswersOwnCall`, `StatusToldIsCurrent`, `OnlyCloseEndsBackend`, `ClosedIsQuiet`, `ClosedIsSaved`) | one API user and two clients: the third party can come between any two steps of the other two; batches of two messages reach a transaction left open, a failed transaction, a pipelined batch and a batch ended by Flush; the sessions in which `Close` cannot flush are among them (2.2 million states). Section 5 removes the bounds |
| `session_liveness` | Is the handshake answered while another client keeps the backend (`HandshakeNeverWaits`), and does everybody get the lock if clients leave (`EveryCallerIsServed`)? | one user, two clients, messages reduced to Sync and Terminate: waiting, not data, is the question |
| `persist` | Is what a complete save left on the host, and what is loaded next, exactly that, despite crashes, errors and a second process? (`SavedIsOnHost`, `ReopenedIsSaved`, `SuccessIsSaved`) | two processes, a marker, a directory with a file, a control file; the heap file is not made by initdb, so the directory is also seen empty. Section 5 removes the bounds |
| `overlay` | Is the overlay one plain file system? (`ListingIsLookup`, `ImplementsPlainFs`) | four paths (a lower directory with a file, an upper-only directory with one), two descriptors, two new files: each pair of operations on the same entry, its directory or a renamed one |
| `files` | Do reads, writes, seeks, truncations and scans do what the plain calls do, however the buffer grew and shrank? (`ImplementsByteFile`) | a file of up to three bytes over buffers of at least two, so that a write stays inside the length, inside the capacity, or makes a new array, and a hole is left between; vectors with an empty and a short buffer; two descriptors, which `Dup` makes of one. Section 5 removes the bounds |
| `dir_scan` | expected to be violated: does a scan of an unchanged directory give each entry once? (`ScanGivesEachOnce`) | four names, three to a buffer |
| `longjmp` | Does a longjmp arrive where it should, with the right stack pointer, through every frame, on both kinds of engine? (`SetIsLeastCover`, `NoFrameMissed`, `ImplementsSjlj`, `JumpLands`) | every program of two functions and the import's caller, and larger ones with chains of callers, nested setjmps and recursion; four frames, so that a jump passes an unrelated setjmp and a chain of two. Section 5 removes the bounds for the first two |
| `asset_cache` | Is what looks complete in the caches complete? (`LooksCompleteIsWhole`, `TornIsBeingWritten`) | two processes; three files, one of each kind the code treats differently (checked by nothing, checked by its size, the manifest that comes last), so that a process can be inside, before and behind each of them |
| `initdb_bridge` | Does each command of initdb get its own input and answer for itself? (`PcloseTellsOwn`, `ReadsItsPipe`, `RunsAtMostOnce`) | three calls: one pipe inside another and a `system` between; two pieces of text, so that output is buffered before, within and behind a pipe; the three results of `runCmd` |
| `driver` | Are users of a pool told the truth about their transactions? (`OneClusterPerDsn`, `ToldKeptIsCommitted`, `SessionIsOwned`) | two users, two pools on the same or different DSNs, limits of one and two connections, one statement each: what one does to the session of the other, on the same pool and through another |
| `algorithms` | Does each pure algorithm agree with its reference definition? (`ModuleSurvives`, `LinkingKeepsMeaning`, `OnlyGuardsAdded`, `GuestFitsItsHost`, `RequestArrives`, `ReplyIsRead`, `GuestIsTold`, `CommandIsUnderstood`, `BundleServesManifest`) | below |

Between them the passing runs fire every action of every module. Three allow deadlock, because the
system may stop: in `longjmp` a trap or `exit()` leaves the shadow stack pointer where it was (section
6), so that the bounded stack is used up in the end; initdb ends in `initdb_bridge`; in `driver`
the statements are used up.

The bounds of `algorithms`. One input of one algorithm is looked at a time: about seventy thousand of
them, built by products of the choices that the code distinguishes (present or absent, empty or not,
below or above a group boundary, minimal or padded numbers, signs, each section). Values
that are refused or special are among them: arguments of a type the driver does not take, NaN and the
infinities, floats in both formats. The widths
are parameters of the modules: 32 bits are scaled to 10 and 64 to 17, so that both take several
groups of seven bits and the last group is not a whole one, which is what makes the last byte of
a LEB128 number special; counts of 16 bits are scaled to 3, and int2, int4 and int8 to one,
two and three bytes, so that a sign and an overflow are among the inputs; memories have up to 176
bytes. Outside of the domains, because the code panics or has no meaning for them: a module that is
only a header, limits of a shared memory in the generated modules, segments with a flag other than 0,
addresses that wrap at 2^32 (`wasmtime_port.go:371`), payloads shorter than their own counts,
quoted arguments with blanks, redirections that a shell knows and the code does not (`ShellOperators`:
`>log` is an argument for `ParseSystemCommand`, `2>/dev/null` is not), times in zones that are not
whole hours from UTC (section 6), manifests in which a file is the root or lies below a file.

Type invariants other than that of `Session` have no run of their own: they are proved (section 5).

## 4. Fairness

Only `session_liveness`, `ExecReturns` and `JumpLands` need it. A pump step is Go code or a call into
wasm that returns: weak fairness. Steps of a goroutine between its waits: weak fairness. `Lock` has
strong fairness: `sync.Mutex` hands itself to a waiter that has waited for more than 1 ms, so a
caller is not overtaken for ever although the lock is free only from time to time. Clients owe nothing:
`HandshakeNeverWaits` holds without any assumption about them. `EveryCallerIsServed` assumes
`ClientsDisconnect`, written as its antecedent: `serveconn.go:33-36` documents that a served
connection keeps the backend until it disconnects and that the others wait. In `Longjmp` the steps
between the throwing import and the frame that runs next are one activity of a single thread and
have weak fairness; what a function does when it runs owes nothing.

## 5. Theorems

All are for every value of the constants.

* **`SessionProofs`**, of `exec` alone: `ExecTypeCorrect`, `ExecTakesWholeRequest`, `ExecEndsReady`,
  `ExecImplementsAtomic`. The invariant is `PumpInv`: the backend has taken no more than was read,
  no more was read than is staged, and at each control point after the loop everything staged was
  taken. For the third theorem `ReadyInv` adds that the reply holds no ReadyForQuery until the flush,
  and that one is owed as soon as the last message taken was a Sync. For the refinement
  `AtomInv` says where inside the one abstract step the pump is: with `n` messages taken, the session
  and the reply are those of `After(...)[n]`, except between the ERROR that raises and the
  recovery, where the last of them has its effect on neither yet. The recursive
  function `After` is unfolded once, by well-founded recursion (`WellFoundedInduction`); each step of the
  pump then takes one message or stutters, and `exec` comes back with the last of them or with the
  backend gone at the next. Assumption: `Chunk` is a positive number, requests are sequences of
  messages.
* **`SessionProofs`**, of the shared session: `SessionTypeCorrect`, `OneOwner`, `ClientsDoNotEndBackend`, `ClosedStaysQuiet`,
  `CloseSaves`, `QueriesRunTheirOwn`, `ClientsKnowTheStatus`. `SessionInv` joins `PumpInv` with what a
  caller's control point says of the wire (`PointsMatchCalls`), with the contents of a client's batch
  (`BatchesAreExtended`: only messages that wait for a terminator) and with the origin of a staged
  Terminate (`TerminateIsFromClose`), without which the safety properties are not inductive.
`CloseSaves` follows data through `Close`: what the session committed is in its buffers until a
CHECKPOINT that it takes moves it to the VFS, and only there does the save find it. `CloseInv` says at
each control point of `Close` what the staged request is and that what is still buffered is accounted
for by `refused`; it needs `PumpInv` (a pump that has ended has taken the whole CHECKPOINT) and the lock
(nobody commits between the CHECKPOINT and the save). For the
  answers `AnswerInv` says, for each place in a request of Query or QueryParams, what was run so
  far and what the reply holds; that a step of one caller leaves the answer of another alone
  (`OthersWait`) rests on the lock. Assumptions: users, clients and the value for "no one" are
  distinct; queries have a statement.
* **`PersistProofs`**: `PersistTypeCorrect`, `SavedStaysOnHost`, `SuccessMeansSaved`,
  `ReopenLoadsSaved`, for any number of processes and any directory tree. `PersistInv` joins
  `WalkInv` (what each control point says of the process's own tree and result), `SaveInv` (an
  undisturbed save has put on the host exactly what it has visited, and at most the file it is
  writing besides), `LoadInv` (what is loaded agrees with the host; what is not loaded is still to be
  visited, or its directory is) and `SavedIsOnHost`. `os.MkdirAll` makes again the directories above the
  one it is called for when another process has removed them (`WithDirs`); in an undisturbed save
  they are there (`WithDirsInPlace`). The next path of a walk is unique because
  ranks are; that a finished load has missed nothing is a least-rank argument (`CompleteLoad`).
  Assumptions: a parent comes before its entries in the walk, the order is total, the files that
  make a cluster valid are among those initdb writes, only directories have entries.
* **`OverlayProofs`**: `UpperStaysTree`, `DirectoriesListWhatOpens`, `OverlayImplementsPlain`, for every
  set of paths, every lower layer and any number of descriptors. A listing looks at the directory's own
  node in the upper layer, while opening an entry looks the entry up from the root: they agree only if
  the upper layer is a tree (`IsTree`: what has an entry is a directory). So the work for the first two
  is to carry `IsTree` through `place`, `mkdirAll`, `removeChild` and the move of a subtree by `Rename`
  (`MovedPaths`); they hold whatever `Gaps` allows. The refinement is stated for `Gaps = {}`, as the run
  is: with a use named there it is false (section 6). Its invariant, `PlainInv`, adds four parts. `Sound`: no
  file of the upper layer stands over a lower directory, whose entries would come back with the next
  directory made there. `Apart`: no file is in use through both layers, so that a write through one
  name or descriptor is read through all; `copyUp` keeps it because it moves every user of the lower file
  (`KeepsHandles` excludes the descriptors it does not move). `LowerHandles`: a descriptor on the lower
  layer is on the file its path has there. `Clean`: a node not in use has no bytes left. The argument has
  two halves. `PlaceShows`, `RemoveShows`, `MkdirShows`, `CopyUpShows` and `RenameShows` say what a tree
  over the lower layer shows after each primitive, in the words of `PlainFs` (`Graft`, `Cut`,
  `WithDirs`); `OperationShows` turns an outcome that keeps the layers apart into the plain step, contents and
  descriptors included. One lemma for each operation joins them; a copy-up shows nothing. Assumptions:
  every prefix of a path is a path; the lower layer is a tree and has each file under one name; upper
  nodes are told apart from lower files.
* **`FilesProofs`**: `FilesTypeCorrect`, `FittingScanGivesEachOnce`, `FilesImplementsByteFile`, for
  every length of file and buffer, every vector and any number of descriptors. The first two speak of the
  calls themselves, whatever is read or written. `IsBuffer` says what a byte of the array behind a
  file may be, `Clear` that the bytes beyond the content are zero up to where a write begins (what
  `Clean` asks of a use outside the gap "stale"), and `Over` what a write at an offset must leave: old bytes, zeroes in
  a hole, the new bytes, old bytes. `GrownIs` takes the three ways `WriteAt` finds room for it apart.
  A vectored call is a loop, so a recursive function: the equation of each loop is derived from
  its definition, and what holds after every iteration is proved from the least number of buffers for
  which it does not. For writes that is `Stands`: after some buffers the file is what one write of
  those joined together would have left, and the loop stands where that write ends; for reads, that what
  was got so far is the part of the file of the lengths' sum, and that a short read is the end of the file. Scans need
  `ScanInv`: a descriptor has given nothing, or has given all it owed and stands behind the list that
  `Readdir` makes next. That is where a directory longer than a buffer, or one that changes under
  a scan, breaks it, so the second theorem assumes neither happens (`NoScanGaps`); without that
  assumption it is false, as `dir_scan` shows. The third assumes `Gaps = {}`, as the run does; section 6
  says what each gap is. One lemma for each call says that it is the plain call. Assumptions: finitely
  many names, "." and ".." not among them, and a byte that is told apart from zero.
* **`LongjmpProofs`**: `LongjmpTypeCorrect`, `GuardSetIsLeast`, `NoFrameIsMissed`,
  `LongjmpImplementsSjlj`, for every set of call graphs, any depth of the stack and both kinds of
  backend. `PassInv` says of the worklist that whatever was found and is
  not waiting has its callers in the set, and that the set lies in every set that covers; with an
  empty worklist this is the second theorem. `UnwindInv` adds what the run needs: each frame waits at a
  call its function has, for the frame above it (`Chain`), and while `__THREW__` is set the function
  that has come back is in the set. Its callers are then in the set too, because the set covers, which
  carries the invariant through `Guard`. For the refinement `FrameInv` says that the shadow stack is
  what the frames from the top down have taken and that an `invoke_` saved what is below it, and
  `FlowInv` where a longjmp can be: at the import's caller, at a frame that guards, or caught. An
  abstract frame is a concrete one seen without its call site (`View`), and while a longjmp passes, the
  frames it will take off are already gone for `Sjlj` and not yet for the code: one lemma
  for each action says whether it is the abstract jump, a call, a return or a stutter. Assumptions: the
  program is what clang and Emscripten make of setjmp and longjmp (`Compiled`), and the host
  calls no function that is the import's caller.
* **`AssetProofs`**, the caches: `CompleteIsWhole`, `RacersHeal`, for any number of processes and files.
  `CacheInv` joins the types with `HandleInv` (an open file is in a directory that exists; the
  directory a process empties never becomes the staging directory again), `TornInv` (while nobody has died,
  what is torn is open in a process that is writing it) and, for as long as two downloads have not
  overlapped, `FetchInv`: at most one process fills, what it has staged so far is whole, and the cache
  directory is either whole for good or lacks a file that every process still checking has yet to
  look at. `CompileInv` is the same for the compiled image. Both properties
  fail without the last part: a process that has checked half of the files must not find the rest
  complete because another one has begun to replace the directory. Assumption: the
  files are at least two and distinct, and the one checked by size is not the last.
* **`AssetProofs`**, the bundle: `EveryManifestIsServed`, `SamplesAreServed`, for any paths, entries, bytes and
  steps of reading, where `algorithms` looks at up to three entries over four bytes. `IsTree` is what
  every insertion keeps: each node but the root is in a directory, and a directory lists exactly
  the nodes whose parent it is. `HasEntered` has it after each component of a path and not
  only after whole entries: `insert` looks for the next directory in a table it has just changed. `HasLoaded` adds, for a part of
  the manifest, which places there are, that the files among them are its paths, and that a path named
  more than once has its last entry. From there the directories are the places above a path, and the names
  in one are the components that follow it in the paths below. `HasRead` and `HasListed` are the same
  for loops of `Read` and `ReadDir`: what was got so far ends where the handle stands. Assumptions: entries
  have integer bounds (`int(e.Start)`), and for the description of the files no path is the root or lies below another one;
  that a range beyond the blob is refused needs only the first.
* **`InitdbProofs`**, the bridge: `BridgeInvariant`, `PcloseTellsTheOwnCode`, `CommandsReadTheirPipe`,
  `CommandsRunOnce`. `BridgeInv` joins the types and the properties with three parts: `OnceInv`, a
  command has not run before its pipe is opened nor while it is pending; `OnePipeInv`, while pipes do
  not nest the pending command is that of the pipe open for writing and the last result that of the
  pipe open for reading; `CaptureInv`, what is captured and buffered is what was written to the pipe.
  The properties are not inductive without them: they speak of closed pipes, and what pclose
  tells is decided while the pipe is open. Assumptions: 0 is among the results, and what initdb
  prints for its user is told apart from what it writes to pipes.
* **`InitdbProofs`**, the commands: `EveryCommandIsUnderstood`, `CommandsAreUnderstood`, for commands of any
  length and any options, where `algorithms` has four fields. What is parsed is what a shell would pass on
  (`ParsesAsShell`). `GotInv` is the invariant of getopt: as long as nothing is ignored, the flags are the options
  that have been there, `-D` has given the directory or waits for it, and a database is the last argument.
  From that follows where `insertDataDir` puts `-D`: at the end, where no option waits for a
  value, or in front of the database and behind the last option, so all before it is read as without it. Assumptions
  (`WellFormed`, `Sensible`): a program without quotes has no blank, no argument is empty, an option
  with a value has one that is not an option, and `--single` comes with a database at the end.
* **`DriverProofs`**: `DriverInvariant`, `DsnHasOneCluster`, `UsersAreToldTheTruth`,
  `SessionHasItsUser`. `DriverInv` has types, `LockInv` (`mu` is held by the user that opens a
  cluster, whose DSN has none yet), one cluster per DSN, `UseInv` (users that are apart have no two
  connections of a DSN) and, while they are apart, `ApartInv`: whose transaction is open and whether it
  has failed, whose work is uncommitted, and that what is committed is what its user was told so. Assumption: the value
  for "no one" is not a user.

Only model-checked: liveness (`ExecReturns`, `HandshakeNeverWaits`, `EveryCallerIsServed`, `JumpLands`),
which the prover does not do under fairness; and seven of the nine
properties of `algorithms`, whose codecs are RECURSIVE operators, of which the prover cannot reason. Where a recursive function was enough (`After` in `Wire`,
the loops of `Files`, `BundleFs` and `Commands`), what it computes is proved by well-founded recursion and a least-number
argument instead of the library's induction rules, which take an operator the provers cannot
instantiate. `FittingScanGivesEachOnce` is about the property that `dir_scan` refutes: no run checks it
within the limits the theorem assumes, other than through `ImplementsByteFile`.

## 6. Where documents and code disagree

`dir_scan` shows one: `getdents64` resumes at an index into a listing that is rebuilt, in another
order, by every call (it ranges over Go maps, and so does the bundle below). A directory larger
than the caller's buffer is returned with entries missing and others twice.

The others have no run; each can be seen by adding a name to `Gaps`, or by the invariant or history
variable that is named:

* A batch that fails and is ended by Flush leaves the shared session ignoring messages
  (`serveconn.go:92`); the next `Query` reports success and runs nothing, where `query.go:18` says that
  it runs its SQL. `AnswersOwnCall` is about the queries that found the session reading.
* A `Query` that waits for `db.mu` while another goroutine closes the DB uses the nil wire;
  `pglite.go:64` promises safety for concurrent use. `serveconn.go:62` looks at `db.wire` behind the
  lock, `Query` and `QueryParams` do not.
* After a save that crashed or failed half-way, `isPersistedCluster` (`pglite.go:223`) takes what
  PG_VERSION stands in for a cluster, although JOURNAL.md:53 names `global/pg_control` too.
  `ReopenedIsSaved` is about loads after a complete save.
* A save that fails after it has removed PG_VERSION makes the next `Open` replace the saved cluster by
  initdb's, where README.md:116 has it loaded.
* A file that was truncated keeps its array (`vfs.go:666`), and a write beyond the end reslices it
  without clearing (`file.go:70`): the bytes that were cut off reappear in the hole (gap `stale`).
* `rm -r` of a lower directory followed by making its name again brings the lower entries back, where
  `removeChild` promises a whiteout if an entry "would otherwise reappear" (`vfs.go:561`): `place` and
  `mkdirAll` replace the whiteout by a node that is not marked opaque (gap `remake`).
* A longjmp or `exit(100)` out of an export does not put the shadow stack pointer back on an engine, so
  it costs stack unless PostgreSQL restores it.
* `Close` runs CHECKPOINT to "flush committed data to the VFS heap files before persisting"
  (`pglite.go:175`), ignores what it answers and returns nil. It flushes nothing when the session is in
  a failed transaction or ignores messages (a client left it so), and not all when an implicit
  transaction is unfinished, which commits only behind it, or when the backend is gone or ends on the way.
  `ClosedIsSaved` says that these are the only cases (`refused`). Whether such data
  is lost is decided by PostgreSQL's own shutdown on Terminate and by its WAL, which are not in `src/`.
  `Sync` runs no CHECKPOINT at all, and no property says that it leaves nothing in the buffers.
* A `time.Time` parameter is written with the zone layout `-07` (`driver.go:232`), so a time in a zone such
  as +05:30 arrives as another instant; `TimeArrives` is about zones of whole hours.
* `ServeConn` greets with "ReadyForQuery, idle" inside a transaction an earlier client left open.
* `Truncate` follows the name a descriptor was opened with and not the descriptor.

`Overlay` and `Files` name the uses in which they differ from the plain file system and the plain
file in their constant `Gaps`. The passing runs exclude them; outside them the refinements hold.
TLC finds `ImplementsPlainFs` violated with `handle` (a descriptor on a lower file that is copied up
later), `moved` (truncating a file whose name was
removed or changed), `remake` and `movedir` (renaming a lower directory
loses its entries), and `ImplementsByteFile` with `stale` and `append` (a descriptor opened with
O_APPEND that is no longer at the end). Two deviations are part of `ByteFile` itself, because callers
live with them: `Dup` copies the position where POSIX shares it, and a transfer on a descriptor
that cannot be used moves no bytes but succeeds.

`AssetCache`, `InitdbBridge` and `Driver` have history variables instead, and their properties say which
of them they need: `raced` (two processes download at once: then the published directory may be
torn, and stays so if the writer dies), `nested` and `mixed` (pipes of initdb that nest, output
that initdb has not flushed), `overlap` and `raw` (two users with connections of one DSN, which
`SetMaxOpenConns(1)` on the only pool of that DSN prevents as `driver.go:20` advises; BEGIN as a
statement).

## 7. What is abstracted

* In the protocol and the driver SQL is a handful of statements told apart by their effect on the
  session; messages are a type and a statement. Their bytes are in `WireCodec`.
* The backend, initdb, the pool of `database/sql` and the wasm engines are modelled from how the
  host uses them. FATAL errors end the backend when `MayDie` is TRUE.
* The WAL is left out: data is in the backend's buffers, in the files of the VFS or on the host.
* A file's content is one value (`Persist`: a version, or torn; `AssetCache`: torn, short or whole;
  `Overlay`: a model value); bytes, positions, holes and buffer growth are in `Files`, which has one
  file and no names for it.
* In `Longjmp` a function is the calls it may make, in any order, and whether it uses the shadow stack.
  wazero's own throwing import and `invoke_*` are taken to behave like the ones of `wasmtime_port.go`.
* In `WasmPasses` the instruction set is what the passes tell apart: calls, operands they skip, ends.

Not modelled:

* Symbolic links in a saved cluster (`persist.go:74-80`): `Persist` has directories and files; PostgreSQL
  makes links in its data directory for tablespaces and a WAL directory elsewhere.
* Symbolic links of the VFS (`eval` follows them up to a depth of 40; `removeChild` works on the unresolved path,
  `vfs.go:564`), lexical cleaning of paths, the working directory and modes: the paths of `Overlay` are
  resolved ones. The lower layer of `Overlay` is constant and has no symbolic links.
* The `*at` calls decode their arguments and are then the operations of `Overlay`; the stat calls fill a
  layout; `/dev/urandom`, timers, heap growth and the stubs are constant answers.
* Instantiating a module through an engine's API, and a `CallExport` of the transpiled module that a
  longjmp leaves unnoticed (`aot_port.go:100`): these calls are not among those of the host in
  `Longjmp`. `wireConn.tx` is refreshed only by `parse`; nothing in the code acts on it.
* `internal/genaot`, `fetchwasm` and `cmd/*`: sequential programs without state of their own.

## 8. Plan

| Step | Modules | Abstract specification, properties | Theorems |
|---|---|---|---|
| done | `PgBackend`, `Wire`, `WireExec`, `Session` | `AtomicSession` | types, the refinement, whole request, ready after Sync, one owner, own answers, status told, clients do not end the backend, closed stays quiet, close saves |
| done | `Persist` | | types, saved stays, success means saved, reopened is saved |
| done | `PlainFs`, `Overlay` | `PlainFs` | the tree, listings, the refinement |
| done | `ByteFile`, `Files` | `ByteFile` | types, scans that fit, the refinement |
| done | `MayLongjmp`, `Longjmp` | `Sjlj` | least set, no frame missed, the refinement |
| done | `AssetCache` | what looks complete is whole | it, and that racing processes heal |
| done | `InitdbBridge`, `Driver` | own results and input, clusters and transactions | their invariants and properties |
| done | `WasmBinary`, `WasmPasses`, `HostModules`, `GuestMemory`, `WireCodec` | `WasmReference`, `HostReference`, `CallReference`, `WireReference` | none: recursive |
| done | `Commands`, `BundleFs` | their second halves: a shell and getopt, a manifest | every command is understood, every manifest is served |
| next | `PathWalk` | `eval` with symbolic links over both layers: termination, agreement with a reference resolution; `removeChild` on unresolved paths | |

Order: what loses or corrupts data first (session, persistence, file system), then what misleads
callers (driver, initdb, listings), then the algorithms.
