------------------------------ MODULE Session ------------------------------
(***************************************************************************)
(* One open pglite.DB shared by goroutines that call its methods (Users)   *)
(* and goroutines that run ServeConn for a socket (Clients): pglite.go,    *)
(* query.go and serveconn.go over the connection of module Wire.  All of   *)
(* them meet at db.mu and at the one backend session.                      *)
(***************************************************************************)
EXTENDS Wire

CONSTANTS
    Users,        \* goroutines calling Query, QueryParams, Sync and Close
    Clients,      \* goroutines serving one connection each
    Persistent,   \* persistDir is set (the cluster is not Ephemeral)
    Calls,        \* the calls Users make
    ClientMsgs,   \* the messages connected clients send
    MaxBatch      \* bound on the messages of one pipelined batch

Callers == Users \union Clients
NoOne == "nobody"

Methods == {"Query", "QueryParams", "Sync", "Close"}
AllCalls == [method : Methods, sql : Stmts \union {NoStmt}]

ASSUME SessionAssumption ==
    /\ Users \intersect Clients = {}
    /\ NoOne \notin Callers
    /\ Persistent \in BOOLEAN
    /\ Calls \subseteq AllCalls
    /\ \A c \in Calls : c.method \in {"Query", "QueryParams"} => c.sql \in Stmts
    /\ ClientMsgs \subseteq Messages
    /\ MaxBatch \in Nat

VARIABLES
    mu,       \* holder of db.mu
    open,     \* db.wire is not nil
    pc,       \* where each caller is
    call,     \* the call a user is in
    result,   \* how a user's last call ended
    hello,    \* the startup packet a client has sent and serveStartup not read
    batch,    \* the messages of a client buffered since the last terminator
    told,     \* the transaction status a client last received
    skipped,  \* the session was ignoring messages when this holder came (history)
    refused   \* Close's CHECKPOINT could not flush all that is committed (history)

sessionVars == <<mu, open, pc, call, result, hello, batch, told, skipped, refused>>
vars == <<wireVars, sessionVars>>

UserPoints == {"idle", "lock", "in", "reply", "describe", "checkpoint", "terminate", "save"}
ClientPoints == {"gone", "startup", "lock", "in", "greet", "relay", "exec"}
Packets == {"none", "ssl", "startup", "cancel", "other"}
Results == {"none", "ok", "error", "panic"}

\* The points at which a caller holds db.mu.
Inside == {"in", "reply", "describe", "checkpoint", "terminate", "save", "greet", "relay", "exec"}
\* ... and has a request in the backend.
Waiting == {"reply", "describe", "checkpoint", "terminate", "greet", "exec"}

TypeOK ==
    /\ WireTypeOK
    /\ mu \in Callers \union {NoOne}
    /\ open \in BOOLEAN
    /\ pc \in [Callers -> UserPoints \union ClientPoints]
    /\ \A u \in Users : pc[u] \in UserPoints
    /\ \A c \in Clients : pc[c] \in ClientPoints
    /\ call \in [Users -> AllCalls]
    /\ result \in [Users -> Results]
    /\ hello \in [Clients -> Packets]
    /\ batch \in [Clients -> Seq(Messages)]
    /\ told \in [Clients -> TxStatus \union {"none", "greeting"}]
    /\ skipped \in BOOLEAN
    /\ refused \in BOOLEAN

NoCall == [method |-> "Sync", sql |-> NoStmt]

\* Open has returned.
Init ==
    /\ WireInit
    /\ mu = NoOne
    /\ open = TRUE
    /\ pc = [p \in Callers |-> IF p \in Users THEN "idle" ELSE "gone"]
    /\ call = [u \in Users |-> NoCall]
    /\ result = [u \in Users |-> "none"]
    /\ hello = [c \in Clients |-> "none"]
    /\ batch = [c \in Clients |-> <<>>]
    /\ told = [c \in Clients |-> "none"]
    /\ skipped = FALSE
    /\ refused = FALSE

Goto(p, point) == pc' = [pc EXCEPT ![p] = point]

LockWithoutWaiting(p) ==
    /\ pc[p] = "lock"
    /\ mu' = p
    /\ skipped' = pg.skip
    /\ Goto(p, "in")
    /\ UNCHANGED <<wireVars, open, call, result, hello, batch, told, refused>>

\* db.mu.Lock() of any method or of ServeConn.
Lock(p) ==
    /\ pc[p] = "lock" /\ mu = NoOne
    /\ mu' = p
    /\ skipped' = pg.skip
    /\ Goto(p, "in")
    /\ UNCHANGED <<wireVars, open, call, result, hello, batch, told, refused>>

\* The backend works for the caller that waits for its reply.
Backend ==
    /\ Pump
    /\ UNCHANGED sessionVars

\* The caller takes the reply exec returned: `pump` is idle again.
TakeReply == pump' = "idle" /\ UNCHANGED <<out, off, in, cons, pg, alive, ran>>

----------------------------------------------------------------------------
(* Query, QueryParams, Sync and Close.                                     *)

Call(u) ==
    /\ pc[u] = "idle"
    /\ \E c \in Calls : call' = [call EXCEPT ![u] = c]
    /\ result' = [result EXCEPT ![u] = "none"]
    /\ Goto(u, "lock")
    /\ UNCHANGED <<wireVars, mu, open, hello, batch, told, skipped, refused>>

\* The deferred Unlock, and the return.
Return(u, r) ==
    /\ result' = [result EXCEPT ![u] = r]
    /\ mu' = NoOne
    /\ Goto(u, "idle")

\* Query and QueryParams do not test db.wire: after Close they dereference nil.
NilWire(u) ==
    /\ pc[u] = "in" /\ call[u].method \in {"Query", "QueryParams"} /\ ~open
    /\ Return(u, "panic")
    /\ UNCHANGED <<wireVars, open, call, hello, batch, told, skipped, refused>>

SimpleQuery(u) ==
    /\ pc[u] = "in" /\ call[u].method = "Query" /\ open
    /\ Stage(<<Message("Q", call[u].sql)>>)
    /\ Goto(u, "reply")
    /\ UNCHANGED <<mu, open, call, result, hello, batch, told, skipped, refused>>

\* extendedQuery, pump 1: Parse, Describe the statement, Sync.
Prepare(u) ==
    /\ pc[u] = "in" /\ call[u].method = "QueryParams" /\ open
    /\ Stage(<<Message("P", call[u].sql), Bare("D"), Bare("S")>>)
    /\ Goto(u, "describe")
    /\ UNCHANGED <<mu, open, call, result, hello, batch, told, skipped, refused>>

\* describeResultOIDs found an ErrorResponse, or exec failed: the call ends
\* without a parse, so wireConn.tx keeps its old value.
PrepareFailed(u) ==
    /\ pc[u] = "describe" /\ ExecReturned /\ ReplyFails
    /\ TakeReply /\ tx' = tx
    /\ Return(u, "error")
    /\ UNCHANGED <<open, call, hello, batch, told, skipped, refused>>

\* extendedQuery, pump 2: Bind, Describe the portal, Execute, Sync.
Execute(u) ==
    /\ pc[u] = "describe" /\ ExecReturned /\ ~ReplyFails
    /\ Stage(<<Bare("B"), Bare("D"), Bare("E"), Bare("S")>>)
    /\ Goto(u, "reply")
    /\ UNCHANGED <<mu, open, call, result, hello, batch, told, skipped, refused>>

\* parse, and the return of Query or QueryParams.
Reply(u) ==
    /\ pc[u] = "reply" /\ ExecReturned
    /\ TakeReply /\ tx' = ParsedTx
    /\ Return(u, IF ReplyFails THEN "error" ELSE "ok")
    /\ UNCHANGED <<open, call, hello, batch, told, skipped, refused>>

\* A session that will not flush all that is committed when it is sent CHECKPOINT:
\* it is gone, it ignores messages, its transaction has failed, or it commits
\* unfinished extended-protocol work only after the CHECKPOINT.
CannotFlush == \/ ~alive \/ pg.skip \/ pg.tx = "E"
               \/ pg.tx = "I" /\ pg.pending

\* Mutated form: Close goes straight on to Terminate.
CheckpointDropped(u) ==
    /\ pc[u] = "in" /\ call[u].method = "Close" /\ open
    /\ Stage(<<>>)
    /\ refused' = CannotFlush
    /\ Goto(u, "checkpoint")
    /\ UNCHANGED <<mu, open, call, result, hello, batch, told, skipped>>

\* Close: CHECKPOINT flushes what is committed to the data files; whatever it
\* answers, ...
Checkpoint(u) ==
    /\ pc[u] = "in" /\ call[u].method = "Close" /\ open
    /\ Stage(<<Message("Q", "checkpoint")>>)
    /\ refused' = CannotFlush
    /\ Goto(u, "checkpoint")
    /\ UNCHANGED <<mu, open, call, result, hello, batch, told, skipped>>

\* ... wireConn.close follows: Terminate, whatever it answers, ...
Terminate(u) ==
    /\ pc[u] = "checkpoint" /\ ExecReturned
    /\ Load(<<Bare("X")>>) /\ tx' = ParsedTx
    /\ refused' = (refused \/ pump = "err")
    /\ Goto(u, "terminate")
    /\ UNCHANGED <<mu, open, call, result, hello, batch, told, skipped>>

\* ... and db.wire = nil.
DropWire(u) ==
    /\ pc[u] = "terminate" /\ ExecReturned
    /\ TakeReply /\ tx' = tx
    /\ open' = FALSE
    /\ Goto(u, "save")
    /\ UNCHANGED <<mu, call, result, hello, batch, told, skipped, refused>>

\* syncLocked, for Sync and at the end of Close: SaveSubtree writes what the VFS
\* holds, not what the backend still buffers, and may fail.
MaySave(u) == \/ pc[u] = "in" /\ call[u].method = "Sync"
              \/ pc[u] = "in" /\ call[u].method = "Close" /\ ~open
              \/ pc[u] = "save"
Save(u) ==
    /\ MaySave(u)
    /\ \E saved \in {Persistent, FALSE} :
        /\ pg' = IF saved THEN [pg EXCEPT !.unsaved = FALSE] ELSE pg
        /\ Return(u, IF saved \/ ~Persistent THEN "ok" ELSE "error")
    /\ UNCHANGED <<out, off, in, tx, pump, cons, alive, ran,
                   open, call, hello, batch, told, skipped, refused>>

UserStep(u) ==
    \/ Lock(u) \/ NilWire(u) \/ SimpleQuery(u) \/ Prepare(u) \/ PrepareFailed(u)
    \/ Execute(u) \/ Reply(u) \/ Checkpoint(u) \/ Terminate(u) \/ DropWire(u) \/ Save(u)

----------------------------------------------------------------------------
(* ServeConn.                                                              *)

\* A client connects and sends its first packet.
Connect(c) ==
    /\ pc[c] = "gone"
    /\ \E h \in Packets \ {"none"} : hello' = [hello EXCEPT ![c] = h]
    /\ Goto(c, "startup")
    /\ UNCHANGED <<wireVars, mu, open, call, result, batch, told, skipped, refused>>

GoneToIdle(c) ==
    /\ Goto(c, "idle")
    /\ hello' = [hello EXCEPT ![c] = "none"]
    /\ batch' = [batch EXCEPT ![c] = <<>>]
    /\ told' = [told EXCEPT ![c] = "none"]
\* The connection is over: ServeConn closes it and forgets its batch.
Gone(c) ==
    /\ Goto(c, "gone")
    /\ hello' = [hello EXCEPT ![c] = "none"]
    /\ batch' = [batch EXCEPT ![c] = <<>>]
    /\ told' = [told EXCEPT ![c] = "none"]

\* ... and the deferred Unlock.
Leave(c) == Gone(c) /\ mu' = NoOne

ServeStartupLocked(c) ==
    /\ pc[c] = "startup" /\ hello[c] # "none" /\ mu = NoOne
    /\ \/ /\ hello[c] \in {"ssl", "startup"}
          /\ hello' = [hello EXCEPT ![c] = "none"]
          /\ Goto(c, IF hello[c] = "ssl" THEN "startup" ELSE "lock")
          /\ UNCHANGED <<batch, told>>
       \/ hello[c] # "startup" /\ Gone(c)
    /\ UNCHANGED <<wireVars, mu, open, call, result, skipped, refused>>

\* serveStartup, one packet.  It runs without db.mu: SSL is declined and the next
\* packet awaited, unless conn.Write fails, a StartupMessage ends it, and anything
\* else drops the client.
ServeStartup(c) ==
    /\ pc[c] = "startup" /\ hello[c] # "none"
    /\ \/ /\ hello[c] \in {"ssl", "startup"}
          /\ hello' = [hello EXCEPT ![c] = "none"]
          /\ Goto(c, IF hello[c] = "ssl" THEN "startup" ELSE "lock")
          /\ UNCHANGED <<batch, told>>
       \/ hello[c] # "startup" /\ Gone(c)
    /\ UNCHANGED <<wireVars, mu, open, call, result, skipped, refused>>

\* The declined client goes on with any packet, or hangs up.
AfterDecline(c) ==
    /\ pc[c] = "startup" /\ hello[c] = "none"
    /\ \/ /\ \E h \in Packets \ {"none"} : hello' = [hello EXCEPT ![c] = h]
          /\ UNCHANGED <<pc, batch, told>>
       \/ Gone(c)
    /\ UNCHANGED <<wireVars, mu, open, call, result, skipped, refused>>

\* The DB was closed while the client waited for the lock.
Refuse(c) ==
    /\ pc[c] = "in" /\ ~open
    /\ Leave(c)
    /\ UNCHANGED <<wireVars, open, call, result, skipped, refused>>

AskVersionOfClosed(c) ==
    /\ pc[c] = "in"
    /\ Stage(<<Message("Q", "read")>>)
    /\ Goto(c, "greet")
    /\ UNCHANGED <<mu, open, call, result, hello, batch, told, skipped, refused>>

\* sendStartupResponse: startupParams asks the backend for its version, ...
AskVersion(c) ==
    /\ pc[c] = "in" /\ open
    /\ Stage(<<Message("Q", "read")>>)
    /\ Goto(c, "greet")
    /\ UNCHANGED <<mu, open, call, result, hello, batch, told, skipped, refused>>

\* ... and whatever it answers the client is greeted with ReadyForQuery "I".
Greet(c) ==
    /\ pc[c] = "greet" /\ ExecReturned
    /\ TakeReply /\ tx' = ParsedTx
    /\ \/ /\ Goto(c, "relay")
          /\ told' = [told EXCEPT ![c] = "greeting"]
          /\ UNCHANGED <<mu, hello, batch>>
       \/ Leave(c)                                 \* conn.Write failed
    /\ UNCHANGED <<open, call, result, skipped, refused>>

HangUpUnnoticed(c) == pc[c] = "relay" /\ UNCHANGED vars

\* readFrontendMessage fails: the client has hung up.
HangUp(c) ==
    /\ pc[c] = "relay"
    /\ Leave(c)
    /\ UNCHANGED <<wireVars, open, call, result, skipped, refused>>

\* The client sends a message: Terminate ends only this client, Parse .. Close
\* wait in the batch, and a terminator submits the batch.
ForwardTerminate(c, m) ==
    /\ m.typ = "X"
    /\ Stage(Append(batch[c], m))
    /\ Goto(c, "exec")
    /\ UNCHANGED <<mu, hello, batch, told>>
RelayTerminate(c, m) == m.typ = "X" /\ Leave(c) /\ UNCHANGED wireVars
RelayBuffer(c, m) ==
    /\ m.typ \in ExtendedTypes
    /\ Len(batch[c]) < MaxBatch
    /\ batch' = [batch EXCEPT ![c] = Append(@, m)]
    /\ UNCHANGED <<wireVars, mu, pc, hello, told>>
RelaySubmit(c, m) ==
    /\ m.typ \notin ExtendedTypes \union {"X"}
    /\ Stage(Append(batch[c], m))
    /\ batch' = [batch EXCEPT ![c] = <<>>]
    /\ Goto(c, "exec")
    /\ UNCHANGED <<mu, hello, told>>
Relay(c) ==
    /\ pc[c] = "relay"
    /\ \E m \in ClientMsgs : RelayTerminate(c, m) \/ RelayBuffer(c, m) \/ RelaySubmit(c, m)
    /\ UNCHANGED <<open, call, result, skipped, refused>>

RelayReplyUnlocking(c) ==
    /\ pc[c] = "exec" /\ ExecReturned
    /\ TakeReply /\ tx' = tx
    /\ pump = "done"
    /\ Goto(c, "relay")
    /\ told' = [told EXCEPT ![c] = IF ReplyStatus = "none" THEN @ ELSE ReplyStatus]
    /\ mu' = NoOne
    /\ UNCHANGED <<hello, batch, open, call, result, skipped, refused>>

\* The captured reply goes to the client as it is; nothing is parsed.
RelayReply(c) ==
    /\ pc[c] = "exec" /\ ExecReturned
    /\ TakeReply /\ tx' = tx
    /\ \/ /\ pump = "done"
          /\ Goto(c, "relay")
          /\ told' = [told EXCEPT ![c] = IF ReplyStatus = "none" THEN @ ELSE ReplyStatus]
          /\ UNCHANGED <<mu, hello, batch>>
       \/ Leave(c)                   \* exec or conn.Write failed
    /\ UNCHANGED <<open, call, result, skipped, refused>>

\* What ServeConn does by itself, and what its client decides.
ServeStep(c) == Lock(c) \/ ServeStartup(c) \/ Refuse(c) \/ AskVersion(c) \/ Greet(c) \/ RelayReply(c)
ClientStep(c) == Connect(c) \/ AfterDecline(c) \/ HangUp(c) \/ Relay(c)

----------------------------------------------------------------------------

Next ==
    \/ Backend
    \/ \E u \in Users : Call(u) \/ UserStep(u)
    \/ \E c \in Clients : ServeStep(c) \/ ClientStep(c)

Spec == Init /\ [][Next]_vars

\* Every step of the code is taken: ServeConn and the calls run to their next
\* wait, and sync.Mutex hands itself to a waiter that has starved for 1ms, so a
\* caller cannot be overtaken for ever.
CodeFairness ==
    /\ WF_vars(Backend)
    /\ \A u \in Users : SF_vars(Lock(u)) /\ WF_vars(UserStep(u))
    /\ \A c \in Clients : SF_vars(Lock(c)) /\ WF_vars(ServeStep(c))

\* What ServeConn documents as the condition for the others to proceed: the
\* served client disconnects in the end.
ClientsDisconnect == \A c \in Clients : SF_vars(HangUp(c))

FairSpec == Spec /\ CodeFairness

----------------------------------------------------------------------------
(* Safety.                                                                 *)

\* db.mu serialises the backend: whoever is past Lock holds it, there is one
\* such caller, and a request is in the backend only on behalf of a holder that
\* waits for it.  ServeConn keeps the lock from the greeting to the end.
BackendHasOneOwner ==
    /\ \A p \in Callers : pc[p] \in Inside <=> mu = p
    /\ pump # "idle" <=> mu # NoOne /\ pc[mu] \in Waiting

\* A Query or QueryParams that found the session reading messages executed its
\* own SQL and nothing else, and if it reports success the SQL was executed:
\* the two pumps of QueryParams are not separated by another caller, who would
\* replace the unnamed statement between Parse and Execute.
AnswersOwnCall ==
    \A u \in Users :
        pc[u] = "reply" /\ ExecReturned /\ ~skipped =>
            /\ ran \subseteq {call[u].sql}
            /\ ~ReplyFails => ran = {call[u].sql}

\* The status a served client was last sent is the status of the session when
\* its last batch ended in ReadyForQuery: nobody else moves the session between
\* two requests of a connection.
StatusToldIsCurrent ==
    \A c \in Clients :
        pc[c] = "relay" /\ told[c] \in TxStatus /\ ReplyStatus # "none" => told[c] = pg.tx

\* A client's Terminate never reaches the backend: unless a FATAL error ends it,
\* the backend lives until Close sends Terminate itself.
OnlyCloseEndsBackend ==
    ~alive /\ ~MayDie => ~open \/ (mu \in Users /\ pc[mu] = "terminate")

\* Once Close has dropped the wire nothing runs in the backend, not even for
\* callers that were already waiting for the lock.
ClosedIsQuiet ==
    ~open => pump = "idle" /\ (mu # NoOne => pc[mu] \in {"in", "save"})

\* A Close that reports success has flushed everything that was ever committed to
\* the data files and saved it on the host, in that order, whatever transaction or
\* pipeline the callers before it left: the only data it may leave in the buffers
\* is that of a session that could not take CHECKPOINT, whose answer Close ignores.
ClosedIsSaved ==
    \A u \in Users :
        pc[u] = "idle" /\ call[u].method = "Close" /\ result[u] = "ok" /\ Persistent
            => ~open /\ ~pg.unsaved /\ (pg.buffered => refused)

(* Liveness.                                                               *)

\* A client that opened with SSLRequest gets its answer, and its StartupMessage
\* is read, even while another client keeps the backend for ever.
HandshakeNeverWaits ==
    \A c \in Clients :
        (pc[c] = "startup" /\ hello[c] # "none")
            ~> (pc[c] # "startup" \/ hello[c] = "none")

\* Every caller that waits for db.mu gets it, if served clients disconnect.
EveryCallerIsServed ==
    ClientsDisconnect => \A p \in Callers : (pc[p] = "lock") ~> (pc[p] = "in")
============================================================================
