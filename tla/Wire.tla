-------------------------------- MODULE Wire --------------------------------
(***************************************************************************)
(* wireConn (wire.go): the connection to the backend.  A request is staged *)
(* in `out`, the backend's read callback drains it while                   *)
(* PostgresMainLoopOnce is pumped, and what the backend writes is captured *)
(* in `in`.  `pump` is the control point of exec:                          *)
(*   idle  no request        test  top of the loop    main  inside         *)
(*   PostgresMainLoopOnce    longjmp, exit100  it was left by an ERROR     *)
(*   flush after the loop    done  exec returns in    err   exec fails     *)
(***************************************************************************)
EXTENDS PgBackend, Integers

CONSTANTS
    Chunk,    \* bytes one read callback may take: the backend's buffer
    MayDie    \* whether a FATAL error can end the backend
ASSUME ChunkAssumption == Chunk \in Nat \ {0}
ASSUME MayDieAssumption == MayDie \in BOOLEAN

VARIABLES
    out, off, in,  \* wireConn: staged request, bytes of it read, captured reply
    tx,            \* wireConn.tx, "none" before the first ReadyForQuery
    pump,          \* control point of exec
    cons,          \* whole messages of `out` the backend has taken
    pg,            \* the backend's session (PgBackend)
    alive,         \* the backend has not exited
    ran            \* SQL executed since the request was staged (history)

wireVars == <<out, off, in, tx, pump, cons, pg, alive, ran>>

\* Every message is two bytes: a type and a rest, so a read can split it.
MsgLen == 2
StagedBytes == MsgLen * Len(out)
\* pq_buffer_remaining_data: read from the host, not yet taken by the backend.
RemainingData == off - MsgLen * cons

PumpPoints == {"idle", "test", "main", "longjmp", "exit100", "flush", "done", "err"}

WireTypeOK ==
    /\ out \in Seq(Messages)
    /\ off \in Nat
    /\ in \in Seq(Replies)
    /\ tx \in TxStatus \union {"none"}
    /\ pump \in PumpPoints
    /\ cons \in Nat
    /\ pg \in Sessions
    /\ alive \in BOOLEAN
    /\ ran \in SUBSET Stmts

\* startWire has returned: the handshake is over and its reply was not parsed.
WireInit ==
    /\ out = <<>> /\ off = 0 /\ in = <<>>
    /\ tx = "none"
    /\ pump = "idle"
    /\ cons = 0
    /\ pg = FreshSession
    /\ alive = TRUE
    /\ ran = {}

----------------------------------------------------------------------------

\* Mutated forms, one plausible bug each (see PROJECT.json).
LoadKeepingOutput(msgs) ==
    /\ out' = msgs /\ off' = 0 /\ in' = in
    /\ cons' = 0 /\ ran' = {}
    /\ pump' = "test"
    /\ UNCHANGED <<pg, alive>>

\* exec(msg), up to its loop.
Load(msgs) ==
    /\ out' = msgs /\ off' = 0 /\ in' = <<>>
    /\ cons' = 0 /\ ran' = {}
    /\ pump' = "test"
    /\ UNCHANGED <<pg, alive>>
Stage(msgs) == Load(msgs) /\ UNCHANGED tx

DrainedWithoutBuffer == off >= StagedBytes

\* The loop ends when all bytes are read and the backend has buffered none.
ExecDrained == off >= StagedBytes /\ RemainingData = 0

\* Top of the loop: pq_buffer_remaining_data fails once the backend is gone.
LoopTest ==
    /\ pump = "test"
    /\ pump' = IF ~alive THEN "err" ELSE IF ExecDrained THEN "flush" ELSE "main"
    /\ UNCHANGED <<out, off, in, tx, cons, pg, alive, ran>>

\* The read callback, called by the backend while it lacks a whole message.
NeedsInput == off < MsgLen * (cons + 1)
ReadWithoutAdvance ==
    /\ pump = "main" /\ NeedsInput /\ off < StagedBytes
    /\ UNCHANGED wireVars
Read ==
    /\ pump = "main"
    /\ NeedsInput
    /\ off < StagedBytes
    /\ off' = IF Chunk < StagedBytes - off THEN off + Chunk ELSE StagedBytes
    /\ UNCHANGED <<out, in, tx, pump, cons, pg, alive, ran>>

\* The statements a processed message adds to `ran`, and its reply.
Running(m) == IF Ignored(pg, m) THEN NoStmt ELSE Executes(pg, m)
ReplyTo(m) == IF Running(m) = NoStmt THEN <<>> ELSE <<"C">>

\* PostgresMainLoopOnce takes one message and returns normally.
LoopOnce ==
    /\ pump = "main" /\ ~NeedsInput
    /\ LET m == out[cons + 1] IN
        /\ m.typ # "X" /\ ~Raises(pg, m)
        /\ pg' = Processed(pg, m)
        /\ in' = in \o ReplyTo(m)
        /\ ran' = ran \union ({Running(m)} \ {NoStmt})
    /\ cons' = cons + 1
    /\ pump' = "test"
    /\ UNCHANGED <<out, off, tx, alive>>

\* ... or it raises ERROR, which surfaces as a longjmp or as exit(100) ...
LoopRaises ==
    /\ pump = "main" /\ ~NeedsInput
    /\ LET m == out[cons + 1] IN
        /\ Raises(pg, m)
        /\ pg' = Thrown(pg, m)
    /\ cons' = cons + 1
    /\ pump' \in {"longjmp", "exit100"}
    /\ UNCHANGED <<out, off, in, tx, alive, ran>>

\* ... or the backend exits for good: Terminate, or a FATAL error.
LoopExits ==
    /\ pump = "main" /\ ~NeedsInput
    /\ out[cons + 1].typ = "X" \/ (MayDie /\ ~Ignored(pg, out[cons + 1]))
    /\ alive' = FALSE
    /\ cons' = cons + 1
    /\ pump' = "err"
    /\ UNCHANGED <<out, off, in, tx, pg, ran>>

\* Both forms of ERROR recover through PostgresMainLongJmp, then `continue`.
isQueryErrorExit == pump = "exit100"
RecoverAndBreak ==
    /\ pump = "longjmp" \/ isQueryErrorExit
    /\ pg' = LongJmp(pg, out[cons])
    /\ in' = Append(in, "E")
    /\ pump' = "flush"
    /\ UNCHANGED <<out, off, tx, cons, alive, ran>>
Recover ==
    /\ pump = "longjmp" \/ isQueryErrorExit
    /\ pg' = LongJmp(pg, out[cons])
    /\ in' = Append(in, "E")
    /\ pump' = "test"
    /\ UNCHANGED <<out, off, tx, cons, alive, ran>>

\* ... unless the backend exits in PostgresMainLongJmp.
RecoverFails ==
    /\ pump = "longjmp" \/ isQueryErrorExit
    /\ MayDie
    /\ alive' = FALSE
    /\ pump' = "err"
    /\ UNCHANGED <<out, off, in, tx, cons, pg, ran>>

\* PostgresSendReadyForQueryIfNecessary and pgl_pq_flush.
FlushReply ==
    /\ pump = "flush"
    /\ pg' = [pg EXCEPT !.rfq = FALSE]
    /\ in' = IF pg.rfq THEN Append(in, ReadyForQuery(pg.tx)) ELSE in
    /\ pump' = "done"
    /\ UNCHANGED <<out, off, tx, cons, alive, ran>>

Pump == LoopTest \/ Read \/ LoopOnce \/ LoopRaises \/ LoopExits
        \/ Recover \/ RecoverFails \/ FlushReply

----------------------------------------------------------------------------
(* What callers do with the captured reply.                                *)

Holds(reply) == \E i \in DOMAIN in : in[i] = reply

FailsOnlyOnExecError == pump = "err"
\* describeResultOIDs and parse: an ErrorResponse anywhere makes the call fail.
ReplyFails == pump = "err" \/ Holds("E")

\* The status of the last ReadyForQuery in the reply; exec never sends two.
ReplyStatus == IF Holds("ZI") THEN "I" ELSE IF Holds("ZT") THEN "T"
               ELSE IF Holds("ZE") THEN "E" ELSE "none"

\* parse is the only code that writes wireConn.tx; exec's own failure skips it.
ParsedTx == IF pump = "err" \/ ReplyStatus = "none" THEN tx ELSE ReplyStatus

ExecReturned == pump \in {"done", "err"}
============================================================================
