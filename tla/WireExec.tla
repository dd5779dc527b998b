------------------------------ MODULE WireExec ------------------------------
(***************************************************************************)
(* wireConn on its own: requests of a given set are staged one after the   *)
(* other, each is pumped to its end, and its reply is parsed (Query) or    *)
(* relayed unparsed (ServeConn).                                           *)
(***************************************************************************)
EXTENDS Wire

CONSTANT Requests
ASSUME RequestsAssumption == Requests \subseteq Seq(Messages)

VARIABLE pg0    \* the session when the request was staged (history)

execVars == <<wireVars, pg0>>

ExecTypeOK == WireTypeOK /\ pg0 \in Sessions

ExecInit == WireInit /\ pg0 = FreshSession

Submit == /\ pump = "idle"
          /\ \E r \in Requests : Stage(r)
          /\ pg0' = pg

Forget == /\ ExecReturned
          /\ pump' = "idle"
          /\ tx' \in {tx, ParsedTx}
          /\ UNCHANGED <<out, off, in, cons, pg, alive, ran, pg0>>

PumpStep == Pump /\ UNCHANGED pg0

ExecNext == Submit \/ PumpStep \/ Forget

ExecSpec == ExecInit /\ [][ExecNext]_execVars

\* The pump is code of one call: it never waits for anyone.
FairExecSpec == ExecSpec /\ WF_execVars(PumpStep)

----------------------------------------------------------------------------

\* exec gives the reply back only when the backend has taken every message and
\* buffers nothing: no tail of one request is answered inside the next (the
\* `off >= len(msg)` and pq_buffer_remaining_data tests of the loop).
WholeRequestTaken ==
    pump \in {"flush", "done"} => cons = Len(out) /\ off = StagedBytes /\ RemainingData = 0

\* An ERROR anywhere in the request costs exactly its own message: the loop
\* recovers and goes on, and the request still ends with the ReadyForQuery its
\* last message owes (a Sync or a simple Query that was not ignored).
ReadyAfterSync ==
    pump = "done" /\ out # <<>> /\ out[Len(out)].typ = "S" => ReplyStatus = pg.tx

\* exec implements the atomic session: AtomicSession!Spec.
Atomic == INSTANCE AtomicSession WITH
    phase <- CASE pump = "idle" -> "idle" [] pump = "done" -> "answered"
               [] pump = "err" -> "failed" [] OTHER -> "busy",
    req <- out,
    session <- IF pump \in {"idle", "done", "err"} THEN pg ELSE pg0,
    reply <- IF pump = "done" THEN in ELSE <<>>
ExecIsAtomic == Atomic!Spec

\* Every staged request is answered or fails: the pump cannot spin, whatever
\* mixture of partial reads and errors the request meets.
ExecReturns == (pump = "test") ~> ExecReturned
============================================================================
