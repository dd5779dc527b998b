----------------------------- MODULE PgBackend -----------------------------
(***************************************************************************)
(* The PostgreSQL session that lives inside pglite.wasm, as far as the Go  *)
(* code can tell its states apart.  It is not code of this repository: the *)
(* operators below are the protocol behaviour that wire.go, serveconn.go   *)
(* and their tests rely on.                                                *)
(*                                                                         *)
(* A session is a record:                                                  *)
(*   tx        transaction status, the byte of ReadyForQuery: I, T or E    *)
(*   skip      an extended-protocol message failed: everything is ignored  *)
(*             until the next Sync                                         *)
(*   rfq       a ReadyForQuery is owed to the client                       *)
(*   prepared  the SQL of the unnamed prepared statement, or "none"        *)
(*   pending   the open transaction has written something                  *)
(*   buffered  something committed may lie in the backend's buffers only   *)
(*   unsaved   the data files in the VFS hold something committed that the *)
(*             host directory does not                                     *)
(* The WAL is left out: `buffered` is about the data files Close flushes   *)
(* to, pglite.go:175, not about what crash recovery could replay.          *)
(***************************************************************************)
EXTENDS Sequences

\* The SQL texts the properties tell apart.  "read" stands for every statement
\* without effect (SHOW, SELECT), "bad" for one that raises ERROR.
Stmts == {"begin", "commit", "rollback", "write", "checkpoint", "read", "bad"}

NoStmt == "none"

TxStatus == {"I", "T", "E"}

\* Frontend message types: Query, Parse, Bind, Describe, Execute, Close, Sync,
\* Flush and Terminate.
ExtendedTypes == {"P", "B", "D", "E", "C"}
MsgTypes == ExtendedTypes \union {"Q", "S", "H", "X"}

Messages == [typ : MsgTypes, stmt : Stmts \union {NoStmt}]
Message(t, sql) == [typ |-> t, stmt |-> sql]
Bare(t) == Message(t, NoStmt)

\* What the session writes back: CommandComplete, ErrorResponse and the three
\* forms of ReadyForQuery.
Replies == {"C", "E", "ZI", "ZT", "ZE"}
ReadyForQuery(tx) == CASE tx = "I" -> "ZI" [] tx = "T" -> "ZT" [] tx = "E" -> "ZE"

Sessions == [tx : TxStatus, skip : BOOLEAN, rfq : BOOLEAN,
             prepared : Stmts \union {NoStmt},
             pending : BOOLEAN, buffered : BOOLEAN, unsaved : BOOLEAN]

FreshSession == [tx |-> "I", skip |-> FALSE, rfq |-> FALSE,
                 prepared |-> NoStmt,
                 pending |-> FALSE, buffered |-> FALSE, unsaved |-> FALSE]

----------------------------------------------------------------------------

\* After a failed extended-protocol message only Sync and Terminate are read.
Ignored(s, m) == s.skip /\ m.typ \notin {"S", "X"}

\* A failed transaction accepts only the statements that end it.
EndsTx(sql) == sql \in {"commit", "rollback"}

\* The SQL a message would execute now, NoStmt when it executes none.
Executes(s, m) == IF m.typ = "Q" THEN m.stmt
                  ELSE IF m.typ = "E" THEN s.prepared ELSE NoStmt

\* Processing m raises an ERROR: its SQL is wrong, the statement it names does
\* not exist, or the transaction has already failed.  Terminate raises none.
Raises(s, m) ==
    /\ ~Ignored(s, m) /\ m.typ # "X"
    /\ \/ m.stmt = "bad"
       \/ m.typ \in {"B", "D", "E"} /\ s.prepared = NoStmt
       \/ m.typ = "E" /\ s.prepared = "bad"
       \/ s.tx = "E" /\ m.typ \in {"Q", "P"} /\ ~EndsTx(m.stmt)
       \/ s.tx = "E" /\ m.typ = "E" /\ ~EndsTx(s.prepared)

\* Outside a transaction block the work done so far is committed.
CommitImplicit(s) ==
    IF s.tx = "I" THEN [s EXCEPT !.buffered = @ \/ s.pending, !.pending = FALSE] ELSE s

\* The effect of one statement.  CHECKPOINT writes the buffers to the data files.
RunStmt(s, sql) ==
    CASE sql = "begin"    -> [s EXCEPT !.tx = "T"]
      [] sql = "commit"   -> [s EXCEPT !.tx = "I", !.pending = FALSE,
                                       !.buffered = @ \/ s.pending]
      [] sql = "rollback" -> [s EXCEPT !.tx = "I", !.pending = FALSE]
      [] sql = "write"    -> [s EXCEPT !.pending = TRUE]
      [] sql = "checkpoint" -> [s EXCEPT !.unsaved = @ \/ s.buffered, !.buffered = FALSE]
      [] OTHER            -> s

\* The session after a message that raised nothing.  A simple Query drops the
\* unnamed statement and is a transaction of its own outside a block.
Processed(s, m) ==
    IF Ignored(s, m) THEN s ELSE
    CASE m.typ = "Q" ->
            [CommitImplicit(RunStmt(s, m.stmt)) EXCEPT !.prepared = NoStmt, !.rfq = TRUE]
      [] m.typ = "P" -> [s EXCEPT !.prepared = m.stmt]
      [] m.typ = "E" -> RunStmt(s, s.prepared)
      [] m.typ = "S" -> [CommitImplicit(s) EXCEPT !.skip = FALSE, !.rfq = TRUE]
      [] OTHER -> s

\* The session at the moment an ERROR leaves PostgresMainLoopOnce: Query and
\* Parse had already dropped the unnamed statement.
Thrown(s, m) == IF m.typ \in {"Q", "P"} THEN [s EXCEPT !.prepared = NoStmt] ELSE s

\* PostgresMainLongJmp: abort the transaction, report the error, and, inside the
\* extended protocol, ignore what follows up to the next Sync.
LongJmp(s, m) ==
    [s EXCEPT !.pending = FALSE,
              !.tx = IF @ = "I" THEN "I" ELSE "E",
              !.skip = @ \/ m.typ \in ExtendedTypes,
              !.rfq = @ \/ m.typ \notin ExtendedTypes]
============================================================================
