--------------------------- MODULE SessionProofs ---------------------------
(***************************************************************************)
(* The connection, for every request and session: the pump leaves its loop *)
(* only when the backend has taken the whole request, and one exec is one  *)
(* call of the atomic session.                                             *)
(*                                                                         *)
(* The shared session, for every set of goroutines, calls and messages:    *)
(* the backend has one owner at a time, clients cannot end it, a closed DB *)
(* stays quiet, a successful Close has flushed and saved, and callers get  *)
(* the answer of their own call.                                           *)
(***************************************************************************)
EXTENDS Session, WireExec, WellFoundedInduction, TLAPS

\* Where the read offset and the backend stand at each point of exec.
PumpInv ==
    /\ cons <= Len(out)
    /\ MsgLen * cons <= off /\ off <= StagedBytes
    /\ pump = "main" => cons < Len(out)
    /\ pump \in {"longjmp", "exit100"} => cons > 0
    /\ pump \in {"flush", "done"} => cons = Len(out)

WireInv == WireTypeOK /\ PumpInv

\* Executing a statement keeps a session a session.
LEMMA RunStmtType ==
    ASSUME NEW s \in Sessions, NEW sql
    PROVE  RunStmt(s, sql) \in Sessions /\ CommitImplicit(s) \in Sessions
<1>1. RunStmt(s, sql) \in Sessions
  BY DEF RunStmt, Sessions, TxStatus
<1>2. CommitImplicit(s) \in Sessions
  BY DEF CommitImplicit, Sessions, TxStatus
<1> QED BY <1>1, <1>2

\* Processing a message, failing in it and recovering keep a session a session.
LEMMA SessionOpsType ==
    ASSUME NEW s \in Sessions, NEW m \in Messages
    PROVE  /\ Processed(s, m) \in Sessions
           /\ Thrown(s, m) \in Sessions
           /\ LongJmp(s, m) \in Sessions
           /\ Executes(s, m) \in Stmts \union {NoStmt}
<1>0. m.stmt \in Stmts \union {NoStmt} /\ s.prepared \in Stmts \union {NoStmt}
  BY DEF Messages, Sessions
<1>1. Processed(s, m) \in Sessions
  <2> DEFINE t == RunStmt(s, m.stmt)
  <2>1. t \in Sessions /\ RunStmt(s, s.prepared) \in Sessions /\ CommitImplicit(s) \in Sessions
    BY RunStmtType
  <2>2. CommitImplicit(t) \in Sessions
    BY <2>1, RunStmtType
  <2>3. ASSUME NEW r \in Sessions
        PROVE  /\ [r EXCEPT !.prepared = NoStmt, !.rfq = TRUE] \in Sessions
               /\ [r EXCEPT !.skip = FALSE, !.rfq = TRUE] \in Sessions
    BY DEF Sessions
  <2>4. /\ [CommitImplicit(t) EXCEPT !.prepared = NoStmt, !.rfq = TRUE] \in Sessions
        /\ [CommitImplicit(s) EXCEPT !.skip = FALSE, !.rfq = TRUE] \in Sessions
    <3> HIDE DEF t
    <3> QED BY <2>1, <2>2, <2>3
  <2>5. [s EXCEPT !.prepared = m.stmt] \in Sessions
    BY <1>0 DEF Sessions
  <2> QED BY <2>1, <2>4, <2>5 DEF Processed
<1>2. Thrown(s, m) \in Sessions
  BY DEF Thrown, Sessions
<1>3. LongJmp(s, m) \in Sessions
  BY DEF LongJmp, Sessions, TxStatus
<1>4. Executes(s, m) \in Stmts \union {NoStmt}
  BY <1>0 DEF Executes
<1> QED BY <1>1, <1>2, <1>3, <1>4

\* Staging a request of well-typed messages establishes the invariant.
LEMMA StageKeepsWireInv ==
    ASSUME WireInv, NEW msgs \in Seq(Messages), Load(msgs), tx' \in TxStatus \union {"none"}
    PROVE  WireInv'
BY DEF WireInv, WireTypeOK, PumpInv, Load, StagedBytes, MsgLen, PumpPoints, Replies

\* Each step of the pump keeps the invariant.
LEMMA PumpKeepsWireInv ==
    ASSUME WireInv, Pump
    PROVE  WireInv'
<1> USE DEF WireInv, WireTypeOK, PumpInv, StagedBytes, MsgLen, PumpPoints, RemainingData, NeedsInput
<1>1. CASE LoopTest
  BY <1>1 DEF LoopTest, ExecDrained
<1>2. CASE Read
  BY <1>2, ChunkAssumption DEF Read
<1>3. ASSUME pump = "main", ~NeedsInput
      PROVE  out[cons + 1] \in Messages /\ cons < Len(out)
  BY <1>3
<1>4. CASE LoopOnce
  <2> DEFINE m == out[cons + 1]
  <2>1. m \in Messages /\ cons < Len(out)
    BY <1>4, <1>3 DEF LoopOnce
  <2>2. Processed(pg, m) \in Sessions /\ Executes(pg, m) \in Stmts \union {NoStmt}
    BY <2>1, SessionOpsType
  <2>3. pg' \in Sessions
    BY <1>4, <2>2 DEF LoopOnce
  <2>4. ran' \in SUBSET Stmts
    BY <1>4, <2>2 DEF LoopOnce, Running
  <2>5. in' \in Seq(Replies)
    <3>1. "C" \in Replies /\ in \in Seq(Replies)
      BY DEF Replies
    <3>2. ReplyTo(m) \in Seq(Replies)
      <4>1. <<>> \in Seq(Replies) /\ <<"C">> \in Seq(Replies)
        BY <3>1
      <4> QED BY <4>1, Zenon DEF ReplyTo
    <3> QED BY <1>4, <3>1, <3>2 DEF LoopOnce
  <2>6. /\ cons' = cons + 1 /\ pump' = "test"
        /\ UNCHANGED <<out, off, tx, alive>>
        /\ off >= MsgLen * (cons + 1)
    BY <1>4 DEF LoopOnce
  <2> QED BY <2>1, <2>3, <2>4, <2>5, <2>6
<1>5. CASE LoopRaises
  <2> DEFINE m == out[cons + 1]
  <2>1. m \in Messages /\ cons < Len(out)
    BY <1>5, <1>3 DEF LoopRaises
  <2>2. pg' \in Sessions
    BY <1>5, <2>1, SessionOpsType DEF LoopRaises
  <2> QED BY <1>5, <2>1, <2>2 DEF LoopRaises
<1>6. CASE LoopExits
  <2>1. cons < Len(out)
    BY <1>6, <1>3 DEF LoopExits
  <2>2. alive' \in BOOLEAN
    BY <1>6, Zenon DEF LoopExits
  <2>3. /\ cons' = cons + 1 /\ pump' = "err"
        /\ UNCHANGED <<out, off, in, tx, pg, ran>>
        /\ off >= MsgLen * (cons + 1)
    BY <1>6 DEF LoopExits
  <2> QED BY <2>1, <2>2, <2>3
<1>7. CASE Recover
  <2>1. out[cons] \in Messages
    BY <1>7 DEF Recover, isQueryErrorExit
  <2>2. pg' \in Sessions
    BY <1>7, <2>1, SessionOpsType DEF Recover
  <2> QED BY <1>7, <2>2 DEF Recover, Replies
<1>9. CASE RecoverFails
  <2>1. /\ pump \in {"longjmp", "exit100"} /\ pump' = "err" /\ alive' \in BOOLEAN
        /\ UNCHANGED <<out, off, in, tx, cons, pg, ran>>
    BY <1>9, Zenon DEF RecoverFails, isQueryErrorExit
  <2> QED BY <2>1
<1>8. CASE FlushReply
  <2>1. pg.tx \in TxStatus /\ pg' \in Sessions
    BY <1>8 DEF FlushReply, Sessions
  <2>2. ReadyForQuery(pg.tx) \in Replies
    BY <2>1 DEF ReadyForQuery, Replies, TxStatus
  <2> QED BY <1>8, <2>1, <2>2 DEF FlushReply
<1> QED BY <1>1, <1>2, <1>4, <1>5, <1>6, <1>7, <1>8, <1>9 DEF Pump

\* The status a caller takes from a reply is a transaction status.
LEMMA ParsedTxType == WireTypeOK => ParsedTx \in TxStatus \union {"none"}
BY DEF WireTypeOK, ParsedTx, ReplyStatus, TxStatus

\* After startWire the invariant holds.
LEMMA InitWireInv == WireInit => WireInv
BY DEF WireInit, WireInv, WireTypeOK, PumpInv, StagedBytes, MsgLen, PumpPoints,
       FreshSession, Sessions, TxStatus, NoStmt, Messages, Replies

\* What ends a reply without another ReadyForQuery is its status.
LEMMA StatusOfReply ==
  ASSUME NEW t \in TxStatus, NEW r \in Seq(Replies), \A i \in DOMAIN r : r[i] \in {"C", "E"},
         in' = Append(r, ReadyForQuery(t))
  PROVE  ReplyStatus' = t
<1>1. /\ DOMAIN in' = 1..Len(r) + 1 /\ in'[Len(r) + 1] = ReadyForQuery(t)
      /\ \A i \in 1..Len(r) : in'[i] \in {"C", "E"}
  BY DEF Replies
<1>2. \A z \in {"ZI", "ZT", "ZE"} : (\E i \in DOMAIN in' : in'[i] = z) <=> z = ReadyForQuery(t)
  BY <1>1
<1>3. \/ t = "I" /\ ReadyForQuery(t) = "ZI"
      \/ t = "T" /\ ReadyForQuery(t) = "ZT"
      \/ t = "E" /\ ReadyForQuery(t) = "ZE"
  BY DEF TxStatus, ReadyForQuery
<1> QED BY <1>2, <1>3 DEF ReplyStatus, Holds

----------------------------------------------------------------------------
(* exec on its own.                                                         *)

ExecInv == WireInv /\ pg0 \in Sessions

LEMMA ExecInvInductive == ExecSpec => []ExecInv
<1>1. ExecInit => ExecInv
  BY InitWireInv DEF ExecInit, ExecInv, FreshSession, Sessions, TxStatus, NoStmt
<1>2. ExecInv /\ [ExecNext]_execVars => ExecInv'
  <2> SUFFICES ASSUME ExecInv, [ExecNext]_execVars PROVE ExecInv'
    OBVIOUS
  <2>0. pg \in Sessions /\ tx \in TxStatus \union {"none"}
    BY DEF ExecInv, WireInv, WireTypeOK
  <2>1. CASE Submit
    <3>1. PICK r \in Requests : Stage(r)
      BY <2>1 DEF Submit
    <3>2. r \in Seq(Messages)
      BY RequestsAssumption
    <3>3. WireInv'
      BY <2>0, <3>1, <3>2, StageKeepsWireInv DEF ExecInv, Stage
    <3> QED BY <2>0, <2>1, <3>3 DEF Submit, ExecInv
  <2>2. CASE PumpStep
    BY <2>2, PumpKeepsWireInv DEF PumpStep, ExecInv
  <2>3. CASE Forget
    <3>1. ParsedTx \in TxStatus \union {"none"}
      BY ParsedTxType DEF ExecInv, WireInv
    <3> QED
      BY <2>0, <2>3, <3>1 DEF Forget, ExecInv, WireInv, WireTypeOK, PumpInv,
         StagedBytes, PumpPoints
  <2>4. CASE UNCHANGED execVars
    BY <2>4 DEF execVars, wireVars, ExecInv, WireInv, WireTypeOK, PumpInv, StagedBytes
  <2> QED BY <2>1, <2>2, <2>3, <2>4 DEF ExecNext
<1> QED BY <1>1, <1>2, PTL DEF ExecSpec

\* The variables of wireConn and of the session keep their types.
THEOREM ExecTypeCorrect == ExecSpec => []ExecTypeOK
<1>1. ExecInv => ExecTypeOK
  BY DEF ExecInv, WireInv, ExecTypeOK
<1> QED BY <1>1, ExecInvInductive, PTL

\* exec answers only when the backend has taken every byte of the request.
THEOREM ExecTakesWholeRequest == ExecSpec => []WholeRequestTaken
<1>1. ExecInv => WholeRequestTaken
  BY DEF ExecInv, WireInv, WireTypeOK, PumpInv, WholeRequestTaken, StagedBytes,
     RemainingData, MsgLen
<1> QED BY <1>1, ExecInvInductive, PTL

----------------------------------------------------------------------------
(* ReadyForQuery.                                                          *)

\* Until the flush the reply holds no ReadyForQuery, and one is owed as soon as the
\* last message taken was a Sync.
ReadyInv ==
    /\ pump \in {"test", "main", "longjmp", "exit100", "flush"} => \A i \in DOMAIN in : in[i] \in {"C", "E"}
    /\ pump \in {"test", "main", "flush"} /\ cons > 0 /\ out[cons].typ = "S" => pg.rfq
    /\ ReadyAfterSync

\* A Sync is never ignored, and leaves the session owing ReadyForQuery whether it is
\* processed or its commit raises an ERROR.
LEMMA SyncOwesReady ==
  ASSUME NEW s \in Sessions, NEW m, m.typ = "S"
  PROVE  Processed(s, m).rfq /\ LongJmp(s, m).rfq
<1>1. CommitImplicit(s) \in Sessions
  BY DEF CommitImplicit, Sessions
<1>2. Processed(s, m) = [CommitImplicit(s) EXCEPT !.skip = FALSE, !.rfq = TRUE]
  BY DEF Processed, Ignored
<1>3. Processed(s, m).rfq
  BY <1>1, <1>2 DEF Sessions
<1>4. LongJmp(s, m).rfq
  BY DEF LongJmp, Sessions, ExtendedTypes
<1> QED BY <1>3, <1>4

LEMMA ReadyNext == ExecInv /\ ReadyInv /\ [ExecNext]_execVars => ReadyInv'
<1> SUFFICES ASSUME ExecInv, ReadyInv, [ExecNext]_execVars PROVE ReadyInv'
  OBVIOUS
<1>0. pg \in Sessions /\ in \in Seq(Replies) /\ out \in Seq(Messages) /\ cons \in Nat
  BY DEF ExecInv, WireInv, WireTypeOK
<1>1. CASE UNCHANGED execVars
  BY <1>1 DEF execVars, wireVars, ReadyInv, ReadyAfterSync, ReplyStatus, Holds
<1>2. CASE Submit
  <2>1. in' = <<>> /\ cons' = 0 /\ pump' = "test"
    BY <1>2 DEF Submit, Stage, Load
  <2> QED BY <2>1 DEF ReadyInv, ReadyAfterSync
<1>3. CASE Forget
  <2>1. pump' = "idle"
    BY <1>3 DEF Forget
  <2> QED BY <2>1 DEF ReadyInv, ReadyAfterSync
<1>4. CASE LoopTest
  <2>1. pump = "test" /\ pump' \in {"err", "flush", "main"} /\ UNCHANGED <<in, cons, out, pg>>
    BY <1>4 DEF LoopTest
  <2> QED BY <2>1 DEF ReadyInv, ReadyAfterSync
<1>5. CASE Read
  <2>1. pump = "main" /\ UNCHANGED <<pump, in, cons, out, pg>>
    BY <1>5 DEF Read
  <2> QED BY <2>1 DEF ReadyInv, ReadyAfterSync
<1>6. CASE LoopOnce
  <2>1. /\ pump = "main" /\ pump' = "test" /\ cons' = cons + 1 /\ out' = out
        /\ pg' = Processed(pg, out[cons + 1])
        /\ in' = in \o ReplyTo(out[cons + 1])
    BY <1>6 DEF LoopOnce
  <2>2. ReplyTo(out[cons + 1]) = <<>> \/ ReplyTo(out[cons + 1]) = <<"C">>
    BY DEF ReplyTo
  <2>3. \A i \in DOMAIN in : in[i] \in {"C", "E"}
    BY <2>1 DEF ReadyInv
  <2>4. \A i \in DOMAIN in' : in'[i] \in {"C", "E"}
    BY <1>0, <2>1, <2>2, <2>3
  <2>5. out'[cons'].typ = "S" => pg'.rfq
    BY <1>0, <2>1, SyncOwesReady
  <2> QED BY <2>1, <2>4, <2>5 DEF ReadyInv, ReadyAfterSync
<1>7. CASE LoopRaises
  <2>1. pump = "main" /\ pump' \in {"longjmp", "exit100"} /\ in' = in
    BY <1>7 DEF LoopRaises
  <2> QED BY <2>1 DEF ReadyInv, ReadyAfterSync
<1>8. CASE LoopExits
  <2>1. pump' = "err"
    BY <1>8 DEF LoopExits
  <2> QED BY <2>1 DEF ReadyInv, ReadyAfterSync
<1>9. CASE Recover
  <2>1. /\ pump \in {"longjmp", "exit100"} /\ pump' = "test" /\ UNCHANGED <<out, cons>>
        /\ pg' = LongJmp(pg, out[cons]) /\ in' = Append(in, "E")
    BY <1>9 DEF Recover, isQueryErrorExit
  <2>2. \A i \in DOMAIN in : in[i] \in {"C", "E"}
    BY <2>1 DEF ReadyInv
  <2>3. \A i \in DOMAIN in' : in'[i] \in {"C", "E"}
    BY <1>0, <2>1, <2>2
  <2>4. out'[cons'].typ = "S" => pg'.rfq
    BY <1>0, <2>1, SyncOwesReady
  <2> QED BY <2>1, <2>3, <2>4 DEF ReadyInv, ReadyAfterSync
<1>10. CASE FlushReply
  <2>1. /\ pump = "flush" /\ pump' = "done" /\ UNCHANGED <<out, cons>>
        /\ pg' = [pg EXCEPT !.rfq = FALSE]
        /\ in' = IF pg.rfq THEN Append(in, ReadyForQuery(pg.tx)) ELSE in
    BY <1>10 DEF FlushReply
  <2>2. cons = Len(out)
    BY <2>1 DEF ExecInv, WireInv, PumpInv, WireTypeOK, StagedBytes, RemainingData, MsgLen
  <2>3. pg'.tx = pg.tx /\ pg.tx \in TxStatus
    BY <1>0, <2>1 DEF Sessions
  <2>4. ASSUME out' # <<>>, out'[Len(out')].typ = "S" PROVE ReplyStatus' = pg'.tx
    <3>1. cons > 0 /\ out[cons].typ = "S"
      BY <1>0, <2>1, <2>2, <2>4
    <3>2. pg.rfq /\ \A i \in DOMAIN in : in[i] \in {"C", "E"}
      BY <2>1, <3>1 DEF ReadyInv
    <3> QED BY <1>0, <2>1, <2>3, <3>2, StatusOfReply
  <2> QED BY <2>1, <2>4 DEF ReadyInv, ReadyAfterSync
<1>11. CASE RecoverFails
  <2>1. pump' = "err"
    BY <1>11 DEF RecoverFails
  <2> QED BY <2>1 DEF ReadyInv, ReadyAfterSync
<1> QED
  BY <1>1, <1>2, <1>3, <1>4, <1>5, <1>6, <1>7, <1>8, <1>9, <1>10, <1>11 DEF ExecNext, PumpStep, Pump

\* A request that ends in Sync is answered with the status of the session, whatever
\* ERRORs it ran into and however it was read.
THEOREM ExecEndsReady == ExecSpec => []ReadyAfterSync
<1>1. ExecInit => ReadyInv
  BY DEF ExecInit, WireInit, ReadyInv, ReadyAfterSync
<1>2. ReadyInv => ReadyAfterSync
  BY DEF ReadyInv
<1> QED BY <1>1, <1>2, ReadyNext, ExecInvInductive, PTL DEF ExecSpec

----------------------------------------------------------------------------
(* exec and the atomic session.                                            *)

\* A set of numbers that is not empty has a least element.
LEMMA LeastNat ==
  ASSUME NEW S \in SUBSET Nat, S # {}
  PROVE  \E n \in S : \A k \in S : n <= k
<1>1. PICK n \in S : \A k \in S : <<k, n>> \notin OpToRel(<, Nat)
  BY WFMin, NatLessThanWellFounded
<1>2. \A k \in S : ~(k < n)
  BY <1>1 DEF OpToRel
<1> QED BY <1>2

\* The fold over the messages of a request starts from the session and takes one
\* message at a time.
LEMMA AfterEquation ==
  ASSUME NEW s, NEW msgs \in Seq(Messages)
  PROVE  /\ Atomic!After(s, msgs)[0] = [session |-> s, reply |-> <<>>]
         /\ \A n \in 1..Len(msgs) :
              Atomic!After(s, msgs)[n] = Atomic!Take(Atomic!After(s, msgs)[n - 1], msgs[n])
<1> DEFINE base == [session |-> s, reply |-> <<>>]
           Folds(f, N) == f = [n \in 0..N |-> IF n = 0 THEN base
                                             ELSE Atomic!Take(f[n - 1], msgs[n])]
           Short == {N \in Nat : ~\E f : Folds(f, N)}
<1>1. Folds([n \in 0..0 |-> base], 0)
  OBVIOUS
<1>2. ASSUME NEW N \in Nat, NEW f, Folds(f, N) PROVE \E g : Folds(g, N + 1)
  <2> DEFINE g == [n \in 0..(N + 1) |-> IF n \in 0..N THEN f[n]
                                       ELSE Atomic!Take(f[N], msgs[N + 1])]
  <2>1. \A n \in 0..(N + 1) :
          g[n] = IF n = 0 THEN base ELSE Atomic!Take(g[n - 1], msgs[n])
    <3> TAKE n \in 0..(N + 1)
    <3>1. CASE n = 0
      BY <1>2, <3>1
    <3>2. CASE n \in 1..N
      <4>1. n \in 0..N /\ n - 1 \in 0..N /\ n # 0
        BY <3>2
      <4>2. g[n] = f[n] /\ g[n - 1] = f[n - 1]
        BY <4>1
      <4>3. f[n] = Atomic!Take(f[n - 1], msgs[n])
        BY <1>2, <4>1
      <4> QED BY <4>1, <4>2, <4>3
    <3>3. CASE n = N + 1
      <4>1. n \notin 0..N /\ n - 1 = N /\ N \in 0..N /\ n # 0
        BY <3>3
      <4> QED BY <3>3, <4>1
    <3> QED BY <3>1, <3>2, <3>3
  <2>2. Folds(g, N + 1)
    <3>1. g = [n \in 0..(N + 1) |-> g[n]]
      OBVIOUS
    <3> HIDE DEF g
    <3> QED BY <2>1, <3>1
  <2> QED BY <2>2
<1> HIDE DEF Folds
<1>3. Short = {}
  <2> SUFFICES ASSUME Short # {} PROVE FALSE
    OBVIOUS
  <2>1. PICK N \in Short : \A k \in Short : N <= k
    BY LeastNat
  <2>2. N # 0
    BY <1>1
  <2>3. N - 1 \in Nat /\ N - 1 \notin Short
    BY <2>1, <2>2
  <2>4. PICK f : Folds(f, N - 1)
    BY <2>3
  <2>5. \E g : Folds(g, N)
    BY <1>2, <2>3, <2>4
  <2> QED BY <2>1, <2>5
<1>4. \E f : Folds(f, Len(msgs))
  <2>1. Len(msgs) \in Nat
    OBVIOUS
  <2> QED BY <1>3, <2>1
<1>5. Folds(Atomic!After(s, msgs), Len(msgs))
  BY <1>4 DEF Folds, Atomic!After
<1> QED BY <1>5 DEF Folds

\* The operators of the backend are the same in both specifications.
LEMMA SameMessageOps ==
  ASSUME NEW s, NEW m
  PROVE  /\ Atomic!Ignored(s, m) <=> Ignored(s, m)
         /\ Atomic!Raises(s, m) <=> Raises(s, m)
         /\ Atomic!Thrown(s, m) = Thrown(s, m)
<1>1. Atomic!Ignored(s, m) <=> Ignored(s, m)
  BY DEF Atomic!Ignored, Ignored
<1>2. Atomic!Raises(s, m) <=> Raises(s, m)
  BY <1>1 DEF Atomic!Raises, Raises, Atomic!EndsTx, EndsTx, Atomic!NoStmt, NoStmt
<1>3. Atomic!Thrown(s, m) = Thrown(s, m)
  BY DEF Atomic!Thrown, Thrown, Atomic!NoStmt, NoStmt
<1> QED BY <1>1, <1>2, <1>3

\* The atomic session takes a message as the backend does.
LEMMA TakeByBackend ==
  ASSUME NEW acc, NEW m
  PROVE  Atomic!Take(acc, m) =
           LET s == acc.session IN
           IF Raises(s, m)
           THEN [session |-> LongJmp(Thrown(s, m), m), reply |-> Append(acc.reply, "E")]
           ELSE [session |-> Processed(s, m),
                 reply |-> IF Ignored(s, m) \/ Executes(s, m) = NoStmt
                           THEN acc.reply ELSE Append(acc.reply, "C")]
<1> DEFINE s == acc.session
<1>1. (Atomic!Ignored(s, m) <=> Ignored(s, m)) /\ (Atomic!Raises(s, m) <=> Raises(s, m))
  BY SameMessageOps
<1>2. Atomic!Executes(s, m) = Executes(s, m) /\ Atomic!NoStmt = NoStmt
  BY DEF Atomic!Executes, Executes, Atomic!NoStmt, NoStmt
<1>3. Atomic!LongJmp(Atomic!Thrown(s, m), m) = LongJmp(Thrown(s, m), m)
  BY SameMessageOps DEF Atomic!LongJmp, LongJmp, Atomic!ExtendedTypes, ExtendedTypes
<1>4. Atomic!Processed(s, m) = Processed(s, m)
  <2>1. \A t : Atomic!CommitImplicit(t) = CommitImplicit(t)
    BY DEF Atomic!CommitImplicit, CommitImplicit
  <2>2. \A sql : Atomic!RunStmt(s, sql) = RunStmt(s, sql)
    BY DEF Atomic!RunStmt, RunStmt
  <2> QED BY <1>1, <2>1, <2>2 DEF Atomic!Processed, Processed, Atomic!NoStmt, NoStmt
<1> QED BY <1>1, <1>2, <1>3, <1>4 DEF Atomic!Take

\* While a request is pumped, the session and the reply are those of the atomic
\* session after the messages taken so far; an ERROR is about to cost the last of
\* them; and nothing is taken from a backend that has exited.
Busy == pump \in {"test", "main", "longjmp", "exit100", "flush"}
AtomInv ==
    LET A == Atomic!After(pg0, out) IN
    /\ pump \in {"test", "main", "flush"} => A[cons] = [session |-> pg, reply |-> in]
    /\ pump \in {"longjmp", "exit100"} =>
          /\ Raises(A[cons - 1].session, out[cons])
          /\ pg = Thrown(A[cons - 1].session, out[cons])
          /\ in = A[cons - 1].reply
    /\ Busy /\ pump # "test" => alive
    /\ Busy => \A n \in 1..cons : out[n].typ # "X"
    /\ pump = "test" /\ ~alive => pg = pg0

\* One step of the pump takes a message as Take does, or has it raise and recovers.
LEMMA PumpKeepsAtomInv ==
  ASSUME ExecInv, ExecInv', AtomInv, PumpStep
  PROVE  AtomInv'
<1> DEFINE A == Atomic!After(pg0, out)
<1>1. /\ out \in Seq(Messages) /\ cons \in Nat /\ cons <= Len(out) /\ in \in Seq(Replies)
      /\ pump = "main" => cons < Len(out)
      /\ pump \in {"longjmp", "exit100"} => cons > 0
  BY DEF ExecInv, WireInv, WireTypeOK, PumpInv
<1>2. \A n \in 1..Len(out) : A[n] = Atomic!Take(A[n - 1], out[n])
  BY <1>1, AfterEquation
<1>3. pg0' = pg0 /\ out' = out /\ Atomic!After(pg0, out)' = A
  <2>1. pg0' = pg0 /\ out' = out
    BY DEF PumpStep, Pump, LoopTest, Read, LoopOnce, LoopRaises, LoopExits, Recover,
       RecoverFails, FlushReply
  <2> QED BY <2>1 DEF Atomic!After
<1> HIDE DEF A
<1>4. CASE LoopTest
  BY <1>3, <1>4 DEF LoopTest, AtomInv, Busy, A
<1>5. CASE Read
  BY <1>3, <1>5 DEF Read, AtomInv, Busy, A
<1>6. CASE LoopOnce
  <2> DEFINE m == out[cons + 1]
  <2>1. /\ pump = "main" /\ pump' = "test" /\ cons' = cons + 1 /\ alive' = alive
        /\ m.typ # "X" /\ ~Raises(pg, m)
        /\ pg' = Processed(pg, m) /\ in' = in \o ReplyTo(m)
    BY <1>6 DEF LoopOnce
  <2>2. A[cons] = [session |-> pg, reply |-> in] /\ A[cons + 1] = Atomic!Take(A[cons], m)
    BY <1>1, <1>2, <2>1 DEF AtomInv, A
  <2>3. in' = IF Ignored(pg, m) \/ Executes(pg, m) = NoStmt THEN in ELSE Append(in, "C")
    BY <1>1, <2>1 DEF ReplyTo, Running
  <2>4. A[cons + 1] = [session |-> pg', reply |-> in']
    BY <2>1, <2>2, <2>3, TakeByBackend
  <2>5. \A n \in 1..(cons + 1) : out[n].typ # "X"
    BY <1>1, <2>1 DEF AtomInv, Busy
  <2>6. alive
    BY <2>1 DEF AtomInv, Busy
  <2> QED BY <1>3, <2>1, <2>4, <2>5, <2>6 DEF AtomInv, Busy
<1>7. CASE LoopRaises
  <2> DEFINE m == out[cons + 1]
  <2>1. /\ pump = "main" /\ pump' \in {"longjmp", "exit100"} /\ cons' = cons + 1
        /\ alive' = alive /\ in' = in /\ Raises(pg, m) /\ pg' = Thrown(pg, m)
    BY <1>7 DEF LoopRaises
  <2>2. A[cons] = [session |-> pg, reply |-> in] /\ cons' - 1 = cons
    BY <1>1, <2>1 DEF AtomInv, A
  <2>3. m.typ # "X" /\ alive
    BY <2>1 DEF Raises, AtomInv, Busy
  <2>4. \A n \in 1..(cons + 1) : out[n].typ # "X"
    BY <1>1, <2>1, <2>3 DEF AtomInv, Busy
  <2> QED BY <1>3, <2>1, <2>2, <2>3, <2>4 DEF AtomInv, Busy
<1>8. CASE LoopExits
  BY <1>8 DEF LoopExits, AtomInv, Busy
<1>9. CASE Recover
  <2> DEFINE t == A[cons - 1]
             m == out[cons]
  <2>1. /\ pump \in {"longjmp", "exit100"} /\ pump' = "test" /\ cons' = cons
        /\ alive' = alive /\ pg' = LongJmp(pg, m) /\ in' = Append(in, "E")
    BY <1>9 DEF Recover, isQueryErrorExit
  <2>2. /\ Raises(t.session, m) /\ pg = Thrown(t.session, m) /\ in = t.reply
        /\ cons \in 1..Len(out) /\ alive
    BY <1>1, <2>1 DEF AtomInv, Busy, A
  <2>3. A[cons] = Atomic!Take(t, m)
    BY <1>2, <2>2
  <2>4. A[cons] = [session |-> pg', reply |-> in']
    BY <2>1, <2>2, <2>3, TakeByBackend
  <2>5. \A n \in 1..cons : out[n].typ # "X"
    BY <2>1 DEF AtomInv, Busy
  <2> QED BY <1>3, <2>1, <2>2, <2>4, <2>5 DEF AtomInv, Busy
<1>10. CASE FlushReply
  BY <1>10 DEF FlushReply, AtomInv, Busy
<1>11. CASE RecoverFails
  BY <1>11 DEF RecoverFails, AtomInv, Busy
<1> QED BY <1>4, <1>5, <1>6, <1>7, <1>8, <1>9, <1>10, <1>11 DEF PumpStep, Pump

LEMMA AtomNext ==
  ASSUME ExecInv, ExecInv', AtomInv, [ExecNext]_execVars
  PROVE  AtomInv'
<1>1. CASE Submit
  <2>1. PICK r \in Requests : Stage(r)
    BY <1>1 DEF Submit
  <2>2. /\ pump' = "test" /\ out' = r /\ in' = <<>> /\ cons' = 0 /\ pg' = pg /\ pg0' = pg
        /\ r \in Seq(Messages)
    BY <1>1, <2>1, RequestsAssumption DEF Submit, Stage, Load
  <2>3. Atomic!After(pg0, out)'[0] = [session |-> pg, reply |-> <<>>]
    <3>1. Atomic!After(pg0, out)' = Atomic!After(pg, r)
      BY <2>2 DEF Atomic!After
    <3> QED BY <2>2, <3>1, AfterEquation
  <2> QED BY <2>2, <2>3 DEF AtomInv, Busy
<1>2. CASE PumpStep
  BY <1>2, PumpKeepsAtomInv
<1>3. CASE Forget
  BY <1>3 DEF Forget, AtomInv, Busy
<1>4. CASE UNCHANGED execVars
  <2>1. Atomic!After(pg0, out)' = Atomic!After(pg0, out)
    BY <1>4 DEF execVars, wireVars, Atomic!After
  <2> QED BY <1>4, <2>1 DEF execVars, wireVars, AtomInv, Busy
<1> QED BY <1>1, <1>2, <1>3, <1>4 DEF ExecNext

\* Every step of exec is a step of the atomic session, or none of it.
LEMMA ExecStepsAtomically ==
  ASSUME ExecInv, ExecInv', AtomInv, [ExecNext]_execVars
  PROVE  [Atomic!Next]_(Atomic!atomicVars)
<1> DEFINE A == Atomic!After(pg0, out)
<1> USE DEF Atomic!Next, Atomic!atomicVars
<1>1. /\ out \in Seq(Messages) /\ cons \in Nat /\ cons <= Len(out)
      /\ pump = "main" => cons < Len(out)
      /\ pump = "flush" => cons = Len(out)
      /\ pump \in {"longjmp", "exit100"} => cons > 0
      /\ pump \in PumpPoints
  BY DEF ExecInv, WireInv, WireTypeOK, PumpInv, StagedBytes, MsgLen
<1>2. CASE Submit
  <2>1. PICK r \in Requests : Stage(r)
    BY <1>2 DEF Submit
  <2>2. /\ pump = "idle" /\ pump' = "test" /\ out' = r /\ pg0' = pg /\ UNCHANGED alive
    BY <1>2, <2>1 DEF Submit, Stage, Load
  <2> QED BY <2>2 DEF Atomic!Submit
<1>3. CASE LoopTest /\ UNCHANGED pg0
  <2>1. /\ pump = "test" /\ UNCHANGED <<out, pg, pg0, alive>>
        /\ pump' = IF ~alive THEN "err" ELSE IF ExecDrained THEN "flush" ELSE "main"
    BY <1>3 DEF LoopTest
  <2>2. CASE alive
    BY <2>1, <2>2
  <2>3. CASE ~alive
    <3>1. pg = pg0
      BY <2>1, <2>3 DEF AtomInv
    <3> QED BY <2>1, <2>3, <3>1 DEF Atomic!Refuse
  <2> QED BY <2>2, <2>3
<1>4. CASE (Read \/ LoopOnce \/ LoopRaises \/ Recover) /\ UNCHANGED pg0
  <2>1. /\ pump \in {"main", "longjmp", "exit100"}
        /\ pump' \in {"main", "test", "longjmp", "exit100"}
        /\ UNCHANGED <<out, pg0, alive>>
    BY <1>4 DEF Read, LoopOnce, LoopRaises, Recover, isQueryErrorExit
  <2> QED BY <2>1
<1>5. CASE LoopExits /\ UNCHANGED pg0
  <2>1. /\ pump = "main" /\ pump' = "err" /\ UNCHANGED <<out, pg, pg0>> /\ alive' = FALSE
        /\ out[cons + 1].typ = "X" \/ (MayDie /\ ~Ignored(pg, out[cons + 1]))
    BY <1>5 DEF LoopExits
  <2>2. /\ alive /\ A[cons] = [session |-> pg, reply |-> in]
        /\ \A n \in 1..cons : out[n].typ # "X"
    BY <2>1 DEF AtomInv, Busy
  <2>3. cons \in 0..(Len(out) - 1)
    BY <1>1, <2>1
  <2>4. Ignored(pg, out[cons + 1]) <=> Atomic!Ignored(pg, out[cons + 1])
    BY DEF Ignored, Atomic!Ignored
  <2> HIDE DEF A
  <2>5. A[cons].session = pg
    BY <2>2
  <2>6. Atomic!ExitAt(A[cons].session, out[cons + 1])
    BY <2>1, <2>4, <2>5 DEF Atomic!ExitAt
  <2> QED BY <2>1, <2>2, <2>3, <2>6 DEF Atomic!Exit, Atomic!Survives, A
<1>6. CASE FlushReply /\ UNCHANGED pg0
  <2>1. /\ pump = "flush" /\ pump' = "done" /\ UNCHANGED <<out, pg0, alive>>
        /\ pg' = [pg EXCEPT !.rfq = FALSE]
        /\ in' = IF pg.rfq THEN Append(in, ReadyForQuery(pg.tx)) ELSE in
    BY <1>6 DEF FlushReply
  <2>2. /\ alive /\ A[Len(out)] = [session |-> pg, reply |-> in]
        /\ \A n \in 1..Len(out) : out[n].typ # "X"
    BY <1>1, <2>1 DEF AtomInv, Busy
  <2>3. ReadyForQuery(pg.tx) = Atomic!ReadyForQuery(pg.tx)
    BY DEF ReadyForQuery, Atomic!ReadyForQuery
  <2> HIDE DEF A
  <2>4. A[Len(out)].session = pg /\ A[Len(out)].reply = in
    BY <2>2
  <2> QED BY <2>1, <2>2, <2>3, <2>4 DEF Atomic!Answer, Atomic!Survives, A
<1>7. CASE Forget
  BY <1>7 DEF Forget, ExecReturned, Atomic!Forget
<1>8. CASE UNCHANGED execVars
  BY <1>8 DEF execVars, wireVars
<1>9. CASE RecoverFails /\ UNCHANGED pg0
  <2> DEFINE m == out[cons]
  <2>1. /\ pump \in {"longjmp", "exit100"} /\ pump' = "err" /\ UNCHANGED <<out, pg, pg0>>
        /\ alive' = FALSE /\ MayDie
    BY <1>9 DEF RecoverFails, isQueryErrorExit
  <2>2. cons - 1 \in 0..(Len(out) - 1) /\ (cons - 1) + 1 = cons
    BY <1>1, <2>1
  <2>3. /\ alive /\ Raises(A[cons - 1].session, m) /\ pg = Thrown(A[cons - 1].session, m)
        /\ \A n \in 1..(cons - 1) : out[n].typ # "X"
    BY <1>1, <2>1 DEF AtomInv, Busy
  <2> HIDE DEF A
  <2>4. Atomic!ExitAt(A[cons - 1].session, m)
    BY <2>1, <2>3, SameMessageOps DEF Atomic!ExitAt
  <2> QED BY <2>1, <2>2, <2>3, <2>4 DEF Atomic!Exit, Atomic!Survives, A
<1> QED BY <1>2, <1>3, <1>4, <1>5, <1>6, <1>7, <1>8, <1>9 DEF ExecNext, PumpStep, Pump

\* exec implements the atomic session: whatever the request, however its bytes are
\* read and wherever ERRORs and the exit of the backend fall, its effect and its
\* reply are those of the messages taken one at a time, in order.
THEOREM ExecImplementsAtomic == ExecSpec => ExecIsAtomic
<1>1. ExecInit => AtomInv /\ Atomic!Init
  BY DEF ExecInit, WireInit, AtomInv, Busy, Atomic!Init, FreshSession, Atomic!FreshSession,
     NoStmt, Atomic!NoStmt
<1>2. ExecInv /\ ExecInv' /\ AtomInv /\ [ExecNext]_execVars =>
        AtomInv' /\ [Atomic!Next]_(Atomic!atomicVars)
  BY AtomNext, ExecStepsAtomically
<1> QED BY <1>1, <1>2, ExecInvInductive, PTL DEF ExecSpec, ExecIsAtomic, Atomic!Spec

----------------------------------------------------------------------------
(* The shared session.                                                     *)

\* A client's batch holds only messages that wait for a terminator.
BatchesAreExtended ==
    \A c \in Clients : \A i \in DOMAIN batch[c] : batch[c][i].typ \in ExtendedTypes

\* A request that contains Terminate is Close's own.
TerminateIsFromClose ==
    pump # "idle" /\ pc[mu] # "terminate" => \A i \in DOMAIN out : out[i].typ # "X"

\* Close reaches its save only after it has dropped the wire, and replies are
\* awaited only by Query and QueryParams.
PointsMatchCalls ==
    \A u \in Users : /\ pc[u] = "save" => ~open
                     /\ pc[u] \in {"reply", "describe"} => call[u].method # "Close"

Owned == BackendHasOneOwner /\ ClosedIsQuiet /\ PointsMatchCalls
Ended == BatchesAreExtended /\ TerminateIsFromClose /\ OnlyCloseEndsBackend

SessionInv == TypeOK /\ PumpInv /\ Owned /\ Ended

----------------------------------------------------------------------------

\* The invariant holds when Open returns.
LEMMA InitSessionInv == Init => SessionInv
<1> SUFFICES ASSUME Init PROVE SessionInv
  OBVIOUS
<1>1. WireTypeOK /\ PumpInv
  BY InitWireInv DEF Init, WireInv
<1>2. TypeOK
  <2>1. pc \in [Callers -> UserPoints \union ClientPoints]
    BY DEF Init, UserPoints, ClientPoints
  <2>2. /\ \A u \in Users : pc[u] \in UserPoints
        /\ \A c \in Clients : pc[c] \in ClientPoints
    BY SessionAssumption DEF Init, Callers, UserPoints, ClientPoints
  <2>3. call \in [Users -> AllCalls]
    BY DEF Init, AllCalls, NoCall, Methods
  <2>4. batch \in [Clients -> Seq(Messages)]
    BY DEF Init
  <2>5. /\ result \in [Users -> Results] /\ hello \in [Clients -> Packets]
        /\ told \in [Clients -> TxStatus \union {"none", "greeting"}]
    BY DEF Init, Results, Packets
  <2>6. mu \in Callers \union {NoOne} /\ open \in BOOLEAN /\ skipped \in BOOLEAN
        /\ refused \in BOOLEAN
    BY DEF Init
  <2> QED BY <1>1, <2>1, <2>2, <2>3, <2>4, <2>5, <2>6 DEF TypeOK
<1>3. Owned
  BY SessionAssumption DEF Init, WireInit, Owned, BackendHasOneOwner, ClosedIsQuiet,
     PointsMatchCalls, Inside, Waiting, Callers
<1>4. Ended
  BY DEF Init, WireInit, Ended, BatchesAreExtended, TerminateIsFromClose,
     OnlyCloseEndsBackend
<1> QED BY <1>1, <1>2, <1>3, <1>4 DEF SessionInv

\* A step of the backend: only the request of the waiting holder moves.
LEMMA BackendKeepsInv == ASSUME SessionInv, Backend PROVE SessionInv'
<1>0. WireInv /\ TypeOK
  BY DEF SessionInv, TypeOK, WireInv
<1>1. WireInv' /\ UNCHANGED sessionVars
  BY <1>0, PumpKeepsWireInv DEF Backend
<1>2. TypeOK'
  BY <1>0, <1>1 DEF TypeOK, WireInv, sessionVars
<1>3. pump # "idle" /\ pump' # "idle" /\ UNCHANGED out
  BY DEF Backend, Pump, LoopTest, Read, LoopOnce, LoopRaises, LoopExits, Recover,
     RecoverFails, FlushReply, isQueryErrorExit
<1>4. Owned'
  BY <1>1, <1>3 DEF SessionInv, Owned, BackendHasOneOwner, ClosedIsQuiet, PointsMatchCalls,
     sessionVars
<1>5. open
  BY <1>3 DEF SessionInv, Owned, ClosedIsQuiet
<1>6. (BatchesAreExtended /\ TerminateIsFromClose)'
  BY <1>1, <1>3 DEF SessionInv, Ended, BatchesAreExtended, TerminateIsFromClose, sessionVars
<1>7. OnlyCloseEndsBackend'
  <2>1. CASE LoopExits
    <3>1. cons + 1 \in DOMAIN out
      BY <2>1, <1>0 DEF LoopExits, WireInv, WireTypeOK, PumpInv
    <3>2. MayDie \/ pc[mu] = "terminate"
      BY <2>1, <3>1, <1>3 DEF LoopExits, SessionInv, Ended, TerminateIsFromClose
    <3>3. mu \in Callers /\ (pc[mu] = "terminate" => mu \in Users)
      BY <1>0, <1>3 DEF SessionInv, Owned, BackendHasOneOwner, TypeOK, Callers, ClientPoints
    <3> QED BY <1>1, <3>2, <3>3 DEF OnlyCloseEndsBackend, sessionVars
  <2>3. CASE RecoverFails
    BY <2>3 DEF RecoverFails, OnlyCloseEndsBackend
  <2>2. CASE ~LoopExits /\ ~RecoverFails
    <3>1. UNCHANGED alive
      BY <2>2 DEF Backend, Pump, LoopTest, Read, LoopOnce, LoopRaises, Recover, FlushReply
    <3> QED BY <1>1, <3>1 DEF SessionInv, Ended, OnlyCloseEndsBackend, sessionVars
  <2> QED BY <2>1, <2>2, <2>3
<1> QED
  BY <1>1, <1>2, <1>4, <1>6, <1>7 DEF SessionInv, Ended, WireInv

\* What a step that leaves the wire alone, or only takes a reply, preserves.
LEMMA SameWireKeepsInv == WireInv /\ UNCHANGED wireVars => WireInv'
BY DEF WireInv, WireTypeOK, PumpInv, StagedBytes, wireVars

LEMMA TakeReplyKeepsInv ==
    WireInv /\ TakeReply /\ tx' \in TxStatus \union {"none"} => WireInv'
BY DEF TakeReply, WireInv, WireTypeOK, PumpInv, StagedBytes, PumpPoints

\* The requests the code builds are sequences of messages.
LEMMA RequestTypes ==
    ASSUME NEW sql \in Stmts \union {NoStmt}
    PROVE  /\ <<Message("Q", sql)>> \in Seq(Messages)
           /\ <<Message("P", sql), Bare("D"), Bare("S")>> \in Seq(Messages)
           /\ <<Bare("B"), Bare("D"), Bare("E"), Bare("S")>> \in Seq(Messages)
           /\ <<Message("Q", "read")>> \in Seq(Messages)
           /\ <<Message("Q", "checkpoint")>> \in Seq(Messages)
           /\ <<Bare("X")>> \in Seq(Messages)
BY DEF Message, Bare, Messages, MsgTypes, ExtendedTypes, Stmts

\* A user's call, and every step of it, keeps the invariant.
LEMMA UserKeepsInv ==
    ASSUME SessionInv, NEW u \in Users, Call(u) \/ UserStep(u)
    PROVE  SessionInv'
<1>0. /\ WireInv /\ WireTypeOK /\ TypeOK
      /\ u \in Callers /\ u \notin Clients /\ NoOne \notin Callers
  BY SessionAssumption DEF SessionInv, TypeOK, WireInv, Callers
<1>m. /\ call[u].sql \in Stmts \union {NoStmt} /\ "read" \in Stmts
      /\ <<Message("Q", call[u].sql)>> \in Seq(Messages)
      /\ <<Message("P", call[u].sql), Bare("D"), Bare("S")>> \in Seq(Messages)
      /\ <<Bare("B"), Bare("D"), Bare("E"), Bare("S")>> \in Seq(Messages)
      /\ <<Message("Q", "checkpoint")>> \in Seq(Messages)
      /\ <<Bare("X")>> \in Seq(Messages)
  <2>1. call[u].sql \in Stmts \union {NoStmt}
    BY <1>0 DEF TypeOK, AllCalls
  <2> QED BY <2>1, RequestTypes DEF Stmts
<1>1. CASE Call(u)
  <2>1. WireInv' /\ UNCHANGED wireVars
    BY <1>0, <1>1, SameWireKeepsInv DEF Call
  <2>2. TypeOK'
    <3>1. PICK c \in Calls : call' = [call EXCEPT ![u] = c]
      BY <1>1 DEF Call
    <3>2. c \in AllCalls
      BY SessionAssumption
    <3>3. call' \in [Users -> AllCalls]
      BY <1>0, <3>1, <3>2 DEF TypeOK
    <3> QED BY <1>0, <1>1, <2>1, <3>3 DEF Call, TypeOK, WireInv, Goto, UserPoints, Callers,
       Results
  <2>3. Owned'
    BY <1>0, <1>1, <2>2 DEF Call, SessionInv, TypeOK, Owned, BackendHasOneOwner,
       ClosedIsQuiet, PointsMatchCalls, Inside, Waiting, Callers, Goto, wireVars,
       ExecReturned
  <2>4. Ended'
    BY <1>0, <1>1, <2>2 DEF Call, SessionInv, TypeOK, Owned, BackendHasOneOwner, Inside,
       Waiting, Callers, Ended, BatchesAreExtended, TerminateIsFromClose,
       OnlyCloseEndsBackend, Goto, wireVars, ExecReturned, Message, Bare
  <2> QED BY <2>1, <2>2, <2>3, <2>4 DEF SessionInv, WireInv
<1>2. CASE Lock(u)
  <2>1. WireInv' /\ UNCHANGED wireVars
    BY <1>0, <1>2, SameWireKeepsInv DEF Lock
  <2>2. TypeOK'
    <3>1. pg.skip \in BOOLEAN
      BY <1>0 DEF WireTypeOK, Sessions
    <3>2. skipped' \in BOOLEAN
      BY <1>2, <3>1, Zenon DEF Lock
    <3> QED BY <1>0, <1>2, <2>1, <3>2 DEF Lock, TypeOK, WireInv, Goto, UserPoints,
       ClientPoints, Callers
  <2>3. Owned'
    BY <1>0, <1>2, <2>2 DEF Lock, SessionInv, TypeOK, Owned, BackendHasOneOwner,
       ClosedIsQuiet, PointsMatchCalls, Inside, Waiting, Callers, Goto, wireVars,
       ExecReturned
  <2>4. Ended'
    BY <1>0, <1>2, <2>2 DEF Lock, SessionInv, TypeOK, Owned, BackendHasOneOwner, Inside,
       Waiting, Callers, Ended, BatchesAreExtended, TerminateIsFromClose,
       OnlyCloseEndsBackend, Goto, wireVars, ExecReturned, Message, Bare
  <2> QED BY <2>1, <2>2, <2>3, <2>4 DEF SessionInv, WireInv
<1>3. CASE NilWire(u)
  <2>1. WireInv' /\ UNCHANGED wireVars
    BY <1>0, <1>3, SameWireKeepsInv DEF NilWire, Return
  <2>2. TypeOK'
    BY <1>0, <1>3, <2>1 DEF NilWire, Return, TypeOK, WireInv, Goto, UserPoints,
       ClientPoints, Callers, Results
  <2>3. Owned'
    BY <1>0, <1>3, <2>2 DEF NilWire, Return, SessionInv, TypeOK, Owned, BackendHasOneOwner,
       ClosedIsQuiet, PointsMatchCalls, Inside, Waiting, Callers, Goto, wireVars,
       ExecReturned
  <2>4. Ended'
    BY <1>0, <1>3, <2>2 DEF NilWire, Return, SessionInv, TypeOK, Owned, BackendHasOneOwner,
       Inside, Waiting, Callers, Ended, BatchesAreExtended, TerminateIsFromClose,
       OnlyCloseEndsBackend, Goto, wireVars, ExecReturned, Message, Bare
  <2> QED BY <2>1, <2>2, <2>3, <2>4 DEF SessionInv, WireInv
<1>4. CASE SimpleQuery(u)
  <2>1. WireInv'
    BY <1>0, <1>4, <1>m, StageKeepsWireInv, ParsedTxType DEF SimpleQuery, Stage, WireInv,
       WireTypeOK
  <2>2. TypeOK'
    BY <1>0, <1>4, <2>1 DEF SimpleQuery, TypeOK, WireInv, Goto, UserPoints, ClientPoints,
       Callers, Results
  <2>3. Owned'
    BY <1>0, <1>4, <2>2 DEF SimpleQuery, SessionInv, TypeOK, Owned, BackendHasOneOwner,
       ClosedIsQuiet, PointsMatchCalls, Inside, Waiting, Callers, Goto, Stage, Load,
       ExecReturned
  <2>4. Ended'
    BY <1>0, <1>4, <2>2 DEF SimpleQuery, SessionInv, TypeOK, Owned, BackendHasOneOwner,
       Inside, Waiting, Callers, Ended, BatchesAreExtended, TerminateIsFromClose,
       OnlyCloseEndsBackend, Goto, Stage, Load, ExecReturned, Message, Bare
  <2> QED BY <2>1, <2>2, <2>3, <2>4 DEF SessionInv, WireInv
<1>5. CASE Prepare(u)
  <2>1. WireInv'
    BY <1>0, <1>5, <1>m, StageKeepsWireInv, ParsedTxType DEF Prepare, Stage, WireInv,
       WireTypeOK
  <2>2. TypeOK'
    BY <1>0, <1>5, <2>1 DEF Prepare, TypeOK, WireInv, Goto, UserPoints, ClientPoints,
       Callers, Results
  <2>3. Owned'
    BY <1>0, <1>5, <2>2 DEF Prepare, SessionInv, TypeOK, Owned, BackendHasOneOwner,
       ClosedIsQuiet, PointsMatchCalls, Inside, Waiting, Callers, Goto, Stage, Load,
       ExecReturned
  <2>4. Ended'
    BY <1>0, <1>5, <2>2 DEF Prepare, SessionInv, TypeOK, Owned, BackendHasOneOwner, Inside,
       Waiting, Callers, Ended, BatchesAreExtended, TerminateIsFromClose,
       OnlyCloseEndsBackend, Goto, Stage, Load, ExecReturned, Message, Bare
  <2> QED BY <2>1, <2>2, <2>3, <2>4 DEF SessionInv, WireInv
<1>6. CASE PrepareFailed(u)
  <2>1. WireInv'
    BY <1>0, <1>6, TakeReplyKeepsInv, ParsedTxType DEF PrepareFailed, Return, WireInv,
       WireTypeOK
  <2>2. TypeOK'
    BY <1>0, <1>6, <2>1 DEF PrepareFailed, Return, TypeOK, WireInv, Goto, UserPoints,
       ClientPoints, Callers, Results
  <2>3. Owned'
    BY <1>0, <1>6, <2>2 DEF PrepareFailed, Return, SessionInv, TypeOK, Owned,
       BackendHasOneOwner, ClosedIsQuiet, PointsMatchCalls, Inside, Waiting, Callers, Goto,
       TakeReply, ExecReturned
  <2>4. Ended'
    BY <1>0, <1>6, <2>2 DEF PrepareFailed, Return, SessionInv, TypeOK, Owned,
       BackendHasOneOwner, Inside, Waiting, Callers, Ended, BatchesAreExtended,
       TerminateIsFromClose, OnlyCloseEndsBackend, Goto, TakeReply, ExecReturned, Message,
       Bare
  <2> QED BY <2>1, <2>2, <2>3, <2>4 DEF SessionInv, WireInv
<1>7. CASE Execute(u)
  <2>1. WireInv'
    BY <1>0, <1>7, <1>m, StageKeepsWireInv, ParsedTxType DEF Execute, Stage, WireInv,
       WireTypeOK
  <2>2. TypeOK'
    BY <1>0, <1>7, <2>1 DEF Execute, TypeOK, WireInv, Goto, UserPoints, ClientPoints,
       Callers, Results
  <2>3. Owned'
    BY <1>0, <1>7, <2>2 DEF Execute, SessionInv, TypeOK, Owned, BackendHasOneOwner,
       ClosedIsQuiet, PointsMatchCalls, Inside, Waiting, Callers, Goto, Stage, Load,
       ExecReturned
  <2>4. Ended'
    BY <1>0, <1>7, <2>2 DEF Execute, SessionInv, TypeOK, Owned, BackendHasOneOwner, Inside,
       Waiting, Callers, Ended, BatchesAreExtended, TerminateIsFromClose,
       OnlyCloseEndsBackend, Goto, Stage, Load, ExecReturned, Message, Bare
  <2> QED BY <2>1, <2>2, <2>3, <2>4 DEF SessionInv, WireInv
<1>8. CASE Reply(u)
  <2>1. WireInv'
    BY <1>0, <1>8, TakeReplyKeepsInv, ParsedTxType DEF Reply, Return, WireInv, WireTypeOK
  <2>2. TypeOK'
    BY <1>0, <1>8, <2>1 DEF Reply, Return, TypeOK, WireInv, Goto, UserPoints, ClientPoints,
       Callers, Results
  <2>3. Owned'
    BY <1>0, <1>8, <2>2 DEF Reply, Return, SessionInv, TypeOK, Owned, BackendHasOneOwner,
       ClosedIsQuiet, PointsMatchCalls, Inside, Waiting, Callers, Goto, TakeReply,
       ExecReturned
  <2>4. Ended'
    BY <1>0, <1>8, <2>2 DEF Reply, Return, SessionInv, TypeOK, Owned, BackendHasOneOwner,
       Inside, Waiting, Callers, Ended, BatchesAreExtended, TerminateIsFromClose,
       OnlyCloseEndsBackend, Goto, TakeReply, ExecReturned, Message, Bare
  <2> QED BY <2>1, <2>2, <2>3, <2>4 DEF SessionInv, WireInv
<1>9. CASE Checkpoint(u)
  <2>1. WireInv'
    BY <1>0, <1>9, <1>m, StageKeepsWireInv, ParsedTxType DEF Checkpoint, Stage, WireInv,
       WireTypeOK
  <2>0. refused' \in BOOLEAN
    BY <1>9, Zenon DEF Checkpoint, CannotFlush
  <2>2. TypeOK'
    BY <1>0, <1>9, <2>0, <2>1 DEF Checkpoint, TypeOK, WireInv, Goto, UserPoints, ClientPoints,
       Callers, Results
  <2>3. Owned'
    BY <1>0, <1>9, <2>2 DEF Checkpoint, SessionInv, TypeOK, Owned, BackendHasOneOwner,
       ClosedIsQuiet, PointsMatchCalls, Inside, Waiting, Callers, Goto, Stage, Load,
       ExecReturned
  <2>4. Ended'
    BY <1>0, <1>9, <2>2 DEF Checkpoint, SessionInv, TypeOK, Owned, BackendHasOneOwner,
       Inside, Waiting, Callers, Ended, BatchesAreExtended, TerminateIsFromClose,
       OnlyCloseEndsBackend, Goto, Stage, Load, ExecReturned, Message, Bare
  <2> QED BY <2>1, <2>2, <2>3, <2>4 DEF SessionInv, WireInv
<1>10. CASE Terminate(u)
  <2>1. WireInv'
    BY <1>0, <1>10, <1>m, StageKeepsWireInv, ParsedTxType DEF Terminate, Stage, WireInv,
       WireTypeOK
  <2>0. refused' \in BOOLEAN
    BY <1>10, Zenon DEF Terminate
  <2>2. TypeOK'
    BY <1>0, <1>10, <2>0, <2>1 DEF Terminate, TypeOK, WireInv, Goto, UserPoints, ClientPoints,
       Callers, Results
  <2>3. Owned'
    BY <1>0, <1>10, <2>2 DEF Terminate, SessionInv, TypeOK, Owned, BackendHasOneOwner,
       ClosedIsQuiet, PointsMatchCalls, Inside, Waiting, Callers, Goto, Stage, Load,
       ExecReturned
  <2>4. Ended'
    BY <1>0, <1>10, <2>2 DEF Terminate, SessionInv, TypeOK, Owned, BackendHasOneOwner,
       Inside, Waiting, Callers, Ended, BatchesAreExtended, TerminateIsFromClose,
       OnlyCloseEndsBackend, Goto, Stage, Load, ExecReturned, Message, Bare
  <2> QED BY <2>1, <2>2, <2>3, <2>4 DEF SessionInv, WireInv
<1>11. CASE DropWire(u)
  <2>1. WireInv'
    BY <1>0, <1>11, TakeReplyKeepsInv, ParsedTxType DEF DropWire, WireInv, WireTypeOK
  <2>2. TypeOK'
    BY <1>0, <1>11, <2>1 DEF DropWire, TypeOK, WireInv, Goto, UserPoints, ClientPoints,
       Callers, Results
  <2>3. Owned'
    BY <1>0, <1>11, <2>2 DEF DropWire, SessionInv, TypeOK, Owned, BackendHasOneOwner,
       ClosedIsQuiet, PointsMatchCalls, Inside, Waiting, Callers, Goto, TakeReply,
       ExecReturned
  <2>4. Ended'
    BY <1>0, <1>11, <2>2 DEF DropWire, SessionInv, TypeOK, Owned, BackendHasOneOwner,
       Inside, Waiting, Callers, Ended, BatchesAreExtended, TerminateIsFromClose,
       OnlyCloseEndsBackend, Goto, TakeReply, ExecReturned, Message, Bare
  <2> QED BY <2>1, <2>2, <2>3, <2>4 DEF SessionInv, WireInv
<1>12. CASE Save(u)
  <2>1. UNCHANGED <<out, off, in, tx, pump, cons, alive, ran>>
    BY <1>12 DEF Save
  <2>2. pg' \in Sessions
    BY <1>0, <1>12 DEF Save, WireTypeOK, Sessions
  <2>3. WireInv'
    BY <1>0, <2>1, <2>2 DEF WireInv, WireTypeOK, PumpInv, StagedBytes
  <2>4. TypeOK'
    BY <1>0, <1>12, <2>3 DEF Save, Return, TypeOK, WireInv, Goto, UserPoints, ClientPoints,
       Callers, Results
  <2>5. Owned'
    BY <1>0, <1>12, <2>4 DEF Save, MaySave, Return, SessionInv, TypeOK, Owned,
       BackendHasOneOwner, ClosedIsQuiet, PointsMatchCalls, Inside, Waiting, Callers, Goto,
       ExecReturned
  <2>6. Ended'
    BY <1>0, <1>12, <2>4 DEF Save, MaySave, Return, SessionInv, TypeOK, Owned,
       BackendHasOneOwner, Inside, Waiting, Callers, Ended, BatchesAreExtended,
       TerminateIsFromClose, OnlyCloseEndsBackend, Goto
  <2> QED BY <2>3, <2>4, <2>5, <2>6 DEF SessionInv, WireInv
<1> QED
  BY <1>1, <1>2, <1>3, <1>4, <1>5, <1>6, <1>7, <1>8, <1>9, <1>10, <1>11, <1>12 DEF UserStep

\* The end of a connection clears the client's own state only.
LEMMA GoneFrame ==
    ASSUME TypeOK, BatchesAreExtended, NEW c \in Clients, Gone(c)
    PROVE  /\ hello' \in [Clients -> Packets]
           /\ batch' \in [Clients -> Seq(Messages)]
           /\ told' \in [Clients -> TxStatus \union {"none", "greeting"}]
           /\ BatchesAreExtended'
           /\ pc' = [pc EXCEPT ![c] = "gone"]
BY DEF Gone, Goto, TypeOK, Packets, BatchesAreExtended

\* A step of ServeConn, or of its client, keeps the invariant.
LEMMA ClientKeepsInv ==
    ASSUME SessionInv, NEW c \in Clients, ServeStep(c) \/ ClientStep(c)
    PROVE  SessionInv'
<1>0. /\ WireInv /\ WireTypeOK /\ TypeOK
      /\ c \in Callers /\ c \notin Users /\ NoOne \notin Callers
  BY SessionAssumption DEF SessionInv, TypeOK, WireInv, Callers
<1>m. /\ <<Message("Q", "read")>> \in Seq(Messages)
      /\ \A m \in ClientMsgs : Append(batch[c], m) \in Seq(Messages)
  <2>1. ClientMsgs \subseteq Messages
    BY SessionAssumption
  <2>2. batch[c] \in Seq(Messages) /\ "read" \in Stmts
    BY <1>0 DEF TypeOK, Stmts
  <2> QED BY <2>1, <2>2, RequestTypes
<1>1. CASE Connect(c)
  <2>1. WireInv' /\ UNCHANGED wireVars
    BY <1>0, <1>1, SameWireKeepsInv DEF Connect, Packets
  <2>2. TypeOK'
    BY <1>0, <1>1, <2>1 DEF Connect, Packets, TypeOK, WireInv, Goto, UserPoints,
       ClientPoints, Callers, Results, Packets, TxStatus
  <2>3. Owned'
    BY <1>0, <1>1, <2>2 DEF Connect, Packets, SessionInv, TypeOK, Owned, BackendHasOneOwner,
       ClosedIsQuiet, PointsMatchCalls, Inside, Waiting, Callers, Goto, wireVars,
       ExecReturned
  <2>4. Ended'
    BY <1>0, <1>1, <2>2 DEF Connect, Packets, SessionInv, TypeOK, Owned, BackendHasOneOwner,
       Inside, Waiting, Callers, Ended, BatchesAreExtended, TerminateIsFromClose,
       OnlyCloseEndsBackend, Goto, wireVars, ExecReturned, Message, Bare
  <2> QED BY <2>1, <2>2, <2>3, <2>4 DEF SessionInv, WireInv
<1>2. CASE Lock(c)
  <2>1. WireInv' /\ UNCHANGED wireVars
    BY <1>0, <1>2, SameWireKeepsInv DEF Lock
  <2>2. TypeOK'
    <3>1. pg.skip \in BOOLEAN
      BY <1>0 DEF WireTypeOK, Sessions
    <3>2. skipped' \in BOOLEAN
      BY <1>2, <3>1, Zenon DEF Lock
    <3> QED BY <1>0, <1>2, <2>1, <3>2 DEF Lock, TypeOK, WireInv, Goto, UserPoints,
       ClientPoints, Callers
  <2>3. Owned'
    BY <1>0, <1>2, <2>2 DEF Lock, SessionInv, TypeOK, Owned, BackendHasOneOwner,
       ClosedIsQuiet, PointsMatchCalls, Inside, Waiting, Callers, Goto, wireVars,
       ExecReturned
  <2>4. Ended'
    BY <1>0, <1>2, <2>2 DEF Lock, SessionInv, TypeOK, Owned, BackendHasOneOwner, Inside,
       Waiting, Callers, Ended, BatchesAreExtended, TerminateIsFromClose,
       OnlyCloseEndsBackend, Goto, wireVars, ExecReturned, Message, Bare
  <2> QED BY <2>1, <2>2, <2>3, <2>4 DEF SessionInv, WireInv
<1>3. CASE ServeStartup(c)
  <2>1. WireInv' /\ UNCHANGED <<wireVars, mu>>
    BY <1>0, <1>3, SameWireKeepsInv DEF ServeStartup
  <2>2. PICK p \in {"startup", "lock", "gone"} : /\ pc' = [pc EXCEPT ![c] = p]
    BY <1>0, <1>3 DEF ServeStartup, Leave, Gone, Goto, TypeOK
  <2>3. pc[c] = "startup" /\ UNCHANGED <<open, call, result, skipped, refused>>
    BY <1>3 DEF ServeStartup, TakeReply
  <2>4. /\ hello' \in [Clients -> Packets] /\ batch' \in [Clients -> Seq(Messages)]
        /\ told' \in [Clients -> TxStatus \union {"none", "greeting"}]
        /\ BatchesAreExtended'
    <3>1. CASE Gone(c)
      BY <1>0, <3>1, GoneFrame DEF SessionInv, Ended
    <3>2. CASE ~Gone(c)
      BY <1>0, <1>3, <3>2 DEF ServeStartup, Leave, SessionInv, Ended, BatchesAreExtended,
         TypeOK, Packets
    <3> QED BY <3>1, <3>2
  <2>5. TypeOK'
    <3>1. pc' \in [Callers -> UserPoints \union ClientPoints] /\ p \in ClientPoints
      BY <1>0, <2>2 DEF TypeOK, ClientPoints
    <3> QED BY <1>0, <2>1, <2>2, <2>3, <2>4, <3>1 DEF TypeOK, WireInv, Callers
  <2>6. Owned'
    BY <1>0, <2>1, <2>2, <2>3, <2>5 DEF SessionInv, TypeOK, Owned, BackendHasOneOwner,
       ClosedIsQuiet, PointsMatchCalls, Inside, Waiting, Callers, wireVars
  <2>7. Ended'
    BY <1>0, <2>1, <2>2, <2>3, <2>4 DEF SessionInv, TypeOK, Owned, BackendHasOneOwner,
       Inside, Waiting, Ended, TerminateIsFromClose, OnlyCloseEndsBackend, wireVars
  <2> QED BY <2>1, <2>4, <2>5, <2>6, <2>7 DEF SessionInv, WireInv
<1>4. CASE AfterDecline(c)
  <2>1. WireInv' /\ UNCHANGED <<wireVars, mu>>
    BY <1>0, <1>4, SameWireKeepsInv DEF AfterDecline
  <2>2. PICK p \in {"startup", "gone"} : /\ pc' = [pc EXCEPT ![c] = p]
    BY <1>0, <1>4 DEF AfterDecline, Leave, Gone, Goto, TypeOK
  <2>3. pc[c] = "startup" /\ UNCHANGED <<open, call, result, skipped, refused>>
    BY <1>4 DEF AfterDecline, TakeReply
  <2>4. /\ hello' \in [Clients -> Packets] /\ batch' \in [Clients -> Seq(Messages)]
        /\ told' \in [Clients -> TxStatus \union {"none", "greeting"}]
        /\ BatchesAreExtended'
    <3>1. CASE Gone(c)
      BY <1>0, <3>1, GoneFrame DEF SessionInv, Ended
    <3>2. CASE ~Gone(c)
      BY <1>0, <1>4, <3>2 DEF AfterDecline, Leave, SessionInv, Ended, BatchesAreExtended,
         TypeOK, Packets
    <3> QED BY <3>1, <3>2
  <2>5. TypeOK'
    <3>1. pc' \in [Callers -> UserPoints \union ClientPoints] /\ p \in ClientPoints
      BY <1>0, <2>2 DEF TypeOK, ClientPoints
    <3> QED BY <1>0, <2>1, <2>2, <2>3, <2>4, <3>1 DEF TypeOK, WireInv, Callers
  <2>6. Owned'
    BY <1>0, <2>1, <2>2, <2>3, <2>5 DEF SessionInv, TypeOK, Owned, BackendHasOneOwner,
       ClosedIsQuiet, PointsMatchCalls, Inside, Waiting, Callers, wireVars
  <2>7. Ended'
    BY <1>0, <2>1, <2>2, <2>3, <2>4 DEF SessionInv, TypeOK, Owned, BackendHasOneOwner,
       Inside, Waiting, Ended, TerminateIsFromClose, OnlyCloseEndsBackend, wireVars
  <2> QED BY <2>1, <2>4, <2>5, <2>6, <2>7 DEF SessionInv, WireInv
<1>5. CASE Refuse(c)
  <2>1. WireInv' /\ UNCHANGED wireVars
    BY <1>0, <1>5, SameWireKeepsInv DEF Refuse, Gone, Leave
  <2>2. TypeOK'
    BY <1>0, <1>5, <2>1 DEF Refuse, Gone, Leave, TypeOK, WireInv, Goto, UserPoints,
       ClientPoints, Callers, Results, Packets, TxStatus
  <2>3. Owned'
    BY <1>0, <1>5, <2>2 DEF Refuse, Gone, Leave, SessionInv, TypeOK, Owned,
       BackendHasOneOwner, ClosedIsQuiet, PointsMatchCalls, Inside, Waiting, Callers, Goto,
       wireVars, ExecReturned
  <2>4. Ended'
    BY <1>0, <1>5, <2>2 DEF Refuse, Gone, Leave, SessionInv, TypeOK, Owned,
       BackendHasOneOwner, Inside, Waiting, Callers, Ended, BatchesAreExtended,
       TerminateIsFromClose, OnlyCloseEndsBackend, Goto, wireVars, ExecReturned, Message,
       Bare
  <2> QED BY <2>1, <2>2, <2>3, <2>4 DEF SessionInv, WireInv
<1>6. CASE AskVersion(c)
  <2>1. WireInv'
    BY <1>0, <1>6, <1>m, StageKeepsWireInv, ParsedTxType DEF AskVersion, Stage, WireInv,
       WireTypeOK
  <2>2. TypeOK'
    BY <1>0, <1>6, <2>1 DEF AskVersion, TypeOK, WireInv, Goto, UserPoints, ClientPoints,
       Callers, Results, Packets, TxStatus
  <2>3. Owned'
    BY <1>0, <1>6, <2>2 DEF AskVersion, SessionInv, TypeOK, Owned, BackendHasOneOwner,
       ClosedIsQuiet, PointsMatchCalls, Inside, Waiting, Callers, Goto, Stage, Load,
       ExecReturned
  <2>4. Ended'
    BY <1>0, <1>6, <2>2 DEF AskVersion, SessionInv, TypeOK, Owned, BackendHasOneOwner,
       Inside, Waiting, Callers, Ended, BatchesAreExtended, TerminateIsFromClose,
       OnlyCloseEndsBackend, Goto, Stage, Load, ExecReturned, Message, Bare
  <2> QED BY <2>1, <2>2, <2>3, <2>4 DEF SessionInv, WireInv
<1>7. CASE Greet(c)
  <2>1. WireInv'
    BY <1>0, <1>7, TakeReplyKeepsInv, ParsedTxType DEF Greet, WireInv, WireTypeOK
  <2>2. PICK p \in {"relay", "gone"} : /\ pc' = [pc EXCEPT ![c] = p]
                   /\ mu' = IF p = "gone" THEN NoOne ELSE mu
    BY <1>0, <1>7 DEF Greet, Leave, Gone, Goto, TypeOK
  <2>3. pc[c] = "greet" /\ UNCHANGED <<open, call, result, skipped, refused>> /\ pump' = "idle" /\ UNCHANGED <<out, alive, pg>>
    BY <1>7 DEF Greet, TakeReply
  <2>4. /\ hello' \in [Clients -> Packets] /\ batch' \in [Clients -> Seq(Messages)]
        /\ told' \in [Clients -> TxStatus \union {"none", "greeting"}]
        /\ BatchesAreExtended'
    <3>1. CASE Gone(c)
      BY <1>0, <3>1, GoneFrame DEF SessionInv, Ended
    <3>2. CASE ~Gone(c)
      BY <1>0, <1>7, <3>2 DEF Greet, Leave, SessionInv, Ended, BatchesAreExtended, TypeOK,
         Packets
    <3> QED BY <3>1, <3>2
  <2>5. TypeOK'
    <3>1. pc' \in [Callers -> UserPoints \union ClientPoints] /\ p \in ClientPoints
      BY <1>0, <2>2 DEF TypeOK, ClientPoints
    <3> QED BY <1>0, <2>1, <2>2, <2>3, <2>4, <3>1 DEF TypeOK, WireInv, Callers
  <2>6. Owned'
    BY <1>0, <2>1, <2>2, <2>3, <2>5 DEF SessionInv, TypeOK, Owned, BackendHasOneOwner,
       ClosedIsQuiet, PointsMatchCalls, Inside, Waiting, Callers
  <2>7. Ended'
    BY <1>0, <2>1, <2>2, <2>3, <2>4 DEF SessionInv, TypeOK, Owned, BackendHasOneOwner,
       Inside, Waiting, Ended, TerminateIsFromClose, OnlyCloseEndsBackend
  <2> QED BY <2>1, <2>4, <2>5, <2>6, <2>7 DEF SessionInv, WireInv
<1>8. CASE HangUp(c)
  <2>1. WireInv' /\ UNCHANGED wireVars
    BY <1>0, <1>8, SameWireKeepsInv DEF HangUp, Gone, Leave
  <2>2. TypeOK'
    BY <1>0, <1>8, <2>1 DEF HangUp, Gone, Leave, TypeOK, WireInv, Goto, UserPoints,
       ClientPoints, Callers, Results, Packets, TxStatus
  <2>3. Owned'
    BY <1>0, <1>8, <2>2 DEF HangUp, Gone, Leave, SessionInv, TypeOK, Owned,
       BackendHasOneOwner, ClosedIsQuiet, PointsMatchCalls, Inside, Waiting, Callers, Goto,
       wireVars, ExecReturned
  <2>4. Ended'
    BY <1>0, <1>8, <2>2 DEF HangUp, Gone, Leave, SessionInv, TypeOK, Owned,
       BackendHasOneOwner, Inside, Waiting, Callers, Ended, BatchesAreExtended,
       TerminateIsFromClose, OnlyCloseEndsBackend, Goto, wireVars, ExecReturned, Message,
       Bare
  <2> QED BY <2>1, <2>2, <2>3, <2>4 DEF SessionInv, WireInv
<1>9. CASE RelayReply(c)
  <2>1. WireInv'
    BY <1>0, <1>9, TakeReplyKeepsInv, ParsedTxType DEF RelayReply, WireInv, WireTypeOK
  <2>2. PICK p \in {"relay", "gone"} : /\ pc' = [pc EXCEPT ![c] = p]
                   /\ mu' = IF p = "gone" THEN NoOne ELSE mu
    BY <1>0, <1>9 DEF RelayReply, Leave, Gone, Goto, TypeOK
  <2>3. pc[c] = "exec" /\ UNCHANGED <<open, call, result, skipped, refused>> /\ pump' = "idle" /\ UNCHANGED <<out, alive, pg>>
    BY <1>9 DEF RelayReply, TakeReply
  <2>4. /\ hello' \in [Clients -> Packets] /\ batch' \in [Clients -> Seq(Messages)]
        /\ told' \in [Clients -> TxStatus \union {"none", "greeting"}]
        /\ BatchesAreExtended'
    <3>1. CASE Gone(c)
      BY <1>0, <3>1, GoneFrame DEF SessionInv, Ended
    <3>2. CASE ~Gone(c)
      BY <1>0, <1>9, <3>2 DEF RelayReply, Leave, SessionInv, Ended, BatchesAreExtended,
         TypeOK, Packets, ReplyStatus, TxStatus
    <3> QED BY <3>1, <3>2
  <2>5. TypeOK'
    <3>1. pc' \in [Callers -> UserPoints \union ClientPoints] /\ p \in ClientPoints
      BY <1>0, <2>2 DEF TypeOK, ClientPoints
    <3> QED BY <1>0, <2>1, <2>2, <2>3, <2>4, <3>1 DEF TypeOK, WireInv, Callers
  <2>6. Owned'
    BY <1>0, <2>1, <2>2, <2>3, <2>5 DEF SessionInv, TypeOK, Owned, BackendHasOneOwner,
       ClosedIsQuiet, PointsMatchCalls, Inside, Waiting, Callers
  <2>7. Ended'
    BY <1>0, <2>1, <2>2, <2>3, <2>4 DEF SessionInv, TypeOK, Owned, BackendHasOneOwner,
       Inside, Waiting, Ended, TerminateIsFromClose, OnlyCloseEndsBackend
  <2> QED BY <2>1, <2>4, <2>5, <2>6, <2>7 DEF SessionInv, WireInv
<1>10. CASE Relay(c)
  <2>0. PICK m \in ClientMsgs : RelayTerminate(c, m) \/ RelayBuffer(c, m) \/ RelaySubmit(c, m)
    BY <1>10 DEF Relay
  <2>r. pc[c] = "relay" /\ UNCHANGED <<open, call, result, skipped, refused>>
    BY <1>10 DEF Relay
  <2>1. CASE RelayTerminate(c, m)
    <3>1. WireInv' /\ UNCHANGED wireVars
      BY <1>0, <2>1, SameWireKeepsInv DEF RelayTerminate
    <3>2. TypeOK'
      BY <1>0, <2>r, <2>1, <3>1 DEF RelayTerminate, Gone, Leave, TypeOK, WireInv, Goto,
         ClientPoints, Callers, Packets, TxStatus
    <3>3. Owned'
      BY <1>0, <2>r, <2>1, <3>2 DEF RelayTerminate, Gone, Leave, SessionInv, TypeOK, Owned,
         BackendHasOneOwner, ClosedIsQuiet, PointsMatchCalls, Inside, Waiting, Callers,
         Goto, wireVars
    <3>4. Ended'
      BY <1>0, <2>r, <2>1, <3>2 DEF RelayTerminate, Gone, Leave, SessionInv, TypeOK, Owned,
         BackendHasOneOwner, Inside, Waiting, Ended, BatchesAreExtended,
         TerminateIsFromClose, OnlyCloseEndsBackend, Goto, wireVars
    <3> QED BY <3>1, <3>2, <3>3, <3>4 DEF SessionInv, WireInv
  <2>2. CASE RelayBuffer(c, m)
    <3>1. WireInv' /\ UNCHANGED wireVars
      BY <1>0, <2>2, SameWireKeepsInv DEF RelayBuffer
    <3>2. TypeOK'
      BY <1>0, <1>m, <2>r, <2>2, <3>1 DEF RelayBuffer, TypeOK, WireInv
    <3>3. Owned'
      BY <1>0, <2>r, <2>2, <3>2 DEF RelayBuffer, SessionInv, TypeOK, Owned,
         BackendHasOneOwner, ClosedIsQuiet, PointsMatchCalls, Inside, Waiting, Callers,
         Goto, wireVars
    <3>4. BatchesAreExtended'
      <4> SUFFICES ASSUME NEW d \in Clients, NEW i \in DOMAIN batch'[d]
                   PROVE  batch'[d][i].typ \in ExtendedTypes
        BY DEF BatchesAreExtended
      <4>1. CASE d # c
        BY <1>0, <2>2, <4>1 DEF RelayBuffer, SessionInv, Ended, BatchesAreExtended, TypeOK
      <4>2. CASE d = c
        <5>1. batch[c] \in Seq(Messages) /\ batch'[c] = Append(batch[c], m) /\ m.typ \in ExtendedTypes
          BY <1>0, <2>2 DEF RelayBuffer, TypeOK
        <5>2. \A j \in DOMAIN batch[c] : batch[c][j].typ \in ExtendedTypes
          BY DEF SessionInv, Ended, BatchesAreExtended
        <5> QED BY <4>2, <5>1, <5>2
      <4> QED BY <4>1, <4>2
    <3>5. Ended'
      BY <1>0, <2>r, <2>2, <3>2, <3>4 DEF RelayBuffer, SessionInv, Ended,
         TerminateIsFromClose, OnlyCloseEndsBackend, wireVars
    <3> QED BY <3>1, <3>2, <3>3, <3>5 DEF SessionInv, WireInv
  <2>3. CASE RelaySubmit(c, m)
    <3>1. WireInv'
      BY <1>0, <1>m, <2>3, StageKeepsWireInv DEF RelaySubmit, Stage, WireInv, WireTypeOK
    <3>2. TypeOK'
      BY <1>0, <2>r, <2>3, <3>1 DEF RelaySubmit, TypeOK, WireInv, Goto, ClientPoints,
         Callers
    <3>3. Owned'
      BY <1>0, <2>r, <2>3, <3>2 DEF RelaySubmit, SessionInv, TypeOK, Owned,
         BackendHasOneOwner, ClosedIsQuiet, PointsMatchCalls, Inside, Waiting, Callers,
         Goto, Stage, Load
    <3>4. \A i \in DOMAIN out' : out'[i].typ # "X"
      <4>1. batch[c] \in Seq(Messages) /\ out' = Append(batch[c], m) /\ m.typ # "X"
        BY <1>0, <2>3 DEF RelaySubmit, TypeOK, Stage, Load
      <4>2. \A j \in DOMAIN batch[c] : batch[c][j].typ # "X"
        BY DEF SessionInv, Ended, BatchesAreExtended, ExtendedTypes
      <4> QED BY <4>1, <4>2
    <3>5. Ended'
      BY <1>0, <2>r, <2>3, <3>2, <3>4 DEF RelaySubmit, SessionInv, TypeOK, Owned,
         BackendHasOneOwner, Inside, Ended, BatchesAreExtended, TerminateIsFromClose,
         OnlyCloseEndsBackend, Goto, Stage, Load
    <3> QED BY <3>1, <3>2, <3>3, <3>5 DEF SessionInv, WireInv
  <2> QED BY <2>0, <2>1, <2>2, <2>3
<1> QED
  BY <1>1, <1>2, <1>3, <1>4, <1>5, <1>6, <1>7, <1>8, <1>9, <1>10 DEF ServeStep, ClientStep

----------------------------------------------------------------------------

\* The strengthening the theorems below rest on.
LEMMA SessionInvInductive == Spec => []SessionInv
<1>1. SessionInv /\ UNCHANGED vars => SessionInv'
  <2> SUFFICES ASSUME SessionInv, UNCHANGED vars PROVE SessionInv'
    OBVIOUS
  <2>1. WireInv'
    BY SameWireKeepsInv DEF vars, SessionInv, TypeOK, WireInv
  <2>2. TypeOK'
    BY <2>1 DEF vars, sessionVars, SessionInv, TypeOK, WireInv
  <2>3. (Owned /\ Ended)'
    BY DEF vars, wireVars, sessionVars, SessionInv, Owned, BackendHasOneOwner,
       ClosedIsQuiet, PointsMatchCalls, Ended, BatchesAreExtended, TerminateIsFromClose,
       OnlyCloseEndsBackend
  <2> QED BY <2>1, <2>2, <2>3 DEF SessionInv, WireInv
<1>2. SessionInv /\ [Next]_vars => SessionInv'
  BY <1>1, BackendKeepsInv, UserKeepsInv, ClientKeepsInv DEF Next
<1> QED BY <1>2, InitSessionInv, PTL DEF Spec

\* Every variable of the DB, of ServeConn and of the wire keeps its type.
THEOREM SessionTypeCorrect == Spec => []TypeOK
<1>1. SessionInv => TypeOK
  BY DEF SessionInv
<1> QED BY <1>1, SessionInvInductive, PTL

\* db.mu serialises the backend, for any number of goroutines and connections.
THEOREM OneOwner == Spec => []BackendHasOneOwner
<1>1. SessionInv => BackendHasOneOwner
  BY DEF SessionInv, Owned
<1> QED BY <1>1, SessionInvInductive, PTL

\* No message of a served client ends the backend.
THEOREM ClientsDoNotEndBackend == Spec => []OnlyCloseEndsBackend
<1>1. SessionInv => OnlyCloseEndsBackend
  BY DEF SessionInv, Ended
<1> QED BY <1>1, SessionInvInductive, PTL

\* After Close the backend is never entered again.
THEOREM ClosedStaysQuiet == Spec => []ClosedIsQuiet
<1>1. SessionInv => ClosedIsQuiet
  BY DEF SessionInv, Owned
<1> QED BY <1>1, SessionInvInductive, PTL

----------------------------------------------------------------------------
(* What callers are told: the answer of their own SQL, the current status.  *)

\* The request has met an ERROR, or the end of the backend.
Failing == pump \in {"longjmp", "exit100", "err"} \/ Holds("E")

\* Query: its one message runs its SQL, unless it fails.
QueryRuns(sql) ==
    /\ out = <<Message("Q", sql)>>
    /\ ran \subseteq {sql}
    /\ ~Failing => ~pg.skip /\ (cons > 0 => ran = {sql})

\* The first pump of QueryParams: it leaves the statement prepared, unless it fails.
PrepareRuns(sql) ==
    /\ out = <<Message("P", sql), Bare("D"), Bare("S")>>
    /\ ~Failing => ~pg.skip /\ (cons > 0 => pg.prepared = sql)

\* The second: nobody else has prepared a statement in between.
ExecuteRuns(sql) ==
    /\ out = <<Bare("B"), Bare("D"), Bare("E"), Bare("S")>>
    /\ ran \subseteq {sql} /\ pg.prepared = sql
    /\ ~Failing => ~pg.skip /\ (cons > 2 => ran = {sql})

Runs(u) ==
    /\ call[u].sql \in Stmts
    /\ pc[u] = "describe" => call[u].method = "QueryParams" /\ PrepareRuns(call[u].sql)
    /\ pc[u] = "reply" => \/ call[u].method = "Query" /\ QueryRuns(call[u].sql)
                          \/ call[u].method = "QueryParams" /\ ExecuteRuns(call[u].sql)

UserInv(u) ==
    /\ call[u].method \in {"Query", "QueryParams"} => call[u].sql \in Stmts
    /\ pc[u] = "in" => skipped = pg.skip
    /\ pc[u] \in {"describe", "reply"} /\ ~skipped => Runs(u)

\* Only the flush adds a ReadyForQuery, and it tells the status of the session.
ReplyInv ==
    /\ pump \in {"test", "main", "longjmp", "exit100", "flush"} => \A i \in DOMAIN in : in[i] \in {"C", "E"}
    /\ pump = "done" => ReplyStatus \in {"none", pg.tx}

AnswerInv == ReplyInv /\ StatusToldIsCurrent /\ \A u \in Users : UserInv(u)

\* A step of the pump fails the request, processes a message, or changes neither
\* what was taken, nor what ran, nor what decides about the next message.
LEMMA PumpOutcome ==
  ASSUME WireInv, Pump
  PROVE  /\ out' = out /\ (Failing => Failing')
         /\ \/ Failing' /\ ran' = ran /\ \/ pg'.prepared = pg.prepared
                                         \/ cons + 1 \in DOMAIN out /\ pg' = Thrown(pg, out[cons + 1])
            \/ cons' = cons /\ ran' = ran /\ pg'.skip = pg.skip /\ pg'.prepared = pg.prepared
            \/ LoopOnce /\ cons + 1 \in DOMAIN out
<1>0. pg \in Sessions /\ in \in Seq(Replies) /\ out \in Seq(Messages) /\ cons \in Nat
  BY DEF WireInv, WireTypeOK
<1>1. CASE LoopTest
  BY <1>1 DEF LoopTest, Failing, Holds
<1>2. CASE Read
  BY <1>2 DEF Read, Failing, Holds
<1>3. ASSUME pump = "main" PROVE cons + 1 \in DOMAIN out
  BY <1>0, <1>3 DEF WireInv, PumpInv
<1>4. CASE LoopOnce
  <2>1. \/ in' = in \o <<>> \/ in' = in \o <<"C">>
    BY <1>4 DEF LoopOnce, ReplyTo
  <2>2. Holds("E") => Holds("E")'
    <3>1. \A i \in DOMAIN in : i \in DOMAIN in' /\ in'[i] = in[i]
      BY <1>0, <2>1 DEF Replies
    <3> QED BY <3>1 DEF Holds
  <2>3. out' = out /\ pump = "main"
    BY <1>4 DEF LoopOnce
  <2> QED BY <1>3, <1>4, <2>2, <2>3 DEF Failing
<1>5. CASE LoopRaises
  BY <1>3, <1>5 DEF LoopRaises, Failing
<1>6. CASE LoopExits
  BY <1>6 DEF LoopExits, Failing
<1>7. CASE Recover
  <2>1. in' = Append(in, "E") /\ out' = out /\ ran' = ran /\ pg' = LongJmp(pg, out[cons])
    BY <1>7 DEF Recover
  <2>2. Holds("E")'
    <3>1. Len(in) + 1 \in DOMAIN in' /\ in'[Len(in) + 1] = "E"
      BY <1>0, <2>1 DEF Replies
    <3> QED BY <3>1 DEF Holds
  <2>3. pg'.prepared = pg.prepared
    BY <1>0, <2>1 DEF LongJmp, Sessions
  <2> QED BY <2>1, <2>2, <2>3 DEF Failing
<1>8. CASE FlushReply
  <2>1. /\ out' = out /\ cons' = cons /\ ran' = ran /\ pump = "flush" /\ pg' = [pg EXCEPT !.rfq = FALSE]
        /\ in' = in \/ in' = Append(in, ReadyForQuery(pg.tx))
    BY <1>8 DEF FlushReply
  <2>2. Holds("E") => Holds("E")'
    <3>1. CASE in' = in
      BY <3>1 DEF Holds
    <3>2. CASE in' = Append(in, ReadyForQuery(pg.tx))
      BY <1>0, <3>2 DEF Holds
    <3> QED BY <2>1, <3>1, <3>2
  <2>3. pg'.skip = pg.skip /\ pg'.prepared = pg.prepared
    BY <1>0, <2>1 DEF Sessions
  <2> QED BY <2>1, <2>2, <2>3 DEF Failing
<1>9. CASE RecoverFails
  BY <1>9 DEF RecoverFails, Failing
<1> QED BY <1>1, <1>2, <1>4, <1>5, <1>6, <1>7, <1>8, <1>9 DEF Pump

\* What processing a message does to what decides about the next one.
LEMMA ProcessedKeeps ==
  ASSUME NEW s \in Sessions, NEW m \in Messages
  PROVE  /\ m.typ \notin {"Q", "P"} => Processed(s, m).prepared = s.prepared
         /\ m.typ = "P" /\ ~s.skip => Processed(s, m).prepared = m.stmt
         /\ ~s.skip => ~Processed(s, m).skip
<1>1. \A sql : RunStmt(s, sql).prepared = s.prepared /\ RunStmt(s, sql).skip = s.skip
  BY DEF RunStmt, Sessions
<1>2. /\ \A t \in Sessions : CommitImplicit(t).prepared = t.prepared /\ CommitImplicit(t).skip = t.skip
  BY DEF CommitImplicit, Sessions
<1>3. \A sql : RunStmt(s, sql) \in Sessions /\ CommitImplicit(RunStmt(s, sql)) \in Sessions
              /\ CommitImplicit(s) \in Sessions
  BY RunStmtType
<1>4. CASE Ignored(s, m)
  BY <1>4 DEF Processed, Ignored
<1>5. CASE ~Ignored(s, m) /\ m.typ = "Q"
  <2>1. Processed(s, m) = [CommitImplicit(RunStmt(s, m.stmt)) EXCEPT !.prepared = NoStmt, !.rfq = TRUE]
    BY <1>5 DEF Processed
  <2>2. CommitImplicit(RunStmt(s, m.stmt)).skip = s.skip
    BY <1>1, <1>2, <1>3
  <2> QED BY <1>3, <1>5, <2>1, <2>2 DEF Sessions
<1>6. CASE ~Ignored(s, m) /\ m.typ = "P"
  <2>1. Processed(s, m) = [s EXCEPT !.prepared = m.stmt]
    BY <1>6 DEF Processed
  <2> QED BY <1>6, <2>1 DEF Sessions
<1>7. CASE ~Ignored(s, m) /\ m.typ = "E"
  <2>1. Processed(s, m) = RunStmt(s, s.prepared)
    BY <1>7 DEF Processed
  <2> QED BY <1>1, <1>7, <2>1
<1>8. CASE ~Ignored(s, m) /\ m.typ = "S"
  <2>1. Processed(s, m) = [CommitImplicit(s) EXCEPT !.skip = FALSE, !.rfq = TRUE]
    BY <1>8 DEF Processed
  <2> QED BY <1>2, <1>3, <1>8, <2>1 DEF Sessions
<1>9. CASE ~Ignored(s, m) /\ m.typ \notin {"Q", "P", "E", "S"}
  <2>1. Processed(s, m) = s
    BY <1>9 DEF Processed
  <2> QED BY <1>9, <2>1
<1> QED BY <1>4, <1>5, <1>6, <1>7, <1>8, <1>9

\* The pump keeps what is known of a Query ...
LEMMA PumpKeepsQuery ==
  ASSUME WireInv, Pump, NEW sql \in Stmts, QueryRuns(sql)
  PROVE  QueryRuns(sql)'
<1> DEFINE m == Message("Q", sql)
<1>0. pg \in Sessions /\ cons \in Nat /\ out = <<m>> /\ ran \subseteq {sql}
  BY DEF WireInv, WireTypeOK, QueryRuns
<1>1. /\ out' = out /\ (Failing => Failing')
      /\ \/ Failing' /\ ran' = ran
         \/ cons' = cons /\ ran' = ran /\ pg'.skip = pg.skip
         \/ LoopOnce /\ cons + 1 \in DOMAIN out
  BY PumpOutcome
<1>2. CASE LoopOnce /\ cons + 1 \in DOMAIN out
  <2>1. cons = 0 /\ out[cons + 1] = m
    BY <1>0, <1>2
  <2>2. pg' = Processed(pg, m) /\ ran' = ran \union ({Running(m)} \ {NoStmt})
    BY <1>2, <2>1 DEF LoopOnce
  <2>3. m \in Messages /\ m.typ = "Q" /\ m.stmt = sql /\ sql # NoStmt
    BY DEF Message, Messages, MsgTypes, Stmts, NoStmt
  <2>4. Running(m) \in {NoStmt, sql} /\ (~pg.skip => Running(m) = sql)
    BY <2>3 DEF Running, Ignored, Executes
  <2>5. ~pg.skip => ~pg'.skip
    BY <1>0, <2>2, <2>3, ProcessedKeeps
  <2>6. ran' \subseteq {sql} /\ (~pg.skip => ran' = {sql})
    BY <1>0, <2>2, <2>3, <2>4
  <2>7. ~Failing' => ~pg.skip
    BY <1>1 DEF QueryRuns
  <2> QED BY <1>0, <1>1, <2>5, <2>6, <2>7 DEF QueryRuns
<1>3. CASE ~(LoopOnce /\ cons + 1 \in DOMAIN out)
  BY <1>0, <1>1, <1>3 DEF QueryRuns
<1> QED BY <1>2, <1>3

\* ... of the first pump of QueryParams ...
LEMMA PumpKeepsPrepare ==
  ASSUME WireInv, Pump, NEW sql \in Stmts, PrepareRuns(sql)
  PROVE  PrepareRuns(sql)'
<1>0. pg \in Sessions /\ cons \in Nat /\ out = <<Message("P", sql), Bare("D"), Bare("S")>>
  BY DEF WireInv, WireTypeOK, PrepareRuns
<1>1. /\ out' = out /\ (Failing => Failing')
      /\ \/ Failing'
         \/ cons' = cons /\ pg'.skip = pg.skip /\ pg'.prepared = pg.prepared
         \/ LoopOnce /\ cons + 1 \in DOMAIN out
  BY PumpOutcome
<1>2. CASE LoopOnce /\ cons + 1 \in DOMAIN out
  <2>1. cons \in {0, 1, 2}
    BY <1>0, <1>2
  <2>2. PICK m \in Messages : m = out[cons + 1] /\ pg' = Processed(pg, m)
    BY <1>2 DEF LoopOnce, WireInv, WireTypeOK
  <2>3. /\ cons = 0 => m.typ = "P" /\ m.stmt = sql
        /\ cons > 0 => m.typ \in {"D", "S"}
    BY <1>0, <2>1, <2>2 DEF Message, Bare
  <2>4. ~Failing' => ~pg.skip /\ (cons > 0 => pg.prepared = sql)
    BY <1>1 DEF PrepareRuns
  <2>5. ~pg.skip => ~pg'.skip
    BY <1>0, <2>2, ProcessedKeeps
  <2>6. ~Failing' => pg'.prepared = sql
    BY <1>0, <2>1, <2>2, <2>3, <2>4, ProcessedKeeps
  <2> QED BY <1>0, <1>1, <2>4, <2>5, <2>6 DEF PrepareRuns
<1>3. CASE ~(LoopOnce /\ cons + 1 \in DOMAIN out)
  BY <1>0, <1>1, <1>3 DEF PrepareRuns
<1> QED BY <1>2, <1>3

\* ... and of the second.
LEMMA PumpKeepsExecute ==
  ASSUME WireInv, Pump, NEW sql \in Stmts, ExecuteRuns(sql)
  PROVE  ExecuteRuns(sql)'
<1>0. /\ pg \in Sessions /\ cons \in Nat /\ out = <<Bare("B"), Bare("D"), Bare("E"), Bare("S")>>
      /\ ran \subseteq {sql} /\ pg.prepared = sql
  BY DEF WireInv, WireTypeOK, ExecuteRuns
<1>1. \A i \in DOMAIN out : out[i] \in Messages /\ out[i].typ \in {"B", "D", "E", "S"} /\ (out[i].typ = "E" <=> i = 3)
  <2>1. \A i \in DOMAIN out : out[i] \in Messages
    BY DEF WireInv, WireTypeOK
  <2> QED BY <1>0, <2>1 DEF Message, Bare
<1>2. /\ out' = out /\ (Failing => Failing')
      /\ \/ Failing' /\ ran' = ran /\ \/ pg'.prepared = pg.prepared
                                      \/ cons + 1 \in DOMAIN out /\ pg' = Thrown(pg, out[cons + 1])
         \/ cons' = cons /\ ran' = ran /\ pg'.skip = pg.skip /\ pg'.prepared = pg.prepared
         \/ LoopOnce /\ cons + 1 \in DOMAIN out
  BY PumpOutcome
<1>3. CASE LoopOnce /\ cons + 1 \in DOMAIN out
  <2>1. PICK m \in Messages : /\ m = out[cons + 1] /\ pg' = Processed(pg, m)
                              /\ ran' = ran \union ({Running(m)} \ {NoStmt}) /\ cons' = cons + 1
    BY <1>3 DEF LoopOnce, WireInv, WireTypeOK
  <2>2. m.typ \in {"B", "D", "E", "S"} /\ (m.typ = "E" <=> cons = 2)
    BY <1>0, <1>1, <1>3, <2>1
  <2>3. pg'.prepared = sql /\ (~pg.skip => ~pg'.skip)
    BY <1>0, <2>1, <2>2, ProcessedKeeps
  <2>4. Running(m) \in {NoStmt, sql} /\ (cons = 2 /\ ~pg.skip => Running(m) = sql) /\ sql # NoStmt
    BY <1>0, <2>2 DEF Running, Ignored, Executes, Stmts, NoStmt
  <2>5. ran' \subseteq {sql} /\ (cons = 2 /\ ~pg.skip => ran' = {sql})
    BY <1>0, <2>1, <2>4
  <2>6. ~Failing' => ~pg.skip /\ (cons > 2 => ran = {sql})
    BY <1>2 DEF ExecuteRuns
  <2>7. ran = {sql} => ran' = {sql}
    BY <2>1, <2>5
  <2>8. ~Failing' => ~pg'.skip /\ (cons' > 2 => ran' = {sql})
    BY <1>0, <2>1, <2>3, <2>5, <2>6, <2>7
  <2> QED BY <1>0, <1>2, <2>3, <2>5, <2>8 DEF ExecuteRuns
<1>4. CASE Failing' /\ ran' = ran /\ cons + 1 \in DOMAIN out /\ pg' = Thrown(pg, out[cons + 1])
  <2>1. pg'.prepared = pg.prepared
    BY <1>1, <1>4 DEF Thrown
  <2> QED BY <1>0, <1>2, <1>4, <2>1 DEF ExecuteRuns
<1>5. CASE /\ ~(LoopOnce /\ cons + 1 \in DOMAIN out)
           /\ ~(Failing' /\ ran' = ran /\ cons + 1 \in DOMAIN out /\ pg' = Thrown(pg, out[cons + 1]))
  BY <1>0, <1>2, <1>5 DEF ExecuteRuns
<1> QED BY <1>3, <1>4, <1>5

\* The reply of a request holds a ReadyForQuery only from the flush on.
LEMMA PumpKeepsReply == ASSUME WireInv, ReplyInv, Pump PROVE ReplyInv'
<1>0. pg \in Sessions /\ in \in Seq(Replies)
  BY DEF WireInv, WireTypeOK
<1>1. CASE LoopTest \/ Read \/ LoopRaises \/ LoopExits \/ RecoverFails
  BY <1>1 DEF LoopTest, Read, LoopRaises, LoopExits, RecoverFails, ReplyInv
<1>2. CASE LoopOnce \/ Recover
  <2>1. /\ pump \in {"main", "longjmp", "exit100"} /\ pump' = "test"
        /\ in' = in \o <<>> \/ in' = in \o <<"C">> \/ in' = Append(in, "E")
    BY <1>2 DEF LoopOnce, Recover, isQueryErrorExit, ReplyTo
  <2>2. \A i \in DOMAIN in : in[i] \in {"C", "E"}
    BY <2>1 DEF ReplyInv
  <2>3. \A i \in DOMAIN in' : in'[i] \in {"C", "E"}
    BY <1>0, <2>1, <2>2
  <2> QED BY <2>1, <2>3 DEF ReplyInv
<1>3. CASE FlushReply
  <2>1. /\ pump = "flush" /\ pump' = "done" /\ pg' = [pg EXCEPT !.rfq = FALSE]
        /\ in' = IF pg.rfq THEN Append(in, ReadyForQuery(pg.tx)) ELSE in
    BY <1>3 DEF FlushReply
  <2>2. pg'.tx = pg.tx /\ pg.tx \in TxStatus /\ \A i \in DOMAIN in : in[i] \in {"C", "E"}
    BY <1>0, <2>1 DEF Sessions, ReplyInv
  <2>3. CASE pg.rfq
    BY <1>0, <2>1, <2>2, <2>3, StatusOfReply DEF ReplyInv
  <2>4. CASE ~pg.rfq
    <3>1. ReplyStatus' = "none"
      BY <2>1, <2>2, <2>4 DEF ReplyStatus, Holds
    <3> QED BY <2>1, <3>1 DEF ReplyInv
  <2> QED BY <2>3, <2>4
<1> QED BY <1>1, <1>2, <1>3 DEF Pump

Step(p) == \/ p \in Users /\ (Call(p) \/ UserStep(p))
           \/ p \in Clients /\ (ServeStep(p) \/ ClientStep(p))

\* A step of one caller moves nobody else, and while somebody else holds db.mu it
\* does not touch the wire.
LEMMA OthersWait ==
  ASSUME SessionInv, NEW p \in Callers, Step(p), NEW q \in Callers \ {p}
  PROVE  /\ pc'[q] = pc[q]
         /\ q \in Users => call'[q] = call[q] /\ result'[q] = result[q]
         /\ q \in Clients => told'[q] = told[q]
         /\ pc[q] \in Inside => UNCHANGED <<wireVars, skipped, refused>>
<1>0. pc \in [Callers -> UserPoints \union ClientPoints] /\ TypeOK
  BY DEF SessionInv, TypeOK
<1>1. /\ pc'[q] = pc[q]
      /\ q \in Users => call'[q] = call[q] /\ result'[q] = result[q]
      /\ q \in Clients => told'[q] = told[q]
  <2>1. CASE p \in Users /\ (Call(p) \/ UserStep(p))
    BY <1>0, <2>1 DEF TypeOK, Call, UserStep, Lock, NilWire, SimpleQuery, Prepare, PrepareFailed,
       Execute, Reply, Checkpoint, Terminate, DropWire, Save, Goto, Return
  <2>2. CASE p \in Clients /\ (ServeStep(p) \/ ClientStep(p))
    BY <1>0, <2>2 DEF TypeOK, ServeStep, ClientStep, Lock, ServeStartup, Refuse, AskVersion, Greet,
       RelayReply, Connect, AfterDecline, HangUp, Relay, RelayTerminate, RelayBuffer, RelaySubmit,
       Gone, Leave, Goto
  <2> QED BY <2>1, <2>2 DEF Step
<1>2. pc[p] \in Inside \/ mu = NoOne \/ UNCHANGED <<wireVars, skipped, refused>>
  <2>1. CASE p \in Users /\ (Call(p) \/ UserStep(p))
    BY <2>1 DEF Call, UserStep, Lock, NilWire, SimpleQuery, Prepare, PrepareFailed,
       Execute, Reply, Checkpoint, Terminate, DropWire, Save, MaySave, Inside
  <2>2. CASE p \in Clients /\ (ServeStep(p) \/ ClientStep(p))
    BY <2>2 DEF ServeStep, ClientStep, Lock, ServeStartup, Refuse, AskVersion, Greet,
       RelayReply, Connect, AfterDecline, HangUp, Relay, Inside
  <2> QED BY <2>1, <2>2 DEF Step
<1>3. pc[q] \in Inside => mu = q /\ pc[p] \notin Inside
  BY DEF SessionInv, Owned, BackendHasOneOwner
<1> QED BY <1>1, <1>2, <1>3, SessionAssumption

\* What is known of one caller survives a step that leaves it and the wire alone.
LEMMA UserInvFrame ==
  ASSUME NEW q \in Users, UserInv(q), pc'[q] = pc[q], call'[q] = call[q],
         pc[q] \in Inside => UNCHANGED <<wireVars, skipped, refused>>
  PROVE  UserInv(q)'
<1>1. CASE pc[q] \in Inside
  BY <1>1 DEF UserInv, Runs, QueryRuns, PrepareRuns, ExecuteRuns, Failing, Holds, wireVars
<1>2. CASE pc[q] \notin Inside
  BY <1>2 DEF UserInv, Inside
<1> QED BY <1>1, <1>2

\* The backend works for the holder of db.mu, who waits.
LEMMA BackendKeepsAnswers ==
  ASSUME SessionInv, AnswerInv, Backend
  PROVE  AnswerInv'
<1>0. WireInv /\ Pump /\ UNCHANGED sessionVars /\ pump # "idle"
  BY DEF SessionInv, TypeOK, WireInv, Backend, Pump, LoopTest, Read, LoopOnce, LoopRaises, LoopExits,
     Recover, RecoverFails, FlushReply, isQueryErrorExit
<1>1. mu \in Callers /\ pc[mu] \in Waiting /\ \A p \in Callers : pc[p] \in Inside => p = mu
  BY <1>0 DEF SessionInv, TypeOK, Owned, BackendHasOneOwner
<1>2. ReplyInv'
  BY <1>0, PumpKeepsReply DEF AnswerInv
<1>3. StatusToldIsCurrent'
  <2>1. \A c \in Clients : pc'[c] # "relay"
    BY <1>0, <1>1 DEF Callers, Inside, Waiting, sessionVars
  <2> QED BY <2>1 DEF StatusToldIsCurrent
<1>4. ASSUME NEW u \in Users PROVE UserInv(u)'
  <2>0. UserInv(u) /\ pc' = pc /\ call' = call /\ skipped' = skipped
    BY <1>0 DEF AnswerInv, sessionVars
  <2>1. pc[u] # "in"
    BY <1>1 DEF Callers, Inside, Waiting
  <2>2. ASSUME pc[u] \in {"describe", "reply"}, ~skipped PROVE Runs(u)'
    <3>1. Runs(u) /\ call[u].sql \in Stmts
      BY <2>0, <2>2 DEF UserInv, Runs
    <3>2. pc[u] = "describe" => PrepareRuns(call[u].sql)'
      BY <1>0, <2>0, <3>1, PumpKeepsPrepare DEF Runs
    <3>3. pc[u] = "reply" /\ QueryRuns(call[u].sql) => QueryRuns(call[u].sql)'
      BY <1>0, <2>0, <3>1, PumpKeepsQuery
    <3>4. pc[u] = "reply" /\ ExecuteRuns(call[u].sql) => ExecuteRuns(call[u].sql)'
      BY <1>0, <2>0, <3>1, PumpKeepsExecute
    <3> QED BY <2>0, <3>1, <3>2, <3>3, <3>4 DEF Runs
  <2> QED BY <2>0, <2>1, <2>2 DEF UserInv
<1> QED BY <1>2, <1>3, <1>4 DEF AnswerInv

\* The steps of a user: what it stages is its own SQL.
LEMMA UserAnswers ==
  ASSUME SessionInv, NEW u \in Users, Call(u) \/ UserStep(u), UserInv(u)
  PROVE  UserInv(u)'
<1>0. /\ WireInv /\ pc \in [Callers -> UserPoints \union ClientPoints] /\ u \in Callers
      /\ call \in [Users -> AllCalls] /\ pg \in Sessions
  BY DEF SessionInv, TypeOK, WireInv, WireTypeOK, Callers
<1>1. CASE Call(u)
  <2>1. PICK c \in Calls : call' = [call EXCEPT ![u] = c] /\ pc' = [pc EXCEPT ![u] = "lock"]
    BY <1>1 DEF Call, Goto
  <2>2. c \in AllCalls /\ (c.method \in {"Query", "QueryParams"} => c.sql \in Stmts)
    BY SessionAssumption
  <2>3. call'[u] = c /\ pc'[u] = "lock"
    BY <1>0, <2>1
  <2> QED BY <2>2, <2>3 DEF UserInv
<1>2. CASE Lock(u)
  <2>1. pc'[u] = "in" /\ skipped' = pg.skip /\ UNCHANGED <<wireVars, call>>
    BY <1>0, <1>2 DEF Lock, Goto
  <2> QED BY <2>1 DEF UserInv, wireVars
<1>3. CASE NilWire(u) \/ PrepareFailed(u) \/ Reply(u) \/ Save(u)
  <2>1. pc'[u] = "idle" /\ call' = call
    BY <1>0, <1>3 DEF NilWire, PrepareFailed, Reply, Save, Return, Goto
  <2> QED BY <2>1 DEF UserInv
<1>4. CASE Checkpoint(u) \/ Terminate(u) \/ DropWire(u)
  <2>1. pc'[u] \in {"checkpoint", "terminate", "save"} /\ call' = call
    BY <1>0, <1>4 DEF Checkpoint, Terminate, DropWire, Goto
  <2> QED BY <2>1 DEF UserInv
<1>5. CASE SimpleQuery(u)
  <2>1. /\ pc[u] = "in" /\ pc'[u] = "reply" /\ UNCHANGED <<call, skipped, pg>> /\ call[u].method = "Query"
        /\ out' = <<Message("Q", call[u].sql)>> /\ cons' = 0 /\ ran' = {}
    BY <1>0, <1>5 DEF SimpleQuery, Goto, Stage, Load
  <2>2. call[u].sql \in Stmts /\ skipped = pg.skip
    BY <2>1 DEF UserInv
  <2>3. ~skipped => QueryRuns(call[u].sql)'
    BY <2>1, <2>2 DEF QueryRuns
  <2> QED BY <2>1, <2>2, <2>3 DEF UserInv, Runs
<1>6. CASE Prepare(u)
  <2>1. /\ pc[u] = "in" /\ pc'[u] = "describe" /\ UNCHANGED <<call, skipped, pg>>
        /\ call[u].method = "QueryParams" /\ cons' = 0
        /\ out' = <<Message("P", call[u].sql), Bare("D"), Bare("S")>>
    BY <1>0, <1>6 DEF Prepare, Goto, Stage, Load
  <2>2. call[u].sql \in Stmts /\ skipped = pg.skip
    BY <2>1 DEF UserInv
  <2>3. ~skipped => PrepareRuns(call[u].sql)'
    BY <2>1, <2>2 DEF PrepareRuns
  <2> QED BY <2>1, <2>2, <2>3 DEF UserInv, Runs
<1>7. CASE Execute(u)
  <2>1. /\ pc[u] = "describe" /\ pc'[u] = "reply" /\ UNCHANGED <<call, skipped, pg>>
        /\ pump = "done" /\ ~Failing /\ cons' = 0 /\ ran' = {}
        /\ out' = <<Bare("B"), Bare("D"), Bare("E"), Bare("S")>>
    BY <1>0, <1>7 DEF Execute, Goto, Stage, Load, ExecReturned, ReplyFails, Failing
  <2>2. cons = Len(out)
    BY <1>0, <2>1 DEF WireInv, PumpInv
  <2>3. ASSUME ~skipped
        PROVE  call[u].method = "QueryParams" /\ call[u].sql \in Stmts /\ ExecuteRuns(call[u].sql)'
    <3>1. Runs(u)
      BY <2>1, <2>3 DEF UserInv
    <3>2. /\ call[u].method = "QueryParams" /\ call[u].sql \in Stmts
          /\ out = <<Message("P", call[u].sql), Bare("D"), Bare("S")>>
          /\ ~pg.skip /\ (cons > 0 => pg.prepared = call[u].sql)
      BY <2>1, <3>1 DEF Runs, PrepareRuns
    <3>3. pg.prepared = call[u].sql
      BY <2>2, <3>2
    <3> QED BY <2>1, <3>2, <3>3 DEF ExecuteRuns
  <2>4. call[u].method \in {"Query", "QueryParams"} => call[u].sql \in Stmts
    BY DEF UserInv
  <2> QED BY <2>1, <2>3, <2>4 DEF UserInv, Runs
<1> QED BY <1>1, <1>2, <1>3, <1>4, <1>5, <1>6, <1>7 DEF UserStep

\* No caller adds to a reply: it stages a request, takes the reply or leaves the wire alone.
LEMMA CallersKeepReplies ==
  ASSUME ReplyInv, NEW p \in Callers, Step(p)
  PROVE  ReplyInv'
<1>1. \/ in' = <<>> /\ pump' = "test"
      \/ pump' = "idle"
      \/ UNCHANGED <<in, pump>> /\ pg'.tx = pg.tx
      \/ Save(p)
  <2>1. CASE p \in Users /\ (Call(p) \/ UserStep(p))
    BY <2>1 DEF Call, UserStep, Lock, NilWire, SimpleQuery, Prepare, PrepareFailed,
       Execute, Reply, Checkpoint, Terminate, DropWire, Stage, Load, TakeReply, wireVars
  <2>2. CASE p \in Clients /\ (ServeStep(p) \/ ClientStep(p))
    BY <2>2 DEF ServeStep, ClientStep, Lock, ServeStartup, Refuse, AskVersion, Greet,
       RelayReply, Connect, AfterDecline, HangUp, Relay, RelayTerminate, RelayBuffer, RelaySubmit,
       Stage, Load, TakeReply, wireVars
  <2> QED BY <2>1, <2>2 DEF Step
<1>2. Save(p) => UNCHANGED <<in, pump>> /\ pg'.tx = pg.tx
  BY DEF Save
<1>3. UNCHANGED <<in, pump>> => ReplyStatus' = ReplyStatus
  BY DEF ReplyStatus, Holds
<1> QED BY <1>1, <1>2, <1>3 DEF ReplyInv

\* A client is told the status only with the reply that carries it.
LEMMA ClientIsTold ==
  ASSUME SessionInv, AnswerInv, NEW c \in Clients, ServeStep(c) \/ ClientStep(c),
         pc'[c] = "relay", told'[c] \in TxStatus, ReplyStatus' # "none"
  PROVE  told'[c] = pg'.tx
<1>0. /\ pc \in [Callers -> UserPoints \union ClientPoints] /\ c \in Callers
      /\ told \in [Clients -> TxStatus \union {"none", "greeting"}]
  BY DEF SessionInv, TypeOK, Callers
<1>1. CASE Lock(c) \/ ServeStartup(c) \/ Refuse(c) \/ AskVersion(c) \/ Connect(c) \/ AfterDecline(c) \/ HangUp(c)
  <2>1. pc'[c] # "relay"
    BY <1>0, <1>1 DEF Lock, ServeStartup, Refuse, AskVersion, Connect, AfterDecline, HangUp, Gone, Leave, Goto
  <2> QED BY <2>1
<1>2. CASE Greet(c)
  <2>1. pc'[c] = "gone" \/ told'[c] = "greeting"
    BY <1>0, <1>2 DEF Greet, Leave, Gone, Goto
  <2> QED BY <2>1 DEF TxStatus
<1>3. CASE RelayReply(c)
  <2>1. /\ pump = "done" /\ UNCHANGED <<in, pg>>
        /\ told'[c] = IF ReplyStatus = "none" THEN told[c] ELSE ReplyStatus
    BY <1>0, <1>3 DEF RelayReply, TakeReply, Leave, Gone, Goto
  <2>2. ReplyStatus' = ReplyStatus
    BY <2>1 DEF ReplyStatus, Holds
  <2> QED BY <2>1, <2>2 DEF AnswerInv, ReplyInv
<1>4. CASE Relay(c)
  <2>1. pc[c] = "relay" /\ UNCHANGED <<wireVars, told>>
    BY <1>0, <1>4 DEF Relay, RelayTerminate, RelayBuffer, RelaySubmit, Leave, Gone, Goto
  <2>2. ReplyStatus' = ReplyStatus /\ told' = told /\ pg' = pg
    BY <2>1 DEF ReplyStatus, Holds, wireVars
  <2> QED BY <2>1, <2>2 DEF AnswerInv, StatusToldIsCurrent
<1> QED BY <1>1, <1>2, <1>3, <1>4 DEF ServeStep, ClientStep

\* A step of a caller.
LEMMA CallersKeepAnswers ==
  ASSUME SessionInv, AnswerInv, NEW p \in Callers, Step(p)
  PROVE  AnswerInv'
<1>0. \A u \in Users : u \in Callers /\ u \notin Clients
  BY SessionAssumption DEF Callers
<1>1. ReplyInv'
  BY CallersKeepReplies DEF AnswerInv
<1>2. ASSUME NEW c \in Clients, pc'[c] = "relay", told'[c] \in TxStatus, ReplyStatus' # "none"
      PROVE  told'[c] = pg'.tx
  <2>1. CASE c = p
    BY <1>0, <1>2, <2>1, ClientIsTold DEF Step
  <2>2. CASE c # p
    <3>1. pc'[c] = pc[c] /\ told'[c] = told[c] /\ UNCHANGED wireVars
      BY <1>2, <2>2, OthersWait DEF Inside, Callers
    <3>2. ReplyStatus' = ReplyStatus /\ pg' = pg
      BY <3>1 DEF ReplyStatus, Holds, wireVars
    <3> QED BY <1>2, <3>1, <3>2 DEF AnswerInv, StatusToldIsCurrent
  <2> QED BY <2>1, <2>2
<1>3. StatusToldIsCurrent'
  BY <1>2 DEF StatusToldIsCurrent
<1>4. ASSUME NEW u \in Users PROVE UserInv(u)'
  <2>0. UserInv(u)
    BY DEF AnswerInv
  <2>1. CASE u = p
    BY <1>0, <2>0, <2>1, UserAnswers DEF Step
  <2>2. CASE u # p
    <3>1. /\ pc'[u] = pc[u] /\ call'[u] = call[u]
          /\ pc[u] \in Inside => UNCHANGED <<wireVars, skipped, refused>>
      BY <1>0, <2>2, OthersWait
    <3> QED BY <2>0, <3>1, UserInvFrame
  <2> QED BY <2>1, <2>2
<1> QED BY <1>1, <1>3, <1>4 DEF AnswerInv

LEMMA AnswerInvInductive == Spec => []AnswerInv
<1>1. Init => AnswerInv
  <2> SUFFICES ASSUME Init PROVE AnswerInv
    OBVIOUS
  <2>1. \A u \in Users : pc[u] = "idle" /\ call[u].method = "Sync"
    BY DEF Init, Callers, NoCall
  <2>2. \A c \in Clients : pc[c] = "gone"
    BY SessionAssumption DEF Init, Callers
  <2>3. in = <<>> /\ pump = "idle"
    BY DEF Init, WireInit
  <2> QED BY <2>1, <2>2, <2>3 DEF AnswerInv, ReplyInv, StatusToldIsCurrent, UserInv
<1>2. AnswerInv /\ UNCHANGED vars => AnswerInv'
  BY DEF vars, wireVars, sessionVars, AnswerInv, ReplyInv, StatusToldIsCurrent, ReplyStatus, Holds,
     UserInv, Runs, QueryRuns, PrepareRuns, ExecuteRuns, Failing
<1>3. SessionInv /\ AnswerInv /\ [Next]_vars => AnswerInv'
  <2> SUFFICES ASSUME SessionInv, AnswerInv, [Next]_vars PROVE AnswerInv'
    OBVIOUS
  <2>1. CASE Backend
    BY <2>1, BackendKeepsAnswers
  <2>2. CASE \E u \in Users : Call(u) \/ UserStep(u)
    BY <2>2, CallersKeepAnswers DEF Step, Callers
  <2>3. CASE \E c \in Clients : ServeStep(c) \/ ClientStep(c)
    BY <2>3, CallersKeepAnswers DEF Step, Callers
  <2> QED BY <1>2, <2>1, <2>2, <2>3 DEF Next
<1> QED BY <1>1, <1>3, SessionInvInductive, PTL DEF Spec

\* A query that found the session reading messages ran its own SQL and nothing else,
\* and reports success only if it ran, for any number of goroutines and connections.
THEOREM QueriesRunTheirOwn == Spec => []AnswersOwnCall
<1>1. SessionInv /\ AnswerInv => AnswersOwnCall
  <2> SUFFICES ASSUME SessionInv, AnswerInv, NEW u \in Users, pc[u] = "reply", ExecReturned, ~skipped
               PROVE  ran \subseteq {call[u].sql} /\ (~ReplyFails => ran = {call[u].sql})
    BY DEF AnswersOwnCall
  <2>1. Runs(u)
    BY DEF AnswerInv, UserInv
  <2>2. ran \subseteq {call[u].sql}
    BY <2>1 DEF Runs, QueryRuns, ExecuteRuns
  <2>3. ASSUME ~ReplyFails PROVE ran = {call[u].sql}
    <3>1. pump = "done" /\ ~Failing
      BY <2>3 DEF ExecReturned, ReplyFails, Failing
    <3>2. cons = Len(out)
      BY <3>1 DEF SessionInv, PumpInv
    <3>3. QueryRuns(call[u].sql) => cons > 0
      BY <3>2 DEF QueryRuns
    <3>4. ExecuteRuns(call[u].sql) => cons > 2
      BY <3>2 DEF ExecuteRuns
    <3> QED BY <2>1, <3>1, <3>3, <3>4 DEF Runs, QueryRuns, ExecuteRuns
  <2> QED BY <2>2, <2>3
<1> QED BY <1>1, SessionInvInductive, AnswerInvInductive, PTL

\* The status a served client was last sent stays that of the session between its
\* requests, for any number of goroutines and connections.
THEOREM ClientsKnowTheStatus == Spec => []StatusToldIsCurrent
<1>1. AnswerInv => StatusToldIsCurrent
  BY DEF AnswerInv
<1> QED BY <1>1, AnswerInvInductive, PTL

----------------------------------------------------------------------------
(* What a Close leaves behind.                                             *)

\* CHECKPOINT is under way in a session that takes it: it raises nothing, and once
\* it is taken nothing committed is left in the buffers.
Flushing ==
    /\ out = <<Message("Q", "checkpoint")>>
    /\ pump \notin {"longjmp", "exit100"}
    /\ cons = 0 => ~pg.skip /\ pg.tx # "E" /\ (pg.tx = "I" => ~pg.pending)
    /\ cons > 0 => ~pg.buffered \/ pump = "err"

\* From the Terminate on nothing is committed any more.
CloseInv(u) ==
    /\ pc[u] = "checkpoint" /\ ~refused => Flushing
    /\ pc[u] = "terminate" => out = <<Bare("X")>> /\ (pg.buffered => refused)
    /\ ~open => (pg.buffered => refused)
    /\ pc[u] = "idle" /\ call[u].method = "Close" /\ result[u] = "ok" /\ Persistent
           => ~open /\ ~pg.unsaved

\* A session that can flush does, and has nothing to commit behind the CHECKPOINT.
LEMMA CheckpointFlushes ==
  ASSUME NEW s \in Sessions, ~s.skip, s.tx # "E", s.tx = "I" => ~s.pending
  PROVE  LET m == Message("Q", "checkpoint") IN ~Raises(s, m) /\ ~Processed(s, m).buffered
<1> DEFINE m == Message("Q", "checkpoint")
           t == [s EXCEPT !.unsaved = @ \/ s.buffered, !.buffered = FALSE]
<1>1. m.typ = "Q" /\ m.stmt = "checkpoint" /\ ~Ignored(s, m)
  BY DEF Message, Ignored
<1>2. ~Raises(s, m)
  BY <1>1 DEF Raises
<1>3. RunStmt(s, m.stmt) = t
  BY <1>1 DEF RunStmt
<1>4. /\ t \in Sessions /\ t.buffered = FALSE /\ (t.tx = "I" => t.pending = FALSE)
  <2>1. t \in Sessions
    BY <1>1, <1>3, RunStmtType
  <2>2. t.buffered = FALSE /\ t.tx = s.tx /\ t.pending = s.pending /\ s.pending \in BOOLEAN
    BY DEF Sessions
  <2> QED BY <2>1, <2>2
<1> HIDE DEF t, m
<1>5. CommitImplicit(t) \in Sessions /\ CommitImplicit(t).buffered = FALSE
  <2>1. CommitImplicit(t) \in Sessions
    BY <1>4, RunStmtType
  <2>2. CASE t.tx = "I"
    <3>1. CommitImplicit(t) = [t EXCEPT !.buffered = t.buffered \/ t.pending, !.pending = FALSE]
      BY <2>2 DEF CommitImplicit
    <3>2. CommitImplicit(t) = [t EXCEPT !.buffered = FALSE, !.pending = FALSE]
      BY <1>4, <2>2, <3>1
    <3> QED BY <1>4, <2>1, <3>2 DEF Sessions
  <2>3. CASE t.tx # "I"
    BY <1>4, <2>1, <2>3 DEF CommitImplicit
  <2> QED BY <2>1, <2>2, <2>3
<1>6. Processed(s, m) = [CommitImplicit(t) EXCEPT !.prepared = NoStmt, !.rfq = TRUE]
  BY <1>1, <1>3 DEF Processed
<1>7. ~Processed(s, m).buffered
  BY <1>5, <1>6 DEF Sessions
<1> QED BY <1>2, <1>7 DEF m

\* The backend takes the CHECKPOINT, or the Terminate.
LEMMA PumpKeepsFlushing == ASSUME WireInv, Flushing, Pump PROVE Flushing'
<1>0. pg \in Sessions /\ cons \in Nat /\ out = <<Message("Q", "checkpoint")>> /\ Len(out) = 1
  BY DEF WireInv, WireTypeOK, Flushing
<1>1. pump = "main" => cons = 0 /\ out[cons + 1] = Message("Q", "checkpoint")
  BY <1>0 DEF WireInv, PumpInv
<1>2. CASE LoopTest \/ Read \/ LoopExits
  BY <1>0, <1>2 DEF LoopTest, Read, LoopExits, Flushing
<1>3. CASE LoopOnce
  <2>1. /\ pump = "main" /\ pump' = "test" /\ cons' = cons + 1 /\ out' = out
        /\ pg' = Processed(pg, out[cons + 1])
    BY <1>3 DEF LoopOnce
  <2>2. ~pg'.buffered
    BY <1>0, <1>1, <2>1, CheckpointFlushes DEF Flushing
  <2> QED BY <1>0, <1>1, <2>1, <2>2 DEF Flushing
<1>4. CASE LoopRaises
  <2>1. pump = "main" /\ Raises(pg, out[cons + 1])
    BY <1>4 DEF LoopRaises
  <2>2. ~Raises(pg, out[cons + 1])
    BY <1>0, <1>1, <2>1, CheckpointFlushes DEF Flushing
  <2> QED BY <2>1, <2>2
<1>5. CASE Recover \/ RecoverFails
  BY <1>5 DEF Recover, RecoverFails, isQueryErrorExit, Flushing
<1>6. CASE FlushReply
  <2>1. /\ pump = "flush" /\ pump' = "done" /\ UNCHANGED <<out, cons>>
        /\ pg' = [pg EXCEPT !.rfq = FALSE]
    BY <1>6 DEF FlushReply
  <2>2. UNCHANGED <<pg.skip, pg.tx, pg.pending, pg.buffered>>
    BY <1>0, <2>1 DEF Sessions
  <2> QED BY <2>1, <2>2 DEF Flushing
<1> QED BY <1>2, <1>3, <1>4, <1>5, <1>6 DEF Pump

\* A request of Terminate alone commits nothing.
LEMMA TerminateCommitsNothing ==
  ASSUME WireInv, Pump, out = <<Bare("X")>>
  PROVE  out' = out /\ pg'.buffered = pg.buffered
<1>0. pg \in Sessions /\ cons \in Nat
  BY DEF WireInv, WireTypeOK
<1>1. pump = "main" => out[cons + 1].typ = "X"
  BY <1>0 DEF WireInv, PumpInv, Bare, Message
<1>2. ~LoopOnce /\ ~LoopRaises
  BY <1>1 DEF LoopOnce, LoopRaises, Raises
<1>3. CASE LoopTest \/ Read \/ LoopExits \/ RecoverFails
  BY <1>3 DEF LoopTest, Read, LoopExits, RecoverFails
<1>4. CASE Recover \/ FlushReply
  <2>1. out' = out /\ (pg' = LongJmp(pg, out[cons]) \/ pg' = [pg EXCEPT !.rfq = FALSE])
    BY <1>4 DEF Recover, FlushReply
  <2> QED BY <1>0, <2>1 DEF LongJmp, Sessions
<1> QED BY <1>2, <1>3, <1>4 DEF Pump

LEMMA BackendKeepsClose ==
  ASSUME SessionInv, Backend, NEW u \in Users, CloseInv(u)
  PROVE  CloseInv(u)'
<1>0. WireInv /\ Pump /\ UNCHANGED sessionVars /\ pump # "idle"
  BY DEF SessionInv, TypeOK, WireInv, Backend, Pump, LoopTest, Read, LoopOnce, LoopRaises, LoopExits,
     Recover, RecoverFails, FlushReply, isQueryErrorExit
<1>1. open
  BY <1>0 DEF SessionInv, Owned, ClosedIsQuiet
<1>2. pc[u] = "checkpoint" /\ ~refused => Flushing'
  BY <1>0, PumpKeepsFlushing DEF CloseInv
<1>3. pc[u] = "terminate" => out' = <<Bare("X")>> /\ (pg'.buffered => refused)
  BY <1>0, TerminateCommitsNothing DEF CloseInv
<1> QED BY <1>0, <1>1, <1>2, <1>3 DEF CloseInv, sessionVars

\* Callers commit nothing themselves, only a save clears `unsaved`, only Close moves
\* `refused`, and the wire is dropped behind the Terminate.
LEMMA CallersCommitNothing ==
  ASSUME SessionInv, NEW p \in Callers, Step(p)
  PROVE  /\ pg'.buffered = pg.buffered
         /\ pg'.unsaved => pg.unsaved
         /\ \/ refused' = refused
            \/ p \in Users /\ (Checkpoint(p) \/ Terminate(p))
         /\ \/ open' = open
            \/ p \in Users /\ DropWire(p)
<1>0. pg \in Sessions
  BY DEF SessionInv, TypeOK, WireTypeOK
<1>1. CASE p \in Users /\ (Call(p) \/ UserStep(p)) /\ ~Save(p)
  BY <1>1 DEF Call, UserStep, Lock, NilWire, SimpleQuery, Prepare, PrepareFailed,
     Execute, Reply, Checkpoint, Terminate, DropWire, Stage, Load, TakeReply, wireVars
<1>2. CASE p \in Users /\ Save(p)
  <2>1. pg' = pg \/ pg' = [pg EXCEPT !.unsaved = FALSE]
    BY <1>2 DEF Save
  <2>2. UNCHANGED <<open, refused>>
    BY <1>2 DEF Save
  <2> QED BY <1>0, <2>1, <2>2 DEF Sessions
<1>3. CASE p \in Clients /\ (ServeStep(p) \/ ClientStep(p))
  BY <1>3 DEF ServeStep, ClientStep, Lock, ServeStartup, Refuse, AskVersion, Greet,
     RelayReply, Connect, AfterDecline, HangUp, Relay, RelayTerminate, RelayBuffer, RelaySubmit,
     Stage, Load, TakeReply, wireVars
<1> QED BY <1>1, <1>2, <1>3 DEF Step

\* The steps of a Close: flush, end the backend, drop the wire, save.
LEMMA CloseSteps ==
  ASSUME SessionInv, NEW u \in Users, Call(u) \/ UserStep(u), CloseInv(u)
  PROVE  /\ pc'[u] = "checkpoint" /\ ~refused' => Flushing'
         /\ pc'[u] = "terminate" => out' = <<Bare("X")>> /\ (pg'.buffered => refused')
         /\ DropWire(u) => (pg.buffered => refused) /\ refused' = refused
         /\ pc'[u] = "idle" /\ call'[u].method = "Close" /\ result'[u] = "ok" /\ Persistent
                => ~open' /\ ~pg'.unsaved
<1>0. /\ WireInv /\ pc \in [Callers -> UserPoints \union ClientPoints] /\ u \in Callers
      /\ call \in [Users -> AllCalls] /\ result \in [Users -> Results] /\ pg \in Sessions
  BY DEF SessionInv, TypeOK, WireInv, WireTypeOK, Callers
<1>1. CASE Call(u) \/ Lock(u) \/ SimpleQuery(u) \/ Prepare(u) \/ Execute(u)
  <2>1. pc'[u] \in {"lock", "in", "reply", "describe"}
    BY <1>0, <1>1 DEF Call, Lock, SimpleQuery, Prepare, Execute, Goto
  <2>2. ~DropWire(u)
    BY <1>0, <2>1 DEF DropWire, Goto
  <2> QED BY <2>1, <2>2
<1>2. CASE NilWire(u) \/ PrepareFailed(u) \/ Reply(u)
  <2>1. /\ pc'[u] = "idle" /\ call' = call /\ pc[u] \in {"in", "describe", "reply"}
        /\ result'[u] = "ok" => pc[u] = "reply"
    BY <1>0, <1>2 DEF NilWire, PrepareFailed, Reply, Return, Goto
  <2>2. pc[u] = "reply" => call[u].method # "Close"
    BY DEF SessionInv, Owned, PointsMatchCalls
  <2>3. ~DropWire(u)
    BY <2>1 DEF DropWire
  <2> QED BY <2>1, <2>2, <2>3
<1>3. CASE Checkpoint(u)
  <2>1. /\ pc'[u] = "checkpoint" /\ pc[u] = "in" /\ refused' = CannotFlush /\ pg' = pg
        /\ out' = <<Message("Q", "checkpoint")>> /\ cons' = 0 /\ pump' = "test"
    BY <1>0, <1>3 DEF Checkpoint, Goto, Stage, Load
  <2>2. ~refused' => Flushing'
    BY <2>1 DEF CannotFlush, Flushing
  <2>3. ~DropWire(u)
    BY <2>1 DEF DropWire
  <2> QED BY <2>1, <2>2, <2>3
<1>4. CASE Terminate(u)
  <2>1. /\ pc'[u] = "terminate" /\ pc[u] = "checkpoint" /\ pump \in {"done", "err"} /\ pg' = pg
        /\ refused' = (refused \/ pump = "err") /\ out' = <<Bare("X")>>
    BY <1>0, <1>4 DEF Terminate, ExecReturned, Goto, Load
  <2>2. ASSUME ~refused' PROVE ~pg.buffered
    <3>1. Flushing /\ pump = "done"
      BY <2>1, <2>2 DEF CloseInv
    <3>2. cons = 1
      BY <3>1 DEF Flushing, SessionInv, PumpInv
    <3> QED BY <3>1, <3>2 DEF Flushing
  <2>3. ~DropWire(u)
    BY <2>1 DEF DropWire
  <2> QED BY <2>1, <2>2, <2>3
<1>5. CASE DropWire(u)
  <2>1. pc'[u] = "save" /\ pc[u] = "terminate" /\ refused' = refused
    BY <1>0, <1>5 DEF DropWire, Goto
  <2> QED BY <2>1 DEF CloseInv
<1>6. CASE Save(u)
  <2>1. PICK saved \in {Persistent, FALSE} :
             /\ pg' = IF saved THEN [pg EXCEPT !.unsaved = FALSE] ELSE pg
             /\ result' = [result EXCEPT ![u] = IF saved \/ ~Persistent THEN "ok" ELSE "error"]
    BY <1>6 DEF Save, Return
  <2>2. pc'[u] = "idle" /\ MaySave(u) /\ UNCHANGED <<call, open>>
    BY <1>0, <1>6 DEF Save, Return, Goto
  <2>3. result'[u] = "ok" /\ Persistent => ~pg'.unsaved
    BY <1>0, <2>1 DEF Sessions
  <2>4. call[u].method = "Close" => ~open
    BY <2>2 DEF MaySave, SessionInv, Owned, PointsMatchCalls
  <2>5. ~DropWire(u)
    BY <1>0, <2>2 DEF DropWire, Goto
  <2> QED BY <2>2, <2>3, <2>4, <2>5
<1> QED BY <1>1, <1>2, <1>3, <1>4, <1>5, <1>6 DEF UserStep

LEMMA CallersKeepClose ==
  ASSUME SessionInv, \A u \in Users : CloseInv(u), NEW p \in Callers, Step(p), NEW u \in Users
  PROVE  CloseInv(u)'
<1>0. /\ pg'.buffered = pg.buffered /\ (pg'.unsaved => pg.unsaved)
      /\ refused' = refused \/ (p \in Users /\ (Checkpoint(p) \/ Terminate(p)))
      /\ open' = open \/ (p \in Users /\ DropWire(p))
  BY CallersCommitNothing
<1>1. p \in Users => Call(p) \/ UserStep(p)
  BY SessionAssumption DEF Step
<1>2. ~open' => (pg'.buffered => refused')
  <2>1. CASE p \in Users /\ DropWire(p)
    BY <1>0, <1>1, <2>1, CloseSteps
  <2>2. CASE ~open /\ refused' = refused
    BY <1>0, <2>2 DEF CloseInv
  <2>3. CASE ~open /\ p \in Users /\ (Checkpoint(p) \/ Terminate(p))
    BY <2>3 DEF Checkpoint, Terminate, ExecReturned, SessionInv, Owned, ClosedIsQuiet
  <2>4. ~open' => ~open \/ (p \in Users /\ DropWire(p))
    BY <1>0
  <2> QED BY <1>0, <2>1, <2>2, <2>3, <2>4
<1>3. CASE u = p
  BY <1>1, <1>2, <1>3, CloseSteps DEF CloseInv
<1>4. CASE u # p
  <2>1. /\ pc'[u] = pc[u] /\ call'[u] = call[u] /\ result'[u] = result[u]
        /\ pc[u] \in Inside => UNCHANGED <<wireVars, skipped, refused>>
    BY <1>4, OthersWait DEF Callers
  <2>2. pc[u] = "checkpoint" /\ ~refused' => Flushing'
    BY <2>1 DEF CloseInv, Flushing, Inside, wireVars
  <2>3. pc[u] = "terminate" => out' = <<Bare("X")>> /\ (pg'.buffered => refused')
    BY <2>1 DEF CloseInv, Inside, wireVars
  <2>4. pc[u] = "idle" /\ call[u].method = "Close" /\ result[u] = "ok" /\ Persistent
            => ~open' /\ ~pg'.unsaved
    <3>1. ~open => ~open'
      BY <1>0 DEF DropWire
    <3> QED BY <1>0, <3>1 DEF CloseInv
  <2> QED BY <1>2, <2>1, <2>2, <2>3, <2>4 DEF CloseInv
<1> QED BY <1>3, <1>4

\* A Close that succeeds has flushed and saved all that was committed, for any number
\* of goroutines and connections, unless the session could not take its CHECKPOINT.
THEOREM CloseSaves == Spec => []ClosedIsSaved
<1> DEFINE Inv == \A u \in Users : CloseInv(u)
<1>1. Init => Inv
  BY DEF Init, WireInit, FreshSession, CloseInv, Callers
<1>2. SessionInv /\ Inv /\ [Next]_vars => Inv'
  <2> SUFFICES ASSUME SessionInv, Inv, [Next]_vars, NEW u \in Users PROVE CloseInv(u)'
    OBVIOUS
  <2>1. CASE Backend
    BY <2>1, BackendKeepsClose
  <2>2. CASE \E v \in Users : Call(v) \/ UserStep(v)
    BY <2>2, CallersKeepClose DEF Step, Callers
  <2>3. CASE \E c \in Clients : ServeStep(c) \/ ClientStep(c)
    BY <2>3, CallersKeepClose DEF Step, Callers
  <2>4. CASE UNCHANGED vars
    BY <2>4 DEF vars, wireVars, sessionVars, CloseInv, Flushing
  <2> QED BY <2>1, <2>2, <2>3, <2>4 DEF Next
<1>3. Inv => ClosedIsSaved
  BY DEF CloseInv, ClosedIsSaved
<1> QED BY <1>1, <1>2, <1>3, SessionInvInductive, PTL DEF Spec
============================================================================
