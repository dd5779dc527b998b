---------------------------- MODULE DriverProofs ----------------------------
(***************************************************************************)
(* The driver for any number of users, pools, connections and data source  *)
(* names: one cluster is opened for a DSN, and for users that are kept     *)
(* apart what they were told is what happened.  Nothing here depends on    *)
(* how many connections a pool counts.                                     *)
(***************************************************************************)
EXTENDS Driver, TLAPS

TypeOK ==
    /\ dsn \in [Pools -> Dsns]
    /\ mu \in Users \union {None}
    /\ clusters \in SUBSET Dsns
    /\ status \in [Dsns -> {"none", "idle", "open", "failed", "dead"}]
    /\ work \in [Dsns -> SUBSET Stmts]
    /\ data \in [Dsns -> SUBSET Stmts]
    /\ pc \in [Users -> Points]
    /\ pool \in [Users -> Pools]
    /\ refused \in [Users -> BOOLEAN]
    /\ by \in [Stmts -> Users \union {None}]
    /\ outcome \in [Stmts -> {"new", "pending", "kept", "undone", "unknown"}]
    /\ opened \in [Dsns -> Nat]
    /\ overlap \in BOOLEAN /\ raw \in BOOLEAN

Opening == {"stmt open", "begin open"}
Beginning == {"begin conn", "begin open", "begin"}

\* mu is held while a cluster is opened, and by the user that opens it.
LockInv ==
    /\ \A u \in Users : pc[u] \in Opening <=> mu = u
    /\ \A u \in Users : pc[u] \in Opening => Dsn(u) \notin clusters

\* A DSN without a cluster has no session; users that are apart have no two
\* connections of one; and a transaction begins with nothing refused.
UseInv ==
    /\ \A d \in Dsns : d \notin clusters => status[d] = "none"
    /\ ~overlap => \A u, v \in Users :
          pc[u] \in Using /\ pc[v] \in Using /\ Dsn(u) = Dsn(v) => u = v
    /\ \A u \in Users : pc[u] \in Beginning => ~refused[u]

\* While users are apart: the session of a user's transaction is in one, which
\* has failed exactly when a statement of the user was refused, unless it ended.
TxInv ==
    \A u \in Users : pc[u] = "tx" =>
        /\ status[Dsn(u)] \in {"open", "failed", "dead"}
        /\ status[Dsn(u)] = "open" => ~refused[u]
        /\ status[Dsn(u)] = "failed" => refused[u]

\* Uncommitted work is that of the statements that wait for a transaction to end.
WorkInv ==
    /\ \A d \in Dsns : status[d] \in {"open", "failed"} => \E u \in Users : pc[u] = "tx" /\ Dsn(u) = d
    /\ \A d \in Dsns : work[d] # {} => status[d] = "open"
    /\ \A d \in Dsns : \A s \in work[d] : outcome[s] = "pending" /\ Dsn(by[s]) = d
    /\ \A s \in Stmts : outcome[s] = "pending" =>
          /\ by[s] \in Users /\ pc[by[s]] = "tx"
          /\ status[Dsn(by[s])] = "open" => s \in work[Dsn(by[s])]

\* What is committed is what its user was told so.
DataInv ==
    /\ \A s \in Stmts, d \in Dsns : s \in data[d] => outcome[s] = "kept"
    /\ \A s \in Stmts : outcome[s] = "kept" => \E d \in Dsns : s \in data[d]
    /\ \A s \in Stmts : by[s] = None => outcome[s] = "new"

ApartInv == ~overlap /\ ~raw => TxInv /\ WorkInv /\ DataInv

DriverInv == TypeOK /\ LockInv /\ OneClusterPerDsn /\ UseInv /\ ApartInv

----------------------------------------------------------------------------
(* Types.                                                                  *)

LEMMA TypeInit == Init => TypeOK
<1> SUFFICES ASSUME Init PROVE TypeOK
  OBVIOUS
<1>1. dsn \in [Pools -> Dsns] /\ mu \in Users \union {None} /\ clusters \in SUBSET Dsns
  BY DEF Init
<1>2. /\ status \in [Dsns -> {"none", "idle", "open", "failed", "dead"}]
      /\ work \in [Dsns -> SUBSET Stmts] /\ data \in [Dsns -> SUBSET Stmts]
  BY DEF Init
<1>3. pc \in [Users -> Points] /\ pool \in [Users -> Pools]
  BY DEF Init, Points
<1>4. refused \in [Users -> BOOLEAN] /\ overlap \in BOOLEAN /\ raw \in BOOLEAN
  BY DEF Init
<1>5. by \in [Stmts -> Users \union {None}] /\ opened \in [Dsns -> Nat]
  BY DEF Init
<1>6. outcome \in [Stmts -> {"new", "pending", "kept", "undone", "unknown"}]
  BY DEF Init
<1> QED BY <1>1, <1>2, <1>3, <1>4, <1>5, <1>6 DEF TypeOK

\* What a step of a session leaves.
LEMMA BecomesType ==
  ASSUME TypeOK, NEW d \in Dsns, NEW st \in {"none", "idle", "open", "failed", "dead"},
         NEW unc \in SUBSET Stmts, NEW com \in SUBSET Stmts, Becomes(d, st, unc, com)
  PROVE  /\ status' \in [Dsns -> {"none", "idle", "open", "failed", "dead"}]
         /\ work' \in [Dsns -> SUBSET Stmts]
         /\ data' \in [Dsns -> SUBSET Stmts]
         /\ status'[d] = st /\ work'[d] = unc /\ data'[d] = com
         /\ \A e \in Dsns \ {d} : status'[e] = status[e] /\ work'[e] = work[e] /\ data'[e] = data[e]
BY DEF Becomes, TypeOK

SessionType ==
    /\ status \in [Dsns -> {"none", "idle", "open", "failed", "dead"}]
    /\ work \in [Dsns -> SUBSET Stmts]
    /\ data \in [Dsns -> SUBSET Stmts]

LEMMA RunType ==
  ASSUME TypeOK, NEW d \in Dsns, NEW s \in Stmts,
         RunWork(d, s)
  PROVE  SessionType'
<1>1. /\ data[d] \in SUBSET Stmts /\ data[d] \union {s} \in SUBSET Stmts
      /\ work[d] \union {s} \in SUBSET Stmts /\ {} \in SUBSET Stmts
  BY DEF TypeOK
<1>2. \E st \in {"none", "idle", "open", "failed", "dead"}, unc, com \in SUBSET Stmts : Becomes(d, st, unc, com)
  BY <1>1 DEF RunWork
<1> QED BY <1>2, BecomesType DEF SessionType

LEMMA RunTextType ==
  ASSUME TypeOK, NEW d \in Dsns,
         RunRefused(d) \/ RunBegin(d) \/ RunCommit(d) \/ RunRollback(d)
  PROVE  SessionType'
<1>1. data[d] \in SUBSET Stmts /\ data[d] \union work[d] \in SUBSET Stmts /\ {} \in SUBSET Stmts
  BY DEF TypeOK
<1>2. CASE UNCHANGED session
  BY <1>2 DEF session, SessionType, TypeOK
<1>3. CASE \E st \in {"none", "idle", "open", "failed", "dead"}, unc, com \in SUBSET Stmts : Becomes(d, st, unc, com)
  BY <1>3, BecomesType DEF SessionType
<1>5. CASE RunRefused(d)
  BY <1>1, <1>2, <1>3, <1>5 DEF RunRefused
<1>6. CASE RunBegin(d)
  BY <1>1, <1>2, <1>3, <1>6 DEF RunBegin
<1>7. CASE RunCommit(d)
  BY <1>1, <1>2, <1>3, <1>7 DEF RunCommit
<1>8. CASE RunRollback(d)
  BY <1>1, <1>2, <1>3, <1>8 DEF RunRollback
<1> QED BY <1>5, <1>6, <1>7, <1>8

\* What the pool hands out and what it takes back.
PoolType == pc \in [Users -> Points] /\ pool \in [Users -> Pools] /\ overlap \in BOOLEAN

LEMMA GotoType ==
  ASSUME TypeOK, NEW u \in Users, NEW point \in Points, Goto(u, point)
  PROVE  /\ pc' \in [Users -> Points]
         /\ pc'[u] = point
         /\ \A v \in Users \ {u} : pc'[v] = pc[v]
BY DEF Goto, TypeOK

LEMMA TypeNext == TypeOK /\ [Next]_vars => TypeOK'
<1> SUFFICES ASSUME TypeOK, [Next]_vars PROVE TypeOK'
  OBVIOUS
<1> USE DEF pools, driver, session, users, stmts
<1>1. CASE UNCHANGED vars
  BY <1>1 DEF vars, TypeOK
<1>2. ASSUME NEW u \in Users, AcquireForStmt(u) \/ AcquireForBegin(u) PROVE TypeOK'
  <2>1. {"stmt", "stmt conn", "begin", "begin conn"} \subseteq Points
    BY DEF Points, Using
  <2>2. PICK want \in Points, opening \in Points : Acquire(u, want, opening)
    BY <1>2, <2>1 DEF AcquireForStmt, AcquireForBegin
  <2>3. PICK p \in Pools :
           /\ pool' = [pool EXCEPT ![u] = p]
           /\ Goto(u, want) \/ Goto(u, opening)
           /\ \/ overlap' = (overlap \/ \E v \in Users \ {u} : pc[v] \in Using /\ Dsn(v) = dsn[p])
              \/ UNCHANGED overlap
    BY <2>2 DEF Acquire
  <2>4. overlap' \in BOOLEAN
    BY <2>3 DEF TypeOK
  <2>5. pool' \in [Users -> Pools]
    BY <2>3 DEF TypeOK
  <2>6. pc' \in [Users -> Points]
    BY <2>2, <2>3, GotoType
  <2>7. refused' \in [Users -> BOOLEAN]
    BY <2>2 DEF Acquire, TypeOK
  <2> QED BY <2>2, <2>4, <2>5, <2>6, <2>7 DEF Acquire, TypeOK
<1>3. CASE CloseConn
  BY <1>3 DEF CloseConn, TypeOK
<1>4. ASSUME NEW u \in Users, OpenHit(u) PROVE TypeOK'
  <2>1. Wanted(u) \in Points
    BY DEF Wanted, Points, Using
  <2>2. pc' \in [Users -> Points]
    BY <1>4, <2>1, GotoType DEF OpenHit, Gets
  <2>3. overlap' \in BOOLEAN
    BY <1>4 DEF OpenHit, Gets, TypeOK
  <2> QED BY <1>4, <2>2, <2>3 DEF OpenHit, TypeOK
<1>5. ASSUME NEW u \in Users, OpenMiss(u) PROVE TypeOK'
  <2>1. "stmt open" \in Points /\ "begin open" \in Points
    BY DEF Points
  <2>2. pc' \in [Users -> Points]
    BY <1>5, <2>1, GotoType DEF OpenMiss
  <2> QED BY <1>5, <2>2 DEF OpenMiss, TypeOK
<1>6. ASSUME NEW u \in Users, OpenDone(u) PROVE TypeOK'
  <2>1. Wanted(u) \in Points
    BY DEF Wanted, Points, Using
  <2>2. pc' \in [Users -> Points]
    BY <1>6, <2>1, GotoType DEF OpenDone, Gets
  <2>3. overlap' \in BOOLEAN
    BY <1>6 DEF OpenDone, Gets, TypeOK
  <2>4. Dsn(u) \in Dsns
    BY DEF Dsn, TypeOK
  <2>5. opened' \in [Dsns -> Nat] /\ clusters' \in SUBSET Dsns
    <3>1. opened' = [opened EXCEPT ![Dsn(u)] = @ + 1] /\ clusters' = clusters \union {Dsn(u)}
      BY <1>6 DEF OpenDone
    <3>2. opened \in [Dsns -> Nat] /\ clusters \in SUBSET Dsns
      BY DEF TypeOK
    <3> QED BY <2>4, <3>1, <3>2
  <2>6. status' \in [Dsns -> {"none", "idle", "open", "failed", "dead"}]
    BY <1>6, <2>4 DEF OpenDone, TypeOK
  <2> QED BY <1>6, <2>2, <2>3, <2>5, <2>6 DEF OpenDone, TypeOK
<1>7. ASSUME NEW u \in Users, OpenFails(u) PROVE TypeOK'
  <2>1. "idle" \in Points
    BY DEF Points
  <2>2. pc' \in [Users -> Points]
    BY <1>7, <2>1, GotoType DEF OpenFails
  <2> QED BY <1>7, <2>2 DEF OpenFails, TypeOK
<1>8. CASE BackendEnds
  <2>1. PICK d \in Dsns : Becomes(d, "dead", {}, data[d])
    BY <1>8 DEF BackendEnds, TypeOK
  <2>2. data[d] \in SUBSET Stmts
    BY DEF TypeOK
  <2> HIDE DEF session
  <2>3. SessionType'
    BY <2>1, <2>2, BecomesType DEF SessionType
  <2> QED BY <1>8, <2>3 DEF BackendEnds, SessionType, TypeOK
<1>9. ASSUME NEW u \in Users, ExecStmt(u) \/ ExecBeginText(u) \/ Begin(u) \/ ExecInTx(u) \/ Commit(u) \/ Rollback(u)
      PROVE TypeOK'
  <2>1. Dsn(u) \in Dsns
    BY DEF Dsn, TypeOK
  <2>2. "idle" \in Points /\ "tx" \in Points
    BY DEF Points, Using
  <2>3. SessionType'
    <3> HIDE DEF session
    <3>1. \/ \E s \in Stmts : RunWork(Dsn(u), s)
          \/ RunRefused(Dsn(u)) \/ RunBegin(Dsn(u)) \/ RunCommit(Dsn(u)) \/ RunRollback(Dsn(u))
          \/ UNCHANGED session
      BY <1>9 DEF ExecStmt, ExecBeginText, Begin, ExecInTx, Commit, Rollback
    <3>2. CASE \E s \in Stmts : RunWork(Dsn(u), s)
      BY <2>1, <3>2, RunType
    <3>3. CASE UNCHANGED session
      BY <3>3 DEF session, SessionType, TypeOK
    <3>4. CASE RunRefused(Dsn(u)) \/ RunBegin(Dsn(u)) \/ RunCommit(Dsn(u)) \/ RunRollback(Dsn(u))
      BY <2>1, <3>4, RunTextType
    <3> QED BY <3>1, <3>2, <3>3, <3>4
  <2>4. pc' \in [Users -> Points]
    BY <1>9, <2>2, GotoType DEF ExecStmt, ExecBeginText, Begin, ExecInTx, Commit, Rollback, Release, TypeOK
  <2>5. by' \in [Stmts -> Users \union {None}]
    BY <1>9 DEF ExecStmt, ExecBeginText, Begin, ExecInTx, Commit, Rollback, Fresh, TypeOK
  <2>6. outcome' \in [Stmts -> {"new", "pending", "kept", "undone", "unknown"}]
    <3>1. \/ UNCHANGED outcome
          \/ \E S \in SUBSET Stmts, what \in {"new", "pending", "kept", "undone", "unknown"} : Told(S, what)
      <4>1. Pending(u) \in SUBSET Stmts /\ \A s \in Stmts : {s} \in SUBSET Stmts
        BY DEF Pending
      <4> QED BY <1>9, <4>1 DEF ExecStmt, ExecBeginText, Begin, ExecInTx, Commit, Rollback
    <3> QED BY <3>1 DEF Told, TypeOK
  <2>7. refused' \in [Users -> BOOLEAN]
    BY <1>9 DEF ExecStmt, ExecBeginText, Begin, ExecInTx, Commit, Rollback, TypeOK
  <2>8. raw' \in BOOLEAN
    BY <1>9 DEF ExecStmt, ExecBeginText, Begin, ExecInTx, Commit, Rollback, TypeOK
  <2>9. UNCHANGED <<dsn, driver, pool, overlap>>
    BY <1>9 DEF ExecStmt, ExecBeginText, Begin, ExecInTx, Commit, Rollback, Release
  <2> QED BY <2>3, <2>4, <2>5, <2>6, <2>7, <2>8, <2>9 DEF SessionType, TypeOK
<1> QED BY <1>1, <1>2, <1>3, <1>4, <1>5, <1>6, <1>7, <1>8, <1>9 DEF Next

----------------------------------------------------------------------------
(* Locks and clusters.                                                     *)

Shared == <<pc, pool, dsn, mu, clusters, opened>>

LEMMA LockNext == TypeOK /\ LockInv /\ OneClusterPerDsn /\ [Next]_vars => LockInv' /\ OneClusterPerDsn'
<1> SUFFICES ASSUME TypeOK, LockInv, OneClusterPerDsn, [Next]_vars PROVE LockInv' /\ OneClusterPerDsn'
  OBVIOUS
<1>0. /\ None \notin Users
      /\ pc \in [Users -> Points] /\ pool \in [Users -> Pools] /\ dsn \in [Pools -> Dsns]
      /\ clusters \in SUBSET Dsns /\ opened \in [Dsns -> Nat]
      /\ \A u \in Users : Dsn(u) \in Dsns
  BY DriverAssumption DEF TypeOK, Dsn
<1>1. CASE UNCHANGED Shared
  BY <1>1 DEF Shared, LockInv, OneClusterPerDsn, Dsn
<1>2. ASSUME NEW u \in Users, AcquireForStmt(u) \/ AcquireForBegin(u) PROVE LockInv' /\ OneClusterPerDsn'
  <2>1. /\ pc[u] = "idle"
        /\ \E point \in {"stmt", "stmt conn", "begin", "begin conn"} : Goto(u, point)
        /\ \E p \in Pools : pool' = [pool EXCEPT ![u] = p]
        /\ UNCHANGED <<dsn, mu, clusters, opened>>
    BY <1>2 DEF AcquireForStmt, AcquireForBegin, Acquire, driver
  <2>2. /\ pc'[u] \notin Opening /\ pc[u] \notin Opening
        /\ \A v \in Users \ {u} : pc'[v] = pc[v] /\ Dsn(v)' = Dsn(v)
    BY <1>0, <2>1 DEF Goto, Dsn, Opening
  <2>3. LockInv'
    BY <2>1, <2>2 DEF LockInv
  <2>4. OneClusterPerDsn'
    BY <2>1 DEF OneClusterPerDsn
  <2> QED BY <2>3, <2>4
<1>3. ASSUME NEW u \in Users, NEW point \in {"stmt", "begin", "idle", "tx"}, Goto(u, point),
             pc[u] \notin Opening, UNCHANGED <<pool, dsn, mu, clusters, opened>>
      PROVE LockInv' /\ OneClusterPerDsn'
  <2>1. /\ pc'[u] \notin Opening
        /\ \A v \in Users \ {u} : pc'[v] = pc[v]
        /\ \A v \in Users : Dsn(v)' = Dsn(v)
    BY <1>0, <1>3 DEF Goto, Dsn, Opening
  <2>2. LockInv'
    BY <1>3, <2>1 DEF LockInv
  <2>3. OneClusterPerDsn'
    BY <1>3 DEF OneClusterPerDsn
  <2> QED BY <2>2, <2>3
<1>4. ASSUME NEW u \in Users, OpenMiss(u) PROVE LockInv' /\ OneClusterPerDsn'
  <2>1. /\ mu = None /\ mu' = u /\ Dsn(u) \notin clusters /\ UNCHANGED <<pool, dsn, clusters, opened>>
        /\ pc'[u] \in Opening
        /\ \A v \in Users \ {u} : pc'[v] = pc[v]
        /\ \A v \in Users : Dsn(v)' = Dsn(v)
    BY <1>0, <1>4 DEF OpenMiss, Goto, Dsn, Opening, pools
  <2>2. \A v \in Users : pc[v] \notin Opening
    BY <1>0, <2>1 DEF LockInv
  <2>3. LockInv'
    BY <2>1, <2>2 DEF LockInv
  <2>4. OneClusterPerDsn'
    BY <2>1 DEF OneClusterPerDsn
  <2> QED BY <2>3, <2>4
<1>5. ASSUME NEW u \in Users, OpenDone(u) \/ OpenFails(u) PROVE LockInv' /\ OneClusterPerDsn'
  <2>1. /\ pc[u] \in Opening /\ mu' = None /\ UNCHANGED <<pool, dsn>>
        /\ \E point \in {"stmt", "begin", "idle"} : Goto(u, point)
    BY <1>5 DEF OpenDone, OpenFails, Opening, Gets, Wanted, pools
  <2>2. /\ pc'[u] \notin Opening
        /\ \A v \in Users \ {u} : pc'[v] = pc[v]
    BY <1>0, <2>1 DEF Goto, Opening
  <2>3. mu = u /\ Dsn(u) \notin clusters /\ \A v \in Users \ {u} : pc[v] \notin Opening
    BY <2>1 DEF LockInv
  <2>4. LockInv'
    BY <1>0, <2>1, <2>2, <2>3 DEF LockInv
  <2>5. CASE OpenDone(u)
    <3>1. /\ clusters' = clusters \union {Dsn(u)}
          /\ opened' = [opened EXCEPT ![Dsn(u)] = @ + 1]
      BY <2>5 DEF OpenDone
    <3>2. opened[Dsn(u)] = 0
      BY <1>0, <2>3 DEF OneClusterPerDsn
    <3>3. opened'[Dsn(u)] = 1 /\ \A d \in Dsns \ {Dsn(u)} : opened'[d] = opened[d]
      BY <1>0, <3>1, <3>2
    <3>4. OneClusterPerDsn'
      BY <3>1, <3>3 DEF OneClusterPerDsn
    <3> QED BY <2>4, <3>4
  <2>6. CASE OpenFails(u)
    <3>1. OneClusterPerDsn'
      BY <2>6 DEF OpenFails, OneClusterPerDsn
    <3> QED BY <2>4, <3>1
  <2> QED BY <1>5, <2>5, <2>6
<1>6. CASE CloseConn \/ BackendEnds \/ UNCHANGED vars
  BY <1>1, <1>6 DEF CloseConn, BackendEnds, vars, Shared, pools, driver, users
<1>7. ASSUME NEW u \in Users, OpenHit(u) PROVE LockInv' /\ OneClusterPerDsn'
  <2>1. pc[u] \notin Opening /\ UNCHANGED <<pool, dsn, mu, clusters, opened>>
        /\ \E point \in {"stmt", "begin"} : Goto(u, point)
    BY <1>7 DEF OpenHit, Opening, Gets, Wanted, pools, driver
  <2> QED BY <1>3, <2>1
<1>8. ASSUME NEW u \in Users, ExecStmt(u) \/ ExecBeginText(u) \/ Commit(u) \/ Rollback(u)
      PROVE LockInv' /\ OneClusterPerDsn'
  <2>1. pc[u] \notin Opening /\ Goto(u, "idle") /\ UNCHANGED <<pool, dsn, mu, clusters, opened>>
    BY <1>8 DEF ExecStmt, ExecBeginText, Commit, Rollback, Release, Opening, driver
  <2> QED BY <1>3, <2>1
<1>9. ASSUME NEW u \in Users, Begin(u) PROVE LockInv' /\ OneClusterPerDsn'
  <2>1. pc[u] \notin Opening /\ UNCHANGED <<pool, dsn, mu, clusters, opened>>
        /\ \E point \in {"tx", "idle"} : Goto(u, point)
    BY <1>9 DEF Begin, Release, Opening, pools, driver
  <2> QED BY <1>3, <2>1
<1>10. ASSUME NEW u \in Users, ExecInTx(u) PROVE LockInv' /\ OneClusterPerDsn'
  BY <1>1, <1>10 DEF ExecInTx, Shared, pools, driver
<1> QED BY <1>2, <1>4, <1>5, <1>6, <1>7, <1>8, <1>9, <1>10 DEF Next

----------------------------------------------------------------------------
(* Users and their connections.                                            *)

\* A statement runs on no session but its own, and only on one that there is.
LEMMA RunStatus ==
  ASSUME TypeOK, NEW d \in Dsns,
         \/ (\E s \in Stmts : RunWork(d, s)) \/ RunRefused(d) \/ RunBegin(d) \/ RunCommit(d) \/ RunRollback(d)
         \/ UNCHANGED session
  PROVE  \A e \in Dsns : status[e] = "none" => status'[e] = "none"
<1>1. CASE UNCHANGED session
  BY <1>1 DEF session
<1>2. CASE status[d] # "none" /\ \E st \in {"idle", "open", "failed"} : status' = [status EXCEPT ![d] = st]
  BY <1>2 DEF TypeOK
<1>3. CASE \E s \in Stmts : RunWork(d, s)
  BY <1>2, <1>3 DEF RunWork, Becomes
<1>4. CASE RunRefused(d) \/ RunBegin(d)
  BY <1>1, <1>2, <1>4 DEF RunRefused, RunBegin, Becomes
<1>5. CASE RunCommit(d) \/ RunRollback(d)
  BY <1>1, <1>2, <1>5 DEF RunCommit, RunRollback, Becomes
<1> QED BY <1>1, <1>3, <1>4, <1>5

\* Users that give up their connections, or keep them, stay apart.
LEMMA UseShrinks ==
  ASSUME TypeOK, UseInv, UNCHANGED <<pool, dsn>>, clusters \subseteq clusters',
         \A d \in Dsns : d \notin clusters => status'[d] = "none",
         overlap' = overlap,
         \A v \in Users : pc'[v] \in Using => pc[v] \in Using,
         \A v \in Users : pc'[v] \in Beginning => ~refused'[v]
  PROVE  UseInv'
<1>1. (\A d \in Dsns : d \notin clusters => status[d] = "none")'
  OBVIOUS
<1>2. (~overlap => \A u, v \in Users : pc[u] \in Using /\ pc[v] \in Using /\ Dsn(u) = Dsn(v) => u = v)'
  BY DEF UseInv, Dsn
<1> QED BY <1>1, <1>2 DEF UseInv

\* A user that gets a connection is told apart from the others, or overlap is set.
LEMMA UseGrows ==
  ASSUME TypeOK, UseInv, NEW u \in Users, NEW p \in Pools, UNCHANGED dsn,
         pool' = [pool EXCEPT ![u] = p],
         \A d \in Dsns : d \notin clusters' => status'[d] = "none",
         overlap' = (overlap \/ \E v \in Users \ {u} : pc[v] \in Using /\ Dsn(v) = dsn[p]),
         \A v \in Users \ {u} : pc'[v] = pc[v],
         \A v \in Users : pc'[v] \in Beginning => ~refused'[v]
  PROVE  UseInv'
<1>1. pool'[u] = p /\ \A v \in Users \ {u} : pool'[v] = pool[v]
  BY DEF TypeOK
<1>2. Dsn(u)' = dsn[p] /\ \A v \in Users \ {u} : Dsn(v)' = Dsn(v)
  BY <1>1 DEF Dsn
<1>3. ASSUME ~overlap', NEW v \in Users, NEW w \in Users,
             pc'[v] \in Using, pc'[w] \in Using, Dsn(v)' = Dsn(w)'
      PROVE v = w
  <2>1. ~overlap /\ \A x \in Users \ {u} : pc[x] \in Using => Dsn(x) # dsn[p]
    BY <1>3
  <2>2. CASE v = u \/ w = u
    BY <1>2, <1>3, <2>1, <2>2
  <2>3. CASE v # u /\ w # u
    BY <1>2, <1>3, <2>1, <2>3 DEF UseInv
  <2> QED BY <2>2, <2>3
<1>4. (~overlap => \A v, w \in Users : pc[v] \in Using /\ pc[w] \in Using /\ Dsn(v) = Dsn(w) => v = w)'
  BY <1>3
<1> QED BY <1>4 DEF UseInv

LEMMA UseNext == TypeOK /\ UseInv /\ [Next]_vars => UseInv'
<1> SUFFICES ASSUME TypeOK, UseInv, [Next]_vars PROVE UseInv'
  OBVIOUS
<1>0. /\ pc \in [Users -> Points] /\ pool \in [Users -> Pools] /\ dsn \in [Pools -> Dsns]
      /\ refused \in [Users -> BOOLEAN]
      /\ clusters \in SUBSET Dsns
      /\ \A u \in Users : Dsn(u) \in Dsns
      /\ \A d \in Dsns : d \notin clusters => status[d] = "none"
      /\ \A v \in Users : pc[v] \in Beginning => ~refused[v]
  BY DEF TypeOK, Dsn, UseInv
<1>1. CASE UNCHANGED vars \/ CloseConn
  BY <1>1, <1>0, UseShrinks DEF vars, CloseConn, pools, driver, session, users
<1>2. CASE BackendEnds
  <2>1. PICK d \in clusters : Becomes(d, "dead", {}, data[d])
    BY <1>2 DEF BackendEnds
  <2>2. \A e \in Dsns \ clusters : status'[e] = "none"
    BY <1>0, <2>1 DEF Becomes, TypeOK
  <2> QED BY <1>0, <1>2, <2>2, UseShrinks DEF BackendEnds, pools, driver, users
<1>3. ASSUME NEW u \in Users, AcquireForStmt(u) \/ AcquireForBegin(u) PROVE UseInv'
  <2>1. PICK want \in {"stmt", "begin"}, opening \in {"stmt conn", "begin conn"} : Acquire(u, want, opening)
    BY <1>3 DEF AcquireForStmt, AcquireForBegin
  <2>2. PICK p \in Pools :
           /\ pool' = [pool EXCEPT ![u] = p]
           /\ \/ /\ Goto(u, want)
                 /\ overlap' = (overlap \/ \E v \in Users \ {u} : pc[v] \in Using /\ Dsn(v) = dsn[p])
              \/ Goto(u, opening) /\ UNCHANGED overlap
    BY <2>1 DEF Acquire
  <2>3. refused' = [refused EXCEPT ![u] = FALSE] /\ UNCHANGED <<dsn, clusters, status>>
    BY <2>1 DEF Acquire, driver, session
  <2>4. \A v \in Users \ {u} : pc'[v] = pc[v] /\ pool'[v] = pool[v]
    BY <1>0, <2>2 DEF Goto
  <2>5. \A v \in Users : pc'[v] \in Beginning => ~refused'[v]
    BY <1>0, <2>3, <2>4
  <2>6. CASE overlap' = (overlap \/ \E v \in Users \ {u} : pc[v] \in Using /\ Dsn(v) = dsn[p])
    BY <1>0, <2>2, <2>3, <2>4, <2>5, <2>6, UseGrows
  <2>7. CASE Goto(u, opening) /\ UNCHANGED overlap
    <3>1. pc'[u] \notin Using
      BY <1>0, <2>7 DEF Goto, Using
    <3>2. (~overlap => \A v, w \in Users : pc[v] \in Using /\ pc[w] \in Using /\ Dsn(v) = Dsn(w) => v = w)'
      BY <2>3, <2>4, <2>7, <3>1 DEF UseInv, Dsn
    <3>3. (\A d \in Dsns : d \notin clusters => status[d] = "none")'
      BY <1>0, <2>3
    <3> QED BY <2>5, <3>2, <3>3 DEF UseInv
  <2> QED BY <2>2, <2>6, <2>7
<1>4. ASSUME NEW u \in Users, OpenMiss(u) \/ OpenFails(u) PROVE UseInv'
  <2>1. /\ UNCHANGED <<pool, dsn, clusters, status, overlap, refused>>
        /\ \E point \in {"stmt open", "begin open", "idle"} : Goto(u, point)
        /\ pc'[u] \in Beginning => pc[u] \in Beginning
    BY <1>0, <1>4 DEF OpenMiss, OpenFails, Goto, pools, session, Beginning
  <2>2. pc'[u] \notin Using /\ \A v \in Users \ {u} : pc'[v] = pc[v]
    BY <1>0, <2>1 DEF Goto, Using
  <2>3. \A v \in Users : pc'[v] \in Using => pc[v] \in Using
    BY <2>2
  <2>4. \A v \in Users : pc'[v] \in Beginning => ~refused'[v]
    BY <1>0, <2>1, <2>2
  <2> QED BY <1>0, <2>1, <2>3, <2>4, UseShrinks
<1>5. ASSUME NEW u \in Users, OpenHit(u) \/ OpenDone(u) PROVE UseInv'
  <2>1. /\ UNCHANGED <<pool, dsn, refused>>
        /\ Gets(u, Wanted(u))
        /\ pc[u] \in {"stmt conn", "stmt open", "begin conn", "begin open"}
    BY <1>5 DEF OpenHit, OpenDone, pools
  <2>2. \A d \in Dsns : d \notin clusters' => status'[d] = "none"
    <3>1. CASE OpenHit(u)
      BY <1>0, <3>1 DEF OpenHit, driver, session
    <3>2. CASE OpenDone(u)
      BY <1>0, <3>2 DEF OpenDone, TypeOK
    <3> QED BY <1>5, <3>1, <3>2
  <2>3. \A v \in Users \ {u} : pc'[v] = pc[v]
    BY <1>0, <2>1 DEF Gets, Goto
  <2>4. \A v \in Users : pc'[v] \in Beginning => ~refused'[v]
    <3>1. pc'[u] \in Beginning => pc[u] \in Beginning
      BY <1>0, <2>1 DEF Gets, Goto, Wanted, Beginning
    <3> QED BY <1>0, <2>1, <2>3, <3>1
  <2>5. pool' = [pool EXCEPT ![u] = pool[u]] /\ pool[u] \in Pools
    BY <1>0, <2>1
  <2>6. overlap' = (overlap \/ \E v \in Users \ {u} : pc[v] \in Using /\ Dsn(v) = dsn[pool[u]])
    BY <2>1 DEF Gets, Dsn
  <2> QED BY <2>1, <2>2, <2>3, <2>4, <2>5, <2>6, UseGrows
<1>6. ASSUME NEW u \in Users, ExecStmt(u) \/ ExecBeginText(u) \/ Begin(u) \/ ExecInTx(u) \/ Commit(u) \/ Rollback(u)
      PROVE UseInv'
  <2>1. /\ UNCHANGED <<pool, dsn, clusters, overlap>>
        /\ pc[u] \in Using
        /\ (\E point \in {"idle", "tx"} : Goto(u, point)) \/ (UNCHANGED pc /\ pc[u] = "tx")
    BY <1>6 DEF ExecStmt, ExecBeginText, Begin, ExecInTx, Commit, Rollback, Release, pools, driver, Using
  <2>2. \A v \in Users \ {u} : refused'[v] = refused[v]
    BY <1>0, <1>6 DEF ExecStmt, ExecBeginText, Begin, ExecInTx, Commit, Rollback
  <2>3. pc'[u] \notin Beginning /\ \A v \in Users \ {u} : pc'[v] = pc[v]
    BY <1>0, <2>1 DEF Goto, Beginning
  <2>4. \A d \in Dsns : d \notin clusters => status'[d] = "none"
    <3>1. \/ (\E s \in Stmts : RunWork(Dsn(u), s))
          \/ RunRefused(Dsn(u)) \/ RunBegin(Dsn(u)) \/ RunCommit(Dsn(u)) \/ RunRollback(Dsn(u))
          \/ UNCHANGED session
      BY <1>6 DEF ExecStmt, ExecBeginText, Begin, ExecInTx, Commit, Rollback
    <3>2. \A e \in Dsns : status[e] = "none" => status'[e] = "none"
      BY <1>0, <3>1, RunStatus
    <3> QED BY <1>0, <3>2
  <2>5. \A v \in Users : pc'[v] \in Using => pc[v] \in Using
    BY <2>1, <2>3
  <2>6. \A v \in Users : pc'[v] \in Beginning => ~refused'[v]
    BY <1>0, <2>2, <2>3
  <2> QED BY <2>1, <2>4, <2>5, <2>6, UseShrinks
<1> QED BY <1>1, <1>2, <1>3, <1>4, <1>5, <1>6 DEF Next

----------------------------------------------------------------------------
(* Users that are apart.  Apart is what the lemmas below assume of a state. *)

ApartState == TypeOK /\ UseInv /\ ~overlap /\ TxInv /\ WorkInv /\ DataInv

\* The only user of a session, and the facts of types that the steps need.
LEMMA ApartFacts ==
  ASSUME ApartState
  PROVE  /\ pc \in [Users -> Points] /\ pool \in [Users -> Pools] /\ dsn \in [Pools -> Dsns]
         /\ refused \in [Users -> BOOLEAN]
         /\ by \in [Stmts -> Users \union {None}]
         /\ outcome \in [Stmts -> {"new", "pending", "kept", "undone", "unknown"}]
         /\ status \in [Dsns -> {"none", "idle", "open", "failed", "dead"}]
         /\ work \in [Dsns -> SUBSET Stmts] /\ data \in [Dsns -> SUBSET Stmts]
         /\ \A u \in Users : Dsn(u) \in Dsns
         /\ \A u, v \in Users : pc[u] \in Using /\ pc[v] = "tx" /\ Dsn(u) = Dsn(v) => u = v
BY DEF ApartState, TypeOK, Dsn, UseInv, Using

\* Nothing about transactions changes.
LEMMA ApartFrame ==
  ASSUME TypeOK, TxInv, WorkInv, DataInv, UNCHANGED <<dsn, status, work, data, by, outcome>>,
         \A v \in Users : pc'[v] = "tx" <=> pc[v] = "tx",
         \A v \in Users : pc[v] = "tx" => pool'[v] = pool[v] /\ refused'[v] = refused[v]
  PROVE  TxInv' /\ WorkInv' /\ DataInv'
<1>1. \A v \in Users : pc[v] = "tx" => Dsn(v)' = Dsn(v)
  BY DEF Dsn
<1>2. TxInv'
  BY <1>1 DEF TxInv
<1>3. (\A d \in Dsns : status[d] \in {"open", "failed"} => \E u \in Users : pc[u] = "tx" /\ Dsn(u) = d)'
  BY <1>1 DEF WorkInv
<1>4. (\A d \in Dsns : work[d] # {} => status[d] = "open")'
  BY DEF WorkInv
<1>5. (\A d \in Dsns : \A s \in work[d] : outcome[s] = "pending" /\ Dsn(by[s]) = d)'
  <2>1. \A d \in Dsns : \A s \in work[d] :
           s \in Stmts /\ outcome[s] = "pending" /\ Dsn(by[s]) = d /\ by[s] \in Users /\ pc[by[s]] = "tx"
    BY DEF WorkInv, TypeOK
  <2> QED BY <1>1, <2>1
<1>6. (\A s \in Stmts : outcome[s] = "pending" =>
          /\ by[s] \in Users /\ pc[by[s]] = "tx"
          /\ status[Dsn(by[s])] = "open" => s \in work[Dsn(by[s])])'
  BY <1>1 DEF WorkInv
<1>7. DataInv'
  BY DEF DataInv
<1> QED BY <1>2, <1>3, <1>4, <1>5, <1>6, <1>7 DEF WorkInv

\* A session that nobody has a transaction on becomes idle, dead, ...
LEMMA ApartOpenDone ==
  ASSUME ApartState, NEW u \in Users, Dsn(u) \notin clusters, OpenDone(u)
  PROVE  TxInv' /\ WorkInv' /\ DataInv'
<1> DEFINE d == Dsn(u)
<1>1. /\ d \in Dsns /\ status[d] = "none"
      /\ UNCHANGED <<dsn, pool, work, data, by, outcome, refused>>
      /\ status' = [status EXCEPT ![d] = "idle"]
      /\ pc[u] \in Opening
      /\ \E point \in {"stmt", "begin"} : Goto(u, point)
  <2>1. d \in Dsns
    BY ApartFacts
  <2>2. status[d] = "none"
    BY <2>1 DEF ApartState, UseInv
  <2>3. /\ UNCHANGED <<dsn, pool, work, data, by, outcome, refused>>
        /\ status' = [status EXCEPT ![d] = "idle"]
        /\ pc[u] \in Opening
    BY DEF OpenDone, Opening, pools, stmts
  <2>4. \E point \in {"stmt", "begin"} : Goto(u, point)
    BY DEF OpenDone, Gets, Wanted
  <2> QED BY <2>1, <2>2, <2>3, <2>4
<1> HIDE DEF d
<1>2. /\ \A v \in Users : Dsn(v)' = Dsn(v)
      /\ \A v \in Users : pc'[v] = "tx" <=> pc[v] = "tx"
      /\ status'[d] = "idle" /\ \A e \in Dsns \ {d} : status'[e] = status[e]
  BY <1>1, ApartFacts DEF Dsn, Goto, Opening
<1>3. \A v \in Users : pc[v] = "tx" => Dsn(v) # d
  BY <1>1 DEF ApartState, TxInv
<1>4. work[d] = {}
  BY <1>1 DEF ApartState, WorkInv
<1>5. TxInv'
  BY <1>1, <1>2, <1>3, ApartFacts DEF ApartState, TxInv
<1>6. WorkInv'
  BY <1>1, <1>2, <1>3, <1>4, ApartFacts DEF ApartState, WorkInv
<1>7. DataInv'
  BY <1>1 DEF ApartState, DataInv
<1> QED BY <1>5, <1>6, <1>7

LEMMA ApartBackendEnds ==
  ASSUME ApartState, BackendEnds
  PROVE  TxInv' /\ WorkInv' /\ DataInv'
<1>1. PICK d \in Dsns : Becomes(d, "dead", {}, data[d])
  BY DEF ApartState, TypeOK, BackendEnds
<1>2. UNCHANGED <<dsn, pool, pc, by, outcome, refused>>
  BY DEF BackendEnds, pools, users, stmts
<1>3. /\ status'[d] = "dead" /\ work'[d] = {}
      /\ \A e \in Dsns \ {d} : status'[e] = status[e] /\ work'[e] = work[e]
      /\ \A e \in Dsns : data'[e] = data[e]
      /\ \A v \in Users : Dsn(v)' = Dsn(v)
  BY <1>1, <1>2, ApartFacts DEF Becomes, Dsn
<1>4. TxInv'
  BY <1>2, <1>3, ApartFacts DEF ApartState, TxInv
<1>5. WorkInv'
  <2>1. (\A e \in Dsns : status[e] \in {"open", "failed"} => \E v \in Users : pc[v] = "tx" /\ Dsn(v) = e)'
    BY <1>2, <1>3 DEF ApartState, WorkInv
  <2>2. (\A e \in Dsns : work[e] # {} => status[e] = "open")'
    BY <1>3 DEF ApartState, WorkInv
  <2>3. (\A e \in Dsns : \A s \in work[e] : outcome[s] = "pending" /\ Dsn(by[s]) = e)'
    <3>1. \A e \in Dsns : \A s \in work[e] :
             s \in Stmts /\ outcome[s] = "pending" /\ Dsn(by[s]) = e /\ by[s] \in Users
      BY ApartFacts DEF ApartState, WorkInv
    <3> QED BY <1>2, <1>3, <3>1
  <2>4. (\A s \in Stmts : outcome[s] = "pending" =>
            /\ by[s] \in Users /\ pc[by[s]] = "tx"
            /\ status[Dsn(by[s])] = "open" => s \in work[Dsn(by[s])])'
    BY <1>2, <1>3, ApartFacts DEF ApartState, WorkInv
  <2> QED BY <2>1, <2>2, <2>3, <2>4 DEF WorkInv
<1>6. DataInv'
  BY <1>2, <1>3 DEF ApartState, DataInv
<1> QED BY <1>4, <1>5, <1>6

\* A statement outside of a transaction finds its session outside of any.
LEMMA ApartAlone ==
  ASSUME ApartState, NEW u \in Users, pc[u] \in {"stmt", "begin"}
  PROVE  /\ status[Dsn(u)] \notin {"open", "failed"} /\ work[Dsn(u)] = {}
         /\ \A v \in Users : pc[v] = "tx" => Dsn(v) # Dsn(u)
<1>1. \A v \in Users : pc[v] = "tx" => Dsn(v) # Dsn(u)
  BY ApartFacts DEF Using
<1>2. status[Dsn(u)] \notin {"open", "failed"}
  BY <1>1, ApartFacts DEF ApartState, WorkInv
<1>3. work[Dsn(u)] = {}
  BY <1>2, ApartFacts DEF ApartState, WorkInv
<1> QED BY <1>1, <1>2, <1>3

LEMMA ApartExecStmt ==
  ASSUME ApartState, NEW u \in Users, ExecStmt(u)
  PROVE  TxInv' /\ WorkInv' /\ DataInv'
<1> DEFINE d == Dsn(u)
<1>1. PICK s \in Stmts :
         /\ Fresh(u, s)
         /\ \/ RunWork(d, s) /\ Told({s}, "kept")
            \/ RunRefused(d) /\ Told({s}, "undone")
  BY DEF ExecStmt
<1>2. d \in Dsns /\ pc[u] = "stmt" /\ UNCHANGED <<dsn, pool, refused>> /\ Goto(u, "idle")
  BY ApartFacts DEF ExecStmt, Release
<1>3. /\ status[d] \notin {"open", "failed"} /\ work[d] = {}
      /\ \A v \in Users : pc[v] = "tx" => Dsn(v) # d
  BY <1>2, ApartAlone
<1> HIDE DEF d
<1>4. /\ \A v \in Users : Dsn(v)' = Dsn(v)
      /\ \A v \in Users : pc'[v] = "tx" <=> pc[v] = "tx"
      /\ by[s] = None /\ by'[s] = u /\ \A t \in Stmts \ {s} : by'[t] = by[t]
      /\ outcome[s] = "new" /\ outcome'[s] \in {"kept", "undone"}
      /\ \A t \in Stmts \ {s} : outcome'[t] = outcome[t]
  BY <1>1, <1>2, ApartFacts DEF Fresh, Told, Goto, Dsn, ApartState, DataInv
<1>5. /\ \A e \in Dsns : status'[e] = status[e] /\ work'[e] = work[e]
      /\ \A e \in Dsns \ {d} : data'[e] = data[e]
      /\ \/ data'[d] = data[d] \union {s} /\ outcome'[s] = "kept"
         \/ data'[d] = data[d] /\ outcome'[s] = "undone"
  <2>1. CASE RunWork(d, s) /\ Told({s}, "kept")
    <3>1. status[d] = "idle" /\ Becomes(d, "idle", {}, data[d] \union {s})
      BY <1>3, <2>1 DEF RunWork
    <3> QED BY <1>2, <1>3, <2>1, <3>1, ApartFacts DEF Becomes, Told
  <2>2. CASE RunRefused(d) /\ Told({s}, "undone")
    <3>1. UNCHANGED session
      BY <1>3, <2>2 DEF RunRefused
    <3> QED BY <1>2, <1>3, <2>2, <3>1, ApartFacts DEF session, Told
  <2> QED BY <1>1, <2>1, <2>2
<1>6. TxInv'
  BY <1>2, <1>4, <1>5, ApartFacts DEF ApartState, TxInv
<1>7. WorkInv'
  <2>1. \A e \in Dsns : s \notin work[e]
    BY <1>4 DEF ApartState, WorkInv
  <2>2. (\A e \in Dsns : status[e] \in {"open", "failed"} => \E v \in Users : pc[v] = "tx" /\ Dsn(v) = e)'
    BY <1>4, <1>5 DEF ApartState, WorkInv
  <2>3. (\A e \in Dsns : work[e] # {} => status[e] = "open")'
    BY <1>5 DEF ApartState, WorkInv
  <2>4. (\A e \in Dsns : \A t \in work[e] : outcome[t] = "pending" /\ Dsn(by[t]) = e)'
    BY <1>4, <1>5, <2>1, ApartFacts DEF ApartState, WorkInv
  <2>5. (\A t \in Stmts : outcome[t] = "pending" =>
            /\ by[t] \in Users /\ pc[by[t]] = "tx"
            /\ status[Dsn(by[t])] = "open" => t \in work[Dsn(by[t])])'
    BY <1>4, <1>5, ApartFacts DEF ApartState, WorkInv
  <2> QED BY <2>2, <2>3, <2>4, <2>5 DEF WorkInv
<1>8. DataInv'
  <2>1. \A e \in Dsns : s \notin data[e]
    BY <1>4 DEF ApartState, DataInv
  <2>2. (\A t \in Stmts, e \in Dsns : t \in data[e] => outcome[t] = "kept")'
    BY <1>4, <1>5, <2>1 DEF ApartState, DataInv
  <2>3. (\A t \in Stmts : outcome[t] = "kept" => \E e \in Dsns : t \in data[e])'
    <3>1. ASSUME NEW t \in Stmts, outcome'[t] = "kept" PROVE \E e \in Dsns : t \in data'[e]
      <4>1. CASE t = s
        BY <1>2, <1>5, <3>1, <4>1
      <4>2. CASE t # s
        <5>1. PICK e \in Dsns : t \in data[e]
          BY <1>4, <3>1, <4>2 DEF ApartState, DataInv
        <5> QED BY <1>5, <5>1
      <4> QED BY <4>1, <4>2
    <3> QED BY <3>1
  <2>4. (\A t \in Stmts : by[t] = None => outcome[t] = "new")'
    <3>1. by'[s] # None
      BY <1>4, DriverAssumption
    <3> QED BY <1>4, <3>1 DEF ApartState, DataInv
  <2> QED BY <2>2, <2>3, <2>4 DEF DataInv
<1> QED BY <1>6, <1>7, <1>8

LEMMA ApartBegin ==
  ASSUME ApartState, NEW u \in Users, Begin(u)
  PROVE  TxInv' /\ WorkInv' /\ DataInv'
<1> DEFINE d == Dsn(u)
<1>1. /\ d \in Dsns /\ pc[u] = "begin" /\ ~refused[u]
      /\ UNCHANGED <<dsn, pool, refused, by, outcome>>
      /\ \/ RunBegin(d) /\ Goto(u, "tx")
         \/ RunRefused(d) /\ Goto(u, "idle")
  <2>1. d \in Dsns /\ pc[u] = "begin" /\ UNCHANGED <<dsn, pool, refused, by, outcome>>
    BY ApartFacts DEF Begin, Release, pools, stmts
  <2>2. ~refused[u]
    BY <2>1 DEF ApartState, UseInv, Beginning
  <2>3. (RunBegin(d) /\ Goto(u, "tx")) \/ (RunRefused(d) /\ Goto(u, "idle"))
    BY DEF Begin, Release
  <2> QED BY <2>1, <2>2, <2>3
<1>2. /\ status[d] \notin {"open", "failed"} /\ work[d] = {}
      /\ \A v \in Users : pc[v] = "tx" => Dsn(v) # d
  BY <1>1, ApartAlone
<1>3. \A v \in Users : Dsn(v)' = Dsn(v)
  BY <1>1 DEF Dsn
<1>4. CASE RunBegin(d) /\ Goto(u, "tx")
  <2> HIDE DEF d
  <2>1. Becomes(d, "open", {}, data[d])
    BY <1>2, <1>4 DEF RunBegin
  <2>2. /\ status'[d] = "open" /\ work'[d] = {}
        /\ \A e \in Dsns \ {d} : status'[e] = status[e]
        /\ \A e \in Dsns : work'[e] = work[e] /\ data'[e] = data[e]
    BY <1>1, <1>2, <2>1, ApartFacts DEF Becomes
  <2>3. pc'[u] = "tx" /\ \A v \in Users \ {u} : pc'[v] = pc[v]
    BY <1>4, ApartFacts DEF Goto
  <2>4. Dsn(u)' = d
    BY <1>3 DEF d
  <2>5. TxInv'
    BY <1>1, <1>2, <1>3, <2>2, <2>3, <2>4, ApartFacts DEF ApartState, TxInv
  <2>6. (\A e \in Dsns : status[e] \in {"open", "failed"} => \E v \in Users : pc[v] = "tx" /\ Dsn(v) = e)'
    <3>1. ASSUME NEW e \in Dsns, status'[e] \in {"open", "failed"}
          PROVE  \E v \in Users : pc'[v] = "tx" /\ Dsn(v)' = e
      <4>1. CASE e = d
        BY <2>3, <2>4, <4>1
      <4>2. CASE e # d
        <5>1. PICK v \in Users : pc[v] = "tx" /\ Dsn(v) = e
          BY <2>2, <3>1, <4>2 DEF ApartState, WorkInv
        <5> QED BY <1>1, <1>3, <2>3, <5>1
      <4> QED BY <4>1, <4>2
    <3> QED BY <3>1
  <2>7. (\A e \in Dsns : work[e] # {} => status[e] = "open")'
    BY <2>2 DEF ApartState, WorkInv
  <2>8. (\A e \in Dsns : \A s \in work[e] : outcome[s] = "pending" /\ Dsn(by[s]) = e)'
    <3>1. \A e \in Dsns : \A s \in work[e] :
             s \in Stmts /\ outcome[s] = "pending" /\ Dsn(by[s]) = e /\ by[s] \in Users
      BY ApartFacts DEF ApartState, WorkInv
    <3> QED BY <1>1, <1>3, <2>2, <3>1
  <2>9. (\A s \in Stmts : outcome[s] = "pending" =>
            /\ by[s] \in Users /\ pc[by[s]] = "tx"
            /\ status[Dsn(by[s])] = "open" => s \in work[Dsn(by[s])])'
    <3>1. \A s \in Stmts : outcome[s] = "pending" =>
             /\ by[s] \in Users /\ pc[by[s]] = "tx" /\ Dsn(by[s]) # d /\ Dsn(by[s]) \in Dsns
             /\ status[Dsn(by[s])] = "open" => s \in work[Dsn(by[s])]
      BY <1>2, ApartFacts DEF ApartState, WorkInv
    <3> QED BY <1>1, <1>3, <2>2, <2>3, <3>1
  <2>10. DataInv'
    BY <1>1, <2>2 DEF ApartState, DataInv
  <2> QED BY <2>5, <2>6, <2>7, <2>8, <2>9, <2>10 DEF WorkInv
<1>5. CASE RunRefused(d) /\ Goto(u, "idle")
  <2>1. UNCHANGED <<status, work, data>>
    BY <1>2, <1>5 DEF RunRefused, session
  <2>2. \A v \in Users : pc'[v] = "tx" <=> pc[v] = "tx"
    BY <1>1, <1>5, ApartFacts DEF Goto
  <2> QED BY <1>1, <2>1, <2>2, ApartFrame DEF ApartState
<1> QED BY <1>1, <1>4, <1>5

LEMMA ApartExecInTx ==
  ASSUME ApartState, NEW u \in Users, ExecInTx(u)
  PROVE  TxInv' /\ WorkInv' /\ DataInv'
<1> DEFINE d == Dsn(u)
<1>1. PICK s \in Stmts :
         /\ Fresh(u, s)
         /\ \/ RunWork(d, s) /\ Told({s}, "pending") /\ UNCHANGED refused
            \/ RunRefused(d) /\ Told({s}, "undone") /\ refused' = [refused EXCEPT ![u] = TRUE]
  BY DEF ExecInTx
<1>2. d \in Dsns /\ pc[u] = "tx" /\ UNCHANGED <<dsn, pool, pc>>
  BY ApartFacts DEF ExecInTx, pools
<1>3. /\ \A v \in Users : Dsn(v)' = Dsn(v)
      /\ by[s] = None /\ by'[s] = u /\ \A t \in Stmts \ {s} : by'[t] = by[t]
      /\ outcome[s] = "new" /\ outcome'[s] \in {"pending", "undone"}
      /\ \A t \in Stmts \ {s} : outcome'[t] = outcome[t]
  BY <1>1, <1>2, ApartFacts DEF Fresh, Told, Dsn, ApartState, DataInv
<1>4. /\ status[d] \in {"open", "failed", "dead"}
      /\ status[d] = "open" => ~refused[u]
      /\ \A v \in Users : pc[v] = "tx" /\ Dsn(v) = d => v = u
  BY <1>2, ApartFacts DEF ApartState, TxInv, Using
<1>5. /\ \A e \in Dsns : s \notin data[e] /\ s \notin work[e]
      /\ \A e \in Dsns : \A t \in work[e] :
            t \in Stmts /\ outcome[t] = "pending" /\ Dsn(by[t]) = e /\ by[t] \in Users
      /\ \A t \in Stmts : outcome[t] = "pending" =>
            /\ by[t] \in Users /\ pc[by[t]] = "tx" /\ Dsn(by[t]) \in Dsns
            /\ status[Dsn(by[t])] = "open" => t \in work[Dsn(by[t])]
  <2>1. \A e \in Dsns : s \notin data[e] /\ s \notin work[e]
    BY <1>3 DEF ApartState, DataInv, WorkInv
  <2>2. \A e \in Dsns : \A t \in work[e] :
            t \in Stmts /\ outcome[t] = "pending" /\ Dsn(by[t]) = e /\ by[t] \in Users
    BY ApartFacts DEF ApartState, WorkInv
  <2>3. \A t \in Stmts : outcome[t] = "pending" =>
            /\ by[t] \in Users /\ pc[by[t]] = "tx" /\ Dsn(by[t]) \in Dsns
            /\ status[Dsn(by[t])] = "open" => t \in work[Dsn(by[t])]
    BY ApartFacts DEF ApartState, WorkInv
  <2> QED BY <2>1, <2>2, <2>3
<1>6. /\ \A e \in Dsns : data'[e] = data[e]
      /\ \A e \in Dsns \ {d} : status'[e] = status[e] /\ work'[e] = work[e]
      /\ \A v \in Users \ {u} : refused'[v] = refused[v]
      /\ \/ /\ status[d] = "open" /\ status'[d] = "open" /\ work'[d] = work[d] \union {s}
            /\ refused'[u] = refused[u] /\ outcome'[s] = "pending"
         \/ /\ status'[d] = "failed" /\ work'[d] = {} /\ refused'[u] /\ outcome'[s] = "undone"
         \/ /\ status[d] = "dead" /\ status'[d] = "dead" /\ work'[d] = work[d] /\ outcome'[s] = "undone"
  <2> HIDE DEF d
  <2>1. CASE RunWork(d, s) /\ Told({s}, "pending") /\ UNCHANGED refused
    <3>1. status[d] = "open" /\ Becomes(d, "open", work[d] \union {s}, data[d])
      BY <1>4, <2>1 DEF RunWork
    <3>2. outcome'[s] = "pending"
      BY <2>1 DEF Told
    <3> QED BY <1>2, <2>1, <3>1, <3>2, ApartFacts DEF Becomes
  <2>2. CASE RunRefused(d) /\ Told({s}, "undone") /\ refused' = [refused EXCEPT ![u] = TRUE]
    <3>1. outcome'[s] = "undone"
      BY <2>2 DEF Told
    <3>2. refused'[u] /\ \A v \in Users \ {u} : refused'[v] = refused[v]
      BY <2>2, ApartFacts
    <3>3. \/ status[d] = "dead" /\ UNCHANGED session
          \/ Becomes(d, "failed", {}, data[d])
      BY <1>4, <2>2 DEF RunRefused
    <3>4. CASE status[d] = "dead" /\ UNCHANGED session
      BY <3>1, <3>2, <3>4 DEF session
    <3>5. CASE Becomes(d, "failed", {}, data[d])
      BY <1>2, <3>1, <3>2, <3>5, ApartFacts DEF Becomes
    <3> QED BY <3>3, <3>4, <3>5
  <2> QED BY <1>1, <2>1, <2>2
<1>7. Dsn(u) = d
  OBVIOUS
<1> HIDE DEF d
<1>8. TxInv'
  BY <1>2, <1>3, <1>4, <1>6, <1>7, ApartFacts DEF ApartState, TxInv
<1>9. (\A e \in Dsns : status[e] \in {"open", "failed"} => \E v \in Users : pc[v] = "tx" /\ Dsn(v) = e)'
  BY <1>2, <1>3, <1>6, <1>7 DEF ApartState, WorkInv
<1>10. (\A e \in Dsns : work[e] # {} => status[e] = "open")'
  <2>1. work[d] # {} => status[d] = "open"
    BY <1>2 DEF ApartState, WorkInv
  <2>2. \A e \in Dsns \ {d} : work'[e] # {} => status'[e] = "open"
    BY <1>6 DEF ApartState, WorkInv
  <2>3. work'[d] # {} => status'[d] = "open"
    BY <1>6, <2>1
  <2> QED BY <2>2, <2>3
<1>11. (\A e \in Dsns : \A t \in work[e] : outcome[t] = "pending" /\ Dsn(by[t]) = e)'
  <2>1. ASSUME NEW e \in Dsns, NEW t \in work'[e] PROVE outcome'[t] = "pending" /\ Dsn(by[t])' = e
    <3>1. CASE t \in work[e]
      BY <1>3, <1>5, <3>1 DEF Dsn
    <3>2. CASE t \notin work[e]
      <4>1. e = d /\ t = s /\ outcome'[s] = "pending"
        BY <1>6, <2>1, <3>2
      <4> QED BY <1>3, <1>7, <4>1 DEF Dsn
    <3> QED BY <3>1, <3>2
  <2> QED BY <2>1
<1>12. (\A t \in Stmts : outcome[t] = "pending" =>
            /\ by[t] \in Users /\ pc[by[t]] = "tx"
            /\ status[Dsn(by[t])] = "open" => t \in work[Dsn(by[t])])'
  <2>1. ASSUME NEW t \in Stmts, outcome'[t] = "pending"
        PROVE  /\ by'[t] \in Users /\ pc'[by'[t]] = "tx"
               /\ status'[Dsn(by[t])'] = "open" => t \in work'[Dsn(by[t])']
    <3>1. CASE t = s
      <4>1. Dsn(by[s])' = d
        BY <1>3, <1>7 DEF Dsn
      <4>2. status'[d] = "open" => s \in work'[d]
        BY <1>6, <2>1, <3>1
      <4> QED BY <1>2, <1>3, <3>1, <4>1, <4>2
    <3>2. CASE t # s
      <4>1. by'[t] = by[t] /\ outcome[t] = "pending" /\ by[t] \in Users /\ pc'[by[t]] = "tx"
        BY <1>2, <1>3, <1>5, <2>1, <3>2
      <4>2. Dsn(by[t])' = Dsn(by[t]) /\ Dsn(by[t]) \in Dsns
        BY <1>3, <1>5, <4>1 DEF Dsn
      <4>3. status[Dsn(by[t])] = "open" => t \in work[Dsn(by[t])]
        BY <1>5, <4>1
      <4>4. status'[Dsn(by[t])] = "open" => t \in work'[Dsn(by[t])]
        BY <1>6, <4>2, <4>3
      <4> QED BY <4>1, <4>2, <4>4
    <3> QED BY <3>1, <3>2
  <2> QED BY <2>1
<1>13. DataInv'
  <2>1. (\A t \in Stmts : by[t] = None => outcome[t] = "new")'
    BY <1>3, DriverAssumption DEF ApartState, DataInv
  <2>2. (\A t \in Stmts, e \in Dsns : t \in data[e] => outcome[t] = "kept")'
    BY <1>3, <1>5, <1>6 DEF ApartState, DataInv
  <2>3. (\A t \in Stmts : outcome[t] = "kept" => \E e \in Dsns : t \in data[e])'
    BY <1>3, <1>6 DEF ApartState, DataInv
  <2> QED BY <2>1, <2>2, <2>3 DEF DataInv
<1> QED BY <1>8, <1>9, <1>10, <1>11, <1>12, <1>13 DEF WorkInv

\* The end of a transaction: what was pending is told `what`, which is kept only
\* when the work is, and the session is outside of a transaction.
LEMMA ApartEndTx ==
  ASSUME ApartState, NEW u \in Users, pc[u] = "tx",
         NEW what \in {"kept", "undone", "unknown"}, Told(Pending(u), what),
         Goto(u, "idle"), UNCHANGED <<dsn, pool, refused, by>>,
         \/ status[Dsn(u)] = "dead" /\ UNCHANGED session /\ what = "unknown"
         \/ /\ status[Dsn(u)] = "open" /\ what = "kept"
            /\ Becomes(Dsn(u), "idle", {}, data[Dsn(u)] \union work[Dsn(u)])
         \/ Becomes(Dsn(u), "idle", {}, data[Dsn(u)]) /\ what = "undone"
  PROVE  TxInv' /\ WorkInv' /\ DataInv'
<1> DEFINE d == Dsn(u)
<1>1. d \in Dsns
  BY ApartFacts
<1>2. /\ \A v \in Users : Dsn(v)' = Dsn(v)
      /\ pc'[u] = "idle" /\ \A v \in Users \ {u} : pc'[v] = pc[v]
  BY ApartFacts DEF Goto, Dsn
<1>3. \A v \in Users : pc[v] = "tx" /\ Dsn(v) = d => v = u
  BY ApartFacts DEF Using
<1>4. /\ \A t \in Stmts : by[t] = u /\ outcome[t] = "pending" => outcome'[t] = what
      /\ \A t \in Stmts : ~(by[t] = u /\ outcome[t] = "pending") => outcome'[t] = outcome[t]
  BY DEF Told, Pending
<1>5. /\ \A e \in Dsns \ {d} : status'[e] = status[e] /\ work'[e] = work[e] /\ data'[e] = data[e]
      /\ \/ status'[d] = "dead" /\ work'[d] = work[d] /\ data'[d] = data[d] /\ what = "unknown" /\ status[d] = "dead"
         \/ /\ status[d] = "open" /\ what = "kept"
            /\ status'[d] = "idle" /\ work'[d] = {} /\ data'[d] = data[d] \union work[d]
         \/ status'[d] = "idle" /\ work'[d] = {} /\ data'[d] = data[d] /\ what = "undone"
  <2> HIDE DEF d
  <2>1. CASE status[d] = "dead" /\ UNCHANGED session /\ what = "unknown"
    BY <2>1 DEF session
  <2>2. CASE status[d] = "open" /\ what = "kept" /\ Becomes(d, "idle", {}, data[d] \union work[d])
    BY <1>1, <2>2, ApartFacts DEF Becomes
  <2>3. CASE Becomes(d, "idle", {}, data[d]) /\ what = "undone"
    BY <1>1, <2>3, ApartFacts DEF Becomes
  <2> QED BY <2>1, <2>2, <2>3 DEF d
<1>6. /\ \A e \in Dsns : \A t \in work[e] :
            t \in Stmts /\ outcome[t] = "pending" /\ Dsn(by[t]) = e /\ by[t] \in Users /\ pc[by[t]] = "tx"
      /\ \A t \in Stmts : outcome[t] = "pending" =>
            /\ by[t] \in Users /\ pc[by[t]] = "tx" /\ Dsn(by[t]) \in Dsns
            /\ status[Dsn(by[t])] = "open" => t \in work[Dsn(by[t])]
      /\ status[d] = "dead" => work[d] = {}
  <2>1. \A t \in Stmts : outcome[t] = "pending" =>
            /\ by[t] \in Users /\ pc[by[t]] = "tx" /\ Dsn(by[t]) \in Dsns
            /\ status[Dsn(by[t])] = "open" => t \in work[Dsn(by[t])]
    BY ApartFacts DEF ApartState, WorkInv
  <2>2. \A e \in Dsns : \A t \in work[e] : t \in Stmts /\ outcome[t] = "pending" /\ Dsn(by[t]) = e
    BY ApartFacts DEF ApartState, WorkInv
  <2>3. status[d] = "dead" => work[d] = {}
    BY <1>1 DEF ApartState, WorkInv
  <2> QED BY <2>1, <2>2, <2>3
<1>7. Dsn(u) = d /\ (by \in [Stmts -> Users \union {None}]) /\ by' = by /\ refused' = refused
  BY ApartFacts
<1> HIDE DEF d
<1>8. TxInv'
  BY <1>2, <1>3, <1>5, <1>7, ApartFacts DEF ApartState, TxInv
<1>9. (\A e \in Dsns : status[e] \in {"open", "failed"} => \E v \in Users : pc[v] = "tx" /\ Dsn(v) = e)'
  <2>1. ASSUME NEW e \in Dsns, status'[e] \in {"open", "failed"}
        PROVE  \E v \in Users : pc'[v] = "tx" /\ Dsn(v)' = e
    <3>1. e # d /\ status[e] \in {"open", "failed"}
      BY <1>5, <2>1
    <3>2. PICK v \in Users : pc[v] = "tx" /\ Dsn(v) = e
      BY <3>1 DEF ApartState, WorkInv
    <3> QED BY <1>2, <1>7, <3>1, <3>2
  <2> QED BY <2>1
<1>10. (\A e \in Dsns : work[e] # {} => status[e] = "open")'
  BY <1>5, <1>6 DEF ApartState, WorkInv
<1>11. (\A e \in Dsns : \A t \in work[e] : outcome[t] = "pending" /\ Dsn(by[t]) = e)'
  <2>1. ASSUME NEW e \in Dsns, NEW t \in work'[e] PROVE outcome'[t] = "pending" /\ Dsn(by[t])' = e
    <3>1. e # d /\ t \in work[e]
      BY <1>5, <1>6, <2>1
    <3>2. by[t] # u /\ Dsn(by[t]) = e /\ outcome[t] = "pending" /\ t \in Stmts /\ by[t] \in Users
      BY <1>6, <1>7, <3>1
    <3> QED BY <1>2, <1>4, <3>2, <1>7 DEF Dsn
  <2> QED BY <2>1, <1>7
<1>12. (\A t \in Stmts : outcome[t] = "pending" =>
            /\ by[t] \in Users /\ pc[by[t]] = "tx"
            /\ status[Dsn(by[t])] = "open" => t \in work[Dsn(by[t])])'
  <2>1. ASSUME NEW t \in Stmts, outcome'[t] = "pending"
        PROVE  /\ by'[t] \in Users /\ pc'[by'[t]] = "tx"
               /\ status'[Dsn(by[t])'] = "open" => t \in work'[Dsn(by[t])']
    <3>1. outcome[t] = "pending" /\ by[t] # u
      BY <1>4, <2>1
    <3>2. /\ by[t] \in Users /\ pc[by[t]] = "tx" /\ Dsn(by[t]) \in Dsns
          /\ status[Dsn(by[t])] = "open" => t \in work[Dsn(by[t])]
      BY <1>6, <3>1
    <3>3. Dsn(by[t]) # d
      BY <1>3, <3>1, <3>2
    <3>4. Dsn(by[t])' = Dsn(by[t])
      BY <1>2, <1>7, <3>2 DEF Dsn
    <3> QED BY <1>2, <1>5, <1>7, <3>1, <3>2, <3>3, <3>4
  <2> QED BY <2>1
<1>13. DataInv'
  <2>1. (\A t \in Stmts : by[t] = None => outcome[t] = "new")'
    BY <1>4, <1>7, DriverAssumption DEF ApartState, DataInv
  <2>2. ASSUME NEW t \in Stmts, NEW e \in Dsns, t \in data'[e] PROVE outcome'[t] = "kept"
    <3>1. CASE t \in data[e]
      BY <1>4, <3>1 DEF ApartState, DataInv
    <3>2. CASE t \notin data[e]
      <4>1. e = d /\ t \in work[d] /\ what = "kept"
        BY <1>5, <2>2, <3>2
      <4>2. by[t] = u /\ outcome[t] = "pending"
        BY <1>1, <1>3, <1>6, <4>1
      <4> QED BY <1>4, <4>1, <4>2
    <3> QED BY <3>1, <3>2
  <2>3. ASSUME NEW t \in Stmts, outcome'[t] = "kept" PROVE \E e \in Dsns : t \in data'[e]
    <3>1. CASE by[t] = u /\ outcome[t] = "pending"
      <4>1. what = "kept"
        BY <1>4, <2>3, <3>1
      <4>2. t \in work[d] /\ data'[d] = data[d] \union work[d]
        BY <1>5, <1>6, <1>7, <3>1, <4>1
      <4> QED BY <1>1, <4>2
    <3>2. CASE ~(by[t] = u /\ outcome[t] = "pending")
      <4>1. PICK e \in Dsns : t \in data[e]
        BY <1>4, <2>3, <3>2 DEF ApartState, DataInv
      <4> QED BY <1>5, <4>1
    <3> QED BY <3>1, <3>2
  <2> QED BY <2>1, <2>2, <2>3 DEF DataInv
<1> QED BY <1>8, <1>9, <1>10, <1>11, <1>12, <1>13 DEF WorkInv

LEMMA ApartCommit ==
  ASSUME ApartState, NEW u \in Users, Commit(u)
  PROVE  TxInv' /\ WorkInv' /\ DataInv'
<1>1. pc[u] = "tx" /\ Goto(u, "idle") /\ UNCHANGED <<dsn, pool, refused, by>>
  BY DEF Commit, Release
<1>2. /\ status[Dsn(u)] \in {"open", "failed", "dead"}
      /\ status[Dsn(u)] = "open" => ~refused[u]
      /\ status[Dsn(u)] = "failed" => refused[u]
  BY <1>1 DEF ApartState, TxInv
<1>3. CASE RunCommit(Dsn(u)) /\ Told(Pending(u), IF refused[u] THEN "undone" ELSE "kept")
  <2>1. CASE status[Dsn(u)] = "open"
    <3>1. Becomes(Dsn(u), "idle", {}, data[Dsn(u)] \union work[Dsn(u)])
      BY <1>3, <2>1 DEF RunCommit
    <3>2. Told(Pending(u), "kept")
      BY <1>2, <1>3, <2>1
    <3> QED BY <1>1, <2>1, <3>1, <3>2, ApartEndTx
  <2>2. CASE status[Dsn(u)] = "failed"
    <3>1. Becomes(Dsn(u), "idle", {}, data[Dsn(u)])
      BY <1>3, <2>2 DEF RunCommit
    <3>2. Told(Pending(u), "undone")
      BY <1>2, <1>3, <2>2
    <3> QED BY <1>1, <3>1, <3>2, ApartEndTx
  <2>3. status[Dsn(u)] # "dead"
    BY <1>3 DEF RunCommit
  <2> QED BY <1>2, <2>1, <2>2, <2>3
<1>4. CASE status[Dsn(u)] = "dead" /\ UNCHANGED session /\ Told(Pending(u), "unknown")
  BY <1>1, <1>4, ApartEndTx
<1> QED BY <1>3, <1>4 DEF Commit

LEMMA ApartRollback ==
  ASSUME ApartState, NEW u \in Users, Rollback(u)
  PROVE  TxInv' /\ WorkInv' /\ DataInv'
<1>1. pc[u] = "tx" /\ Goto(u, "idle") /\ UNCHANGED <<dsn, pool, refused, by>>
  BY DEF Rollback, Release
<1>2. status[Dsn(u)] \in {"open", "failed", "dead"}
  BY <1>1 DEF ApartState, TxInv
<1>3. CASE RunRollback(Dsn(u)) /\ Told(Pending(u), "undone")
  <2>1. Becomes(Dsn(u), "idle", {}, data[Dsn(u)])
    BY <1>2, <1>3 DEF RunRollback
  <2> QED BY <1>1, <1>3, <2>1, ApartEndTx
<1>4. CASE status[Dsn(u)] = "dead" /\ UNCHANGED session /\ Told(Pending(u), "unknown")
  BY <1>1, <1>4, ApartEndTx
<1> QED BY <1>3, <1>4 DEF Rollback

----------------------------------------------------------------------------
(* The invariant.                                                          *)

LEMMA DriverInit == Init => DriverInv
<1> SUFFICES ASSUME Init PROVE DriverInv
  OBVIOUS
<1>1. TypeOK
  BY TypeInit
<1>2. LockInv
  BY DriverAssumption DEF Init, LockInv, Opening
<1>3. OneClusterPerDsn
  BY DEF Init, OneClusterPerDsn
<1>4. UseInv
  BY DEF Init, UseInv, Using, Beginning
<1>5. TxInv
  BY DEF Init, TxInv
<1>6. WorkInv
  BY DEF Init, WorkInv
<1>7. DataInv
  BY DEF Init, DataInv
<1> QED BY <1>1, <1>2, <1>3, <1>4, <1>5, <1>6, <1>7 DEF DriverInv, ApartInv

LEMMA ApartNext == DriverInv /\ [Next]_vars => ApartInv'
<1> SUFFICES ASSUME DriverInv, [Next]_vars, ~overlap', ~raw' PROVE TxInv' /\ WorkInv' /\ DataInv'
  BY DEF ApartInv
<1>1. ~overlap /\ ~raw
  <2>1. raw' = raw \/ raw' = TRUE
    BY DEF Next, vars, AcquireForStmt, AcquireForBegin, Acquire, OpenHit, OpenMiss, OpenDone, OpenFails,
           ExecStmt, ExecBeginText, Begin, ExecInTx, Commit, Rollback, CloseConn, BackendEnds
  <2>2. overlap => overlap'
    BY DEF Next, vars, AcquireForStmt, AcquireForBegin, Acquire, OpenHit, OpenMiss, OpenDone, OpenFails, Gets,
           ExecStmt, ExecBeginText, Begin, ExecInTx, Commit, Rollback, CloseConn, BackendEnds
  <2> QED BY <2>1, <2>2
<1>2. ApartState
  BY <1>1 DEF DriverInv, ApartInv, ApartState
<1>3. TypeOK /\ TxInv /\ WorkInv /\ DataInv /\ pc \in [Users -> Points]
  BY <1>2 DEF ApartState, TypeOK
<1>4. CASE UNCHANGED vars
  BY <1>3, <1>4, ApartFrame DEF vars, pools, session, users, stmts
<1>5. ASSUME NEW u \in Users, AcquireForStmt(u) \/ AcquireForBegin(u)
      PROVE  TxInv' /\ WorkInv' /\ DataInv'
  <2>1. /\ pc[u] = "idle" /\ UNCHANGED <<dsn, status, work, data, by, outcome>>
        /\ \E point \in {"stmt", "stmt conn", "begin", "begin conn"} : Goto(u, point)
        /\ \E p \in Pools : pool' = [pool EXCEPT ![u] = p]
        /\ refused' = [refused EXCEPT ![u] = FALSE]
    BY <1>5 DEF AcquireForStmt, AcquireForBegin, Acquire, session, stmts
  <2>2. \A v \in Users : pc'[v] = "tx" <=> pc[v] = "tx"
    BY <1>3, <2>1 DEF Goto
  <2>3. \A v \in Users : pc[v] = "tx" => pool'[v] = pool[v] /\ refused'[v] = refused[v]
    BY <1>2, <2>1, ApartFacts
  <2> QED BY <1>3, <2>1, <2>2, <2>3, ApartFrame
<1>6. CASE CloseConn
  BY <1>3, <1>6, ApartFrame DEF CloseConn, session, users, stmts
<1>7. ASSUME NEW u \in Users, OpenHit(u) \/ OpenMiss(u) \/ OpenFails(u)
      PROVE  TxInv' /\ WorkInv' /\ DataInv'
  <2>1. /\ pc[u] # "tx" /\ UNCHANGED <<dsn, pool, refused, status, work, data, by, outcome>>
        /\ \E point \in {"stmt", "begin", "stmt open", "begin open", "idle"} : Goto(u, point)
    BY <1>7 DEF OpenHit, OpenMiss, OpenFails, Gets, Wanted, pools, session, stmts
  <2>2. \A v \in Users : pc'[v] = "tx" <=> pc[v] = "tx"
    BY <1>3, <2>1 DEF Goto
  <2> QED BY <1>3, <2>1, <2>2, ApartFrame
<1>8. ASSUME NEW u \in Users, OpenDone(u) PROVE TxInv' /\ WorkInv' /\ DataInv'
  <2>1. pc[u] \in Opening
    BY <1>8 DEF OpenDone, Opening
  <2>2. Dsn(u) \notin clusters
    BY <2>1 DEF DriverInv, LockInv
  <2> QED BY <1>2, <1>8, <2>2, ApartOpenDone
<1>9. CASE BackendEnds
  BY <1>2, <1>9, ApartBackendEnds
<1>10. ASSUME NEW u \in Users, ExecBeginText(u) PROVE TxInv' /\ WorkInv' /\ DataInv'
  BY <1>10 DEF ExecBeginText
<1> QED
  BY <1>2, <1>4, <1>5, <1>6, <1>7, <1>8, <1>9, <1>10,
     ApartExecStmt, ApartBegin, ApartExecInTx, ApartCommit, ApartRollback DEF Next

LEMMA DriverStep == DriverInv /\ [Next]_vars => DriverInv'
BY TypeNext, LockNext, UseNext, ApartNext DEF DriverInv

\* The whole invariant holds in every state, for any number of users and pools.
THEOREM DriverInvariant == Spec => []DriverInv
BY DriverInit, DriverStep, PTL DEF Spec

\* drv.Open opens one cluster for a DSN, however many users connect at once and
\* however often opening it failed before.
THEOREM DsnHasOneCluster == Spec => []OneClusterPerDsn
<1>1. DriverInv => OneClusterPerDsn
  BY DEF DriverInv
<1> QED BY <1>1, DriverInvariant, PTL

\* What conn and tx tell their users is what happened to the statements, while the
\* pool keeps the users of a DSN apart.
THEOREM UsersAreToldTheTruth == Spec => []ToldKeptIsCommitted
<1>1. DriverInv => ToldKeptIsCommitted
  BY DEF DriverInv, ApartInv, DataInv, ToldKeptIsCommitted
<1> QED BY <1>1, DriverInvariant, PTL

\* The transaction of a session belongs to the user that has its connection.
THEOREM SessionHasItsUser == Spec => []SessionIsOwned
<1>1. DriverInv => SessionIsOwned
  <2> SUFFICES ASSUME DriverInv, ~overlap, ~raw PROVE
        \A d \in Dsns :
           /\ status[d] \in {"open", "failed"} => \E u \in Users : pc[u] = "tx" /\ Dsn(u) = d
           /\ \A s \in work[d] : pc[by[s]] = "tx" /\ Dsn(by[s]) = d
    BY DEF SessionIsOwned
  <2>1. WorkInv /\ work \in [Dsns -> SUBSET Stmts]
    BY DEF DriverInv, ApartInv, TypeOK
  <2> QED BY <2>1 DEF WorkInv
<1> QED BY <1>1, DriverInvariant, PTL
============================================================================
