------------------------------- MODULE Driver -------------------------------
(***************************************************************************)
(* The database/sql driver of pgdriver/driver.go.  Every connection of a   *)
(* DSN is a pointer to the one cluster of that DSN, and that cluster has   *)
(* one session: Begin, Commit and Rollback are statements on it like any   *)
(* other.  What keeps transactions apart is the pool of database/sql,      *)
(* which is not in the repository: it hands a connection to one user at a  *)
(* time, keeps it with a transaction until it ends, and opens at most      *)
(* `limit` of them.                                                        *)
(*                                                                         *)
(* A call of the DB runs alone (Session) and is one step here.             *)
(***************************************************************************)
EXTENDS Naturals, FiniteSets

CONSTANTS
    Users,      \* goroutines
    Pools,      \* values of sql.DB
    Dsns,       \* data source names
    Stmts,      \* the statements users run, each once
    MaxOpen,    \* bound on the limit of a pool
    None        \* nobody

ASSUME DriverAssumption == None \notin Users /\ MaxOpen \in Nat \ {0}

VARIABLES
    dsn, limit,         \* of each pool: its DSN, and SetMaxOpenConns
    numOpen, free,      \* its connections, and those nobody uses
    mu, clusters,       \* of the driver: the lock and the DSNs with a cluster
    status, work,       \* of each session: transaction status, uncommitted work
    data,               \* and what is committed
    pc, pool,           \* of each user: where it is, the pool it works with
    refused,            \* a statement of its transaction was refused
    by, outcome,        \* of each statement: its user, what that was told
    opened,             \* how often pglite.Open made a cluster (history)
    overlap,            \* two users had connections of one DSN (history)
    raw                 \* a user ran BEGIN as a statement of its own (history)

pools == <<dsn, limit, numOpen, free>>
driver == <<mu, clusters, opened>>
session == <<status, work, data>>
users == <<pc, pool, refused>>
stmts == <<by, outcome>>
vars == <<pools, driver, session, users, stmts, overlap, raw>>

Using == {"stmt", "begin", "tx"}
Points == {"idle", "stmt conn", "begin conn", "stmt open", "begin open"} \union Using

Init ==
    /\ dsn \in [Pools -> Dsns] /\ limit \in 1..MaxOpen
    /\ numOpen = [p \in Pools |-> 0]
    /\ free = [p \in Pools |-> 0]
    /\ mu = None
    /\ clusters = {}
    /\ status = [d \in Dsns |-> "none"]
    /\ work = [d \in Dsns |-> {}]
    /\ data = [d \in Dsns |-> {}]
    /\ pc = [u \in Users |-> "idle"]
    /\ pool \in [Users -> Pools]
    /\ refused = [u \in Users |-> FALSE]
    /\ by = [s \in Stmts |-> None]
    /\ outcome = [s \in Stmts |-> "new"]
    /\ opened = [d \in Dsns |-> 0]
    /\ overlap = FALSE
    /\ raw = FALSE

----------------------------------------------------------------------------
(* The pool of database/sql, and drv.Open.                                 *)

Dsn(u) == dsn[pool[u]]
Goto(u, point) == pc' = [pc EXCEPT ![u] = point]

\* The user has a connection: others may have one of the same cluster.
Gets(u, point) ==
    /\ Goto(u, point)
    /\ overlap' = (overlap \/ \E v \in Users \ {u} : pc[v] \in Using /\ Dsn(v) = Dsn(u))

\* db.Exec and db.Begin: an idle connection, or a new one below the limit.
Acquire(u, want, opening) ==
    /\ pc[u] = "idle"
    /\ \E p \in Pools :
          /\ pool' = [pool EXCEPT ![u] = p]
          /\ \/ /\ free[p] > 0
                /\ free' = [free EXCEPT ![p] = @ - 1]
                /\ Goto(u, want)
                /\ overlap' = (overlap \/ \E v \in Users \ {u} : pc[v] \in Using /\ Dsn(v) = dsn[p])
                /\ UNCHANGED numOpen
             \/ /\ free[p] = 0 /\ numOpen[p] < limit
                /\ numOpen' = [numOpen EXCEPT ![p] = @ + 1]
                /\ Goto(u, opening)
                /\ UNCHANGED <<free, overlap>>
    /\ refused' = [refused EXCEPT ![u] = FALSE]
    /\ UNCHANGED <<dsn, limit, driver, session, stmts, raw>>
AcquireForStmt(u) == Acquire(u, "stmt", "stmt conn")
AcquireForBegin(u) == Acquire(u, "begin", "begin conn")

\* The pool closes an idle connection, which does nothing to the cluster.
CloseConn ==
    /\ \E p \in Pools :
          /\ free[p] > 0
          /\ numOpen' = [numOpen EXCEPT ![p] = @ - 1]
          /\ free' = [free EXCEPT ![p] = @ - 1]
    /\ UNCHANGED <<dsn, limit, driver, session, users, stmts, overlap, raw>>

Wanted(u) == IF pc[u] \in {"stmt conn", "stmt open"} THEN "stmt" ELSE "begin"
\* drv.Open of a DSN that has a cluster.
OpenHit(u) ==
    /\ pc[u] \in {"stmt conn", "begin conn"}
    /\ mu = None /\ Dsn(u) \in clusters
    /\ Gets(u, Wanted(u))
    /\ UNCHANGED <<pools, driver, session, pool, refused, stmts, raw>>

OpenMissUnlocked(u) ==
    /\ pc[u] \in {"stmt conn", "begin conn"}
    /\ Dsn(u) \notin clusters
    /\ Goto(u, IF pc[u] = "stmt conn" THEN "stmt open" ELSE "begin open")
    /\ UNCHANGED <<pools, driver, session, pool, refused, stmts, overlap, raw>>
\* Otherwise it keeps mu while pglite.Open loads or creates the cluster.
OpenMiss(u) ==
    /\ pc[u] \in {"stmt conn", "begin conn"}
    /\ mu = None /\ Dsn(u) \notin clusters
    /\ mu' = u
    /\ Goto(u, IF pc[u] = "stmt conn" THEN "stmt open" ELSE "begin open")
    /\ UNCHANGED <<pools, clusters, opened, session, pool, refused, stmts, overlap, raw>>

OpenDone(u) ==
    /\ pc[u] \in {"stmt open", "begin open"}
    /\ mu' = None
    /\ clusters' = clusters \union {Dsn(u)}
    /\ opened' = [opened EXCEPT ![Dsn(u)] = @ + 1]
    /\ status' = [status EXCEPT ![Dsn(u)] = "idle"]
    /\ Gets(u, Wanted(u))
    /\ UNCHANGED <<pools, work, data, pool, refused, stmts, raw>>

\* A failed Open leaves no cluster: the next one tries again.
OpenFails(u) ==
    /\ pc[u] \in {"stmt open", "begin open"}
    /\ mu' = None
    /\ numOpen' = [numOpen EXCEPT ![pool[u]] = @ - 1]
    /\ Goto(u, "idle")
    /\ UNCHANGED <<dsn, limit, free, clusters, opened, session, pool, refused, stmts, overlap, raw>>

Release(u) ==
    /\ Goto(u, "idle")
    /\ free' = [free EXCEPT ![pool[u]] = @ + 1]
    /\ UNCHANGED <<dsn, limit, numOpen>>

----------------------------------------------------------------------------
(* Statements on the session of the cluster (PostgreSQL).  Each says       *)
(* whether the driver sees an error.                                       *)

Becomes(d, st, uncommitted, committed) ==
    /\ status' = [status EXCEPT ![d] = st]
    /\ work' = [work EXCEPT ![d] = uncommitted]
    /\ data' = [data EXCEPT ![d] = committed]

RunWork(d, s) ==
    \/ status[d] = "idle" /\ Becomes(d, "idle", {}, data[d] \union {s})
    \/ status[d] = "open" /\ Becomes(d, "open", work[d] \union {s}, data[d])
RunRefused(d) ==
    \/ status[d] \in {"idle", "dead"} /\ UNCHANGED session
    \/ status[d] \in {"open", "failed"} /\ Becomes(d, "failed", {}, data[d])
RunBegin(d) ==
    \/ status[d] = "idle" /\ Becomes(d, "open", {}, data[d])
    \/ status[d] = "open" /\ UNCHANGED session        \* a warning
RunCommit(d) ==
    \/ status[d] = "open" /\ Becomes(d, "idle", {}, data[d] \union work[d])
    \/ status[d] = "failed" /\ Becomes(d, "idle", {}, data[d]) \* tag ROLLBACK
    \/ status[d] = "idle" /\ UNCHANGED session        \* a warning
RunRollback(d) ==
    \/ status[d] \in {"open", "failed"} /\ Becomes(d, "idle", {}, data[d])
    \/ status[d] = "idle" /\ UNCHANGED session        \* a warning

\* The session is over: what it had not committed is lost.
BackendEnds ==
    /\ \E d \in clusters : status[d] # "dead" /\ Becomes(d, "dead", {}, data[d])
    /\ UNCHANGED <<pools, driver, users, stmts, overlap, raw>>

----------------------------------------------------------------------------
(* conn and tx.                                                            *)

Fresh(u, s) == by[s] = None /\ by' = [by EXCEPT ![s] = u]
Pending(u) == {s \in Stmts : by[s] = u /\ outcome[s] = "pending"}
Told(S, what) == outcome' = [s \in Stmts |-> IF s \in S THEN what ELSE outcome[s]]

\* ExecContext and QueryContext outside of a transaction.
ExecStmt(u) ==
    /\ pc[u] = "stmt"
    /\ \E s \in Stmts :
          /\ Fresh(u, s)
          /\ \/ RunWork(Dsn(u), s) /\ Told({s}, "kept")
             \/ RunRefused(Dsn(u)) /\ Told({s}, "undone")
    /\ Release(u)
    /\ UNCHANGED <<driver, pool, refused, overlap, raw>>

\* A user may run BEGIN itself; the connection goes back to the pool with it.
ExecBeginText(u) ==
    /\ pc[u] = "stmt"
    /\ RunBegin(Dsn(u))
    /\ raw' = TRUE
    /\ Release(u)
    /\ UNCHANGED <<driver, pool, refused, stmts, overlap>>

Begin(u) ==
    /\ pc[u] = "begin"
    /\ \/ RunBegin(Dsn(u)) /\ Goto(u, "tx") /\ UNCHANGED pools
       \/ RunRefused(Dsn(u)) /\ Release(u)
    /\ UNCHANGED <<driver, pool, refused, stmts, overlap, raw>>

ExecInTx(u) ==
    /\ pc[u] = "tx"
    /\ \E s \in Stmts :
          /\ Fresh(u, s)
          /\ \/ RunWork(Dsn(u), s) /\ Told({s}, "pending") /\ UNCHANGED refused
             \/ /\ RunRefused(Dsn(u)) /\ Told({s}, "undone")
                /\ refused' = [refused EXCEPT ![u] = TRUE]
    /\ UNCHANGED <<pools, driver, pc, pool, overlap, raw>>

CommitUnchecked(u) ==
    /\ pc[u] = "tx"
    /\ RunCommit(Dsn(u)) \/ (status[Dsn(u)] = "dead" /\ UNCHANGED session)
    /\ Told(Pending(u), IF refused[u] THEN "undone" ELSE "kept")
    /\ Release(u)
    /\ UNCHANGED <<driver, pool, refused, by, overlap, raw>>
\* Commit of a transaction with a refused statement rolls back and returns no
\* error: the user knows from that statement.
Commit(u) ==
    /\ pc[u] = "tx"
    /\ \/ RunCommit(Dsn(u)) /\ Told(Pending(u), IF refused[u] THEN "undone" ELSE "kept")
       \/ status[Dsn(u)] = "dead" /\ UNCHANGED session /\ Told(Pending(u), "unknown")
    /\ Release(u)
    /\ UNCHANGED <<driver, pool, refused, by, overlap, raw>>

RollbackOnlyPool(u) ==
    /\ pc[u] = "tx"
    /\ Told(Pending(u), "undone")
    /\ Release(u)
    /\ UNCHANGED <<driver, session, pool, refused, by, overlap, raw>>
Rollback(u) ==
    /\ pc[u] = "tx"
    /\ \/ RunRollback(Dsn(u)) /\ Told(Pending(u), "undone")
       \/ status[Dsn(u)] = "dead" /\ UNCHANGED session /\ Told(Pending(u), "unknown")
    /\ Release(u)
    /\ UNCHANGED <<driver, pool, refused, by, overlap, raw>>

Next ==
    \/ \E u \in Users :
          \/ AcquireForStmt(u) \/ AcquireForBegin(u)
          \/ OpenHit(u) \/ OpenMiss(u) \/ OpenDone(u) \/ OpenFails(u)
          \/ ExecStmt(u) \/ ExecBeginText(u)
          \/ Begin(u) \/ ExecInTx(u) \/ Commit(u) \/ Rollback(u)
    \/ CloseConn \/ BackendEnds

Spec == Init /\ [][Next]_vars

----------------------------------------------------------------------------
(* Properties.                                                             *)

\* Connections of one DSN share one cluster, opened once, however many users
\* connect while it is being opened and whatever opens failed before.
OneClusterPerDsn ==
    \A d \in Dsns : opened[d] = IF d \in clusters THEN 1 ELSE 0

\* While users are kept apart, as SetMaxOpenConns(1) does (driver.go:20), and none
\* runs BEGIN as a statement, what a user was told is what happened to its work:
\* a statement is committed if it succeeded outside of a transaction or in one
\* that Commit said was committed, and it is not while its transaction is open,
\* after Rollback, after a refusal in its transaction, or when the session ended
\* first.
ToldKeptIsCommitted ==
    ~overlap /\ ~raw => \A s \in Stmts :
        /\ outcome[s] = "kept" => \E d \in Dsns : s \in data[d]
        /\ outcome[s] \in {"pending", "undone", "unknown"} => \A d \in Dsns : s \notin data[d]

\* A session left to the pool is outside of any transaction, and the work of
\* an open one is that of the user that has it.
SessionIsOwned ==
    ~overlap /\ ~raw => \A d \in Dsns :
        /\ status[d] \in {"open", "failed"} => \E u \in Users : pc[u] = "tx" /\ Dsn(u) = d
        /\ \A s \in work[d] : pc[by[s]] = "tx" /\ Dsn(by[s]) = d
============================================================================
