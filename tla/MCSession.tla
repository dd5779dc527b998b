----------------------------- MODULE MCSession -----------------------------
EXTENDS Session, TLC

CONSTANTS u1, c1, c2

OneUser == {u1}
TwoClients == {c1, c2}

Invoke(m, sql) == [method |-> m, sql |-> sql]
UserCalls == {Invoke("Query", "write"), Invoke("QueryParams", "read"),
              Invoke("Sync", NoStmt), Invoke("Close", NoStmt)}

ClientSymmetry == Permutations(TwoClients)

\* For liveness: every kind of wait, little data.
FewCalls == {Invoke("QueryParams", "read"), Invoke("Close", NoStmt)}
FewMsgs == {Bare("S"), Bare("X")}

\* Enough for a transaction left open, a failed one, a pipelined batch, one that
\* writes and is left without Sync, and a batch that fails and is ended by Flush.
PipelineMsgs == {Message("Q", "begin"), Message("P", "write"), Bare("E"),
                 Bare("S"), Bare("H"), Bare("X")}
============================================================================
