----------------------------- MODULE MCWireExec -----------------------------
EXTENDS WireExec

\* Simple queries, the two pumps of extendedQuery, and the batches ServeConn
\* submits at a Sync or a Flush, and the Terminate of close.
Prepare(sql) == <<Message("P", sql), Bare("D"), Bare("S")>>
Run == <<Bare("B"), Bare("D"), Bare("E"), Bare("S")>>
SmallRequests ==
    {<<Message("Q", sql)>> : sql \in Stmts}
        \union {Prepare(sql) : sql \in {"begin", "write", "commit", "bad"}}
        \union {Run,
                <<Message("P", "write"), Bare("B"), Message("B", "bad"), Bare("H")>>,
                <<Bare("E"), Bare("H")>>,
                <<Bare("X")>>}
============================================================================
