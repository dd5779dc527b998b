SPECIFICATION FairExecSpec
CONSTANTS
    Chunk = 3
    MayDie = TRUE
    Requests <- SmallRequests
INVARIANTS  WholeRequestTaken ReadyAfterSync
PROPERTIES ExecIsAtomic ExecReturns
