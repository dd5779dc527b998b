SPECIFICATION FairSpec
CONSTANTS
    u1 = u1  c1 = c1  c2 = c2
    Users <- OneUser
    Clients <- TwoClients
    Calls <- FewCalls
    ClientMsgs <- FewMsgs
    MaxBatch = 0
    Chunk = 16
    MayDie = FALSE
    Persistent = TRUE
PROPERTIES
    HandshakeNeverWaits
    EveryCallerIsServed
