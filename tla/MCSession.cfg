SPECIFICATION Spec
CONSTANTS
    u1 = u1  c1 = c1  c2 = c2
    Users <- OneUser
    Clients <- TwoClients
    Calls <- UserCalls
    ClientMsgs <- PipelineMsgs
    MaxBatch = 2
    Chunk = 16
    MayDie = FALSE
    Persistent = TRUE
SYMMETRY ClientSymmetry
INVARIANTS TypeOK BackendHasOneOwner AnswersOwnCall StatusToldIsCurrent
    OnlyCloseEndsBackend ClosedIsQuiet ClosedIsSaved
