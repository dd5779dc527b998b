SPECIFICATION Spec
CONSTANTS
    Bits32 <- MCBits32
    Bits64 <- MCBits64
    Roots <- MCRoots
    BaseGlobals <- MCBaseGlobals
    SeedImport <- SeedName
    StackPointer <- SPName
    ThrewAddr <- MCThrewAddr
    Name <- MCName
    MinPages = 20
    MaxPages = 600
    ReservedTableSlots = 16
    DefaultMemoryBase = 0
    DefaultStackPointer = 5000
    DefaultHeapBase = 5001
    Operators <- MCOperators
    ShellOperators <- MCShellOperators
    Options <- MCOptions
    DataDir = "/data"
    SharedObjects <- MCSharedObjects
    Blob <- MCBlob
    Bits16 <- MCBits16
    IntLen <- MCIntLen
INVARIANTS
    ModuleSurvives
    LinkingKeepsMeaning
    OnlyGuardsAdded
    GuestFitsItsHost
    RequestArrives
    ReplyIsRead
    GuestIsTold
    CommandIsUnderstood
    BundleServesManifest
