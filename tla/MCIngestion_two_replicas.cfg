CONSTANTS
    Nobody = Nobody
    NoFact = NoFact
    w1 = w1
    w2 = w2
    a = a
    b = b
    Workers = {w1, w2}
    Operators = {}
    Slots = {0}
    Fact = {a, b}
    Chunks <- NoChunks
    Forced = FALSE
    Skew <- NoSkew
    Faults = {"session", "crash", "fetch", "record"}
    Horizon = 2
    CalmAfter = 1
    MaxFaults = 2
    Cadence = 1
    Overlap = 1
    InitialLookback = 1
    MaxLookback = 2
    ReconcileEvery = 0
    ReconcileLookback = 2
SPECIFICATION FairSpec
INVARIANTS
    NoRevisionConflict
PROPERTIES
    LedgerSpec
    PollingContinues
