CONSTANTS
    Nobody = Nobody
    NoFact = NoFact
    w1 = w1
    a = a
    b = b
    Workers = {w1}
    Operators = {}
    Slots = {0}
    Fact = {a, b}
    Chunks <- NoChunks
    Forced = FALSE
    Skew <- NoSkew
    Faults = {"checkpoint", "crash", "fetch", "transaction", "record"}
    Horizon = 3
    CalmAfter = 1
    MaxFaults = 2
    Cadence = 1
    Overlap = 1
    InitialLookback = 1
    MaxLookback = 2
    ReconcileEvery = 2
    ReconcileLookback = 3
SPECIFICATION FairSpec
PROPERTIES
    EventuallyReconciled
