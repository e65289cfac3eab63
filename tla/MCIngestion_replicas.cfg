CONSTANTS
    Nobody = Nobody
    NoFact = NoFact
    w1 = w1
    o1 = o1
    a = a
    b = b
    Workers = {w1}
    Operators = {o1}
    Slots = {0}
    Fact = {a, b}
    Chunks <- TwoChunks
    Forced = FALSE
    Skew <- NoSkew
    Faults = {"checkpoint", "crash", "fetch", "transaction", "record"}
    Horizon = 2
    CalmAfter = 1
    MaxFaults = 1
    Cadence = 1
    Overlap = 1
    InitialLookback = 1
    MaxLookback = 2
    ReconcileEvery = 2
    ReconcileLookback = 2
SYMMETRY Symmetry
SPECIFICATION Spec
INVARIANTS
    TypeOK
    SuccessMeansStored
    RevisionOrder
