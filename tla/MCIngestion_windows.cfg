CONSTANTS
    Nobody = Nobody
    NoFact = NoFact
    w1 = w1
    w2 = w2
    a = a
    Workers = {w1, w2}
    Operators = {}
    Slots = {}
    Fact = {a}
    Chunks <- NoChunks
    Forced = FALSE
    Skew <- OneAhead
    Faults = {"crash", "fetch"}
    Horizon = 4
    CalmAfter = 2
    MaxFaults = 1
    Cadence = 1
    Overlap = 1
    InitialLookback = 1
    MaxLookback = 3
    ReconcileEvery = 0
    ReconcileLookback = 2
SPECIFICATION Spec
INVARIANTS
    NoSilentGap
PROPERTIES
    WindowsAdvance
