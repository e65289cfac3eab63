CONSTANTS
    Nobody = Nobody
    Ingester = Ingester
    m = m
    u = u
    v = v
    chunk1 = chunk1
    chunk2 = chunk2
    target = target
    Materializers = {m}
    Verifiers = {u, v}
    Forced = {u}
    Sources = {1, 2}
    Keys = {chunk1, chunk2, target}
    Cells = {chunk1, chunk2, target}
    Tasks <- MCTasks
    Faults = {"step", "record", "session", "crash"}
    MaxFaults = 1
    MaxVersion = 1
SPECIFICATION FairSpec
INVARIANTS
    CoherentInputs
    DerivedInOrder
    SuccessIsStored
PROPERTIES
    SuccessKept
    JobsEnd
