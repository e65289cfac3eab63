CONSTANTS
    Nobody = Nobody
    NoFact = NoFact
    Partial = Partial
    calm = calm
    hot = hot
    hotter = hotter
    share = share
    leader = leader
    Workers = {w1}
    Stateful = {share}
    Momentary = {}
    Value = {calm, hot, hotter}
    Active <- OneRule
    Bucket = 2
    MaxAge = 1
    Lifetime <- OneInstant
    Limit = 2
    Faults = {}
    Horizon = 2
    CalmAfter = 2
    MaxFaults = 1
    MaxReadings = 3
SPECIFICATION Spec
PROPERTIES
    CorrectionsAppendVersions
