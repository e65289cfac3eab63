CONSTANTS
    Nobody = Nobody
    NoFact = NoFact
    Partial = Partial
    calm = calm
    hot = hot
    hotter = hotter
    share = share
    leader = leader
    Workers = {w1}
    Stateful = {share}
    Momentary = {leader}
    Value = {calm, hot, hotter}
    Active <- TwoRules
    Bucket = 1
    MaxAge = 1
    Lifetime <- OneInstant
    Limit = 1
    Faults = {"crash", "pass", "session"}
    Horizon = 4
    CalmAfter = 2
    MaxFaults = 1
    MaxReadings = 3
SPECIFICATION FairSpec
INVARIANTS
    NoStaleOpening
PROPERTIES
    EventsEnd
