CONSTANTS
    i = i
    j = j
    Ident = {i, j}
    a = a
    b = b
    c = c
    Fact = {a, b, c}
    NoFact = NoFact
    d = d
    Delivery = {d}
    MaxRev = 2
    Event = {"remit", "warning"}
    Key = {1, 2}
    Time = {1, 2}
    Ended = {"resolved"}
    Lively = {"active"}
    MaxPublications = 4
    Tables = {"incidents", "bm_units", "repd", "notifications"}
    Refs = {1, 2, 3}
    Periods = {1, 2}
    PageSize = 1
    MaxRecords = 3
    Limit = 2
    MaxChanges = 2
    MaxStores = 2
    Source = {"s"}
    Content = {"x", "y", "z"}
    BatchSize = 1
    MaxBatches = 1
    MaxFaults = 1
    MaxAttempts = 3
    BaseDelay = 1
    MaxDelay = 3
    RetryAfter = {1000, 9}
    Feeds = {"generation", "flows", "demand", "frequency", "demandForecast", "windForecast", "warnings", "remit", "carbon", "carbonForecast", "carbonHistory", "london", "incidents"}
    Links = {"link"}
    From = 1
    Until = 3
    DayPeriods = 50
    DetailsSize = 2
    MaxMoves = 1
    Snapshots = {"units", "notifications", "settled", "sites"}
    Length = 2
    LastPeriod = 2
    MaxHeld = 3
    MaxSize = 5
    MaxPolls = 2
SPECIFICATION StoresSpec
INVARIANTS
    Contiguous
    ChainValid
    CurrentIsNewest
    FeedHonest
PROPERTIES
    EndNotMissed
    BacklogDrains
    SnapshotsWhole
CHECK_DEADLOCK FALSE
