CONSTANTS
    Policies = {"ask"}
    Clients = {"a", "b"}
    PerClient <- TwoEach
    GlobalLimit <- ThreeInAll
    Window = 3
    TicksPerSecond = 2
    MaxKeys = 1
    MaxTime = 6
    Loads = {1, 2}
    Requests = {"p", "q"}
    Contents = {"x", "y"}
    Subjects = {"s", "t"}
    ReminderTime = 3
    Calls = {1, 2}
    Askers = {1}
    Facts = {"x", "y"}
    Numbers = {"n", "m"}
    Observations <- ThreeObservations
    DailyLimit = 2
    MaxRounds = 3
    MaxToolCalls = 2
    MaxPerRound = 2
    MaxVersions = 2
    Registries = {{"f"}, {"f", "n"}}
    Feeds = {"f", "n"}
    Flows <- OutAndIn
    Band = 50
    Target = 1
    Reach = 1
    MaxReadings = 2
    GameTime = 2
    PerSlot = 2
    MaxAge = 2
    Lookback = 3
    DefaultHorizon = 3
    MaxHorizon = 4
    Durations = {1, 2}
    Absolute = 5
    Percent = 5
    LastSlot = 3
    PlanTime = 3
    MaxCaptures = 2
    Remit = {"r"}
    Warnings = {"w"}
    FreshFor = 1
    Horizon = 1
    Cap = 1
    ReadTime = 2
    MaxRevisions = 2
    MaxNotices = 2
    Fuels = {"wind", "gas"}
    Ties = {"c"}
    Clock = {13, 16, 24}
    Start = 12
    MaxDeliveries = 2
    Resolution = 2
    MaterialGap = 3
    Readers = {"r", "q"}
    Metered = {1}
    Generic = {"farm"}
    TTL = 2
    Intervals = {1}
    MaxAsked = 3
    MaxChanges = 1
    MaxRows = 2
    Basis = {"issued", "captured"}
    Valids = {2, 3}
    Last = 4
    MinSamples = 2
    MinCoverage = 90
    MaxInput = 3
    MaxEvidence = 3
    MaxComputed = 2
    Cadence = {0, 2}
    HistoryCoverage = 60
    PerDay = 2
    DaysBefore = 3
    Week = 2
    ChunkDays = 2
    FirstDay = 5
    MaxLate = 2
SPECIFICATION SurfaceSpec
INVARIANTS
    ShownIsAsked
    NoStuckFlag
    ConfirmedIsServed
    RemindersAgree
    LimitsHold
    ExplanationMatches
    AnswerGrounded
    VerdictFair
    PlanIsBest
    NoticesCurrent
    SnapshotHonest
    TimelineExact
    MapHonest
    HistoryExact
PROPERTIES
    ScoreHonest
CHECK_DEADLOCK FALSE
