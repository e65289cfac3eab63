CONSTANTS
    Tables = {"incidents"}
    Refs = {1, 2, 3}
    Periods = {1, 2}
    PageSize = 1
    MaxRecords = 3
    Limit = 2
    MaxChanges = 2
    MaxStores = 2
SPECIFICATION Spec
INVARIANTS
    CountsCohere
