SPECIFICATION Spec
CONSTANTS
    Items = {1, 2}
    SourceOf <- MCSourceOf
    KeyOf <- MCKeyOf
    Similar <- MCSimilar
    Passes = {"job", "manual"}
    Schedules <- MCSchedules
    Limit = 1
    None = None
    MaxFaults = 2
INVARIANTS
    TypeOK
    ClustersAreConsistent
PROPERTIES
    EveryItemIsClustered
