SPECIFICATION StartUpSpec
CONSTANTS
    Databases = {"untracked", "upgraded"}
    MaxCrashes = 3
INVARIANT
    RecordedIsApplied
PROPERTY
    EventuallyServes
CHECK_DEADLOCK FALSE
