SPECIFICATION StartUpSpec
CONSTANTS
    Databases = {"prepared"}
    MaxCrashes = 0
PROPERTY
    EventuallyServes
CHECK_DEADLOCK FALSE
