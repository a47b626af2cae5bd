SPECIFICATION FairSpec
CONSTANTS
    None = None
    Services = {simulator, provisioner}
    Checked = {simulator}
    RemoveVolumes = TRUE
    Timeout = 4
    PollInterval = 2
    PollMax = 1
INVARIANTS
    TypeOK
    CleanExit
    HealthyReturnIsFresh
    SteadyHealthIsNoticed
    WaitIsBounded
PROPERTIES
    CallsEnd
CHECK_DEADLOCK FALSE
