SPECIFICATION Spec
CONSTANTS
    None = None
    Services = {simulator, provisioner}
    Checked = {simulator}
    RemoveVolumes = TRUE
    Timeout = 4
    PollInterval = 2
    PollMax = 1
INVARIANTS
    TimeoutMeansNotHealthy
CHECK_DEADLOCK FALSE
