CONSTANTS
    alice = alice
    Clients = {alice}
    primary = primary
    secondary = secondary
    framework = framework
    Verifiers = {primary, framework}
    Frameworks = {framework}
    Unreachable = Unreachable
    Payloads <- MorePayloads
    Faults <- SomeFaults
    MaxSessions = 1
    MaxRestarts = 0
SPECIFICATION Spec
INVARIANT EarNeverRaises
