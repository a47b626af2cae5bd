CONSTANTS
    alice = alice
    Clients = {alice}
    primary = primary
    secondary = secondary
    framework = framework
    Verifiers = {primary, secondary, framework}
    Frameworks = {framework}
    Unreachable = Unreachable
    Payloads <- SomePayloads
    Faults <- SomeFaults
    MaxSessions = 2
    MaxRestarts = 1
SPECIFICATION Spec
INVARIANTS
    TypeOK
    HandlesNameTheirSession
    AcceptanceIsEarned
    EarnedIsAccepted
SYMMETRY Alike
