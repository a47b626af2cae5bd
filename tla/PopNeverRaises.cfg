SPECIFICATION Spec
CONSTANTS
    None = None
    Garbage = Garbage
    Sessions = {s1}
    StrongRsa = {rsa1}
    ShortRsa = {}
    OtherKeys = {}
    Malformed = {}
    Unsupported = {}
    MaxSent = 2
INVARIANT VerificationNeverRaises
CHECK_DEADLOCK FALSE
