SPECIFICATION Spec
CONSTANTS
    None = None
    Garbage = Garbage
    Sessions = {s1, s2}
    StrongRsa = {rsa1, rsa2}
    ShortRsa = {short}
    OtherKeys = {ec}
    Malformed = {malformed}
    Unsupported = {unsupported}
    MaxSent = 2
INVARIANTS
    TypeOK
    HonestProofsVerify
    EscapesNeedDamage
PROPERTIES
    ImplementsPossession
CHECK_DEADLOCK FALSE
