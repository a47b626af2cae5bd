SPECIFICATION FairSpec
CONSTANTS
    a = a  b = b  v1 = v1  v2 = v2  n1 = n1  n2 = n2
    o1 = o1  o2 = o2  u1 = u1  u2 = u2  None = None
    Callers = {c1, c2}
    Names = {a, b}
    Verifiers = {v1, v2}
    Nonces = {n1}
    Oids = {o1, o2}
    Urls = {u1, u2}
    Registrations <- MCMovingRegistrations
    Requests <- MCFewRequests
    Bundles <- MCFewBundles
    Repeating = {}
    AllowUrls = FALSE
    AllowedUrls = {}
    TTL = 2
INVARIANTS
    OneVerdictPerChallenge
PROPERTIES
    ImplementsLedger
    CallsReturn
    NoncesLeaveUnderTraffic
