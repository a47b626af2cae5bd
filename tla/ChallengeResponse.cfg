SPECIFICATION FairSpec
CONSTANTS
    o1 = o1  o2 = o2  n1 = n1  s1 = s1  s2 = s2  None = None  Empty = Empty
    Oids = {o1, o2}
    Nonces = {n1}
    Sessions = {s1, s2}
    MaxRequests = 3
    Providers <- MCProviders
    Registrations <- MCRegistrations
    ApiCalls <- MCApiCalls
    Items <- MCItems
    CmpLists <- MCCmpLists
CONSTRAINT Focus
INVARIANTS
    TypeOK
    ResponsesAreEarned
PROPERTIES
    AllProvidersAnswer
    CmpEvidenceIsParallel
    DeletedSessionsRest
    CallsEnd
