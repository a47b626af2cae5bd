SPECIFICATION Spec
CONSTANTS
    None = None
    Absent = Absent
    NotInt = NotInt
    Malformed = Malformed
    ValueError = ValueError
    Buffers <- MCBuffers
    Contents <- MCContents
    Lists <- MCLists
    HashAlgs <- MCHashAlgs
    PCR_INDEX_MAX = 1
    Clients = {c1, c2}
    Pcrs = {0, 1}
    MaxExtends = 1
    Retries = 2
INVARIANTS
    TypeOK
    ReadsInBounds
    ParsedIsEncoded
    ReadsAreOwn
    SelectionIsWanted
    AffirmedMatchesReference
CHECK_DEADLOCK FALSE
