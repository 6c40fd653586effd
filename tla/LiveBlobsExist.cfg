CONSTANTS
    None = None
    empty = empty
    long = long
    picture = picture
    MaxRequests = 3
    Paths = {p1, p2}
    Texts = {empty, long}
    Binaries = {picture}
    ChunkCount <- MCChunkCount
SPECIFICATION Spec
INVARIANT LiveBlobsExist
CHECK_DEADLOCK FALSE
