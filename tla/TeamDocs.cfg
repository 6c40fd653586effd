CONSTANTS
    None = None
    empty = empty
    long = long
    picture = picture
    MaxRequests = 3
    Paths = {p1, p2}
    Texts = {long}
    Binaries = {picture}
    ChunkCount <- MCChunkCount
SPECIFICATION Spec
SYMMETRY Symmetry
VIEW View
INVARIANTS
    TypeOK
    OnePathOneDocument
    IndexIsFresh
    MapIsFresh
CHECK_DEADLOCK FALSE
