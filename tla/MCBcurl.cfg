\* Every fault at once, files that change once; bcurl, or a program that calls
\* Get twice.
SPECIFICATION BcurlSpec
CONSTANTS
    p1 = p1
    pBad = pBad
    pLong = pLong
    i1 = i1
    Malformed = Malformed
    None = None
    Paths = {p1, pBad, pLong}
    BadPaths = {pBad}
    Unbuildable = {pLong}
    Inodes = {i1}
    MaxPayload = 1
    MaxStreamID = 2
    Window = 1
    MaxDrain = 2
    Faults = {"timeout", "write", "io", "drop", "fifo"}
    MaxGets = 2
    MaxSize = 2
    MaxFsOps = 1
INVARIANTS
    ExitTellsTruth
    BrokenForGood
PROPERTIES
    FetchesSafely
    BcurlEnds
    GetReturns
