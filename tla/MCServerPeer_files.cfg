\* A pipelining peer and files that change, without deadlines: bodies are as
\* announced, reports survive and a reading peer is served.
SPECIFICATION SpecReader
CONSTANTS
    p1 = p1
    pBad = pBad
    i1 = i1
    i2 = i2
    Malformed = Malformed
    None = None
    Paths = {p1}
    BadPaths = {}
    Unbuildable = {}
    Inodes = {i1, i2}
    MaxPayload = 1
    MaxStreamID = 3
    Window = 1
    MaxDrain = 1
    Faults = {"io"}
    MaxSize = 2
    MaxFsOps = 1
    PeerFrames <- Provoking
    MaxPeerFrames = 3
INVARIANTS
    TypeOK
    HandlerReportSurvives
    BodyAsAnnounced
PROPERTIES
    ReaderIsServed
