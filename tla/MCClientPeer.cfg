\* Every kind of frame, whole, partial, mixed-up and mislabelled answers, failing
\* writes and a failing body writer; more requests than stream ids.
SPECIFICATION Spec
CONSTANTS
    p1 = p1
    pLong = pLong
    i1 = i1
    Malformed = Malformed
    None = None
    Paths = {p1, pLong}
    BadPaths = {}
    Unbuildable = {pLong}
    Inodes = {i1}
    MaxPayload = 2
    MaxStreamID = 2
    Window = 2
    MaxDrain = 1
    Faults = {"write", "io"}
    MaxGets = 3
    PeerFrames <- AnyAnswer
    MaxPeerFrames = 3
INVARIANTS
    TypeOK
    BrokenForGood
    OnlyWholeAnswers
    IdsOnlyGrow
    ReportSurvives
PROPERTY
    SilentAfterError
