\* Every kind of frame, two in a row, with deadlines, failing writes, Server.Close
\* and a FIFO; a drain that two frames fill.
SPECIFICATION Spec
CONSTANTS
    p1 = p1
    pBad = pBad
    i1 = i1
    i2 = i2
    Malformed = Malformed
    None = None
    Paths = {p1, pBad}
    BadPaths = {pBad}
    Unbuildable = {}
    Inodes = {i1}
    MaxPayload = 2
    MaxStreamID = 3
    Window = 2
    MaxDrain = 1
    Faults = {"timeout", "write", "drop", "fifo"}
    MaxSize = 3
    MaxFsOps = 0
    PeerFrames <- EveryKind
    MaxPeerFrames = 2
INVARIANTS
    EndsOnce
    AnsweredInOrder
    HandlerInv
PROPERTIES
    ErrorNeverAnswered
    HandlerEnds
