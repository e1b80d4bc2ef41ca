\* Changing files on a connection without faults.
SPECIFICATION Spec
CONSTANTS
    p1 = p1
    pBad = pBad
    pLong = pLong
    i1 = i1
    i2 = i2
    Malformed = Malformed
    None = None
    Paths = {p1}
    BadPaths = {}
    Unbuildable = {}
    Inodes = {i1, i2}
    MaxPayload = 1
    MaxStreamID = 2
    Window = 1
    MaxDrain = 2
    Faults = {}
    MaxGets = 2
    MaxSize = 2
    MaxFsOps = 2
INVARIANTS
    FailureExplained
PROPERTIES
    ImplementsFetch
    ServerLetsGo
