\* Three connections, two goroutines that may call Close, one passing failure of
\* Accept; bserve with its signals, and any other program.
SPECIFICATION BserveSpec
CONSTANTS
    c1 = c1
    c2 = c2
    c3 = c3
    g1 = g1
    g2 = g2
    NoConn = NoConn
    Conns = {c1, c2, c3}
    Closers = {g1, g2}
    MaxHiccups = 1
    Watcher = g1
INVARIANTS
    TypeOK
    CloseWaitsForAll
    LifecycleInv
PROPERTIES
    NoAddDuringWait
    CloseEnds
    NothingLeaks
    ExitsOnSignal
