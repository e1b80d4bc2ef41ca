\* Every stream of up to three frames of five kinds, or with one of four that are
\* refused among them, cut anywhere, and both directions at once, in every way
\* the bytes can be cut up.
SPECIFICATION Spec
CONSTANTS
    MaxPayload = 2
    RawPreview = 4
    Traffic <- MCTraffic
INVARIANTS
    ChunksDoNotMatter
    EveryByteReported
    PiecesDoNotMatter
    ShowsWhatIsRead
