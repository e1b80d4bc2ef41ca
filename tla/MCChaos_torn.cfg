\* A server that stops inside a frame.
SPECIFICATION Spec
CONSTANTS
    MaxPayload = 2
    Streams <- TornStreams
    NoiseOn = FALSE
    Noises = {}
    Chunk = 0
    MaxAsk = 0
INVARIANTS
    TruncationShows
