\* Noise and pieces of one or two bytes.
SPECIFICATION Spec
CONSTANTS
    MaxPayload = 2
    Streams <- TidyStreams
    NoiseOn = TRUE
    Noises <- MadeUp
    Chunk = 2
    MaxAsk = 1
INVARIANTS
    SameMeaning
PROPERTIES
    RelayEnds
