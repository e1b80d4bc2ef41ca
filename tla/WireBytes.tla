------------------------------ MODULE WireBytes ------------------------------
(***************************************************************************)
(* Frames as they lie on the wire.  A stream is a sequence of cells; each    *)
(* field of the frame header takes one cell (length, type, flags, stream),   *)
(* so a header is HeaderSize cells and can be cut anywhere, and each byte of *)
(* payload takes one cell.  Cells are numbers and carry no mark of what they *)
(* are: only counting tells a header from a payload, as in the code.         *)
(***************************************************************************)
EXTENDS Integers, Sequences, SequencesExt

CONSTANT MaxPayload     \* frame.MaxPayload

ASSUME WireAssumption == MaxPayload \in Nat \ {0}

HeaderSize == 4

\* Type.known and Type.needsStream: REQUEST, RESPONSE, DATA and ERROR are 1 to 4.
Known(type) == type \in 1..4
NeedsStreamID(type) == type \in 1..3

\* frame.Encode, for a frame it agrees to build.
Encode(type, flags, stream, payload) ==
    <<Len(payload), type, flags, stream>> \o payload

\* A frame from a header and a payload.
Decoded(hdr, payload) ==
    [type |-> hdr[2], flags |-> hdr[3], stream |-> hdr[4], payload |-> payload]

-----------------------------------------------------------------------------
(* The reference: what a whole stream means to a receiver, read from the     *)
(* wire format with the complete stream in hand.                             *)

\* Where the frame at i ends, if all of it is there.
FrameEnd(s, i) == i + HeaderSize + s[i] - 1

\* What is at i: the end of the stream, a part of a frame, a length nobody
\* accepts, or a whole frame.
At(s, i) ==
    IF i = Len(s) + 1 THEN "eof"
    ELSE IF i + HeaderSize - 1 > Len(s) THEN "truncated"
    ELSE IF s[i] > MaxPayload THEN "oversize"
    ELSE IF FrameEnd(s, i) > Len(s) THEN "truncated"
    ELSE "frame"

FrameAt(s, i) == SubSeq(s, i, FrameEnd(s, i))

\* The frames from i on, each as it lies on the wire, and what comes after the
\* last whole one.
Framings(s) ==
    LET from[i \in 1..(Len(s) + 1)] ==
        IF At(s, i) # "frame" THEN [frames |-> <<>>, ending |-> At(s, i)]
        ELSE [frames |-> <<FrameAt(s, i)>> \o from[FrameEnd(s, i) + 1].frames,
              ending |-> from[FrameEnd(s, i) + 1].ending]
    IN  from

Framing(s) == Framings(s)[1]

\* The frame at i as a receiver sees it, and whether it is one that must not be
\* on stream zero and is.
DecodedAt(s, i) ==
    Decoded(SubSeq(s, i, i + HeaderSize - 1), SubSeq(s, i + HeaderSize, FrameEnd(s, i)))
ZeroAt(s, i) == NeedsStreamID(s[i + 1]) /\ s[i + 3] = 0

\* What a receiver makes of s from i on: the frames of types it knows, up to the
\* first it refuses.
Readings(s) ==
    LET from[i \in 1..(Len(s) + 1)] ==
        IF At(s, i) # "frame" THEN [frames |-> <<>>, ending |-> At(s, i)]
        ELSE IF ZeroAt(s, i) THEN [frames |-> <<>>, ending |-> "streamzero"]
        ELSE IF ~Known(s[i + 1]) THEN from[FrameEnd(s, i) + 1]
        ELSE [frames |-> <<DecodedAt(s, i)>> \o from[FrameEnd(s, i) + 1].frames,
              ending |-> from[FrameEnd(s, i) + 1].ending]
    IN  from

Meaning(s) == Readings(s)[1]
=============================================================================
