----------------------------- MODULE FrameReader -----------------------------
(***************************************************************************)
(* frame.Read called again and again on the bufio.Reader of one connection,  *)
(* as the server's handler and the client do.  The buffer is filled when it  *)
(* is empty, with any number of the bytes that are there, and the connection *)
(* may fail at any such moment.                                              *)
(***************************************************************************)
EXTENDS WireBytes

VARIABLES
    input,    \* the bytes the peer sends before it hangs up
    filled,   \* how many of them have been read from the connection
    buffer,   \* those that are still in the bufio.Reader
    stage,    \* which io call frame.Read is in: "header", "payload", "discard"
    hdr,      \* the header read last
    part,     \* what io.ReadFull has so far
    want,     \* how many bytes the call wants; io.CopyN counts down
    got,      \* the frames returned so far
    ending    \* the error that ended the connection, "none" before

readerVars == <<input, filled, buffer, stage, hdr, part, want, got, ending>>

ReaderInit(s) ==
    /\ input = s
    /\ filled = 0 /\ buffer = <<>>
    /\ stage = "header" /\ hdr = <<>> /\ part = <<>> /\ want = HeaderSize
    /\ got = <<>> /\ ending = "none"

Coming == Len(input) - filled
Chunk(k) == SubSeq(input, filled + 1, filled + k)

\* The buffer is empty and the connection hands over k bytes.
Fill(k) ==
    /\ ending = "none" /\ buffer = <<>> /\ k <= Coming
    /\ buffer' = Chunk(k) /\ filled' = filled + k
    /\ UNCHANGED <<input, stage, hdr, part, want, got, ending>>

Call(s, n) == stage' = s /\ want' = n /\ part' = <<>>
Fails(why) == ending' = why /\ UNCHANGED <<stage, want, part, got>>

\* The payload is complete: stream zero is refused, anything else returned, and
\* the next call of Read starts.
Return(h, payload) ==
    IF NeedsStreamID(h[2]) /\ h[4] = 0
    THEN Fails("streamzero")
    ELSE got' = Append(got, Decoded(h, payload)) /\ Call("header", HeaderSize) /\ ending' = ending

\* Bug: unknown types are not held to the limit.
TooLongKnown(h) == Known(h[2]) /\ h[1] > MaxPayload

\* Checked before the type is looked at and before anything is allocated.
TooLong(h) == h[1] > MaxPayload

\* The header is complete.
HeaderRead(h) ==
    /\ hdr' = h
    /\ IF TooLong(h) THEN Fails("oversize")
       ELSE IF Known(h[2]) /\ h[1] = 0 THEN Return(h, <<>>)
       ELSE /\ CASE Known(h[2]) -> Call("payload", h[1])
                 [] ~Known(h[2]) /\ h[1] > 0 -> Call("discard", h[1])
                 [] OTHER -> Call("header", HeaderSize)
            /\ UNCHANGED <<got, ending>>

\* The call takes what it can from the buffer.
Take ==
    LET k == Min({Len(buffer), want - Len(part)})
        full == part \o SubSeq(buffer, 1, k)
    IN
    /\ ending = "none" /\ buffer # <<>>
    /\ buffer' = SubSeq(buffer, k + 1, Len(buffer))
    /\ CASE stage = "discard" ->
              /\ IF k = want THEN Call("header", HeaderSize) ELSE Call("discard", want - k)
              /\ UNCHANGED <<hdr, got, ending>>
         [] stage # "discard" /\ Len(full) < want ->
              part' = full /\ UNCHANGED <<stage, hdr, want, got, ending>>
         [] stage = "header" /\ Len(full) = want -> HeaderRead(full)
         [] stage = "payload" /\ Len(full) = want -> Return(hdr, full) /\ UNCHANGED hdr
    /\ UNCHANGED <<input, filled>>

\* Bug: an end right after a header passes for a clean one.
BetweenLoosely == part = <<>>

Between == stage = "header" /\ part = <<>>

\* The peer has hung up: clean between two frames, truncated inside one.
EndOfInput ==
    /\ ending = "none" /\ buffer = <<>> /\ Coming = 0
    /\ ending' = IF Between THEN "eof" ELSE "truncated"
    /\ UNCHANGED <<input, filled, buffer, stage, hdr, part, want, got>>

\* A deadline, a reset or a local close.
ReadError ==
    /\ ending = "none" /\ buffer = <<>>
    /\ ending' = "error"
    /\ UNCHANGED <<input, filled, buffer, stage, hdr, part, want, got>>
=============================================================================
