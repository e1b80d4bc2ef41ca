------------------------------- MODULE Wiretap -------------------------------
(***************************************************************************)
(* The connection of bcurl -v, byte by byte: the client reads frames through *)
(* a bufio.Reader and writes requests, and tappedConn shows the tap what     *)
(* every Read and Write moved before the program gets to see it.             *)
(***************************************************************************)
EXTENDS FrameReader, Tap

CONSTANT Traffic    \* what may cross: <<from the server, to the server>>

\* Cells are numbers.
ASSUME TrafficAssumption == Traffic \subseteq Seq(Nat) \X Seq(Nat)

VARIABLES
    output,   \* the frames the client writes
    written   \* how many of their bytes have been written

vars == <<readerVars, tapVars, output, written>>

Init ==
    /\ \E t \in Traffic : ReaderInit(t[1]) /\ output = t[2]
    /\ TapInit
    /\ written = 0

\* tappedConn.Read under the bufio.Reader.
TappedRead ==
    /\ ~flushed
    /\ \E k \in 1..Coming : Fill(k) /\ Feed("recv", Chunk(k))
    /\ UNCHANGED <<output, written>>

\* readFrame and expect answer these with an ERROR: stream zero, a length nobody
\* accepts unless an ERROR declares it, and a REQUEST.
Offends ==
    \/ ending \in {"streamzero", "refused"}
    \/ ending = "oversize" /\ hdr[2] # 4
    \/ ending = "none" /\ Between /\ got # <<>> /\ Last(got).type = 1

\* Then sendError drains the connection, past what is still in the buffer and
\* unseen by frame.Read; the tap is fed all the same.  How much it drains at
\* most is left out.
DrainRead ==
    /\ ~flushed /\ Offends
    /\ \E k \in 1..Coming : filled' = filled + k /\ Feed("recv", Chunk(k))
    /\ buffer' = <<>>
    /\ ending' = IF ending = "none" THEN "refused" ELSE ending
    /\ UNCHANGED <<input, stage, hdr, part, want, got, output, written>>

\* tappedConn.Write under writeAll, which writes on when a write was short.
TappedWrite ==
    /\ ~flushed
    /\ \E k \in 1..(Len(output) - written) :
        /\ Feed("sent", SubSeq(output, written + 1, written + k))
        /\ written' = written + k
    /\ UNCHANGED <<readerVars, output>>

\* Read has to return before the client can go on.
ReaderStep ==
    /\ ~flushed /\ feeding # "recv"
    /\ Take \/ EndOfInput \/ ReadError
    /\ UNCHANGED <<tapVars, output, written>>

TapStep == FeedLoop /\ UNCHANGED <<readerVars, output, written>>

\* bcurl's deferred Flush: Get has returned, between two frames or on an error.
FlushTap ==
    /\ ending # "none" \/ Between
    /\ Flush
    /\ UNCHANGED <<readerVars, output, written>>

Finished == flushed /\ UNCHANGED vars

Next == TappedRead \/ DrainRead \/ TappedWrite \/ TapStep \/ ReaderStep \/ FlushTap \/ Finished

Spec == Init /\ [][Next]_vars

-----------------------------------------------------------------------------
(* Properties. *)

\* However the bytes are split over reads of the connection, frame.Read returns
\* the frames of the stream, and the final error is the one it calls for; what
\* it waits for never exceeds what the protocol allows, whatever a peer declares.
ChunksDoNotMatter ==
    /\ IsPrefix(got, Meaning(input).frames)
    /\ ending \notin {"none", "error", "refused"} =>
        /\ got = Meaning(input).frames
        /\ ending = Meaning(input).ending
    /\ want \in 1..Max({HeaderSize, MaxPayload})

Crossed(d) == IF d = "recv" THEN SubSeq(input, 1, filled) ELSE SubSeq(output, 1, written)

\* Every byte that crossed is accounted for in its direction, in order: a report
\* starts where the one before it ended and shows those bytes, all of them or
\* the beginning of more than the preview holds; what no report is about is
\* held, and never more than a frame waits there.
EveryByteReported ==
    \A d \in Dirs :
        /\ \A j \in DOMAIN log[d] :
            LET r == log[d][j]
                about == SubSeq(Crossed(d), r.at + 1, r.at + r.count)
            IN  /\ r.at = IF j = 1 THEN 0 ELSE log[d][j - 1].at + log[d][j - 1].count
                /\ r.at + r.count <= Len(Crossed(d))
                /\ r.bytes = IF r.kind = "frame" THEN about ELSE Shown(about)
        /\ held[d] = SubSeq(Crossed(d), Told(d) + 1, Len(Crossed(d)))
        /\ feeding # d => Len(held[d]) < HeaderSize + MaxPayload

\* The split into frames does not depend on the pieces the bytes came in: once
\* feed has returned the reports of a direction are the frames that one look at
\* all its bytes gives, then those about bytes that are no frame, which there
\* are only after a length nobody accepts or at the end.
PiecesDoNotMatter ==
    \A d \in Dirs : feeding # d =>
        LET all == Framing(Crossed(d)) IN
        /\ Len(all.frames) <= Len(log[d])
        /\ \A j \in DOMAIN log[d] :
            IF j <= Len(all.frames)
            THEN log[d][j].kind = "frame" /\ log[d][j].bytes = all.frames[j]
            ELSE log[d][j].kind = "raw" /\ (broken[d] \/ flushed)
        /\ broken[d] <=> all.ending = "oversize"

\* The frames of known types among the first n reports, decoded, for every n.
Understood(reports) ==
    LET upto[n \in 0..Len(reports)] ==
        IF n = 0 THEN <<>>
        ELSE IF reports[n].kind = "frame" /\ Known(reports[n].bytes[2])
             THEN Append(upto[n - 1], DecodedAt(reports[n].bytes, 1))
             ELSE upto[n - 1]
    IN  upto

\* The endings after which the client does not go on reading frames.
Refusals == {"oversize", "streamzero", "refused"}

\* The tap and the client understand the same bytes in the same way: the frames
\* the client acts on have all been shown to the user before, and none that was
\* shown is missing once the client waits for more, unless it refused what came
\* and reads only to drain the connection.
ShowsWhatIsRead ==
    LET shown == Understood(log["recv"])[Len(log["recv"])] IN
    /\ IsPrefix(got, shown)
    /\ buffer = <<>> /\ ending \notin Refusals => got = shown
    /\ ending = "oversize" => broken["recv"]
    /\ broken["recv"] /\ buffer = <<>> => ending \in Refusals
=============================================================================
