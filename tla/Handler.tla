------------------------------ MODULE Handler -------------------------------
(***************************************************************************)
(* What the connection handler promises about its output, whoever is at the *)
(* other end, and the invariant by which it keeps these promises.           *)
(***************************************************************************)
EXTENDS ServerConn, SequencesExt

Out == wire["client"]   \* what the handler has sent

\* Types of the transport and the handler; a file is held whenever bytes of it
\* are still to be sent, only a FIFO blocks, and a full drain is over.
HandlerType ==
    /\ TransportType
    /\ ServerType
    /\ spc \in {"stat", "body"} \/ file.size > 0 => file.ino \in Inodes
    /\ file.off <= file.size
    /\ spc \in {"stat", "blocked"} => file.size = 0
    /\ spc = "blocked" => file.ino = None /\ "fifo" \in Faults
    /\ drained = MaxDrain => spc \in {"close", "done"}

\* A frame that was cut short or an ERROR frame is the last thing the server
\* ever puts on a connection (onServeError, fail, write).
Final(f) == f.shape # "whole" \/ f.type = "ERROR"
WellEnded(s) == \A i \in 1..Len(s) : Final(s[i]) => i = Len(s)

EndsOnce == WellEnded(Out)

\* Whatever the peer pipelines and however the file changes, responses are
\* never interleaved: after a frame without END_STREAM comes DATA of the same
\* stream or an ERROR, after END_STREAM a RESPONSE or an ERROR.
Continues(f, g) ==
    \/ g.type = "ERROR"
    \/ "END_STREAM" \in f.flags /\ g.type = "RESPONSE"
    \/ "END_STREAM" \notin f.flags /\ g.type = "DATA" /\ g.stream = f.stream

Sequential(s) ==
    \A i \in 1..Len(s) :
        IF i = 1 THEN s[i].type \in {"RESPONSE", "ERROR"} ELSE Continues(s[i - 1], s[i])

NeverInterleaved == Sequential(Out)

\* Frame j opens the response that the frames up to i belong to.
Opens(s, j, i) ==
    /\ s[j].type = "RESPONSE"
    /\ \A k \in (j + 1)..i : s[k].type = "DATA"

\* The bytes of a DATA frame follow on from those of the frame before it.
Contiguous(prev, f) ==
    /\ Len(f.data) > 0
    /\ \A k \in 1..Len(f.data) :
        f.data[k] = <<f.data[1][1], f.data[1][2] + k - 1>>
    /\ IF prev.type = "RESPONSE"
       THEN f.data[1][2] = 1
       ELSE f.data[1] = <<Last(prev.data)[1], Last(prev.data)[2] + 1>>

\* The bytes reach the length the response announced with END_STREAM, and not
\* before.
Promised(resp, f) ==
    /\ Last(f.data)[2] <= resp.lengths[1]
    /\ "END_STREAM" \in f.flags <=> Last(f.data)[2] = resp.lengths[1]

Honest(s) ==
    \A i \in 1..Len(s) : s[i].type = "DATA" =>
        \E j \in 1..(i - 1) :
            Opens(s, j, i) /\ Contiguous(s[i - 1], s[i]) /\ Promised(s[j], s[i])

\* Body bytes are the bytes of one file in order without gap or repeat, and the
\* frame with END_STREAM, and no other, ends at the announced length.  So a
\* response that looks complete is complete, even when the file was replaced,
\* grew or shrank while it was sent (sendFile).
BodyAsAnnounced == Honest(Out)

\* Why the handler keeps these promises.  Between two exchanges the last frame
\* sent carries END_STREAM; in the middle of a body, the frames since the last
\* RESPONSE are DATA and reach exactly as far as the handler has come.
AtBoundary == Len(Out) > 0 => "END_STREAM" \in Out[Len(Out)].flags

MidBody(off) ==
    /\ Len(Out) > 0
    /\ "END_STREAM" \notin Out[Len(Out)].flags
    /\ Out[Len(Out)].stream = file.stream
    /\ \E j \in 1..Len(Out) :
        /\ Opens(Out, j, Len(Out))
        /\ Out[j].lengths[1] = file.size
        /\ IF j = Len(Out) THEN off = 0
           ELSE /\ Len(Out[Len(Out)].data) > 0
                /\ Last(Out[Len(Out)].data) = <<file.ino, off>>

\* The reply the handler is about to write fits what has been sent.
ResponseReady ==
    /\ reply.type = "RESPONSE"
    /\ AtBoundary
    /\ reply.flags = IF file.size = 0 THEN EndStream ELSE {}
    /\ file.size > 0 =>
        reply.stream = file.stream /\ file.off = 0 /\ reply.lengths[1] = file.size

DataReady ==
    LET n == Len(reply.data) IN
    /\ reply.type = "DATA"
    /\ reply.stream = file.stream
    /\ reply.flags = IF file.off = file.size THEN EndStream ELSE {}
    /\ n > 0 /\ n <= file.off
    /\ \A k \in 1..n : reply.data[k] = <<file.ino, file.off - n + k>>
    /\ MidBody(file.off - n)

\* The inductive invariant behind EndsOnce, NeverInterleaved and
\* BodyAsAnnounced.  What follows a lost connection does not matter, because
\* nothing is sent any more.
HandlerInv ==
    /\ EndsOnce /\ NeverInterleaved /\ BodyAsAnnounced
    /\ Len(Out) > 0 /\ Final(Out[Len(Out)]) =>
        spc \in {"drain", "close", "done"} \/ closed["server"]
    /\ reply.shape = "whole"
    /\ spc = "read" => file.size = 0
    /\ spc = "body" => file.off < file.size
    /\ ~closed["client"] /\ ~closed["server"] =>
        /\ spc \in {"read", "blocked", "stat"} => AtBoundary
        /\ spc = "body" => MidBody(file.off)
        /\ spc = "send" => reply.type = "ERROR" \/ ResponseReady \/ DataReady
=============================================================================
