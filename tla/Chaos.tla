-------------------------------- MODULE Chaos --------------------------------
(***************************************************************************)
(* bchaos and one connection it relays: the accept loop, the dial, the pump  *)
(* that carries the server's bytes to the client in small pieces with frames *)
(* of unknown types mixed in, the plain copy of the requests, and how relay  *)
(* ends both.                                                                *)
(***************************************************************************)
EXTENDS WireBytes

CONSTANTS
    Streams,    \* what the server may send before it hangs up
    NoiseOn,    \* Options.Noise
    Noises,     \* the frames inject may make up
    Chunk,      \* Options.Chunk: the largest piece, 0 for no limit
    MaxAsk      \* how many bytes the client sends at most (a bound of the model)

\* Cells are numbers; inject makes whole frames, of types nobody has assigned.
ASSUME ChaosAssumption ==
    /\ Streams \subseteq Seq(Nat)
    /\ Noises \subseteq Seq(Nat)
    /\ \A f \in Noises : At(f, 1) = "frame" /\ FrameEnd(f, 1) = Len(f) /\ ~Known(f[2])
    /\ NoiseOn \in BOOLEAN
    /\ Chunk \in Nat
    /\ MaxAsk \in Nat

VARIABLES
    in,        \* the bytes of the server
    taken,     \* how many the pump has read
    serve,     \* chaos.Serve: "start" before it, "accept" in its loop, or how
               \* run and Serve ended: "usage" (exit 2), "failed" (1), "closed" (0)
    pc,        \* where relay and pump.run are; "unserved" and "killed" are ends
               \* without a pump that has run to its own
    hdr,       \* the header it has read
    body,      \* the payload buffer it has filled
    pending,   \* what send has still to write
    out,       \* the bytes written to the client
    asked,     \* bytes the client has sent
    passed,    \* bytes of those written to the server
    hung,      \* who has hung up: "server", "client", or "fin" for a client that
               \* has only finished sending
    copying,   \* the request goroutine is still in io.Copy
    shut       \* what relay has closed: "client" and "server" for halfClose,
               \* "both" when it returned

pumpVars == <<taken, pc, hdr, body, pending, out>>
askVars == <<asked, passed, copying>>
vars == <<serve, in, pumpVars, askVars, hung, shut>>

Init ==
    /\ serve = "start"
    /\ in \in Streams
    /\ taken = 0 /\ pc = "backlog" /\ hdr = <<>> /\ body = <<>> /\ pending = <<>> /\ out = <<>>
    /\ asked = 0 /\ passed = 0 /\ copying = FALSE
    /\ hung = {} /\ shut = {}

Left == Len(in) - taken
AtEnd == "server" \in hung     \* after the bytes that are left comes the end

-----------------------------------------------------------------------------
(* run, Serve and the beginning of relay *)

All == {"client", "server", "both"}

\* The connection ends before the pump, or with the process.
Dies(how) == pc' = how /\ copying' = FALSE /\ shut' = All

\* run: the arguments are refused, the address cannot be listened on, or Serve
\* is called.
Start ==
    /\ serve = "start"
    /\ \/ serve' = "accept" /\ UNCHANGED <<pc, copying, shut>>
       \/ serve' \in {"usage", "failed"} /\ Dies("unserved")
    /\ UNCHANGED <<in, taken, hdr, body, pending, out, asked, passed, hung>>

Accept ==
    /\ serve = "accept" /\ pc = "backlog"
    /\ pc' = "dial"
    /\ UNCHANGED <<serve, in, taken, hdr, body, pending, out, askVars, hung, shut>>

\* Accept fails.  isClosed: the listener was closed by a caller of Serve, whose
\* relays go on; a connection nobody accepted goes with the listener.  After any
\* other error bchaos exits, and takes its relays with it.
ServeReturns ==
    /\ serve = "accept"
    /\ \/ /\ serve' = "closed"
          /\ IF pc = "backlog" THEN Dies("unserved") ELSE UNCHANGED <<pc, copying, shut>>
       \/ /\ serve' = "failed"
          /\ "both" \notin shut /\ Dies("killed")
    /\ UNCHANGED <<in, taken, hdr, body, pending, out, asked, passed, hung>>

\* net.DialTimeout; without a server the client is closed again.
DialServer ==
    /\ pc = "dial"
    /\ \/ pc' = "header" /\ copying' = TRUE /\ shut' = shut
       \/ Dies("unserved")
    /\ UNCHANGED <<serve, in, taken, hdr, body, pending, out, asked, passed, hung>>

-----------------------------------------------------------------------------
(* pump.run *)

\* io.ReadFull(server, hdr): a partial header is dropped.
ReadHeader ==
    /\ pc = "header"
    /\ IF Left >= HeaderSize
       THEN LET h == SubSeq(in, taken + 1, taken + HeaderSize) IN
            /\ taken' = taken + HeaderSize
            /\ hdr' = h
            /\ IF h[1] > MaxPayload
               THEN pc' = "sendhdr" /\ pending' = h
               ELSE pc' = "body" /\ pending' = pending
       ELSE /\ AtEnd
            /\ taken' = Len(in)
            /\ pc' = "stop"
            /\ UNCHANGED <<hdr, pending>>
    /\ UNCHANGED <<serve, in, body, out, askVars, hung, shut>>

\* io.ReadFull(server, body).  When the server stops inside the payload, the
\* whole buffer is sent all the same, with zeros where nothing arrived.
ReadBody ==
    /\ pc = "body"
    /\ LET n == hdr[1]
           k == IF Left < n THEN Left ELSE n
           b == SubSeq(in, taken + 1, taken + k) \o [j \in 1..(n - k) |-> 0]
       IN  /\ k < n => AtEnd
           /\ taken' = taken + k
           /\ body' = b
           /\ IF k < n
              THEN pc' = "last" /\ pending' = hdr \o b
              ELSE pc' = (IF NoiseOn THEN "noise" ELSE "frame") /\ pending' = pending
    /\ UNCHANGED <<serve, in, hdr, out, askVars, hung, shut>>

\* inject, before the frame or after the last frame of a stream.
Inject ==
    /\ pc \in {"noise", "noiseend"}
    /\ \E f \in Noises : pending' = f
    /\ pc' = IF pc = "noise" THEN "noisesend" ELSE "endsend"
    /\ UNCHANGED <<serve, in, taken, hdr, body, out, askVars, hung, shut>>

SendFrame ==
    /\ pc = "frame"
    /\ pending' = hdr \o body
    /\ pc' = "framesend"
    /\ UNCHANGED <<serve, in, taken, hdr, body, out, askVars, hung, shut>>

\* copyRaw: whatever comes, in pieces of any size, until the server stops.
CopyRaw ==
    /\ pc = "raw"
    /\ \/ \E k \in 1..Left :
            /\ pending' = SubSeq(in, taken + 1, taken + k)
            /\ taken' = taken + k
            /\ pc' = "rawsend"
       \/ Left = 0 /\ AtEnd /\ pc' = "stop" /\ UNCHANGED <<pending, taken>>
    /\ UNCHANGED <<serve, in, hdr, body, out, askVars, hung, shut>>

EndOfStream == hdr[3] % 2 = 1

\* Bug: the pump stops at the end of the first response.
AfterResponseStop == "stop"

AfterResponse == "header"

\* What run does once send has written everything.
AfterSend ==
    CASE pc = "sendhdr" -> "raw"
      [] pc = "rawsend" -> "raw"
      [] pc = "last" -> "stop"
      [] pc = "noisesend" -> "frame"
      [] pc = "framesend" -> IF NoiseOn /\ EndOfStream THEN "noiseend" ELSE "header"
      [] pc = "endsend" -> AfterResponse

Sending == pc \in {"sendhdr", "rawsend", "last", "noisesend", "framesend", "endsend"}

\* One turn of writeChunked.
WritePiece ==
    /\ Sending
    /\ \E n \in 1..Len(pending) :
        /\ IF Chunk > 0 THEN n <= Chunk ELSE n = Len(pending)
        /\ out' = out \o SubSeq(pending, 1, n)
        /\ pending' = SubSeq(pending, n + 1, Len(pending))
        /\ pc' = IF n = Len(pending) THEN AfterSend ELSE pc
    /\ UNCHANGED <<serve, in, taken, hdr, body, askVars, hung, shut>>

\* The client is gone: sooner or later a write fails and run returns.
WriteFails ==
    /\ Sending /\ "client" \in hung
    /\ pc' = "stop" /\ pending' = <<>>
    /\ UNCHANGED <<serve, in, taken, hdr, body, out, askVars, hung, shut>>

\* The goroutine half-closes the client's side when run has returned.
PumpDone ==
    /\ pc = "stop"
    /\ pc' = "done"
    /\ shut' = shut \cup {"client"}
    /\ UNCHANGED <<serve, in, taken, hdr, body, pending, out, askVars, hung>>

-----------------------------------------------------------------------------
(* The requests, and the end of relay. *)

Copy ==
    /\ copying /\ passed < asked
    /\ passed' = passed + 1
    /\ UNCHANGED <<serve, in, pumpVars, asked, copying, hung, shut>>

\* Bug: the server is not told that the client has finished.
CopyShutsNothing == {}

CopyShuts == {"server"}

\* io.Copy ends when the client has finished, when reading from it fails because
\* it is gone, or when the server is gone and writing to it fails; then the
\* server's side is half-closed.
CopyDone ==
    /\ copying
    /\ \/ "client" \in hung
       \/ "fin" \in hung /\ passed = asked
       \/ "server" \in hung /\ passed < asked
    /\ copying' = FALSE
    /\ shut' = shut \cup CopyShuts
    /\ UNCHANGED <<serve, in, pumpVars, asked, passed, hung>>

\* wg.Wait, then the deferred closes of both connections.
RelayReturns ==
    /\ pc = "done" /\ ~copying /\ "both" \notin shut
    /\ shut' = shut \cup {"both"}
    /\ UNCHANGED <<serve, in, pumpVars, askVars, hung>>

\* The client sends, finishes sending, and hangs up.
ClientAsks ==
    /\ serve # "start" /\ {"client", "fin"} \cap hung = {} /\ asked < MaxAsk
    /\ asked' = asked + 1
    /\ UNCHANGED <<serve, in, pumpVars, passed, copying, hung, shut>>

ClientEnds(how) ==
    /\ serve # "start" /\ how \notin hung
    /\ hung' = hung \cup {how}
    /\ UNCHANGED <<serve, in, pumpVars, askVars, shut>>

\* The server has sent all it will.
ServerHangsUp ==
    /\ pc \notin {"backlog", "dial"} /\ "server" \notin hung
    /\ hung' = hung \cup {"server"}
    /\ UNCHANGED <<serve, in, pumpVars, askVars, shut>>

\* The steps of relay's pump that do not wait for the client to make room.
PumpAlone ==
    \/ Accept \/ DialServer
    \/ ReadHeader \/ ReadBody \/ Inject \/ SendFrame \/ CopyRaw
    \/ WriteFails \/ PumpDone

Finished == "both" \in shut /\ UNCHANGED vars

Next ==
    \/ Start \/ ServeReturns
    \/ PumpAlone \/ WritePiece \/ Copy \/ CopyDone \/ RelayReturns
    \/ ClientAsks \/ ClientEnds("fin") \/ ClientEnds("client") \/ ServerHangsUp
    \/ Finished

\* The goroutines of relay run; the server takes its requests, and hangs up in the
\* end once its peer has finished sending, as bserve does.  Nothing is assumed of
\* the client, which may stop reading: writes towards it carry no deadline, so no
\* fairness is assumed of WritePiece.
Spec ==
    /\ Init /\ [][Next]_vars
    /\ WF_vars(PumpAlone) /\ WF_vars(Copy \/ CopyDone) /\ WF_vars(RelayReturns)
    /\ WF_vars("server" \in shut /\ ServerHangsUp)

-----------------------------------------------------------------------------
(* Properties. *)

\* No stream ends inside a frame before a receiver has given it up.
Tidy == \A s \in Streams : Meaning(s).ending # "truncated"

\* A client that frames correctly sees through the proxy what it would have seen
\* without it, however small the pieces and whatever is mixed in: the same frames
\* on the way, and the same ending.
SameMeaning ==
    /\ IsPrefix(Meaning(out).frames, Meaning(in).frames)
    /\ pc = "done" /\ "client" \notin hung => Meaning(out) = Meaning(in)

\* A stream that was cut short never looks complete: the client gets no more
\* whole frames than the server sent.
TruncationShows == Len(Meaning(out).frames) <= Len(Meaning(in).frames)

\* A client that is gone ends the relay, wherever the pump is, and with it both
\* connections: no goroutine of relay is left behind.
RelayEnds == "client" \in hung ~> "both" \in shut
=============================================================================
