----------------------------- MODULE ServerConn -----------------------------
(***************************************************************************)
(* One connection of bserve: Server.handle and everything it calls, over    *)
(* the file system below the document root.  The handler is one goroutine;  *)
(* it interleaves with the peer, with whoever changes the files, and with   *)
(* Server.Close, which closes the connection under it.                      *)
(***************************************************************************)
EXTENDS Transport

CONSTANTS
    MaxSize,    \* longest file, in bytes
    MaxFsOps    \* how often the files may change (a bound of the model)

ASSUME ServerAssumption ==
    /\ MaxSize \in Nat
    /\ MaxFsOps \in Nat

VARIABLES
    fs,       \* fs[p]: the regular file path p names, or None
    flen,     \* flen[i]: current length of file i
    fsOps,    \* changes made to the files so far
    spc,      \* where the handler is
    reply,    \* the frame it is about to write
    file,     \* the file handle it holds
    drained   \* frames discarded by drain

fsVars == <<fs, flen, fsOps>>
handlerVars == <<spc, reply, file, drained>>
serverVars == <<fs, flen, fsOps, spc, reply, file, drained>>

NoFile == [ino |-> None, stream |-> 0, size |-> 0, off |-> 0]

ServerType ==
    /\ fs \in [Paths -> Inodes \cup {None}]
    /\ flen \in [Inodes -> 0..MaxSize]
    /\ fsOps \in 0..MaxFsOps
    /\ spc \in {"read", "blocked", "stat", "body", "send", "drain", "close", "done"}
    /\ reply \in Frame
    /\ file \in [ino : Inodes \cup {None}, stream : 0..MaxStreamID,
                 size : Nat, off : Nat]
    /\ drained \in 0..MaxDrain

ServerInit ==
    /\ fs \in [Paths -> Inodes \cup {None}]
    /\ flen \in [Inodes -> 0..MaxSize]
    /\ fsOps = 0
    /\ spc = "read"
    /\ reply = Blank
    /\ file = NoFile
    /\ drained = 0

-----------------------------------------------------------------------------
(* Steps of the handler. *)

\* sendStatus: a response with no body ends its stream.
StatusFrame(id, status) == Response(id, status, 0, EndStream)

\* Go and write f (Server.write).
GoWrite(f) == spc' = "send" /\ reply' = f

\* The frame at the head of the input, if frame.Read returns verdict v for it.
SrvHead(v) ==
    /\ spc = "read"
    /\ Readable("server")
    /\ Verdict(NextFrame("server")) = v

\* frame.Read steps over a frame of an unknown type and reads on.
SrvSkip ==
    /\ SrvHead("skip")
    /\ Consume("server")
    /\ UNCHANGED <<serverVars, wire, fin, closed, rst>>

\* Bug: flags nobody defined are ignored.
RejectedLoosely(f) ==
    "END_STREAM" \notin f.flags \/ f.path = Malformed \/ f.path \in BadPaths

\* The flags are wrong, the payload does not decode, or checkPath refuses.
Rejected(f) ==
    f.flags # EndStream \/ f.path = Malformed \/ f.path \in BadPaths

\* serveRequest up to the point where the answer is known or a file is open:
\* the request is rejected, or the resolver misses, fails or opens.  What is no
\* regular file is a miss; when it is a FIFO, os.Open waits before that is found.
SrvServeRequest ==
    LET f == NextFrame("server") IN
    /\ SrvHead("frame") /\ f.type = "REQUEST"
    /\ Consume("server")
    /\ \/ /\ Rejected(f)
          /\ GoWrite(StatusFrame(f.stream, 400))
          /\ file' = file
       \/ /\ ~Rejected(f) /\ fs[f.path] = None
          /\ GoWrite(StatusFrame(f.stream, 404))
          /\ file' = file
       \/ /\ ~Rejected(f) /\ fs[f.path] = None /\ "fifo" \in Faults
          /\ file' = [NoFile EXCEPT !.stream = f.stream]
          /\ spc' = "blocked"
          /\ reply' = reply
       \/ /\ ~Rejected(f) /\ "io" \in Faults
          /\ GoWrite(StatusFrame(f.stream, 500))
          /\ file' = file
       \/ /\ ~Rejected(f) /\ fs[f.path] # None
          /\ file' = [NoFile EXCEPT !.ino = fs[f.path], !.stream = f.stream]
          /\ spc' = "stat"
          /\ reply' = reply
    /\ UNCHANGED <<fsVars, drained, wire, fin, closed, rst>>

\* The size comes from the open handle; sendFile announces it and ends the
\* stream at once when there is no body.
SrvStat ==
    LET size == flen[file.ino] IN
    /\ spc = "stat"
    /\ \/ /\ file' = [file EXCEPT !.size = size]
          /\ GoWrite(Response(file.stream, 200, size, IF size = 0 THEN EndStream ELSE {}))
       \/ /\ "io" \in Faults
          /\ file' = NoFile
          /\ GoWrite(StatusFrame(file.stream, 500))
    /\ UNCHANGED <<fsVars, drained, tcp>>

\* sendFile reads the next chunk with io.ReadFull.
ChunkSize == IF file.size - file.off < MaxPayload THEN file.size - file.off ELSE MaxPayload

SrvChunk ==
    LET n == ChunkSize
        bytes == [k \in 1..n |-> <<file.ino, file.off + k>>]
        last == file.off + n = file.size
    IN
    /\ spc = "body"
    /\ flen[file.ino] >= file.off + n
    /\ file' = [file EXCEPT !.off = @ + n]
    /\ GoWrite(Data(file.stream, bytes, IF last THEN EndStream ELSE {}))
    /\ UNCHANGED <<fsVars, drained, tcp>>

\* Bugs: a body that cannot be finished is ended cleanly; is not reported.
GiveUpClean == GoWrite(Data(file.stream, <<>>, EndStream))
GiveUpSilent == spc' = "close" /\ reply' = reply

\* onServeError: after a bodyError, fail reports a connection error.
GiveUp == GoWrite(Error(CodeProtocolError))

\* The file ended early, or could not be read.
SrvBodyError ==
    /\ spc = "body"
    /\ flen[file.ino] < file.off + ChunkSize \/ "io" \in Faults
    /\ file' = NoFile
    /\ GiveUp
    /\ UNCHANGED <<fsVars, drained, tcp>>

\* RESPONSE and DATA frames from a client are answered on their stream.
SrvUnexpected ==
    LET f == NextFrame("server") IN
    /\ SrvHead("frame") /\ f.type \in {"RESPONSE", "DATA"}
    /\ Consume("server")
    /\ GoWrite(StatusFrame(f.stream, 400))
    /\ UNCHANGED <<fsVars, file, drained, wire, fin, closed, rst>>

\* An ERROR frame ends the connection without a reply.
SrvPeerError ==
    /\ SrvHead("frame") /\ NextFrame("server").type = "ERROR"
    /\ Consume("server")
    /\ spc' = "close"
    /\ UNCHANGED <<fsVars, reply, file, drained, wire, fin, closed, rst>>

\* onReadError: stream zero.
SrvStreamZero ==
    /\ SrvHead("streamzero")
    /\ Consume("server")
    /\ GoWrite(Error(CodeInvalidStreamID))
    /\ UNCHANGED <<fsVars, file, drained, wire, fin, closed, rst>>

\* onReadError: a declared length above the limit, which is not answered when
\* the frame is itself an ERROR.
SrvOversize ==
    /\ SrvHead("oversize")
    /\ Consume("server")
    /\ IF Reported(NextFrame("server"))
       THEN GoWrite(Error(CodeFrameTooLarge))
       ELSE spc' = "close" /\ reply' = reply
    /\ UNCHANGED <<fsVars, file, drained, wire, fin, closed, rst>>

\* Bug: the end of input goes unnoticed.
SrvInputOverUnnoticed == closed["server"]

SrvInputOver == ReadEnds("server")

\* onReadError: end of input, truncation, reset, or the connection was closed
\* under the handler.  Nothing is sent.
SrvReadEnds ==
    /\ spc = "read"
    /\ SrvInputOver
    /\ spc' = "close"
    /\ UNCHANGED <<fsVars, reply, file, drained, tcp>>

\* Bug: reads carry no deadline.
SrvIdleForEver == FALSE

\* onReadError: the idle deadline passed before a whole frame was read.
SrvIdle ==
    /\ spc = "read" /\ "timeout" \in Faults
    /\ spc' = "close"
    /\ UNCHANGED <<fsVars, reply, file, drained, tcp>>

\* The frame goes out.  After an ERROR, drain half-closes; it reads from the
\* connection itself, so frames already in the handler's buffer are abandoned.
SrvWrite ==
    /\ spc = "send" /\ Encodable(reply)
    /\ Send("server", reply)
    /\ IF reply.type = "ERROR"
       THEN /\ spc' = "drain"
            /\ HalfClose("server")
            /\ \E k \in 0..InFlight("server") : pos' = [pos EXCEPT !["server"] = @ + k]
            /\ UNCHANGED file
       ELSE /\ spc' = IF file.off < file.size THEN "body" ELSE "read"
            /\ file' = IF file.off < file.size THEN file ELSE NoFile
            /\ UNCHANGED <<pos, fin>>
    /\ UNCHANGED <<fsVars, reply, drained, closed>>

\* Bug: the handler goes on after a failed write.
AfterFailedWriteOn == "read"

AfterFailedWrite == "close"

\* A failed write ends the handler, also inside fail: nothing more is sent.
SrvWriteFails ==
    /\ spc = "send"
    /\ SendFails("server", reply)
    /\ spc' = AfterFailedWrite
    /\ file' = NoFile
    /\ UNCHANGED <<fsVars, reply, drained, pos, fin, closed, rst>>

\* Bug: drain waits without reading.
SrvDrainIdle == FALSE

\* drain discards input up to a limit in size ...
SrvDrain ==
    /\ spc = "drain"
    /\ Readable("server") /\ ~closed["server"]
    /\ Consume("server")
    /\ drained' = drained + 1
    /\ spc' = IF DrainOver(drained + 1) THEN "close" ELSE "drain"
    /\ UNCHANGED <<fsVars, reply, file, wire, fin, closed, rst>>

\* Bug: nothing is drained after the half-close.
SrvDrainedAtOnce == TRUE

SrvDrained == InputEnds("server") \/ "timeout" \in Faults

\* ... and ends at the end of input, on an error, or after drainTime.
SrvDrainEnds ==
    /\ spc = "drain"
    /\ SrvDrained
    /\ spc' = "close"
    /\ UNCHANGED <<fsVars, reply, file, drained, tcp>>

\* The deferred conn.Close.
SrvClose ==
    /\ spc = "close"
    /\ spc' = "done"
    /\ CloseSocket("server")
    /\ UNCHANGED <<fsVars, reply, file, drained, wire, pos>>

ServerNext ==
    \/ SrvSkip \/ SrvServeRequest \/ SrvStat \/ SrvChunk \/ SrvBodyError
    \/ SrvUnexpected \/ SrvPeerError \/ SrvStreamZero \/ SrvOversize
    \/ SrvReadEnds \/ SrvIdle \/ SrvWrite \/ SrvWriteFails
    \/ SrvDrain \/ SrvDrainEnds \/ SrvClose

-----------------------------------------------------------------------------
(* What happens around the handler. *)

\* Server.Close closes the connection while the handler may be anywhere; a
\* write in progress is torn.
SrvDrop ==
    /\ "drop" \in Faults
    /\ spc # "done" /\ ~closed["server"]
    /\ CloseSocket("server")
    /\ \/ wire' = wire
       \/ /\ spc = "send" /\ ~fin["server"] /\ ~rst["server"] /\ ~closed["client"]
          /\ wire' = [wire EXCEPT !["client"] = Append(@, Cut(reply))]
    /\ UNCHANGED <<serverVars, pos>>

\* Somebody opens the other end of the FIFO that os.Open waits for; neither a
\* deadline nor Server.Close does.
FifoOpened ==
    /\ spc = "blocked"
    /\ \/ GoWrite(StatusFrame(file.stream, 404))
       \/ "io" \in Faults /\ GoWrite(StatusFrame(file.stream, 500))
    /\ file' = NoFile
    /\ UNCHANGED <<fsVars, drained, tcp>>

\* Somebody else changes the served tree: a path is removed, created or
\* replaced by another file, a file grows or shrinks.
FsChange ==
    /\ fsOps < MaxFsOps
    /\ fsOps' = fsOps + 1
    /\ \/ /\ \E p \in Paths, i \in Inodes \cup {None} : fs' = [fs EXCEPT ![p] = i]
          /\ UNCHANGED flen
       \/ /\ \E i \in Inodes, n \in 0..MaxSize : flen' = [flen EXCEPT ![i] = n]
          /\ UNCHANGED fs
    /\ UNCHANGED <<handlerVars, tcp>>
=============================================================================
