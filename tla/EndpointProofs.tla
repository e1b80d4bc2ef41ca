--------------------------- MODULE EndpointProofs ---------------------------
(***************************************************************************)
(* Proofs about the two ends of a connection that hold whoever is at the     *)
(* other one.  First what sending, taking and closing do to a connection;    *)
(* then each step of the connection handler, and of what happens around it,  *)
(* keeps HandlerType and HandlerInv, for every payload limit, file size and  *)
(* set of files; last each invariant of Caller survives every step of the    *)
(* client and every step of a server that leaves the client's own state      *)
(* alone.                                                                    *)
(***************************************************************************)
EXTENDS Handler, Caller, TLAPS

-----------------------------------------------------------------------------
(* The frames both sides build are frames. *)

LEMMA BlankFrame == Blank \in Frame
BY FramesAssumption DEF Blank, Whole, Frame, KnownTypes

LEMMA ResponseFrame ==
    ASSUME NEW id \in 0..MaxStreamID, NEW status \in Nat, NEW n \in Nat,
           NEW flags \in SUBSET {"END_STREAM", "UNDEFINED"}
    PROVE  Response(id, status, n, flags) \in Frame
BY FramesAssumption DEF Response, Whole, Frame, KnownTypes

LEMMA DataFrame ==
    ASSUME NEW id \in 0..MaxStreamID, NEW bytes \in Seq(Byte),
           NEW flags \in SUBSET {"END_STREAM", "UNDEFINED"}
    PROVE  Data(id, bytes, flags) \in Frame
BY FramesAssumption DEF Data, Whole, Frame, KnownTypes

LEMMA ErrorFrame ==
    ASSUME NEW code \in Nat
    PROVE  Error(code) \in Frame
BY FramesAssumption DEF Error, Whole, Frame, KnownTypes

LEMMA CutFrame ==
    ASSUME NEW f \in Frame
    PROVE  Cut(f) \in Frame
BY DEF Cut, Frame

-----------------------------------------------------------------------------
(* Sending keeps the transport well typed. *)

LEMMA AppendFacts ==
    ASSUME NEW S, NEW s \in Seq(S), NEW x \in S
    PROVE  /\ Append(s, x) \in Seq(S)
           /\ Len(Append(s, x)) = Len(s) + 1
           /\ \A i \in 1..Len(s) : Append(s, x)[i] = s[i]
           /\ Append(s, x)[Len(s) + 1] = x
OBVIOUS

LEMMA AppendType ==
    ASSUME TransportType, NEW e \in Ends, NEW f \in Frame,
           wire' = [wire EXCEPT ![e] = Append(@, f)]
    PROVE  /\ wire' \in [Ends -> Seq(Frame)]
           /\ \A x \in Ends : Len(wire[x]) <= Len(wire'[x])
<1>1. wire \in [Ends -> Seq(Frame)]
    BY DEF TransportType
<1>2. /\ Append(wire[e], f) \in Seq(Frame)
      /\ Len(wire[e]) <= Len(Append(wire[e], f))
    BY <1>1, AppendFacts
<1>3. QED
    BY <1>1, <1>2

LEMMA SendType ==
    ASSUME TransportType, NEW e \in Ends, NEW f \in Frame, Send(e, f)
    PROVE  /\ wire' \in [Ends -> Seq(Frame)]
           /\ rst' \in [Ends -> BOOLEAN]
           /\ \A x \in Ends : Len(wire[x]) <= Len(wire'[x])
<1>1. Peer(e) \in Ends
    BY DEF Peer, Ends
<1>2. CASE closed[Peer(e)]
    <2>1. wire' = wire /\ rst' \in [Ends -> BOOLEAN]
        BY <1>2 DEF TransportType, Send
    <2>2. QED
        BY <2>1 DEF TransportType
<1>3. CASE ~closed[Peer(e)]
    BY <1>1, <1>3, AppendType DEF TransportType, Send
<1>4. QED
    BY <1>2, <1>3

LEMMA SendFailsType ==
    ASSUME TransportType, NEW e \in Ends, NEW f \in Frame, SendFails(e, f)
    PROVE  /\ wire' \in [Ends -> Seq(Frame)]
           /\ \A x \in Ends : Len(wire[x]) <= Len(wire'[x])
<1>1. Peer(e) \in Ends
    BY DEF Peer, Ends
<1>2. CASE wire' = wire
    BY <1>2 DEF TransportType
<1>3. CASE wire' = [wire EXCEPT ![Peer(e)] = Append(@, Cut(f))]
    BY <1>1, <1>3, CutFrame, AppendType
<1>4. QED
    BY <1>2, <1>3 DEF SendFails

LEMMA CloseType ==
    ASSUME TransportType, NEW e \in Ends, CloseSocket(e)
    PROVE  /\ closed' \in [Ends -> BOOLEAN]
           /\ fin' \in [Ends -> BOOLEAN]
           /\ rst' \in [Ends -> BOOLEAN]
BY DEF TransportType, CloseSocket, Peer, Ends

LEMMA ConsumeType ==
    ASSUME TransportType, NEW e \in Ends, Readable(e), Consume(e)
    PROVE  /\ pos' \in [Ends -> Nat]
           /\ \A x \in Ends : pos'[x] <= Len(wire[x])
           /\ NextFrame(e) \in Frame
BY DEF TransportType, Readable, Consume, NextFrame, Ends

-----------------------------------------------------------------------------
(* The same for whole steps. *)

LEMMA StartType == TransportInit => TransportType
BY DEF TransportInit, TransportType, Ends

LEMMA SendKeeps ==
    ASSUME TransportType, NEW e \in Ends, NEW f \in Frame, Send(e, f),
           UNCHANGED <<pos, fin, closed>>
    PROVE  TransportType'
<1>1. /\ wire' \in [Ends -> Seq(Frame)] /\ rst' \in [Ends -> BOOLEAN]
      /\ \A x \in Ends : Len(wire[x]) <= Len(wire'[x])
    BY SendType
<1>2. \A x \in Ends : pos[x] <= Len(wire'[x])
    BY <1>1 DEF TransportType
<1>3. QED
    BY <1>1, <1>2 DEF TransportType

LEMMA SendFailsKeeps ==
    ASSUME TransportType, NEW e \in Ends, NEW f \in Frame, SendFails(e, f),
           UNCHANGED <<pos, fin, closed, rst>>
    PROVE  TransportType'
<1>1. /\ wire' \in [Ends -> Seq(Frame)]
      /\ \A x \in Ends : Len(wire[x]) <= Len(wire'[x])
    BY SendFailsType
<1>2. \A x \in Ends : pos[x] <= Len(wire'[x])
    BY <1>1 DEF TransportType
<1>3. QED
    BY <1>1, <1>2 DEF TransportType

LEMMA ConsumeKeeps ==
    ASSUME TransportType, NEW e \in Ends, Readable(e), Consume(e),
           UNCHANGED <<wire, fin, closed, rst>>
    PROVE  TransportType' /\ NextFrame(e) \in Frame
<1>1. /\ pos' \in [Ends -> Nat]
      /\ \A x \in Ends : pos'[x] <= Len(wire[x])
      /\ NextFrame(e) \in Frame
    BY ConsumeType
<1>2. QED
    BY <1>1 DEF TransportType

LEMMA HalfCloseKeeps ==
    ASSUME TransportType, NEW e \in Ends, HalfClose(e), UNCHANGED <<wire, pos, closed, rst>>
    PROVE  TransportType'
<1>1. fin' \in [Ends -> BOOLEAN]
    BY DEF HalfClose, TransportType
<1>2. QED
    BY <1>1 DEF TransportType

LEMMA CloseKeeps ==
    ASSUME TransportType, NEW e \in Ends, CloseSocket(e), UNCHANGED <<wire, pos>>
    PROVE  TransportType'
<1>1. /\ closed' \in [Ends -> BOOLEAN]
      /\ fin' \in [Ends -> BOOLEAN]
      /\ rst' \in [Ends -> BOOLEAN]
    BY CloseType
<1>2. QED
    BY <1>1 DEF TransportType

\* Where a frame goes: to the end of the other side's input, or nowhere.
LEMMA SendWire ==
    ASSUME TransportType, NEW e \in Ends, NEW f \in Frame, Send(e, f)
    PROVE  /\ wire'[e] = wire[e]
           /\ \/ closed[Peer(e)] /\ wire' = wire
              \/ ~closed[Peer(e)] /\ wire'[Peer(e)] = Append(wire[Peer(e)], f)
<1>1. Peer(e) \in Ends /\ Peer(e) # e
    BY DEF Peer, Ends
<1>2. QED
    BY <1>1 DEF Send, TransportType

LEMMA SendFailsWire ==
    ASSUME TransportType, NEW e \in Ends, NEW f \in Frame, SendFails(e, f)
    PROVE  /\ wire'[e] = wire[e]
           /\ \/ wire' = wire
              \/ /\ ~closed[e] /\ ~closed[Peer(e)]
                 /\ wire'[Peer(e)] = Append(wire[Peer(e)], Cut(f))
<1>1. Peer(e) \in Ends /\ Peer(e) # e
    BY DEF Peer, Ends
<1>2. QED
    BY <1>1 DEF SendFails, TransportType

-----------------------------------------------------------------------------
(* Resets. *)

LEMMA ResetsSend ==
    ASSUME TransportType, ResetsFromClosed, NEW e \in Ends, NEW f, Send(e, f), closed' = closed
    PROVE  ResetsFromClosed'
BY DEF TransportType, ResetsFromClosed, Send, Peer, Ends

LEMMA ResetsClose ==
    ASSUME TransportType, ResetsFromClosed, NEW e \in Ends, CloseSocket(e)
    PROVE  ResetsFromClosed'
BY DEF TransportType, ResetsFromClosed, CloseSocket, Peer, Ends

LEMMA ResetsStay ==
    ASSUME ResetsFromClosed, UNCHANGED <<closed, rst>>
    PROVE  ResetsFromClosed'
BY DEF ResetsFromClosed

-----------------------------------------------------------------------------
(* The handler: type correctness. *)

\* A handler step that only takes a frame and decides what to do next.
LEMMA TakeType ==
    ASSUME HandlerType, NEW v, SrvHead(v), Consume("server"),
           spc' \in {"read", "send", "close"}, reply' \in Frame, file' = file,
           UNCHANGED <<fsVars, drained, wire, fin, closed, rst>>
    PROVE  HandlerType'
<1>1. /\ pos' \in [Ends -> Nat]
      /\ \A x \in Ends : pos'[x] <= Len(wire[x])
    BY ConsumeType DEF HandlerType, SrvHead, Ends
<1>2. TransportType'
    BY <1>1 DEF HandlerType, TransportType
<1>3. ServerType'
    BY DEF HandlerType, ServerType, fsVars
<1>4. QED
    BY <1>2, <1>3 DEF HandlerType, SrvHead, ServerType

\* A handler step that leaves the connection alone.
LEMMA LocalType ==
    ASSUME HandlerType, UNCHANGED <<fsVars, drained, tcp>>,
           ServerType', spc' = "send" \/ spc' = "close",
           drained = MaxDrain => spc' = "close",
           file'.size > 0 => file'.ino \in Inodes,
           file'.off <= file'.size
    PROVE  HandlerType'
<1>1. TransportType'
    BY DEF HandlerType, TransportType, tcp
<1>2. QED
    BY <1>1 DEF HandlerType, ServerType

LEMMA ServeRequestType ==
    ASSUME HandlerType, SrvServeRequest
    PROVE  HandlerType'
<1> DEFINE f == NextFrame("server")
<1>1. /\ pos' \in [Ends -> Nat]
      /\ \A x \in Ends : pos'[x] <= Len(wire[x])
      /\ f \in Frame
    BY ConsumeType DEF HandlerType, SrvServeRequest, SrvHead, Ends
<1>2. f.stream \in 0..MaxStreamID
    BY <1>1 DEF Frame
<1>3. CASE GoWrite(reply') /\ file' = file
           /\ \E st \in {400, 404, 500} : reply' = StatusFrame(f.stream, st)
    <2>1. reply' \in Frame
        BY <1>2, <1>3, ResponseFrame DEF StatusFrame, EndStream
    <2>2. QED
        BY <1>3, <2>1, TakeType DEF SrvServeRequest, GoWrite
<1>4. CASE /\ ~Rejected(f) /\ fs[f.path] # None
           /\ file' = [NoFile EXCEPT !.ino = fs[f.path], !.stream = f.stream]
           /\ spc' = "stat" /\ reply' = reply
    <2>1. f.path \in Paths
        BY <1>1, <1>4 DEF Rejected, Frame
    <2>2. fs[f.path] \in Inodes
        BY <1>4, <2>1 DEF HandlerType, ServerType
    <2>3. file' = [ino |-> fs[f.path], stream |-> f.stream, size |-> 0, off |-> 0]
        BY <1>4 DEF NoFile
    <2>4. /\ file' \in [ino : Inodes \cup {None}, stream : 0..MaxStreamID,
                       size : Nat, off : Nat]
          /\ file'.ino \in Inodes /\ file'.size = 0 /\ file'.off = 0
        BY <1>2, <2>2, <2>3
    <2>5. TransportType'
        BY <1>1 DEF HandlerType, TransportType, SrvServeRequest
    <2>6. UNCHANGED <<fs, flen, fsOps, drained>> /\ drained # MaxDrain
        BY DEF HandlerType, SrvServeRequest, SrvHead, fsVars
    <2>7. ServerType'
        BY <1>4, <2>4, <2>6 DEF HandlerType, ServerType
    <2>8. QED
        BY <1>4, <2>4, <2>5, <2>6, <2>7 DEF HandlerType
<1>5. CASE /\ "fifo" \in Faults
           /\ file' = [NoFile EXCEPT !.stream = f.stream]
           /\ spc' = "blocked" /\ reply' = reply
    <2>1. file' = [ino |-> None, stream |-> f.stream, size |-> 0, off |-> 0]
        BY <1>5 DEF NoFile
    <2>2. /\ file' \in [ino : Inodes \cup {None}, stream : 0..MaxStreamID,
                       size : Nat, off : Nat]
          /\ file'.ino = None /\ file'.size = 0 /\ file'.off = 0
        BY <1>2, <2>1
    <2>3. TransportType'
        BY <1>1 DEF HandlerType, TransportType, SrvServeRequest
    <2>4. UNCHANGED <<fs, flen, fsOps, drained>> /\ drained # MaxDrain
        BY DEF HandlerType, SrvServeRequest, SrvHead, fsVars
    <2>5. ServerType'
        BY <1>5, <2>2, <2>4 DEF HandlerType, ServerType
    <2>6. QED
        BY <1>5, <2>2, <2>3, <2>4, <2>5 DEF HandlerType
<1>6. QED
    BY <1>3, <1>4, <1>5 DEF SrvServeRequest, GoWrite

\* A FIFO has been opened: a status follows.
LEMMA FifoType ==
    ASSUME HandlerType, FifoOpened
    PROVE  HandlerType'
<1>1. file.stream \in 0..MaxStreamID /\ drained # MaxDrain
    BY DEF HandlerType, ServerType, FifoOpened
<1>2. \E st \in {404, 500} : GoWrite(StatusFrame(file.stream, st))
    BY DEF FifoOpened
<1>3. reply' \in Frame /\ spc' = "send"
    BY <1>1, <1>2, ResponseFrame DEF GoWrite, StatusFrame, EndStream
<1>4. /\ file' \in [ino : Inodes \cup {None}, stream : 0..MaxStreamID,
                   size : Nat, off : Nat]
      /\ file'.size = 0 /\ file'.off = 0
    BY FramesAssumption DEF NoFile, FifoOpened
<1>5. ServerType'
    BY <1>3, <1>4 DEF HandlerType, ServerType, FifoOpened, fsVars
<1>6. QED
    BY <1>1, <1>3, <1>4, <1>5, LocalType DEF FifoOpened

LEMMA StatType ==
    ASSUME HandlerType, SrvStat
    PROVE  HandlerType'
<1> DEFINE size == flen[file.ino]
<1>1. /\ file.ino \in Inodes /\ size \in 0..MaxSize /\ file.size = 0 /\ file.off = 0
      /\ file.stream \in 0..MaxStreamID /\ drained # MaxDrain
    BY DEF HandlerType, ServerType, SrvStat
<1>2. CASE /\ file' = [file EXCEPT !.size = size]
           /\ GoWrite(Response(file.stream, 200, size, IF size = 0 THEN EndStream ELSE {}))
    <2>1. reply' \in Frame
        BY <1>1, <1>2, ResponseFrame, ServerAssumption DEF GoWrite, EndStream
    <2>2. /\ file' \in [ino : Inodes \cup {None}, stream : 0..MaxStreamID,
                       size : Nat, off : Nat]
          /\ file'.ino \in Inodes /\ file'.off <= file'.size
        BY <1>1, <1>2, ServerAssumption DEF HandlerType, ServerType
    <2>3. ServerType' /\ spc' = "send"
        BY <1>2, <2>1, <2>2 DEF HandlerType, ServerType, SrvStat, GoWrite, fsVars
    <2>4. QED
        BY <1>1, <2>2, <2>3, LocalType DEF SrvStat
<1>3. CASE file' = NoFile /\ GoWrite(StatusFrame(file.stream, 500))
    <2>1. reply' \in Frame
        BY <1>1, <1>3, ResponseFrame DEF GoWrite, StatusFrame, EndStream
    <2>2. /\ file' \in [ino : Inodes \cup {None}, stream : 0..MaxStreamID,
                       size : Nat, off : Nat]
          /\ file'.size = 0 /\ file'.off = 0
        BY <1>3, FramesAssumption DEF NoFile
    <2>3. ServerType' /\ spc' = "send"
        BY <1>3, <2>1, <2>2 DEF HandlerType, ServerType, SrvStat, GoWrite, fsVars
    <2>4. QED
        BY <1>1, <2>2, <2>3, LocalType DEF SrvStat
<1>4. QED
    BY <1>2, <1>3 DEF SrvStat

\* What sendFile takes in one turn of its loop: at least one byte when any are
\* left, at most a payload, never past the announced size.
LEMMA ChunkFacts ==
    ASSUME HandlerType
    PROVE  /\ ChunkSize \in Nat
           /\ ChunkSize <= MaxPayload
           /\ file.off + ChunkSize <= file.size
           /\ file.off < file.size => ChunkSize > 0
BY FramesAssumption DEF HandlerType, ServerType, ChunkSize

LEMMA ChunkBytes ==
    ASSUME HandlerType, spc = "body"
    PROVE  [k \in 1..ChunkSize |-> <<file.ino, file.off + k>>] \in Seq(Byte)
<1>1. ChunkSize \in Nat
    BY ChunkFacts
<1>2. \A k \in 1..ChunkSize : <<file.ino, file.off + k>> \in Byte
    BY <1>1 DEF HandlerType, ServerType, Byte
<1>3. QED
    BY <1>1, <1>2

LEMMA ChunkType ==
    ASSUME HandlerType, SrvChunk
    PROVE  HandlerType'
<1> DEFINE n == ChunkSize
           bytes == [k \in 1..n |-> <<file.ino, file.off + k>>]
<1>1. reply' \in Frame
    <2>1. bytes \in Seq(Byte)
        BY ChunkBytes DEF SrvChunk
    <2>2. file.stream \in 0..MaxStreamID
        BY DEF HandlerType, ServerType
    <2>3. \E fl \in {EndStream, {}} : reply' = Data(file.stream, bytes, fl)
        BY DEF SrvChunk, GoWrite
    <2>4. QED
        BY <2>1, <2>2, <2>3, DataFrame DEF EndStream
<1>2. /\ file' \in [ino : Inodes \cup {None}, stream : 0..MaxStreamID,
                   size : Nat, off : Nat]
      /\ file'.ino \in Inodes /\ file'.off <= file'.size
    BY ChunkFacts DEF HandlerType, ServerType, SrvChunk
<1>3. ServerType' /\ spc' = "send" /\ drained # MaxDrain
    BY <1>1, <1>2 DEF HandlerType, ServerType, SrvChunk, GoWrite, fsVars
<1>4. QED
    BY <1>2, <1>3, LocalType DEF SrvChunk

LEMMA BodyErrorType ==
    ASSUME HandlerType, SrvBodyError
    PROVE  HandlerType'
<1>1. reply' \in Frame
    BY ErrorFrame DEF SrvBodyError, GiveUp, GoWrite, CodeProtocolError
<1>2. /\ file' \in [ino : Inodes \cup {None}, stream : 0..MaxStreamID,
                   size : Nat, off : Nat]
      /\ file'.size = 0 /\ file'.off = 0
    BY FramesAssumption DEF SrvBodyError, NoFile
<1>3. ServerType' /\ spc' = "send" /\ drained # MaxDrain
    BY <1>1, <1>2 DEF HandlerType, ServerType, SrvBodyError, GiveUp, GoWrite, fsVars
<1>4. QED
    BY <1>2, <1>3, LocalType DEF SrvBodyError

\* Frames that are not requests, and the faults frame.Read reports.
LEMMA OtherInputType ==
    ASSUME HandlerType,
           SrvSkip \/ SrvUnexpected \/ SrvPeerError \/ SrvStreamZero \/ SrvOversize
    PROVE  HandlerType'
<1>1. CASE SrvSkip
    BY <1>1, TakeType DEF SrvSkip, serverVars, fsVars, HandlerType, ServerType, SrvHead
<1>2. CASE SrvUnexpected
    <2>1. NextFrame("server").stream \in 0..MaxStreamID
        BY <1>2, ConsumeType DEF SrvUnexpected, SrvHead, HandlerType, Ends, Frame
    <2>2. reply' \in Frame
        BY <1>2, <2>1, ResponseFrame DEF SrvUnexpected, GoWrite, StatusFrame, EndStream
    <2>3. QED
        BY <1>2, <2>2, TakeType DEF SrvUnexpected, GoWrite
<1>3. CASE SrvPeerError
    BY <1>3, TakeType DEF SrvPeerError, HandlerType, ServerType
<1>4. CASE SrvStreamZero
    <2>1. reply' \in Frame
        BY <1>4, ErrorFrame DEF SrvStreamZero, GoWrite, CodeInvalidStreamID
    <2>2. QED
        BY <1>4, <2>1, TakeType DEF SrvStreamZero, GoWrite
<1>5. CASE SrvOversize
    <2>1. spc' \in {"send", "close"} /\ reply' \in Frame
        BY <1>5, ErrorFrame DEF SrvOversize, Reported, GoWrite, CodeFrameTooLarge, HandlerType, ServerType
    <2>2. QED
        BY <1>5, <2>1, TakeType DEF SrvOversize
<1>6. QED
    BY <1>1, <1>2, <1>3, <1>4, <1>5

LEMMA WriteType ==
    ASSUME HandlerType, SrvWrite
    PROVE  HandlerType'
<1>1. /\ wire' \in [Ends -> Seq(Frame)] /\ rst' \in [Ends -> BOOLEAN]
      /\ \A x \in Ends : Len(wire[x]) <= Len(wire'[x])
    BY SendType DEF HandlerType, ServerType, SrvWrite, Ends
<1>2. /\ drained # MaxDrain /\ UNCHANGED <<fs, flen, fsOps, reply, drained>>
      /\ closed' = closed
    BY DEF HandlerType, SrvWrite, fsVars
<1>3. CASE reply.type = "ERROR"
    <2>1. PICK k \in 0..InFlight("server") : pos' = [pos EXCEPT !["server"] = @ + k]
        BY <1>3 DEF SrvWrite
    <2>2. /\ pos' \in [Ends -> Nat]
          /\ \A x \in Ends : pos'[x] <= Len(wire[x])
        BY <2>1 DEF HandlerType, TransportType, InFlight, Ends
    <2>3. fin' \in [Ends -> BOOLEAN]
        BY <1>3 DEF SrvWrite, HalfClose, HandlerType, TransportType
    <2>4. \A x \in Ends : pos'[x] <= Len(wire'[x])
        BY <1>1, <2>2 DEF HandlerType, TransportType
    <2>5. TransportType'
        BY <1>1, <1>2, <2>2, <2>3, <2>4 DEF HandlerType, TransportType
    <2>6. spc' = "drain" /\ file' = file
        BY <1>3 DEF SrvWrite
    <2>7. QED
        BY <1>2, <2>5, <2>6 DEF HandlerType, ServerType
<1>4. CASE reply.type # "ERROR"
    <2>1. \A x \in Ends : pos[x] <= Len(wire'[x])
        BY <1>1 DEF HandlerType, TransportType
    <2>2. TransportType'
        BY <1>1, <1>2, <1>4, <2>1 DEF HandlerType, TransportType, SrvWrite
    <2>3. CASE file.off < file.size
        <3>1. spc' = "body" /\ file' = file
            BY <1>4, <2>3 DEF SrvWrite
        <3>2. file.ino \in Inodes
            BY <2>3 DEF HandlerType, ServerType
        <3>3. QED
            BY <1>2, <2>2, <3>1, <3>2 DEF HandlerType, ServerType
    <2>4. CASE ~(file.off < file.size)
        <3>1. spc' = "read" /\ file' = NoFile
            BY <1>4, <2>4 DEF SrvWrite
        <3>2. /\ file' \in [ino : Inodes \cup {None}, stream : 0..MaxStreamID,
                           size : Nat, off : Nat]
              /\ file'.size = 0 /\ file'.off = 0
            BY <3>1, FramesAssumption DEF NoFile
        <3>3. QED
            BY <1>2, <2>2, <3>1, <3>2 DEF HandlerType, ServerType
    <2>5. QED
        BY <2>3, <2>4
<1>5. QED
    BY <1>3, <1>4

LEMMA WriteFailsType ==
    ASSUME HandlerType, SrvWriteFails
    PROVE  HandlerType'
<1>1. /\ wire' \in [Ends -> Seq(Frame)]
      /\ \A x \in Ends : Len(wire[x]) <= Len(wire'[x])
    BY SendFailsType DEF HandlerType, ServerType, SrvWriteFails, Ends
<1>2. \A x \in Ends : pos[x] <= Len(wire'[x])
    BY <1>1 DEF HandlerType, TransportType
<1>3. TransportType'
    BY <1>1, <1>2 DEF HandlerType, TransportType, SrvWriteFails
<1>4. /\ file' \in [ino : Inodes \cup {None}, stream : 0..MaxStreamID,
                   size : Nat, off : Nat]
      /\ file'.size = 0 /\ file'.off = 0
    BY FramesAssumption DEF SrvWriteFails, NoFile
<1>5. QED
    BY <1>3, <1>4 DEF HandlerType, ServerType, SrvWriteFails, AfterFailedWrite, fsVars

\* The handler on its way out.
LEMMA EndingType ==
    ASSUME HandlerType,
           SrvReadEnds \/ SrvIdle \/ SrvDrain \/ SrvDrainEnds \/ SrvClose
    PROVE  HandlerType'
<1>1. CASE SrvReadEnds \/ SrvIdle \/ SrvDrainEnds
    <2>1. UNCHANGED <<fs, flen, fsOps, reply, file, drained, tcp>> /\ spc' = "close"
        BY <1>1 DEF SrvReadEnds, SrvIdle, SrvDrainEnds, fsVars
    <2>2. QED
        BY <2>1 DEF HandlerType, TransportType, ServerType, tcp
<1>2. CASE SrvDrain
    <2>1. /\ pos' \in [Ends -> Nat]
          /\ \A x \in Ends : pos'[x] <= Len(wire[x])
        BY <1>2, ConsumeType DEF HandlerType, SrvDrain, Ends
    <2>2. TransportType'
        BY <1>2, <2>1 DEF HandlerType, TransportType, SrvDrain
    <2>3. /\ drained' \in 0..MaxDrain /\ spc' \in {"close", "drain"}
          /\ drained' = MaxDrain => spc' = "close"
        BY <1>2, TransportAssumption DEF HandlerType, ServerType, SrvDrain, DrainOver
    <2>4. QED
        BY <1>2, <2>2, <2>3 DEF HandlerType, ServerType, SrvDrain, fsVars
<1>3. CASE SrvClose
    <2>1. /\ closed' \in [Ends -> BOOLEAN]
          /\ fin' \in [Ends -> BOOLEAN]
          /\ rst' \in [Ends -> BOOLEAN]
        BY <1>3, CloseType DEF HandlerType, SrvClose, Ends
    <2>2. QED
        BY <1>3, <2>1 DEF HandlerType, TransportType, ServerType, SrvClose, fsVars
<1>4. QED
    BY <1>1, <1>2, <1>3

\* What happens around the handler.
LEMMA DropType ==
    ASSUME HandlerType, SrvDrop
    PROVE  HandlerType'
<1>1. /\ closed' \in [Ends -> BOOLEAN]
      /\ fin' \in [Ends -> BOOLEAN]
      /\ rst' \in [Ends -> BOOLEAN]
    BY CloseType DEF HandlerType, SrvDrop, Ends
<1>2. /\ wire' \in [Ends -> Seq(Frame)]
      /\ \A x \in Ends : Len(wire[x]) <= Len(wire'[x])
    <2>1. CASE wire' = wire
        BY <2>1 DEF HandlerType, TransportType
    <2>2. CASE wire' = [wire EXCEPT !["client"] = Append(@, Cut(reply))]
        <3>1. Cut(reply) \in Frame
            BY CutFrame DEF HandlerType, ServerType
        <3>2. QED
            BY <2>2, <3>1, AppendType DEF HandlerType, Ends
    <2>3. QED
        BY <2>1, <2>2 DEF SrvDrop
<1>3. \A x \in Ends : pos[x] <= Len(wire'[x])
    BY <1>2 DEF HandlerType, TransportType
<1>4. TransportType'
    BY <1>1, <1>2, <1>3 DEF HandlerType, TransportType, SrvDrop
<1>5. QED
    BY <1>4 DEF HandlerType, ServerType, SrvDrop, serverVars

LEMMA FsChangeType ==
    ASSUME HandlerType, FsChange
    PROVE  HandlerType'
<1>1. fs' \in [Paths -> Inodes \cup {None}] /\ flen' \in [Inodes -> 0..MaxSize]
    BY DEF HandlerType, ServerType, FsChange
<1>2. fsOps' \in 0..MaxFsOps
    BY ServerAssumption DEF HandlerType, ServerType, FsChange
<1>3. QED
    BY <1>1, <1>2 DEF HandlerType, ServerType, TransportType, FsChange, handlerVars, tcp

-----------------------------------------------------------------------------
(* One more frame on a well-formed output keeps it well formed. *)

LEMMA AppendWellEnded ==
    ASSUME NEW s \in Seq(Frame), NEW g \in Frame, WellEnded(s),
           Len(s) > 0 => ~Final(s[Len(s)])
    PROVE  WellEnded(Append(s, g))
<1> DEFINE t == Append(s, g)
<1>1. /\ Len(t) = Len(s) + 1 /\ Len(s) \in Nat
      /\ \A i \in 1..Len(s) : t[i] = s[i]
    BY AppendFacts
<1>2. ASSUME NEW i \in 1..Len(t), Final(t[i]) PROVE i = Len(t)
    <2>1. CASE i = Len(t)
        BY <2>1
    <2>2. CASE i # Len(t)
        <3>1. i \in 1..Len(s) /\ t[i] = s[i]
            BY <1>1, <2>2
        <3>2. i = Len(s) /\ Len(s) > 0
            BY <1>2, <3>1 DEF WellEnded
        <3>3. QED
            BY <1>2, <3>1, <3>2
    <2>3. QED
        BY <2>1, <2>2
<1>3. QED
    BY <1>2 DEF WellEnded

LEMMA AppendSequential ==
    ASSUME NEW s \in Seq(Frame), NEW g \in Frame, Sequential(s),
           Len(s) = 0 => g.type \in {"RESPONSE", "ERROR"},
           Len(s) > 0 => Continues(s[Len(s)], g)
    PROVE  Sequential(Append(s, g))
<1> DEFINE t == Append(s, g)
<1>1. /\ Len(t) = Len(s) + 1 /\ Len(s) \in Nat
      /\ \A i \in 1..Len(s) : t[i] = s[i]
      /\ t[Len(s) + 1] = g
    BY AppendFacts
<1>2. ASSUME NEW i \in 1..Len(t)
      PROVE  IF i = 1 THEN t[i].type \in {"RESPONSE", "ERROR"} ELSE Continues(t[i - 1], t[i])
    <2>1. CASE i \in 1..Len(s)
        <3>1. t[i] = s[i] /\ (i # 1 => t[i - 1] = s[i - 1])
            BY <1>1, <2>1
        <3>2. QED
            BY <2>1, <3>1 DEF Sequential
    <2>2. CASE i = Len(s) + 1
        <3>1. t[i] = g /\ (i # 1 => t[i - 1] = s[Len(s)] /\ Len(s) > 0)
            BY <1>1, <2>2
        <3>2. QED
            BY <1>1, <2>2, <3>1
    <2>3. QED
        BY <1>1, <2>1, <2>2
<1>3. QED
    BY <1>2 DEF Sequential

\* What an earlier frame of the output was part of, it stays part of.
LEMMA AppendKeepsHonest ==
    ASSUME NEW s \in Seq(Frame), NEW g \in Frame, Honest(s),
           NEW i \in 1..Len(s), s[i].type = "DATA"
    PROVE  LET t == Append(s, g) IN
           \E j \in 1..(i - 1) :
               Opens(t, j, i) /\ Contiguous(t[i - 1], t[i]) /\ Promised(t[j], t[i])
<1> DEFINE t == Append(s, g)
<1>1. /\ Len(s) \in Nat
      /\ \A k \in 1..Len(s) : t[k] = s[k]
    BY AppendFacts
<1>2. PICK j \in 1..(i - 1) :
          Opens(s, j, i) /\ Contiguous(s[i - 1], s[i]) /\ Promised(s[j], s[i])
    BY DEF Honest
<1>3. t[j] = s[j] /\ t[i] = s[i] /\ t[i - 1] = s[i - 1]
    BY <1>1
<1>4. Opens(t, j, i)
    BY <1>1, <1>2, <1>3 DEF Opens
<1>5. QED
    BY <1>2, <1>3, <1>4

LEMMA AppendHonest ==
    ASSUME NEW s \in Seq(Frame), NEW g \in Frame, Honest(s), g.type # "DATA"
    PROVE  Honest(Append(s, g))
<1> DEFINE t == Append(s, g)
<1>1. /\ Len(t) = Len(s) + 1 /\ Len(s) \in Nat
      /\ \A i \in 1..Len(s) : t[i] = s[i]
      /\ t[Len(s) + 1] = g
    BY AppendFacts
<1>2. ASSUME NEW i \in 1..Len(t), t[i].type = "DATA"
      PROVE  i \in 1..Len(s) /\ s[i].type = "DATA"
    BY <1>1, <1>2
<1>3. QED
    BY <1>2, AppendKeepsHonest DEF Honest

LEMMA AppendDataHonest ==
    ASSUME NEW s \in Seq(Frame), NEW g \in Frame, Honest(s), g.type = "DATA",
           NEW j \in 1..Len(s), Opens(s, j, Len(s)),
           Contiguous(s[Len(s)], g), Promised(s[j], g)
    PROVE  Honest(Append(s, g))
<1> DEFINE t == Append(s, g)
<1>1. /\ Len(t) = Len(s) + 1 /\ Len(s) \in Nat
      /\ \A i \in 1..Len(s) : t[i] = s[i]
      /\ t[Len(s) + 1] = g
    BY AppendFacts
<1>2. /\ j \in 1..(Len(s) + 1 - 1) /\ Opens(t, j, Len(s) + 1)
      /\ Contiguous(t[Len(s) + 1 - 1], t[Len(s) + 1]) /\ Promised(t[j], t[Len(s) + 1])
    <2>1. t[j] = s[j] /\ t[Len(s)] = s[Len(s)] /\ Len(s) + 1 - 1 = Len(s)
        BY <1>1, SMTT(60)
    <2>2. Opens(t, j, Len(s) + 1)
        <3>1. ASSUME NEW k \in (j + 1)..(Len(s) + 1) PROVE t[k].type = "DATA"
            <4>1. CASE k = Len(s) + 1
                BY <1>1, <4>1
            <4>2. CASE k \in (j + 1)..Len(s)
                BY <1>1, <4>2 DEF Opens
            <4>3. QED
                BY <1>1, <4>1, <4>2
        <3>2. s[j].type = "RESPONSE"
            BY DEF Opens
        <3>3. QED
            BY <2>1, <3>1, <3>2 DEF Opens
    <2>3. QED
        BY <1>1, <2>1, <2>2
<1>3. ASSUME NEW i \in 1..Len(t), t[i].type = "DATA"
      PROVE  \E m \in 1..(i - 1) :
                 Opens(t, m, i) /\ Contiguous(t[i - 1], t[i]) /\ Promised(t[m], t[i])
    <2>1. CASE i \in 1..Len(s)
        BY <1>1, <1>3, <2>1, AppendKeepsHonest
    <2>2. CASE i = Len(s) + 1
        BY <1>2, <2>2
    <2>3. QED
        BY <1>1, <2>1, <2>2
<1>4. QED
    BY <1>3, SMTT(60) DEF Honest

-----------------------------------------------------------------------------
(* The handler's output. *)

\* A frame and what is left of it after a failed write mean the same here.
LEMMA CutSame ==
    ASSUME NEW f \in Frame, NEW g \in {f, Cut(f)}
    PROVE  /\ g \in Frame
           /\ g.type = f.type /\ g.flags = f.flags /\ g.stream = f.stream
           /\ g.data = f.data /\ g.lengths = f.lengths
BY CutFrame DEF Cut, Frame

\* The next chunk continues the body.
LEMMA ChunkFits ==
    ASSUME HandlerType, HandlerInv, DataReady, NEW g \in Frame, g.type = "DATA",
           g.flags = reply.flags, g.stream = reply.stream, g.data = reply.data
    PROVE  Honest(Append(Out, g))
<1> DEFINE n == Len(reply.data)
           last == Out[Len(Out)]
<1>1. Out \in Seq(Frame) /\ Len(Out) \in Nat
    BY DEF HandlerType, TransportType, Out, Ends
<1>2. /\ n \in Nat /\ n > 0 /\ n <= file.off
      /\ file.off \in Nat /\ file.size \in Nat /\ file.off <= file.size
      /\ \A k \in 1..n : reply.data[k] = <<file.ino, file.off - n + k>>
    BY DEF DataReady, HandlerType, ServerType, Frame
<1>3. PICK j \in 1..Len(Out) :
        /\ Opens(Out, j, Len(Out))
        /\ Out[j].lengths[1] = file.size
        /\ IF j = Len(Out) THEN file.off - n = 0
           ELSE /\ Len(last.data) > 0
                /\ Last(last.data) = <<file.ino, file.off - n>>
    BY DEF DataReady, MidBody
<1>4. /\ g.data[1] = <<file.ino, file.off - n + 1>>
      /\ Last(g.data) = <<file.ino, file.off>>
    BY <1>2 DEF Last
<1>5. Contiguous(last, g)
    <2>1. \A k \in 1..n : g.data[k] = <<g.data[1][1], g.data[1][2] + k - 1>>
        <3> SUFFICES ASSUME NEW k \in 1..n
                     PROVE  g.data[k] = <<g.data[1][1], g.data[1][2] + k - 1>>
            OBVIOUS
        <3>1. g.data[k] = <<file.ino, file.off - n + k>>
            BY <1>2
        <3>2. g.data[1][1] = file.ino /\ g.data[1][2] = file.off - n + 1
            BY <1>4
        <3>3. file.off - n + 1 + k - 1 = file.off - n + k
            BY <1>2
        <3>4. QED
            BY <3>1, <3>2, <3>3
    <2>2. CASE j = Len(Out)
        <3>1. last.type = "RESPONSE" /\ g.data[1][2] = 1
            BY <1>2, <1>3, <1>4, <2>2 DEF Opens
        <3>2. QED
            BY <1>2, <2>1, <3>1 DEF Contiguous
    <2>3. CASE j # Len(Out)
        <3>1. last.type = "DATA"
            BY <1>1, <1>3, <2>3 DEF Opens
        <3>2. g.data[1] = <<Last(last.data)[1], Last(last.data)[2] + 1>>
            BY <1>3, <1>4, <2>3
        <3>3. QED
            BY <1>2, <2>1, <3>1, <3>2 DEF Contiguous
    <2>4. QED
        BY <2>2, <2>3
<1>6. Promised(Out[j], g)
    BY <1>2, <1>3, <1>4 DEF Promised, DataReady, EndStream
<1>7. QED
    BY <1>1, <1>3, <1>5, <1>6, AppendDataHonest DEF HandlerInv, BodyAsAnnounced

\* Whatever the handler is about to write, whole or cut, may follow what it has
\* written.
LEMMA ReplyFits ==
    ASSUME HandlerType, HandlerInv, spc = "send", ~closed["client"], ~closed["server"],
           NEW g \in {reply, Cut(reply)}
    PROVE  WellEnded(Append(Out, g)) /\ Sequential(Append(Out, g)) /\ Honest(Append(Out, g))
<1>1. /\ g \in Frame
      /\ g.type = reply.type /\ g.flags = reply.flags /\ g.stream = reply.stream
      /\ g.data = reply.data /\ g.lengths = reply.lengths
    BY CutSame DEF HandlerType, ServerType
<1>2. Out \in Seq(Frame) /\ Len(Out) \in Nat
    BY DEF HandlerType, TransportType, Out, Ends
<1>3. WellEnded(Append(Out, g))
    <2>1. Len(Out) > 0 => ~Final(Out[Len(Out)])
        BY DEF HandlerInv
    <2>2. QED
        BY <1>1, <1>2, <2>1, AppendWellEnded DEF HandlerInv, EndsOnce
<1>4. reply.type = "ERROR" \/ ResponseReady \/ DataReady
    BY DEF HandlerInv
<1>5. Sequential(Append(Out, g))
    <2>1. Len(Out) = 0 => g.type \in {"RESPONSE", "ERROR"}
        BY <1>1, <1>4 DEF ResponseReady, DataReady, MidBody
    <2>2. Len(Out) > 0 => Continues(Out[Len(Out)], g)
        BY <1>1, <1>4 DEF ResponseReady, DataReady, MidBody, AtBoundary, Continues
    <2>3. QED
        BY <1>1, <1>2, <2>1, <2>2, AppendSequential DEF HandlerInv, NeverInterleaved
<1>6. Honest(Append(Out, g))
    <2>1. CASE DataReady
        BY <1>1, <2>1, ChunkFits DEF DataReady
    <2>2. CASE reply.type = "ERROR" \/ ResponseReady
        BY <1>1, <1>2, <2>2, AppendHonest DEF ResponseReady, HandlerInv, BodyAsAnnounced
    <2>3. QED
        BY <1>4, <2>1, <2>2
<1>7. QED
    BY <1>3, <1>5, <1>6

\* A step that sends nothing and is not in the middle of an exchange afterwards
\* keeps the invariant, as does one that changes nothing the invariant is about.
LEMMA LeavesInv ==
    ASSUME HandlerType, HandlerInv, Out' = Out, spc' \in {"drain", "close", "done"},
           reply' = reply
    PROVE  HandlerInv'
BY DEF HandlerInv, EndsOnce, NeverInterleaved, BodyAsAnnounced

LEMMA QuietInv ==
    ASSUME HandlerType, HandlerInv, Out' = Out, UNCHANGED <<spc, reply, file>>,
           closed["client"] => closed'["client"], closed["server"] => closed'["server"]
    PROVE  HandlerInv'
<1>1. /\ AtBoundary' = AtBoundary
      /\ ResponseReady' = ResponseReady
      /\ DataReady' = DataReady
      /\ MidBody(file.off)' = MidBody(file.off)
    BY DEF AtBoundary, ResponseReady, DataReady, MidBody
<1>2. QED
    BY <1>1 DEF HandlerInv, EndsOnce, NeverInterleaved, BodyAsAnnounced

\* The handler starts to write f: nothing is sent yet.
LEMMA GoWriteInv ==
    ASSUME HandlerType, HandlerInv, Out' = Out, closed' = closed, spc' = "send",
           spc \in {"read", "blocked", "stat", "body"}, reply'.shape = "whole",
           ~closed["client"] /\ ~closed["server"] =>
               (reply.type = "ERROR" \/ ResponseReady \/ DataReady)'
    PROVE  HandlerInv'
<1>1. Len(Out) > 0 /\ Final(Out[Len(Out)]) => closed["server"]
    BY DEF HandlerInv
<1>2. QED
    BY <1>1 DEF HandlerInv, EndsOnce, NeverInterleaved, BodyAsAnnounced

\* An answer without a body.
LEMMA StatusInv ==
    ASSUME HandlerType, HandlerInv, Out' = Out, closed' = closed,
           spc \in {"read", "blocked", "stat"}, NEW id, NEW status,
           GoWrite(StatusFrame(id, status)), file'.size = 0
    PROVE  HandlerInv'
<1>1. /\ reply'.shape = "whole" /\ reply'.type = "RESPONSE" /\ reply'.flags = EndStream
      /\ spc' = "send"
    BY DEF GoWrite, StatusFrame, Response, Whole
<1>2. ~closed["client"] /\ ~closed["server"] => AtBoundary'
    BY DEF HandlerInv, AtBoundary
<1>3. ~closed["client"] /\ ~closed["server"] => ResponseReady'
    BY <1>1, <1>2 DEF ResponseReady
<1>4. QED
    BY <1>1, <1>3, GoWriteInv

\* A connection error, reported from anywhere.
LEMMA ReportInv ==
    ASSUME HandlerType, HandlerInv, Out' = Out, closed' = closed,
           spc \in {"read", "stat", "body"}, NEW code, GoWrite(Error(code))
    PROVE  HandlerInv'
<1>1. reply'.shape = "whole" /\ reply'.type = "ERROR" /\ spc' = "send"
    BY DEF GoWrite, Error, Whole
<1>2. QED
    BY <1>1, GoWriteInv

LEMMA InputInv ==
    ASSUME HandlerType, HandlerInv,
           SrvSkip \/ SrvServeRequest \/ SrvUnexpected \/ SrvPeerError
           \/ SrvStreamZero \/ SrvOversize
    PROVE  HandlerInv'
<1>1. /\ Out' = Out /\ closed' = closed /\ spc = "read" /\ file.size = 0
    BY DEF SrvSkip, SrvServeRequest, SrvUnexpected, SrvPeerError, SrvStreamZero,
           SrvOversize, SrvHead, Out, HandlerInv
<1>2. CASE SrvSkip
    BY <1>1, <1>2, QuietInv DEF SrvSkip, serverVars
<1>3. CASE SrvServeRequest
    <2>1. CASE file' = file /\ \E st : GoWrite(StatusFrame(NextFrame("server").stream, st))
        BY <1>1, <2>1, StatusInv
    <2>2. CASE spc' \in {"blocked", "stat"} /\ reply' = reply
        <3>1. ~closed["client"] /\ ~closed["server"] => AtBoundary'
            BY <1>1 DEF HandlerInv, AtBoundary
        <3>2. Len(Out) > 0 /\ Final(Out[Len(Out)]) => closed["server"]
            BY <1>1 DEF HandlerInv
        <3>3. QED
            BY <1>1, <2>2, <3>1, <3>2 DEF HandlerInv, EndsOnce, NeverInterleaved, BodyAsAnnounced
    <2>3. QED
        BY <1>3, <2>1, <2>2 DEF SrvServeRequest
<1>4. CASE SrvUnexpected
    BY <1>1, <1>4, StatusInv DEF SrvUnexpected
<1>5. CASE SrvPeerError
    BY <1>1, <1>5, LeavesInv DEF SrvPeerError
<1>6. CASE SrvStreamZero
    BY <1>1, <1>6, ReportInv DEF SrvStreamZero
<1>7. CASE SrvOversize
    <2>1. CASE NextFrame("server").type = "ERROR"
        BY <1>1, <1>7, <2>1, LeavesInv DEF SrvOversize, Reported
    <2>2. CASE NextFrame("server").type # "ERROR"
        BY <1>1, <1>7, <2>2, ReportInv DEF SrvOversize, Reported
    <2>3. QED
        BY <2>1, <2>2
<1>8. QED
    BY <1>2, <1>3, <1>4, <1>5, <1>6, <1>7

LEMMA FifoInv ==
    ASSUME HandlerType, HandlerInv, FifoOpened
    PROVE  HandlerInv'
<1>1. Out' = Out /\ closed' = closed /\ spc = "blocked" /\ file'.size = 0
    BY DEF FifoOpened, Out, tcp, NoFile
<1>2. PICK st : GoWrite(StatusFrame(file.stream, st))
    BY DEF FifoOpened
<1>3. QED
    BY <1>1, <1>2, StatusInv

LEMMA StatInv ==
    ASSUME HandlerType, HandlerInv, SrvStat
    PROVE  HandlerInv'
<1> DEFINE size == flen[file.ino]
<1>1. /\ Out' = Out /\ closed' = closed /\ spc = "stat"
      /\ file.off = 0 /\ file.size = 0 /\ size \in Nat
      /\ file \in [ino : Inodes \cup {None}, stream : 0..MaxStreamID, size : Nat, off : Nat]
    BY ServerAssumption DEF SrvStat, Out, tcp, HandlerType, ServerType
<1>2. CASE file' = NoFile /\ GoWrite(StatusFrame(file.stream, 500))
    <2>1. file'.size = 0
        BY <1>2 DEF NoFile
    <2>2. QED
        BY <1>1, <1>2, <2>1, StatusInv
<1>3. CASE /\ file' = [file EXCEPT !.size = size]
           /\ GoWrite(Response(file.stream, 200, size, IF size = 0 THEN EndStream ELSE {}))
    <2>1. file'.size = size /\ file'.off = 0 /\ file'.stream = file.stream
        BY <1>1, <1>3
    <2>2. /\ reply'.shape = "whole" /\ reply'.type = "RESPONSE" /\ spc' = "send"
          /\ reply'.flags = (IF size = 0 THEN EndStream ELSE {})
          /\ reply'.stream = file.stream /\ reply'.lengths[1] = size
        BY <1>3 DEF GoWrite, Response, Whole
    <2>3. ~closed["client"] /\ ~closed["server"] => AtBoundary'
        BY <1>1 DEF HandlerInv, AtBoundary
    <2>4. ~closed["client"] /\ ~closed["server"] => ResponseReady'
        BY <2>1, <2>2, <2>3 DEF ResponseReady
    <2>5. QED
        BY <1>1, <2>2, <2>4, GoWriteInv
<1>4. QED
    BY <1>2, <1>3 DEF SrvStat

LEMMA ChunkInv ==
    ASSUME HandlerType, HandlerInv, SrvChunk
    PROVE  HandlerInv'
<1> DEFINE n == ChunkSize
           bytes == [k \in 1..n |-> <<file.ino, file.off + k>>]
           end == IF file.off + n = file.size THEN EndStream ELSE {}
<1>1. /\ Out' = Out /\ closed' = closed /\ spc = "body" /\ file.off < file.size
    BY DEF SrvChunk, Out, tcp, HandlerInv
<1>2. n \in Nat /\ n > 0 /\ file.off \in Nat /\ file.size \in Nat
    BY <1>1, ChunkFacts DEF HandlerType, ServerType
<1>3. /\ file'.off = file.off + n /\ file'.size = file.size
      /\ file'.ino = file.ino /\ file'.stream = file.stream
    BY DEF SrvChunk, HandlerType, ServerType
<1>4. GoWrite(Data(file.stream, bytes, end))
    BY DEF SrvChunk
<1>5. /\ spc' = "send" /\ reply'.shape = "whole" /\ reply'.type = "DATA"
      /\ reply'.stream = file.stream /\ reply'.flags = end /\ reply'.data = bytes
    BY <1>4 DEF GoWrite, Data, Whole
<1>6. Len(bytes) = n /\ \A k \in 1..n : bytes[k] = <<file.ino, file.off + k>>
    BY <1>2
<1>7. file'.off - n = file.off
    BY <1>2, <1>3
<1>8. ~closed["client"] /\ ~closed["server"] => DataReady'
    <2> SUFFICES ASSUME ~closed["client"], ~closed["server"] PROVE DataReady'
        OBVIOUS
    <2>1. MidBody(file.off)
        BY <1>1 DEF HandlerInv
    <2>2. MidBody(file.off - Len(reply.data))'
        <3>1. file'.off - Len(reply'.data) = file.off
            BY <1>5, <1>6, <1>7
        <3>2. QED
            BY <1>1, <1>3, <2>1, <3>1 DEF MidBody
    <2>3. \A k \in 1..n : reply'.data[k] = <<file'.ino, file'.off - n + k>>
        BY <1>3, <1>5, <1>6, <1>7
    <2>4. n <= file'.off /\ reply'.flags = IF file'.off = file'.size THEN EndStream ELSE {}
        BY <1>2, <1>3, <1>5
    <2>5. Len(reply'.data) = n
        BY <1>5, <1>6
    <2>6. QED
        BY <1>2, <1>3, <1>5, <2>2, <2>3, <2>4, <2>5 DEF DataReady
<1>9. QED
    BY <1>1, <1>5, <1>8, GoWriteInv

\* What the output looks like after a frame was sent.
LEMMA SendOut ==
    ASSUME HandlerType, NEW g \in Frame,
           wire' = [wire EXCEPT !["client"] = Append(@, g)]
    PROVE  /\ Out' = Append(Out, g)
           /\ Len(Out') = Len(Out) + 1 /\ Len(Out) \in Nat
           /\ \A i \in 1..Len(Out) : Out'[i] = Out[i]
           /\ Out'[Len(Out) + 1] = g
<1>1. Out \in Seq(Frame)
    BY DEF HandlerType, TransportType, Out, Ends
<1>2. Out' = Append(Out, g)
    BY DEF HandlerType, TransportType, Out, Ends
<1>3. QED
    BY <1>1, <1>2, AppendFacts

LEMMA WriteInv ==
    ASSUME HandlerType, HandlerInv, SrvWrite
    PROVE  HandlerInv'
<1>1. /\ spc = "send" /\ ~closed["server"] /\ closed' = closed /\ reply' = reply
      /\ reply \in Frame /\ reply.shape = "whole" /\ Peer("server") = "client"
    BY DEF SrvWrite, Send, CanSend, HandlerType, ServerType, HandlerInv, Peer
<1>2. CASE closed["client"]
    <2>1. Out' = Out
        BY <1>1, <1>2 DEF SrvWrite, Send, Out
    <2>2. Len(Out) > 0 => ~Final(Out[Len(Out)])
        BY <1>1 DEF HandlerInv
    <2>3. /\ spc' = "body" => file'.off < file'.size
          /\ spc' = "read" => file'.size = 0
        BY DEF SrvWrite, NoFile
    <2>4. QED
        BY <1>1, <1>2, <2>1, <2>2, <2>3 DEF HandlerInv, EndsOnce, NeverInterleaved, BodyAsAnnounced
<1>3. CASE ~closed["client"]
    <2>1. wire' = [wire EXCEPT !["client"] = Append(@, reply)]
        BY <1>1, <1>3 DEF SrvWrite, Send
    <2>2. /\ Out' = Append(Out, reply)
          /\ Len(Out') = Len(Out) + 1 /\ Len(Out) \in Nat
          /\ \A i \in 1..Len(Out) : Out'[i] = Out[i]
          /\ Out'[Len(Out) + 1] = reply
        BY <1>1, <2>1, SendOut
    <2>3. EndsOnce' /\ NeverInterleaved' /\ BodyAsAnnounced'
        BY <1>1, <1>3, <2>2, ReplyFits DEF EndsOnce, NeverInterleaved, BodyAsAnnounced
    <2>4. CASE reply.type = "ERROR"
        BY <1>1, <2>3, <2>4 DEF SrvWrite, HandlerInv
    <2>5. CASE ResponseReady
        <3>1. reply.type = "RESPONSE" /\ ~Final(Out'[Len(Out')])
            BY <1>1, <2>2, <2>5 DEF ResponseReady, Final
        <3>2. CASE file.size = 0
            <4>1. spc' = "read" /\ file' = NoFile /\ file'.size = 0
                BY <3>1, <3>2 DEF SrvWrite, HandlerType, ServerType, NoFile
            <4>2. AtBoundary'
                BY <2>2, <2>5, <3>2 DEF AtBoundary, ResponseReady, EndStream
            <4>3. QED
                BY <1>1, <2>3, <3>1, <4>1, <4>2 DEF HandlerInv
        <3>3. CASE file.size # 0
            <4>1. /\ file.size > 0 /\ file.off = 0 /\ reply.stream = file.stream
                  /\ reply.lengths[1] = file.size /\ reply.flags = {}
                BY <2>5, <3>3 DEF ResponseReady, HandlerType, ServerType
            <4>2. spc' = "body" /\ file' = file
                BY <3>1, <4>1 DEF SrvWrite
            <4>3. Opens(Out', Len(Out'), Len(Out'))
                BY <2>2, <3>1 DEF Opens
            <4>4. MidBody(file.off)'
                BY <2>2, <4>1, <4>2, <4>3 DEF MidBody
            <4>5. QED
                BY <1>1, <2>3, <3>1, <4>1, <4>2, <4>4 DEF HandlerInv
        <3>4. QED
            BY <3>2, <3>3
    <2>6. CASE DataReady
        <3> DEFINE n == Len(reply.data)
        <3>1. reply.type = "DATA" /\ ~Final(Out'[Len(Out')])
            BY <1>1, <2>2, <2>6 DEF DataReady, Final
        <3>2. CASE file.off = file.size
            <4>1. spc' = "read" /\ file' = NoFile /\ file'.size = 0
                BY <3>1, <3>2 DEF SrvWrite, HandlerType, ServerType, NoFile
            <4>2. AtBoundary'
                BY <2>2, <2>6, <3>2 DEF AtBoundary, DataReady, EndStream
            <4>3. QED
                BY <1>1, <2>3, <3>1, <4>1, <4>2 DEF HandlerInv
        <3>3. CASE file.off # file.size
            <4>1. file.off < file.size /\ reply.flags = {} /\ reply.stream = file.stream
                BY <2>6, <3>3 DEF DataReady, HandlerType, ServerType
            <4>2. spc' = "body" /\ file' = file
                BY <3>1, <4>1 DEF SrvWrite
            <4>3. PICK j \in 1..Len(Out) :
                      Opens(Out, j, Len(Out)) /\ Out[j].lengths[1] = file.size
                BY <2>6 DEF DataReady, MidBody
            <4>4. Opens(Out', j, Len(Out')) /\ Out'[j].lengths[1] = file.size
                <5>1. Out'[j] = Out[j]
                    BY <2>2
                <5>2. ASSUME NEW k \in (j + 1)..Len(Out') PROVE Out'[k].type = "DATA"
                    <6>1. CASE k = Len(Out) + 1
                        BY <2>2, <3>1, <6>1
                    <6>2. CASE k \in (j + 1)..Len(Out)
                        BY <2>2, <4>3, <6>2 DEF Opens
                    <6>3. QED
                        BY <2>2, <6>1, <6>2
                <5>3. QED
                    BY <4>3, <5>1, <5>2 DEF Opens
            <4>5. Len(reply.data) > 0 /\ Last(reply.data) = <<file.ino, file.off>>
                <5>1. /\ n \in Nat /\ n > 0 /\ file.off \in Nat
                      /\ reply.data[n] = <<file.ino, file.off - n + n>>
                    BY <2>6 DEF DataReady, HandlerType, ServerType, Frame
                <5>2. QED
                    BY <5>1 DEF Last
            <4>6. MidBody(file.off)'
                BY <2>2, <4>1, <4>2, <4>4, <4>5 DEF MidBody
            <4>7. QED
                BY <1>1, <2>3, <3>1, <4>1, <4>2, <4>6 DEF HandlerInv
        <3>4. QED
            BY <3>2, <3>3
    <2>7. QED
        BY <1>1, <1>3, <2>4, <2>5, <2>6 DEF HandlerInv
<1>4. QED
    BY <1>2, <1>3

\* A torn write leaves a cut frame, and nobody writes after it.
LEMMA TornInv ==
    ASSUME HandlerType, HandlerInv, spc = "send", ~closed["client"], ~closed["server"],
           wire' = [wire EXCEPT !["client"] = Append(@, Cut(reply))],
           reply' = reply,
           \/ spc' = "close"
           \/ spc' = "send" /\ closed'["server"] /\ file' = file
    PROVE  HandlerInv'
<1>1. Cut(reply) \in Frame
    BY CutFrame DEF HandlerType, ServerType
<1>2. Out' = Append(Out, Cut(reply))
    BY <1>1, SendOut
<1>3. EndsOnce' /\ NeverInterleaved' /\ BodyAsAnnounced'
    BY <1>2, ReplyFits DEF EndsOnce, NeverInterleaved, BodyAsAnnounced
<1>4. QED
    BY <1>3 DEF HandlerInv

LEMMA WriteFailsInv ==
    ASSUME HandlerType, HandlerInv, SrvWriteFails
    PROVE  HandlerInv'
<1>1. spc = "send" /\ spc' = "close" /\ reply' = reply
    BY DEF SrvWriteFails, AfterFailedWrite
<1>2. CASE wire' = wire
    BY <1>1, <1>2, LeavesInv DEF Out
<1>3. CASE /\ ~closed["server"] /\ ~closed["client"]
           /\ wire' = [wire EXCEPT !["client"] = Append(@, Cut(reply))]
    BY <1>1, <1>3, TornInv
<1>4. QED
    BY <1>2, <1>3 DEF SrvWriteFails, SendFails, Peer

LEMMA DropInv ==
    ASSUME HandlerType, HandlerInv, SrvDrop
    PROVE  HandlerInv'
<1>1. /\ ~closed["server"] /\ closed'["server"] /\ closed'["client"] = closed["client"]
      /\ UNCHANGED <<spc, reply, file>>
    BY DEF SrvDrop, CloseSocket, serverVars, HandlerType, TransportType, Ends
<1>2. CASE wire' = wire
    BY <1>1, <1>2, QuietInv DEF Out
<1>3. CASE /\ spc = "send" /\ ~closed["client"]
           /\ wire' = [wire EXCEPT !["client"] = Append(@, Cut(reply))]
    BY <1>1, <1>3, TornInv
<1>4. QED
    BY <1>2, <1>3 DEF SrvDrop

-----------------------------------------------------------------------------
(* The handler: all of its steps. *)

\* The handler starts well.
LEMMA HandlerStart ==
    ASSUME TransportInit, ServerInit
    PROVE  HandlerType /\ HandlerInv
<1>1. ServerType /\ file.size = 0 /\ file.off = 0
    BY BlankFrame, FramesAssumption, ServerAssumption, TransportAssumption
    DEF ServerInit, ServerType, NoFile
<1>2. HandlerType
    BY <1>1, StartType, TransportAssumption DEF HandlerType, ServerInit
<1>3. HandlerInv
    BY DEF TransportInit, ServerInit, HandlerInv, EndsOnce, NeverInterleaved,
           BodyAsAnnounced, WellEnded, Sequential, Honest, Out, Ends, Blank, Whole,
           AtBoundary, NoFile
<1>4. QED
    BY <1>2, <1>3

\* Its own steps keep the invariant, and so do Server.Close and whoever changes
\* the files or opens a FIFO.
LEMMA HandlerStep ==
    ASSUME HandlerType, HandlerInv, ServerNext \/ SrvDrop \/ FifoOpened \/ FsChange
    PROVE  HandlerType' /\ HandlerInv'
<1>1. HandlerType'
    BY ServeRequestType, StatType, ChunkType, BodyErrorType, OtherInputType,
       WriteType, WriteFailsType, EndingType, DropType, FifoType, FsChangeType DEF ServerNext
<1>2. CASE SrvSkip \/ SrvServeRequest \/ SrvUnexpected \/ SrvPeerError
           \/ SrvStreamZero \/ SrvOversize
    BY <1>1, <1>2, InputInv
<1>3. CASE SrvStat
    BY <1>1, <1>3, StatInv
<1>4. CASE SrvChunk
    BY <1>1, <1>4, ChunkInv
<1>5. CASE SrvBodyError
    BY <1>1, <1>5, ReportInv DEF SrvBodyError, GiveUp, tcp, Out
<1>6. CASE SrvWrite
    BY <1>1, <1>6, WriteInv
<1>7. CASE SrvWriteFails
    BY <1>1, <1>7, WriteFailsInv
<1>8. CASE SrvReadEnds \/ SrvIdle \/ SrvDrain \/ SrvDrainEnds \/ SrvClose
    BY <1>1, <1>8, LeavesInv DEF SrvReadEnds, SrvIdle, SrvDrain, SrvDrainEnds, SrvClose, tcp, Out
<1>9. CASE SrvDrop
    BY <1>1, <1>9, DropInv
<1>10. CASE FsChange
    BY <1>1, <1>10, QuietInv DEF FsChange, handlerVars, tcp, Out
<1>11. CASE FifoOpened
    BY <1>1, <1>11, FifoInv
<1>12. QED
    BY <1>2, <1>3, <1>4, <1>5, <1>6, <1>7, <1>8, <1>9, <1>10, <1>11 DEF ServerNext

\* A step of the other end, which does not touch the output.
LEMMA HandlerStays ==
    ASSUME HandlerType, HandlerInv, TransportType', UNCHANGED serverVars, Out' = Out,
           closed["client"] => closed'["client"], closed["server"] => closed'["server"]
    PROVE  HandlerType' /\ HandlerInv'
<1>1. HandlerType'
    BY DEF HandlerType, ServerType, serverVars
<1>2. QED
    BY <1>1, QuietInv DEF serverVars

-----------------------------------------------------------------------------
(* The client. *)

\* A step of the other side, as far as the client can tell.
OtherSide ==
    /\ UNCHANGED <<clientVars, Sent>>
    /\ pos'["client"] = pos["client"] /\ closed'["client"] = closed["client"]
    /\ Received' = Received \/ \E f \in Frame : Received' = Append(Received, f)

-----------------------------------------------------------------------------
(* The client: types. *)

LEMMA OutcomeType ==
    ASSUME NEW id \in 0..MaxStreamID, NEW p \in Paths,
           NEW kind \in {"ok", "unbuilt", "remote", "failed", "broken"},
           NEW status \in Nat, NEW body \in Seq(Byte)
    PROVE  Outcome(id, p, kind, status, body) \in Result
BY DEF Outcome, Result

LEMMA RequestFrame ==
    ASSUME NEW id \in 0..MaxStreamID, NEW p \in Paths
    PROVE  Request(id, p) \in Frame
BY FramesAssumption DEF Request, Whole, Frame, KnownTypes, EndStream

\* The id of the running Get stays within bounds, also at the largest id.
LEMMA TakeIdType ==
    ASSUME ClientType, TakeId
    PROVE  /\ next' \in 1..MaxStreamID /\ exhausted' \in BOOLEAN
           /\ next < next' \/ exhausted'
<1>1. next \in 1..MaxStreamID /\ exhausted \in BOOLEAN /\ MaxStreamID \in Nat
    BY FramesAssumption DEF ClientType
<1>2. CASE next = MaxStreamID
    BY <1>1, <1>2 DEF TakeId
<1>3. CASE next # MaxStreamID
    <2>1. exhausted' = exhausted /\ next' = next + 1
        BY <1>3 DEF TakeId
    <2>2. next + 1 \in 1..MaxStreamID /\ next < next + 1
        BY <1>1, <1>3
    <2>3. QED
        BY <1>1, <2>1, <2>2
<1>4. QED
    BY <1>2, <1>3

LEMMA GetType ==
    ASSUME CallerType, NEW p \in Paths, CliGet(p)
    PROVE  CallerType'
<1>1. TransportType' /\ closed' = closed
    BY DEF CallerType, TransportType, CliGet, tcp
<1>2. /\ next' \in 1..MaxStreamID /\ exhausted' \in BOOLEAN
    BY TakeIdType DEF CallerType, ClientType, CliGet
<1>3. /\ cpc = "idle" /\ cpc' \in {"idle", "fail", "send"} /\ broken' = broken
      /\ cpc' # "idle" => cur'.path = p /\ ~broken
      /\ cur' \in [id : 0..MaxStreamID, path : Paths \cup {Malformed}]
      /\ cdrained' = cdrained /\ got' = got /\ err' = err
    BY FramesAssumption DEF CallerType, ClientType, CliGet
<1>4. results' \in Seq(Result)
    <2>1. results \in Seq(Result) /\ 0 \in 0..MaxStreamID /\ <<>> \in Seq(Byte)
        BY FramesAssumption DEF CallerType, ClientType
    <2>2. \A kind \in {"broken", "unbuilt"} : Outcome(0, p, kind, 0, <<>>) \in Result
        BY <2>1, OutcomeType
    <2>3. QED
        BY <2>1, <2>2, AppendFacts DEF CliGet, Return
<1>5. QED
    BY <1>1, <1>2, <1>3, <1>4 DEF CallerType, ClientType

\* The steps of a Get that only move its place in the program.
LEMMA CliMoves ==
    ASSUME CallerType, TransportType', cpc # "idle", cpc' \in {"response", "report", "drain", "fail"},
           cpc' # "fail" => ~closed'["client"],
           got' \in [status : Nat, lengths : Seq(Int), body : Seq(Byte)],
           err' \in [kind : {"failed", "remote"}, code : Nat],
           cdrained' \in 0..MaxDrain, cdrained' = MaxDrain => cpc' = "fail",
           UNCHANGED <<next, exhausted, broken, cur, results>>
    PROVE  CallerType'
BY DEF CallerType, ClientType

LEMMA CliWriteType ==
    ASSUME CallerType, CliSend \/ CliSendFails \/ CliReport \/ CliReportFails
    PROVE  CallerType'
<1>1. /\ "client" \in Ends /\ cpc # "idle" /\ cpc # "fail"
      /\ cur.id \in 0..MaxStreamID /\ cur.path \in Paths /\ err.code \in Nat
      /\ cdrained # MaxDrain
    BY DEF CliSend, CliSendFails, CliReport, CliReportFails, CallerType, ClientType, Ends
<1>2. Request(cur.id, cur.path) \in Frame /\ Error(err.code) \in Frame
    BY <1>1, RequestFrame, ErrorFrame
<1>3. CASE CliSend
    <2>1. TransportType' /\ ~closed'["client"]
        BY <1>1, <1>2, <1>3, SendKeeps DEF CliSend, CallerType, Send, CanSend
    <2>2. QED
        BY <1>1, <1>3, <2>1, CliMoves DEF CliSend, CallerType, ClientType
<1>4. CASE CliSendFails
    <2>1. TransportType'
        BY <1>1, <1>2, <1>4, SendFailsKeeps DEF CliSendFails, CallerType
    <2>2. QED
        BY <1>1, <1>4, <2>1, CliMoves DEF CliSendFails, AfterFailedSend, CallerType, ClientType
<1>5. CASE CliReport
    <2>1. /\ wire' \in [Ends -> Seq(Frame)] /\ rst' \in [Ends -> BOOLEAN]
          /\ \A x \in Ends : Len(wire[x]) <= Len(wire'[x])
        BY <1>1, <1>2, <1>5, SendType DEF CliReport, CallerType
    <2>2. /\ pos' = pos /\ closed' = closed /\ fin' \in [Ends -> BOOLEAN] /\ ~closed["client"]
        BY <1>5 DEF CliReport, HalfClose, CallerType, TransportType, Send, CanSend
    <2>3. \A x \in Ends : pos[x] <= Len(wire'[x])
        BY <2>1 DEF CallerType, TransportType
    <2>4. TransportType'
        BY <2>1, <2>2, <2>3 DEF CallerType, TransportType
    <2>5. QED
        BY <1>1, <1>5, <2>2, <2>4, CliMoves DEF CliReport, CallerType, ClientType
<1>6. CASE CliReportFails
    <2>1. TransportType'
        BY <1>1, <1>2, <1>6, SendFailsKeeps DEF CliReportFails, CallerType
    <2>2. QED
        BY <1>1, <1>6, <2>1, CliMoves DEF CliReportFails, CallerType, ClientType
<1>7. QED
    BY <1>3, <1>4, <1>5, <1>6

\* Taking a frame keeps the connection well typed.
LEMMA CliTakes ==
    ASSUME CallerType, Readable("client"), Consume("client"), UNCHANGED <<wire, fin, closed, rst>>
    PROVE  TransportType' /\ NextFrame("client") \in Frame
BY ConsumeKeeps, ConsumeType DEF CallerType, Ends

\* The awaited frame, which may end the exchange.
LEMMA AcceptType ==
    ASSUME CallerType, TransportType', cpc \in {"response", "data"}, NEW f,
           NEW g \in [status : Nat, lengths : Seq(Int), body : Seq(Byte)],
           CliAccept(f, g), UNCHANGED <<next, exhausted, broken, err, cdrained, closed>>
    PROVE  CallerType'
<1>1. /\ cdrained # MaxDrain /\ ~closed["client"] /\ ~broken
      /\ cur.id \in 0..MaxStreamID /\ cur.path \in Paths /\ results \in Seq(Result)
    BY DEF CallerType, ClientType
<1>2. CASE "END_STREAM" \in f.flags /\ LengthsAgree(g.lengths, Len(g.body))
    <2>0. g.status \in Nat /\ g.body \in Seq(Byte)
        OBVIOUS
    <2>1. Outcome(cur.id, cur.path, "ok", g.status, g.body) \in Result
        BY <1>1, <2>0, OutcomeType
    <2>2. results' \in Seq(Result)
        <3> DEFINE r == Outcome(cur.id, cur.path, "ok", g.status, g.body)
        <3>1. results' = Append(results, r)
            BY <1>2 DEF CliAccept, Return
        <3> HIDE DEF r
        <3>2. QED
            BY <1>1, <2>1, <3>1, AppendFacts DEF r
    <2>3. /\ cpc' = "idle" /\ got' \in [status : Nat, lengths : Seq(Int), body : Seq(Byte)]
          /\ cur' \in [id : 0..MaxStreamID, path : Paths \cup {Malformed}]
        <3>1. cpc' = "idle" /\ got' = Nothing /\ cur' = NoGet
            BY <1>2 DEF CliAccept
        <3>2. QED
            BY <3>1, FramesAssumption DEF Nothing, NoGet
    <2>4. QED
        BY <1>1, <2>2, <2>3 DEF CallerType, ClientType
<1>3. CASE ~("END_STREAM" \in f.flags /\ LengthsAgree(g.lengths, Len(g.body)))
    <2>1. cpc' \in {"data", "fail"} /\ got' = g /\ UNCHANGED <<cur, results>>
        BY <1>3 DEF CliAccept
    <2>2. QED
        BY <1>1, <2>1 DEF CallerType, ClientType
<1>4. QED
    BY <1>2, <1>3

LEMMA CliReadType ==
    ASSUME CallerType,
           CliSkip \/ CliResponse \/ CliData \/ CliBodyWriteFails \/ CliStray \/ CliRemoteError
           \/ CliReportable
    PROVE  CallerType'
<1> DEFINE f == NextFrame("client")
<1>1. /\ Readable("client") /\ Consume("client") /\ UNCHANGED <<wire, fin, closed, rst>>
      /\ cpc \in {"response", "data"}
    BY DEF CliSkip, CliResponse, CliData, CliBodyWriteFails, CliStray, CliRemoteError,
           CliReportable, CliHead, Waiting
<1>2. TransportType' /\ f \in Frame
    BY <1>1, CliTakes
<1>3. cdrained # MaxDrain /\ ~closed["client"]
    BY <1>1 DEF CallerType
<1>4. f.status \in Nat /\ f.lengths \in Seq(Int) /\ f.data \in Seq(Byte)
    BY <1>2 DEF Frame
<1>5. got.body \in Seq(Byte)
    BY DEF CallerType, ClientType
<1>6. CASE CliSkip
    BY <1>1, <1>2, <1>6 DEF CliSkip, CallerType, ClientType, clientVars
<1>7. CASE CliResponse
    <2>1. CASE f.status = 0
        <3>1. cpc' = "fail" /\ UNCHANGED <<next, exhausted, broken, cur, got, err, cdrained, results>>
            BY <1>7, <2>1 DEF CliResponse
        <3>2. QED
            BY <1>1, <1>2, <1>3, <3>1, CliMoves DEF CallerType, ClientType
    <2>2. CASE f.status # 0
        <3> DEFINE g == [status |-> f.status, lengths |-> f.lengths, body |-> <<>>]
        <3>1. CliAccept(f, g) /\ UNCHANGED <<next, exhausted, broken, err, cdrained, closed>>
            BY <1>7, <2>2 DEF CliResponse
        <3>2. g \in [status : Nat, lengths : Seq(Int), body : Seq(Byte)]
            BY <1>4
        <3> HIDE DEF g
        <3>3. QED
            BY <1>1, <1>2, <3>1, <3>2, AcceptType
    <2>3. QED
        BY <2>1, <2>2
<1>8. CASE CliData
    <2> DEFINE g == [got EXCEPT !.body = @ \o f.data]
    <2>1. CliAccept(f, g) /\ UNCHANGED <<next, exhausted, broken, err, cdrained, closed>>
        BY <1>8 DEF CliData
    <2>2. got.body \o f.data \in Seq(Byte)
        BY <1>4, <1>5
    <2>3. g \in [status : Nat, lengths : Seq(Int), body : Seq(Byte)]
        BY <2>2 DEF CallerType, ClientType
    <2> HIDE DEF g
    <2>4. QED
        BY <1>1, <1>2, <2>1, <2>3, AcceptType
<1>9. CASE CliBodyWriteFails
    <2>1. PICK n \in 0..Len(f.data) : got' = [got EXCEPT !.body = @ \o SubSeq(f.data, 1, n)]
        BY <1>9 DEF CliBodyWriteFails
    <2>2. SubSeq(f.data, 1, n) \in Seq(Byte)
        BY <1>4
    <2>3. got.body \o SubSeq(f.data, 1, n) \in Seq(Byte)
        BY <1>5, <2>2
    <2>4. got' \in [status : Nat, lengths : Seq(Int), body : Seq(Byte)]
        BY <2>1, <2>3 DEF CallerType, ClientType
    <2>5. QED
        BY <1>1, <1>2, <1>3, <1>9, <2>4, CliMoves DEF CliBodyWriteFails, CallerType, ClientType
<1>10. CASE CliStray
    BY <1>1, <1>2, <1>3, <1>10, CliMoves DEF CliStray, CallerType, ClientType
<1>11. CASE CliRemoteError
    BY <1>1, <1>2, <1>3, <1>4, <1>11, CliMoves DEF CliRemoteError, CallerType, ClientType
<1>12. CASE CliReportable
    <2>1. /\ cpc' \in {"report", "fail"} /\ err' \in [kind : {"failed", "remote"}, code : Nat]
          /\ UNCHANGED <<next, exhausted, broken, cur, got, cdrained, results>>
        BY <1>12 DEF CliReportable, CodeFrameTooLarge, CodeInvalidStreamID, CodeProtocolError,
                     CallerType, ClientType
    <2>2. QED
        BY <1>1, <1>2, <1>3, <2>1, CliMoves DEF CallerType, ClientType
<1>13. QED
    BY <1>6, <1>7, <1>8, <1>9, <1>10, <1>11, <1>12

LEMMA CliEndType ==
    ASSUME CallerType, CliReadEnds \/ CliDrain \/ CliDrainEnds \/ CliFail \/ CliClose
    PROVE  CallerType'
<1>1. CASE CliReadEnds \/ CliDrainEnds
    <2>1. /\ TransportType' /\ cpc # "idle" /\ cpc' = "fail"
          /\ UNCHANGED <<next, exhausted, broken, cur, got, err, cdrained, results>>
        BY <1>1 DEF CliReadEnds, CliDrainEnds, Waiting, CallerType, TransportType, tcp
    <2>2. QED
        BY <2>1, CliMoves DEF CallerType, ClientType
<1>2. CASE CliDrain
    <2>1. /\ TransportType' /\ cpc = "drain" /\ closed' = closed
          /\ UNCHANGED <<next, exhausted, broken, cur, got, err, results>>
        BY <1>2, CliTakes DEF CliDrain
    <2>2. cdrained \in 0..MaxDrain /\ cdrained # MaxDrain /\ MaxDrain \in Nat /\ ~closed["client"]
        BY <2>1, TransportAssumption DEF CallerType, ClientType
    <2>3. cdrained' \in 0..MaxDrain
        BY <1>2, <2>2 DEF CliDrain
    <2>4. cpc' \in {"drain", "fail"} /\ (cdrained' = MaxDrain => cpc' = "fail")
        BY <1>2 DEF CliDrain, DrainOver
    <2>5. QED
        BY <2>1, <2>2, <2>3, <2>4, CliMoves DEF CallerType, ClientType
<1>3. CASE CliFail
    <2>1. TransportType'
        BY <1>3, CloseKeeps DEF CliFail, CallerType, Ends
    <2>2. /\ cur.id \in 0..MaxStreamID /\ cur.path \in Paths /\ err.kind \in {"failed", "remote"}
          /\ (IF err.kind = "remote" THEN err.code ELSE 0) \in Nat /\ got.body \in Seq(Byte)
        BY <1>3 DEF CliFail, CallerType, ClientType
    <2>3. Outcome(cur.id, cur.path, err.kind, IF err.kind = "remote" THEN err.code ELSE 0, got.body)
          \in Result
        BY <2>2, OutcomeType
    <2>4. results' \in Seq(Result)
        BY <1>3, <2>3, AppendFacts DEF CliFail, Return, CallerType, ClientType
    <2>5. /\ cpc' = "idle" /\ broken' = TRUE
          /\ got' \in [status : Nat, lengths : Seq(Int), body : Seq(Byte)]
          /\ cur' \in [id : 0..MaxStreamID, path : Paths \cup {Malformed}]
          /\ UNCHANGED <<next, exhausted, err, cdrained>>
        BY <1>3, FramesAssumption DEF CliFail, Breaks, Nothing, NoGet
    <2>6. QED
        BY <2>1, <2>4, <2>5 DEF CallerType, ClientType
<1>4. CASE CliClose
    <2>1. TransportType'
        BY <1>4, CloseKeeps DEF CliClose, CallerType, Ends
    <2>2. QED
        BY <1>4, <2>1 DEF CliClose, CallerType, ClientType, clientVars
<1>5. QED
    BY <1>1, <1>2, <1>3, <1>4

LEMMA CallerTypeStep ==
    ASSUME CallerType, ClientNext
    PROVE  CallerType'
BY GetType, CliWriteType, CliReadType, CliEndType DEF ClientNext, GetStep

LEMMA CallerTypeStays ==
    ASSUME CallerType, TransportType', OtherSide
    PROVE  CallerType'
BY DEF CallerType, ClientType, OtherSide, clientVars

-----------------------------------------------------------------------------
(* What a step of the client sends, takes and returns. *)

Ask == Request(cur.id, cur.path)
Report == Error(err.code)

LEMMA Says ==
    ASSUME CallerType, ClientNext
    PROVE  /\ Received' = Received
           /\ \/ Sent' = Sent
              \/ /\ cpc = "send" /\ Ask \in Frame /\ (CliSend \/ CliSendFails)
                 /\ \/ cpc' = "response" /\ Sent' = Append(Sent, Ask)
                    \/ cpc' = "fail" /\ Sent' = Append(Sent, Cut(Ask))
              \/ /\ cpc = "report" /\ Report \in Frame /\ (CliReport \/ CliReportFails)
                 /\ \/ cpc' = "drain" /\ Sent' = Append(Sent, Report)
                    \/ cpc' = "fail" /\ Sent' = Append(Sent, Cut(Report))
<1>1. "client" \in Ends /\ Peer("client") = "server"
    BY DEF Ends, Peer
<1>2. CASE CliSend \/ CliSendFails
    <2>1. Ask \in Frame
        BY <1>2, RequestFrame DEF CliSend, CliSendFails, CallerType, ClientType, Ask
    <2>2. QED
        BY <1>1, <1>2, <2>1, SendWire, SendFailsWire
           DEF CliSend, CliSendFails, AfterFailedSend, CallerType, Ask, Sent, Received
<1>3. CASE CliReport \/ CliReportFails
    <2>1. Report \in Frame
        BY ErrorFrame DEF CallerType, ClientType, Report
    <2>2. QED
        BY <1>1, <1>3, <2>1, SendWire, SendFailsWire
           DEF CliReport, CliReportFails, CallerType, Report, Sent, Received
<1>4. CASE ~(CliSend \/ CliSendFails \/ CliReport \/ CliReportFails)
    <2>1. wire' = wire
        BY <1>4 DEF ClientNext, GetStep, CliGet, CliSkip, CliResponse, CliData,
            CliBodyWriteFails, CliStray, CliRemoteError, CliReportable, CliReadEnds, CliDrain,
            CliDrainEnds, CliFail, CliClose, tcp
    <2>2. QED
        BY <2>1 DEF Sent, Received
<1>5. QED
    BY <1>2, <1>3, <1>4

LEMMA Hears ==
    ASSUME CallerType, ClientNext
    PROVE  \/ pos' = pos
           \/ /\ Readable("client") /\ Consume("client") /\ wire' = wire
              /\ \/ cpc \in {"response", "data"}
                 \/ cpc = "drain" /\ cpc' \in {"drain", "fail"}
BY DEF ClientNext, GetStep, CliGet, CliSend, CliSendFails, CliSkip, CliResponse, CliData,
       CliBodyWriteFails, CliStray, CliRemoteError, CliReportable, CliReadEnds, CliReport,
       CliReportFails, CliDrain, CliDrainEnds, CliFail, CliClose, CliHead, Waiting, tcp

\* What Get returns, and what becomes of the client.
LEMMA Finishes ==
    ASSUME CallerType, ClientNext
    PROVE  /\ closed["client"] => closed'["client"]
           /\ \/ results' = results /\ broken' = broken
              \/ \E r \in Result :
                    /\ results' = Append(results, r)
                    /\ \/ broken /\ broken' /\ r.kind = "broken"
                       \/ ~broken /\ ~broken' /\ r.kind = "unbuilt"
                       \/ /\ ~broken /\ ~broken' /\ r.kind = "ok"
                          /\ CliResponse \/ CliData
                       \/ /\ ~broken /\ broken' /\ closed'["client"]
                          /\ r.kind \in {"failed", "remote"}
<1>1. closed["client"] => closed'["client"]
    BY DEF ClientNext, GetStep, CliGet, CliSend, CliSendFails, CliSkip, CliResponse, CliData,
       CliBodyWriteFails, CliStray, CliRemoteError, CliReportable, CliReadEnds, CliReport,
       CliReportFails, CliDrain, CliDrainEnds, CliFail, CliClose, CloseSocket, tcp,
       CallerType, TransportType, Ends
<1>2. ASSUME NEW p \in Paths, CliGet(p)
      PROVE  \/ results' = results /\ broken' = broken
             \/ \E r \in Result :
                   /\ results' = Append(results, r)
                   /\ \/ broken /\ broken' /\ r.kind = "broken"
                      \/ ~broken /\ ~broken' /\ r.kind = "unbuilt"
    <2>1. \A kind \in {"broken", "unbuilt"} :
            Outcome(0, p, kind, 0, <<>>) \in Result /\ Outcome(0, p, kind, 0, <<>>).kind = kind
        <3>1. 0 \in 0..MaxStreamID /\ <<>> \in Seq(Byte) /\ 0 \in Nat
            BY FramesAssumption
        <3>2. \A kind \in {"broken", "unbuilt"} : Outcome(0, p, kind, 0, <<>>) \in Result
            BY <3>1, OutcomeType
        <3>3. QED
            BY <3>2 DEF Outcome
    <2>2. \/ results' = results
          \/ broken /\ results' = Append(results, Outcome(0, p, "broken", 0, <<>>))
          \/ ~broken /\ results' = Append(results, Outcome(0, p, "unbuilt", 0, <<>>))
        BY <1>2 DEF CliGet, Return
    <2>3. broken' = broken
        BY <1>2 DEF CliGet
    <2>4. QED
        BY <2>1, <2>2, <2>3
<1>3. CASE CliResponse \/ CliData
    <2>1. broken' = broken /\ ~broken /\ cur.id \in 0..MaxStreamID /\ cur.path \in Paths
        BY <1>3 DEF CliResponse, CliData, CallerType, ClientType
    <2>2. \/ results' = results
          \/ \E st \in Nat, b \in Seq(Byte) :
                results' = Append(results, Outcome(cur.id, cur.path, "ok", st, b))
        <3>1. NextFrame("client").status \in Nat /\ NextFrame("client").data \in Seq(Byte)
            BY <1>3, ConsumeType DEF CliResponse, CliData, CliHead, CallerType, Ends, Frame
        <3>2. CASE CliResponse
            <4> DEFINE g == [status |-> NextFrame("client").status,
                             lengths |-> NextFrame("client").lengths, body |-> <<>>]
            <4>1. g.status \in Nat /\ g.body \in Seq(Byte)
                BY <3>1
            <4>2. \/ results' = results
                  \/ results' = Append(results, Outcome(cur.id, cur.path, "ok", g.status, g.body))
                BY <3>2 DEF CliResponse, CliAccept, Return
            <4> HIDE DEF g
            <4>3. QED
                BY <4>1, <4>2
        <3>3. CASE CliData
            <4> DEFINE g == [got EXCEPT !.body = @ \o NextFrame("client").data]
            <4>1. got.status \in Nat /\ got.body \in Seq(Byte)
                BY DEF CallerType, ClientType
            <4>2. g.status \in Nat /\ g.body \in Seq(Byte)
                BY <3>1, <4>1 DEF CallerType, ClientType
            <4>3. \/ results' = results
                  \/ results' = Append(results, Outcome(cur.id, cur.path, "ok", g.status, g.body))
                BY <3>3 DEF CliData, CliAccept, Return
            <4> HIDE DEF g
            <4>4. QED
                BY <4>2, <4>3
        <3>4. QED
            BY <1>3, <3>2, <3>3
    <2>3. \A st \in Nat, b \in Seq(Byte) :
            LET r == Outcome(cur.id, cur.path, "ok", st, b) IN r \in Result /\ r.kind = "ok"
        BY <2>1, OutcomeType DEF Outcome
    <2>4. QED
        BY <1>1, <1>3, <2>1, <2>2, <2>3
<1>4. CASE CliFail
    <2> DEFINE st == IF err.kind = "remote" THEN err.code ELSE 0
               r == Outcome(cur.id, cur.path, err.kind, st, got.body)
    <2>1. results' = Append(results, r) /\ broken' /\ closed'["client"] /\ ~broken
        BY <1>4 DEF CliFail, Return, Breaks, CloseSocket, CallerType, TransportType, Ends
    <2>2. /\ cur.id \in 0..MaxStreamID /\ cur.path \in Paths /\ err.kind \in {"failed", "remote"}
          /\ st \in Nat /\ got.body \in Seq(Byte)
        BY <1>4 DEF CliFail, CallerType, ClientType
    <2>3. r \in Result /\ r.kind \in {"failed", "remote"}
        BY <2>2, OutcomeType DEF Outcome
    <2>4. QED
        BY <1>1, <2>1, <2>3
<1>5. CASE ~CliFail /\ ~CliResponse /\ ~CliData /\ ~(\E p \in Paths : CliGet(p))
    <2>1. results' = results /\ broken' = broken
        BY <1>5 DEF ClientNext, GetStep, CliSend, CliSendFails, CliSkip,
           CliBodyWriteFails, CliStray, CliRemoteError, CliReportable, CliReadEnds, CliReport,
           CliReportFails, CliDrain, CliDrainEnds, CliClose, clientVars
    <2>2. QED
        BY <1>1, <2>1
<1>6. QED
    BY <1>1, <1>2, <1>3, <1>4, <1>5

-----------------------------------------------------------------------------
(* A failure is final. *)

LEMMA BrokenStep ==
    ASSUME CallerType, BrokenInv, ClientNext
    PROVE  BrokenInv'
<1>1. results \in Seq(Result) /\ broken \in BOOLEAN
    BY DEF CallerType, ClientType
<1>2. CASE results' = results /\ broken' = broken
    BY <1>2, Finishes DEF BrokenInv, BrokenForGood
<1>3. CASE \E r \in Result :
             /\ results' = Append(results, r)
             /\ \/ broken /\ broken' /\ r.kind = "broken"
                \/ ~broken /\ ~broken' /\ r.kind \in {"ok", "unbuilt"}
                \/ ~broken /\ broken' /\ closed'["client"] /\ r.kind \in {"failed", "remote"}
    <2>1. PICK r \in Result :
             /\ results' = Append(results, r)
             /\ \/ broken /\ broken' /\ r.kind = "broken"
                \/ ~broken /\ ~broken' /\ r.kind \in {"ok", "unbuilt"}
                \/ ~broken /\ broken' /\ closed'["client"] /\ r.kind \in {"failed", "remote"}
        BY <1>3
    <2> DEFINE n == Len(results)
    <2>2. /\ n \in Nat /\ Len(results') = n + 1 /\ results'[n + 1] = r
          /\ \A i \in 1..n : results'[i] = results[i]
          /\ DOMAIN results = 1..n /\ DOMAIN results' = 1..(n + 1)
        BY <1>1, <2>1, AppendFacts
    <2>3. results' # <<>> /\ (n = 0 <=> results = <<>>)
        BY <1>1, <2>2
    <2>4. results'[1].kind # "broken"
        <3>1. CASE n = 0
            BY <2>1, <2>2, <2>3, <3>1 DEF BrokenInv
        <3>2. CASE n # 0
            <4>1. 1 \in 1..n
                BY <2>2, <3>2
            <4>2. QED
                BY <2>2, <2>3, <3>2, <4>1 DEF BrokenInv, BrokenForGood
        <3>3. QED
            BY <3>1, <3>2
    <2>5. ASSUME NEW i \in 1..(n + 1), NEW j \in 1..(n + 1), i < j
          PROVE  /\ results'[i].kind \in {"failed", "remote"} => results'[j].kind = "broken"
                 /\ results'[i].kind = "broken" => results'[j].kind = "broken"
        <3>1. i \in 1..n /\ results'[i] = results[i]
            BY <2>2, <2>5
        <3>2. CASE j = n + 1
            BY <2>1, <2>2, <3>1, <3>2 DEF BrokenInv
        <3>3. CASE j # n + 1
            <4>1. j \in 1..n /\ results'[j] = results[j]
                BY <2>2, <3>3
            <4>2. QED
                BY <2>2, <2>5, <3>1, <4>1 DEF BrokenInv, BrokenForGood
        <3>4. QED
            BY <3>2, <3>3
    <2>6. ~broken' => \A i \in 1..(n + 1) : results'[i].kind \in {"ok", "unbuilt"}
        BY <2>1, <2>2 DEF BrokenInv
    <2>7. broken' => closed'["client"]
        BY <2>1, Finishes DEF BrokenInv, BrokenForGood
    <2>8. QED
        BY <2>2, <2>3, <2>4, <2>5, <2>6, <2>7 DEF BrokenInv, BrokenForGood
<1>4. QED
    BY <1>2, <1>3, Finishes

-----------------------------------------------------------------------------
(* Stream ids only grow. *)

\* A request that is sent carries an id above all others.
LEMMA IdsSend ==
    ASSUME CallerType, IdsInv, cpc = "send", cpc' # "send", NEW f \in Frame,
           f.type = "REQUEST", f.stream = cur.id, Sent' = Append(Sent, f),
           UNCHANGED <<next, exhausted>>
    PROVE  IdsInv'
<1> DEFINE n == Len(Sent)
<1>1. Sent \in Seq(Frame)
    BY DEF CallerType, TransportType, Ends, Sent
<1>2. /\ n \in Nat /\ Sent'[n + 1] = f /\ \A i \in 1..n : Sent'[i] = Sent[i]
      /\ DOMAIN Sent = 1..n /\ DOMAIN Sent' = 1..(n + 1)
    BY <1>1, AppendFacts
<1>3. Requests \subseteq 1..n /\ Requests' = Requests \cup {n + 1}
    BY <1>2 DEF Requests
<1>4. /\ cur.id > 0 /\ (cur.id < next \/ exhausted)
      /\ \A k \in Requests : Sent[k].stream < cur.id
    BY DEF IdsInv
<1>5. \A k \in Requests : Sent'[k] = Sent[k]
    BY <1>2, <1>3
<1>6. \A k \in Requests : ~(n + 1 < k)
    BY <1>2, <1>3
<1>7. \A k \in Requests' : Sent'[k].stream > 0
    BY <1>2, <1>3, <1>4, <1>5 DEF IdsInv, IdsOnlyGrow
<1>8. \A i, j \in Requests' : i < j => Sent'[i].stream < Sent'[j].stream
    <2> SUFFICES ASSUME NEW i \in Requests', NEW j \in Requests', i < j
                 PROVE  Sent'[i].stream < Sent'[j].stream
        OBVIOUS
    <2>1. i \in Requests
        BY <1>2, <1>3, <1>6
    <2>2. CASE j \in Requests
        BY <1>5, <2>1, <2>2 DEF IdsInv, IdsOnlyGrow
    <2>3. CASE j = n + 1
        BY <1>2, <1>4, <1>5, <2>1, <2>3
    <2>4. QED
        BY <1>3, <2>2, <2>3
<1>9. \A k \in Requests' : Sent'[k].stream < next \/ exhausted
    BY <1>2, <1>3, <1>4, <1>5 DEF IdsInv
<1>10. QED
    BY <1>7, <1>8, <1>9 DEF IdsInv, IdsOnlyGrow

\* Anything else leaves the ids alone.
LEMMA IdsStay ==
    ASSUME CallerType, IdsInv, UNCHANGED <<next, exhausted>>,
           cpc' = "send" => cpc = "send" /\ cur' = cur,
           Sent' = Sent \/ \E f \in Frame : f.type # "REQUEST" /\ Sent' = Append(Sent, f)
    PROVE  IdsInv'
<1>1. Sent \in Seq(Frame)
    BY DEF CallerType, TransportType, Ends, Sent
<1>2. Requests' = Requests /\ \A k \in Requests : Sent'[k] = Sent[k]
    <2>1. CASE Sent' = Sent
        BY <2>1, SMTT(60) DEF Requests
    <2>2. ASSUME NEW f \in Frame, f.type # "REQUEST", Sent' = Append(Sent, f)
          PROVE  Requests' = Requests /\ \A k \in Requests : Sent'[k] = Sent[k]
        <3> DEFINE n == Len(Sent)
        <3>1. /\ n \in Nat /\ Sent'[n + 1] = f /\ \A i \in 1..n : Sent'[i] = Sent[i]
              /\ DOMAIN Sent = 1..n /\ DOMAIN Sent' = 1..(n + 1)
            BY <1>1, <2>2, AppendFacts
        <3>2. 1..(n + 1) = 1..n \cup {n + 1}
            BY <3>1
        <3>3. QED
            BY <2>2, <3>1, <3>2 DEF Requests
    <2>3. QED
        BY <2>1, <2>2
<1>3. QED
    BY <1>2 DEF IdsInv, IdsOnlyGrow

LEMMA IdsStep ==
    ASSUME CallerType, IdsInv, ClientNext
    PROVE  IdsInv'
<1>1. CASE CliSend \/ CliSendFails
    <2>1. cpc = "send" /\ cpc' # "send" /\ UNCHANGED <<next, exhausted>>
        BY <1>1 DEF CliSend, CliSendFails, AfterFailedSend
    <2>2. CASE Sent' = Sent
        BY <2>1, <2>2, IdsStay
    <2>3. CASE Sent' # Sent
        <3>1. PICK f \in {Ask, Cut(Ask)} : Ask \in Frame /\ Sent' = Append(Sent, f)
            BY <2>1, <2>3, Says
        <3>2. f \in Frame /\ f.type = "REQUEST" /\ f.stream = cur.id
            BY <3>1, CutFrame DEF Ask, Request, Whole, Cut
        <3>3. QED
            BY <2>1, <3>1, <3>2, IdsSend
    <2>4. QED
        BY <2>2, <2>3
<1>2. ASSUME NEW p \in Paths, CliGet(p)
      PROVE  IdsInv'
    <2>1. Sent' = Sent /\ Requests' = Requests
        BY <1>2 DEF CliGet, Sent, tcp, Requests
    <2>2. /\ next \in 1..MaxStreamID /\ \A k \in Requests : Sent[k].stream \in 0..MaxStreamID
        <3>1. next \in 1..MaxStreamID /\ Sent \in Seq(Frame)
            BY DEF CallerType, ClientType, TransportType, Ends, Sent
        <3>2. \A k \in Requests : Sent[k] \in Frame
            BY <3>1 DEF Requests
        <3>3. QED
            BY <3>1, <3>2 DEF Frame
    <2>3. CASE UNCHANGED <<next, exhausted>> /\ cpc' # "send"
        BY <2>1, <2>3, IdsStay
    <2>4. CASE TakeId /\ ~exhausted /\ (cpc' = "send" => cur'.id = next)
        <3>1. /\ next' \in 1..MaxStreamID /\ exhausted' \in BOOLEAN
              /\ next < next' \/ exhausted'
            BY <2>4, TakeIdType DEF CallerType
        <3>2. \A k \in Requests : Sent[k].stream < next
            BY <2>4 DEF IdsInv
        <3>3. \A k \in Requests : Sent[k].stream < next' \/ exhausted'
            BY <2>2, <3>1, <3>2
        <3>4. QED
            BY <2>1, <2>2, <2>4, <3>1, <3>2, <3>3 DEF IdsInv, IdsOnlyGrow
    <2>5. QED
        BY <1>2, <2>3, <2>4 DEF CliGet
<1>3. CASE ~CliSend /\ ~CliSendFails /\ ~(\E p \in Paths : CliGet(p))
    <2>1. UNCHANGED <<next, exhausted>> /\ (cpc' = "send" => cpc = "send" /\ cur' = cur)
        BY <1>3 DEF ClientNext, GetStep, CliSkip, CliResponse, CliData, CliAccept,
           CliBodyWriteFails, CliStray, CliRemoteError, CliReportable, CliReadEnds, CliReport,
           CliReportFails, CliDrain, CliDrainEnds, CliFail, CliClose, clientVars
    <2>2. Sent' = Sent \/ \E f \in Frame : f.type # "REQUEST" /\ Sent' = Append(Sent, f)
        <3>1. Report \in Frame => /\ Cut(Report) \in Frame
                                  /\ Report.type = "ERROR" /\ Cut(Report).type = "ERROR"
            BY CutFrame DEF Report, Error, Whole, Cut
        <3>2. QED
            BY <1>3, <3>1, Says
    <2>3. QED
        BY <2>1, <2>2, IdsStay
<1>4. QED
    BY <1>1, <1>2, <1>3

-----------------------------------------------------------------------------
(* Nothing follows an error. *)

LEMMA ErrorHeard ==
    ASSUME CallerType, ClientNext
    PROVE  ErrorTaken' =>
             \/ ErrorTaken
             \/ cpc \in {"response", "data"} /\ cpc' = "fail"
             \/ cpc = "drain" /\ cpc' \in {"drain", "fail"}
<1>1. Received' = Received
    BY Says
<1>2. CASE pos' = pos
    BY <1>1, <1>2 DEF ErrorTaken
<1>3. CASE Readable("client") /\ Consume("client") /\ cpc \in {"response", "data"}
    <2> DEFINE f == NextFrame("client")
               n == pos["client"]
    <2>1. n \in Nat /\ pos'["client"] = n + 1 /\ f = Received[n + 1]
        BY <1>3 DEF Consume, NextFrame, Received, CallerType, TransportType, Ends
    <2>2. 1..(n + 1) = 1..n \cup {n + 1}
        BY <2>1
    <2>3. ErrorTaken' => ErrorTaken \/ f.type = "ERROR"
        BY <1>1, <2>1, <2>2 DEF ErrorTaken
    <2>4. pos' # pos
        BY <2>1
    <2>5. f.type = "ERROR" => cpc' = "fail"
        BY <1>3, <2>4 DEF ClientNext, GetStep, CliGet, CliSend, CliSendFails, CliSkip,
           CliResponse, CliData, CliBodyWriteFails, CliStray, CliRemoteError, CliReportable,
           CliReadEnds, CliReport, CliReportFails, CliDrain, CliDrainEnds, CliFail, CliClose,
           CliHead, Verdict, KnownTypes, NeedsStream, Reported, tcp
    <2>6. QED
        BY <1>3, <2>3, <2>5
<1>4. CASE cpc = "drain" /\ cpc' \in {"drain", "fail"}
    BY <1>4
<1>5. QED
    BY <1>2, <1>3, <1>4, Hears

LEMMA EndHeard ==
    ASSUME CallerType, ClientNext
    PROVE  EndSent' => EndSent \/ cpc' \in {"drain", "fail"}
<1>1. Sent \in Seq(Frame)
    BY DEF CallerType, TransportType, Ends, Sent
<1>2. CASE Sent' = Sent
    BY <1>2 DEF EndSent
<1>3. CASE Ask \in Frame /\ Sent' = Append(Sent, Ask)
    <2> DEFINE n == Len(Sent)
    <2>1. /\ n \in Nat /\ Sent'[n + 1] = Ask /\ \A i \in 1..n : Sent'[i] = Sent[i]
          /\ DOMAIN Sent = 1..n /\ DOMAIN Sent' = 1..(n + 1)
        BY <1>1, <1>3, AppendFacts
    <2>2. 1..(n + 1) = 1..n \cup {n + 1}
        BY <2>1
    <2>3. Ask.shape = "whole" /\ Ask.type = "REQUEST"
        BY DEF Ask, Request, Whole
    <2>4. QED
        BY <2>1, <2>2, <2>3 DEF EndSent
<1>4. QED
    BY <1>2, <1>3, Says

LEMMA EndStep ==
    ASSUME CallerType, EndInv, ClientNext
    PROVE  EndInv'
<1> SUFFICES ASSUME ErrorTaken' \/ EndSent', cpc' \notin {"fail", "drain"}
             PROVE  broken'
    BY DEF EndInv
<1>1. ErrorTaken \/ EndSent
    BY ErrorHeard, EndHeard
<1>2. broken \/ cpc \in {"fail", "drain"}
    BY <1>1 DEF EndInv
<1>3. CASE broken
    BY <1>3, Finishes
<1>4. CASE cpc \in {"fail", "drain"}
    BY <1>4 DEF ClientNext, GetStep, CliGet, CliSend, CliSendFails, CliSkip,
       CliResponse, CliData, CliBodyWriteFails, CliStray, CliRemoteError, CliReportable,
       CliReadEnds, CliReport, CliReportFails, CliDrain, CliDrainEnds, CliFail, CliClose,
       CliHead, Waiting, Breaks
<1>5. QED
    BY <1>2, <1>3, <1>4

\* A client that has heard or sent the end says nothing more.
LEMMA EndIsSilent ==
    ASSUME CallerType, EndInv, ClientNext, ErrorTaken \/ EndSent
    PROVE  Sent' = Sent
BY Says DEF EndInv, CallerType

-----------------------------------------------------------------------------
(* Reports survive. *)

LEMMA ReportGone ==
    ASSUME CallerType, ClientNext, Sent' # Sent, ReportSent'
    PROVE  cpc' = "drain"
<1>1. Sent \in Seq(Frame)
    BY DEF CallerType, TransportType, Ends, Sent
<1>2. \A f \in Frame : Cut(f) \in Frame /\ Cut(f).shape = "cut"
    BY CutFrame DEF Cut, Frame
<1>3. \A f \in Frame : Sent' = Append(Sent, f) => Last(Sent)' = f
    BY <1>1, AppendFacts DEF Last
<1>4. Ask.type = "REQUEST"
    BY DEF Ask, Request, Whole
<1>5. QED
    BY <1>2, <1>3, <1>4, Says DEF ReportSent

LEMMA DrainedStep ==
    ASSUME "timeout" \notin Faults, CallerType, EndInv, BrokenInv, ResetsFromClosed,
           ReportDrained, ClientNext
    PROVE  ReportDrained'
<1> SUFFICES ASSUME ReportSent', cpc' # "drain"
             PROVE  /\ cpc' = "fail" \/ broken'
                    /\ \/ cdrained' = MaxDrain
                       \/ /\ ~rst'["server"]
                          /\ \/ closed'["server"]
                             \/ fin'["server"] /\ pos'["client"] = Len(Received')
    BY DEF ReportDrained
<1>1. Sent' = Sent /\ Received' = Received
    BY ReportGone, Says
<1>2. ReportSent
    BY <1>1 DEF ReportSent
<1>3. Sent \in Seq(Frame)
    BY DEF CallerType, TransportType, Ends, Sent
<1>4. EndSent
    BY <1>2, <1>3 DEF ReportSent, EndSent, Last
<1>5. broken \/ cpc \in {"fail", "drain"}
    BY <1>4 DEF EndInv
<1>6. /\ closed \in [Ends -> BOOLEAN] /\ rst \in [Ends -> BOOLEAN] /\ fin \in [Ends -> BOOLEAN]
      /\ pos \in [Ends -> Nat] /\ wire \in [Ends -> Seq(Frame)]
      /\ Peer("client") = "server" /\ Peer("server") = "client"
    BY DEF CallerType, TransportType, Peer, Ends
<1>7. CASE cpc = "drain"
    <2>1. CliDrain \/ CliDrainEnds
        BY <1>7 DEF ClientNext, GetStep, CliGet, CliSend, CliSendFails, CliSkip,
           CliResponse, CliData, CliBodyWriteFails, CliStray, CliRemoteError, CliReportable,
           CliReadEnds, CliReport, CliReportFails, CliFail, CliClose, CliHead, Waiting
    <2>2. CASE CliDrain
        BY <2>2 DEF CliDrain, DrainOver
    <2>3. CASE CliDrainEnds
        <3>1. InputEnds("client") /\ cpc' = "fail" /\ UNCHANGED tcp /\ ~closed["client"]
            BY <2>3, <1>7 DEF CliDrainEnds, CliDrained, CallerType
        <3>2. ~rst["server"] /\ (rst["client"] => closed["server"])
            BY <1>6, <3>1 DEF ResetsFromClosed, Ends
        <3>3. QED
            BY <1>6, <3>1, <3>2 DEF InputEnds, Received, tcp
    <2>4. QED
        BY <2>1, <2>2, <2>3
<1>8. CASE cpc = "fail"
    <2>1. CliFail
        BY <1>8 DEF ClientNext, GetStep, CliGet, CliSend, CliSendFails, CliSkip,
           CliResponse, CliData, CliBodyWriteFails, CliStray, CliRemoteError, CliReportable,
           CliReadEnds, CliReport, CliReportFails, CliDrain, CliDrainEnds, CliClose, CliHead,
           Waiting
    <2>2. /\ UNCHANGED <<wire, pos, cdrained>> /\ broken'
          /\ closed'["server"] = closed["server"] /\ fin'["server"] = fin["server"]
          /\ rst'["server"] => rst["server"] \/ (~closed["server"] /\ InFlight("client") > 0)
        BY <1>6, <2>1 DEF CliFail, Breaks, CloseSocket, Ends
    <2>3. pos["client"] = Len(Received) => ~(InFlight("client") > 0)
        BY <1>6 DEF InFlight, Received, Ends
    <2>4. QED
        BY <1>1, <1>2, <1>6, <1>8, <2>2, <2>3 DEF ReportDrained
<1>9. CASE broken
    <2>1. cpc = "idle" /\ closed["client"]
        BY <1>9 DEF CallerType, BrokenInv, BrokenForGood
    <2>2. \E p \in Paths : CliGet(p)
        BY <2>1 DEF ClientNext, GetStep, CliSend, CliSendFails, CliSkip,
           CliResponse, CliData, CliBodyWriteFails, CliStray, CliRemoteError, CliReportable,
           CliReadEnds, CliReport, CliReportFails, CliDrain, CliDrainEnds, CliFail, CliClose,
           CliHead, Waiting
    <2>3. UNCHANGED <<tcp, broken, cdrained>>
        BY <2>2 DEF CliGet
    <2>4. QED
        BY <1>1, <1>2, <1>9, <2>1, <2>3 DEF ReportDrained, tcp
<1>10. QED
    BY <1>5, <1>7, <1>8, <1>9

-----------------------------------------------------------------------------
(* Stretches of frames and the bytes in them. *)

\* What comes behind a stretch does not change it.
LEMMA StretchKept ==
    ASSUME NEW n \in Nat, NEW s, NEW t, \A k \in 1..n : t[k] = s[k],
           NEW j \in 1..n, NEW l \in j..n, NEW id, Stretch(s, j, l, id)
    PROVE  Stretch(t, j, l, id)
<1>1. \A k \in j..l : t[k] = s[k]
    OBVIOUS
<1>2. j \in j..l
    OBVIOUS
<1>3. QED
    BY <1>1, <1>2 DEF Stretch

LEMMA GatheredKept ==
    ASSUME NEW n \in Nat, NEW s, NEW t, \A k \in 1..n : t[k] = s[k],
           NEW j \in 1..n, NEW l \in j..n, NEW body, Gathered(s, j, l, body)
    PROVE  Gathered(t, j, l, body)
<1>1. \A k \in (j + 1)..l : t[k] = s[k]
    OBVIOUS
<1>2. PICK at \in [j..l -> 0..Len(body)] :
        /\ at[j] = 0 /\ at[l] = Len(body)
        /\ \A k \in (j + 1)..l : Adds(s[k], body, at[k - 1], at[k])
    BY DEF Gathered
<1>3. \A k \in (j + 1)..l : Adds(t[k], body, at[k - 1], at[k])
    BY <1>1, <1>2
<1>4. QED
    BY <1>2, <1>3 DEF Gathered

LEMMA ExchangeKept ==
    ASSUME NEW n \in Nat, NEW s, NEW t, \A k \in 1..n : t[k] = s[k],
           NEW j \in 1..n, NEW l \in j..n, NEW r, Exchange(s, j, l, r)
    PROVE  Exchange(t, j, l, r)
<1>1. t[j] = s[j] /\ t[l] = s[l]
    OBVIOUS
<1>2. QED
    BY <1>1, StretchKept, GatheredKept DEF Exchange

\* One more frame.
LEMMA StretchMore ==
    ASSUME NEW s, NEW j \in Nat, NEW l \in Nat, j <= l, NEW id, Stretch(s, j, l, id),
           Verdict(s[l]) = "skip" \/ "END_STREAM" \notin s[l].flags,
           \/ Verdict(s[l + 1]) = "skip"
           \/ Verdict(s[l + 1]) = "frame" /\ s[l + 1].stream = id /\ s[l + 1].type = "DATA"
    PROVE  Stretch(s, j, l + 1, id)
<1>1. \A k \in j..(l + 1) : k \in j..l \/ (k = l + 1 /\ k > j)
    OBVIOUS
<1>2. ASSUME NEW k \in j..l
      PROVE  \/ k > j /\ Verdict(s[k]) = "skip"
             \/ /\ Verdict(s[k]) = "frame" /\ s[k].stream = id
                /\ k > j => s[k].type = "DATA"
                /\ "END_STREAM" \notin s[k].flags
    BY DEF Stretch
<1>3. s[j].type = "RESPONSE"
    BY DEF Stretch
<1>4. QED
    BY <1>1, <1>2, <1>3 DEF Stretch

LEMMA StretchOne ==
    ASSUME NEW s, NEW j \in Nat, s[j].type = "RESPONSE", Verdict(s[j]) = "frame"
    PROVE  Stretch(s, j, j, s[j].stream) /\ Gathered(s, j, j, <<>>)
<1>1. \A k \in j..j : k = j
    OBVIOUS
<1>2. Stretch(s, j, j, s[j].stream)
    BY <1>1 DEF Stretch
<1>3. Gathered(s, j, j, <<>>)
    <2> DEFINE at == [k \in j..j |-> 0]
    <2>1. Len(<<>>) = 0 /\ at \in [j..j -> 0..Len(<<>>)] /\ at[j] = 0 /\ (j + 1)..j = {}
        OBVIOUS
    <2> HIDE DEF at
    <2>2. QED
        BY <2>1 DEF Gathered
<1>4. QED
    BY <1>2, <1>3

LEMMA GatheredSkip ==
    ASSUME NEW s, NEW j \in Nat, NEW l \in Nat, j <= l, NEW body \in Seq(Byte),
           Gathered(s, j, l, body), Verdict(s[l + 1]) = "skip"
    PROVE  Gathered(s, j, l + 1, body)
<1>1. PICK at \in [j..l -> 0..Len(body)] :
        /\ at[j] = 0 /\ at[l] = Len(body)
        /\ \A k \in (j + 1)..l : Adds(s[k], body, at[k - 1], at[k])
    BY DEF Gathered
<1> DEFINE up == [k \in j..(l + 1) |-> IF k = l + 1 THEN Len(body) ELSE at[k]]
<1>2. Len(body) \in Nat
    OBVIOUS
<1>3. \A k \in j..l : up[k] = at[k]
    OBVIOUS
<1>4. up[l + 1] = Len(body) /\ up \in [j..(l + 1) -> 0..Len(body)]
    BY <1>2
<1>5. \A k \in (j + 1)..(l + 1) : k = l + 1 \/ (k \in (j + 1)..l /\ k \in j..l /\ k - 1 \in j..l)
    OBVIOUS
<1>6. l \in j..l /\ j \in j..l /\ (l + 1) - 1 = l
    OBVIOUS
<1> HIDE DEF up
<1>7. Adds(s[l + 1], body, up[(l + 1) - 1], up[l + 1])
    BY <1>1, <1>3, <1>4, <1>6 DEF Adds
<1>8. \A k \in (j + 1)..(l + 1) : Adds(s[k], body, up[k - 1], up[k])
    <2> TAKE k \in (j + 1)..(l + 1)
    <2>1. CASE k = l + 1
        BY <1>7, <2>1
    <2>2. CASE k \in (j + 1)..l /\ k \in j..l /\ k - 1 \in j..l
        BY <1>1, <1>3, <2>2
    <2>3. QED
        BY <1>5, <2>1, <2>2
<1>9. up[j] = 0
    BY <1>1, <1>3, <1>6
<1>10. QED
    BY <1>4, <1>8, <1>9 DEF Gathered

\* Longer bytes contain the shorter ones.
LEMMA AddsLonger ==
    ASSUME NEW f, f.data \in Seq(Byte), NEW body, NEW more, NEW a \in Nat, NEW b \in Nat,
           NEW n \in Nat, b <= n, \A i \in 1..n : more[i] = body[i], Adds(f, body, a, b)
    PROVE  Adds(f, more, a, b)
<1>1. CASE Verdict(f) = "skip"
    BY <1>1 DEF Adds
<1>2. CASE Verdict(f) # "skip"
    <2>1. Len(f.data) \in Nat
        OBVIOUS
    <2>2. b = a + Len(f.data) /\ \A m \in 1..Len(f.data) : body[a + m] = f.data[m]
        BY <1>2 DEF Adds
    <2>3. \A m \in 1..Len(f.data) : a + m \in 1..n
        BY <2>1, <2>2
    <2>4. QED
        BY <1>2, <2>2, <2>3 DEF Adds
<1>3. QED
    BY <1>1, <1>2

LEMMA ConcatFacts ==
    ASSUME NEW S, NEW a \in Seq(S), NEW b \in Seq(S)
    PROVE  /\ a \o b \in Seq(S) /\ Len(a \o b) = Len(a) + Len(b)
           /\ \A i \in 1..Len(a) : (a \o b)[i] = a[i]
           /\ \A i \in 1..Len(b) : (a \o b)[Len(a) + i] = b[i]
OBVIOUS

LEMMA GatheredData ==
    ASSUME NEW s, NEW j \in Nat, NEW l \in Nat, j <= l, NEW body \in Seq(Byte),
           \A k \in j..(l + 1) : s[k].data \in Seq(Byte),
           Gathered(s, j, l, body), Verdict(s[l + 1]) # "skip"
    PROVE  Gathered(s, j, l + 1, body \o s[l + 1].data)
<1> DEFINE d == s[l + 1].data
           more == body \o d
           n == Len(body)
<1>1. PICK at \in [j..l -> 0..n] :
        /\ at[j] = 0 /\ at[l] = n
        /\ \A k \in (j + 1)..l : Adds(s[k], body, at[k - 1], at[k])
    BY DEF Gathered
<1>2. d \in Seq(Byte) /\ Len(d) \in Nat /\ n \in Nat
    OBVIOUS
<1>3. /\ Len(more) = n + Len(d) /\ \A i \in 1..n : more[i] = body[i]
      /\ \A i \in 1..Len(d) : more[n + i] = d[i]
    BY <1>2, ConcatFacts
<1> HIDE DEF more
<1> DEFINE up == [k \in j..(l + 1) |-> IF k = l + 1 THEN n + Len(d) ELSE at[k]]
<1>4. \A k \in j..l : up[k] = at[k] /\ at[k] \in Nat /\ at[k] <= n
    BY <1>2
<1>5. \A k \in j..(l + 1) : k = l + 1 \/ k \in j..l
    OBVIOUS
<1>6. \A k \in j..(l + 1) : up[k] \in 0..Len(more)
    BY <1>2, <1>3, <1>4, <1>5
<1>7. up[l + 1] = n + Len(d) /\ up \in [j..(l + 1) -> 0..Len(more)]
    BY <1>3, <1>6
<1>8. \A k \in (j + 1)..(l + 1) : k = l + 1 \/ (k \in (j + 1)..l /\ k \in j..l /\ k - 1 \in j..l)
    OBVIOUS
<1>9. l \in j..l /\ j \in j..l /\ (l + 1) - 1 = l
    OBVIOUS
<1> HIDE DEF up
<1>10. Adds(s[l + 1], more, up[(l + 1) - 1], up[l + 1])
    <2>1. up[l] = n
        BY <1>1, <1>4, <1>9
    <2>2. QED
        BY <1>3, <1>7, <1>9, <2>1 DEF Adds
<1>11. \A k \in (j + 1)..(l + 1) : Adds(s[k], more, up[k - 1], up[k])
    <2> TAKE k \in (j + 1)..(l + 1)
    <2>1. CASE k = l + 1
        BY <1>10, <2>1
    <2>2. CASE k \in (j + 1)..l /\ k \in j..l /\ k - 1 \in j..l
        <3>1. /\ up[k] = at[k] /\ up[k - 1] = at[k - 1] /\ at[k] <= n
              /\ at[k] \in Nat /\ at[k - 1] \in Nat
            BY <1>4, <2>2
        <3>2. s[k].data \in Seq(Byte) /\ Adds(s[k], body, at[k - 1], at[k])
            BY <1>1, <2>2
        <3>3. \A i \in 1..n : more[i] = body[i]
            BY <1>3
        <3> HIDE DEF n, d
        <3>4. Adds(s[k], more, at[k - 1], at[k])
            BY <1>2, <3>1, <3>2, <3>3, AddsLonger, Zenon
        <3>5. QED
            BY <3>1, <3>4
    <2>3. QED
        BY <1>8, <2>1, <2>2
<1>12. up[j] = 0
    BY <1>1, <1>4, <1>9
<1>13. Gathered(s, j, l + 1, more)
    BY <1>3, <1>7, <1>11, <1>12 DEF Gathered
<1>14. QED
    BY <1>13 DEF more

-----------------------------------------------------------------------------
(* Only whole answers. *)

\* What was answered stays answered; a new answer has to be shown.
LEMMA WholeKept ==
    ASSUME CallerType, OnlyWholeAnswers, NEW n \in Nat, NEW m \in Nat, n <= m,
           n = pos["client"], m = pos'["client"],
           \A k \in 1..n : Received'[k] = Received[k],
           \/ results' = results
           \/ \E r \in Result : /\ results' = Append(results, r)
                                /\ r.kind = "ok" => \E j \in 1..m : \E l \in j..m :
                                                       Exchange(Received', j, l, r)
    PROVE  OnlyWholeAnswers'
<1>1. results \in Seq(Result)
    BY DEF CallerType, ClientType
<1>2. ASSUME NEW i \in DOMAIN results, results[i].kind = "ok"
      PROVE  \E j \in 1..m : \E l \in j..m : Exchange(Received', j, l, results[i])
    <2>1. PICK j \in 1..n : \E l \in j..n : Exchange(Received, j, l, results[i])
        BY <1>2 DEF OnlyWholeAnswers
    <2>2. PICK l \in j..n : Exchange(Received, j, l, results[i])
        BY <2>1
    <2>3. Exchange(Received', j, l, results[i])
        BY <2>2, ExchangeKept
    <2>4. j \in 1..m /\ l \in j..m
        OBVIOUS
    <2>5. QED
        BY <2>3, <2>4
<1>3. CASE results' = results
    BY <1>2, <1>3 DEF OnlyWholeAnswers
<1>4. ASSUME NEW r \in Result, results' = Append(results, r),
             r.kind = "ok" => \E j \in 1..m : \E l \in j..m : Exchange(Received', j, l, r)
      PROVE  OnlyWholeAnswers'
    <2>1. /\ DOMAIN results = 1..Len(results) /\ DOMAIN results' = 1..(Len(results) + 1)
          /\ results'[Len(results) + 1] = r /\ Len(results) \in Nat
          /\ \A i \in 1..Len(results) : results'[i] = results[i]
        BY <1>1, <1>4, AppendFacts
    <2>2. ASSUME NEW i \in DOMAIN results', results'[i].kind = "ok"
          PROVE  \E j \in 1..m : \E l \in j..m : Exchange(Received', j, l, results'[i])
        <3>1. CASE i = Len(results) + 1
            BY <1>4, <2>1, <2>2, <3>1
        <3>2. CASE i # Len(results) + 1
            <4>1. i \in DOMAIN results /\ results'[i] = results[i]
                BY <2>1, <3>2
            <4>2. QED
                BY <1>2, <2>2, <4>1
        <3>3. QED
            BY <3>1, <3>2, SMTT(60)
    <2>3. QED
        BY <2>2 DEF OnlyWholeAnswers
<1>5. QED
    BY <1>3, <1>4

\* The awaited frame ends a stretch: either there is more to come, or the lengths
\* decide.
LEMMA AcceptAnswers ==
    ASSUME CallerType, CallerType', AnswersInv, NEW n \in Nat, n = pos["client"],
           pos'["client"] = n + 1, Received' = Received, NEW f, f = Received[n + 1],
           NEW g \in [status : Nat, lengths : Seq(Int), body : Seq(Byte)],
           NEW j \in 1..(n + 1), Stretch(Received, j, n + 1, cur.id), Verdict(f) = "frame",
           Gathered(Received, j, n + 1, g.body), Received[j].status = g.status, g.status # 0,
           Received[j].lengths = g.lengths, CliAccept(f, g)
    PROVE  AnswersInv'
<1>1. n + 1 \in j..(n + 1)
    OBVIOUS
<1>2. CASE "END_STREAM" \notin f.flags
    <2>1. cpc' = "data" /\ got' = g /\ UNCHANGED <<cur, results>>
        BY <1>2 DEF CliAccept
    <2>2. Gathering'
        BY <1>2, <2>1 DEF Gathering
    <2>3. OnlyWholeAnswers'
        BY <2>1, WholeKept DEF AnswersInv
    <2>4. QED
        BY <2>2, <2>3 DEF AnswersInv
<1>3. CASE "END_STREAM" \in f.flags /\ LengthsAgree(g.lengths, Len(g.body))
    <2> DEFINE r == Outcome(cur.id, cur.path, "ok", g.status, g.body)
    <2>1. cpc' = "idle" /\ results' = Append(results, r)
        BY <1>3 DEF CliAccept, Return
    <2>2. r.id = cur.id /\ r.status = g.status /\ r.body = g.body
        BY DEF Outcome
    <2>3. r \in Result
        <3>1. results' \in Seq(Result) /\ results \in Seq(Result)
            BY DEF CallerType, ClientType
        <3>2. results'[Len(results) + 1] = r /\ Len(results') = Len(results) + 1
            BY <2>1, <3>1
        <3>3. QED
            BY <3>1, <3>2
    <2> HIDE DEF r
    <2>4. Exchange(Received', j, n + 1, r)
        BY <1>3, <2>2 DEF Exchange, LengthsAgree
    <2>5. OnlyWholeAnswers'
        <3>1. n + 1 \in Nat /\ n <= n + 1
            OBVIOUS
        <3>2. \E jj \in 1..(n + 1) : \E l \in jj..(n + 1) : Exchange(Received', jj, l, r)
            BY <1>1, <2>4
        <3>3. QED
            BY <2>1, <2>3, <3>1, <3>2, WholeKept DEF AnswersInv
    <2>6. QED
        BY <2>1, <2>5 DEF AnswersInv
<1>4. CASE "END_STREAM" \in f.flags /\ ~LengthsAgree(g.lengths, Len(g.body))
    <2>1. cpc' = "fail" /\ UNCHANGED results
        BY <1>4 DEF CliAccept
    <2>2. OnlyWholeAnswers'
        BY <2>1, WholeKept DEF AnswersInv
    <2>3. QED
        BY <2>1, <2>2 DEF AnswersInv
<1>5. QED
    BY <1>2, <1>3, <1>4

LEMMA AnswersStep ==
    ASSUME CallerType, CallerType', AnswersInv, ClientNext
    PROVE  AnswersInv'
<1> DEFINE f == NextFrame("client")
<1>1. PICK n \in Nat : n = pos["client"]
    BY DEF CallerType, TransportType, Ends
<1>2. Received \in Seq(Frame) /\ Received' = Received
    BY Says DEF CallerType, TransportType, Ends, Received
<1>3. CASE CliResponse \/ CliData \/ CliSkip
    <2>1. /\ Readable("client") /\ Consume("client") /\ cpc \in {"response", "data"}
        BY <1>3 DEF CliResponse, CliData, CliSkip, CliHead, Waiting
    <2>2. n + 1 \in 1..Len(Received) /\ pos'["client"] = n + 1 /\ f = Received[n + 1] /\ f \in Frame
        BY <1>1, <1>2, <2>1
           DEF CallerType, TransportType, Ends, Received, Readable, Consume, NextFrame
    <2>3. \A k \in 1..(n + 1) : Received[k] \in Frame /\ Received[k].data \in Seq(Byte)
        <3>1. \A k \in 1..(n + 1) : Received[k] \in Frame
            BY <1>2, <2>2
        <3>2. QED
            BY <3>1 DEF Frame
    <2>4. got.body \in Seq(Byte) /\ got \in [status : Nat, lengths : Seq(Int), body : Seq(Byte)]
        BY DEF CallerType, ClientType
    <2>5. CASE CliResponse
        <3> DEFINE g == [status |-> f.status, lengths |-> f.lengths, body |-> <<>>]
        <3>1. /\ Verdict(f) = "frame" /\ f.type = "RESPONSE" /\ f.stream = cur.id
            BY <2>5 DEF CliResponse, CliHead
        <3>2. CASE f.status = 0
            <4>1. cpc' = "fail" /\ UNCHANGED results
                BY <2>5, <3>2 DEF CliResponse
            <4>2. OnlyWholeAnswers'
                BY <1>1, <1>2, <2>2, <4>1, WholeKept DEF AnswersInv
            <4>3. QED
                BY <4>1, <4>2 DEF AnswersInv
        <3>3. CASE f.status # 0
            <4>1. CliAccept(f, g)
                BY <2>5, <3>3 DEF CliResponse
            <4>2. g \in [status : Nat, lengths : Seq(Int), body : Seq(Byte)]
                BY <2>2 DEF Frame
            <4>3. g.body = <<>> /\ g.status = f.status /\ g.lengths = f.lengths
                OBVIOUS
            <4> HIDE DEF g
            <4>4. n + 1 \in Nat /\ n + 1 \in 1..(n + 1)
                OBVIOUS
            <4>5. Stretch(Received, n + 1, n + 1, cur.id) /\ Gathered(Received, n + 1, n + 1, g.body)
                BY <2>2, <3>1, <4>3, <4>4, StretchOne
            <4>6. QED
                BY <1>1, <1>2, <2>2, <3>1, <3>3, <4>1, <4>2, <4>3, <4>4, <4>5, AcceptAnswers
        <3>4. QED
            BY <3>2, <3>3
    <2>6. CASE cpc = "data" /\ (CliData \/ CliSkip)
        <3>1. PICK j \in 1..n :
                /\ Stretch(Received, j, n, cur.id)
                /\ Verdict(Received[n]) = "skip" \/ "END_STREAM" \notin Received[n].flags
                /\ Received[j].status = got.status /\ got.status # 0
                /\ Received[j].lengths = got.lengths
                /\ Gathered(Received, j, n, got.body)
            BY <1>1, <2>6 DEF AnswersInv, Gathering
        <3>2. j \in Nat /\ j <= n /\ j \in 1..(n + 1)
            OBVIOUS
        <3>3. \A k \in j..(n + 1) : Received[k].data \in Seq(Byte)
            BY <2>3, <3>2
        <3>4. CASE CliData
            <4> DEFINE g == [got EXCEPT !.body = @ \o f.data]
            <4>1. /\ Verdict(f) = "frame" /\ f.type = "DATA" /\ f.stream = cur.id
                  /\ CliAccept(f, g)
                BY <3>4 DEF CliData, CliHead
            <4>2. got.body \o f.data \in Seq(Byte)
                BY <2>2, <2>4 DEF Frame
            <4>3. /\ g \in [status : Nat, lengths : Seq(Int), body : Seq(Byte)]
                  /\ g.body = got.body \o f.data /\ g.status = got.status
                  /\ g.lengths = got.lengths
                BY <2>4, <4>2
            <4> HIDE DEF g
            <4>4. Stretch(Received, j, n + 1, cur.id)
                BY <2>2, <3>1, <3>2, <4>1, StretchMore
            <4>5. Gathered(Received, j, n + 1, g.body)
                <5>1. Verdict(Received[n + 1]) # "skip"
                    BY <2>2, <4>1
                <5>2. Gathered(Received, j, n + 1, got.body \o Received[n + 1].data)
                    BY <2>4, <3>1, <3>2, <3>3, <5>1, GatheredData, Zenon
                <5>3. QED
                    BY <2>2, <4>3, <5>2
            <4>6. QED
                BY <1>1, <1>2, <2>2, <3>1, <3>2, <4>1, <4>3, <4>4, <4>5, AcceptAnswers
        <3>5. CASE CliSkip
            <4>1. Verdict(f) = "skip" /\ UNCHANGED <<cpc, cur, got, results>>
                BY <3>5 DEF CliSkip, CliHead, clientVars
            <4>2. Stretch(Received, j, n + 1, cur.id) /\ Gathered(Received, j, n + 1, got.body)
                BY <2>2, <2>4, <3>1, <3>2, <4>1, StretchMore, GatheredSkip
            <4>3. Gathering'
                BY <1>2, <2>2, <3>1, <3>2, <4>1, <4>2 DEF Gathering
            <4>4. OnlyWholeAnswers'
                BY <1>1, <1>2, <2>2, <4>1, WholeKept DEF AnswersInv
            <4>5. QED
                BY <4>3, <4>4 DEF AnswersInv
        <3>6. QED
            BY <2>6, <3>4, <3>5
    <2>7. CASE cpc = "response" /\ CliSkip
        <3>1. cpc' = "response" /\ UNCHANGED results
            BY <2>7 DEF CliSkip, clientVars
        <3>2. OnlyWholeAnswers'
            BY <1>1, <1>2, <2>2, <3>1, WholeKept DEF AnswersInv
        <3>3. QED
            BY <3>1, <3>2 DEF AnswersInv
    <2>8. QED
        BY <1>3, <2>1, <2>5, <2>6, <2>7 DEF CliData
<1>4. CASE ~(CliResponse \/ CliData \/ CliSkip)
    <2>1. cpc' # "data"
        BY <1>4 DEF ClientNext, GetStep, CliGet, CliSend, CliSendFails,
           CliBodyWriteFails, CliStray, CliRemoteError, CliReportable, CliReadEnds, CliReport,
           CliReportFails, CliDrain, CliDrainEnds, CliFail, CliClose, AfterFailedSend, clientVars
    <2>2. \/ results' = results
          \/ \E r \in Result : results' = Append(results, r) /\ r.kind # "ok"
        BY <1>4, Finishes
    <2>3. pos'["client"] = n \/ pos'["client"] = n + 1
        BY <1>1, Hears DEF Consume, CallerType, TransportType, Ends
    <2>4. PICK m \in Nat : m = pos'["client"] /\ n <= m
        BY <2>3
    <2>5. OnlyWholeAnswers'
        BY <1>1, <1>2, <2>2, <2>4, WholeKept DEF AnswersInv
    <2>6. QED
        BY <2>1, <2>5 DEF AnswersInv
<1>5. QED
    BY <1>3, <1>4

-----------------------------------------------------------------------------
(* The other side cannot disturb any of this. *)

LEMMA AnswersStay ==
    ASSUME CallerType, AnswersInv, OtherSide
    PROVE  AnswersInv'
<1>1. PICK n \in Nat : n = pos["client"] /\ n = pos'["client"] /\ n <= Len(Received)
    BY DEF CallerType, TransportType, Ends, Received, OtherSide
<1>2. Received \in Seq(Frame)
    BY DEF CallerType, TransportType, Ends, Received
<1>3. \A k \in 1..n : Received'[k] = Received[k]
    BY <1>1, <1>2, AppendFacts DEF OtherSide
<1>4. UNCHANGED <<cpc, cur, got, results>>
    BY DEF OtherSide, clientVars
<1>5. OnlyWholeAnswers'
    BY <1>1, <1>3, <1>4, WholeKept DEF AnswersInv
<1>6. CASE cpc = "data"
    <2>1. PICK j \in 1..n :
            /\ Stretch(Received, j, n, cur.id)
            /\ Verdict(Received[n]) = "skip" \/ "END_STREAM" \notin Received[n].flags
            /\ Received[j].status = got.status /\ got.status # 0
            /\ Received[j].lengths = got.lengths
            /\ Gathered(Received, j, n, got.body)
        BY <1>1, <1>6 DEF AnswersInv, Gathering
    <2>2. n \in j..n /\ n \in 1..n
        OBVIOUS
    <2>3. Stretch(Received', j, n, cur.id) /\ Gathered(Received', j, n, got.body)
        BY <1>3, <2>1, <2>2, StretchKept, GatheredKept
    <2>4. Gathering'
        BY <1>1, <1>3, <1>4, <2>1, <2>2, <2>3 DEF Gathering
    <2>5. QED
        BY <1>5, <2>4 DEF AnswersInv
<1>7. CASE cpc # "data"
    BY <1>4, <1>5, <1>7 DEF AnswersInv
<1>8. QED
    BY <1>6, <1>7

LEMMA OthersStay ==
    ASSUME CallerType, OtherSide
    PROVE  /\ BrokenInv => BrokenInv'
           /\ IdsInv => IdsInv'
           /\ EndInv => EndInv'
           /\ Sent' = Sent
<1>1. UNCHANGED <<clientVars, Sent>> /\ closed'["client"] = closed["client"]
    BY DEF OtherSide
<1>2. BrokenInv => BrokenInv'
    BY <1>1 DEF BrokenInv, BrokenForGood, clientVars
<1>3. IdsInv => IdsInv'
    BY <1>1, IdsStay DEF clientVars
<1>4. ErrorTaken' => ErrorTaken
    <2>1. /\ Received \in Seq(Frame) /\ pos["client"] \in Nat /\ pos["client"] <= Len(Received)
        BY DEF CallerType, TransportType, Ends, Received
    <2>2. pos'["client"] = pos["client"]
        BY DEF OtherSide
    <2>3. \A k \in 1..pos["client"] : Received'[k] = Received[k]
        BY <2>1, AppendFacts DEF OtherSide
    <2>4. QED
        BY <2>2, <2>3 DEF ErrorTaken
<1>5. EndSent' <=> EndSent
    BY <1>1 DEF EndSent
<1>6. EndInv => EndInv'
    BY <1>1, <1>4, <1>5 DEF EndInv, clientVars
<1>7. QED
    BY <1>1, <1>2, <1>3, <1>6

\* How everything starts.
LEMMA CallerStart ==
    ASSUME TransportInit, ClientInit
    PROVE  /\ CallerType /\ BrokenInv /\ IdsInv /\ EndInv /\ AnswersInv
           /\ ReportDrained /\ ResetsFromClosed
<1>1. ClientType
    <2>1. 0 \in 0..MaxStreamID /\ 1 \in 1..MaxStreamID /\ 0 \in 0..MaxDrain
        BY FramesAssumption, TransportAssumption
    <2>2. NoGet \in [id : 0..MaxStreamID, path : Paths \cup {Malformed}]
        BY <2>1 DEF NoGet
    <2>3. Nothing \in [status : Nat, lengths : Seq(Int), body : Seq(Byte)]
        BY DEF Nothing
    <2>4. NoErr \in [kind : {"failed", "remote"}, code : Nat]
        BY DEF NoErr
    <2>5. <<>> \in Seq(Result)
        OBVIOUS
    <2>6. QED
        BY <2>1, <2>2, <2>3, <2>4, <2>5, Zenon DEF ClientInit, ClientType
<1>2. CallerType
    BY <1>1, StartType, TransportAssumption DEF ClientInit, CallerType
<1>3. /\ Sent = <<>> /\ pos["client"] = 0 /\ results = <<>> /\ cpc = "idle" /\ ~broken
      /\ ~rst["client"] /\ ~rst["server"]
    BY DEF TransportInit, ClientInit, Sent, Ends
<1>4. BrokenInv /\ IdsInv /\ EndInv
    BY <1>3 DEF BrokenInv, BrokenForGood, IdsInv, IdsOnlyGrow, Requests, EndInv, EndSent, ErrorTaken
<1>5. AnswersInv /\ ReportDrained /\ ResetsFromClosed
    BY <1>3 DEF AnswersInv, OnlyWholeAnswers, ReportDrained, ReportSent, ResetsFromClosed, Ends
<1>6. QED
    BY <1>2, <1>4, <1>5
=============================================================================
