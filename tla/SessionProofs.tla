---------------------------- MODULE SessionProofs ----------------------------
(***************************************************************************)
(* The client and the handler together do what Fetch allows and nothing     *)
(* else: for every set of files and paths, every fault, any number of Gets, *)
(* and however the files change.  Without faults a Get whose request went   *)
(* out fails only by the server's own report.  And bcurl as a program: for   *)
(* every server of this repository, every fault and every set of files.     *)
(***************************************************************************)
EXTENDS Bcurl, EndpointProofs

-----------------------------------------------------------------------------
(* What both sides know of the connection. *)

LEMMA Wires ==
    ASSUME HandlerType
    PROVE  /\ Out \in Seq(Frame) /\ Sent \in Seq(Frame) /\ Received = Out
           /\ Len(Out) \in Nat /\ Len(Sent) \in Nat
           /\ pos["client"] \in 0..Len(Out) /\ pos["server"] \in 0..Len(Sent)
           /\ Readable("client") <=> pos["client"] < Len(Out)
           /\ Readable("server") <=> pos["server"] < Len(Sent)
           /\ NextFrame("client") = Out[pos["client"] + 1]
           /\ NextFrame("server") = Sent[pos["server"] + 1]
BY DEF HandlerType, TransportType, Ends, Out, Sent, Received, Readable, NextFrame

\* A step of the handler, of Server.Close or of the files is a step of the other
\* side to the client ...
LEMMA HandlerSide ==
    ASSUME HandlerType, HandlerType', ServerNext \/ SrvDrop \/ FifoOpened \/ FsChange, UNCHANGED clientVars
    PROVE  OtherSide
<1>1. /\ "server" \in Ends /\ "client" \in Ends /\ Peer("server") = "client" /\ TransportType
      /\ wire \in [Ends -> Seq(Frame)] /\ pos \in [Ends -> Nat] /\ closed \in [Ends -> BOOLEAN]
      /\ reply \in Frame /\ Cut(reply) \in Frame
    BY CutFrame DEF HandlerType, ServerType, TransportType, Ends, Peer
<1>2. CASE SrvWrite
    <2>1. /\ Sent' = Sent /\ (Received' = Received \/ Received' = Append(Received, reply))
        BY <1>1, <1>2, SendWire DEF SrvWrite, Sent, Received
    <2>2. pos'["client"] = pos["client"] /\ closed' = closed
        BY <1>1, <1>2 DEF SrvWrite
    <2>3. QED
        BY <1>1, <2>1, <2>2 DEF OtherSide
<1>3. CASE SrvWriteFails
    <2>1. /\ Sent' = Sent /\ (Received' = Received \/ Received' = Append(Received, Cut(reply)))
        BY <1>1, <1>3, SendFailsWire DEF SrvWriteFails, Sent, Received
    <2>2. QED
        BY <1>1, <1>3, <2>1 DEF OtherSide, SrvWriteFails
<1>4. CASE SrvDrop
    BY <1>1, <1>4 DEF SrvDrop, CloseSocket, OtherSide, Sent, Received
<1>5. CASE SrvClose
    BY <1>1, <1>5 DEF SrvClose, CloseSocket, OtherSide, Sent, Received
<1>6. CASE ~(SrvWrite \/ SrvWriteFails \/ SrvDrop \/ SrvClose)
    <2>1. wire' = wire /\ closed' = closed /\ (pos' = pos \/ Consume("server"))
        BY <1>6 DEF ServerNext, SrvSkip, SrvServeRequest, FifoOpened, SrvStat, SrvChunk, SrvBodyError,
           SrvUnexpected, SrvPeerError, SrvStreamZero, SrvOversize, SrvReadEnds, SrvIdle,
           SrvDrain, SrvDrainEnds, FsChange, tcp
    <2>2. QED
        BY <1>1, <2>1 DEF OtherSide, Sent, Received, Consume
<1>7. QED
    BY <1>2, <1>3, <1>4, <1>5, <1>6

\* ... and a step of the client leaves the handler alone.
LEMMA CallerSide ==
    ASSUME HandlerType, HandlerInv, CallerType, CallerType', ClientNext, UNCHANGED serverVars
    PROVE  HandlerType' /\ HandlerInv'
<1>1. Out' = Out
    BY Says DEF Out, Received
<1>2. closed["client"] => closed'["client"]
    BY Finishes
<1>3. closed["server"] => closed'["server"]
    BY DEF ClientNext, GetStep, CliGet, CliSend, CliSendFails, CliSkip, CliResponse, CliData,
       CliBodyWriteFails, CliStray, CliRemoteError, CliReportable, CliReadEnds, CliReport,
       CliReportFails, CliDrain, CliDrainEnds, CliFail, CliClose, CloseSocket, tcp, HandlerType,
       TransportType, Ends
<1>4. QED
    BY <1>1, <1>2, <1>3, HandlerStays DEF CallerType

-----------------------------------------------------------------------------
(* The history variables. *)

\* While a Get runs, what they know only grows.
LEMMA HistoryStep ==
    ASSUME HandlerType', CallerType, HistoryInv, Track, UNCHANGED <<cpc, cur>>
    PROVE  /\ HistoryInv'
           /\ seen \subseteq seen' /\ held \subseteq held'
           /\ UNCHANGED <<fs, flen>> => UNCHANGED <<seen, held>>
<1>1. CASE cpc = "idle"
    BY <1>1 DEF HistoryInv, Track
<1>2. CASE cpc # "idle"
    <2>1. /\ seen' = seen \cup {fs'[cur.path]}
          /\ held' = held \cup F!Lengths(flen')
        BY <1>2 DEF Track, F!Lengths
    <2>2. fs'[cur.path] \in Inodes \cup {None} /\ \A i \in Inodes : flen'[i] \in 0..MaxSize
        BY <1>2 DEF CallerType, HandlerType, ServerType
    <2>3. F!Lengths(flen') \subseteq Inodes \X (0..MaxSize)
        BY <2>2 DEF F!Lengths
    <2>4. HistoryInv'
        BY <1>2, <2>1, <2>2, <2>3 DEF HistoryInv
    <2>5. QED
        BY <1>2, <2>1, <2>4 DEF HistoryInv
<1>3. QED
    BY <1>1, <1>2

\* What was true of the files at some moment since the call stays so, and a frame
\* cut short is meant like the whole one.
LEMMA StillMeant ==
    ASSUME HistoryInv, seen \subseteq seen', held \subseteq held', cur' = cur,
           NEW f, Meant(f), NEW g, g.shape # "oversize", g.type = f.type, g.flags = f.flags,
           g.stream = f.stream, g.status = f.status, g.data = f.data
    PROVE  Meant(g)'
<1>1. Truthful(f) => Truthful(g)'
    BY DEF Truthful, Found
<1>2. QED
    BY <1>1 DEF Meant

LEMMA BeginningStays ==
    ASSUME GotBeginning, seen \subseteq seen', held \subseteq held', got' = got
    PROVE  GotBeginning'
BY DEF GotBeginning, Found

-----------------------------------------------------------------------------
(* The handler between two exchanges: it can only leave. *)

LEMMA HandlerQuiet ==
    ASSUME HandlerType, Quiet, ServerNext \/ SrvDrop \/ FifoOpened \/ FsChange
    PROVE  Quiet'
<1>1. /\ ~Readable("server") /\ ~Readable("client") /\ spc \notin {"blocked", "stat", "body", "send"}
    BY DEF Quiet, Serving
<1>2. UNCHANGED <<wire, pos>> /\ spc' \notin {"blocked", "stat", "body", "send"}
    BY <1>1 DEF ServerNext, SrvSkip, SrvServeRequest, FifoOpened, SrvStat, SrvChunk,
       SrvBodyError, SrvUnexpected, SrvPeerError, SrvStreamZero, SrvOversize, SrvReadEnds, SrvIdle,
       SrvWrite, SrvWriteFails, SrvDrain, SrvDrainEnds, SrvClose, SrvDrop, FsChange, SrvHead,
       tcp, serverVars, handlerVars
<1>3. QED
    BY <1>1, <1>2 DEF Quiet, Serving, Readable

-----------------------------------------------------------------------------
(* The handler during an exchange. *)

\* Nothing is written and no request taken.
LEMMA MidwayStays ==
    ASSUME HandlerType, HistoryInv, Midway, seen \subseteq seen', held \subseteq held',
           UNCHANGED <<cur, Out, Sent>>, pos'["client"] = pos["client"],
           pos'["server"] = pos["server"], UNCHANGED <<spc, reply, file>> \/ ~Serving'
    PROVE  Midway'
<1>1. /\ Readable("client")' = Readable("client") /\ Readable("server")' = Readable("server")
      /\ NextFrame("server")' = NextFrame("server")
    BY DEF Readable, NextFrame, Out, Sent
<1>2. Readable("server")' =>
        /\ (pos["server"] + 1 = Len(Sent))'
        /\ (NextFrame("server") = Request(cur.id, cur.path))'
        /\ ~Readable("client")' /\ ~Serving'
    BY <1>1 DEF Midway, Serving
<1>3. ASSUME NEW k \in DOMAIN Out, k > pos["client"]
      PROVE  /\ Meant(Out[k])'
             /\ Out[k].shape = "whole" /\ "END_STREAM" \in Out[k].flags => k = Len(Out) /\ ~Serving'
    <2>1. Meant(Out[k])
        BY <1>3 DEF Midway
    <2>2. Meant(Out[k]) => Out[k].shape # "oversize"
        BY DEF Meant
    <2>3. QED
        BY <1>3, <2>1, <2>2, StillMeant DEF Midway, Serving
<1>4. ~Serving' => spc' # "body" /\ spc' # "send"
    BY DEF Serving
<1>5. CASE ~Serving'
    BY <1>2, <1>3, <1>4, <1>5 DEF Midway
<1>6. CASE UNCHANGED <<spc, reply, file>>
    <2>1. spc = "send" => Meant(reply)'
        <3>1. spc = "send" => Meant(reply) /\ reply.shape # "oversize"
            BY DEF Midway, Meant
        <3>2. QED
            BY <1>6, <3>1, StillMeant
    <2>2. QED
        BY <1>2, <1>3, <1>6, <2>1 DEF Midway, Serving
<1>7. QED
    BY <1>5, <1>6

\* The handler takes the request, or goes on with it, and writes nothing yet.
LEMMA MidwayTurns ==
    ASSUME HandlerType, HistoryInv, Midway, seen \subseteq seen', held \subseteq held',
           UNCHANGED <<cur, Out, Sent>>, pos'["client"] = pos["client"],
           Serving \/ Readable("server"), ~Readable("server")',
           spc' # "send" \/ file'.size > 0 =>
               file'.stream = cur.id /\ file'.ino \in seen /\ cur.path \notin BadPaths,
           spc' = "body" \/ file'.size > 0 => <<file'.ino, file'.size>> \in held,
           spc' = "send" => Meant(reply)'
    PROVE  Midway'
<1>1. ASSUME NEW k \in DOMAIN Out, k > pos["client"]
      PROVE  /\ Meant(Out[k])'
             /\ Out[k].shape = "whole" /\ "END_STREAM" \in Out[k].flags => k = Len(Out) /\ ~Serving'
    <2>1. k < Len(Out) \/ k = Len(Out)
        BY <1>1, Wires
    <2>2. Meant(Out[k]) /\ Out[k].shape # "oversize"
        BY <1>1 DEF Midway, Meant
    <2>3. Readable("client")
        BY <1>1, <2>1, Wires
    <2>4. ~(Out[k].shape = "whole" /\ "END_STREAM" \in Out[k].flags)
        BY <1>1, <2>3 DEF Midway
    <2>5. QED
        BY <1>1, <2>2, <2>4, StillMeant
<1>2. QED
    BY <1>1 DEF Midway

LEMMA MidwayRequest ==
    ASSUME HandlerType, HandlerInv, CallerType, HistoryInv, Midway, cpc # "idle", cur.id > 0,
           seen \subseteq seen', held \subseteq held', cur' = cur, SrvServeRequest
    PROVE  Midway'
<1> DEFINE f == NextFrame("server")
<1>1. /\ Readable("server") /\ spc = "read" /\ file.size = 0 /\ cur.path \in Paths
    BY DEF SrvServeRequest, SrvHead, HandlerInv, CallerType
<1>2. f = Request(cur.id, cur.path) /\ pos["server"] + 1 = Len(Sent)
    BY <1>1 DEF Midway
<1>3. /\ f.stream = cur.id /\ f.path = cur.path /\ (Rejected(f) <=> cur.path \in BadPaths)
    BY <1>1, <1>2, FramesAssumption DEF Request, Whole, Rejected
<1>4. /\ UNCHANGED <<Out, Sent>> /\ pos'["client"] = pos["client"] /\ ~Readable("server")'
    BY <1>2, Wires DEF SrvServeRequest, Consume, Out, Sent, Readable, HandlerType, TransportType, Ends
<1>5. ASSUME NEW st \in {400, 404, 500}, GoWrite(StatusFrame(cur.id, st)), file' = file,
             st = 400 => cur.path \in BadPaths,
             st # 400 => cur.path \notin BadPaths,
             st = 404 => None \in seen
      PROVE  Midway'
    <2>1. /\ spc' = "send" /\ reply'.shape = "whole" /\ reply'.type = "RESPONSE"
          /\ reply'.flags = EndStream /\ reply'.status = st /\ reply'.stream = cur.id
        BY <1>5 DEF GoWrite, StatusFrame, Response, Whole
    <2>2. Meant(reply)'
        BY <1>5, <2>1 DEF Meant, Truthful
    <2>3. QED
        BY <1>1, <1>4, <1>5, <2>1, <2>2, MidwayTurns
<1>6. fs[cur.path] \in seen
    BY DEF HistoryInv
<1>7. CASE Rejected(f)
    BY <1>3, <1>5, <1>7 DEF SrvServeRequest
<1>8. CASE ~Rejected(f)
    <2>1. CASE GoWrite(StatusFrame(f.stream, 404)) /\ file' = file /\ fs[f.path] = None
        BY <1>3, <1>5, <1>6, <1>8, <2>1
    <2>2. CASE GoWrite(StatusFrame(f.stream, 500)) /\ file' = file
        BY <1>3, <1>5, <1>8, <2>2
    <2>3. CASE /\ file' = [NoFile EXCEPT !.ino = fs[f.path], !.stream = f.stream]
               /\ spc' = "stat" /\ reply' = reply
        <3>1. file'.ino = fs[cur.path] /\ file'.stream = cur.id /\ file'.size = 0
            BY <1>3, <2>3 DEF NoFile
        <3>2. QED
            BY <1>1, <1>3, <1>4, <1>6, <1>8, <2>3, <3>1, MidwayTurns
    <2>4. CASE /\ fs[f.path] = None /\ file' = [NoFile EXCEPT !.stream = f.stream]
               /\ spc' = "blocked" /\ reply' = reply
        <3>1. file'.ino = fs[cur.path] /\ file'.stream = cur.id /\ file'.size = 0
            BY <1>3, <2>4 DEF NoFile
        <3>2. QED
            BY <1>1, <1>3, <1>4, <1>6, <1>8, <2>4, <3>1, MidwayTurns
    <2>5. QED
        BY <1>8, <2>1, <2>2, <2>3, <2>4 DEF SrvServeRequest
<1>9. QED
    BY <1>7, <1>8

\* A FIFO was opened: what the path named was no regular file.
LEMMA MidwayFifo ==
    ASSUME HandlerType, HistoryInv, Midway, cpc # "idle",
           seen \subseteq seen', held \subseteq held', cur' = cur, FifoOpened
    PROVE  Midway'
<1>1. /\ spc = "blocked" /\ spc' = "send" /\ UNCHANGED tcp /\ Serving /\ file'.size = 0
    BY DEF FifoOpened, GoWrite, Serving, NoFile
<1>2. /\ UNCHANGED <<Out, Sent>> /\ pos' = pos /\ ~Readable("server")'
    BY <1>1 DEF Midway, tcp, Out, Sent, Readable
<1>3. /\ file.stream = cur.id /\ None \in seen /\ cur.path \notin BadPaths
    BY <1>1 DEF Midway, HandlerType
<1>4. /\ reply'.shape = "whole" /\ reply'.type = "RESPONSE" /\ reply'.flags = EndStream
      /\ reply'.status \in {404, 500} /\ reply'.stream = cur.id
    BY <1>3 DEF FifoOpened, GoWrite, StatusFrame, Response, Whole
<1>5. Meant(reply)'
    BY <1>3, <1>4 DEF Meant, Truthful
<1>6. QED
    BY <1>1, <1>2, <1>5, MidwayTurns

LEMMA MidwayFile ==
    ASSUME HandlerType, HandlerInv, HistoryInv, Midway, cpc # "idle",
           seen \subseteq seen', held \subseteq held', cur' = cur,
           SrvStat \/ SrvChunk \/ SrvBodyError
    PROVE  Midway'
<1>1. /\ spc \in {"stat", "body"} /\ spc' = "send" /\ UNCHANGED tcp /\ Serving
    BY DEF SrvStat, SrvChunk, SrvBodyError, GiveUp, GoWrite, Serving
<1>2. /\ UNCHANGED <<Out, Sent>> /\ pos' = pos /\ ~Readable("server")'
    BY <1>1 DEF Midway, tcp, Out, Sent, Readable
<1>3. /\ file.stream = cur.id /\ file.ino \in seen /\ cur.path \notin BadPaths
      /\ spc = "body" => <<file.ino, file.size>> \in held
      /\ file.ino \in Inodes
    BY <1>1 DEF Midway, HandlerType
<1>4. /\ file \in [ino : Inodes \cup {None}, stream : 0..MaxStreamID, size : Nat, off : Nat]
    BY DEF HandlerType, ServerType
<1>5. CASE SrvStat
    <2>1. <<file.ino, flen[file.ino]>> \in held
        BY <1>3 DEF HistoryInv, F!Lengths
    <2>2. CASE /\ file' = [file EXCEPT !.size = flen[file.ino]]
               /\ GoWrite(Response(file.stream, 200, flen[file.ino],
                                   IF flen[file.ino] = 0 THEN EndStream ELSE {}))
        <3>1. file'.stream = cur.id /\ file'.ino = file.ino /\ file'.size = flen[file.ino]
            BY <1>3, <1>4, <2>2
        <3>2. /\ reply'.shape = "whole" /\ reply'.type = "RESPONSE" /\ reply'.status = 200
              /\ reply'.stream = cur.id
              /\ "END_STREAM" \in reply'.flags => flen[file.ino] = 0
            BY <1>3, <2>2 DEF GoWrite, Response, Whole, EndStream
        <3>3. Meant(reply)'
            <4> DEFINE h == <<file.ino, flen[file.ino]>>
            <4>1. h \in held' /\ h[1] \in seen' /\ ("END_STREAM" \in reply'.flags => h[2] = 0)
                BY <1>3, <2>1, <3>2
            <4> HIDE DEF h
            <4>2. QED
                BY <1>3, <3>2, <4>1 DEF Meant, Truthful, Found
        <3>4. QED
            BY <1>1, <1>2, <1>3, <2>1, <3>1, <3>3, MidwayTurns
    <2>3. CASE file' = NoFile /\ GoWrite(StatusFrame(file.stream, 500))
        <3>1. /\ reply'.shape = "whole" /\ reply'.type = "RESPONSE" /\ reply'.flags = EndStream
              /\ reply'.status = 500 /\ reply'.stream = cur.id /\ file'.size = 0
            BY <1>3, <2>3 DEF GoWrite, StatusFrame, Response, Whole, NoFile
        <3>2. Meant(reply)'
            BY <1>3, <3>1 DEF Meant, Truthful
        <3>3. QED
            BY <1>1, <1>2, <3>1, <3>2, MidwayTurns
    <2>4. QED
        BY <1>5, <2>2, <2>3 DEF SrvStat
<1>6. CASE SrvBodyError
    <2>1. /\ reply'.shape = "whole" /\ reply'.type = "ERROR" /\ reply'.status = CodeProtocolError
          /\ file'.size = 0
        BY <1>6 DEF SrvBodyError, GiveUp, GoWrite, Error, Whole, NoFile
    <2>2. Meant(reply)'
        BY <2>1 DEF Meant
    <2>3. QED
        BY <1>1, <1>2, <2>1, <2>2, MidwayTurns
<1>7. CASE SrvChunk
    <2> DEFINE n == ChunkSize
               bytes == [k \in 1..n |-> <<file.ino, file.off + k>>]
    <2>1. /\ spc = "body" /\ file' = [file EXCEPT !.off = @ + n]
          /\ reply' = Data(file.stream, bytes, IF file.off + n = file.size THEN EndStream ELSE {})
        BY <1>7 DEF SrvChunk, GoWrite
    <2>2. n \in Nat /\ n > 0 /\ file.off + n <= file.size
        BY <2>1, ChunkFacts DEF HandlerInv
    <2>3. /\ bytes # <<>> /\ Last(bytes) = <<file.ino, file.off + n>>
        <3>1. bytes \in Seq(Byte) /\ Len(bytes) = n /\ bytes[n] = <<file.ino, file.off + n>>
            BY <2>1, <2>2, ChunkBytes
        <3> HIDE DEF bytes, n
        <3>2. QED
            BY <2>2, <3>1 DEF Last
    <2> HIDE DEF bytes, n
    <2>4. file'.stream = cur.id /\ file'.ino = file.ino /\ file'.size = file.size
        BY <1>3, <1>4, <2>1
    <2>5. /\ reply'.shape = "whole" /\ reply'.type = "DATA" /\ reply'.data = bytes
          /\ reply'.stream = cur.id
          /\ "END_STREAM" \in reply'.flags => file.off + n = file.size
        BY <1>3, <2>1 DEF Data, Whole, EndStream
    <2>6. Meant(reply)'
        <3> DEFINE h == <<file.ino, file.size>>
        <3>1. /\ h \in held' /\ h[1] \in seen' /\ Last(bytes)[1] = h[1] /\ Last(bytes)[2] <= h[2]
              /\ "END_STREAM" \in reply'.flags => Last(bytes)[2] = h[2]
            BY <1>3, <2>1, <2>2, <2>3, <2>5
        <3> HIDE DEF h
        <3>2. QED
            BY <1>3, <2>3, <2>5, <3>1 DEF Meant, Truthful, Found
    <2>7. QED
        BY <1>1, <1>2, <1>3, <2>1, <2>4, <2>6, MidwayTurns
<1>8. QED
    BY <1>5, <1>6, <1>7

\* The reply goes out, whole or in part.
LEMMA MidwayWrites ==
    ASSUME HandlerType, HistoryInv, Midway, seen \subseteq seen', held \subseteq held',
           spc = "send", UNCHANGED <<cur, Sent>>, pos' = pos,
           NEW g \in {reply, Cut(reply)}, Out' = Append(Out, g),
           g.shape = "whole" /\ "END_STREAM" \in g.flags => ~Serving',
           \/ ~Serving'
           \/ spc' = "body" /\ file' = file /\ file.size > 0
           \/ UNCHANGED <<spc, reply, file>>
    PROVE  Midway'
<1>1. /\ reply \in Frame /\ g \in Frame
      /\ g.type = reply.type /\ g.flags = reply.flags /\ g.stream = reply.stream
      /\ g.status = reply.status /\ g.data = reply.data
    BY CutFrame DEF HandlerType, ServerType, Cut, Frame
<1>2. /\ Len(Out') = Len(Out) + 1 /\ Len(Out) \in Nat /\ Out'[Len(Out) + 1] = g
      /\ \A i \in 1..Len(Out) : Out'[i] = Out[i]
      /\ DOMAIN Out = 1..Len(Out) /\ DOMAIN Out' = 1..(Len(Out) + 1)
    BY <1>1, Wires, AppendFacts
<1>3. Meant(reply) /\ reply.shape # "oversize" /\ g.shape # "oversize"
    BY <1>1 DEF Midway, Meant, Cut, Frame
<1>4. Meant(g)'
    BY <1>1, <1>3, StillMeant
<1>5. ~Readable("server")'
    BY DEF Midway, Serving, Readable, Sent
<1>6. ASSUME NEW k \in DOMAIN Out', k > pos["client"]
      PROVE  /\ Meant(Out[k])'
             /\ Out'[k].shape = "whole" /\ "END_STREAM" \in Out'[k].flags =>
                    k = Len(Out') /\ ~Serving'
    <2>1. CASE k = Len(Out) + 1
        BY <1>2, <1>4, <2>1
    <2>2. CASE k # Len(Out) + 1
        <3>1. k \in DOMAIN Out /\ Out'[k] = Out[k]
            BY <1>2, <1>6, <2>2
        <3>2. Meant(Out[k]) /\ Out[k].shape # "oversize"
            BY <1>6, <3>1 DEF Midway, Meant
        <3>3. ~(Out[k].shape = "whole" /\ "END_STREAM" \in Out[k].flags)
            BY <1>6, <3>1 DEF Midway, Serving
        <3>4. QED
            BY <3>1, <3>2, <3>3, StillMeant
    <2>3. QED
        BY <2>1, <2>2
<1>7. Serving' =>
        /\ spc' # "send" \/ file'.size > 0 =>
             file'.stream = cur.id /\ file'.ino \in seen' /\ cur.path \notin BadPaths
        /\ spc' = "body" \/ file'.size > 0 => <<file'.ino, file'.size>> \in held'
        /\ spc' = "send" => reply' = reply
    BY DEF Midway, Serving
<1>8. spc' = "send" => Meant(reply)'
    BY <1>3, <1>7, StillMeant DEF Serving
<1>9. QED
    BY <1>5, <1>6, <1>7, <1>8 DEF Midway, Serving

LEMMA MidwayWrite ==
    ASSUME HandlerType, HandlerInv, CallerType, HistoryInv, Midway, cpc \in {"response", "data"},
           seen \subseteq seen', held \subseteq held', UNCHANGED <<cur, Sent>>, SrvWrite
    PROVE  Midway'
<1>1. /\ spc = "send" /\ ~closed["client"] /\ ~closed["server"] /\ reply \in Frame
      /\ reply.shape = "whole" /\ ~Readable("server")
    BY DEF SrvWrite, Send, CanSend, CallerType, HandlerType, ServerType, HandlerInv, Midway, Serving
<1>2. Out' = Append(Out, reply)
    BY <1>1, SendWire DEF SrvWrite, HandlerType, Ends, Peer, Out
<1>3. CASE reply.type = "ERROR"
    <2>1. PICK k \in 0..InFlight("server") : pos' = [pos EXCEPT !["server"] = @ + k]
        BY <1>3 DEF SrvWrite
    <2>2. k = 0
        BY <1>1, <2>1, Wires DEF InFlight, Sent
    <2>3. pos' = pos /\ ~Serving'
        BY <1>3, <2>1, <2>2 DEF SrvWrite, Serving, HandlerType, TransportType, Ends
    <2>4. QED
        BY <1>1, <1>2, <2>3, MidwayWrites
<1>4. CASE reply.type # "ERROR"
    <2>1. ResponseReady \/ DataReady
        BY <1>1, <1>4 DEF HandlerInv
    <2>2. /\ file.off \in Nat /\ file.size \in Nat
          /\ file.off < file.size => "END_STREAM" \notin reply.flags
        BY <2>1 DEF ResponseReady, DataReady, HandlerType, ServerType
    <2>3. CASE file.off < file.size
        <3>1. spc' = "body" /\ file' = file /\ file.size > 0 /\ pos' = pos
            BY <1>4, <2>2, <2>3 DEF SrvWrite
        <3>2. QED
            BY <1>1, <1>2, <2>2, <2>3, <3>1, MidwayWrites
    <2>4. CASE ~(file.off < file.size)
        <3>1. ~Serving' /\ pos' = pos
            BY <1>4, <2>4 DEF SrvWrite, Serving
        <3>2. QED
            BY <1>1, <1>2, <3>1, MidwayWrites
    <2>5. QED
        BY <2>3, <2>4
<1>5. QED
    BY <1>3, <1>4

\* A write fails, or Server.Close strikes.
LEMMA MidwayTorn ==
    ASSUME HandlerType, HandlerInv, CallerType, HistoryInv, Midway, cpc \in {"response", "data"},
           seen \subseteq seen', held \subseteq held', UNCHANGED <<cur, Sent>>,
           SrvWriteFails \/ SrvDrop
    PROVE  Midway'
<1>1. pos' = pos /\ (UNCHANGED <<spc, reply, file>> \/ ~Serving')
    BY DEF SrvWriteFails, SrvDrop, AfterFailedWrite, serverVars, Serving
<1>2. CASE wire' = wire
    BY <1>1, <1>2, MidwayStays DEF Out
<1>3. CASE wire' # wire
    <2>1. spc = "send" /\ Out' = Append(Out, Cut(reply))
        BY <1>3 DEF SrvWriteFails, SrvDrop, SendFails, Peer, Out, HandlerType, TransportType, Ends
    <2>2. Cut(reply).shape = "cut"
        BY DEF Cut, HandlerType, ServerType, Frame
    <2>3. QED
        BY <1>1, <2>1, <2>2, MidwayWrites
<1>4. QED
    BY <1>2, <1>3

\* Every step of the handler, of Server.Close and of the files.
LEMMA HandlerMidway ==
    ASSUME HandlerType, HandlerInv, CallerType, HistoryInv, Midway, cpc \in {"response", "data"},
           seen \subseteq seen', held \subseteq held', OtherSide,
           ServerNext \/ SrvDrop \/ FifoOpened \/ FsChange
    PROVE  Midway'
<1>1. /\ UNCHANGED <<cur, Sent>> /\ pos'["client"] = pos["client"] /\ cur.id > 0 /\ cpc # "idle"
    BY DEF OtherSide, clientVars, HistoryInv
<1>2. CASE SrvSkip \/ SrvUnexpected \/ SrvPeerError \/ SrvStreamZero \/ SrvOversize
    <2>1. Readable("server") /\ Verdict(NextFrame("server")) = "frame"
          /\ NextFrame("server").type = "REQUEST"
        BY <1>1, <1>2 DEF SrvSkip, SrvUnexpected, SrvPeerError, SrvStreamZero, SrvOversize, SrvHead,
           Midway, Request, Whole, Verdict, KnownTypes, NeedsStream
    <2>2. QED
        BY <1>2, <2>1 DEF SrvSkip, SrvUnexpected, SrvPeerError, SrvStreamZero, SrvOversize, SrvHead
<1>3. CASE SrvServeRequest
    BY <1>1, <1>3, MidwayRequest
<1>4. CASE SrvStat \/ SrvChunk \/ SrvBodyError
    BY <1>1, <1>4, MidwayFile
<1>5. CASE SrvWrite
    BY <1>1, <1>5, MidwayWrite
<1>6. CASE SrvWriteFails \/ SrvDrop
    BY <1>1, <1>6, MidwayTorn
<1>7. CASE SrvReadEnds \/ SrvIdle \/ SrvDrainEnds \/ SrvClose \/ FsChange
    <2>1. Out' = Out /\ pos' = pos /\ (UNCHANGED <<spc, reply, file>> \/ ~Serving')
        BY <1>7 DEF SrvReadEnds, SrvIdle, SrvDrainEnds, SrvClose, FsChange, handlerVars, tcp, Out, Serving
    <2>2. QED
        BY <1>1, <2>1, MidwayStays
<1>8. CASE SrvDrain
    <2>1. /\ Readable("server") /\ Out' = Out /\ spc' \in {"drain", "close"}
          /\ pos'["server"] = pos["server"] + 1
        BY <1>8 DEF SrvDrain, Out, Consume, HandlerType, TransportType, Ends
    <2>2. ~Readable("server")'
        BY <1>1, <2>1, Wires DEF Midway, Readable, Sent
    <2>3. ~Readable("client")
        BY <2>1 DEF Midway
    <2>4. ASSUME NEW k \in DOMAIN Out', k > pos'["client"] PROVE FALSE
        BY <1>1, <2>1, <2>3, <2>4, Wires
    <2>5. ~Serving' /\ spc' # "body" /\ spc' # "send"
        BY <2>1 DEF Serving
    <2>6. QED
        BY <2>2, <2>4, <2>5 DEF Midway
<1>9. CASE FifoOpened
    BY <1>1, <1>9, MidwayFifo
<1>10. QED
    BY <1>2, <1>3, <1>4, <1>5, <1>6, <1>7, <1>8, <1>9 DEF ServerNext

\* A step of the other side keeps the invariant, and is a step of Fetch only when
\* the files change.
LEMMA HandlerSession ==
    ASSUME HandlerType, HandlerInv, CallerType, SessionInv, ServerStep
    PROVE  /\ HandlerType' /\ HandlerInv' /\ CallerType' /\ SessionInv'
           /\ F!Change \/ UNCHANGED F!fetchVars
<1>1. /\ ServerNext \/ SrvDrop \/ FifoOpened \/ FsChange
      /\ UNCHANGED clientVars /\ Track
    BY DEF ServerStep
<1>2. UNCHANGED <<cpc, broken, cur, got, err, results>>
    BY <1>1 DEF clientVars
<1>3. HandlerType' /\ HandlerInv'
    BY <1>1, HandlerStep
<1>4. OtherSide /\ CallerType'
    BY <1>1, <1>3, HandlerSide, CallerTypeStays DEF HandlerType
<1>5. /\ HistoryInv' /\ seen \subseteq seen' /\ held \subseteq held'
      /\ UNCHANGED <<fs, flen>> => UNCHANGED <<seen, held>>
    BY <1>1, <1>2, <1>3, HistoryStep DEF SessionInv
<1>6. GotBeginning'
    BY <1>2, <1>5, BeginningStays DEF SessionInv
<1>7. cpc \in {"idle", "send"} /\ ~broken => Quiet'
    BY <1>1, HandlerQuiet DEF SessionInv
<1>8. cpc \in {"response", "data"} => Midway'
    BY <1>1, <1>4, <1>5, HandlerMidway DEF SessionInv
<1>9. cpc = "data" => GotSoFar'
    <2>1. /\ pos'["client"] = pos["client"]
          /\ Out' = Out \/ \E f \in Frame : Out' = Append(Out, f)
        BY <1>4 DEF OtherSide, Received, Out
    <2>2. pos["client"] > 0 => Out'[pos["client"]] = Out[pos["client"]]
        BY <2>1, Wires, AppendFacts
    <2>3. QED
        BY <1>2, <2>1, <2>2 DEF SessionInv, GotSoFar
<1>10. SessionInv'
    BY <1>2, <1>5, <1>6, <1>7, <1>8, <1>9 DEF SessionInv
<1>11. F!Change \/ UNCHANGED F!fetchVars
    <2>1. CASE FsChange
        <3>1. fs' \in [Paths -> Inodes \cup {None}] /\ flen' \in [Inodes -> Nat]
            BY <1>3, ServerAssumption DEF HandlerType, ServerType
        <3>2. /\ seen' = IF cpc # "idle" THEN seen \cup {fs'[cur.path]} ELSE seen
              /\ held' = IF cpc # "idle" THEN held \cup F!Lengths(flen') ELSE held
            BY <1>1, <1>2 DEF Track, SessionInv, HistoryInv, F!Lengths
        <3>3. QED
            BY <1>2, <3>1, <3>2 DEF F!Change
    <2>2. CASE ~FsChange
        <3>1. UNCHANGED <<fs, flen>>
            BY <1>1, <2>2 DEF ServerNext, SrvSkip, SrvServeRequest, FifoOpened, SrvStat, SrvChunk, SrvBodyError,
               SrvUnexpected, SrvPeerError, SrvStreamZero, SrvOversize, SrvReadEnds, SrvIdle,
               SrvWrite, SrvWriteFails, SrvDrain, SrvDrainEnds, SrvClose, SrvDrop,
               serverVars, fsVars
        <3>2. QED
            BY <1>2, <1>5, <3>1 DEF F!fetchVars
    <2>3. QED
        BY <2>1, <2>2
<1>12. QED
    BY <1>3, <1>4, <1>10, <1>11

-----------------------------------------------------------------------------
(* The client: what it gathers is the beginning of a file. *)

LEMMA ContentFacts ==
    ASSUME NEW i \in Inodes, NEW n \in Nat
    PROVE  /\ F!Content(i, n) \in Seq(Byte) /\ Len(F!Content(i, n)) = n
           /\ \A k \in 1..n : F!Content(i, n)[k] = <<i, k>>
<1>1. \A k \in 1..n : <<i, k>> \in Byte
    BY DEF Byte
<1>2. QED
    BY <1>1 DEF F!Content

\* Bytes that follow on from the beginning of a file make a longer beginning.
LEMMA BytesJoin ==
    ASSUME NEW i \in Inodes, NEW a \in Seq(Byte), \A k \in 1..Len(a) : a[k] = <<i, k>>,
           NEW d \in Seq(Byte), \A k \in 1..Len(d) : d[k] = <<i, Len(a) + k>>,
           NEW b \in Seq(Byte), Len(b) = Len(a) + Len(d), \A k \in 1..Len(b) : b[k] = <<i, k>>
    PROVE  a \o d = b
<1> DEFINE c == a \o d
<1>1. /\ c \in Seq(Byte) /\ Len(c) = Len(a) + Len(d)
      /\ \A k \in 1..Len(a) : c[k] = a[k]
      /\ \A k \in 1..Len(d) : c[Len(a) + k] = d[k]
    BY ConcatFacts
<1> HIDE DEF c
<1>2. ASSUME NEW k \in 1..Len(b) PROVE c[k] = b[k]
    <2>1. CASE k \in 1..Len(a)
        BY <1>1, <2>1
    <2>2. CASE k \notin 1..Len(a)
        <3>1. k - Len(a) \in 1..Len(d) /\ k = Len(a) + (k - Len(a))
            BY <2>2
        <3>2. PICK j \in 1..Len(d) : k = Len(a) + j
            BY <3>1
        <3>3. QED
            BY <1>1, <3>2
    <2>3. QED
        BY <2>1, <2>2
<1>3. c = b
    BY <1>1, <1>2
<1>4. QED
    BY <1>3 DEF c

LEMMA ContentGrows ==
    ASSUME NEW i \in Inodes, NEW m \in Nat, NEW d \in Seq(Byte),
           \A k \in 1..Len(d) : d[k] = <<i, m + k>>
    PROVE  F!Content(i, m) \o d = F!Content(i, m + Len(d))
<1>1. PICK a \in Seq(Byte) : a = F!Content(i, m)
    BY ContentFacts
<1>2. PICK n \in Nat : n = m + Len(d)
    OBVIOUS
<1>3. PICK b \in Seq(Byte) : b = F!Content(i, n)
    BY ContentFacts
<1>4. Len(a) = m /\ (\A k \in 1..m : a[k] = <<i, k>>) /\ Len(b) = n /\ \A k \in 1..n : b[k] = <<i, k>>
    BY <1>1, <1>3, ContentFacts
<1>5. a \o d = b
    BY <1>2, <1>4, BytesJoin
<1>6. QED
    BY <1>1, <1>2, <1>3, <1>5

\* The next DATA frame carries on where the bytes the client has got end.
LEMMA BodyFollows ==
    ASSUME HandlerType, HandlerInv, CallerType, HistoryInv, GotBeginning, GotSoFar,
           Readable("client"), NEW f, f = NextFrame("client"), f.type = "DATA",
           f.data # <<>>, f \in Frame
    PROVE  \E i \in Inodes, m \in Nat :
             /\ got.body = F!Content(i, m)
             /\ \A k \in 1..Len(f.data) : f.data[k] = <<i, m + k>>
             /\ Last(f.data) = <<i, m + Len(f.data)>>
<1> DEFINE n == pos["client"]
           e == Out[n]
<1>1. /\ n \in Nat /\ n > 0 /\ n + 1 \in 1..Len(Out) /\ f = Out[n + 1] /\ Len(Out) \in Nat
      /\ f.data \in Seq(Byte) /\ Len(f.data) \in Nat /\ n + 1 - 1 = n
    <2>1. n > 0
        BY DEF GotSoFar
    <2>2. f.data \in Seq(Byte)
        BY DEF Frame
    <2>3. QED
        BY <2>1, <2>2, Wires
<1>2. Contiguous(e, f)
    BY <1>1 DEF HandlerInv, BodyAsAnnounced, Honest
<1>3. f.data[1] \in Byte /\ Len(f.data) > 0
    BY <1>1, <1>2 DEF Contiguous
<1>4. PICK i \in Inodes, o \in Nat : f.data[1] = <<i, o>>
    BY <1>3 DEF Byte
<1>5. /\ \A k \in 1..Len(f.data) : f.data[k] = <<i, o + k - 1>>
    BY <1>2, <1>4 DEF Contiguous
<1>6. CASE e.type = "RESPONSE"
    <2>1. got.body = <<>> /\ o = 1
        BY <1>2, <1>4, <1>6 DEF GotSoFar, Contiguous
    <2>2. got.body = F!Content(i, 0)
        BY <2>1 DEF F!Content
    <2>3. /\ \A k \in 1..Len(f.data) : f.data[k] = <<i, 0 + k>>
          /\ Last(f.data) = <<i, 0 + Len(f.data)>>
        BY <1>1, <1>3, <1>5, <2>1 DEF Last
    <2>4. QED
        BY <2>2, <2>3
<1>7. CASE e.type # "RESPONSE"
    <2>1. got.body # <<>> /\ Last(got.body) = Last(e.data)
        BY <1>7 DEF GotSoFar
    <2>2. PICK h \in held : \E m \in 1..h[2] : Found(h) /\ got.body = F!Content(h[1], m)
        BY <2>1 DEF GotBeginning
    <2>3. h[1] \in Inodes /\ h[2] \in Nat
        BY ServerAssumption DEF HistoryInv
    <2>4. PICK m \in 1..h[2] : got.body = F!Content(h[1], m)
        BY <2>2
    <2>5. m \in Nat /\ m > 0
        BY <2>3
    <2>6. Last(got.body) = <<h[1], m>>
        <3>1. PICK x \in Inodes : x = h[1]
            BY <2>3
        <3>2. PICK c \in Seq(Byte) : c = F!Content(x, m)
            BY <2>5, ContentFacts
        <3>3. Len(c) = m /\ c[m] = <<x, m>>
            BY <2>5, <3>2, ContentFacts
        <3>4. QED
            BY <2>4, <3>1, <3>2, <3>3 DEF Last
    <2>7. f.data[1] = <<h[1], m + 1>>
        BY <1>2, <1>7, <2>1, <2>6 DEF Contiguous
    <2>8. i = h[1] /\ o = m + 1
        BY <1>4, <2>7
    <2>9. /\ \A k \in 1..Len(f.data) : f.data[k] = <<i, m + k>>
          /\ Last(f.data) = <<i, m + Len(f.data)>>
        BY <1>1, <1>3, <1>5, <2>5, <2>8, SMTT(60) DEF Last
    <2>10. QED
        BY <2>4, <2>5, <2>8, <2>9
<1>8. QED
    BY <1>6, <1>7

LEMMA FirstBytes ==
    ASSUME NEW s \in Seq(Byte), NEW n \in 0..Len(s)
    PROVE  /\ SubSeq(s, 1, n) \in Seq(Byte) /\ Len(SubSeq(s, 1, n)) = n
           /\ \A k \in 1..n : SubSeq(s, 1, n)[k] = s[k]
<1>1. Len(s) \in Nat /\ 1..n \subseteq 1..Len(s)
    OBVIOUS
<1>2. SubSeq(s, 1, n) = [k \in 1..n |-> s[k]]
    BY <1>1
<1>3. QED
    BY <1>1, <1>2

\* Part of such a frame makes part of that.
Longer(body, old, s) ==
    \/ body = old \o s
    \/ \E n \in 0..Len(s) : body = old \o SubSeq(s, 1, n)

LEMMA BodyPart ==
    ASSUME NEW i \in Inodes, NEW m \in Nat, NEW s \in Seq(Byte), NEW body,
           \A k \in 1..Len(s) : s[k] = <<i, m + k>>,
           Longer(body, F!Content(i, m), s)
    PROVE  \E n \in 0..Len(s) : body = F!Content(i, m + n)
<1>1. Len(s) \in Nat
    OBVIOUS
<1>2. CASE body = F!Content(i, m) \o s
    <2>1. F!Content(i, m) \o s = F!Content(i, m + Len(s))
        BY ContentGrows, Zenon
    <2>2. Len(s) \in 0..Len(s)
        BY <1>1
    <2>3. QED
        BY <1>2, <2>1, <2>2, Zenon
<1>3. ASSUME NEW n \in 0..Len(s), body = F!Content(i, m) \o SubSeq(s, 1, n)
      PROVE  body = F!Content(i, m + n)
    <2>1. PICK d \in Seq(Byte) : d = SubSeq(s, 1, n)
        BY <1>3, FirstBytes
    <2>2. Len(d) = n /\ \A k \in 1..n : d[k] = s[k]
        BY <1>3, <2>1, FirstBytes
    <2>3. 1..n \subseteq 1..Len(s)
        BY <1>1
    <2>4. \A k \in 1..Len(d) : d[k] = <<i, m + k>>
        BY <2>2, <2>3
    <2>5. F!Content(i, m) \o d = F!Content(i, m + Len(d))
        BY <2>4, ContentGrows
    <2>6. QED
        BY <1>3, <2>1, <2>2, <2>5
<1>4. QED
    BY <1>2, <1>3 DEF Longer

LEMMA BodyTaken ==
    ASSUME HandlerType, HandlerInv, CallerType, HistoryInv, GotBeginning, GotSoFar,
           Readable("client"), NEW f, f = NextFrame("client"), f \in Frame, f.type = "DATA",
           Meant(f), NEW body \in Seq(Byte),
           Longer(body, got.body, f.data)
    PROVE  \E i \in Inodes, m \in Nat, n \in 0..Len(f.data) :
             /\ got.body = F!Content(i, m) /\ body = F!Content(i, m + n)
             /\ \A k \in 1..Len(f.data) : f.data[k] = <<i, m + k>>
             /\ Last(f.data) = <<i, m + Len(f.data)>>
<1>1. f.data # <<>> /\ f.data \in Seq(Byte) /\ Len(f.data) \in Nat
    BY DEF Meant, Truthful, Frame
<1>2. PICK i \in Inodes, m \in Nat :
        /\ got.body = F!Content(i, m)
        /\ \A k \in 1..Len(f.data) : f.data[k] = <<i, m + k>>
        /\ Last(f.data) = <<i, m + Len(f.data)>>
    BY <1>1, BodyFollows
<1>3. PICK s \in Seq(Byte) : s = f.data
    BY <1>1
<1>4. \A k \in 1..Len(s) : s[k] = <<i, m + k>>
    BY <1>2, <1>3
<1>5. Longer(body, F!Content(i, m), s)
    BY <1>2, <1>3
<1>6. \E n \in 0..Len(s) : body = F!Content(i, m + n)
    BY <1>4, <1>5, BodyPart, SMTT(60)
<1>7. QED
    BY <1>2, <1>3, <1>6

\* So with each byte of it the client holds a longer beginning of that file.
LEMMA BodyGrows ==
    ASSUME HandlerType, HandlerInv, CallerType, HistoryInv, GotBeginning, GotSoFar,
           Readable("client"), NEW f, f = NextFrame("client"), f \in Frame, f.type = "DATA",
           Meant(f), NEW body \in Seq(Byte),
           Longer(body, got.body, f.data)
    PROVE  /\ body = <<>> \/ \E h \in held : Found(h) /\ \E n \in 1..h[2] : body = F!Content(h[1], n)
           /\ body = got.body \o f.data =>
                /\ body # <<>> /\ Last(body) = Last(f.data)
                /\ "END_STREAM" \in f.flags => \E h \in held : Found(h) /\ body = F!Content(h[1], h[2])
<1>1. f.data # <<>> /\ f.data \in Seq(Byte) /\ Len(f.data) \in Nat
    BY DEF Meant, Truthful, Frame
<1>2. PICK i \in Inodes, m \in Nat, n \in 0..Len(f.data) :
        /\ got.body = F!Content(i, m) /\ body = F!Content(i, m + n)
        /\ \A k \in 1..Len(f.data) : f.data[k] = <<i, m + k>>
        /\ Last(f.data) = <<i, m + Len(f.data)>>
    BY BodyTaken
<1>3. PICK h \in held :
        /\ Found(h) /\ Last(f.data)[1] = h[1] /\ Last(f.data)[2] <= h[2]
        /\ "END_STREAM" \in f.flags => Last(f.data)[2] = h[2]
    BY DEF Meant, Truthful
<1>4. /\ h[1] = i /\ h[2] \in Nat /\ m + Len(f.data) <= h[2]
      /\ "END_STREAM" \in f.flags => m + Len(f.data) = h[2]
    BY <1>2, <1>3, ServerAssumption DEF HistoryInv
<1>5. got.body \o f.data = F!Content(i, m + Len(f.data))
    BY <1>1, <1>2, ContentGrows
<1>6. body = <<>> \/ \E l \in 1..h[2] : body = F!Content(h[1], l)
    <2>1. CASE m + n = 0
        BY <1>2, <2>1 DEF F!Content
    <2>2. CASE m + n # 0
        <3>1. m + n \in 1..h[2]
            BY <1>1, <1>4, <2>2
        <3>2. QED
            BY <1>4, <1>2, <3>1
    <2>3. QED
        BY <2>1, <2>2
<1>7. ASSUME body = got.body \o f.data
      PROVE  /\ body # <<>> /\ Last(body) = Last(f.data)
             /\ "END_STREAM" \in f.flags => \E x \in held : Found(x) /\ body = F!Content(x[1], x[2])
    <2>1. PICK l \in Nat : l = m + Len(f.data) /\ l > 0
        BY <1>1
    <2>2. body = F!Content(i, l)
        BY <1>5, <1>7, <2>1
    <2>3. Len(body) = l /\ body[l] = <<i, l>>
        <3>1. /\ Len(F!Content(i, l)) = l /\ \A k \in 1..l : F!Content(i, l)[k] = <<i, k>>
            BY ContentFacts
        <3>2. QED
            BY <2>1, <2>2, <3>1
    <2>4. body # <<>> /\ Last(body) = Last(f.data)
        <3>1. Last(f.data) = <<i, l>>
            BY <1>2, <2>1
        <3>2. body # <<>> /\ Last(body) = body[l]
            BY <2>1, <2>3 DEF Last
        <3>3. QED
            BY <2>3, <3>1, <3>2
    <2>5. "END_STREAM" \in f.flags => body = F!Content(h[1], h[2])
        BY <1>4, <2>1, <2>2
    <2>6. QED
        BY <1>3, <2>4, <2>5
<1>8. QED
    BY <1>3, <1>6, <1>7

-----------------------------------------------------------------------------
(* Steps of the client. *)

LEMMA HistoryClient ==
    ASSUME HistoryInv, Track, UNCHANGED serverVars, cpc # "idle", cpc' # "idle", cur' = cur,
           cpc' \in {"send", "response", "data"} => cur.id > 0
    PROVE  HistoryInv' /\ UNCHANGED <<seen, held>>
<1>1. UNCHANGED <<seen, held>>
    BY DEF HistoryInv, Track, serverVars, F!Lengths
<1>2. QED
    BY <1>1 DEF HistoryInv, serverVars

\* Get is about to fail.
LEMMA FailsInv ==
    ASSUME SessionInv, Track, UNCHANGED <<serverVars, cur, broken, results>>,
           cpc # "idle", cpc' = "fail",
           UNCHANGED <<seen, held>> => GotBeginning',
           err'.kind = "remote" => err'.code = CodeProtocolError
    PROVE  SessionInv' /\ UNCHANGED F!fetchVars
<1>1. HistoryInv' /\ UNCHANGED <<seen, held>>
    BY HistoryClient DEF SessionInv
<1>2. SessionInv'
    BY <1>1 DEF SessionInv
<1>3. QED
    BY <1>1, <1>2 DEF F!fetchVars, serverVars

\* A frame that was on its way to the client is taken.
LEMMA MidwayTakes ==
    ASSUME HandlerType, Midway, Readable("client"), Consume("client"), wire' = wire,
           UNCHANGED <<serverVars, cur, seen, held>>
    PROVE  Midway'
<1>1. /\ pos'["client"] = pos["client"] + 1 /\ pos["client"] \in Nat
      /\ pos'["server"] = pos["server"] /\ ~Readable("server") /\ UNCHANGED <<Out, Sent>>
    BY DEF Consume, HandlerType, TransportType, Ends, Midway, Out, Sent
<1>2. ~Readable("server")'
    BY <1>1 DEF Readable, Sent
<1>3. \A f : Meant(f)' <=> Meant(f)
    BY DEF Meant, Truthful, Found
<1>4. \A k \in DOMAIN Out : k > pos'["client"] => k > pos["client"]
    BY <1>1, Wires
<1>5. QED
    BY <1>1, <1>2, <1>3, <1>4 DEF Midway, Serving, serverVars

\* What the client takes was meant for it.
LEMMA TakesMeant ==
    ASSUME HandlerType, CallerType, HistoryInv, Midway, cpc \in {"response", "data"},
           Readable("client")
    PROVE  LET f == NextFrame("client") IN
           /\ f \in Frame /\ Meant(f) /\ cur.id > 0
           /\ Verdict(f) \in {"frame", "truncated"} /\ f.type \in {"RESPONSE", "DATA", "ERROR"}
           /\ Verdict(f) = "frame" /\ "END_STREAM" \in f.flags =>
                pos["client"] + 1 = Len(Out) /\ ~Serving /\ ~Readable("server")
<1> DEFINE f == NextFrame("client")
           n == pos["client"] + 1
<1>1. n \in DOMAIN Out /\ n > pos["client"] /\ f = Out[n]
    BY Wires
<1>2. f \in Frame /\ Meant(f) /\ cur.id > 0
    BY <1>1, Wires DEF Midway, HistoryInv
<1>3. f.type \in {"RESPONSE", "DATA", "ERROR"} /\ f.shape # "oversize"
      /\ (f.type # "ERROR" => f.stream > 0)
    BY <1>2 DEF Meant, Truthful
<1>4. Verdict(f) \in {"frame", "truncated"}
    BY <1>2, <1>3 DEF Verdict, KnownTypes, NeedsStream
<1>5. Verdict(f) = "frame" => f.shape = "whole"
    BY <1>2 DEF Verdict, Frame
<1>6. QED
    BY <1>1, <1>2, <1>3, <1>4, <1>5 DEF Midway

\* Get is called: it starts, or returns at once.
LEMMA GetSession ==
    ASSUME HandlerType, CallerType, CallerType', SessionInv, NEW p \in Paths, CliGet(p),
           UNCHANGED serverVars, Track
    PROVE  SessionInv' /\ (F!Call(p) \/ F!Refuse(p))
<1>1. /\ cpc = "idle" /\ cur = NoGet /\ seen = {} /\ held = {} /\ got.body = <<>>
      /\ UNCHANGED <<broken, got, err, wire, pos, fs, flen, spc, reply, file>>
      /\ ~broken => Quiet
    BY DEF CliGet, SessionInv, HistoryInv, tcp, serverVars
<1>2. Quiet' = Quiet
    BY <1>1 DEF Quiet, Readable, Serving
<1>3. GotBeginning'
    BY <1>1 DEF GotBeginning
<1>4. CASE cpc' = "idle" /\ cur' = cur
    <2>1. seen' = {} /\ held' = {}
        BY <1>4 DEF Track
    <2>2. HistoryInv'
        BY <1>1, <1>4, <2>1 DEF HistoryInv
    <2>3. SessionInv'
        BY <1>1, <1>2, <1>3, <1>4, <2>2 DEF SessionInv
    <2>4. /\ \/ broken /\ results' = Append(results, Outcome(0, p, "broken", 0, <<>>))
             \/ /\ ~broken /\ p \in Unbuildable
                /\ results' = Append(results, Outcome(0, p, "unbuilt", 0, <<>>))
        BY <1>4 DEF CliGet, Return
    <2>5. F!Refuse(p)
        BY <1>1, <1>4, <2>1, <2>4 DEF F!Refuse, F!Outcome, Outcome
    <2>6. QED
        BY <2>3, <2>5
<1>5. CASE cpc' # "idle"
    <2>1. /\ ~broken /\ cpc' \in {"fail", "send"} /\ cur'.path = p /\ results' = results
          /\ cpc' = "send" => cur'.id = next
        BY <1>1, <1>5 DEF CliGet
    <2>2. seen' = {fs[p]} /\ held' = F!Lengths(flen)
        BY <1>1, <1>5, <2>1 DEF Track, F!Lengths
    <2>3. HistoryInv'
        <3>1. fs[p] \in Inodes \cup {None} /\ \A i \in Inodes : flen[i] \in 0..MaxSize
            BY DEF HandlerType, ServerType
        <3>2. F!Lengths(flen) \subseteq Inodes \X (0..MaxSize)
            BY <3>1 DEF F!Lengths
        <3>3. next > 0
            BY FramesAssumption DEF CallerType, ClientType
        <3>4. QED
            BY <1>1, <1>5, <2>1, <2>2, <3>1, <3>2, <3>3 DEF HistoryInv
    <2>4. SessionInv'
        BY <1>1, <1>2, <1>3, <2>1, <2>3 DEF SessionInv
    <2>5. F!Call(p)
        BY <1>1, <1>5, <2>1, <2>2 DEF F!Call
    <2>6. QED
        BY <2>4, <2>5
<1>6. QED
    BY <1>1, <1>4, <1>5 DEF CliGet

\* The request goes out.
LEMMA SendSession ==
    ASSUME HandlerType, CallerType, SessionInv, CliSend, UNCHANGED serverVars, Track
    PROVE  SessionInv' /\ UNCHANGED F!fetchVars
<1> DEFINE f == Request(cur.id, cur.path)
<1>1. /\ cpc = "send" /\ cpc' = "response" /\ ~broken /\ Quiet /\ cur.id > 0
      /\ UNCHANGED <<broken, cur, got, err, results, pos, fs, flen, spc, reply, file>>
      /\ f \in Frame
    BY RequestFrame DEF CliSend, SessionInv, HistoryInv, CallerType, ClientType, serverVars
<1>2. HistoryInv' /\ UNCHANGED <<seen, held>>
    BY <1>1, HistoryClient DEF SessionInv
<1>3. Out' = Out /\ (Sent' = Sent \/ Sent' = Append(Sent, f))
    BY <1>1, SendWire DEF CliSend, CallerType, Ends, Peer, Out, Sent
<1>4. /\ Len(Out) \in Nat /\ Len(Sent) \in Nat /\ pos["client"] = Len(Out) /\ pos["server"] = Len(Sent)
      /\ Sent \in Seq(Frame)
    BY <1>1, Wires DEF Quiet
<1>5. /\ ~Readable("client")' /\ ~Serving'
    BY <1>1, <1>3 DEF Quiet, Readable, Serving, Out
<1>6. Readable("server")' =>
        (pos["server"] + 1 = Len(Sent))' /\ (NextFrame("server") = Request(cur.id, cur.path))'
    <2>1. CASE Sent' = Sent
        BY <1>1, <2>1 DEF Quiet, Readable, Sent
    <2>2. CASE Sent' = Append(Sent, f)
        <3>1. Len(Sent') = Len(Sent) + 1 /\ Sent'[Len(Sent) + 1] = f
            BY <1>1, <1>4, <2>2, AppendFacts
        <3>2. QED
            BY <1>1, <1>4, <3>1 DEF NextFrame, Sent
    <2>3. QED
        BY <1>3, <2>1, <2>2
<1>7. ASSUME NEW k \in DOMAIN Out', k > pos'["client"] PROVE FALSE
    BY <1>1, <1>3, <1>4, <1>7, Wires
<1>8. Midway'
    BY <1>5, <1>6, <1>7 DEF Midway, Serving
<1>9. GotBeginning'
    BY <1>1, <1>2, BeginningStays DEF SessionInv
<1>10. SessionInv'
    BY <1>1, <1>2, <1>8, <1>9 DEF SessionInv
<1>11. QED
    BY <1>1, <1>2, <1>10 DEF F!fetchVars

\* The exchange ends well: back to idle, with everything quiet.
LEMMA ReturnsInv ==
    ASSUME HandlerType, CallerType, SessionInv, Track, UNCHANGED <<serverVars, err, wire>>,
           cpc' = "idle", cur' = NoGet, got' = Nothing, Consume("client"),
           pos["client"] + 1 = Len(Out), ~Serving, ~Readable("server")
    PROVE  SessionInv' /\ seen' = {} /\ held' = {}
<1>1. HistoryInv' /\ seen' = {} /\ held' = {}
    BY DEF Track, HistoryInv
<1>2. pos'["client"] = Len(Out) /\ pos'["server"] = pos["server"] /\ Len(Out) \in Nat
    BY Wires DEF Consume, HandlerType, TransportType, Ends
<1>3. Quiet'
    BY <1>2 DEF Quiet, Readable, Serving, serverVars, Out
<1>4. GotBeginning' /\ got'.body = <<>>
    BY DEF GotBeginning, Nothing
<1>5. QED
    BY <1>1, <1>3, <1>4 DEF SessionInv

\* What Fetch makes of a Get that returns.
LEMMA FetchReturns ==
    ASSUME CallerType, NEW kind, NEW status, NEW body, cpc # "idle", cpc' = "idle", cur' = NoGet,
           results' = Append(results, Outcome(cur.id, cur.path, kind, status, body)),
           seen' = {}, held' = {}, UNCHANGED <<fs, flen>>
    PROVE  F!Return(cur.id, kind, status, body) /\ cur.id \in 0..MaxStreamID
<1>1. cur'.path = Malformed
    BY DEF NoGet
<1>2. cur.id \in 0..MaxStreamID
    BY DEF CallerType, ClientType
<1>3. QED
    BY <1>1, <1>2 DEF F!Return, F!Outcome, Outcome

\* The RESPONSE has arrived, and may be all there is.
LEMMA ResponseSession ==
    ASSUME HandlerType, HandlerInv, CallerType, SessionInv, CliResponse, UNCHANGED serverVars, Track
    PROVE  SessionInv' /\ (F!Answer \/ UNCHANGED F!fetchVars)
<1> DEFINE f == NextFrame("client")
           g == [status |-> f.status, lengths |-> f.lengths, body |-> <<>>]
<1>1. /\ cpc = "response" /\ Readable("client") /\ Verdict(f) = "frame" /\ Consume("client")
      /\ f.type = "RESPONSE" /\ UNCHANGED <<broken, err, wire, fs, flen, serverVars>>
      /\ HistoryInv /\ Midway /\ got.body = <<>> /\ GotBeginning
      /\ err.kind = "remote" => err.code = CodeProtocolError
    BY DEF CliResponse, CliHead, SessionInv, serverVars
<1>2. /\ f \in Frame /\ Meant(f) /\ cur.id > 0
      /\ "END_STREAM" \in f.flags => pos["client"] + 1 = Len(Out) /\ ~Serving /\ ~Readable("server")
    BY <1>1, TakesMeant
<1>3. Truthful(f)
    BY <1>1, <1>2 DEF Meant
<1>4. CASE cpc' = "fail" /\ UNCHANGED <<cur, results>> /\ got'.body = <<>>
    <2>1. GotBeginning'
        BY <1>4 DEF GotBeginning
    <2>2. QED
        BY <1>1, <1>4, <2>1, FailsInv
<1>5. CASE /\ "END_STREAM" \notin f.flags
           /\ cpc' = "data" /\ got' = g /\ UNCHANGED <<cur, results>>
    <2>1. HistoryInv' /\ UNCHANGED <<seen, held>>
        BY <1>1, <1>2, <1>5, HistoryClient
    <2>2. Midway'
        BY <1>1, <1>5, <2>1, MidwayTakes
    <2>3. f.status = 200 /\ cur.path \notin BadPaths
        BY <1>1, <1>3, <1>5 DEF Truthful, EndStream
    <2>4. GotBeginning' /\ got'.body = <<>> /\ got'.status = 200
        BY <1>5, <2>3 DEF GotBeginning
    <2>5. pos'["client"] > 0 /\ Out'[pos'["client"]] = f
        BY <1>1, Wires DEF Consume, HandlerType, TransportType, Ends, Out
    <2>6. GotSoFar'
        BY <1>1, <1>5, <2>3, <2>4, <2>5 DEF GotSoFar
    <2>7. SessionInv'
        BY <1>1, <1>5, <2>1, <2>2, <2>4, <2>6 DEF SessionInv
    <2>8. QED
        BY <1>1, <1>5, <2>1, <2>7 DEF F!fetchVars
<1>6. CASE /\ "END_STREAM" \in f.flags /\ cpc' = "idle" /\ got' = Nothing /\ cur' = NoGet
           /\ Return(Outcome(cur.id, cur.path, "ok", f.status, <<>>))
    <2>1. SessionInv' /\ seen' = {} /\ held' = {}
        BY <1>1, <1>2, <1>6, ReturnsInv
    <2>2. F!Return(cur.id, "ok", f.status, <<>>) /\ cur.id \in 1..MaxStreamID
        BY <1>1, <1>2, <1>6, <2>1, FetchReturns DEF Return
    <2>3. CASE f.status # 200
        BY <1>1, <1>3, <2>1, <2>2, <2>3 DEF F!Answer, Truthful
    <2>4. CASE f.status = 200
        <3>1. PICK h \in held : Found(h) /\ h[2] = 0 /\ cur.path \notin BadPaths
            BY <1>1, <1>3, <1>6, <2>4 DEF Truthful
        <3>2. F!Content(h[1], h[2]) = <<>>
            BY <3>1 DEF F!Content
        <3>3. QED
            BY <1>1, <2>1, <2>2, <2>4, <3>1, <3>2 DEF F!Answer, Found
    <2>5. QED
        BY <2>1, <2>3, <2>4
<1>7. QED
    <2>1. CASE f.status = 0
        BY <1>1, <1>4, <2>1 DEF CliResponse
    <2>2. CASE f.status # 0
        <3>1. CliAccept(f, g)
            BY <2>2 DEF CliResponse
        <3>2. QED
            BY <1>4, <1>5, <1>6, <3>1 DEF CliAccept
    <2>3. QED
        BY <2>1, <2>2

\* A piece of the body has arrived, and may be the last; or the caller's writer
\* has failed in the middle of it.
LEMMA DataSession ==
    ASSUME HandlerType, HandlerInv, CallerType, SessionInv, CliData \/ CliBodyWriteFails,
           UNCHANGED serverVars, Track
    PROVE  SessionInv' /\ (F!Answer \/ UNCHANGED F!fetchVars)
<1> DEFINE f == NextFrame("client")
           g == [got EXCEPT !.body = @ \o f.data]
<1>1. /\ cpc = "data" /\ Readable("client") /\ Verdict(f) = "frame" /\ Consume("client")
      /\ f.type = "DATA" /\ UNCHANGED <<broken, err, wire, fs, flen, serverVars>>
      /\ HistoryInv /\ Midway /\ GotBeginning /\ GotSoFar
      /\ err.kind = "remote" => err.code = CodeProtocolError
    BY DEF CliData, CliBodyWriteFails, CliHead, SessionInv, serverVars
<1>2. /\ f \in Frame /\ Meant(f) /\ cur.id > 0
      /\ "END_STREAM" \in f.flags => pos["client"] + 1 = Len(Out) /\ ~Serving /\ ~Readable("server")
    BY <1>1, TakesMeant
<1>3. /\ got \in [status : Nat, lengths : Seq(Int), body : Seq(Byte)] /\ f.data \in Seq(Byte)
      /\ got.status = 200 /\ cur.path \notin BadPaths /\ got.body \in Seq(Byte)
    BY <1>1, <1>2 DEF CallerType, ClientType, Frame, GotSoFar
<1>4. PICK b \in Seq(Byte) : b = got.body \o f.data
    <2>1. \A x, y \in Seq(Byte) : x \o y \in Seq(Byte)
        OBVIOUS
    <2>2. got.body \o f.data \in Seq(Byte)
        BY <1>3, <2>1
    <2>3. QED
        BY <2>2, Zenon
<1>5. /\ b = <<>> \/ \E h \in held : Found(h) /\ \E n \in 1..h[2] : b = F!Content(h[1], n)
      /\ b # <<>> /\ Last(b) = Last(f.data)
      /\ "END_STREAM" \in f.flags => \E h \in held : Found(h) /\ b = F!Content(h[1], h[2])
    BY <1>1, <1>2, <1>4, BodyGrows DEF Longer
<1>6. g.body = b /\ g.status = 200
    BY <1>3, <1>4
<1> HIDE DEF g
<1>7. CASE CliBodyWriteFails
    <2>1. PICK n \in 0..Len(f.data) : got' = [got EXCEPT !.body = @ \o SubSeq(f.data, 1, n)]
        BY <1>7 DEF CliBodyWriteFails
    <2>2. PICK c \in Seq(Byte) : c = got.body \o SubSeq(f.data, 1, n)
        <3>1. PICK d \in Seq(Byte) : d = SubSeq(f.data, 1, n)
            BY <1>3, FirstBytes
        <3>2. got.body \o d \in Seq(Byte)
            BY <1>3, ConcatFacts
        <3>3. got.body \o d = got.body \o SubSeq(f.data, 1, n)
            BY <3>1, Zenon
        <3>4. QED
            BY <3>2, <3>3, Zenon
    <2>3. c = <<>> \/ \E h \in held : Found(h) /\ \E m \in 1..h[2] : c = F!Content(h[1], m)
        BY <1>1, <1>2, <2>2, BodyGrows DEF Longer
    <2>4. got'.body = c
        BY <1>3, <2>1, <2>2
    <2>5. UNCHANGED <<seen, held>> => GotBeginning'
        BY <2>3, <2>4 DEF GotBeginning, Found
    <2>6. cpc' = "fail" /\ UNCHANGED <<cur, results>>
        BY <1>7 DEF CliBodyWriteFails
    <2>7. QED
        BY <1>1, <2>5, <2>6, FailsInv
<1>8. CASE cpc' = "fail" /\ got' = g /\ UNCHANGED <<cur, results>>
    <2>1. UNCHANGED <<seen, held>> => GotBeginning'
        BY <1>5, <1>6, <1>8 DEF GotBeginning, Found
    <2>2. QED
        BY <1>1, <1>8, <2>1, FailsInv
<1>9. CASE cpc' = "data" /\ got' = g /\ UNCHANGED <<cur, results>>
    <2>1. HistoryInv' /\ UNCHANGED <<seen, held>>
        BY <1>1, <1>2, <1>9, HistoryClient
    <2>2. Midway'
        BY <1>1, <1>9, <2>1, MidwayTakes
    <2>3. GotBeginning'
        BY <1>5, <1>6, <1>9, <2>1 DEF GotBeginning, Found
    <2>4. pos'["client"] > 0 /\ Out'[pos'["client"]] = f
        BY <1>1, Wires DEF Consume, HandlerType, TransportType, Ends, Out
    <2>5. GotSoFar'
        BY <1>1, <1>3, <1>5, <1>6, <1>9, <2>4 DEF GotSoFar
    <2>6. SessionInv'
        BY <1>1, <1>9, <2>1, <2>2, <2>3, <2>5 DEF SessionInv
    <2>7. QED
        BY <1>1, <1>9, <2>1, <2>6 DEF F!fetchVars
<1>10. CASE /\ "END_STREAM" \in f.flags /\ cpc' = "idle" /\ got' = Nothing /\ cur' = NoGet
            /\ Return(Outcome(cur.id, cur.path, "ok", g.status, g.body))
    <2>1. SessionInv' /\ seen' = {} /\ held' = {}
        BY <1>1, <1>2, <1>10, ReturnsInv
    <2>2. F!Return(cur.id, "ok", 200, b) /\ cur.id \in 1..MaxStreamID
        BY <1>1, <1>2, <1>6, <1>10, <2>1, FetchReturns DEF Return
    <2>3. PICK h \in held : Found(h) /\ b = F!Content(h[1], h[2])
        BY <1>5, <1>10
    <2>4. QED
        BY <1>1, <1>3, <2>1, <2>2, <2>3 DEF F!Answer, Found
<1>11. CASE CliData
    <2>1. CliAccept(f, g)
        BY <1>11 DEF CliData, g
    <2>2. QED
        BY <1>8, <1>9, <1>10, <2>1 DEF CliAccept
<1>12. QED
    BY <1>7, <1>11

\* The exchange fails before anything was gained by it, or Get returns the error.
LEMMA FailSession ==
    ASSUME HandlerType, CallerType, SessionInv, UNCHANGED serverVars, Track,
           CliSendFails \/ CliStray \/ CliReadEnds \/ CliRemoteError \/ CliFail
    PROVE  SessionInv' /\ (F!Fail \/ UNCHANGED F!fetchVars)
<1>1. CASE ~CliFail
    <2>1. /\ cpc # "idle" /\ cpc' = "fail" /\ UNCHANGED <<cur, broken, got, results>>
        BY <1>1 DEF CliSendFails, CliStray, CliReadEnds, CliRemoteError, CliHead, Waiting, AfterFailedSend
    <2>2. err'.kind = "remote" => err'.code = CodeProtocolError
        <3>1. CASE CliRemoteError
            <4>1. /\ cpc \in {"response", "data"} /\ Readable("client")
                  /\ NextFrame("client").type = "ERROR" /\ err'.code = NextFrame("client").status
                BY <3>1 DEF CliRemoteError, CliHead, Waiting
            <4>2. Meant(NextFrame("client"))
                BY <4>1, TakesMeant DEF SessionInv
            <4>3. QED
                BY <4>1, <4>2 DEF Meant, Truthful
        <3>2. CASE ~CliRemoteError
            BY <1>1, <3>2 DEF CliSendFails, CliStray, CliReadEnds, SessionInv
        <3>3. QED
            BY <3>1, <3>2
    <2>3. UNCHANGED <<seen, held>> => GotBeginning'
        BY <2>1, BeginningStays DEF SessionInv
    <2>4. QED
        BY <2>1, <2>2, <2>3, FailsInv
<1>2. CASE CliFail
    <2> DEFINE st == IF err.kind = "remote" THEN err.code ELSE 0
    <2>1. /\ cpc = "fail" /\ cpc' = "idle" /\ broken' = TRUE /\ cur' = NoGet /\ got' = Nothing
          /\ results' = Append(results, Outcome(cur.id, cur.path, err.kind, st, got.body))
          /\ UNCHANGED <<err, fs, flen>>
        BY <1>2 DEF CliFail, Breaks, Return, serverVars
    <2>2. HistoryInv' /\ seen' = {} /\ held' = {}
        BY <2>1 DEF Track, HistoryInv
    <2>3. GotBeginning' /\ got'.body = <<>>
        BY <2>1 DEF GotBeginning, Nothing
    <2>4. SessionInv'
        BY <2>1, <2>2, <2>3 DEF SessionInv
    <2>5. F!Return(cur.id, err.kind, st, got.body) /\ cur.id \in 0..MaxStreamID
        BY <2>1, <2>2, FetchReturns
    <2>6. \/ err.kind = "failed" /\ st = 0
          \/ err.kind = "remote" /\ st = CodeProtocolError
        BY DEF CallerType, ClientType, SessionInv
    <2>7. \/ F!Return(cur.id, "failed", 0, got.body)
          \/ F!Return(cur.id, "remote", CodeProtocolError, got.body)
        BY <2>5, <2>6
    <2>8. F!CodeProtocolError = CodeProtocolError
        BY DEF F!CodeProtocolError, CodeProtocolError
    <2>9. CASE got.body = <<>>
        BY <2>1, <2>4, <2>5, <2>7, <2>8, <2>9 DEF F!Fail
    <2>10. CASE got.body # <<>>
        <3>1. PICK h \in held : Found(h) /\ \E n \in 1..h[2] : got.body = F!Content(h[1], n)
            BY <2>10 DEF SessionInv, GotBeginning
        <3>2. PICK n \in 1..h[2] : got.body = F!Content(h[1], n)
            BY <3>1
        <3>3. QED
            BY <2>1, <2>4, <2>5, <2>7, <2>8, <3>1, <3>2 DEF F!Fail, Found
    <2>11. QED
        BY <2>4, <2>9, <2>10
<1>3. QED
    BY <1>1, <1>2

\* Every step of the client.
LEMMA CallerSession ==
    ASSUME HandlerType, HandlerInv, CallerType, SessionInv, ClientStep
    PROVE  /\ HandlerType' /\ HandlerInv' /\ CallerType' /\ SessionInv'
           /\ F!Next \/ UNCHANGED F!fetchVars
<1>1. ClientNext /\ UNCHANGED serverVars /\ Track
    BY DEF ClientStep
<1>2. CallerType' /\ HandlerType' /\ HandlerInv'
    BY <1>1, CallerTypeStep, CallerSide
<1>3. ~CliSkip /\ ~CliReportable
    <2>1. CliSkip \/ CliReportable =>
            /\ cpc \in {"response", "data"} /\ Readable("client")
            /\ \/ Verdict(NextFrame("client")) \in {"skip", "oversize", "streamzero"}
               \/ NextFrame("client").type = "REQUEST"
        BY DEF CliSkip, CliReportable, CliHead, Waiting
    <2>2. QED
        BY <2>1, TakesMeant DEF SessionInv
<1>4. ~(CliReport \/ CliReportFails \/ CliDrain \/ CliDrainEnds)
    BY DEF SessionInv, CliReport, CliReportFails, CliDrain, CliDrainEnds
<1>5. CASE \E p \in Paths : CliGet(p)
    BY <1>1, <1>2, <1>5, GetSession DEF F!Next
<1>6. CASE CliSend
    BY <1>1, <1>2, <1>6, SendSession
<1>7. CASE CliResponse
    BY <1>1, <1>2, <1>7, ResponseSession DEF F!Next
<1>8. CASE CliData \/ CliBodyWriteFails
    BY <1>1, <1>2, <1>8, DataSession DEF F!Next
<1>9. CASE CliSendFails \/ CliStray \/ CliReadEnds \/ CliRemoteError \/ CliFail
    BY <1>1, <1>2, <1>9, FailSession DEF F!Next
<1>10. CASE CliClose
    <2>1. UNCHANGED <<cpc, broken, cur, got, err, results, wire, pos, fs, flen, spc>> /\ cpc = "idle"
        BY <1>1, <1>10 DEF CliClose, clientVars, serverVars
    <2>2. HistoryInv' /\ UNCHANGED <<seen, held>>
        BY <1>1, <1>2, <2>1, HistoryStep DEF SessionInv
    <2>3. Quiet' = Quiet /\ GotBeginning'
        BY <2>1, <2>2, BeginningStays DEF Quiet, Readable, Serving, SessionInv
    <2>4. SessionInv'
        BY <2>1, <2>2, <2>3 DEF SessionInv
    <2>5. QED
        BY <1>2, <2>1, <2>2, <2>4 DEF F!fetchVars
<1>11. QED
    BY <1>1, <1>3, <1>4, <1>5, <1>6, <1>7, <1>8, <1>9, <1>10 DEF ClientNext, GetStep

-----------------------------------------------------------------------------

LEMMA SessionStart ==
    ASSUME Init
    PROVE  HandlerType /\ HandlerInv /\ CallerType /\ SessionInv /\ F!Init
<1>1. HandlerType /\ HandlerInv /\ CallerType
    BY HandlerStart, CallerStart DEF Init
<1>2. /\ cpc = "idle" /\ cur = NoGet /\ seen = {} /\ held = {} /\ got.body = <<>>
      /\ err.kind = "failed" /\ spc = "read" /\ broken = FALSE /\ results = <<>>
    BY DEF Init, ClientInit, ServerInit, Nothing, NoErr
<1>3. Quiet
    BY <1>2 DEF Quiet, Serving, Readable, Init, TransportInit, Ends
<1>4. HistoryInv /\ GotBeginning
    BY <1>2 DEF HistoryInv, GotBeginning
<1>5. SessionInv
    BY <1>2, <1>3, <1>4 DEF SessionInv
<1>6. fs \in [Paths -> Inodes \cup {None}] /\ flen \in [Inodes -> Nat]
    BY <1>1, ServerAssumption DEF HandlerType, ServerType
<1>7. F!Init
    BY <1>2, <1>6 DEF F!Init, NoGet
<1>8. QED
    BY <1>1, <1>5, <1>7

LEMMA SessionStep ==
    ASSUME HandlerType, HandlerInv, CallerType, SessionInv, [Next]_vars
    PROVE  /\ HandlerType' /\ HandlerInv' /\ CallerType' /\ SessionInv'
           /\ [F!Next]_(F!fetchVars)
<1>1. CASE ServerStep
    BY <1>1, HandlerSession DEF F!Next
<1>2. CASE ClientStep
    BY <1>2, CallerSession
<1>3. CASE UNCHANGED vars
    <2>1. /\ UNCHANGED <<tcp, serverVars, clientVars, seen, held>>
        BY <1>3 DEF vars
    <2>2. TransportType'
        BY <2>1 DEF HandlerType, TransportType, tcp
    <2>3. HandlerType' /\ HandlerInv'
        BY <2>1, <2>2, HandlerStays DEF tcp, Out
    <2>4. OtherSide
        BY <2>1 DEF OtherSide, tcp, Sent, Received
    <2>5. CallerType'
        BY <2>2, <2>4, CallerTypeStays
    <2>6. UNCHANGED <<cpc, broken, cur, got, err, results, wire, pos, fs, flen, spc, reply, file>>
        BY <2>1 DEF tcp, serverVars, clientVars
    <2>7. HistoryInv' /\ GotBeginning' /\ Quiet' = Quiet
        BY <2>1, <2>6 DEF SessionInv, HistoryInv, GotBeginning, Found, Quiet, Readable, Serving
    <2>8. cpc \in {"response", "data"} => Midway'
        BY <2>1, <2>6, MidwayStays DEF SessionInv, Out, Sent
    <2>9. cpc = "data" => GotSoFar'
        BY <2>6 DEF SessionInv, GotSoFar, Out
    <2>10. SessionInv'
        BY <2>6, <2>7, <2>8, <2>9 DEF SessionInv
    <2>11. UNCHANGED F!fetchVars
        BY <2>1, <2>6 DEF F!fetchVars
    <2>12. QED
        BY <2>3, <2>5, <2>10, <2>11
<1>4. QED
    BY <1>1, <1>2, <1>3 DEF Next, Finished

\* What the caller of Get sees is what Fetch allows: a whole file the path named,
\* with a length it had, during the call; an honest status; or a failure that
\* wrote at most the beginning of such a file and ends the client.
THEOREM SessionFetches == Spec => FetchesSafely
<1> DEFINE Inv == HandlerType /\ HandlerInv /\ CallerType /\ SessionInv
<1>1. Init => Inv /\ F!Init
    BY SessionStart
<1>2. Inv /\ [Next]_vars => Inv' /\ [F!Next]_(F!fetchVars)
    BY SessionStep
<1>3. QED
    BY <1>1, <1>2, PTL DEF Spec, FetchesSafely, F!Safety

-----------------------------------------------------------------------------
(* The two ends together, with what the client knows of the answers. *)

ConnInv == HandlerType /\ HandlerInv /\ CallerType /\ SessionInv /\ AnswersInv

LEMMA ConnSession ==
    ASSUME ConnInv, [Next]_vars
    PROVE  ConnInv' /\ [F!Next]_(F!fetchVars)
<1>1. /\ HandlerType' /\ HandlerInv' /\ CallerType' /\ SessionInv'
      /\ [F!Next]_(F!fetchVars)
    BY SessionStep DEF ConnInv
<1>2. CASE ServerStep
    <2>1. OtherSide
        BY <1>1, <1>2, HandlerSide DEF ConnInv, ServerStep
    <2>2. QED
        BY <1>1, <2>1, AnswersStay DEF ConnInv
<1>3. CASE ClientStep
    BY <1>1, <1>3, AnswersStep DEF ConnInv, ClientStep
<1>4. CASE UNCHANGED vars
    <2>1. OtherSide
        BY <1>4 DEF vars, tcp, OtherSide, Sent, Received
    <2>2. QED
        BY <1>1, <2>1, AnswersStay DEF ConnInv
<1>5. QED
    BY <1>2, <1>3, <1>4 DEF Next, Finished

-----------------------------------------------------------------------------
(* A connection without faults. *)

\* What is known of it besides CalmInv.
BothInv == ConnInv /\ BrokenInv /\ IdsInv /\ EndInv /\ ResetsFromClosed

LEMMA BothResets ==
    ASSUME HandlerType, CallerType, ResetsFromClosed,
           ServerNext \/ SrvDrop \/ FifoOpened \/ FsChange \/ ClientNext
    PROVE  ResetsFromClosed'
<1>1. TransportType /\ "client" \in Ends /\ "server" \in Ends
    BY DEF HandlerType, Ends
<1>2. \/ UNCHANGED <<closed, rst>>
      \/ closed' = closed /\ (Send("server", reply) \/ Send("client", Ask) \/ Send("client", Report))
      \/ CloseSocket("server") \/ CloseSocket("client")
    BY DEF ServerNext, SrvSkip, SrvServeRequest, FifoOpened, SrvStat, SrvChunk, SrvBodyError,
       SrvUnexpected, SrvPeerError, SrvStreamZero, SrvOversize, SrvReadEnds, SrvIdle, SrvWrite,
       SrvWriteFails, SrvDrain, SrvDrainEnds, SrvClose, SrvDrop, FsChange, ClientNext, GetStep,
       CliGet, CliSend, CliSendFails, CliSkip, CliResponse, CliData, CliBodyWriteFails, CliStray,
       CliRemoteError, CliReportable, CliReadEnds, CliReport, CliReportFails, CliDrain,
       CliDrainEnds, CliFail, CliClose, tcp, Ask, Report
<1>3. QED
    BY <1>1, <1>2, ResetsSend, ResetsClose, ResetsStay

LEMMA BothStep ==
    ASSUME BothInv, [Next]_vars
    PROVE  BothInv'
<1>1. ConnInv'
    BY ConnSession DEF BothInv
<1>2. CASE ServerStep
    <2>1. OtherSide
        BY <1>1, <1>2, HandlerSide DEF BothInv, ConnInv, ServerStep
    <2>2. ResetsFromClosed'
        BY <1>2, BothResets DEF BothInv, ConnInv, ServerStep
    <2>3. QED
        BY <1>1, <2>1, <2>2, OthersStay DEF BothInv, ConnInv
<1>3. CASE ClientStep
    <2>1. ResetsFromClosed'
        BY <1>3, BothResets DEF BothInv, ConnInv, ClientStep
    <2>2. QED
        BY <1>1, <1>3, <2>1, BrokenStep, IdsStep, EndStep DEF BothInv, ConnInv, ClientStep
<1>4. CASE UNCHANGED vars
    <2>1. OtherSide
        BY <1>4 DEF vars, tcp, OtherSide, Sent, Received
    <2>2. ResetsFromClosed'
        BY <1>4, ResetsStay DEF BothInv, vars, tcp
    <2>3. QED
        BY <1>1, <2>1, <2>2, OthersStay DEF BothInv, ConnInv
<1>5. QED
    BY <1>2, <1>3, <1>4 DEF Next, Finished

\* The handler works on something only while the client waits for it.
LEMMA ServingWaits ==
    ASSUME BothInv, CalmInv, Going, Serving
    PROVE  Midway /\ ~Readable("server") /\ cur.id > 0
<1>1. ~broken
    BY DEF BothInv, BrokenInv, BrokenForGood, Going
<1>2. cpc \in {"response", "data"}
    BY <1>1 DEF BothInv, ConnInv, SessionInv, Quiet, Going, CallerType, ClientType
<1>3. QED
    BY <1>2 DEF BothInv, ConnInv, SessionInv, HistoryInv, Midway

\* What the handler writes is plain.
LEMMA RepliesPlain ==
    ASSUME BothInv, CalmInv, ServerNext \/ FsChange
    PROVE  Plain(reply)'
<1>1. HandlerType /\ Plain(reply) /\ MaxPayload \in Nat
    BY FramesAssumption DEF BothInv, ConnInv, CalmInv
<1>2. CASE reply' = reply
    BY <1>1, <1>2 DEF Plain
<1>3. ASSUME NEW id, NEW status, reply' = StatusFrame(id, status)
      PROVE  Plain(reply)'
    BY <1>1, <1>3 DEF StatusFrame, Response, Whole, Plain
<1>4. ASSUME NEW code, reply' = Error(code)
      PROVE  Plain(reply)'
    BY <1>1, <1>4 DEF Error, Whole, Plain
<1>5. ASSUME NEW id, NEW n, reply' = Response(id, 200, n, IF n = 0 THEN EndStream ELSE {})
      PROVE  Plain(reply)'
    BY <1>1, <1>5 DEF Response, Whole, Plain, EndStream
<1>6. CASE SrvChunk
    <2>1. PICK bytes, flags : /\ bytes = [k \in 1..ChunkSize |-> <<file.ino, file.off + k>>]
                              /\ reply' = Data(file.stream, bytes, flags)
        BY <1>6 DEF SrvChunk, GoWrite
    <2>2. bytes \in Seq(Byte) /\ Len(bytes) = ChunkSize /\ ChunkSize <= MaxPayload
        BY <1>1, <1>6, <2>1, ChunkBytes, ChunkFacts DEF SrvChunk
    <2>3. QED
        BY <2>1, <2>2 DEF Data, Whole, Plain
<1>7. CASE ~SrvChunk
    <2>1. \/ reply' = reply
          \/ \E id, status : reply' = StatusFrame(id, status)
          \/ \E code : reply' = Error(code)
          \/ \E id, n : reply' = Response(id, 200, n, IF n = 0 THEN EndStream ELSE {})
        BY <1>7 DEF ServerNext, SrvSkip, SrvServeRequest, SrvStat, SrvBodyError,
           SrvUnexpected, SrvPeerError, SrvStreamZero, SrvOversize, SrvReadEnds, SrvIdle, SrvWrite,
           SrvWriteFails, SrvDrain, SrvDrainEnds, SrvClose, FsChange, GoWrite, GiveUp,
           serverVars, handlerVars
    <2>2. QED
        BY <1>2, <1>3, <1>4, <1>5, <2>1
<1>8. QED
    BY <1>6, <1>7

\* Without faults its writes succeed while the client is there.
LEMMA WritesSucceed ==
    ASSUME BothInv, CalmInv, Faults = {}, Going, Attends, SrvWriteFails
    PROVE  FALSE
<1>1. Serving /\ reply \in Frame /\ ~closed["client"]
    BY DEF SrvWriteFails, Serving, BothInv, ConnInv, HandlerType, ServerType, Going
<1>2. cur.id > 0 /\ Meant(reply)
    BY <1>1, ServingWaits DEF Midway, SrvWriteFails
<1>3. NeedsStream(reply.type) => reply.stream = cur.id
    BY <1>2 DEF NeedsStream, Meant
<1>4. Encodable(reply)
    BY <1>2, <1>3 DEF Encodable, CalmInv, Plain
<1>5. ~rst["server"]
    BY <1>1 DEF BothInv, ResetsFromClosed, Ends, Peer
<1>6. QED
    BY <1>4, <1>5 DEF SrvWriteFails, SendFails, Attends

\* Nothing it writes is torn.
LEMMA OutGrows ==
    ASSUME HandlerType, Faults = {}, ServerNext \/ FsChange
    PROVE  Out' = Out \/ (SrvWrite /\ Out' = Append(Out, reply))
<1>1. /\ "server" \in Ends /\ Peer("server") = "client" /\ TransportType /\ reply \in Frame
    BY DEF HandlerType, ServerType, Ends, Peer
<1>2. CASE SrvWrite
    BY <1>1, <1>2, SendWire DEF SrvWrite, Out
<1>3. CASE SrvWriteFails
    BY <1>3 DEF SrvWriteFails, SendFails, Out
<1>4. CASE ~SrvWrite /\ ~SrvWriteFails
    BY <1>4 DEF ServerNext, SrvSkip, SrvServeRequest, SrvStat, SrvChunk, SrvBodyError,
       SrvUnexpected, SrvPeerError, SrvStreamZero, SrvOversize, SrvReadEnds, SrvIdle,
       SrvDrain, SrvDrainEnds, SrvClose, FsChange, tcp, Out
<1>5. QED
    BY <1>2, <1>3, <1>4

\* It stays until it has reported: nothing else makes it leave a client that is
\* there.
LEMMA HandlerAttends ==
    ASSUME BothInv, BothInv', CalmInv, Faults = {}, Going, Attends, ServerNext \/ FsChange,
           OtherSide
    PROVE  Attends' \/ ReportWaits'
<1>1. /\ ~closed["client"] /\ ~fin["client"] /\ ~rst["server"] /\ ~closed["server"] /\ ~fin["server"]
      /\ spc \in {"read", "stat", "body", "send"} /\ HandlerType
    BY DEF Going, Attends, CalmInv, BothInv, ConnInv, ResetsFromClosed, Ends, Peer
<1>2. CASE SrvSkip \/ SrvServeRequest \/ SrvStat \/ SrvChunk \/ SrvBodyError
           \/ SrvUnexpected \/ SrvStreamZero \/ FsChange
    BY <1>1, <1>2 DEF SrvSkip, SrvServeRequest, SrvStat, SrvChunk, SrvBodyError, SrvUnexpected,
       SrvStreamZero, FsChange, GoWrite, GiveUp, serverVars, handlerVars, tcp, Attends
<1>3. CASE SrvPeerError \/ SrvOversize
    <2>1. Readable("server")
        BY <1>3 DEF SrvPeerError, SrvOversize, SrvHead
    <2>2. NextFrame("server").type = "REQUEST"
        <3>1. pos["server"] + 1 \in DOMAIN Sent /\ NextFrame("server") = Sent[pos["server"] + 1]
            BY <1>1, <2>1, Wires
        <3>2. QED
            BY <3>1 DEF CalmInv
    <2>3. SrvOversize /\ spc' = "send"
        BY <1>3, <2>2 DEF SrvPeerError, SrvOversize, Reported, GoWrite
    <2>4. QED
        BY <1>1, <2>3 DEF SrvOversize, Attends
<1>4. CASE SrvReadEnds \/ SrvIdle
    BY <1>1, <1>4 DEF SrvReadEnds, SrvIdle, SrvInputOver, ReadEnds, InputEnds, Peer
<1>5. CASE SrvWriteFails
    BY <1>5, WritesSucceed
<1>6. CASE SrvWrite
    <2>1. CASE reply.type # "ERROR"
        BY <1>1, <1>6, <2>1 DEF SrvWrite, Attends
    <2>2. CASE reply.type = "ERROR"
        <3>1. Serving /\ spc' = "drain"
            BY <1>6, <2>2 DEF SrvWrite, Serving
        <3>2. Out \in Seq(Frame) /\ reply \in Frame /\ Len(Out) \in Nat /\ pos["client"] \in 0..Len(Out)
            BY <1>1, Wires DEF HandlerType, ServerType
        <3>3. Out' = Append(Out, reply)
            <4>1. /\ "server" \in Ends /\ Peer("server") = "client" /\ TransportType
                BY <1>1 DEF HandlerType, Ends, Peer
            <4>2. QED
                BY <1>1, <1>6, <3>2, <4>1, SendWire DEF SrvWrite, Out
        <3>4. /\ Out' \in Seq(Frame) /\ Len(Out') = Len(Out) + 1 /\ Out'[Len(Out')] = reply
            BY <3>2, <3>3, AppendFacts
        <3>5. Out' # <<>> /\ Last(Out').type = "ERROR"
            BY <2>2, <3>2, <3>4 DEF Last
        <3>6. ~Readable("server") /\ InFlight("server") = 0
            <4>1. ~Readable("server")
                BY <3>1, ServingWaits
            <4>2. QED
                BY <1>1, <4>1, Wires DEF InFlight, Sent
        <3>7. pos'["server"] = pos["server"] /\ pos'["client"] = pos["client"]
            BY <1>1, <1>6, <2>2, <3>6 DEF SrvWrite, HandlerType, TransportType, Ends
        <3>8. ~Readable("server")' /\ Readable("client")'
            BY <3>2, <3>4, <3>6, <3>7 DEF Readable, OtherSide, Sent, Out
        <3>9. QED
            BY <3>1, <3>5, <3>8 DEF ReportWaits
    <2>3. QED
        BY <2>1, <2>2
<1>7. QED
    BY <1>1, <1>2, <1>3, <1>4, <1>5, <1>6 DEF ServerNext, SrvDrain, SrvDrainEnds, SrvClose

\* Once its report is on its way, it only leaves.
LEMMA HandlerLeaves ==
    ASSUME BothInv, CalmInv, Going, ReportWaits, ServerNext \/ FsChange
    PROVE  ReportWaits' /\ rst'["client"] = rst["client"]
<1>1. HandlerType /\ spc \in {"drain", "close", "done"} /\ ~Readable("server")
    BY DEF BothInv, ConnInv, ReportWaits
<1>2. SrvDrainEnds \/ SrvClose \/ FsChange
    BY <1>1 DEF ServerNext, SrvSkip, SrvServeRequest, SrvStat, SrvChunk, SrvBodyError,
       SrvUnexpected, SrvPeerError, SrvStreamZero, SrvOversize, SrvReadEnds, SrvIdle, SrvWrite,
       SrvWriteFails, SrvDrain, SrvHead
<1>3. UNCHANGED <<wire, pos>> /\ spc' \in {"drain", "close", "done"}
    BY <1>1, <1>2 DEF SrvDrainEnds, SrvClose, FsChange, tcp, handlerVars
<1>4. ReportWaits'
    BY <1>3 DEF ReportWaits, Readable, Out
<1>5. ~(InFlight("server") > 0)
    BY <1>1, Wires DEF InFlight, Sent
<1>6. rst'["client"] = rst["client"]
    BY <1>2, <1>5 DEF SrvDrainEnds, SrvClose, FsChange, CloseSocket, tcp
<1>7. QED
    BY <1>4, <1>6

LEMMA CalmServer ==
    ASSUME BothInv, BothInv', CalmInv, Faults = {}, ServerStep
    PROVE  CalmInv'
<1>1. HandlerType /\ HandlerType' /\ OtherSide /\ UNCHANGED clientVars
    BY HandlerSide DEF BothInv, ConnInv, ServerStep
<1>2. ServerNext \/ FsChange
    BY <1>1 DEF ServerStep, SrvDrop, FifoOpened, HandlerType
<1>3. UNCHANGED <<cpc, cur, err, results, Sent>> /\ pos'["client"] = pos["client"]
      /\ closed'["client"] = closed["client"]
    BY <1>1 DEF OtherSide, clientVars
<1>4. /\ Out \in Seq(Frame) /\ Len(Out) \in Nat /\ pos["client"] \in 0..Len(Out) /\ reply \in Frame
      /\ fin \in [Ends -> BOOLEAN] /\ rst \in [Ends -> BOOLEAN] /\ Ends = {"client", "server"}
    BY <1>1, Wires DEF HandlerType, ServerType, TransportType, Ends
<1>5. \/ Out' = Out
      \/ /\ Out' \in Seq(Frame) /\ Len(Out') = Len(Out) + 1 /\ Out'[Len(Out) + 1] = reply
         /\ \A k \in 1..Len(Out) : Out'[k] = Out[k]
    BY <1>1, <1>2, <1>4, OutGrows, AppendFacts
<1>6. /\ FailureExplained'
      /\ cpc' = "fail" /\ err'.kind = "failed" => Unsent(cur.id)'
      /\ \A k \in DOMAIN Sent' : Sent'[k].type = "REQUEST"
    BY <1>3 DEF CalmInv, FailureExplained, Unsent
<1>7. Plain(reply)'
    BY <1>2, RepliesPlain
<1>8. \A k \in DOMAIN Out' : Plain(Out[k])'
    <2>1. SUFFICES ASSUME NEW k \in DOMAIN Out' PROVE Plain(Out'[k])
        BY DEF Plain
    <2>2. Plain(reply) /\ \A i \in 1..Len(Out) : Plain(Out[i])
        BY <1>4 DEF CalmInv
    <2>3. CASE Out' = Out
        BY <1>4, <2>2, <2>3
    <2>4. CASE Out' # Out
        <3>1. k \in 1..Len(Out) \/ k = Len(Out) + 1
            BY <1>4, <1>5, <2>4
        <3>2. QED
            BY <1>5, <2>2, <2>4, <3>1
    <2>5. QED
        BY <2>3, <2>4
<1>9. fin'["client"] => closed'["client"]
    <2>1. fin'["client"] = fin["client"]
        BY <1>2, <1>4 DEF ServerNext, SrvSkip, SrvServeRequest, SrvStat, SrvChunk, SrvBodyError,
           SrvUnexpected, SrvPeerError, SrvStreamZero, SrvOversize, SrvReadEnds, SrvIdle, SrvWrite,
           SrvWriteFails, SrvDrain, SrvDrainEnds, SrvClose, FsChange, tcp, HalfClose, CloseSocket
    <2>2. QED
        BY <1>3, <2>1 DEF CalmInv
<1>10. Going' => ~rst'["client"] /\ (Attends' \/ ReportWaits')
    <2>1. SUFFICES ASSUME Going PROVE ~rst'["client"] /\ (Attends' \/ ReportWaits')
        BY <1>3 DEF Going
    <2>2. CASE ReportWaits
        BY <1>2, <2>1, <2>2, HandlerLeaves DEF CalmInv
    <2>3. CASE Attends
        <3>1. rst'["client"] = rst["client"]
            BY <1>2, <1>4, <2>3 DEF ServerNext, SrvSkip, SrvServeRequest, SrvStat, SrvChunk,
               SrvBodyError, SrvUnexpected, SrvPeerError, SrvStreamZero, SrvOversize, SrvReadEnds,
               SrvIdle, SrvWrite, SrvWriteFails, SrvDrain, SrvDrainEnds, SrvClose, FsChange, tcp,
               Send, Attends
        <3>2. QED
            BY <1>1, <1>2, <2>1, <2>3, <3>1, HandlerAttends DEF CalmInv
    <2>4. QED
        BY <2>1, <2>2, <2>3 DEF CalmInv
<1>11. Going' /\ cpc' # "data" => (pos'["client"] > 0 => "END_STREAM" \in Out'[pos'["client"]].flags)
    <2>1. pos["client"] > 0 => Out'[pos["client"]] = Out[pos["client"]]
        BY <1>4, <1>5
    <2>2. QED
        BY <1>3, <2>1 DEF CalmInv, Going
<1>12. QED
    BY <1>6, <1>7, <1>8, <1>9, <1>10, <1>11 DEF CalmInv

\* A client that waits is there, and so is its input.
LEMMA InputGoesOn ==
    ASSUME BothInv, CalmInv, Faults = {}, CliReadEnds
    PROVE  FALSE
<1>1. cpc \in {"response", "data"} /\ ~closed["client"] /\ Going /\ HandlerType
    BY DEF CliReadEnds, Waiting, BothInv, ConnInv, CallerType, Going
<1>2. ReadEnds("client") /\ ~rst["client"] /\ (Attends \/ ReportWaits)
    BY <1>1 DEF CliReadEnds, CliInputOver, CalmInv
<1>3. fin["server"]
    BY <1>1, <1>2 DEF ReadEnds, InputEnds, Peer
<1>4. Readable("client")
    BY <1>2, <1>3 DEF Attends, ReportWaits
<1>5. NextFrame("client").shape = "whole"
    <2>1. pos["client"] + 1 \in DOMAIN Out /\ NextFrame("client") = Out[pos["client"] + 1]
        BY <1>1, <1>4, Wires
    <2>2. QED
        BY <2>1 DEF CalmInv, Plain
<1>6. Verdict(NextFrame("client")) # "truncated"
    BY <1>5 DEF Verdict
<1>7. QED
    BY <1>1, <1>2, <1>4, <1>6, Wires DEF ReadEnds, InputEnds, Out

\* What it takes is the frame it waits for, or a report.
LEMMA NoStray ==
    ASSUME BothInv, CalmInv, CliStray
    PROVE  FALSE
<1> DEFINE n == pos["client"]
           f == NextFrame("client")
<1>1. /\ cpc \in {"response", "data"} /\ Readable("client") /\ HandlerType /\ HandlerInv /\ CallerType
      /\ SessionInv /\ Midway /\ HistoryInv /\ Going
    BY DEF CliStray, CliHead, Waiting, BothInv, ConnInv, CallerType, Going, SessionInv
<1>2. Meant(f) /\ f.type \in {"RESPONSE", "DATA"}
    BY <1>1, TakesMeant DEF CliStray
<1>3. f.stream = cur.id /\ f.type # Wanted
    BY <1>2 DEF Meant, CliStray
<1>4. n \in Nat /\ n + 1 \in 1..Len(Out) /\ f = Out[n + 1] /\ Received = Out
    <2>1. HandlerType /\ Readable("client")
        BY <1>1
    <2>2. QED
        BY <2>1, Wires
<1>5. n = 0 => f.type = "RESPONSE"
    BY <1>1, <1>2, <1>4 DEF HandlerInv, NeverInterleaved, Sequential
<1>6. n > 0 => ("END_STREAM" \in Out[n].flags <=> f.type = "RESPONSE")
    <2>1. n > 0 => Continues(Out[n], f)
        BY <1>1, <1>4 DEF HandlerInv, NeverInterleaved, Sequential
    <2>2. QED
        BY <1>2, <2>1 DEF Continues
<1>7. CASE cpc = "response"
    BY <1>1, <1>2, <1>3, <1>4, <1>5, <1>6, <1>7 DEF CalmInv, Wanted
<1>8. CASE cpc = "data"
    <2>1. n > 0 /\ Out[n].type \in {"RESPONSE", "DATA"}
        BY <1>1, <1>8 DEF SessionInv, GotSoFar
    <2>2. Verdict(Out[n]) # "skip"
        BY <2>1 DEF Verdict, KnownTypes
    <2>3. "END_STREAM" \notin Out[n].flags
        BY <1>4, <1>8, <2>2 DEF BothInv, ConnInv, AnswersInv, Gathering
    <2>4. QED
        BY <1>2, <1>3, <1>6, <1>8, <2>1, <2>3 DEF Wanted
<1>9. QED
    BY <1>1, <1>7, <1>8

\* A response of the handler is accepted ...
LEMMA ResponseAccepted ==
    ASSUME BothInv, CalmInv, CliResponse
    PROVE  cpc' # "fail"
<1> DEFINE f == NextFrame("client")
<1>1. /\ cpc = "response" /\ Readable("client") /\ HandlerType /\ CallerType /\ Midway /\ HistoryInv
      /\ f.type = "RESPONSE"
    BY DEF CliResponse, CliHead, BothInv, ConnInv, SessionInv
<1>2. Meant(f)
    BY <1>1, TakesMeant
<1>3. f.status # 0
    BY <1>1, <1>2 DEF Meant, Truthful
<1>4. Plain(f)
    BY <1>1, Wires DEF CalmInv
<1>5. "END_STREAM" \in f.flags => LengthsAgree(f.lengths, 0)
    <2>1. f \in Frame
        BY <1>1, TakesMeant
    <2>2. f.lengths \in Seq(Int)
        BY <2>1 DEF Frame
    <2>3. QED
        BY <1>1, <1>4, <2>2 DEF Plain, LengthsAgree
<1>6. PICK g : /\ g.lengths = f.lengths /\ g.body = <<>>
               /\ CliAccept(f, g)
    BY <1>3 DEF CliResponse
<1>7. Len(g.body) = 0
    BY <1>6
<1>8. QED
    BY <1>5, <1>6, <1>7 DEF CliAccept

\* ... and so is the end of a body: it has the length that was announced.
LEMMA BodyAccepted ==
    ASSUME BothInv, CalmInv, CliData
    PROVE  cpc' # "fail"
<1> DEFINE n == pos["client"]
           f == NextFrame("client")
<1>1. /\ cpc = "data" /\ Readable("client") /\ HandlerType /\ HandlerInv /\ CallerType /\ Midway
      /\ HistoryInv /\ GotBeginning /\ GotSoFar /\ Gathering /\ f.type = "DATA"
    BY DEF CliData, CliHead, BothInv, ConnInv, SessionInv, AnswersInv
<1>2. Meant(f) /\ f \in Frame
    BY <1>1, TakesMeant
<1>3. /\ n \in Nat /\ n + 1 \in 1..Len(Out) /\ f = Out[n + 1] /\ Received = Out
      /\ \A k \in 1..Len(Out) : Plain(Out[k])
    BY <1>1, Wires DEF CalmInv
<1>4. PICK j \in 1..n : /\ Stretch(Out, j, n, cur.id) /\ Out[j].lengths = got.lengths
    BY <1>1, <1>3 DEF Gathering
<1>5. PICK i \in 1..n : Opens(Out, i, n + 1) /\ Promised(Out[i], f)
    BY <1>1, <1>3 DEF HandlerInv, BodyAsAnnounced, Honest
<1>6. Out[j].type = "RESPONSE" /\ Out[i].type = "RESPONSE"
    BY <1>4, <1>5 DEF Stretch, Opens
<1>7. i = j
    <2>1. ~(i < j)
        <3>1. i < j => j \in (i + 1)..(n + 1)
            BY <1>3
        <3>2. QED
            BY <1>5, <1>6, <3>1 DEF Opens
    <2>2. ~(j < i)
        BY <1>3, <1>4, <1>6 DEF Stretch, Verdict, KnownTypes
    <2>3. QED
        BY <1>3, <2>1, <2>2
<1>8. Len(got.lengths) = 1 /\ got.lengths \in Seq(Int) /\ got.body \in Seq(Byte) /\ f.data \in Seq(Byte)
    <2>1. got.lengths \in Seq(Int) /\ got.body \in Seq(Byte)
        BY <1>1 DEF CallerType, ClientType
    <2>2. f.data \in Seq(Byte)
        BY <1>2 DEF Frame
    <2>3. Plain(Out[j])
        BY <1>3
    <2>4. Len(Out[j].lengths) = 1
        BY <1>6, <2>3 DEF Plain
    <2>5. QED
        BY <1>4, <2>1, <2>2, <2>4
<1>9. PICK g : g.lengths = got.lengths /\ g.body = got.body \o f.data /\ CliAccept(f, g)
    BY <1>1 DEF CliData, CallerType, ClientType
<1>10. g.body \in Seq(Byte) /\ Len(g.body) = Len(got.body) + Len(f.data) /\ Len(f.data) \in Nat
    <2>1. \A x, y \in Seq(Byte) : x \o y \in Seq(Byte) /\ Len(x \o y) = Len(x) + Len(y) /\ Len(y) \in Nat
        OBVIOUS
    <2>2. QED
        BY <1>8, <1>9, <2>1, Zenon
<1>11. Longer(g.body, got.body, f.data)
    BY <1>9 DEF Longer
<1>12. PICK x \in Inodes, m \in Nat : /\ got.body = F!Content(x, m)
                                     /\ Last(f.data) = <<x, m + Len(f.data)>>
    <2>1. \E x \in Inodes, m \in Nat, k \in 0..Len(f.data) :
             /\ got.body = F!Content(x, m) /\ Last(f.data) = <<x, m + Len(f.data)>>
        BY <1>1, <1>2, <1>10, <1>11, BodyTaken
    <2>2. QED
        BY <2>1
<1>13. Last(f.data)[2] = Len(g.body)
    BY <1>10, <1>12, ContentFacts
<1>14. "END_STREAM" \in f.flags => LengthsAgree(g.lengths, Len(g.body))
    <2>1. DOMAIN g.lengths = {1}
        BY <1>8, <1>9
    <2>2. "END_STREAM" \in f.flags => g.lengths[1] = Len(g.body)
        BY <1>4, <1>5, <1>7, <1>9, <1>13 DEF Promised
    <2>3. QED
        BY <2>1, <2>2 DEF LengthsAgree
<1>15. QED
    BY <1>9, <1>14 DEF CliAccept

\* So a Get fails without a report only when its request did not go out.
LEMMA OnlyUnsentFails ==
    ASSUME BothInv, CalmInv, Faults = {}, ClientNext, cpc' = "fail", err'.kind = "failed"
    PROVE  Sent' = Sent /\ Unsent(cur'.id)
<1>1. HandlerType /\ CallerType /\ SessionInv /\ IdsInv
    BY DEF BothInv, ConnInv
<1>2. \A k \in DOMAIN Sent : Sent[k].stream \in Nat /\ Sent[k].stream > 0 /\ k \in Requests
    <2>1. SUFFICES ASSUME NEW k \in DOMAIN Sent
                   PROVE  Sent[k].stream \in Nat /\ Sent[k].stream > 0 /\ k \in Requests
        OBVIOUS
    <2>2. Sent[k] \in Frame
        BY <1>1, Wires
    <2>3. Sent[k].stream \in Nat
        BY <2>2, FramesAssumption DEF Frame
    <2>4. QED
        BY <1>1, <2>3 DEF CalmInv, Requests, IdsInv, IdsOnlyGrow
<1>3. CASE \E p \in Paths : CliGet(p)
    <2>1. Sent' = Sent /\ cur'.id = 0
        BY <1>3 DEF CliGet, tcp, Sent
    <2>2. QED
        BY <1>2, <2>1 DEF Unsent
<1>4. CASE CliSendFails
    <2>1. Sent' = Sent /\ cur' = cur /\ cpc = "send"
        BY <1>4 DEF CliSendFails, SendFails, Sent
    <2>2. \A k \in DOMAIN Sent : Sent[k].stream < cur.id
        BY <1>1, <1>2, <2>1 DEF IdsInv
    <2>3. cur.id \in Nat
        BY <1>1, FramesAssumption DEF CallerType, ClientType
    <2>4. QED
        BY <1>2, <2>1, <2>2, <2>3 DEF Unsent
<1>5. CASE CliReportable
    <2>1. cpc \in {"response", "data"} /\ Readable("client") /\ Midway /\ HistoryInv
        BY <1>1, <1>5 DEF CliReportable, CliHead, Waiting, SessionInv
    <2>2. QED
        BY <1>1, <1>5, <2>1, TakesMeant DEF CliReportable, CliHead
<1>6. CASE CliReport \/ CliReportFails \/ CliDrain \/ CliDrainEnds
    BY <1>1, <1>6 DEF SessionInv, CliReport, CliReportFails, CliDrain, CliDrainEnds
<1>7. CASE CliSend \/ CliSkip \/ CliFail \/ CliClose \/ CliRemoteError \/ CliBodyWriteFails
    BY <1>7 DEF CliSend, CliSkip, CliFail, CliClose, CliRemoteError, CliBodyWriteFails, CliHead,
       Waiting, clientVars
<1>8. CASE CliResponse \/ CliData \/ CliStray \/ CliReadEnds
    BY <1>8, ResponseAccepted, BodyAccepted, NoStray, InputGoesOn
<1>9. QED
    BY <1>3, <1>4, <1>5, <1>6, <1>7, <1>8 DEF ClientNext, GetStep

\* What failed without a report stays unsent.
LEMMA StaysExplained ==
    ASSUME BothInv, CalmInv, ClientNext
    PROVE  FailureExplained'
<1>1. HandlerType /\ CallerType /\ results \in Seq(Result)
    BY DEF BothInv, ConnInv, CallerType, ClientType
<1>2. CASE Sent' # Sent
    <2>1. ~broken /\ results' = results
        BY <1>1, <1>2, Says DEF BothInv, ConnInv, SessionInv, CallerType, CliSend, CliSendFails,
           CliReport, CliReportFails
    <2>2. QED
        BY <2>1 DEF BothInv, BrokenInv, FailureExplained
<1>3. CASE Sent' = Sent
    <2>1. \/ results' = results
          \/ \E r \in Result : /\ results' = Append(results, r)
                               /\ r.kind = "failed" => Unsent(r.id)
        <3>1. CASE CliFail
            <4>1. PICK r : /\ results' = Append(results, r)
                           /\ r.kind = err.kind /\ r.id = cur.id /\ cpc = "fail"
                BY <3>1 DEF CliFail, Return, Outcome
            <4>2. r \in Result
                BY <3>1, <4>1, <1>1, Finishes DEF CliFail
            <4>3. QED
                BY <4>1, <4>2 DEF CalmInv
        <3>2. CASE ~CliFail
            <4>1. broken' = broken
                BY <3>2 DEF ClientNext, GetStep, CliGet, CliSend, CliSendFails, CliSkip, CliResponse,
                   CliData, CliBodyWriteFails, CliStray, CliRemoteError, CliReportable, CliReadEnds,
                   CliReport, CliReportFails, CliDrain, CliDrainEnds, CliClose, clientVars
            <4>2. QED
                BY <1>1, <4>1, Finishes
        <3>3. QED
            BY <3>1, <3>2
    <2>2. \A n \in DOMAIN results' : results'[n].kind = "failed" => Unsent(results'[n].id)
        <3>1. CASE results' = results
            BY <3>1 DEF CalmInv, FailureExplained
        <3>2. CASE results' # results
            <4>1. PICK r \in Result : /\ results' = Append(results, r)
                                      /\ r.kind = "failed" => Unsent(r.id)
                BY <2>1, <3>2
            <4>2. /\ results' \in Seq(Result) /\ Len(results') = Len(results) + 1
                  /\ \A n \in 1..Len(results) : results'[n] = results[n]
                  /\ results'[Len(results) + 1] = r /\ Len(results) \in Nat
                BY <1>1, <4>1, AppendFacts
            <4>3. \A n \in 1..Len(results) : results[n].kind = "failed" => Unsent(results[n].id)
                BY <1>1 DEF CalmInv, FailureExplained
            <4>4. \A n \in DOMAIN results' : n \in 1..Len(results) \/ n = Len(results) + 1
                BY <4>2
            <4>5. QED
                BY <4>1, <4>2, <4>3, <4>4
        <3>3. QED
            BY <3>1, <3>2
    <2>3. QED
        BY <1>3, <2>2 DEF FailureExplained, Unsent
<1>4. QED
    BY <1>2, <1>3

\* The client waits for the handler's end of the connection, which it leaves as
\* it is; and a report that is taken ends the Get.
LEMMA ClientGoing ==
    ASSUME BothInv, BothInv', CalmInv, ClientNext, UNCHANGED serverVars, Going'
    PROVE  ~rst'["client"] /\ (Attends' \/ ReportWaits')
<1>1. HandlerType /\ CallerType /\ SessionInv /\ Received' = Received
    BY Says DEF BothInv, ConnInv
<1>2. ~closed["client"] /\ ~closed'["client"] /\ cpc' # "fail" /\ ~CliFail /\ ~CliClose
    <2>1. "client" \in Ends /\ closed \in [Ends -> BOOLEAN]
        BY <1>1 DEF HandlerType, TransportType, Ends
    <2>2. QED
        BY <1>1, <2>1, Finishes DEF Going, CliFail, CliClose, CloseSocket
<1>3. ~broken /\ ~broken'
    BY <1>2 DEF BothInv, BrokenInv, BrokenForGood
<1>4. cpc \in {"idle", "send", "response", "data"} /\ Going
    <2>1. cpc # "fail"
        BY <1>2 DEF ClientNext, GetStep, CliGet, CliSend, CliSendFails, CliSkip, CliResponse,
           CliData, CliBodyWriteFails, CliStray, CliRemoteError, CliReportable, CliReadEnds,
           CliReport, CliReportFails, CliDrain, CliDrainEnds, CliHead, Waiting
    <2>2. QED
        BY <1>1, <1>2, <2>1 DEF SessionInv, CallerType, ClientType, Going
<1>5. ~rst["client"] /\ (Attends \/ ReportWaits)
    BY <1>4 DEF CalmInv
<1>6. cpc = "send" => Attends
    BY <1>1, <1>3, <1>5 DEF SessionInv, Quiet, ReportWaits
<1>7. /\ fin' = fin /\ closed' = closed /\ (rst' = rst \/ (cpc = "send" /\ closed["server"]))
      /\ Sent' = Sent \/ cpc = "send"
      /\ pos'["server"] = pos["server"]
    <2>1. CASE CliSend
        <3>1. Peer("client") = "server"
            BY DEF Peer
        <3>2. cpc = "send" /\ Send("client", Ask) /\ UNCHANGED <<pos, fin, closed>>
            BY <2>1 DEF CliSend, Ask
        <3>3. QED
            BY <3>1, <3>2 DEF Send
    <2>2. CASE ~CliSend
        <3>1. pos \in [Ends -> Nat] /\ "server" \in Ends
            BY <1>1 DEF HandlerType, TransportType, Ends
        <3>2. /\ UNCHANGED <<fin, closed, rst>> /\ (wire' = wire \/ cpc = "send")
              /\ pos' = pos \/ Consume("client")
            BY <1>2, <1>4, <2>2 DEF ClientNext, GetStep, CliGet, CliSendFails, CliSkip, CliResponse,
               CliData, CliBodyWriteFails, CliStray, CliRemoteError, CliReportable, CliReadEnds,
               CliReport, CliReportFails, CliDrain, CliDrainEnds, tcp
        <3>3. QED
            BY <3>1, <3>2 DEF Consume, Sent
    <2>3. QED
        BY <2>1, <2>2
<1>8. rst' = rst
    BY <1>6, <1>7 DEF Attends
<1>9. CASE Attends
    BY <1>5, <1>7, <1>8, <1>9 DEF Attends, serverVars
<1>10. CASE ReportWaits /\ ~Attends
    <2>1. Out' = Out /\ Sent' = Sent
        BY <1>1, <1>6, <1>7, <1>10 DEF Out, Received
    <2>2. ~ErrorTaken'
        BY <1>2, <1>3 DEF BothInv, ConnInv, SessionInv, EndInv
    <2>3. /\ Out # <<>> /\ Out \in Seq(Frame) /\ Last(Out) = Out[Len(Out)] /\ Last(Out).type = "ERROR"
          /\ Len(Out) \in Nat
        BY <1>1, <1>10, Wires DEF ReportWaits, Last
    <2>4. pos'["client"] \in 0..Len(Out')
        BY Wires DEF BothInv, ConnInv, HandlerType, TransportType, Ends, Out
    <2>5. pos'["client"] # Len(Out)
        BY <1>1, <2>1, <2>2, <2>3 DEF ErrorTaken, Received, Out
    <2>6. Readable("client")' /\ ~Readable("server")'
        BY <1>7, <1>10, <2>1, <2>3, <2>4, <2>5 DEF Readable, Out, Sent, ReportWaits
    <2>7. QED
        BY <1>5, <1>8, <1>10, <2>1, <2>6 DEF ReportWaits, serverVars
<1>11. QED
    BY <1>5, <1>9, <1>10

\* When it has nothing more to wait for, it has just taken the end of an answer.
LEMMA ClientBetween ==
    ASSUME BothInv, BothInv', CalmInv, Faults = {}, ClientNext, Going', cpc' # "data",
           pos'["client"] > 0
    PROVE  "END_STREAM" \in Out'[pos'["client"]].flags
<1>1. HandlerType /\ CallerType /\ SessionInv /\ SessionInv' /\ Out' = Out
    BY Says DEF BothInv, ConnInv, Received, Out
<1>2. closed'["client"] = FALSE /\ cpc' \notin {"fail", "report", "drain"}
    BY <1>1 DEF Going, SessionInv, BothInv, ConnInv, CallerType, TransportType, Ends
<1>3. CASE pos' = pos
    <2>1. Going
        <3>1. "client" \in Ends /\ closed \in [Ends -> BOOLEAN]
            BY <1>1 DEF CallerType, TransportType, Ends
        <3>2. ~CliFail
            BY <1>2, <3>1 DEF CliFail, CloseSocket
        <3>3. cpc # "fail"
            BY <1>2, <3>2 DEF ClientNext, GetStep, CliGet, CliSend, CliSendFails, CliSkip, CliResponse,
               CliData, CliBodyWriteFails, CliStray, CliRemoteError, CliReportable, CliReadEnds,
               CliReport, CliReportFails, CliDrain, CliDrainEnds, CliClose, CliHead, Waiting
        <3>4. QED
            BY <1>1, <1>2, <3>3, Finishes DEF Going
    <2>2. cpc # "data"
        BY <1>1, <1>2, <1>3 DEF ClientNext, GetStep, CliGet, CliSend, CliSendFails, CliSkip, CliResponse,
           CliData, CliBodyWriteFails, CliStray, CliRemoteError, CliReportable, CliReadEnds,
           CliReport, CliReportFails, CliDrain, CliDrainEnds, CliFail, CliClose, CliHead, Waiting,
           Consume, clientVars, CallerType, TransportType, Ends
    <2>3. QED
        BY <1>1, <1>3, <2>1, <2>2 DEF CalmInv
<1>4. CASE pos' # pos
    <2>1. /\ Readable("client") /\ Consume("client") /\ cpc \in {"response", "data"}
        BY <1>1, <1>2, <1>4, Hears
    <2>2. CliResponse \/ CliData
        <3>1. CliSkip \/ CliResponse \/ CliData
            BY <1>2, <1>4, <2>1 DEF ClientNext, GetStep, CliGet, CliSend, CliSendFails,
               CliBodyWriteFails, CliStray, CliRemoteError, CliReportable, CliReadEnds,
               CliReport, CliReportFails, CliDrain, CliDrainEnds, CliFail, CliClose, tcp
        <3>2. Verdict(NextFrame("client")) # "skip"
            BY <1>1, <2>1, TakesMeant DEF SessionInv
        <3>3. QED
            BY <3>1, <3>2 DEF CliSkip, CliHead
    <2>3. "END_STREAM" \in NextFrame("client").flags
        BY <1>2, <2>2 DEF CliResponse, CliData, CliAccept
    <2>4. QED
        BY <1>1, <2>1, <2>3, Wires DEF Consume, HandlerType, TransportType, Ends
<1>5. QED
    BY <1>3, <1>4

LEMMA CalmClient ==
    ASSUME BothInv, BothInv', CalmInv, Faults = {}, ClientStep
    PROVE  CalmInv'
<1>1. HandlerType /\ CallerType /\ SessionInv /\ ClientNext /\ UNCHANGED serverVars
    BY DEF BothInv, ConnInv, ClientStep
<1>2. Received' = Received /\ Out' = Out /\ reply' = reply
    BY <1>1, Says DEF serverVars, Received, Out
<1>3. FailureExplained'
    BY <1>1, StaysExplained
<1>4. cpc' = "fail" /\ err'.kind = "failed" => Unsent(cur.id)'
    BY <1>1, OnlyUnsentFails DEF Unsent
<1>5. \A k \in DOMAIN Sent' : Sent'[k].type = "REQUEST"
    <2>1. \A k \in DOMAIN Sent : Sent[k].type = "REQUEST"
        BY DEF CalmInv
    <2>2. CASE Sent' = Sent
        BY <2>1, <2>2
    <2>3. CASE Sent' # Sent
        <3>1. PICK f \in Frame : f.type = "REQUEST" /\ Sent' = Append(Sent, f)
            <4>1. cpc # "report"
                BY <1>1 DEF SessionInv
            <4>2. /\ Ask \in Frame
                  /\ Sent' = Append(Sent, Ask) \/ Sent' = Append(Sent, Cut(Ask))
                BY <1>1, <2>3, <4>1, Says
            <4>3. Ask.type = "REQUEST" /\ Cut(Ask).type = "REQUEST" /\ Cut(Ask) \in Frame
                BY <4>2, CutFrame DEF Ask, Request, Whole, Cut
            <4>4. QED
                BY <4>2, <4>3
        <3>2. Sent \in Seq(Frame) /\ Len(Sent) \in Nat
            BY <1>1, Wires
        <3>3. /\ Sent' \in Seq(Frame) /\ Len(Sent') = Len(Sent) + 1
              /\ \A k \in 1..Len(Sent) : Sent'[k] = Sent[k]
              /\ Sent'[Len(Sent) + 1] = f
            BY <3>1, <3>2, AppendFacts
        <3>4. \A k \in DOMAIN Sent' : k \in 1..Len(Sent) \/ k = Len(Sent) + 1
            BY <3>2, <3>3
        <3>5. QED
            BY <2>1, <3>1, <3>2, <3>3, <3>4
    <2>4. QED
        BY <2>2, <2>3
<1>6. Plain(reply)' /\ \A k \in DOMAIN Out' : Plain(Out[k])'
    BY <1>2 DEF CalmInv, Plain
<1>7. fin'["client"] => closed'["client"]
    <2>1. fin' = fin \/ CloseSocket("client")
        BY <1>1 DEF SessionInv, ClientNext, GetStep, CliGet, CliSend, CliSendFails, CliSkip, CliResponse,
           CliData, CliBodyWriteFails, CliStray, CliRemoteError, CliReportable, CliReadEnds,
           CliReport, CliReportFails, CliDrain, CliDrainEnds, CliFail, CliClose, tcp
    <2>2. "client" \in Ends /\ closed \in [Ends -> BOOLEAN]
        BY <1>1 DEF HandlerType, TransportType, Ends
    <2>3. closed["client"] => closed'["client"]
        BY <1>1, Finishes
    <2>4. QED
        BY <2>1, <2>2, <2>3 DEF CloseSocket, CalmInv
<1>8. Going' => ~rst'["client"] /\ (Attends' \/ ReportWaits')
    BY <1>1, ClientGoing
<1>9. Going' /\ cpc' # "data" => (pos'["client"] > 0 => "END_STREAM" \in Out'[pos'["client"]].flags)
    BY <1>1, ClientBetween
<1>10. QED
    BY <1>3, <1>4, <1>5, <1>6, <1>7, <1>8, <1>9 DEF CalmInv

LEMMA CalmStart ==
    ASSUME Init
    PROVE  BothInv /\ CalmInv
<1>1. BothInv
    BY SessionStart, CallerStart DEF Init, BothInv, ConnInv
<1>2. /\ Sent = <<>> /\ Out = <<>> /\ pos["client"] = 0 /\ results = <<>> /\ cpc = "idle"
      /\ reply = Blank /\ spc = "read"
      /\ ~fin["client"] /\ ~fin["server"] /\ ~closed["server"] /\ ~rst["client"]
    BY DEF Init, TransportInit, ClientInit, ServerInit, Ends, Sent, Out
<1>3. Plain(reply)
    BY <1>2, FramesAssumption DEF Plain, Blank, Whole
<1>4. QED
    BY <1>1, <1>2, <1>3 DEF CalmInv, FailureExplained, Attends

\* When nothing goes wrong on the connection, a request that went out is answered
\* or fails with the server's own report, however the files change meanwhile.
THEOREM FailuresExplained ==
    ASSUME Faults = {}
    PROVE  Spec => []FailureExplained
<1>1. Init => BothInv /\ CalmInv
    BY CalmStart
<1>2. BothInv /\ CalmInv /\ [Next]_vars => (BothInv /\ CalmInv)'
    <2>1. SUFFICES ASSUME BothInv, CalmInv, [Next]_vars PROVE BothInv' /\ CalmInv'
        OBVIOUS
    <2>2. BothInv'
        BY <2>1, BothStep
    <2>3. CASE ServerStep
        BY <2>1, <2>2, <2>3, CalmServer
    <2>4. CASE ClientStep
        BY <2>1, <2>2, <2>4, CalmClient
    <2>5. CASE UNCHANGED vars
        BY <2>1, <2>2, <2>5 DEF CalmInv, FailureExplained, Unsent, Plain, Going, Attends, ReportWaits,
           Readable, Sent, Out, vars, tcp, serverVars, clientVars
    <2>6. QED
        BY <2>1, <2>2, <2>3, <2>4, <2>5 DEF Next, Finished
<1>3. BothInv /\ CalmInv => FailureExplained
    BY DEF CalmInv
<1>4. QED
    BY <1>1, <1>2, <1>3, PTL DEF Spec

-----------------------------------------------------------------------------
(* bcurl. *)

\* Every step of the program is a step of the session, or none.
LEMMA ProgramStep ==
    ASSUME [BcurlNext]_bcurlVars
    PROVE  ServerStep \/ ClientStep \/ UNCHANGED vars
BY DEF BcurlNext, BcurlRun, ParseArgs, DialServer, GetReturned, CloseAndExit, HandlerRuns, OthersAct,
       GetRuns, CallerActs, Calls, Over, bcurlVars, ServerStep, ClientStep, ClientNext

LEMMA ConnStep ==
    ASSUME ConnInv, [BcurlNext]_bcurlVars
    PROVE  ConnInv' /\ [F!Next]_(F!fetchVars)
<1>1. [Next]_vars
    BY ProgramStep DEF Next
<1>2. QED
    BY <1>1, ConnSession

LEMMA ConnStart ==
    ASSUME BcurlInit
    PROVE  ConnInv /\ F!Init
BY SessionStart, CallerStart DEF BcurlInit, Init, ConnInv

-----------------------------------------------------------------------------
(* What was sent stays sent. *)

LEMMA SentStays ==
    ASSUME HandlerType, NEW body, BeginningSent(body),
           Out' = Out \/ \E f \in Frame : Out' = Append(Out, f)
    PROVE  BeginningSent(body)'
<1>1. Out \in Seq(Frame) /\ Len(Out) \in Nat
    BY Wires
<1>2. \A k \in DOMAIN Out : k \in DOMAIN Out' /\ Out'[k] = Out[k]
    <2>1. CASE Out' = Out
        BY <2>1
    <2>2. ASSUME NEW f \in Frame, Out' = Append(Out, f)
          PROVE  \A k \in DOMAIN Out : k \in DOMAIN Out' /\ Out'[k] = Out[k]
        <3>1. /\ Out' \in Seq(Frame) /\ Len(Out') = Len(Out) + 1
              /\ \A k \in 1..Len(Out) : Out'[k] = Out[k]
            BY <1>1, <2>2, AppendFacts
        <3>2. DOMAIN Out = 1..Len(Out) /\ DOMAIN Out' = 1..Len(Out')
            BY <1>1, <3>1
        <3>3. QED
            BY <1>1, <3>1, <3>2
    <2>3. QED
        BY <2>1, <2>2
<1>3. QED
    BY <1>2 DEF BeginningSent

\* The bytes that go to standard output were sent.
LEMMA BodySent ==
    ASSUME HandlerType, HandlerInv, CallerType, HistoryInv, GotBeginning, GotSoFar,
           Readable("client"), NEW f, f = NextFrame("client"), f \in Frame, f.type = "DATA",
           Meant(f), BeginningSent(got.body), NEW body \in Seq(Byte),
           Longer(body, got.body, f.data)
    PROVE  BeginningSent(body)
<1>1. f.data # <<>> /\ f.data \in Seq(Byte) /\ Len(f.data) \in Nat
    BY DEF Meant, Truthful, Frame
<1>2. PICK i \in Inodes, m \in Nat, n \in 0..Len(f.data) :
        /\ got.body = F!Content(i, m) /\ body = F!Content(i, m + n)
        /\ \A k \in 1..Len(f.data) : f.data[k] = <<i, m + k>>
    BY BodyTaken
<1>3. CASE n = 0
    BY <1>2, <1>3
<1>4. CASE n # 0
    <2>1. PICK l \in Nat : l = m + n
        BY <1>1
    <2>2. body = F!Content(i, l) /\ Len(body) = l
        BY <1>2, <2>1, ContentFacts
    <2>3. n \in DOMAIN f.data /\ f.data[n] = <<i, l>>
        BY <1>1, <1>2, <1>4, <2>1
    <2>4. pos["client"] + 1 \in DOMAIN Out /\ f = Out[pos["client"] + 1]
        BY Wires
    <2>5. QED
        BY <2>2, <2>3, <2>4 DEF BeginningSent
<1>5. QED
    BY <1>3, <1>4

LEMMA GotSent ==
    ASSUME ConnInv, ClientNext, BeginningSent(got.body)
    PROVE  BeginningSent(got.body)'
<1>1. Out' = Out
    BY Says DEF Out, Received, ConnInv
<1>2. CASE got'.body = got.body \/ got'.body = <<>>
    BY <1>1, <1>2 DEF BeginningSent
<1>3. CASE (CliData \/ CliBodyWriteFails) /\ got' # Nothing
    <2> DEFINE f == NextFrame("client")
    <2>1. /\ cpc = "data" /\ Readable("client") /\ f.type = "DATA"
          /\ HistoryInv /\ GotBeginning /\ GotSoFar /\ Midway /\ HandlerType /\ HandlerInv /\ CallerType
        BY <1>3 DEF CliData, CliBodyWriteFails, CliHead, SessionInv, ConnInv
    <2>2. f \in Frame /\ Meant(f)
        BY <2>1, TakesMeant
    <2>3. got \in [status : Nat, lengths : Seq(Int), body : Seq(Byte)]
        BY <2>1 DEF CallerType, ClientType
    <2>4. Longer(got'.body, got.body, f.data)
        <3>1. CASE CliData
            <4>1. got' = [got EXCEPT !.body = @ \o f.data]
                BY <1>3, <3>1 DEF CliData, CliAccept
            <4>2. got'.body = got.body \o f.data
                BY <2>3, <4>1
            <4>3. QED
                BY <4>2 DEF Longer
        <3>2. CASE CliBodyWriteFails
            <4>1. PICK n \in 0..Len(f.data) : got' = [got EXCEPT !.body = @ \o SubSeq(f.data, 1, n)]
                BY <3>2 DEF CliBodyWriteFails
            <4>2. got'.body = got.body \o SubSeq(f.data, 1, n)
                BY <2>3, <4>1
            <4>3. QED
                BY <4>2 DEF Longer
        <3>3. QED
            BY <1>3, <3>1, <3>2
    <2>5. PICK body \in Seq(Byte) : body = got'.body
        <3>1. CallerType'
            BY CallerTypeStep DEF ConnInv
        <3>2. QED
            BY <3>1 DEF CallerType, ClientType
    <2>6. BeginningSent(body)
        BY <2>1, <2>2, <2>4, <2>5, BodySent
    <2>7. QED
        BY <1>1, <2>5, <2>6 DEF BeginningSent
<1>4. QED
    <2>1. CASE CliResponse
        BY <1>2, <2>1 DEF CliResponse, CliAccept, Nothing
    <2>2. CASE CliFail \/ got' = Nothing
        BY <1>2, <2>2 DEF CliFail, Nothing
    <2>3. CASE ~(CliResponse \/ CliFail \/ CliData \/ CliBodyWriteFails)
        <3>1. got' = got
            BY <2>3 DEF ClientNext, GetStep, CliGet, CliSend, CliSendFails, CliSkip, CliStray,
               CliRemoteError, CliReportable, CliReadEnds, CliReport, CliReportFails, CliDrain,
               CliDrainEnds, CliClose, clientVars
        <3>2. QED
            BY <1>2, <3>1
    <2>4. QED
        BY <1>3, <2>1, <2>2, <2>3

-----------------------------------------------------------------------------
(* The one Get of bcurl. *)

\* A status is what Fetch says it is.
LEMMA HonestStatus ==
    ASSUME [F!Next]_(F!fetchVars), NEW r, results = <<>>, results' = <<r>>, r.kind = "ok"
    PROVE  r.status = 200 \/ (r.status >= 400 /\ r.body = <<>>)
<1>1. results' # results
    OBVIOUS
<1>2. ASSUME NEW id, NEW kind, NEW status, NEW body, F!Return(id, kind, status, body)
      PROVE  r.kind = kind /\ r.status = status /\ r.body = body
    BY <1>2 DEF F!Return, F!Outcome
<1>3. ASSUME NEW p, F!Refuse(p)
      PROVE  FALSE
    BY <1>3 DEF F!Refuse, F!Outcome
<1>4. ~F!Fail
    BY <1>2 DEF F!Fail
<1>5. F!Answer
    BY <1>1, <1>3, <1>4 DEF F!Next, F!fetchVars, F!Call, F!Change
<1>6. QED
    BY <1>2, <1>5 DEF F!Answer

\* The first answer is all that was sent.
LEMMA FirstAnswer ==
    ASSUME ConnInv, ConnInv', [F!Next]_(F!fetchVars), Fresh, results = <<>>, Out' = Out,
           CliResponse \/ CliData, NEW r, results' = <<r>>, r.kind = "ok"
    PROVE  cpc' = "idle" /\ Brought(r)'
<1> DEFINE n == pos["client"]
<1>1. /\ cpc' = "idle" /\ ~broken' /\ cpc # "fail" /\ pos'["client"] = n + 1 /\ n \in Nat
    <2>1. cpc \in {"response", "data"} /\ Consume("client") /\ results' # results /\ broken' = broken
        BY DEF CliResponse, CliData, CliHead, Waiting
    <2>2. ~broken /\ n \in Nat /\ pos'["client"] = n + 1
        BY <2>1 DEF ConnInv, CallerType, TransportType, Ends, Consume
    <2>3. cpc' = "idle"
        BY <2>1 DEF CliResponse, CliData, CliAccept
    <2>4. QED
        BY <2>1, <2>2, <2>3
<1>2. Quiet'
    BY <1>1 DEF ConnInv, SessionInv
<1>3. Len(Out) = n + 1 /\ Out \in Seq(Frame)
    <2>1. Out \in Seq(Frame) /\ Len(Out) \in Nat /\ pos'["client"] <= Len(Out')
        BY Wires DEF ConnInv, HandlerType, TransportType, Ends, Out
    <2>2. ~(pos'["client"] < Len(Out'))
        BY <1>2 DEF Quiet, Readable, Out
    <2>3. QED
        BY <1>1, <2>1, <2>2
<1>4. PICK j \in 1..(n + 1), l \in 1..(n + 1) : j <= l /\ Exchange(Out, j, l, r)
    <2>1. OnlyWholeAnswers'
        BY DEF ConnInv, AnswersInv
    <2>2. 1 \in DOMAIN results' /\ results'[1] = r
        OBVIOUS
    <2>3. \E j \in 1..(n + 1) : \E l \in j..(n + 1) : Exchange(Out, j, l, r)
        BY <1>1, <2>1, <2>2 DEF OnlyWholeAnswers, Received, Out
    <2>4. QED
        BY <1>1, <2>3
<1>5. \A k \in 1..n : "END_STREAM" \notin Out[k].flags
    BY <1>1 DEF Fresh
<1>6. l = n + 1
    BY <1>1, <1>4, <1>5 DEF Exchange
<1>7. j = 1
    <2> SUFFICES ASSUME j # 1 PROVE FALSE
        OBVIOUS
    <2>1. j - 1 \in 1..n /\ j \in 1..Len(Out)
        BY <1>1, <1>3, <1>4
    <2>2. Continues(Out[j - 1], Out[j])
        BY <2>1 DEF ConnInv, HandlerInv, NeverInterleaved, Sequential
    <2>3. Out[j].type = "RESPONSE"
        BY <1>4 DEF Exchange, Stretch
    <2>4. QED
        BY <1>5, <2>1, <2>2, <2>3 DEF Continues
<1>8. Exchange(Out', 1, Len(Out'), r)
    BY <1>3, <1>4, <1>6, <1>7
<1>9. QED
    BY <1>1, <1>2, <1>8, HonestStatus DEF Brought

\* A Get that fails before anything was answered has written what was sent.
LEMMA FirstFailure ==
    ASSUME ConnInv, ClientNext, results = <<>>, Out' = Out, BeginningSent(got.body),
           NEW r, results' = <<r>>, r.kind # "ok"
    PROVE  cpc' = "idle" /\ Brought(r)'
<1>1. BeginningSent(<<>>)
    BY DEF BeginningSent
<1>2. ASSUME NEW id, NEW p, NEW kind, NEW status, NEW body, Return(Outcome(id, p, kind, status, body))
      PROVE  r.kind = kind /\ r.body = body
    BY <1>2 DEF Return, Outcome
<1>3. CASE \E p \in Paths : CliGet(p)
    <2>1. cpc' = "idle" /\ r.body = <<>>
        BY <1>2, <1>3 DEF CliGet
    <2>2. QED
        BY <1>1, <2>1 DEF Brought, BeginningSent
<1>4. CASE CliFail
    <2>1. cpc' = "idle" /\ r.body = got.body
        BY <1>2, <1>4 DEF CliFail
    <2>2. QED
        BY <2>1 DEF Brought, BeginningSent
<1>5. CASE CliResponse \/ CliData
    <2>1. results' # results
        OBVIOUS
    <2>2. r.kind = "ok"
        BY <1>2, <1>5, <2>1 DEF CliResponse, CliData, CliAccept
    <2>3. QED
        BY <2>2
<1>6. QED
    <2>1. results' # results
        OBVIOUS
    <2>2. QED
        BY <1>3, <1>4, <1>5, <2>1 DEF ClientNext, GetStep, CliSend, CliSendFails, CliSkip,
           CliBodyWriteFails, CliStray, CliRemoteError, CliReportable, CliReadEnds, CliReport,
           CliReportFails, CliDrain, CliDrainEnds, CliClose, clientVars

\* Until it returns, nothing has been taken but an answer without its end.
LEMMA FreshStep ==
    ASSUME ConnInv, ConnInv', ClientNext, Out' = Out, Fresh, results = <<>>, results' = <<>>
    PROVE  Fresh'
<1>1. CASE pos' = pos
    <2>1. /\ cpc' \in {"idle", "send", "response"} => cpc \in {"idle", "send", "response"}
          /\ cpc' # "fail" => cpc # "fail"
        <3>1. cpc \notin {"report", "drain"} /\ cpc' \notin {"report", "drain"} /\ pos["client"] \in Nat
            BY DEF ConnInv, SessionInv, CallerType, TransportType, Ends
        <3>2. ~Consume("client")
            BY <1>1, <3>1 DEF Consume, ConnInv, CallerType, TransportType, Ends
        <3>3. ~CliFail
            BY DEF CliFail, Return
        <3>4. QED
            BY <3>1, <3>2, <3>3 DEF ClientNext, GetStep, CliGet, CliSend, CliSendFails, CliSkip,
               CliResponse, CliData, CliBodyWriteFails, CliStray, CliRemoteError, CliReportable,
               CliReadEnds, CliReport, CliReportFails, CliDrain, CliDrainEnds, CliClose, Waiting,
               AfterFailedSend, clientVars
    <2>2. QED
        BY <1>1, <2>1 DEF Fresh
<1>2. CASE Readable("client") /\ Consume("client") /\ cpc \in {"response", "data"}
    <2> DEFINE f == NextFrame("client")
               n == pos["client"]
    <2>1. /\ f = Out[n + 1] /\ n \in Nat /\ pos'["client"] = n + 1
        BY <1>2, Wires DEF ConnInv, CallerType, TransportType, Ends, Consume
    <2>2. Verdict(f) # "skip"
        BY <1>2, TakesMeant DEF ConnInv, SessionInv
    <2>3. pos' # pos /\ cpc # "idle" /\ cpc # "send" /\ cpc # "fail"
        BY <1>2, <2>1
    <2>4. cpc' = "fail" \/ (cpc' = "data" /\ "END_STREAM" \notin f.flags)
        <3>1. cpc' \notin {"report", "drain"} /\ cpc \notin {"report", "drain"}
            BY DEF ConnInv, SessionInv
        <3>2. CASE CliResponse \/ CliData
            <4>1. \A r : ~Return(r)
                BY DEF Return
            <4>2. ASSUME NEW g, CliAccept(f, g)
                  PROVE  cpc' = "fail" \/ (cpc' = "data" /\ "END_STREAM" \notin f.flags)
                BY <4>1, <4>2 DEF CliAccept
            <4>3. QED
                BY <3>2, <4>2 DEF CliResponse, CliData
        <3>3. QED
            BY <2>2, <2>3, <3>1, <3>2 DEF ClientNext, GetStep, CliGet, CliSend, CliSendFails, CliSkip,
               CliBodyWriteFails, CliStray, CliRemoteError, CliReportable,
               CliReadEnds, CliReport, CliReportFails, CliDrain, CliDrainEnds, CliFail, CliClose,
               CliHead, tcp
    <2>5. \A k \in 1..n : "END_STREAM" \notin Out[k].flags
        BY <2>3 DEF Fresh
    <2>6. cpc' = "data" => \A k \in 1..(n + 1) : "END_STREAM" \notin Out[k].flags
        BY <2>1, <2>4, <2>5
    <2>7. QED
        BY <2>1, <2>4, <2>6 DEF Fresh
<1>3. QED
    <2>1. cpc # "drain"
        BY DEF ConnInv, SessionInv
    <2>2. QED
        BY <1>1, <1>2, <2>1, Hears DEF ConnInv

\* bcurl's Get, from its call to its return.
OneGet == IF results = <<>> THEN Fresh ELSE cpc = "idle" /\ Brought(Head(results))

LEMMA ClientOneGet ==
    ASSUME ConnInv, ConnInv', [F!Next]_(F!fetchVars), ClientNext, results = <<>>, OneGet,
           BeginningSent(got.body)
    PROVE  OneGet'
<1>1. Out' = Out
    BY Says DEF Out, Received, ConnInv
<1>2. CASE results' = <<>>
    BY <1>1, <1>2, FreshStep DEF OneGet
<1>3. ASSUME NEW r, results' = <<r>>
      PROVE  OneGet'
    <2>1. results' # <<>> /\ Head(results') = r
        BY <1>3
    <2>2. CASE r.kind = "ok"
        <3>1. CliResponse \/ CliData
            BY <1>3, <2>2, Finishes DEF ConnInv
        <3>2. cpc' = "idle" /\ Brought(r)'
            BY <1>1, <1>3, <2>2, <3>1, FirstAnswer DEF OneGet
        <3>3. QED
            BY <2>1, <3>2 DEF OneGet, Brought
    <2>3. CASE r.kind # "ok"
        <3>1. cpc' = "idle" /\ Brought(r)'
            BY <1>1, <1>3, <2>3, FirstFailure
        <3>2. QED
            BY <2>1, <3>1 DEF OneGet, Brought
    <2>4. QED
        BY <2>2, <2>3
<1>4. QED
    <2>1. results' = results \/ \E r \in Result : results' = Append(results, r)
        BY Finishes DEF ConnInv
    <2>2. \A r : Append(<<>>, r) = <<r>>
        OBVIOUS
    <2>3. QED
        BY <1>2, <1>3, <2>1, <2>2

\* After its Get has returned, the server has nothing more to say to it.
LEMMA BroughtStays ==
    ASSUME HandlerType, HandlerType', NEW r, Brought(r), pos'["client"] = pos["client"],
           Out' = Out \/ \E f \in Frame : Out' = Append(Out, f), Quiet => Quiet'
    PROVE  Brought(r)'
<1>1. CASE r.kind = "ok"
    <2>1. Quiet /\ Quiet'
        BY <1>1 DEF Brought
    <2>2. Out \in Seq(Frame) /\ Len(Out) = pos["client"]
        BY <2>1, Wires DEF Quiet
    <2>3. Out' = Out
        <3>1. pos'["client"] <= Len(Out') /\ ~(pos'["client"] < Len(Out')) /\ Len(Out') \in Nat
            BY <2>1 DEF Quiet, Readable, Out, HandlerType, TransportType, Ends
        <3>2. \A f \in Frame : Len(Append(Out, f)) = Len(Out) + 1
            BY <2>2
        <3>3. QED
            BY <2>2, <3>1, <3>2
    <2>4. QED
        BY <1>1, <2>1, <2>3 DEF Brought
<1>2. CASE r.kind # "ok"
    <2>1. BeginningSent(r.body)
        BY <1>2 DEF Brought
    <2>2. BeginningSent(r.body)'
        BY <2>1, SentStays
    <2>3. QED
        BY <1>2, <2>2 DEF Brought
<1>3. QED
    BY <1>1, <1>2

\* Steps of the server.
LEMMA ServerOneGet ==
    ASSUME ConnInv, ConnInv', ServerStep, BeginningSent(got.body)
    PROVE  BeginningSent(got.body)' /\ (OneGet => OneGet') /\ Sent' = Sent /\ UNCHANGED clientVars
<1>1. OtherSide
    BY HandlerSide DEF ConnInv, ServerStep
<1>2. /\ UNCHANGED clientVars /\ Sent' = Sent /\ pos'["client"] = pos["client"]
      /\ Out' = Out \/ \E f \in Frame : Out' = Append(Out, f)
    BY <1>1 DEF OtherSide, Out, Received
<1>3. got' = got /\ results' = results /\ cpc' = cpc
    BY <1>2 DEF clientVars
<1>4. BeginningSent(got.body)'
    <2>1. PICK body : body = got.body
        OBVIOUS
    <2>2. BeginningSent(body)'
        BY <1>2, <2>1, SentStays DEF ConnInv
    <2>3. QED
        BY <1>3, <2>1, <2>2 DEF BeginningSent
<1>5. ASSUME OneGet, results = <<>>
      PROVE  OneGet'
    <2>1. Fresh
        BY <1>5 DEF OneGet
    <2>2. \A k \in 1..pos["client"] : Out'[k] = Out[k]
        <3>1. Out \in Seq(Frame) /\ pos["client"] \in 0..Len(Out)
            BY Wires DEF ConnInv
        <3>2. \A f \in Frame : \A k \in 1..Len(Out) : Append(Out, f)[k] = Out[k]
            BY <3>1
        <3>3. QED
            BY <1>2, <3>1, <3>2
    <2>3. Fresh'
        BY <1>2, <1>3, <2>1, <2>2 DEF Fresh
    <2>4. QED
        BY <1>3, <1>5, <2>3 DEF OneGet
<1>6. ASSUME OneGet, results # <<>>
      PROVE  OneGet'
    <2>1. PICK r : r = Head(results)
        OBVIOUS
    <2>2. cpc = "idle" /\ Brought(r)
        BY <1>6, <2>1 DEF OneGet
    <2>3. Quiet => Quiet'
        BY HandlerQuiet DEF ConnInv, ServerStep
    <2>4. Brought(r)'
        BY <1>2, <2>2, <2>3, BroughtStays DEF ConnInv
    <2>5. Head(results') = r /\ results' # <<>>
        BY <1>3, <1>6, <2>1
    <2>6. QED
        BY <1>3, <2>2, <2>4, <2>5 DEF OneGet, Brought
<1>7. QED
    BY <1>2, <1>4, <1>5, <1>6

\* The deferred Close.
LEMMA CloseOneGet ==
    ASSUME ConnInv, ConnInv', OneGet, results # <<>>, UNCHANGED <<clientVars, serverVars, wire, pos>>
    PROVE  OneGet'
<1>1. PICK r : r = Head(results)
    OBVIOUS
<1>2. cpc = "idle" /\ Brought(r)
    BY <1>1 DEF OneGet
<1>3. UNCHANGED <<cpc, results, spc, Out>> /\ pos'["client"] = pos["client"]
    BY DEF clientVars, serverVars, Out
<1>4. Quiet' = Quiet
    BY <1>3 DEF Quiet, Readable, Serving
<1>5. Brought(r)'
    BY <1>2, <1>3, <1>4, BroughtStays DEF ConnInv
<1>6. Head(results') = r /\ results' # <<>>
    BY <1>1, <1>3
<1>7. QED
    BY <1>2, <1>3, <1>5, <1>6 DEF OneGet, Brought

-----------------------------------------------------------------------------
(* bcurl's invariant. *)

LEMMA BcurlStart ==
    ASSUME BcurlInit
    PROVE  BcurlInv
<1>1. /\ pos["client"] = 0 /\ results = <<>> /\ cpc = "idle" /\ got.body = <<>> /\ Sent = <<>>
    BY DEF BcurlInit, Init, TransportInit, ClientInit, Nothing, Ends, Sent
<1>2. Fresh
    BY <1>1 DEF Fresh
<1>3. BeginningSent(got.body)
    BY <1>1 DEF BeginningSent
<1>4. QED
    BY <1>1, <1>2, <1>3 DEF BcurlInit, BcurlInv

LEMMA BcurlStep ==
    ASSUME ConnInv, BcurlInv, [BcurlNext]_bcurlVars
    PROVE  BcurlInv'
<1>1. ConnInv' /\ [F!Next]_(F!fetchVars)
    BY ConnStep
<1>2. /\ BeginningSent(got.body) /\ (prog = "bcurl" => OneGet)
    BY DEF BcurlInv, OneGet
<1>3. CASE UNCHANGED bcurlVars
    BY <1>3 DEF BcurlInv, bcurlVars, vars, tcp, clientVars, serverVars, handlerVars, Fresh, Brought,
       BeginningSent, Quiet, Readable, Serving, Out, Sent
<1>4. CASE ParseArgs \/ DialServer \/ GetReturned
    <2>1. UNCHANGED <<vars, prog>>
        BY <1>4 DEF ParseArgs, DialServer, GetReturned
    <2>2. /\ UNCHANGED <<cpc, results, Sent, OneGet>> /\ BeginningSent(got.body)'
        BY <1>2, <2>1 DEF vars, tcp, clientVars, serverVars, handlerVars, OneGet, Fresh, Brought,
           BeginningSent, Quiet, Readable, Serving, Out, Sent
    <2>3. QED
        BY <1>2, <1>4, <2>1, <2>2 DEF BcurlInv, OneGet, ParseArgs, DialServer, GetReturned, GivesUp
<1>5. CASE CloseAndExit
    <2>1. /\ bpc = "close" /\ bpc' = "exited" /\ prog' = prog /\ exit' = exit /\ prog = "bcurl"
          /\ results # <<>>
          /\ UNCHANGED <<clientVars, serverVars, wire, pos>>
        BY <1>5 DEF CloseAndExit, vars, tcp, CliClose, BcurlInv
    <2>2. OneGet'
        BY <1>1, <1>2, <2>1, CloseOneGet
    <2>3. BeginningSent(got.body)'
        BY <1>2, <2>1 DEF BeginningSent, clientVars, Out
    <2>4. UNCHANGED results
        BY <2>1 DEF clientVars
    <2>5. QED
        BY <2>1, <2>2, <2>3, <2>4 DEF BcurlInv, OneGet
<1>6. CASE HandlerRuns \/ OthersAct
    <2>1. ServerStep /\ bpc \in {"get", "close", "exited"} /\ UNCHANGED <<prog, bpc, exit>>
        BY <1>6 DEF HandlerRuns, OthersAct, ServerStep, Connected
    <2>2. BeginningSent(got.body)' /\ (OneGet => OneGet') /\ UNCHANGED clientVars
        BY <1>1, <1>2, <2>1, ServerOneGet
    <2>3. UNCHANGED results
        BY <2>2 DEF clientVars
    <2>4. QED
        BY <1>2, <2>1, <2>2, <2>3 DEF BcurlInv, OneGet
<1>7. CASE GetRuns \/ CallerActs
    <2>1. ClientNext /\ bpc = "get" /\ UNCHANGED <<prog, bpc, exit>>
        BY <1>7 DEF GetRuns, CallerActs, Calls, ClientNext
    <2>2. BeginningSent(got.body)'
        BY <1>2, <2>1, GotSent
    <2>3. ASSUME prog = "bcurl"
          PROVE  OneGet'
        <3>1. results = <<>>
            BY <1>2, <1>7, <2>3 DEF GetRuns, CallerActs, Calls, OneGet, GetStep, CliSend, CliSendFails,
               CliSkip, CliResponse, CliData, CliBodyWriteFails, CliStray, CliRemoteError,
               CliReportable, CliReadEnds, CliReport, CliReportFails, CliDrain, CliDrainEnds, CliFail,
               CliHead, Waiting
        <3>2. QED
            BY <1>1, <1>2, <2>1, <2>3, <3>1, ClientOneGet
    <2>4. QED
        BY <2>1, <2>2, <2>3 DEF BcurlInv, OneGet
<1>8. QED
    BY <1>3, <1>4, <1>5, <1>6, <1>7 DEF BcurlNext, BcurlRun, Over

LEMMA ExitFollows ==
    ASSUME BcurlInv
    PROVE  ExitTellsTruth
<1> SUFFICES ASSUME Ended PROVE ExitTellsTruth
    BY DEF ExitTellsTruth
<1>1. CASE bpc = "never"
    <2>1. exit \in {2, 3} /\ Sent = <<>> /\ Stdout = <<>>
        BY <1>1 DEF BcurlInv, Stdout
    <2>2. QED
        BY <2>1 DEF ExitTellsTruth, BeginningSent
<1>2. CASE bpc = "exited"
    <2> DEFINE r == Head(results)
    <2>1. results # <<>> /\ exit = StatusOf(r) /\ Brought(r) /\ Stdout = r.body
        BY <1>2 DEF BcurlInv, Stdout
    <2>2. CASE r.kind # "ok"
        BY <2>1, <2>2 DEF StatusOf, Brought, ExitTellsTruth
    <2>3. CASE r.kind = "ok"
        BY <2>1, <2>3 DEF StatusOf, Brought, ExitTellsTruth
    <2>4. QED
        BY <2>2, <2>3
<1>3. QED
    BY <1>1, <1>2 DEF Ended

\* Also when the files change, the server is shut down or the connection breaks,
\* bcurl's Get, and every Get of a program that uses the package otherwise, does
\* what Fetch allows: whole files, honest refusals and honest failures.
THEOREM BcurlFetches == BcurlSpec => FetchesSafely
<1>1. BcurlInit => ConnInv /\ F!Init
    BY ConnStart
<1>2. ConnInv /\ [BcurlNext]_bcurlVars => ConnInv' /\ [F!Next]_(F!fetchVars)
    BY ConnStep
<1>3. QED
    BY <1>1, <1>2, PTL DEF BcurlSpec, FetchesSafely, F!Safety

\* The exit status of bcurl is the truth about what it wrote (cmd/bcurl run),
\* for every server, file and fault.
THEOREM ExitIsTrue == BcurlSpec => []ExitTellsTruth
<1>1. BcurlInit => ConnInv /\ BcurlInv
    BY ConnStart, BcurlStart
<1>2. ConnInv /\ BcurlInv /\ [BcurlNext]_bcurlVars => ConnInv' /\ BcurlInv'
    BY ConnStep, BcurlStep
<1>3. BcurlInv => ExitTellsTruth
    BY ExitFollows
<1>4. QED
    BY <1>1, <1>2, <1>3, PTL DEF BcurlSpec
=============================================================================
