---------------------------- MODULE ServerProofs ----------------------------
(***************************************************************************)
(* Proofs about the connection handler facing an arbitrary peer: for every  *)
(* payload limit, file size, set of files and peer, and any number of       *)
(* frames and of changes to the files.                                      *)
(***************************************************************************)
EXTENDS ServerPeer, EndpointProofs, FiniteSetTheorems

-----------------------------------------------------------------------------
(* Types and output. *)

\* The peer touches neither the handler nor its output.
LEMMA PeerStep ==
    ASSUME TransportType, PeerNext
    PROVE  /\ TransportType' /\ UNCHANGED serverVars /\ Out' = Out
           /\ closed["client"] => closed'["client"]
           /\ closed["server"] => closed'["server"]
<1>1. CASE PeerSend
    <2>1. PICK f \in PeerFrames : Send("client", f)
        BY <1>1 DEF PeerSend
    <2>2. f \in Frame /\ "client" \in Ends
        BY PeerAssumption DEF Ends
    <2>3. QED
        BY <1>1, <2>1, <2>2, SendKeeps, SendWire DEF PeerSend, Out
<1>2. CASE PeerRead
    BY <1>2, ConsumeKeeps DEF PeerRead, Ends, Out
<1>3. CASE PeerShut
    BY <1>3, HalfCloseKeeps DEF PeerShut, Ends, Out
<1>4. CASE PeerClose
    BY <1>4, CloseKeeps DEF PeerClose, CloseSocket, TransportType, Ends, Out
<1>5. QED
    BY <1>1, <1>2, <1>3, <1>4 DEF PeerNext

LEMMA ServerStep ==
    ASSUME HandlerType, HandlerInv, [Next]_vars
    PROVE  HandlerType' /\ HandlerInv'
<1>1. CASE ServerNext \/ SrvDrop \/ FifoOpened \/ FsChange
    BY <1>1, HandlerStep
<1>2. CASE PeerNext
    BY <1>2, PeerStep, HandlerStays DEF HandlerType
<1>3. CASE UNCHANGED vars
    BY <1>3, HandlerStays DEF vars, tcp, HandlerType, TransportType, Out
<1>4. QED
    BY <1>1, <1>2, <1>3 DEF Next, Finished

\* Type correctness of the handler and its connection, for every instance.
THEOREM TypeCorrect == Spec => []TypeOK
<1>1. Init => HandlerType /\ HandlerInv
    BY HandlerStart DEF Init
<1>2. HandlerType /\ HandlerInv /\ [Next]_vars => (HandlerType /\ HandlerInv)'
    BY ServerStep
<1>3. QED
    BY <1>1, <1>2, PTL DEF Spec, TypeOK

\* The handler's output stays well formed for ever, against every peer.
THEOREM HandlerCorrect == Spec => []HandlerInv
<1>1. Init => HandlerType /\ HandlerInv
    BY HandlerStart DEF Init
<1>2. HandlerType /\ HandlerInv /\ [Next]_vars => (HandlerType /\ HandlerInv)'
    BY ServerStep
<1>3. QED
    BY <1>1, <1>2, PTL DEF Spec

\* An ERROR or a torn frame is the last thing on a connection.
THEOREM OutputEndsOnce == Spec => []EndsOnce
<1>1. HandlerInv => EndsOnce
    BY DEF HandlerInv
<1>2. QED
    BY <1>1, HandlerCorrect, PTL

\* Responses are never interleaved, whatever is pipelined.
THEOREM ResponsesInSequence == Spec => []NeverInterleaved
<1>1. HandlerInv => NeverInterleaved
    BY DEF HandlerInv
<1>2. QED
    BY <1>1, HandlerCorrect, PTL

\* A response that looks complete carries exactly the bytes it announced.
THEOREM CompleteMeansComplete == Spec => []BodyAsAnnounced
<1>1. HandlerInv => BodyAsAnnounced
    BY DEF HandlerInv
<1>2. QED
    BY <1>1, HandlerCorrect, PTL

-----------------------------------------------------------------------------
(* What the handler has taken. *)

\* A step that takes nothing.
LEMMA NothingTaken ==
    ASSUME HandlerType, pos'["server"] = pos["server"],
           FromPeer' = FromPeer \/ \E f \in Frame : FromPeer' = Append(FromPeer, f)
    PROVE  /\ \A i \in 1..pos["server"] : FromPeer'[i] = FromPeer[i]
           /\ Asked' = Asked
           /\ PeerErrorTaken' <=> PeerErrorTaken
<1>1. FromPeer \in Seq(Frame) /\ pos["server"] \in Nat /\ pos["server"] <= Len(FromPeer)
    BY DEF HandlerType, TransportType, FromPeer, Ends
<1>2. \A i \in 1..pos["server"] : FromPeer'[i] = FromPeer[i]
    BY <1>1, AppendFacts
<1>3. Asked' = Asked
    BY <1>2 DEF Asked
<1>4. PeerErrorTaken' <=> PeerErrorTaken
    BY <1>2 DEF PeerErrorTaken
<1>5. QED
    BY <1>2, <1>3, <1>4

\* A step that takes one frame.
LEMMA OneTaken ==
    ASSUME HandlerType, Readable("server"), Consume("server"), FromPeer' = FromPeer
    PROVE  LET f == NextFrame("server")
               n == pos["server"] + 1
           IN  /\ f \in Frame /\ pos'["server"] = n /\ FromPeer'[n] = f
               /\ PeerErrorTaken' => PeerErrorTaken \/ f.type = "ERROR"
               /\ Asked' = Asked \cup (IF Answered(f) THEN {n} ELSE {})
<1> DEFINE f == NextFrame("server")
           n == pos["server"] + 1
<1>1. FromPeer \in Seq(Frame) /\ pos["server"] \in Nat /\ pos["server"] < Len(FromPeer)
    BY DEF HandlerType, TransportType, FromPeer, Ends, Readable
<1>2. pos'["server"] = n /\ f = FromPeer[n] /\ f \in Frame
    BY <1>1 DEF HandlerType, TransportType, Ends, Consume, NextFrame, FromPeer
<1>3. 1..n = 1..pos["server"] \cup {n}
    BY <1>1
<1>4. PeerErrorTaken' => PeerErrorTaken \/ f.type = "ERROR"
    BY <1>2, <1>3 DEF PeerErrorTaken
<1>5. Asked' = Asked \cup (IF Answered(f) THEN {n} ELSE {})
    BY <1>2, <1>3 DEF Asked
<1>6. QED
    BY <1>2, <1>4, <1>5

\* What each step does to the peer's frames and to the handler's place in them.
LEMMA Takes ==
    ASSUME HandlerType, [Next]_vars
    PROVE  \/ /\ pos'["server"] = pos["server"]
              /\ FromPeer' = FromPeer \/ \E f \in Frame : FromPeer' = Append(FromPeer, f)
           \/ FromPeer' = FromPeer /\ Readable("server") /\ Consume("server")
           \/ SrvWrite /\ reply.type = "ERROR" /\ FromPeer' = FromPeer
<1>1. CASE SrvSkip \/ SrvServeRequest \/ SrvUnexpected \/ SrvPeerError \/ SrvStreamZero
           \/ SrvOversize \/ SrvDrain
    BY <1>1 DEF SrvSkip, SrvServeRequest, SrvUnexpected, SrvPeerError, SrvStreamZero,
                SrvOversize, SrvDrain, SrvHead, FromPeer
<1>2. CASE SrvStat \/ FifoOpened \/ SrvChunk \/ SrvBodyError \/ SrvReadEnds \/ SrvIdle \/ SrvDrainEnds
           \/ SrvClose \/ FsChange \/ UNCHANGED vars
    BY <1>2 DEF SrvStat, FifoOpened, SrvChunk, SrvBodyError, SrvReadEnds, SrvIdle, SrvDrainEnds,
                SrvClose, FsChange, vars, tcp, FromPeer
<1>3. CASE SrvWrite
    <2>1. FromPeer' = FromPeer
        BY <1>3, SendWire DEF SrvWrite, HandlerType, ServerType, Ends, FromPeer
    <2>2. QED
        BY <1>3, <2>1 DEF SrvWrite
<1>4. CASE SrvWriteFails
    BY <1>4, SendFailsWire DEF SrvWriteFails, HandlerType, ServerType, Ends, FromPeer
<1>5. CASE SrvDrop
    BY <1>5 DEF SrvDrop, HandlerType, TransportType, Ends, FromPeer
<1>6. CASE PeerSend
    <2>1. PICK f \in PeerFrames : Send("client", f)
        BY <1>6 DEF PeerSend
    <2>2. f \in Frame /\ "client" \in Ends /\ Peer("client") = "server"
        BY PeerAssumption DEF Ends, Peer
    <2>3. FromPeer' = FromPeer \/ FromPeer' = Append(FromPeer, f)
        BY <2>1, <2>2, SendWire DEF HandlerType, FromPeer
    <2>4. QED
        BY <1>6, <2>2, <2>3 DEF PeerSend
<1>7. CASE PeerRead
    BY <1>7 DEF PeerRead, Consume, HandlerType, TransportType, Ends, FromPeer
<1>8. CASE PeerShut \/ PeerClose
    BY <1>8 DEF PeerShut, PeerClose, FromPeer
<1>9. QED
    BY <1>1, <1>2, <1>3, <1>4, <1>5, <1>6, <1>7, <1>8 DEF Next, ServerNext, PeerNext, Finished

-----------------------------------------------------------------------------
(* Errors are not answered. *)

\* Once an ERROR was taken the handler is on its way out.
Leaving == PeerErrorTaken => spc \in {"drain", "close", "done"}

LEMMA LeavingStep ==
    ASSUME HandlerType, Leaving, [Next]_vars
    PROVE  Leaving'
<1>1. CASE SrvSkip \/ SrvServeRequest \/ SrvUnexpected \/ SrvPeerError \/ SrvStreamZero
           \/ SrvOversize
    <2> DEFINE f == NextFrame("server")
    <2>1. /\ Readable("server") /\ Consume("server") /\ FromPeer' = FromPeer /\ spc = "read"
        BY <1>1 DEF SrvSkip, SrvServeRequest, SrvUnexpected, SrvPeerError, SrvStreamZero,
                    SrvOversize, SrvHead, FromPeer
    <2>2. PeerErrorTaken' => f.type = "ERROR"
        BY <2>1, OneTaken DEF Leaving
    <2>3. f.type = "ERROR" => spc' = "close"
        BY <1>1 DEF SrvSkip, SrvServeRequest, SrvUnexpected, SrvPeerError, SrvStreamZero,
                    SrvOversize, SrvHead, Verdict, KnownTypes, NeedsStream, Reported
    <2>4. QED
        BY <2>2, <2>3 DEF Leaving
<1>2. CASE SrvDrain \/ (SrvWrite /\ reply.type = "ERROR")
    BY <1>2 DEF SrvDrain, SrvWrite, Leaving
<1>3. CASE SrvStat \/ FifoOpened \/ SrvChunk \/ SrvBodyError \/ SrvReadEnds \/ SrvIdle \/ SrvDrainEnds
           \/ SrvClose \/ SrvWriteFails \/ (SrvWrite /\ reply.type # "ERROR")
    <2>1. PeerErrorTaken' <=> PeerErrorTaken
        BY <1>3, Takes, NothingTaken
           DEF Next, ServerNext, SrvStat, FifoOpened, SrvChunk, SrvBodyError, SrvReadEnds, SrvIdle,
               SrvDrainEnds, SrvClose, SrvWriteFails, SrvWrite, tcp
    <2>2. spc \in {"blocked", "stat", "body", "send"} \/ spc' \in {"close", "done"}
        BY <1>3 DEF SrvStat, FifoOpened, SrvChunk, SrvBodyError, SrvReadEnds, SrvIdle, SrvDrainEnds,
                    SrvClose, SrvWriteFails, SrvWrite
    <2>3. QED
        BY <2>1, <2>2 DEF Leaving
<1>4. CASE SrvDrop \/ FsChange \/ PeerNext \/ UNCHANGED vars
    <2>1. spc' = spc
        BY <1>4 DEF SrvDrop, FsChange, PeerNext, PeerSend, PeerRead, PeerShut, PeerClose,
                    vars, serverVars, handlerVars
    <2>2. ~Readable("server") \/ ~Consume("server")
        BY <1>4 DEF SrvDrop, FsChange, PeerNext, PeerSend, PeerRead, PeerShut, PeerClose,
                    Consume, Readable, vars, tcp, HandlerType, TransportType, Ends
    <2>3. PeerErrorTaken' <=> PeerErrorTaken
        BY <1>4, <2>1, <2>2, Takes, NothingTaken DEF SrvWrite
    <2>4. QED
        BY <2>1, <2>3 DEF Leaving
<1>5. QED
    BY <1>1, <1>2, <1>3, <1>4 DEF Next, ServerNext, Finished

\* After an ERROR of the peer was taken, nothing is sent: errors are never
\* answered.
THEOREM ErrorsEndIt == Spec => ErrorNeverAnswered
<1>1. Init => HandlerType /\ HandlerInv /\ Leaving
    BY HandlerStart DEF Init, Leaving, PeerErrorTaken, TransportInit, Ends
<1>2. HandlerType /\ HandlerInv /\ Leaving /\ [Next]_vars
      => (HandlerType /\ HandlerInv /\ Leaving)'
    BY ServerStep, LeavingStep
<1>3. HandlerType /\ Leaving /\ [Next]_vars => [PeerErrorTaken => Out' = Out]_vars
    <2> SUFFICES ASSUME HandlerType, spc \in {"drain", "close", "done"}, Next PROVE Out' = Out
        BY DEF Leaving
    <2>1. CASE PeerNext
        BY <2>1, PeerStep DEF HandlerType
    <2>2. CASE ~PeerNext
        BY <2>2 DEF Next, ServerNext, SrvSkip, SrvServeRequest, SrvUnexpected, SrvPeerError,
            SrvStreamZero, SrvOversize, SrvHead, SrvStat, FifoOpened, SrvChunk, SrvBodyError, SrvReadEnds,
            SrvIdle, SrvWrite, SrvWriteFails, SrvDrain, SrvDrainEnds, SrvClose, SrvDrop,
            FsChange, Finished, vars, tcp, Out
    <2>3. QED
        BY <2>1, <2>2
<1>4. QED
    BY <1>1, <1>2, <1>3, PTL DEF Spec, ErrorNeverAnswered

-----------------------------------------------------------------------------
(* Places in a row. *)

LEMMA PlaceOfLast ==
    ASSUME NEW n \in Nat, NEW S \in SUBSET (1..n)
    PROVE  /\ IsFiniteSet(S) /\ Cardinality(S) \in Nat
           /\ n \in S => Place(S, n) = Cardinality(S)
<1>1. IsFiniteSet(1..n)
    BY FS_Interval
<1>2. IsFiniteSet(S)
    BY <1>1, FS_Subset
<1>3. {j \in S : j <= n} = S
    <2>1. \A j \in S : j <= n
        OBVIOUS
    <2>2. QED
        BY <2>1
<1>4. QED
    BY <1>2, <1>3, FS_CardinalityType DEF Place

LEMMA PlaceOfNew ==
    ASSUME NEW n \in Nat, NEW S \in SUBSET (1..n)
    PROVE  LET T == S \cup {n + 1} IN
           Cardinality(T) = Cardinality(S) + 1 /\ Place(T, n + 1) = Cardinality(S) + 1
<1> DEFINE T == S \cup {n + 1}
<1>1. IsFiniteSet(S) /\ n + 1 \notin S
    BY PlaceOfLast
<1>2. Cardinality(T) = Cardinality(S) + 1
    BY <1>1, FS_AddElement
<1>3. n + 1 \in Nat /\ T \in SUBSET (1..(n + 1)) /\ n + 1 \in T
    OBVIOUS
<1>4. Place(T, n + 1) = Cardinality(T)
    BY <1>3, PlaceOfLast
<1>5. QED
    BY <1>2, <1>4

\* What is added behind n changes no place up to n.
LEMMA PlaceKept ==
    ASSUME NEW n \in Nat, NEW S \in SUBSET (1..n), NEW T \in SUBSET Nat,
           {j \in T : j <= n} = S, NEW i \in S
    PROVE  Place(T, i) = Place(S, i)
<1>1. i \in Nat /\ i <= n
    OBVIOUS
<1>2. \A j : j \in T /\ j <= i <=> j \in S /\ j <= i
    <2>1. \A j \in T : j <= i => j <= n
        BY <1>1
    <2>2. \A j : j \in S <=> j \in T /\ j <= n
        OBVIOUS
    <2>3. QED
        BY <2>1, <2>2
<1>3. {j \in T : j <= i} = {j \in S : j <= i}
    BY <1>2
<1>4. QED
    BY <1>3 DEF Place

-----------------------------------------------------------------------------
(* Answers keep their order. *)

\* However the peer and the handler move, what was asked keeps its place.
LEMMA AskedGrows ==
    ASSUME HandlerType, HandlerType', [Next]_vars
    PROVE  /\ \A a \in Asked : a \in Asked' /\ Place(Asked, a)' = Place(Asked, a)
           /\ \A a \in 1..pos["server"] : FromPeer'[a] = FromPeer[a]
<1> DEFINE n == pos["server"]
<1>1. /\ FromPeer \in Seq(Frame) /\ n \in Nat /\ n <= Len(FromPeer)
      /\ FromPeer' \in Seq(Frame) /\ pos'["server"] \in Nat /\ pos'["server"] <= Len(FromPeer')
    BY DEF HandlerType, TransportType, FromPeer, Ends
<1>2. pos'["server"] >= n
    <2>1. CASE Readable("server") /\ Consume("server")
        BY <2>1 DEF Consume, HandlerType, TransportType, Ends
    <2>2. CASE SrvWrite /\ reply.type = "ERROR"
        BY <2>2 DEF SrvWrite, InFlight, HandlerType, TransportType, Ends
    <2>3. QED
        BY <2>1, <2>2, <1>1, Takes
<1>3. \A a \in 1..n : FromPeer'[a] = FromPeer[a]
    BY <1>1, Takes, AppendFacts
<1>4. {j \in Asked' : j <= n} = Asked
    BY <1>1, <1>2, <1>3 DEF Asked
<1>5. Asked \in SUBSET (1..n) /\ Asked' \in SUBSET Nat
    BY <1>1 DEF Asked
<1>6. \A a \in Asked : Place(Asked', a) = Place(Asked, a)
    BY <1>1, <1>4, <1>5, PlaceKept
<1>7. QED
    BY <1>3, <1>4, <1>6

\* The only way a frame gets out.
LEMMA Gives ==
    ASSUME HandlerType, [Next]_vars
    PROVE  \/ Out' = Out
           \/ /\ spc = "send" /\ ~closed["client"] /\ ~closed["server"]
              /\ SrvWrite \/ SrvWriteFails \/ SrvDrop
              /\ \E g \in {reply, Cut(reply)} : Out' = Append(Out, g)
<1>1. CASE PeerNext
    BY <1>1, PeerStep DEF HandlerType
<1>2. CASE SrvWrite
    BY <1>2, SendWire DEF SrvWrite, Send, CanSend, HandlerType, ServerType, Ends, Peer, Out
<1>3. CASE SrvWriteFails
    BY <1>3, SendFailsWire DEF SrvWriteFails, HandlerType, ServerType, Ends, Peer, Out
<1>4. CASE SrvDrop
    BY <1>4 DEF SrvDrop, HandlerType, TransportType, Ends, Out
<1>5. CASE ~PeerNext /\ ~SrvWrite /\ ~SrvWriteFails /\ ~SrvDrop
    BY <1>5 DEF Next, ServerNext, SrvSkip, SrvServeRequest, SrvUnexpected, SrvPeerError,
        SrvStreamZero, SrvOversize, SrvHead, SrvStat, FifoOpened, SrvChunk, SrvBodyError, SrvReadEnds,
        SrvIdle, SrvDrain, SrvDrainEnds, SrvClose, FsChange, Finished, vars, tcp, Out
<1>6. QED
    BY <1>1, <1>2, <1>3, <1>4, <1>5

\* A frame that is sent gets the next place if it is a RESPONSE.
LEMMA GivenGrows ==
    ASSUME HandlerType, NEW g \in Frame, Out' = Append(Out, g)
    PROVE  LET n == Len(Out) IN
           /\ Given' = IF g.type = "RESPONSE" THEN Given \cup {n + 1} ELSE Given
           /\ \A i \in Given : Place(Given, i)' = Place(Given, i) /\ Out'[i] = Out[i]
           /\ Out'[n + 1] = g
           /\ n \in Nat /\ Given \in SUBSET (1..n)
<1> DEFINE n == Len(Out)
<1>1. Out \in Seq(Frame) /\ n \in Nat
    BY DEF HandlerType, TransportType, Ends, Out
<1>2. /\ Len(Out') = n + 1 /\ Out'[n + 1] = g
      /\ \A i \in 1..n : Out'[i] = Out[i]
    BY <1>1, AppendFacts
<1>3. 1..(n + 1) = 1..n \cup {n + 1}
    BY <1>1
<1>4. Given' = IF g.type = "RESPONSE" THEN Given \cup {n + 1} ELSE Given
    BY <1>2, <1>3 DEF Given
<1>5. Given \in SUBSET (1..n)
    BY DEF Given
<1>6. {j \in Given' : j <= n} = Given /\ Given' \in SUBSET Nat
    <2>1. \A j \in Given : j \in Nat /\ j <= n
        BY <1>1, <1>5
    <2>2. ~(n + 1 <= n) /\ n + 1 \in Nat
        BY <1>1
    <2>3. QED
        BY <1>4, <2>1, <2>2
<1>7. \A i \in Given : Place(Given', i) = Place(Given, i)
    BY <1>1, <1>5, <1>6, PlaceKept
<1>8. QED
    BY <1>1, <1>2, <1>4, <1>5, <1>7

\* Asking more takes nothing away from the answers given so far.
LEMMA OwnKept ==
    ASSUME HandlerType, HandlerType', [Next]_vars, EachForItsOwn,
           NEW g \in Given, Place(Given, g)' = Place(Given, g), Out'[g] = Out[g]
    PROVE  \E a \in Asked' : /\ Place(Asked, a)' = Place(Given, g)'
                             /\ Answers(FromPeer'[a], Out'[g])
<1>1. PICK a \in Asked : Place(Asked, a) = Place(Given, g) /\ Answers(FromPeer[a], Out[g])
    BY DEF EachForItsOwn
<1>2. a \in Asked' /\ Place(Asked, a)' = Place(Asked, a) /\ FromPeer'[a] = FromPeer[a]
    BY AskedGrows DEF Asked
<1>3. QED
    BY <1>1, <1>2

LEMMA OwnStays ==
    ASSUME HandlerType, HandlerType', [Next]_vars, EachForItsOwn, Out' = Out
    PROVE  EachForItsOwn' /\ Given' = Given
<1>1. Given' = Given
    BY DEF Given
<1>2. \A g \in Given : Place(Given, g)' = Place(Given, g)
    BY <1>1
<1>3. QED
    BY <1>1, <1>2, OwnKept DEF EachForItsOwn

\* The frame that goes out answers the frame that was taken last.
LEMMA OwnSent ==
    ASSUME HandlerType, HandlerType', HandlerInv, AnswerInv, [Next]_vars, Out' # Out
    PROVE  /\ EachForItsOwn'
           /\ Cardinality(Given') = Cardinality(Given) + (IF Owing THEN 1 ELSE 0)
<1> DEFINE n == Len(Out)
<1>1. /\ spc = "send" /\ ~closed["client"] /\ ~closed["server"]
      /\ SrvWrite \/ SrvWriteFails \/ SrvDrop
      /\ \E g \in {reply, Cut(reply)} : Out' = Append(Out, g)
    BY Gives
<1>2. PICK g \in {reply, Cut(reply)} : Out' = Append(Out, g)
    BY <1>1
<1>3. g \in Frame /\ g.type = reply.type /\ g.stream = reply.stream /\ g.status = reply.status
    BY CutFrame, ZenonT(60) DEF HandlerType, ServerType, Cut, Frame
<1>4. /\ Given' = IF g.type = "RESPONSE" THEN Given \cup {n + 1} ELSE Given
      /\ \A i \in Given : Place(Given, i)' = Place(Given, i) /\ Out'[i] = Out[i]
      /\ Out'[n + 1] = g
      /\ n \in Nat /\ Given \in SUBSET (1..n)
    BY <1>2, <1>3, GivenGrows
<1>5. Owing <=> reply.type = "RESPONSE"
    BY <1>1 DEF Owing
<1>6. EachForItsOwn
    BY DEF AnswerInv, AnsweredInOrder
<1>7. \A i \in Given : \E a \in Asked' : /\ Place(Asked, a)' = Place(Given, i)'
                                         /\ Answers(FromPeer'[a], Out'[i])
    BY <1>4, <1>6, OwnKept
<1>8. CASE ~Owing
    <2>1. Given' = Given
        BY <1>3, <1>4, <1>5, <1>8
    <2>2. Cardinality(Given) \in Nat
        BY <1>4, PlaceOfLast
    <2>3. QED
        BY <1>7, <1>8, <2>1, <2>2 DEF EachForItsOwn
<1>9. CASE Owing
    <2>0. PICK p \in Nat : p = pos["server"]
        BY DEF HandlerType, TransportType, Ends
    <2>1. /\ p \in Asked /\ Answers(FromPeer[p], reply)
          /\ Cardinality(Asked) = Cardinality(Given) + 1
        BY <1>1, <1>5, <1>9, <2>0 DEF AnswerInv
    <2>2. p \in Nat /\ Asked \in SUBSET (1..p)
        BY <2>0 DEF Asked
    <2>3. Place(Asked, p) = Cardinality(Asked)
        BY <2>1, <2>2, PlaceOfLast
    <2>4. Place(Given', n + 1) = Cardinality(Given) + 1
          /\ Cardinality(Given') = Cardinality(Given) + 1
        BY <1>3, <1>4, <1>5, <1>9, PlaceOfNew
    <2>5. p \in Asked' /\ Place(Asked, p)' = Place(Asked, p) /\ FromPeer'[p] = FromPeer[p]
        BY <2>0, <2>1, <2>2, AskedGrows
    <2>6. Answers(FromPeer'[p], Out'[n + 1])
        BY <1>3, <1>4, <2>1, <2>5 DEF Answers
    <2>7. \A i \in Given' : \E a \in Asked' : /\ Place(Asked, a)' = Place(Given, i)'
                                              /\ Answers(FromPeer'[a], Out'[i])
        BY <1>3, <1>4, <1>5, <1>7, <1>9, <2>1, <2>3, <2>4, <2>5, <2>6
    <2>8. QED
        BY <1>9, <2>4, <2>7 DEF EachForItsOwn
<1>10. QED
    BY <1>8, <1>9

\* A frame is taken: the handler falls one answer behind, or leaves.
LEMMA AnswerTake ==
    ASSUME HandlerType, HandlerType', HandlerInv, AnswerInv,
           SrvSkip \/ SrvServeRequest \/ SrvUnexpected \/ SrvPeerError \/ SrvStreamZero
           \/ SrvOversize
    PROVE  AnswerInv'
<1> DEFINE f == NextFrame("server")
           n == pos["server"] + 1
<1>1. /\ Readable("server") /\ Consume("server") /\ FromPeer' = FromPeer /\ Out' = Out
      /\ spc = "read" /\ closed' = closed /\ [Next]_vars
    BY DEF SrvSkip, SrvServeRequest, SrvUnexpected, SrvPeerError, SrvStreamZero,
           SrvOversize, SrvHead, FromPeer, Out, Next, ServerNext
<1>2. EachForItsOwn' /\ Given' = Given
    BY <1>1, OwnStays DEF AnswerInv, AnsweredInOrder
<1>3. /\ f \in Frame /\ pos'["server"] = n /\ FromPeer'[n] = f
      /\ Asked' = Asked \cup (IF Answered(f) THEN {n} ELSE {})
    BY <1>1, OneTaken
<1>4. /\ pos["server"] \in Nat /\ Asked \in SUBSET (1..pos["server"])
    BY DEF HandlerType, TransportType, Ends, Asked
<1>5. Answered(f) => n \in Asked' /\ Cardinality(Asked') = Cardinality(Asked) + 1
    BY <1>3, <1>4, PlaceOfNew
<1>6. ~closed["client"] => Cardinality(Asked) = Cardinality(Given)
    BY <1>1 DEF AnswerInv, AnsweredInOrder
<1>7. CASE SrvSkip
    <2>1. spc' = "read" /\ ~Answered(f)
        BY <1>7, <1>1 DEF SrvSkip, SrvHead, Answered, serverVars
    <2>2. Asked' = Asked
        BY <2>1, <1>3
    <2>3. QED
        BY <1>1, <1>2, <1>6, <2>1, <2>2 DEF AnswerInv, AnsweredInOrder, Owing
<1>8. CASE SrvServeRequest \/ SrvUnexpected
    <2>1. Answered(f)
        BY <1>8 DEF SrvServeRequest, SrvUnexpected, SrvHead, Answered
    <2>2. \/ spc' \in {"blocked", "stat"} /\ Acceptable(f) /\ file'.stream = f.stream
          \/ spc' = "send" /\ reply'.type = "RESPONSE" /\ Answers(f, reply')
        <3>1. CASE SrvUnexpected
            BY <3>1 DEF SrvUnexpected, GoWrite, StatusFrame, Response, Whole, Answers, Acceptable
        <3>2. CASE SrvServeRequest
            <4>1. f.type = "REQUEST" /\ (Acceptable(f) <=> ~Rejected(f))
                BY <3>2, <1>3, FramesAssumption
                   DEF SrvServeRequest, Acceptable, Rejected, Frame
            <4>2. CASE \E st \in {400, 404, 500} : GoWrite(StatusFrame(f.stream, st))
                                                 /\ (st = 400 <=> Rejected(f))
                <5>1. PICK st \in {400, 404, 500} : GoWrite(StatusFrame(f.stream, st))
                                                    /\ (st = 400 <=> Rejected(f))
                    BY <4>2
                <5>2. /\ spc' = "send" /\ reply'.type = "RESPONSE"
                      /\ reply'.stream = f.stream /\ reply'.status = st
                    BY <5>1 DEF GoWrite, StatusFrame, Response, Whole
                <5>3. QED
                    BY <4>1, <5>1, <5>2 DEF Answers
            <4>3. CASE ~Rejected(f) /\ spc' = "stat"
                       /\ file' = [NoFile EXCEPT !.ino = fs[f.path], !.stream = f.stream]
                BY <4>1, <4>3 DEF NoFile
            <4>4. CASE ~Rejected(f) /\ spc' = "blocked"
                       /\ file' = [NoFile EXCEPT !.stream = f.stream]
                BY <4>1, <4>4 DEF NoFile
            <4>5. QED
                BY <3>2, <4>2, <4>3, <4>4 DEF SrvServeRequest
        <3>3. QED
            BY <1>8, <3>1, <3>2
    <2>3. Owing' /\ spc' # "read" /\ spc' # "body"
        BY <2>2 DEF Owing
    <2>4. QED
        BY <1>1, <1>2, <1>3, <1>5, <1>6, <2>1, <2>2, <2>3 DEF AnswerInv, AnsweredInOrder
<1>9. CASE SrvPeerError \/ SrvStreamZero \/ SrvOversize
    <2>1. spc' = "close" \/ (spc' = "send" /\ reply'.type = "ERROR")
        BY <1>9 DEF SrvPeerError, SrvStreamZero, SrvOversize, GoWrite, Error, Whole
    <2>2. QED
        BY <1>2, <2>1 DEF AnswerInv, AnsweredInOrder, Owing
<1>10. QED
    BY <1>7, <1>8, <1>9

\* A reply goes out, or does not.
LEMMA AnswerWrite ==
    ASSUME HandlerType, HandlerType', HandlerInv, AnswerInv, SrvWrite
    PROVE  AnswerInv'
<1>1. [Next]_vars /\ spc = "send" /\ closed' = closed /\ ~closed["server"]
    BY DEF Next, ServerNext, SrvWrite, Send, CanSend
<1>2. EachForItsOwn'
    BY <1>1, OwnStays, OwnSent DEF AnswerInv, AnsweredInOrder
<1>3. CASE reply.type = "ERROR"
    <2>1. spc' = "drain"
        BY <1>3 DEF SrvWrite
    <2>2. QED
        BY <1>2, <2>1 DEF AnswerInv, AnsweredInOrder, Owing
<1>4. CASE reply.type # "ERROR"
    <2>1. spc' \in {"body", "read"} /\ pos' = pos
        BY <1>4 DEF SrvWrite
    <2>2. FromPeer' = FromPeer
        BY SendWire DEF SrvWrite, HandlerType, ServerType, Ends, FromPeer
    <2>3. Asked' = Asked
        BY <2>1, <2>2 DEF Asked
    <2>4. ~closed["client"] => Cardinality(Asked) = Cardinality(Given')
        <3> SUFFICES ASSUME ~closed["client"] PROVE Cardinality(Asked) = Cardinality(Given')
            OBVIOUS
        <3>1. Out' = Append(Out, reply)
            BY SendWire DEF SrvWrite, HandlerType, ServerType, Ends, Peer, Out
        <3>2. Out \in Seq(Frame) /\ reply \in Frame
            BY DEF HandlerType, TransportType, ServerType, Ends, Out
        <3>3. Out' # Out
            BY <3>1, <3>2, AppendFacts
        <3>4. Cardinality(Given') = Cardinality(Given) + (IF Owing THEN 1 ELSE 0)
            BY <1>1, <3>3, OwnSent
        <3>5. reply.type \in {"RESPONSE", "DATA"}
            BY <1>1, <1>4 DEF HandlerInv, ResponseReady, DataReady
        <3>6. Cardinality(Given) \in Nat
            BY <3>1, <3>2, GivenGrows, PlaceOfLast
        <3>7. QED
            BY <1>1, <3>4, <3>5, <3>6 DEF AnswerInv, Owing
    <2>5. QED
        BY <1>1, <1>2, <2>1, <2>3, <2>4 DEF AnswerInv, AnsweredInOrder, Owing
<1>5. QED
    BY <1>3, <1>4

LEMMA AnswerStep ==
    ASSUME HandlerType, HandlerType', HandlerInv, AnswerInv, [Next]_vars
    PROVE  AnswerInv'
<1>1. EachForItsOwn'
    BY OwnStays, OwnSent DEF AnswerInv, AnsweredInOrder
<1>2. CASE SrvSkip \/ SrvServeRequest \/ SrvUnexpected \/ SrvPeerError \/ SrvStreamZero
           \/ SrvOversize
    BY <1>2, AnswerTake
<1>3. CASE SrvStat \/ FifoOpened
    <2>1. /\ UNCHANGED tcp /\ spc \in {"blocked", "stat"} /\ spc' = "send"
          /\ reply'.type = "RESPONSE" /\ reply'.stream = file.stream
          /\ reply'.status \in {200, 404, 500}
        BY <1>3 DEF SrvStat, FifoOpened, GoWrite, StatusFrame, Response, Whole
    <2>2. Asked' = Asked /\ Given' = Given /\ FromPeer' = FromPeer
        BY <2>1 DEF Asked, Given, FromPeer, Out, tcp
    <2>3. Answers(FromPeer[pos["server"]], reply')
        BY <2>1 DEF AnswerInv, Answers
    <2>4. QED
        BY <1>1, <2>1, <2>2, <2>3 DEF AnswerInv, AnsweredInOrder, Owing, tcp
<1>4. CASE SrvChunk \/ SrvBodyError
    <2>1. /\ UNCHANGED tcp /\ spc = "body" /\ spc' = "send"
          /\ reply'.type \in {"DATA", "ERROR"}
        BY <1>4 DEF SrvChunk, SrvBodyError, GiveUp, GoWrite, Data, Error, Whole
    <2>2. Asked' = Asked /\ Given' = Given
        BY <2>1 DEF Asked, Given, FromPeer, Out, tcp
    <2>3. QED
        BY <1>1, <2>1, <2>2 DEF AnswerInv, AnsweredInOrder, Owing, tcp
<1>5. CASE SrvWrite
    BY <1>5, AnswerWrite
<1>6. CASE SrvReadEnds \/ SrvIdle \/ SrvWriteFails \/ SrvDrain \/ SrvDrainEnds \/ SrvClose
    <2>1. spc' \in {"drain", "close", "done"}
        BY <1>6 DEF SrvReadEnds, SrvIdle, SrvWriteFails, AfterFailedWrite, SrvDrain,
                    SrvDrainEnds, SrvClose
    <2>2. QED
        BY <1>1, <2>1 DEF AnswerInv, AnsweredInOrder, Owing
<1>7. CASE SrvDrop \/ FsChange \/ PeerNext \/ UNCHANGED vars
    <2>1. UNCHANGED <<spc, reply, file>>
        BY <1>7 DEF SrvDrop, FsChange, PeerNext, PeerSend, PeerRead, PeerShut, PeerClose,
                    vars, serverVars, handlerVars
    <2>2. ~Readable("server") \/ ~Consume("server")
        BY <1>7 DEF SrvDrop, FsChange, PeerNext, PeerSend, PeerRead, PeerShut, PeerClose,
                    Consume, Readable, vars, tcp, HandlerType, TransportType, Ends
    <2>3. /\ pos'["server"] = pos["server"]
          /\ FromPeer' = FromPeer \/ \E f \in Frame : FromPeer' = Append(FromPeer, f)
        BY <2>1, <2>2, Takes DEF SrvWrite
    <2>4. /\ Asked' = Asked
          /\ pos["server"] \in Asked => FromPeer'[pos["server"]] = FromPeer[pos["server"]]
        BY <2>3, NothingTaken DEF Asked
    <2>5. /\ closed["client"] => closed'["client"]
          /\ closed["server"] => closed'["server"]
        BY <1>7, PeerStep DEF SrvDrop, FsChange, CloseSocket, vars, tcp,
                              HandlerType, TransportType, Ends
    <2>6. Out' = Out \/ (spc = "send" /\ closed'["server"])
        BY <1>7, PeerStep DEF SrvDrop, FsChange, CloseSocket, vars, tcp, Out,
                              HandlerType, TransportType, Ends
    <2>7. Out' = Out => Given' = Given
        BY DEF Given
    <2>8. Owing' = Owing
        BY <2>1 DEF Owing
    <2>9. QED
        BY <1>1, <2>1, <2>3, <2>4, <2>5, <2>6, <2>7, <2>8 DEF AnswerInv, AnsweredInOrder, Owing
<1>8. QED
    BY <1>2, <1>3, <1>4, <1>5, <1>6, <1>7 DEF Next, ServerNext, Finished

\* Pipelined frames are answered in order, each at most once and on its own
\* stream, whatever the peer does.
THEOREM AnswersInOrder == Spec => []AnsweredInOrder
<1>1. Init => HandlerType /\ HandlerInv /\ AnswerInv
    <2> SUFFICES ASSUME Init PROVE HandlerType /\ HandlerInv /\ AnswerInv
        OBVIOUS
    <2>1. HandlerType /\ HandlerInv
        BY HandlerStart DEF Init
    <2>2. Asked = {} /\ Given = {} /\ spc = "read"
        BY DEF Init, TransportInit, ServerInit, Ends, Asked, Given, Out, FromPeer
    <2>3. QED
        BY <2>1, <2>2 DEF AnswerInv, AnsweredInOrder, EachForItsOwn, Owing
<1>2. HandlerType /\ HandlerInv /\ AnswerInv /\ [Next]_vars
      => (HandlerType /\ HandlerInv /\ AnswerInv)'
    BY ServerStep, AnswerStep
<1>3. AnswerInv => AnsweredInOrder
    BY DEF AnswerInv
<1>4. QED
    BY <1>1, <1>2, <1>3, PTL DEF Spec

-----------------------------------------------------------------------------
(* Reports survive. *)

LEMMA ResetsStep ==
    ASSUME HandlerType, ResetsFromClosed, [Next]_vars
    PROVE  ResetsFromClosed'
<1>1. CASE SrvWrite
    BY <1>1, ResetsSend DEF SrvWrite, HandlerType, Ends
<1>2. CASE SrvClose \/ SrvDrop
    BY <1>2, ResetsClose DEF SrvClose, SrvDrop, HandlerType, Ends
<1>3. CASE PeerSend
    BY <1>3, ResetsSend DEF PeerSend, HandlerType, Ends
<1>4. CASE PeerClose
    BY <1>4, ResetsClose DEF PeerClose, HandlerType, Ends
<1>5. CASE ~SrvWrite /\ ~SrvClose /\ ~SrvDrop /\ ~PeerSend /\ ~PeerClose
    <2>1. UNCHANGED <<closed, rst>>
        BY <1>5 DEF Next, ServerNext, SrvSkip, SrvServeRequest, SrvUnexpected, SrvPeerError,
            SrvStreamZero, SrvOversize, SrvStat, FifoOpened, SrvChunk, SrvBodyError, SrvReadEnds, SrvIdle,
            SrvWriteFails, SrvDrain, SrvDrainEnds, FsChange, Finished, PeerNext, PeerRead,
            PeerShut, vars, tcp
    <2>2. QED
        BY <2>1, ResetsStay
<1>6. QED
    BY <1>1, <1>2, <1>3, <1>4, <1>5

\* Once a report is out, only draining and closing are left.
LEMMA ReportStep ==
    ASSUME "timeout" \notin Faults, "drop" \notin Faults,
           HandlerType, HandlerInv, ResetsFromClosed, ReportKept, [Next]_vars
    PROVE  ReportKept'
<1>1. /\ closed \in [Ends -> BOOLEAN] /\ rst \in [Ends -> BOOLEAN] /\ fin \in [Ends -> BOOLEAN]
      /\ pos \in [Ends -> Nat] /\ wire \in [Ends -> Seq(Frame)]
      /\ Peer("client") = "server" /\ Peer("server") = "client"
      /\ Out \in Seq(Frame) /\ reply \in Frame
    BY DEF HandlerType, TransportType, ServerType, Peer, Out, Ends
<1>2. CASE SrvWrite
    <2>1. spc = "send" /\ closed' = closed /\ ~closed["server"] /\ ~ReportOut
        BY <1>2 DEF SrvWrite, Send, CanSend, ReportKept
    <2>2. Out' = Out \/ Out' = Append(Out, reply)
        BY <1>1, <1>2, SendWire DEF SrvWrite, HandlerType, Ends, Out
    <2>3. reply.type = "ERROR" => spc' = "drain"
        BY <1>2 DEF SrvWrite
    <2>4. reply.type # "ERROR" => ~ReportOut'
        <3>1. CASE Out' = Out
            BY <3>1, <2>1 DEF ReportOut
        <3>2. CASE Out' = Append(Out, reply)
            BY <1>1, <3>2, AppendFacts DEF ReportOut, Last
        <3>3. QED
            BY <2>2, <3>1, <3>2
    <2>5. QED
        BY <2>1, <2>3, <2>4 DEF ReportKept
<1>3. CASE SrvWriteFails
    <2>1. spc = "send" /\ closed' = closed /\ ~closed["server"] /\ ~ReportOut
        BY <1>3 DEF SrvWriteFails, ReportKept
    <2>2. Out' = Out \/ Out' = Append(Out, Cut(reply))
        BY <1>1, <1>3, SendFailsWire DEF SrvWriteFails, HandlerType, Ends, Out
    <2>3. Cut(reply) \in Frame /\ Cut(reply).shape = "cut"
        BY <1>1, CutFrame DEF Cut, Frame
    <2>4. ~ReportOut'
        <3>1. CASE Out' = Out
            BY <3>1, <2>1 DEF ReportOut
        <3>2. CASE Out' = Append(Out, Cut(reply))
            BY <1>1, <2>3, <3>2, AppendFacts DEF ReportOut, Last
        <3>3. QED
            BY <2>2, <3>1, <3>2
    <2>5. QED
        BY <2>1, <2>4 DEF ReportKept
<1>4. CASE SrvSkip \/ SrvServeRequest \/ SrvUnexpected \/ SrvPeerError \/ SrvStreamZero
           \/ SrvOversize \/ SrvStat \/ FifoOpened \/ SrvChunk \/ SrvBodyError \/ SrvReadEnds \/ SrvIdle
    <2>1. spc \in {"read", "blocked", "stat", "body"} /\ closed' = closed /\ wire' = wire
        BY <1>4 DEF SrvSkip, SrvServeRequest, SrvUnexpected, SrvPeerError,
            SrvStreamZero, SrvOversize, SrvHead, SrvStat, FifoOpened, SrvChunk, SrvBodyError, SrvReadEnds,
            SrvIdle, tcp
    <2>2. ~ReportOut' /\ ~closed["server"]
        BY <2>1 DEF ReportKept, ReportOut, Out
    <2>3. QED
        BY <2>1, <2>2 DEF ReportKept
<1>5. CASE SrvDrain
    <2>1. /\ closed' = closed /\ spc = "drain"
          /\ spc' = "drain" \/ (spc' = "close" /\ drained' = MaxDrain)
        BY <1>5 DEF SrvDrain, DrainOver
    <2>2. QED
        BY <2>1 DEF ReportKept
<1>6. CASE SrvDrainEnds
    <2>1. InputEnds("server") /\ spc = "drain" /\ spc' = "close" /\ UNCHANGED tcp
        BY <1>6 DEF SrvDrainEnds, SrvDrained
    <2>2. ~closed["server"]
        BY <2>1 DEF ReportKept
    <2>3. ~rst["client"] /\ (rst["server"] => closed["client"])
        BY <1>1, <2>2 DEF ResetsFromClosed, Ends
    <2>4. QED
        BY <1>1, <2>1, <2>2, <2>3 DEF InputEnds, ReportKept, ReportOut, Out, FromPeer, tcp
<1>7. CASE SrvClose
    <2>1. /\ spc = "close" /\ spc' = "done" /\ UNCHANGED <<wire, pos, drained>>
          /\ closed'["client"] = closed["client"] /\ fin'["client"] = fin["client"]
          /\ rst'["client"] => rst["client"] \/ (~closed["client"] /\ InFlight("server") > 0)
        BY <1>1, <1>7 DEF SrvClose, CloseSocket, Ends
    <2>2. ReportOut' = ReportOut /\ FromPeer' = FromPeer
        BY <2>1 DEF ReportOut, Out, FromPeer
    <2>3. pos["server"] = Len(FromPeer) => ~(InFlight("server") > 0)
        BY <1>1 DEF InFlight, FromPeer, Ends
    <2>4. QED
        BY <1>1, <2>1, <2>2, <2>3 DEF ReportKept
<1>8. CASE PeerSend
    <2>1. /\ ~closed["client"] /\ ~fin["client"]
          /\ UNCHANGED <<spc, drained, closed, fin, pos>>
        BY <1>8 DEF PeerSend, Send, CanSend, serverVars
    <2>2. Out' = Out
        BY <1>8, PeerStep DEF PeerNext, HandlerType
    <2>3. ReportOut' = ReportOut
        BY <2>2 DEF ReportOut
    <2>4. QED
        BY <2>1, <2>3 DEF ReportKept
<1>9. CASE PeerRead \/ PeerShut \/ PeerClose
    <2>1. /\ UNCHANGED <<spc, drained, wire>> /\ pos'["server"] = pos["server"]
          /\ closed["client"] => closed'["client"]
          /\ fin["client"] => fin'["client"]
          /\ closed'["server"] = closed["server"]
          /\ rst'["client"] = rst["client"]
        BY <1>1, <1>9 DEF PeerRead, Consume, PeerShut, HalfClose, PeerClose, CloseSocket,
                          serverVars, Ends
    <2>2. ReportOut' = ReportOut /\ FromPeer' = FromPeer
        BY <2>1 DEF ReportOut, Out, FromPeer
    <2>3. QED
        BY <2>1, <2>2 DEF ReportKept
<1>10. CASE FsChange \/ UNCHANGED vars
    <2>1. UNCHANGED <<spc, drained, tcp>>
        BY <1>10 DEF FsChange, vars, serverVars, handlerVars
    <2>2. QED
        BY <2>1 DEF ReportKept, ReportOut, Out, FromPeer, tcp
<1>11. QED
    BY <1>2, <1>3, <1>4, <1>5, <1>6, <1>7, <1>8, <1>9, <1>10
       DEF Next, ServerNext, PeerNext, SrvDrop, Finished

\* Unless a deadline or Server.Close cuts the drain short, a report that was sent
\* is not destroyed by a reset of the server's own making.
THEOREM ReportsReach ==
    ASSUME "timeout" \notin Faults, "drop" \notin Faults
    PROVE  Spec => []HandlerReportSurvives
<1> DEFINE Inv == HandlerType /\ HandlerInv /\ ResetsFromClosed /\ ReportKept
<1>1. Init => Inv
    <2> SUFFICES ASSUME Init PROVE Inv
        OBVIOUS
    <2>1. HandlerType /\ HandlerInv
        BY HandlerStart DEF Init
    <2>2. Out = <<>> /\ ~closed["server"] /\ ~rst["client"] /\ ~rst["server"]
        BY DEF Init, TransportInit, Ends, Out
    <2>3. QED
        BY <2>1, <2>2 DEF ResetsFromClosed, Ends, ReportKept, ReportOut
<1>2. Inv /\ [Next]_vars => Inv'
    BY ServerStep, ResetsStep, ReportStep
<1>3. Inv => HandlerReportSurvives
    BY DEF ReportKept, HandlerReportSurvives, ResetsFromClosed, Ends, Peer
<1>4. QED
    BY <1>1, <1>2, <1>3, PTL DEF Spec
=============================================================================
