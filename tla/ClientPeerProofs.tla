-------------------------- MODULE ClientPeerProofs --------------------------
(***************************************************************************)
(* Proofs about the client facing an arbitrary server: for every server,    *)
(* every largest stream id, and any number of calls of Get.                 *)
(***************************************************************************)
EXTENDS ClientPeer, EndpointProofs

\* The server touches neither the client nor what it sent, and does not make a
\* reset out of a connection that is already over.
LEMMA ServerSide ==
    ASSUME CallerType, PeerNext
    PROVE  /\ TransportType' /\ OtherSide
           /\ closed["server"] => closed'["server"]
           /\ fin["server"] => fin'["server"]
           /\ closed["server"] \/ fin["server"] =>
                Received' = Received /\ rst'["server"] = rst["server"]
<1>1. /\ TransportType /\ "server" \in Ends /\ Peer("server") = "client"
      /\ wire \in [Ends -> Seq(Frame)] /\ pos \in [Ends -> Nat] /\ fin \in [Ends -> BOOLEAN]
      /\ closed \in [Ends -> BOOLEAN] /\ rst \in [Ends -> BOOLEAN]
    BY DEF CallerType, TransportType, Ends, Peer
<1>2. CASE PeerSend
    <2>1. PICK f \in PeerFrames : Send("server", f)
        BY <1>2 DEF PeerSend
    <2>2. f \in Frame
        BY PeerAssumption
    <2>3. TransportType'
        BY <1>1, <1>2, <2>1, <2>2, SendKeeps DEF PeerSend
    <2>4. Sent' = Sent /\ (Received' = Received \/ Received' = Append(Received, f))
        BY <1>1, <2>1, <2>2, SendWire DEF Sent, Received
    <2>5. ~closed["server"] /\ ~fin["server"]
        BY <2>1 DEF Send, CanSend
    <2>6. QED
        BY <1>2, <2>2, <2>3, <2>4, <2>5 DEF PeerSend, OtherSide
<1>3. CASE PeerRead
    BY <1>1, <1>3, ConsumeKeeps DEF PeerRead, Consume, OtherSide, Sent, Received, Ends
<1>4. CASE PeerShut
    BY <1>1, <1>4, HalfCloseKeeps DEF PeerShut, HalfClose, OtherSide, Sent, Received, Ends
<1>5. CASE PeerClose
    BY <1>1, <1>5, CloseKeeps DEF PeerClose, CloseSocket, OtherSide, Sent, Received, Ends
<1>6. QED
    BY <1>2, <1>3, <1>4, <1>5 DEF PeerNext

LEMMA StillOther ==
    ASSUME CallerType, UNCHANGED vars
    PROVE  TransportType' /\ OtherSide
BY DEF vars, tcp, CallerType, TransportType, OtherSide, Sent, Received

LEMMA TypeStep ==
    ASSUME CallerType, [Next]_vars
    PROVE  CallerType'
BY CallerTypeStep, CallerTypeStays, ServerSide, StillOther DEF Next, Finished

\* Type correctness of the client and its connection, for every instance.
THEOREM TypeCorrect == Spec => []TypeOK
<1>1. Init => CallerType
    BY CallerStart DEF Init
<1>2. CallerType /\ [Next]_vars => CallerType'
    BY TypeStep
<1>3. QED
    BY <1>1, <1>2, PTL DEF Spec, TypeOK

\* After a failure every Get returns ErrBroken and the connection is closed.
THEOREM FailureIsFinal == Spec => []BrokenForGood
<1>1. Init => CallerType /\ BrokenInv
    BY CallerStart DEF Init
<1>2. CallerType /\ BrokenInv /\ [Next]_vars => (CallerType /\ BrokenInv)'
    BY TypeStep, BrokenStep, ServerSide, StillOther, OthersStay DEF Next, Finished
<1>3. BrokenInv => BrokenForGood
    BY DEF BrokenInv
<1>4. QED
    BY <1>1, <1>2, <1>3, PTL DEF Spec

\* Stream ids are never zero, never repeat and only grow.
THEOREM IdsGrow == Spec => []IdsOnlyGrow
<1>1. Init => CallerType /\ IdsInv
    BY CallerStart DEF Init
<1>2. CallerType /\ IdsInv /\ [Next]_vars => (CallerType /\ IdsInv)'
    BY TypeStep, IdsStep, ServerSide, StillOther, OthersStay DEF Next, Finished
<1>3. IdsInv => IdsOnlyGrow
    BY DEF IdsInv
<1>4. QED
    BY <1>1, <1>2, <1>3, PTL DEF Spec

\* A Get that succeeds returns one complete response of its own stream.
THEOREM AnswersAreWhole == Spec => []OnlyWholeAnswers
<1>1. Init => CallerType /\ AnswersInv
    BY CallerStart DEF Init
<1>2. CallerType /\ AnswersInv /\ [Next]_vars => (CallerType /\ AnswersInv)'
    BY TypeStep, AnswersStep, ServerSide, StillOther, AnswersStay DEF Next, Finished
<1>3. AnswersInv => OnlyWholeAnswers
    BY DEF AnswersInv
<1>4. QED
    BY <1>1, <1>2, <1>3, PTL DEF Spec

\* Nothing is sent after an error, received or sent.
THEOREM ErrorsEndIt == Spec => SilentAfterError
<1>1. Init => CallerType /\ EndInv
    BY CallerStart DEF Init
<1>2. CallerType /\ EndInv /\ [Next]_vars => (CallerType /\ EndInv)'
    BY TypeStep, EndStep, ServerSide, StillOther, OthersStay DEF Next, Finished
<1>3. CallerType /\ EndInv /\ [Next]_vars => [ErrorTaken \/ EndSent => Sent' = Sent]_vars
    BY EndIsSilent, ServerSide, OthersStay DEF Next, Finished
<1>4. QED
    BY <1>1, <1>2, <1>3, PTL DEF Spec, SilentAfterError

LEMMA ClientResets ==
    ASSUME CallerType, ResetsFromClosed, [Next]_vars
    PROVE  ResetsFromClosed'
<1>1. CASE CliSend \/ CliReport \/ PeerSend
    BY <1>1, ResetsSend DEF CliSend, CliReport, PeerSend, CallerType, Ends
<1>2. CASE CliFail \/ CliClose \/ PeerClose
    BY <1>2, ResetsClose DEF CliFail, CliClose, PeerClose, CallerType, Ends
<1>3. CASE ~(CliSend \/ CliReport \/ PeerSend \/ CliFail \/ CliClose \/ PeerClose)
    <2>1. UNCHANGED <<closed, rst>>
        BY <1>3 DEF Next, ClientNext, GetStep, CliGet, CliSendFails, CliSkip, CliResponse,
           CliData, CliBodyWriteFails, CliStray, CliRemoteError, CliReportable, CliReadEnds,
           CliReportFails, CliDrain, CliDrainEnds, PeerNext, PeerRead, PeerShut, Finished,
           vars, tcp
    <2>2. QED
        BY <2>1, ResetsStay
<1>4. QED
    BY <1>1, <1>2, <1>3

\* Unless a deadline cuts the drain short, a report that was sent is not
\* destroyed by a reset of the client's own making.
THEOREM ReportsReach ==
    ASSUME "timeout" \notin Faults
    PROVE  Spec => []ReportSurvives
<1> DEFINE Inv == CallerType /\ EndInv /\ BrokenInv /\ ResetsFromClosed /\ ReportDrained
<1>1. Init => Inv
    BY CallerStart DEF Init
<1>2. Inv /\ [Next]_vars => Inv'
    <2> SUFFICES ASSUME Inv, [Next]_vars PROVE Inv'
        OBVIOUS
    <2>1. CallerType' /\ ResetsFromClosed'
        BY TypeStep, ClientResets
    <2>2. CASE ClientNext
        BY <2>1, <2>2, DrainedStep, EndStep, BrokenStep
    <2>3. CASE PeerNext
        <3>1. /\ UNCHANGED <<clientVars, Sent>> /\ pos'["client"] = pos["client"]
            BY <2>3, ServerSide DEF OtherSide
        <3>2. ReportSent' = ReportSent
            BY <3>1 DEF ReportSent
        <3>3. QED
            BY <2>1, <2>3, <3>1, <3>2, ServerSide, OthersStay DEF ReportDrained, clientVars
    <2>4. CASE UNCHANGED vars
        <3>1. EndInv' /\ BrokenInv'
            BY <2>4, StillOther, OthersStay
        <3>2. ReportDrained'
            BY <2>4 DEF vars, tcp, clientVars, ReportDrained, ReportSent, Sent, Received
        <3>3. QED
            BY <2>1, <3>1, <3>2
    <2>5. QED
        BY <2>2, <2>3, <2>4 DEF Next, Finished
<1>3. Inv => ReportSurvives
    BY DEF ReportDrained, ReportSurvives, CallerType, ResetsFromClosed, Ends, Peer
<1>4. QED
    BY <1>1, <1>2, <1>3, PTL DEF Spec
=============================================================================
