----------------------------- MODULE ServerPeer -----------------------------
(***************************************************************************)
(* The connection handler of bserve facing an arbitrary peer: one that may  *)
(* pipeline, break every rule of the protocol, stop in the middle of a      *)
(* frame, never read, half-close, close, or just sit there.                 *)
(***************************************************************************)
EXTENDS Handler

CONSTANTS
    PeerFrames,     \* the frames the peer may send
    MaxPeerFrames   \* how many it sends at most (a bound of the model)

ASSUME PeerAssumption ==
    /\ PeerFrames \subseteq Frame
    /\ MaxPeerFrames \in Nat

vars == <<tcp, serverVars>>

Init == TransportInit /\ ServerInit

-----------------------------------------------------------------------------
(* The peer. *)

FromPeer == wire["server"]    \* what the peer sent

PeerSend ==
    /\ Len(FromPeer) < MaxPeerFrames
    /\ Len(FromPeer) > 0 => FromPeer[Len(FromPeer)].shape # "cut"
    /\ \E f \in PeerFrames : Send("client", f)
    /\ UNCHANGED <<serverVars, pos, fin, closed>>

PeerRead ==
    /\ ~closed["client"] /\ Readable("client")
    /\ Consume("client")
    /\ UNCHANGED <<serverVars, wire, fin, closed, rst>>

PeerShut ==
    /\ ~fin["client"]
    /\ HalfClose("client")
    /\ UNCHANGED <<serverVars, wire, pos, closed, rst>>

PeerClose ==
    /\ ~closed["client"]
    /\ CloseSocket("client")
    /\ UNCHANGED <<serverVars, wire, pos>>

PeerNext == PeerSend \/ PeerRead \/ PeerShut \/ PeerClose

\* Everything is over: the handler has returned.
Finished ==
    /\ spc = "done"
    /\ UNCHANGED vars

Next == ServerNext \/ SrvDrop \/ FifoOpened \/ FsChange \/ PeerNext \/ Finished

\* Only the handler is fair: its goroutine is scheduled, and its reads and
\* writes carry deadlines, so each of them returns (SrvIdle, SrvWriteFails and
\* SrvDrainEnds stand for the deadlines).  Nothing is assumed of the peer, nor of
\* who may open the other end of a FIFO.
Spec == Init /\ [][Next]_vars /\ WF_vars(ServerNext)

\* The same handler facing a peer that, while its socket is open, keeps reading
\* what it is sent.
SpecReader == Spec /\ WF_vars(PeerRead)

-----------------------------------------------------------------------------
(* Properties. *)

\* Types of the transport and the handler.
TypeOK == HandlerType

\* What the k-th answered frame of the peer got: its own stream, and 400 if and
\* only if it was not an acceptable request.
Acceptable(f) ==
    f.type = "REQUEST" /\ f.flags = EndStream /\ f.path \in Paths \ BadPaths
Answered(f) == Verdict(f) = "frame" /\ f.type # "ERROR"
Answers(f, g) ==
    /\ g.stream = f.stream
    /\ g.status = 400 <=> ~Acceptable(f)

\* The peer's frames that have been taken and ask for an answer, the answers that
\* have been sent, and the place of one of them in its row.
Asked == {i \in 1..pos["server"] : Answered(FromPeer[i])}
Given == {i \in 1..Len(Out) : Out[i].type = "RESPONSE"}
Place(S, i) == Cardinality({j \in S : j <= i})

\* Each answer is for the frame with the same place in its own row.
EachForItsOwn ==
    \A g \in Given : \E a \in Asked :
        Place(Asked, a) = Place(Given, g) /\ Answers(FromPeer[a], Out[g])

\* Pipelined frames are answered in order, each at most once and each on its
\* own stream; when the handler is ready to read again, all of them have been.
AnsweredInOrder ==
    /\ EachForItsOwn
    /\ spc = "read" /\ ~closed["client"] => Cardinality(Given) = Cardinality(Asked)

\* Once an ERROR of the peer has been taken from the connection, whole or
\* oversized, nothing more is sent: errors are never answered.
PeerErrorTaken == \E i \in 1..pos["server"] : FromPeer[i].type = "ERROR"
ErrorNeverAnswered == [][PeerErrorTaken => Out' = Out]_vars

ReportOut == Out # <<>> /\ Last(Out).type = "ERROR" /\ Last(Out).shape = "whole"

\* fail and drain: a report the server managed to send is not destroyed by a
\* reset of its own making, unless the peer sent more than drain accepts.
\* (Without deadlines and Server.Close, which may cut the drain short.)
HandlerReportSurvives == ReportOut /\ rst["client"] => drained = MaxDrain

\* Why answers keep their order: the handler is one answer behind from the frame
\* it took last until it has sent the RESPONSE, and level otherwise.
Owing == spc \in {"blocked", "stat"} \/ (spc = "send" /\ reply.type = "RESPONSE")

AnswerInv ==
    LET last == FromPeer[pos["server"]] IN
    /\ AnsweredInOrder
    /\ Owing => pos["server"] \in Asked
    /\ spc \in {"blocked", "stat"} => Acceptable(last) /\ file.stream = last.stream
    /\ spc = "send" /\ reply.type = "RESPONSE" => Answers(last, reply)
    /\ ~closed["client"] /\ ~(closed["server"] /\ spc = "send") =>
        /\ Owing => Cardinality(Asked) = Cardinality(Given) + 1
        /\ spc = "body" \/ (spc = "send" /\ reply.type = "DATA") =>
            Cardinality(Asked) = Cardinality(Given)

\* Why a report survives: drain goes on until nothing more can come.
ReportKept ==
    /\ closed["server"] => spc = "done"
    /\ ReportOut =>
        \/ spc = "drain"
        \/ spc \in {"close", "done"} /\ drained = MaxDrain
        \/ /\ spc \in {"close", "done"} /\ ~rst["client"]
           /\ closed["client"] \/ (fin["client"] /\ pos["server"] = Len(FromPeer))

\* A peer that sends nothing more cannot hold a handler, wherever it stops and
\* whatever it reads: the handler ends, or one more frame comes and renews its
\* deadline (so there is no bound on a peer that goes on sending), or it waits in
\* os.Open of a FIFO, which has none.
HandlerEnds ==
    \A n \in 0..MaxPeerFrames :
        Len(FromPeer) = n ~> Len(FromPeer) > n \/ spc \in {"blocked", "done"}

\* No deadline is needed to serve a peer that keeps reading: every whole frame it
\* sends is taken, or the connection ends; pipelining cannot make both sides
\* wait for each other.
ReaderIsServed ==
    \A k \in 1..MaxPeerFrames :
        Len(FromPeer) >= k /\ FromPeer[k].shape # "cut" ~> pos["server"] >= k \/ spc = "done"
=============================================================================
