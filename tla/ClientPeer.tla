----------------------------- MODULE ClientPeer -----------------------------
(***************************************************************************)
(* client.Client facing an arbitrary server: one that may answer on the     *)
(* wrong stream, out of turn, too early or never, announce lengths it does  *)
(* not keep, stop inside a frame, half-close, close, or never read.         *)
(***************************************************************************)
EXTENDS Caller

CONSTANTS
    PeerFrames,     \* the frames the server may send
    MaxPeerFrames   \* how many it sends at most (a bound of the model)

ASSUME PeerAssumption ==
    /\ PeerFrames \subseteq Frame
    /\ MaxPeerFrames \in Nat

vars == <<tcp, clientVars>>

Init == TransportInit /\ ClientInit

-----------------------------------------------------------------------------
(* The server. *)

PeerSend ==
    /\ Len(Received) < MaxPeerFrames
    /\ Len(Received) > 0 => Last(Received).shape # "cut"
    /\ \E f \in PeerFrames : Send("server", f)
    /\ UNCHANGED <<clientVars, pos, fin, closed>>

PeerRead ==
    /\ ~closed["server"] /\ Readable("server")
    /\ Consume("server")
    /\ UNCHANGED <<clientVars, wire, fin, closed, rst>>

PeerShut ==
    /\ ~fin["server"]
    /\ HalfClose("server")
    /\ UNCHANGED <<clientVars, wire, pos, closed, rst>>

PeerClose ==
    /\ ~closed["server"]
    /\ CloseSocket("server")
    /\ UNCHANGED <<clientVars, wire, pos>>

PeerNext == PeerSend \/ PeerRead \/ PeerShut \/ PeerClose

\* The caller has made all its calls and closed the client.
Finished ==
    /\ cpc = "idle" /\ Len(results) = MaxGets /\ closed["client"]
    /\ UNCHANGED vars

Next == ClientNext \/ PeerNext \/ Finished

\* A Get that was called runs on: its goroutine is scheduled and its reads and
\* writes carry deadlines.  Whether Get or Close is called at all, and what the
\* server does, is left open.
Spec == Init /\ [][Next]_vars /\ WF_vars(GetStep)

-----------------------------------------------------------------------------
(* Properties. *)

\* Types of the transport and the client.
TypeOK == CallerType

\* Nothing is sent any more once an ERROR of the server was taken, whole or
\* oversized, or once the client's own report or a torn frame is out: errors are
\* never answered, and nothing follows them (readFrame, expect, sendError, fail).
SilentAfterError == [][ErrorTaken \/ EndSent => Sent' = Sent]_vars
=============================================================================
