----------------------------- MODULE Transport -----------------------------
(***************************************************************************)
(* One TCP connection between a client and a server, as the two programs   *)
(* use it (external: the operating system).  wire[e] is everything ever     *)
(* sent to end e while it was open and pos[e] how many of those frames e    *)
(* has taken; the log never shrinks, so it is also the history of what was  *)
(* sent.                                                                    *)
(* Reads and writes inside a frame are atomic here; how frames are cut out  *)
(* of arbitrary pieces is the subject of FrameReader.                       *)
(***************************************************************************)
EXTENDS Frames

CONSTANTS
    Window,   \* frames in flight one way before a writer blocks
    MaxDrain, \* drainBytes of either program, in frames
    Faults    \* which faults the environment may produce, out of
              \* {"timeout", "write", "io", "drop", "fifo"}

ASSUME TransportAssumption ==
    /\ Window \in Nat \ {0}
    /\ MaxDrain \in Nat \ {0}
    /\ Faults \subseteq {"timeout", "write", "io", "drop", "fifo"}

VARIABLES
    wire,     \* wire[e]: frames written towards end e, in order
    pos,      \* pos[e]: how many of them e has consumed
    fin,      \* fin[e]: e has shut down its write side
    closed,   \* closed[e]: e has closed its socket
    rst       \* rst[e]: a reset has reached e

tcp == <<wire, pos, fin, closed, rst>>

Ends == {"client", "server"}
Peer(e) == IF e = "client" THEN "server" ELSE "client"

TransportType ==
    /\ wire \in [Ends -> Seq(Frame)]
    /\ pos \in [Ends -> Nat]
    /\ \A e \in Ends : pos[e] <= Len(wire[e])
    /\ fin \in [Ends -> BOOLEAN]
    /\ closed \in [Ends -> BOOLEAN]
    /\ rst \in [Ends -> BOOLEAN]

TransportInit ==
    /\ wire = [e \in Ends |-> <<>>]
    /\ pos = [e \in Ends |-> 0]
    /\ fin = [e \in Ends |-> FALSE]
    /\ closed = [e \in Ends |-> FALSE]
    /\ rst = [e \in Ends |-> FALSE]

InFlight(e) == Len(wire[e]) - pos[e]
\* Frames that were already in e's bufio.Reader can still be taken after e's
\* socket was closed under it.
Readable(e) == pos[e] < Len(wire[e])
NextFrame(e) == wire[e][pos[e] + 1]
Consume(e) == pos' = [pos EXCEPT ![e] = @ + 1]

\* No more bytes will come: the peer has shut its side and everything before has
\* been read, or a reset arrived (what was still unread may be lost), or e itself
\* was closed.
InputEnds(e) ==
    \/ fin[Peer(e)] /\ pos[e] = Len(wire[e])
    \/ rst[e]
    \/ closed[e]

\* Why frame.Read can return an error other than a deadline: the same, or the
\* input ends inside the next frame.
ReadEnds(e) ==
    \/ InputEnds(e)
    \/ fin[Peer(e)] /\ Readable(e) /\ Verdict(NextFrame(e)) = "truncated"

\* A write returns once the bytes fit in the buffers between the two programs.
CanSend(e) ==
    /\ ~closed[e] /\ ~fin[e] /\ ~rst[e]
    /\ closed[Peer(e)] \/ InFlight(Peer(e)) < Window

\* Bytes for a socket that is already closed are lost and may be answered with
\* a reset.
Send(e, f) ==
    /\ CanSend(e)
    /\ IF closed[Peer(e)]
       THEN /\ wire' = wire
            /\ \/ rst' = rst
               \/ rst' = [rst EXCEPT ![e] = TRUE]
       ELSE /\ wire' = [wire EXCEPT ![Peer(e)] = Append(@, f)]
            /\ rst' = rst

\* A write fails because of a reset, because the connection was closed under
\* it, or because its deadline passed; some of the frame may be out by then.
SendFails(e, f) ==
    /\ \/ rst[e] \/ closed[e] \/ fin[e]
       \/ "write" \in Faults
       \/ ~Encodable(f)
    /\ \/ wire' = wire
       \/ /\ ~closed[e] /\ ~fin[e] /\ ~rst[e] /\ Encodable(f)
          /\ ~closed[Peer(e)]
          /\ wire' = [wire EXCEPT ![Peer(e)] = Append(@, Cut(f))]

\* Bug: the limit is noticed one frame late.
DrainOverLate(n) == n = MaxDrain + 1

\* The io.LimitReader of a drain is used up after n frames.
DrainOver(n) == n = MaxDrain

HalfClose(e) == fin' = [fin EXCEPT ![e] = TRUE]

\* Closing with unread input can reset a peer that is still there, unless that
\* input had already been read into the program's own buffer.
CloseSocket(e) ==
    /\ closed' = [closed EXCEPT ![e] = TRUE]
    /\ fin' = [fin EXCEPT ![e] = TRUE]
    /\ \/ rst' = rst
       \/ /\ ~closed[e] /\ ~closed[Peer(e)] /\ InFlight(e) > 0
          /\ rst' = [rst EXCEPT ![Peer(e)] = TRUE]

\* A reset always comes from an end that has closed.
ResetsFromClosed == \A e \in Ends : rst[e] => closed[Peer(e)]
=============================================================================
