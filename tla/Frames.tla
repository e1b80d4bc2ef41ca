------------------------------- MODULE Frames -------------------------------
(***************************************************************************)
(* What crosses a BHTTP/1 connection, at the granularity of frames, and the *)
(* rules of internal/frame and internal/protocol that decide what a frame   *)
(* means to its receiver.  Payload bytes are abstracted: a request carries  *)
(* a path (or Malformed when DecodeRequest would refuse the payload), a     *)
(* response a status and the values of its content-length headers, a DATA   *)
(* frame a sequence of bytes, each byte being its place <<file, offset>> in *)
(* the file it was read from.                                               *)
(***************************************************************************)
EXTENDS Integers, Sequences

CONSTANTS
    MaxPayload,     \* frame.MaxPayload (16384 in the code)
    MaxStreamID,    \* largest stream id (0xFFFFFFFF in the code)
    Paths,          \* request paths the model uses
    BadPaths,       \* the paths resolver.checkPath rejects
    Unbuildable,    \* the paths Request.Encode refuses to build
    Inodes,         \* regular files that can appear under the document root
    Malformed,      \* path of a request payload that does not decode
    None            \* absence of a file

ASSUME FramesAssumption ==
    /\ MaxPayload \in Nat \ {0}
    /\ MaxStreamID \in Nat \ {0}
    /\ BadPaths \subseteq Paths
    /\ Unbuildable \subseteq Paths
    /\ Malformed \notin Paths
    /\ None \notin Inodes

KnownTypes == {"REQUEST", "RESPONSE", "DATA", "ERROR"}

\* Type.needsStream: only ERROR frames may use stream zero.
NeedsStream(t) == t \in {"REQUEST", "RESPONSE", "DATA"}

EndStream == {"END_STREAM"}

Byte == Inodes \X Nat

\* shape: "whole" is a frame that arrived entirely, "cut" one whose bytes stop
\* before its end, "oversize" one whose header declares more than MaxPayload.
Frame == [type    : KnownTypes \cup {"UNKNOWN"},
          shape   : {"whole", "cut", "oversize"},
          flags   : SUBSET {"END_STREAM", "UNDEFINED"},
          stream  : 0..MaxStreamID,
          path    : Paths \cup {Malformed},
          status  : Nat,
          lengths : Seq(Int),
          data    : Seq(Byte)]

Whole(type, flags, id, p, status, lengths, data) ==
    [type |-> type, shape |-> "whole", flags |-> flags, stream |-> id,
     path |-> p, status |-> status, lengths |-> lengths, data |-> data]

\* A frame of a type nobody knows.
Blank == Whole("UNKNOWN", {}, 0, Malformed, 0, <<>>, <<>>)

Request(id, p) == Whole("REQUEST", EndStream, id, p, 0, <<>>, <<>>)

\* A response announcing n body bytes.  Status 0 stands for a response payload
\* that DecodeResponse refuses.
Response(id, status, n, flags) ==
    Whole("RESPONSE", flags, id, Malformed, status, <<n>>, <<>>)

Data(id, bytes, flags) == Whole("DATA", flags, id, Malformed, 0, <<>>, bytes)

\* The code of a connection error travels in the status field.
CodeFrameTooLarge == 1
CodeInvalidStreamID == 2
CodeProtocolError == 3
Error(code) == Whole("ERROR", {}, 0, Malformed, code, <<>>, <<>>)

\* What is left on the wire of a frame whose write was interrupted.
Cut(f) == [f EXCEPT !.shape = "cut"]

\* frame.Encode refuses to build what a conforming peer would have to reject.
Encodable(f) ==
    /\ Len(f.data) <= MaxPayload
    /\ NeedsStream(f.type) => f.stream # 0

\* The verdict of frame.Read on the next frame, in the order the code checks:
\* the declared length first, for every type; then unknown types are stepped
\* over; then the payload must arrive; then stream zero is refused.
Verdict(f) ==
    IF f.shape = "oversize" THEN "oversize"
    ELSE IF f.shape = "cut" THEN "truncated"
    ELSE IF f.type \notin KnownTypes THEN "skip"
    ELSE IF NeedsStream(f.type) /\ f.stream = 0 THEN "streamzero"
    ELSE "frame"

\* Bug: an oversized ERROR is answered like any other frame.
ReportedAlways(f) == TRUE

\* Nobody answers an error frame, so an oversized one just ends things.
Reported(f) == f.type # "ERROR"

-----------------------------------------------------------------------------
(* What a call of Client.Get returns. *)

\* kind: "ok" has a status and a body; "unbuilt" is a request that could not be
\* encoded; "remote" a RemoteError; "failed" any other failure; "broken"
\* ErrBroken.
Result == [id : 0..MaxStreamID, path : Paths, kind : {"ok", "unbuilt", "remote", "failed", "broken"},
           status : Nat, body : Seq(Byte)]

Outcome(id, p, kind, status, body) ==
    [id |-> id, path |-> p, kind |-> kind, status |-> status, body |-> body]
=============================================================================
