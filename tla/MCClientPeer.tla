---------------------------- MODULE MCClientPeer ----------------------------
(***************************************************************************)
(* Instances of ClientPeer for TLC: what the server may send.               *)
(***************************************************************************)
EXTENDS ClientPeer

CONSTANTS p1, pLong, i1

B(k) == <<i1, k>>
Over(f) == [f EXCEPT !.shape = "oversize"]

\* One frame of every kind the client tells apart.
EveryKind ==
    { Response(1, 200, 1, {}),
      Response(1, 404, 0, EndStream),
      [Response(1, 200, 1, {}) EXCEPT !.status = 0],
      Data(1, <<B(1)>>, EndStream),
      Data(0, <<>>, {}),
      Cut(Response(1, 200, 0, EndStream)),
      Error(CodeProtocolError),
      Over(Error(CodeProtocolError)),
      Over(Blank),
      Blank,
      Request(1, p1) }

\* Answers on two streams, some with lengths that do not fit: repeated, missing,
\* in disagreement or not a number.
Answering ==
    { Response(1, 200, 2, {}),
      Response(2, 404, 0, EndStream),
      [Response(1, 200, 1, {}) EXCEPT !.lengths = <<2, 1>>],
      [Response(1, 200, 1, {}) EXCEPT !.lengths = <<>>],
      [Response(1, 200, 1, {}) EXCEPT !.lengths = <<-1>>],
      Data(1, <<B(1)>>, {}),
      Data(1, <<B(2)>>, EndStream),
      Data(2, <<B(2)>>, EndStream),
      Over(Blank),
      Blank }

AnyAnswer == EveryKind \cup Answering
=============================================================================
