---------------------------- MODULE MCServerPeer ----------------------------
(***************************************************************************)
(* Instances of ServerPeer for TLC: what the peer may send.                 *)
(***************************************************************************)
EXTENDS ServerPeer

CONSTANTS p1, pBad, i1, i2

Ask(id, p) == Request(id, p)

\* One frame of every kind the handler tells apart.
EveryKind ==
    { Ask(1, p1),
      Ask(2, pBad),
      [Ask(3, p1) EXCEPT !.flags = {"END_STREAM", "UNDEFINED"}],
      [Ask(3, p1) EXCEPT !.path = Malformed],
      [Ask(1, p1) EXCEPT !.stream = 0],
      Cut(Ask(1, p1)),
      Data(2, <<>>, {}),
      Error(CodeProtocolError),
      [Error(CodeProtocolError) EXCEPT !.shape = "oversize"],
      [Blank EXCEPT !.shape = "oversize"],
      Blank }

\* A peer whose frames lead to a report, or follow one.
Provoking ==
    { Ask(1, p1), [Blank EXCEPT !.shape = "oversize"], Blank }
=============================================================================
