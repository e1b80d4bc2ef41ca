------------------------------ MODULE MCWiretap ------------------------------
(***************************************************************************)
(* Wiretap on small streams: anything from the server, cut anywhere; or two  *)
(* frames, an oversized or a cut one, in both directions at once.            *)
(***************************************************************************)
EXTENDS Wiretap, MCWire

TapStreams ==
    { Encode(2, 0, 1, <<7, 2>>) \o Encode(9, 1, 0, <<3>>),
      Encode(4, 0, 0, <<>>) \o <<MaxPayload + 1, 9, 0, 1, 6, 6>>,
      SubSeq(Encode(3, 1, 1, <<9, 9>>), 1, 5) }

MCTraffic == (CutStreams \X {<<>>}) \cup (TapStreams \X TapStreams)
=============================================================================
