------------------------------- MODULE MCChaos -------------------------------
(***************************************************************************)
(* Chaos on the small streams of MCWire.                                     *)
(***************************************************************************)
EXTENDS Chaos, MCWire

\* What inject makes up: unknown types, any flags and streams.
MadeUp == { Encode(9, 1, 0, <<>>), Encode(5, 0, 1, <<3, 1>>) }

\* Streams the server ends between two frames, or that stop being frames.
TidyStreams == Joined({ Encode(2, 0, 1, <<7, 2>>), Encode(3, 1, 1, <<9>>), Encode(4, 0, 0, <<>>),
                        Encode(9, 0, 5, <<>>), <<MaxPayload + 1, 9, 0, 1, 6>> }, 2)

\* They are all Tidy.
ASSUME TidyAssumption == \A s \in TidyStreams : Meaning(s).ending # "truncated"

\* A body of two bytes, ended by the server anywhere.
TornStreams == Cuts({ Encode(2, 0, 1, <<>>) \o Encode(3, 1, 1, <<9, 8>>) })
=============================================================================
