------------------------------- MODULE MCWire -------------------------------
(***************************************************************************)
(* Small streams for the byte-level modules: every sequence of up to three   *)
(* frames out of a few, or of fewer with one among them that is refused,     *)
(* whole or cut anywhere.                                                    *)
(***************************************************************************)
EXTENDS WireBytes

Some == { Encode(2, 0, 1, <<7, 2>>),      \* RESPONSE
          Encode(3, 1, 1, <<9>>),         \* DATA, END_STREAM
          Encode(4, 0, 0, <<>>),          \* ERROR, empty
          Encode(9, 1, 0, <<2, 3>>),      \* an unknown type with a payload
          Encode(9, 0, 5, <<>>) }         \* and one without
Refused == { Encode(3, 0, 0, <<1>>),      \* stream zero
             Encode(1, 1, 1, <<5>>),      \* a REQUEST, from a server
             <<MaxPayload + 1, 4, 0, 0>>, \* more declared than allowed
             <<MaxPayload + 1, 9, 0, 1, 6>> }

Joined(S, n) == { FlattenSeq(q) : q \in UNION { [1..m -> S] : m \in 0..n } }
Cuts(S) == UNION { { SubSeq(s, 1, k) : k \in 0..Len(s) } : s \in S }

CutStreams ==
    Cuts(Joined(Some, 3) \cup
         { a \o r \o b : a \in Joined(Some, 1), r \in Refused, b \in Joined(Some, 1) })
=============================================================================
