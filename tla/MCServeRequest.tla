--------------------------- MODULE MCServeRequest ---------------------------
(***************************************************************************)
(* ServeRequest for TLC, with bytes of six values: 0 is no text, 1 a slash,  *)
(* 2 and 3 the digits (and letters) of a system of base two, 4 a dot, 5 a    *)
(* character no path may have.                                               *)
(***************************************************************************)
EXTENDS ServeRequest

\* content-type, content-length, server
MCTable == << <<2>>, <<3>>, <<2, 2>> >>
MCDigits == <<2, 3>>
MCScaled == (200 :> 12) @@ (400 :> 14) @@ (404 :> 20) @@ (500 :> 22)
MCSizes == <<0, MaxInt, 2, 3>>
MCDevices == {<<3, 2>>}

\* Two names, the second that of an index.
a == <<2>>
i == <<3>>
MCUp == <<4, 4>>

-----------------------------------------------------------------------------
(* Messages and payloads *)

Custom == <<3, 4>>
Heads == { <<>>, <<Header(MCTable[1], <<0>>)>>, <<Header(Custom, <<>>)>>,
           <<Header(Custom, <<1, 5>>), Header(MCTable[2], <<3>>)>>,
           <<Header(MCTable[3], [k \in 1..Base |-> 2])>> }
Full(n) == [k \in 1..n |-> Header(MCTable[1], <<>>)]
OtherHeads == { Full(MaxHeaders), Full(MaxHeaders + 1), <<Header(<<5>>, <<>>)>>, <<Header(<<>>, <<>>)>>,
                <<Header([k \in 1..(MaxCustomNameLen + 1) |-> 2], <<>>)>>,
                <<Header(Custom, [k \in 1..MaxMessage |-> 1])>> }

MCAsked == { <<>>, <<1, 0>>, <<1, 2, 2, 2, 2, 2>>, <<1>>, <<1, 2>>, <<1, 2, 1>>, <<1, 3>>, <<1, 2, 1, 3>>, <<1, 1>>, <<1, 5>>, <<1, 4>>,
             <<1, 3, 2>>, <<2>>, <<1, 2, 1, 1, 3>> }

MCMessages ==
    {Message("request", n, <<1>>, hs) : n \in 1..2, hs \in Heads \cup OtherHeads}
    \cup {Message("response", n, <<>>, hs) : n \in {9, 10, 29, 30}, hs \in Heads \cup OtherHeads}
    \cup {Message("error", n, [k \in 1..l |-> k % 3], <<>>) : n \in {0, 3, 30}, l \in {0, 2, MaxMessage - 4, MaxMessage - 3}}

\* Near misses: cut short, with one cell more, with one cell changed.
Near(p) ==
    {SubSeq(p, 1, k) : k \in 0..Len(p)} \cup {Append(p, c) : c \in {0, 3}}
    \cup {[p EXCEPT ![k] = c] : k \in DOMAIN p, c \in Bytes}

MCPayloads ==
    UNION { {<<m.kind, p>> : p \in Near(Encoded(m))} :
            m \in {Message("request", 1, <<1, 2>>, hs) : hs \in Heads}
                  \cup {Message("response", 12, <<>>, hs) : hs \in Heads}
                  \cup {Message("error", 3, <<2, 2>>, <<>>)} }

-----------------------------------------------------------------------------
(* Trees *)

Places == { <<>>, <<a>>, <<i>>, <<a, i>>, <<MCUp>>, <<MCUp, a>> }
File(n) == Node("file", <<>>, n)
Dir == Node("dir", <<>>, 0)
Link(to) == Node("link", to, 0)
Plain(k) == Node(k, <<>>, 0)

MCTrees ==
    { [p \in Places |-> CASE p = <<>> -> Dir [] p = <<MCUp>> -> Dir [] p = <<MCUp, a>> -> File(4)
                          [] p = <<a>> -> x [] p = <<i>> -> y [] p = <<a, i>> -> z] :
        x \in {Missing, File(1), Dir, Link(<<i>>), Link(<<a>>), Link(<<MCUp, a>>), Plain("fifo"), Plain("locked")},
        y \in {Missing, File(2), Link(<<a>>), Link(<<>>), Plain("sealed")},
        z \in {Missing, File(3), Link(<<i>>), Link(<<a>>), Link(<<MCUp>>)} }

\* Nothing is inside what is no directory.
Sound == { t \in MCTrees : IsDir(t[<<a>>]) \/ t[<<a, i>>] = Missing }

MCBare == CHOOSE t \in Sound : t[<<a>>] = Missing /\ t[<<i>>] = File(2)

MCReplacements == { Missing, File(1), Dir, Link(<<i>>), Link(<<a>>), Link(<<MCUp, a>>) }
=============================================================================
