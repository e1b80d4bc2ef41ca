---------------------------- MODULE ServeRequest ----------------------------
(***************************************************************************)
(* One request through serveRequest, in bytes: the payload of a REQUEST      *)
(* frame is decoded, its path is resolved while the tree may change, the     *)
(* answer is encoded, and the client decodes it.  Payloads that are no       *)
(* requests (responses and errors a client may be sent) are decoded only.    *)
(***************************************************************************)
EXTENDS Codec, Resolver

CONSTANTS
    Asked,        \* the paths a client may ask for
    Trees,        \* the trees such a request may meet
    Messages,     \* other messages that programs may try to encode
    Payloads,     \* other payloads that may arrive: <<kind, payload>>
    Bare,         \* the tree that those meet
    Replacements, \* what may appear in the tree while it is served
    Sizes,        \* Sizes[id]: the size of file id
    MaxChanges,   \* how often the tree changes (a bound of the model)
    Scaled        \* Scaled[s]: the number of two cells that stands for status s

VARIABLES
    built,    \* the message the payload was encoded from, or NoMessage
    trees     \* history: the trees there have been during the request

vars == <<codecVars, resolverVars, built, trees>>

NoMessage == Message("none", 0, <<>>, <<>>)

Get(p) == Message("request", MethodGet, p, <<>>)

Init ==
    \E t \in Trees \cup {Bare} :
        /\ ResolverInit(t) /\ trees = <<t>>
        /\ \/ /\ built \in {m \in {Get(p) : p \in Asked} : Buildable(m)}
              /\ CodecInit("request", Encoded(built))
           \/ /\ t = Bare
              /\ built \in {m \in Messages : Buildable(m)}
              /\ CodecInit(built.kind, Encoded(built))
           \/ /\ t = Bare /\ built = NoMessage
              /\ \E p \in Payloads : CodecInit(p[1], p[2])

DecodeStep ==
    /\ Decode
    /\ UNCHANGED <<resolverVars, built, trees>>

\* A request that does not decode is rejected; one that does is resolved.
Serve ==
    /\ kind = "request" /\ Decoded /\ rpc = "idle"
    /\ IF stage = "ok"
       THEN rpc' = "check" /\ want' = msg.text /\ answer' = answer
       ELSE End(Answer(400)) /\ want' = want
    /\ UNCHANGED <<codecVars, tree, walk, target, handle, built, trees>>

\* sendStatus and sendFile: the head of the response.
StatusHead(status) ==
    Message("response", Scaled[status], <<>>,
            << Header(ContentLength, <<Digits[1]>>), Header(ServerHeader, <<Digits[2]>>) >>)
FileHead(size) ==
    Message("response", Scaled[200], <<>>,
            << Header(ContentType, <<Digits[1]>>), Header(ContentLength, FormatInt(size)),
               Header(ServerHeader, <<Digits[2]>>) >>)
HeadOf(a) == IF a.status = 200 THEN FileHead(Sizes[a.file.id]) ELSE StatusHead(a.status)

\* The response goes out and the client decodes it; the call of open is over.
Respond ==
    /\ rpc = "done"
    /\ built' = HeadOf(answer)
    /\ DecodeAgain("response", Encoded(built'))
    /\ rpc' = "sent"
    /\ want' = <<>> /\ walk' = NoWalk /\ target' = <<>> /\ handle' = Missing /\ trees' = <<>>
    /\ UNCHANGED <<tree, answer>>

OpenFile == OpenStep /\ UNCHANGED <<codecVars, built, trees>>
OtherEnd == FifoWriter /\ UNCHANGED <<codecVars, built, trees>>

Changing ==
    /\ rpc \in {"lstat", "readlink", "stat", "open"}
    /\ Len(trees) <= MaxChanges
    /\ TreeChange(Replacements)
    /\ trees' = Append(trees, tree')
    /\ UNCHANGED <<codecVars, built>>

Finished == Decoded /\ kind # "request" /\ UNCHANGED vars

Next == DecodeStep \/ Serve \/ OpenFile \/ OtherEnd \/ Respond \/ Changing \/ Finished

\* The handler runs on; nobody has to open the other end of a FIFO.
Spec == Init /\ [][Next]_vars /\ WF_vars(DecodeStep \/ Serve \/ OpenFile \/ Respond)

-----------------------------------------------------------------------------
(* The reference for payloads: what they mean, by looking for every way to   *)
(* cut them up into fields.                                                  *)

Rest(s, i) == SubSeq(s, i, Len(s))
IsText16(t) == Len(t) >= 2 /\ Len(t) = 2 + t[1] * Base + t[2]

\* The ways to read s as one header; k is where its name ends.
Readings(s) ==
    { [id |-> s[1], name |-> SubSeq(s, 4, k), value |-> Rest(s, k + 3)] :
        k \in {j \in DOMAIN s : /\ IsText16(Rest(s, j + 1))
                                /\ IF s[1] = 0 THEN IsText16(SubSeq(s, 2, j)) ELSE j = 1} }

\* The ways to read s as headers, one after the other.
HeaderLists(s) ==
    LET from[i \in 1..(Len(s) + 1)] ==
        IF i = Len(s) + 1 THEN {<<>>}
        ELSE UNION { { <<h>> \o rest : h \in Readings(SubSeq(s, i, j)), rest \in from[j + 1] } :
                     j \in {k \in i..Len(s) : Readings(SubSeq(s, i, k)) # {}} }
    IN  from[1]

LegalHeader(k, h) ==
    h.id = 0 => /\ Len(h.name) \in 1..MaxCustomNameLen
                /\ k = "request" => ValidCustomName(h.name) /\ ~InTable(h.name)

\* A receiver sees the headers of known ids, and custom ones of their own name.
Visible(hs) ==
    LET shown == SelectSeq(hs, LAMBDA h : IF h.id = 0 THEN ~InTable(h.name) ELSE h.id \in DOMAIN Table)
    IN  [i \in DOMAIN shown |-> Header(IF shown[i].id = 0 THEN shown[i].name ELSE Table[shown[i].id],
                                       shown[i].value)]

\* The header lists that s, a count and headers, stands for.
Counted(k, s) ==
    IF s = <<>> THEN {}
    ELSE { Visible(hs) : hs \in {l \in HeaderLists(Tail(s)) :
                Len(l) = s[1] /\ \A i \in DOMAIN l : LegalHeader(k, l[i])} }

Meanings(k, p) ==
    CASE k = "request" ->
            UNION { { Message(k, p[1], SubSeq(p, 4, j), hs) : hs \in Counted(k, Rest(p, j + 1)) } :
                    j \in {i \in DOMAIN p : /\ p[1] = MethodGet /\ IsText16(SubSeq(p, 2, i))
                                            /\ PathFits(SubSeq(p, 4, i))} }
      [] k = "response" ->
            { Message(k, p[1] * Base + p[2], <<>>, hs) :
                hs \in IF Len(p) >= 2 /\ p[1] * Base + p[2] \in Statuses
                       THEN Counted(k, Rest(p, 3)) ELSE {} }
      [] k = "error" ->
            { Message(k, q[1] * Base + q[2], Rest(q, 5), <<>>) :
                q \in {r \in {p} : Len(r) >= 2 /\ IsText16(Rest(r, 3))} }

-----------------------------------------------------------------------------
(* The reference for paths.                                                  *)

Spelled(names) == FlattenSeq([i \in DOMAIN names |-> <<Slash>> \o names[i]])
Under(place) == place = <<>> \/ Head(place) # Up

\* The answer to want when the path is looked up in tree t, what it names is
\* looked at in tree s, the index, if that is a directory, looked up in tree v,
\* and the result opened in tree u: where it leads by then is not asked again.
Expected(t, s, v, u) ==
    LET names == Segments(want)
        legal == /\ want \in {Spelled(names), Spelled(names) \o <<Slash>>}
                 /\ Range(want) \cap Forbidden = {}
                 /\ \A i \in DOMAIN names : NameAllowed(names[i])
        named == Walk(t, names, TRUE)
        seen == Walk(s, named.done, TRUE)
        isDir == IsDir(At(s, seen.done))
        meant == IF isDir THEN Walk(v, Append(named.done, Index), TRUE) ELSE named
        found == Walk(u, meant.done, TRUE)
        node == At(u, found.done)
    IN  IF ~legal THEN Answer(400)
        ELSE IF named.err # "" THEN Miss(named)
        ELSE IF ~Under(named.done) THEN Answer(404)
        ELSE IF seen.err # "" THEN Miss(seen)
        ELSE IF ~isDir /\ TrailingSlash(want) THEN Answer(404)
        ELSE IF meant.err # "" THEN Miss(meant)
        ELSE IF ~Under(meant.done) THEN Answer(404)
        ELSE IF found.err # "" THEN Miss(found)
        ELSE CASE node.kind \in {"sealed", "locked"} -> Answer(500)
               [] node.kind = "file" -> [status |-> 200, file |-> node]
               [] OTHER -> Answer(404)

-----------------------------------------------------------------------------
(* Properties. *)

\* Decoding accepts exactly the payloads that can be cut up into the fields of
\* the message layout, and finds the message they stand for: headers of unknown
\* ids stepped over, custom ones never taken for well-known ones (readHeaders
\* and the three decoders, whatever counts and lengths a peer declares).
DecodesLayout == Decoded /\ rpc \in {"idle", "sent"} => (IF stage = "ok" THEN {msg} ELSE {}) = Meanings(kind, payload)

\* Whatever a program agrees to encode, at the limits of every count and length
\* too, the peer decodes to the same message; and the client reads the size of
\* the file, up to the largest, out of the response to its request.
RoundTrip ==
    Decoded /\ built # NoMessage =>
        /\ stage = "ok" /\ msg = built
        /\ rpc = "sent" =>
            Lengths(msg.headers) = <<IF answer.status = 200 THEN Sizes[answer.file.id] ELSE 0>>

Resolved == want # <<>> /\ rpc = "done"
Linked(t) == \E p \in DOMAIN t : t[p].kind = "link"

\* As long as no link is involved, or nothing changes, the several looks at the
\* tree give the answer of one moment of the request: files, directories and
\* their indexes may come and go meanwhile.
OneMoment ==
    Resolved /\ (Len(trees) = 1 \/ \A k \in DOMAIN trees : ~Linked(trees[k])) =>
        answer = StatFails \/ \E k \in DOMAIN trees : answer = Expected(trees[k], trees[k], trees[k], trees[k])

\* With links, too, when the tree changes once while the request runs: a file that
\* is served is a regular one, the one that a place led to when it was opened, and
\* at an earlier moment the path, or the index of the directory it named, had led
\* to that place under the root.  (With two changes, EvalSymlinks, which looks at
\* one name at a time, may find a way that never existed as a whole.)
FoundIsReal ==
    Resolved /\ answer.status = 200 /\ Len(trees) <= 2 =>
        \E k, m, l, j \in DOMAIN trees :
            /\ k <= m /\ m <= l /\ l <= j
            /\ answer = Expected(trees[k], trees[m], trees[l], trees[j])

\* A file that is served was somewhere under the root at some moment of the request
\* (SPEC.md 11.3: what a path resolves to must lie inside the root).  The path
\* is checked before it is opened, and may lead elsewhere by then.
ServedFromRoot ==
    Resolved /\ answer.status = 200 =>
        \E k \in DOMAIN trees : \E p \in DOMAIN trees[k] : Under(p) /\ trees[k][p] = answer.file

\* Every request is answered and the answer decoded, whatever its path names: SPEC.md
\* 11.4 answers what is no regular file with 404.  (The handler of a request for a
\* FIFO is in os.Open until somebody opens the other end.)
RequestEnds == <>(Decoded /\ kind # "request")
=============================================================================
