------------------------------- MODULE Caller --------------------------------
(***************************************************************************)
(* What client.Client promises to its caller and to the connection, whoever *)
(* is at the other end, and the invariants by which it keeps these promises.*)
(***************************************************************************)
EXTENDS ClientConn, SequencesExt

Sent == wire["server"]      \* what the client sent
Received == wire["client"]  \* what was sent to it

\* Types of the transport and the client; a running Get has a path and a client
\* that is not broken, an exchange an open socket, and a full drain is over.
CallerType ==
    /\ TransportType
    /\ ClientType
    /\ cpc # "idle" => cur.path \in Paths /\ ~broken
    /\ cpc \in {"response", "data", "report", "drain"} => ~closed["client"]
    /\ cdrained = MaxDrain => cpc = "fail" \/ broken

-----------------------------------------------------------------------------
(* Answers. *)

\* A frame takes body from its first a bytes to its first b bytes.
Adds(f, body, a, b) ==
    IF Verdict(f) = "skip" THEN b = a
    ELSE b = a + Len(f.data) /\ \A m \in 1..Len(f.data) : body[a + m] = f.data[m]

\* body is the bytes of the DATA frames among s[j + 1], ..., s[l]: at[k] of them
\* have arrived with frame k.
Gathered(s, j, l, body) ==
    \E at \in [j..l -> 0..Len(body)] :
        /\ at[j] = 0 /\ at[l] = Len(body)
        /\ \A k \in (j + 1)..l : Adds(s[k], body, at[k - 1], at[k])

\* Frames j to l of s are a RESPONSE of stream id and DATA frames of that stream,
\* END_STREAM on the last at most, with frames of unknown types in between.
Stretch(s, j, l, id) ==
    /\ s[j].type = "RESPONSE"
    /\ \A k \in j..l :
        \/ k > j /\ Verdict(s[k]) = "skip"
        \/ /\ Verdict(s[k]) = "frame" /\ s[k].stream = id
           /\ k > j => s[k].type = "DATA"
           /\ "END_STREAM" \in s[k].flags => k = l

\* They are one complete response, and r returned it.
Exchange(s, j, l, r) ==
    /\ Stretch(s, j, l, r.id)
    /\ Verdict(s[l]) = "frame" /\ "END_STREAM" \in s[l].flags
    /\ s[j].status = r.status /\ r.status # 0
    /\ Gathered(s, j, l, r.body)
    /\ \A i \in DOMAIN s[j].lengths : s[j].lengths[i] = Len(r.body)

\* A Get that succeeds returns one complete response of its own stream: one
\* RESPONSE, then DATA frames of that stream only, END_STREAM on the last frame
\* and on no earlier one, and every content-length equal to the bytes handed to
\* the caller.  Only frames of unknown types may stand in between.
OnlyWholeAnswers ==
    \A n \in DOMAIN results : results[n].kind = "ok" =>
        \E j \in 1..pos["client"] : \E l \in j..pos["client"] :
            Exchange(Received, j, l, results[n])

\* Why: inside a body, what has been taken since the RESPONSE is such a stretch
\* without its end, and its bytes are the ones the caller's writer has got.
Gathering ==
    \E j \in 1..pos["client"] :
        /\ Stretch(Received, j, pos["client"], cur.id)
        /\ Verdict(Received[pos["client"]]) = "skip"
           \/ "END_STREAM" \notin Received[pos["client"]].flags
        /\ Received[j].status = got.status /\ got.status # 0
        /\ Received[j].lengths = got.lengths
        /\ Gathered(Received, j, pos["client"], got.body)

AnswersInv == OnlyWholeAnswers /\ (cpc = "data" => Gathering)

-----------------------------------------------------------------------------
(* Failures, stream ids, errors. *)

\* A failed exchange ends the client for good: every later Get returns
\* ErrBroken, no Get before it did, and the connection is closed.
BrokenForGood ==
    /\ \A i, j \in DOMAIN results : i < j =>
        /\ results[i].kind \in {"failed", "remote"} => results[j].kind = "broken"
        /\ results[i].kind = "broken" => results[j].kind = "broken"
    /\ results # <<>> => results[1].kind # "broken"
    /\ broken => closed["client"]

\* Why: an unbroken client has seen no failure.
BrokenInv ==
    /\ BrokenForGood
    /\ ~broken => \A i \in DOMAIN results : results[i].kind \in {"ok", "unbuilt"}
    /\ broken => results # <<>>

Requests == {k \in DOMAIN Sent : Sent[k].type = "REQUEST"}

\* Stream ids on a connection are never zero, never repeat and only grow, also
\* at the largest id, where the client must stop rather than wrap around.
IdsOnlyGrow ==
    /\ \A i \in Requests : Sent[i].stream > 0
    /\ \A i, j \in Requests : i < j => Sent[i].stream < Sent[j].stream

\* Why: next is ahead of every id that was used, until there is none left.
IdsInv ==
    /\ IdsOnlyGrow
    /\ \A k \in Requests : Sent[k].stream < next \/ exhausted
    /\ cpc = "send" =>
        /\ cur.id > 0 /\ (cur.id < next \/ exhausted)
        /\ \A k \in Requests : Sent[k].stream < cur.id

\* An ERROR of the server was taken; the client's own report or a torn frame is
\* out.  Either is the end.
ErrorTaken == \E i \in 1..pos["client"] : Received[i].type = "ERROR"
EndSent == \E i \in DOMAIN Sent : Sent[i].shape # "whole" \/ Sent[i].type = "ERROR"

EndInv == ErrorTaken \/ EndSent => broken \/ cpc \in {"fail", "drain"}

ReportSent == Sent # <<>> /\ Last(Sent).type = "ERROR" /\ Last(Sent).shape = "whole"

\* A report that went out is not destroyed by a reset of the client's own
\* making unless the server sent more than sendError is willing to discard.
\* (Without deadlines, which may cut the drain short.)
ReportSurvives == ReportSent /\ rst["server"] => cdrained = MaxDrain

\* Why: the drain goes on until nothing more can come.
ReportDrained ==
    ReportSent =>
        \/ cpc = "drain"
        \/ (cpc = "fail" \/ broken) /\ cdrained = MaxDrain
        \/ /\ cpc = "fail" \/ broken
           /\ ~rst["server"]
           /\ closed["server"] \/ (fin["server"] /\ pos["client"] = Len(Received))
=============================================================================
