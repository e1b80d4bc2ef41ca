----------------------------- MODULE ClientConn -----------------------------
(***************************************************************************)
(* client.Client over one connection: Get and everything it calls, and      *)
(* Close.  The caller uses the client from one goroutine, so a Get runs     *)
(* alone on its side; it interleaves with the peer and with deadlines.      *)
(***************************************************************************)
EXTENDS Transport

CONSTANT MaxGets    \* how often the caller calls Get (a bound of the model)

ASSUME ClientAssumption == MaxGets \in Nat

VARIABLES
    cpc,        \* where the caller is: "idle", or inside Get
    next,       \* Client.next
    exhausted,  \* Client.exhausted
    broken,     \* Client.broken
    cur,        \* the running Get: its stream id and path
    got,        \* what readResponse has so far; body is what went to the writer
    err,        \* the error Get is about to return, with the code to report
    cdrained,   \* frames discarded by sendError
    results     \* what every finished Get returned, in order

clientVars == <<cpc, next, exhausted, broken, cur, got, err, cdrained, results>>

NoGet == [id |-> 0, path |-> Malformed]
Nothing == [status |-> 0, lengths |-> <<>>, body |-> <<>>]
NoErr == [kind |-> "failed", code |-> 0]

ClientType ==
    /\ cpc \in {"idle", "send", "response", "data", "report", "drain", "fail"}
    /\ next \in 1..MaxStreamID
    /\ exhausted \in BOOLEAN
    /\ broken \in BOOLEAN
    /\ cur \in [id : 0..MaxStreamID, path : Paths \cup {Malformed}]
    /\ got \in [status : Nat, lengths : Seq(Int), body : Seq(Byte)]
    /\ err \in [kind : {"failed", "remote"}, code : Nat]
    /\ cdrained \in 0..MaxDrain
    /\ results \in Seq(Result)

ClientInit ==
    /\ cpc = "idle"
    /\ next = 1
    /\ exhausted = FALSE
    /\ broken = FALSE
    /\ cur = NoGet
    /\ got = Nothing
    /\ err = NoErr
    /\ cdrained = 0
    /\ results = <<>>

-----------------------------------------------------------------------------
(* Get returns. *)

Return(r) == results' = Append(results, r)

\* Bugs: the ids wrap around; they run past the largest.
TakeIdWraps ==
    /\ next' = IF next = MaxStreamID THEN 1 ELSE next + 1
    /\ exhausted' = exhausted
TakeIdForEver == next' = next + 1 /\ exhausted' = exhausted

\* The id of this request is taken before the request is built.
TakeId ==
    IF next = MaxStreamID
    THEN exhausted' = TRUE /\ next' = next
    ELSE exhausted' = exhausted /\ next' = next + 1

\* The caller calls Get(p).
CliGet(p) ==
    /\ cpc = "idle" /\ Len(results) < MaxGets
    /\ \/ /\ broken
          /\ Return(Outcome(0, p, "broken", 0, <<>>))
          /\ UNCHANGED <<cpc, next, exhausted, cur>>
       \/ /\ ~broken /\ exhausted
          /\ cpc' = "fail" /\ cur' = [id |-> 0, path |-> p]
          /\ UNCHANGED <<next, exhausted, results>>
       \/ /\ ~broken /\ ~exhausted /\ TakeId
          /\ p \in Unbuildable
          /\ Return(Outcome(0, p, "unbuilt", 0, <<>>))
          /\ UNCHANGED <<cpc, cur>>
       \/ /\ ~broken /\ ~exhausted /\ TakeId
          /\ p \notin Unbuildable
          /\ cpc' = "send" /\ cur' = [id |-> next, path |-> p]
          /\ UNCHANGED results
    /\ UNCHANGED <<broken, got, err, cdrained, tcp>>

CliSend ==
    /\ cpc = "send"
    /\ Send("client", Request(cur.id, cur.path))
    /\ cpc' = "response"
    /\ UNCHANGED <<next, exhausted, broken, cur, got, err, cdrained, results, pos, fin, closed>>

\* Bug: a failed write is tried again.
AfterFailedSendAgain == "send"

AfterFailedSend == "fail"

CliSendFails ==
    /\ cpc = "send"
    /\ SendFails("client", Request(cur.id, cur.path))
    /\ cpc' = AfterFailedSend
    /\ UNCHANGED <<next, exhausted, broken, cur, got, err, cdrained, results, pos, fin, closed, rst>>

-----------------------------------------------------------------------------
(* readResponse: one action for each thing readFrame and expect make of the  *)
(* next frame.                                                               *)

Waiting == cpc \in {"response", "data"}
Wanted == IF cpc = "response" THEN "RESPONSE" ELSE "DATA"

CliHead(v) ==
    /\ Waiting
    /\ Readable("client")
    /\ Verdict(NextFrame("client")) = v

\* frame.Read steps over a frame of an unknown type and reads on.
CliSkip ==
    /\ CliHead("skip")
    /\ Consume("client")
    /\ UNCHANGED <<clientVars, wire, fin, closed, rst>>

\* Bug: only the first content-length counts.
LengthsAgreeFirst(lengths, n) == lengths = <<>> \/ lengths[1] = n

\* checkLength: every content-length must agree with what arrived; -1 stands
\* for a value that is not a valid number.
LengthsAgree(lengths, n) == \A i \in DOMAIN lengths : lengths[i] = n

\* The frame is the awaited one.  g is what has arrived with it; END_STREAM
\* ends the exchange, and only now are the lengths compared.
CliAccept(f, g) ==
    IF "END_STREAM" \notin f.flags
    THEN cpc' = "data" /\ got' = g /\ UNCHANGED <<cur, results>>
    ELSE IF LengthsAgree(g.lengths, Len(g.body))
    THEN /\ cpc' = "idle" /\ got' = Nothing /\ cur' = NoGet
         /\ Return(Outcome(cur.id, cur.path, "ok", g.status, g.body))
    ELSE cpc' = "fail" /\ got' = g /\ UNCHANGED <<cur, results>>

CliResponse ==
    LET f == NextFrame("client")
        g == [status |-> f.status, lengths |-> f.lengths, body |-> <<>>]
    IN
    /\ CliHead("frame") /\ cpc = "response"
    /\ f.type = "RESPONSE" /\ f.stream = cur.id
    /\ Consume("client")
    /\ IF f.status = 0
       THEN cpc' = "fail" /\ UNCHANGED <<cur, got, results>>
       ELSE CliAccept(f, g)
    /\ UNCHANGED <<next, exhausted, broken, err, cdrained, wire, fin, closed, rst>>

CliData ==
    LET f == NextFrame("client")
        g == [got EXCEPT !.body = @ \o f.data]
    IN
    /\ CliHead("frame") /\ cpc = "data"
    /\ f.type = "DATA" /\ f.stream = cur.id
    /\ Consume("client")
    /\ CliAccept(f, g)
    /\ UNCHANGED <<next, exhausted, broken, err, cdrained, wire, fin, closed, rst>>

\* The writer the caller passed in fails somewhere in the bytes of a DATA frame.
CliBodyWriteFails ==
    LET f == NextFrame("client") IN
    /\ CliHead("frame") /\ cpc = "data" /\ "io" \in Faults
    /\ f.type = "DATA" /\ f.stream = cur.id
    /\ Consume("client")
    /\ \E n \in 0..Len(f.data) : got' = [got EXCEPT !.body = @ \o SubSeq(f.data, 1, n)]
    /\ cpc' = "fail"
    /\ UNCHANGED <<next, exhausted, broken, cur, err, cdrained, results, wire, fin, closed, rst>>

\* expect: the wrong type or the wrong stream.  Nothing is reported.
CliStray ==
    LET f == NextFrame("client") IN
    /\ CliHead("frame")
    /\ f.type \in {"RESPONSE", "DATA"}
    /\ f.type # Wanted \/ f.stream # cur.id
    /\ Consume("client")
    /\ cpc' = "fail"
    /\ UNCHANGED <<next, exhausted, broken, cur, got, err, cdrained, results, wire, fin, closed, rst>>

\* remoteError: the server reported a connection error; never answered.
CliRemoteError ==
    LET f == NextFrame("client") IN
    /\ CliHead("frame") /\ f.type = "ERROR"
    /\ Consume("client")
    /\ cpc' = "fail"
    /\ err' = [kind |-> "remote", code |-> f.status]
    /\ UNCHANGED <<next, exhausted, broken, cur, got, cdrained, results, wire, fin, closed, rst>>

\* The three faults of the server that the client reports with sendError, and
\* the oversized ERROR, which nobody answers.
CliReportable ==
    LET f == NextFrame("client")
        code == IF Verdict(f) = "oversize" THEN CodeFrameTooLarge
                ELSE IF Verdict(f) = "streamzero" THEN CodeInvalidStreamID
                ELSE CodeProtocolError
    IN
    /\ \/ CliHead("oversize")
       \/ CliHead("streamzero")
       \/ CliHead("frame") /\ f.type = "REQUEST"
    /\ Consume("client")
    /\ IF Reported(f)
       THEN cpc' = "report" /\ err' = [kind |-> "failed", code |-> code]
       ELSE cpc' = "fail" /\ err' = err
    /\ UNCHANGED <<next, exhausted, broken, cur, got, cdrained, results, wire, fin, closed, rst>>

\* Bug: reads carry no deadline.
CliInputOverOnly == ReadEnds("client")

\* The input ends, is cut or reset, or the deadline passes.
CliInputOver == ReadEnds("client") \/ "timeout" \in Faults

CliReadEnds ==
    /\ Waiting
    /\ CliInputOver
    /\ cpc' = "fail"
    /\ UNCHANGED <<next, exhausted, broken, cur, got, err, cdrained, results, tcp>>

-----------------------------------------------------------------------------
(* sendError and fail. *)

CliReport ==
    /\ cpc = "report"
    /\ Send("client", Error(err.code))
    /\ HalfClose("client")
    /\ cpc' = "drain"
    /\ UNCHANGED <<next, exhausted, broken, cur, got, err, cdrained, results, pos, closed>>

CliReportFails ==
    /\ cpc = "report"
    /\ SendFails("client", Error(err.code))
    /\ cpc' = "fail"
    /\ UNCHANGED <<next, exhausted, broken, cur, got, err, cdrained, results, pos, fin, closed, rst>>

CliDrain ==
    /\ cpc = "drain"
    /\ Readable("client")
    /\ Consume("client")
    /\ cdrained' = cdrained + 1
    /\ cpc' = IF DrainOver(cdrained + 1) THEN "fail" ELSE "drain"
    /\ UNCHANGED <<next, exhausted, broken, cur, got, err, results, wire, fin, closed, rst>>

\* Bug: nothing is drained after the half-close.
CliDrainedAtOnce == TRUE

CliDrained == InputEnds("client") \/ "timeout" \in Faults

CliDrainEnds ==
    /\ cpc = "drain"
    /\ CliDrained
    /\ cpc' = "fail"
    /\ UNCHANGED <<next, exhausted, broken, cur, got, err, cdrained, results, tcp>>

\* Bug: the client stays usable.
BreaksNever == FALSE

Breaks == TRUE

\* fail: broken for good, the connection is closed, Get returns the error.
CliFail ==
    /\ cpc = "fail"
    /\ broken' = Breaks
    /\ CloseSocket("client")
    /\ Return(Outcome(cur.id, cur.path, err.kind, IF err.kind = "remote" THEN err.code ELSE 0, got.body))
    /\ cpc' = "idle" /\ cur' = NoGet /\ got' = Nothing
    /\ UNCHANGED <<next, exhausted, err, cdrained, wire, pos>>

\* Client.Close, between two calls of Get; it does not mark the client broken.
CliClose ==
    /\ cpc = "idle" /\ ~closed["client"]
    /\ CloseSocket("client")
    /\ UNCHANGED <<clientVars, wire, pos>>

\* Every step Get takes on its own once it has been called.
GetStep ==
    \/ CliSend \/ CliSendFails \/ CliSkip \/ CliResponse \/ CliData
    \/ CliBodyWriteFails \/ CliStray \/ CliRemoteError \/ CliReportable
    \/ CliReadEnds \/ CliReport \/ CliReportFails \/ CliDrain \/ CliDrainEnds
    \/ CliFail

ClientNext == GetStep \/ CliClose \/ \E p \in Paths : CliGet(p)
=============================================================================
