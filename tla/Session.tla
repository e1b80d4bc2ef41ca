------------------------------- MODULE Session -------------------------------
(***************************************************************************)
(* bcurl's client and bserve's connection handler on the two ends of one    *)
(* connection, while somebody changes the served files.                     *)
(***************************************************************************)
EXTENDS Handler, Caller

VARIABLES
    seen,     \* history: what the path of the running Get has named
    held      \* history: the lengths the files have had during the running Get

vars == <<tcp, serverVars, clientVars, seen, held>>

\* The history variables follow every step.
Track ==
    /\ seen' = IF cpc' = "idle" THEN {}
               ELSE (IF cpc = "idle" THEN {} ELSE seen) \cup {fs'[cur'.path]}
    /\ held' = IF cpc' = "idle" THEN {}
               ELSE (IF cpc = "idle" THEN {} ELSE held) \cup {<<i, flen'[i]>> : i \in Inodes}

Init ==
    /\ TransportInit /\ ServerInit /\ ClientInit
    /\ seen = {} /\ held = {}

ServerStep == (ServerNext \/ SrvDrop \/ FifoOpened \/ FsChange) /\ UNCHANGED clientVars /\ Track
ClientStep == ClientNext /\ UNCHANGED serverVars /\ Track

\* The caller is done and the handler has returned.
Finished ==
    /\ cpc = "idle" /\ Len(results) = MaxGets /\ closed["client"] /\ spc = "done"
    /\ UNCHANGED vars

Next == ServerStep \/ ClientStep \/ Finished

\* The handler and a Get that was called are scheduled; the caller, the files
\* and Server.Close are free.
Spec ==
    /\ Init /\ [][Next]_vars
    /\ WF_vars(ServerNext /\ UNCHANGED clientVars /\ Track)
    /\ WF_vars(GetStep /\ UNCHANGED serverVars /\ Track)

-----------------------------------------------------------------------------
(* Properties. *)

F == INSTANCE Fetch WITH busy <- cpc # "idle", path <- cur.path

\* Client, handler and connection together keep the promise of Fetch: what Get
\* returns is a whole file or an honest failure, and every Get returns.
ImplementsFetch == F!Spec

\* The part of it that says what may happen.
FetchesSafely == F!Safety

\* With no deadline, no broken connection and no Server.Close, a request that
\* went out is answered or fails with the server's own report; the only failures
\* without one are a Get after Close and a Get without stream ids left.
Unsent(id) == \A k \in DOMAIN Sent : Sent[k].stream # id
FailureExplained == \A n \in DOMAIN results : results[n].kind = "failed" => Unsent(results[n].id)

\* The handler never outlives a client that is gone, without needing a deadline
\* (no FIFO being in its way).
ServerLetsGo == closed["client"] ~> spc = "done"

\* Every Get returns when the server is bserve, whatever fails on the way and
\* wherever the handler is stuck: each read and write has a deadline, and the
\* handler ends a response at the length it announced.  (A server that goes on
\* sending DATA holds a Get as long as it likes: each frame renews the deadline.)
GetReturns == cpc # "idle" ~> cpc = "idle"

-----------------------------------------------------------------------------
(* Why: what may be on its way while a Get runs. *)

\* The history variables know everything since the call.
HistoryInv ==
    /\ seen \subseteq Inodes \cup {None}
    /\ held \subseteq Inodes \X (0..MaxSize)
    /\ cpc = "idle" => cur = NoGet /\ seen = {} /\ held = {}
    /\ cpc # "idle" => fs[cur.path] \in seen /\ F!Lengths(flen) \subseteq held
    /\ cpc \in {"send", "response", "data"} => cur.id > 0

\* A file the path of the running Get has named, with a length it has had.
Found(h) == h \in held /\ h[1] \in seen

\* An answer says what was true of the files at some moment since the call.
Truthful(f) ==
    \/ /\ f.type = "RESPONSE" /\ f.flags = EndStream
       /\ \/ f.status = 400 /\ cur.path \in BadPaths
          \/ f.status = 404 /\ cur.path \notin BadPaths /\ None \in seen
          \/ f.status = 500 /\ cur.path \notin BadPaths
    \/ /\ f.type = "RESPONSE" /\ f.status = 200 /\ cur.path \notin BadPaths
       /\ \E h \in held : Found(h) /\ ("END_STREAM" \in f.flags => h[2] = 0)
    \/ /\ f.type = "DATA" /\ f.data # <<>> /\ cur.path \notin BadPaths
       /\ \E h \in held :
            /\ Found(h) /\ Last(f.data)[1] = h[1] /\ Last(f.data)[2] <= h[2]
            /\ "END_STREAM" \in f.flags => Last(f.data)[2] = h[2]

\* A frame that may be on its way to the client.
Meant(f) ==
    /\ f.shape # "oversize"
    /\ \/ f.type = "ERROR" /\ f.status = CodeProtocolError
       \/ Truthful(f) /\ f.stream = cur.id

Serving == spc \in {"blocked", "stat", "body", "send"}

\* Between two exchanges nothing is on its way and nothing is being done.
Quiet == ~Readable("server") /\ ~Readable("client") /\ ~Serving

\* While the client waits, a request that was not taken yet is all there is; what
\* is on its way to the client, and what the handler is about to write, is meant
\* for this Get; and after END_STREAM nothing more comes.
Midway ==
    /\ Readable("server") =>
        /\ pos["server"] + 1 = Len(Sent)
        /\ NextFrame("server") = Request(cur.id, cur.path)
        /\ ~Readable("client") /\ ~Serving
    /\ \A k \in DOMAIN Out : k > pos["client"] =>
        /\ Meant(Out[k])
        /\ Out[k].shape = "whole" /\ "END_STREAM" \in Out[k].flags => k = Len(Out) /\ ~Serving
    /\ Serving /\ (spc # "send" \/ file.size > 0) =>
        file.stream = cur.id /\ file.ino \in seen /\ cur.path \notin BadPaths
    /\ spc = "body" \/ (spc = "send" /\ file.size > 0) => <<file.ino, file.size>> \in held
    /\ spc = "send" => Meant(reply)

\* What the caller's writer has got is the beginning of a file.
GotBeginning ==
    got.body = <<>> \/ \E h \in held : Found(h) /\ \E n \in 1..h[2] : got.body = F!Content(h[1], n)

\* In the middle of a body the client has got exactly up to the frame it took last.
GotSoFar ==
    LET f == Out[pos["client"]] IN
    /\ pos["client"] > 0
    /\ got.status = 200 /\ cur.path \notin BadPaths
    /\ \/ f.type = "RESPONSE" /\ got.body = <<>>
       \/ /\ f.type = "DATA" /\ got.body # <<>>
          /\ Last(got.body) = Last(f.data)

SessionInv ==
    /\ HistoryInv
    /\ cpc \notin {"report", "drain"}
    /\ err.kind = "remote" => err.code = CodeProtocolError
    /\ GotBeginning
    /\ cpc \in {"idle", "send", "response"} => got.body = <<>>
    /\ cpc \in {"idle", "send"} /\ ~broken => Quiet
    /\ cpc \in {"response", "data"} => Midway
    /\ cpc = "data" => GotSoFar

-----------------------------------------------------------------------------
(* Why failures are explained when nothing goes wrong on the connection. *)

\* The client may still send and receive.
Going == cpc # "fail" /\ ~closed["client"]

\* The handler is there, and will read or write.
Attends == spc \in {"read", "stat", "body", "send"} /\ ~fin["server"] /\ ~closed["server"]

\* It has left, and its report is on its way.
ReportWaits ==
    /\ spc \in {"drain", "close", "done"}
    /\ Out # <<>> /\ Last(Out).type = "ERROR"
    /\ Readable("client") /\ ~Readable("server")

\* Nothing the handler writes is torn or too long; a response has one
\* content-length, which is zero if the response is all.
Plain(f) ==
    /\ f.shape = "whole" /\ Len(f.data) <= MaxPayload
    /\ f.type = "RESPONSE" =>
        Len(f.lengths) = 1 /\ ("END_STREAM" \in f.flags => f.lengths[1] = 0)

\* A failure other than a report is one of a request that did not go out; the
\* handler attends to a client that waits until its report is on its way, and
\* between two Gets the last frame taken was the end of an answer.
CalmInv ==
    /\ FailureExplained
    /\ cpc = "fail" /\ err.kind = "failed" => Unsent(cur.id)
    /\ \A k \in DOMAIN Sent : Sent[k].type = "REQUEST"
    /\ Plain(reply) /\ \A k \in DOMAIN Out : Plain(Out[k])
    /\ fin["client"] => closed["client"]
    /\ Going => ~rst["client"] /\ (Attends \/ ReportWaits)
    /\ Going /\ cpc # "data" => (pos["client"] > 0 => "END_STREAM" \in Out[pos["client"]].flags)
=============================================================================
