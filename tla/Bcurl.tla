-------------------------------- MODULE Bcurl --------------------------------
(***************************************************************************)
(* The program around the client: cmd/bcurl parses its arguments, dials,     *)
(* calls Get once with standard output as the writer, closes and turns the   *)
(* outcome into an exit status.  A program that uses the package in another  *)
(* way ("other") calls Get several times and Close when it likes.            *)
(***************************************************************************)
EXTENDS Session

VARIABLES
    prog,   \* whose process it is: "bcurl" or "other"
    bpc,    \* where run is: "args", "dial", "get", "close", or how it ended:
            \* "exited", or "never" when it did not get as far as a connection
    exit    \* the exit status

bcurlVars == <<vars, prog, bpc, exit>>

BcurlInit ==
    /\ Init
    /\ prog \in {"bcurl", "other"}
    /\ bpc = IF prog = "bcurl" THEN "args" ELSE "get"
    /\ exit = 0

GivesUp(status) == bpc' = "never" /\ exit' = status

\* Flags and target: a header that no request can carry is refused here.
ParseArgs ==
    /\ bpc = "args"
    /\ GivesUp(2) \/ (bpc' = "dial" /\ exit' = exit)
    /\ UNCHANGED <<vars, prog>>

DialServer ==
    /\ bpc = "dial"
    /\ GivesUp(3) \/ (bpc' = "get" /\ exit' = exit)
    /\ UNCHANGED <<vars, prog>>

\* bcurl calls Get once; Close is left to its deferred call.
Calls ==
    \/ /\ prog = "bcurl" => results = <<>>
       /\ \E p \in Paths : CliGet(p)
    \/ prog = "other" /\ CliClose

\* Bug: only a failed exchange counts as a failure.
StatusOfLoosely(r) == IF r.kind # "ok" THEN 3 ELSE 0

StatusOf(r) == IF r.kind # "ok" THEN 3 ELSE IF r.status >= 400 THEN 1 ELSE 0

GetReturned ==
    /\ bpc = "get" /\ prog = "bcurl" /\ cpc = "idle" /\ results # <<>>
    /\ bpc' = "close" /\ exit' = StatusOf(Head(results))
    /\ UNCHANGED <<vars, prog>>

\* The deferred Close; a Get that failed has closed the connection already.
CloseAndExit ==
    /\ bpc = "close"
    /\ IF closed["client"] THEN UNCHANGED vars
       ELSE CliClose /\ UNCHANGED serverVars /\ Track
    /\ bpc' = "exited"
    /\ UNCHANGED <<prog, exit>>

BcurlRun == ParseArgs \/ DialServer \/ GetReturned \/ CloseAndExit

\* Once bcurl is connected the handler runs, also when bcurl is gone.
Connected == bpc \in {"get", "close", "exited"}
HandlerRuns == Connected /\ ServerNext /\ UNCHANGED <<clientVars, prog, bpc, exit>> /\ Track
OthersAct == Connected /\ (SrvDrop \/ FifoOpened \/ FsChange) /\ UNCHANGED <<clientVars, prog, bpc, exit>> /\ Track
GetRuns == bpc = "get" /\ GetStep /\ UNCHANGED <<serverVars, prog, bpc, exit>> /\ Track
CallerActs == bpc = "get" /\ Calls /\ UNCHANGED <<serverVars, prog, bpc, exit>> /\ Track

Ended == bpc \in {"exited", "never"}

Over ==
    /\ \/ bpc = "never"
       \/ spc = "done" /\ bpc = "exited"
       \/ spc = "done" /\ prog = "other" /\ cpc = "idle" /\ Len(results) = MaxGets /\ closed["client"]
    /\ UNCHANGED bcurlVars

BcurlNext == BcurlRun \/ HandlerRuns \/ OthersAct \/ GetRuns \/ CallerActs \/ Over

\* bcurl does not wait on anything but the connection, which has deadlines.
BcurlSpec ==
    /\ BcurlInit /\ [][BcurlNext]_bcurlVars
    /\ WF_bcurlVars(HandlerRuns)
    /\ WF_bcurlVars(GetRuns)
    /\ WF_bcurlVars(BcurlRun)
    /\ WF_bcurlVars(prog = "bcurl" /\ CallerActs)

-----------------------------------------------------------------------------
(* Properties. *)

Stdout == IF results = <<>> THEN <<>> ELSE Head(results).body

\* The beginning of a file, as far as some byte the server has sent.
BeginningSent(body) ==
    \/ body = <<>>
    \/ \E i \in Inodes :
        /\ body = F!Content(i, Len(body))
        /\ \E k \in DOMAIN Out : \E m \in DOMAIN Out[k].data : Out[k].data[m] = <<i, Len(body)>>

\* The exit status is the truth about standard output, as the usage text has it:
\* after 0 and 1 everything the server sent is one complete response, which
\* after 0 says 200 and has its body there, and after 1 is a refusal with nothing
\* there; after 2 nothing was sent; after 3 there may be the beginning of a file,
\* no longer than what the server sent.
ExitTellsTruth ==
    Ended =>
        /\ exit \in {0, 1} => results # <<>> /\ Exchange(Out, 1, Len(Out), Head(results))
        /\ exit = 0 => Head(results).status = 200
        /\ exit = 1 => Head(results).status >= 400 /\ Stdout = <<>>
        /\ exit = 2 => Sent = <<>>
        /\ exit = 3 => BeginningSent(Stdout)

\* bcurl ends, whatever happens to the server and to the connection.
BcurlEnds == prog = "bcurl" ~> Ended

-----------------------------------------------------------------------------
(* Why: what bcurl's one Get has brought it. *)

\* Before it has returned, the response is the first thing that comes.
Fresh ==
    /\ cpc \in {"idle", "send", "response"} => pos["client"] = 0
    /\ cpc # "fail" => \A k \in 1..pos["client"] : "END_STREAM" \notin Out[k].flags

\* After it has returned r, either that was all and nothing more comes, or it
\* has failed.
Brought(r) ==
    IF r.kind = "ok"
    THEN /\ Exchange(Out, 1, Len(Out), r) /\ Quiet
         /\ r.status = 200 \/ (r.status >= 400 /\ r.body = <<>>)
    ELSE BeginningSent(r.body)

BcurlInv ==
    /\ prog \in {"bcurl", "other"} /\ (prog = "other" => bpc = "get")
    /\ bpc \in {"args", "dial", "never", "get", "close", "exited"}
    /\ bpc \in {"args", "dial", "never"} => cpc = "idle" /\ results = <<>> /\ Sent = <<>>
    /\ bpc = "never" => exit \in {2, 3}
    /\ bpc \in {"close", "exited"} => results # <<>> /\ exit = StatusOf(Head(results))
    /\ prog = "bcurl" =>
        IF results = <<>> THEN Fresh ELSE cpc = "idle" /\ Brought(Head(results))
    /\ BeginningSent(got.body)
=============================================================================
