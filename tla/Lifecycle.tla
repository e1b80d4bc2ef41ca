------------------------------ MODULE Lifecycle ------------------------------
(***************************************************************************)
(* server.Server as a whole: Serve accepting connections, one handler each,  *)
(* and Close called by others while all of that is going on.  Sections under *)
(* Server.mu are single actions; everything between them can interleave.     *)
(* What a handler does in between is ServerConn.                             *)
(***************************************************************************)
EXTENDS Integers, FiniteSets

CONSTANTS
    Conns,        \* connections clients may open
    NoConn,       \* no connection
    Closers,      \* goroutines that call Close
    MaxHiccups    \* how often Accept may fail for a while (a bound of the model)

ASSUME LifecycleAssumption ==
    /\ IsFiniteSet(Conns)
    /\ NoConn \notin Conns
    /\ MaxHiccups \in Nat

VARIABLES
    closed,    \* Server.closed
    lis,       \* Server.lis is set
    conns,     \* Server.conns
    wg,        \* the WaitGroup's counter
    current,   \* Server.current
    listening, \* the listener is open
    sock,      \* sock[c]: "none", "queued" in the listener, "open", "closed"
    serve,     \* where Serve is
    fresh,     \* the connection Accept returned, while Serve looks at it
    handler,   \* handler[c]: where its handler is
    closer,    \* closer[g]: where the call of Close is
    hiccups    \* failures of Accept so far

vars == <<closed, lis, conns, wg, current, listening, sock, serve, fresh, handler,
          closer, hiccups>>

Init ==
    /\ closed = FALSE /\ lis = FALSE /\ conns = {} /\ wg = 0 /\ current = 0
    /\ listening = TRUE
    /\ sock = [c \in Conns |-> "none"]
    /\ serve = "start" /\ fresh = NoConn
    /\ handler = [c \in Conns |-> "none"]
    /\ closer = [g \in Closers |-> "idle"]
    /\ hiccups = 0

\* Bug: the listener stays open.
ShutListenerNot == UNCHANGED <<listening, sock>>

\* Closing the listener also drops the connections nobody accepted yet.
ShutListener ==
    /\ listening' = FALSE
    /\ sock' = [c \in Conns |-> IF sock[c] = "queued" THEN "closed" ELSE sock[c]]

-----------------------------------------------------------------------------
(* Serve *)

\* Under mu: a server that was closed before it served closes the listener.
ServeStart ==
    /\ serve = "start"
    /\ IF closed
       THEN serve' = "returned" /\ ShutListener /\ lis' = lis
       ELSE serve' = "accept" /\ lis' = TRUE /\ UNCHANGED <<listening, sock>>
    /\ UNCHANGED <<closed, conns, wg, current, fresh, handler, closer, hiccups>>

Accept(c) ==
    /\ serve = "accept" /\ listening /\ sock[c] = "queued"
    /\ sock' = [sock EXCEPT ![c] = "open"]
    /\ fresh' = c
    /\ serve' = "track"
    /\ UNCHANGED <<closed, lis, conns, wg, current, listening, handler, closer, hiccups>>

\* Accept fails: the listener is closed (net.ErrClosed), or something passing.
AcceptFails ==
    /\ serve = "accept"
    /\ \/ /\ ~listening
          /\ serve' = "returned"
          /\ UNCHANGED hiccups
       \/ /\ listening /\ hiccups < MaxHiccups
          /\ hiccups' = hiccups + 1
          /\ serve' = "failed"
    /\ UNCHANGED <<closed, lis, conns, wg, current, listening, sock, fresh, handler, closer>>

\* isClosed, then 50 ms of sleep before the next Accept.
AfterFailure ==
    /\ serve = "failed"
    /\ serve' = IF closed THEN "returned" ELSE "accept"
    /\ UNCHANGED <<closed, lis, conns, wg, current, listening, sock, fresh, handler, closer, hiccups>>

\* Bug: track does not look whether the server was closed.
RefusesNever == FALSE

Refuses == closed

\* track, then either go handle or close and return.
Track ==
    /\ serve = "track"
    /\ IF Refuses
       THEN /\ serve' = "reject"
            /\ UNCHANGED <<conns, wg, current, fresh, handler>>
       ELSE /\ conns' = conns \cup {fresh}
            /\ wg' = wg + 1
            /\ current' = current + 1
            /\ handler' = [handler EXCEPT ![fresh] = "running"]
            /\ fresh' = NoConn
            /\ serve' = "accept"
    /\ UNCHANGED <<closed, lis, listening, sock, closer, hiccups>>

\* Bug: the connection is left open.
HungNot(c) == sock

\* conn.Close, by its owner.
Hung(c) == [sock EXCEPT ![c] = "closed"]

Reject ==
    /\ serve = "reject"
    /\ sock' = Hung(fresh)
    /\ fresh' = NoConn
    /\ serve' = "returned"
    /\ UNCHANGED <<closed, lis, conns, wg, current, listening, handler, closer, hiccups>>

Serve == ServeStart \/ (\E c \in Conns : Accept(c)) \/ AcceptFails \/ AfterFailure \/ Track \/ Reject

-----------------------------------------------------------------------------
(* A handler: it may get stuck in resolver.open, where only somebody who     *)
(* opens the other end of a FIFO helps it; in the end come the deferred      *)
(* conn.Close and untrack, in three steps.                                   *)

Blocks(c) ==
    /\ handler[c] = "running"
    /\ handler' = [handler EXCEPT ![c] = "opening"]
    /\ UNCHANGED <<closed, lis, conns, wg, current, listening, sock, serve, fresh, closer, hiccups>>

FifoOpened(c) ==
    /\ handler[c] = "opening"
    /\ handler' = [handler EXCEPT ![c] = "running"]
    /\ UNCHANGED <<closed, lis, conns, wg, current, listening, sock, serve, fresh, closer, hiccups>>

\* handle returns: because its connection is gone, or for a reason of its own.
HandlerReturns(c) ==
    /\ handler[c] = "running"
    /\ sock' = Hung(c)
    /\ handler' = [handler EXCEPT ![c] = "delete"]
    /\ UNCHANGED <<closed, lis, conns, wg, current, listening, serve, fresh, closer, hiccups>>

UntrackDelete(c) ==
    /\ handler[c] = "delete"
    /\ conns' = conns \ {c}
    /\ handler' = [handler EXCEPT ![c] = "count"]
    /\ UNCHANGED <<closed, lis, wg, current, listening, sock, serve, fresh, closer, hiccups>>

UntrackCount(c) ==
    /\ handler[c] = "count"
    /\ current' = current - 1
    /\ handler' = [handler EXCEPT ![c] = "done"]
    /\ UNCHANGED <<closed, lis, conns, wg, listening, sock, serve, fresh, closer, hiccups>>

\* Bugs: Done is called twice; it is never called.
WgDoneTwice == wg - 2
WgDoneNever == wg

WgDone == wg - 1

UntrackDone(c) ==
    /\ handler[c] = "done"
    /\ wg' = WgDone
    /\ handler' = [handler EXCEPT ![c] = "gone"]
    /\ UNCHANGED <<closed, lis, conns, current, listening, sock, serve, fresh, closer, hiccups>>

Untrack(c) == UntrackDelete(c) \/ UntrackCount(c) \/ UntrackDone(c)

-----------------------------------------------------------------------------
(* Close *)

\* Under mu: mark the server closed and close every tracked connection.
CloseMark(g) ==
    /\ closer[g] = "idle"
    /\ closed' = TRUE
    /\ sock' = [c \in Conns |-> IF c \in conns THEN "closed" ELSE sock[c]]
    /\ closer' = [closer EXCEPT ![g] = IF lis THEN "listener" ELSE "wait"]
    /\ UNCHANGED <<lis, conns, wg, current, listening, serve, fresh, handler, hiccups>>

CloseListener(g) ==
    /\ closer[g] = "listener"
    /\ ShutListener
    /\ closer' = [closer EXCEPT ![g] = "wait"]
    /\ UNCHANGED <<closed, lis, conns, wg, current, serve, fresh, handler, hiccups>>

\* Bug: nobody is waited for.
AllGoneAlways == TRUE

AllGone == wg = 0

\* wg.Wait
CloseReturns(g) ==
    /\ closer[g] = "wait" /\ AllGone
    /\ closer' = [closer EXCEPT ![g] = "returned"]
    /\ UNCHANGED <<closed, lis, conns, wg, current, listening, sock, serve, fresh, handler, hiccups>>

CloseSteps(g) == CloseListener(g) \/ CloseReturns(g)

-----------------------------------------------------------------------------

\* A client connects; the listener queues it.
Dial(c) ==
    /\ sock[c] = "none" /\ listening
    /\ sock' = [sock EXCEPT ![c] = "queued"]
    /\ UNCHANGED <<closed, lis, conns, wg, current, listening, serve, fresh, handler, closer, hiccups>>

Finished ==
    /\ serve = "returned" /\ \A g \in Closers : closer[g] = "returned"
    /\ UNCHANGED vars

Next ==
    \/ Serve
    \/ \E c \in Conns : Dial(c) \/ Blocks(c) \/ FifoOpened(c) \/ HandlerReturns(c) \/ Untrack(c)
    \/ \E g \in Closers : CloseMark(g) \/ CloseSteps(g)
    \/ Finished

\* Serve and a Close that was called run on; a handler whose connection was
\* closed returns (its reads and writes fail) unless it stays in an open, after
\* which the write of the answer fails too, and its deferred calls run.
\* Whether Close is called, how long a handler with an open connection works,
\* and whether anybody opens a FIFO, is left open.
Spec ==
    /\ Init /\ [][Next]_vars
    /\ WF_vars(Serve)
    /\ \A c \in Conns : SF_vars(sock[c] = "closed" /\ HandlerReturns(c)) /\ WF_vars(Untrack(c))
    /\ \A g \in Closers : WF_vars(CloseSteps(g))

-----------------------------------------------------------------------------
(* Properties. *)

Serving(c) == handler[c] \in {"running", "opening"}
Live(c) == Serving(c) \/ handler[c] \in {"delete", "count", "done"}

\* Types, and the bookkeeping of track and untrack agrees with the handlers
\* there are: conns, current and the WaitGroup each lag by their own step.
TypeOK ==
    /\ closed \in BOOLEAN /\ lis \in BOOLEAN /\ listening \in BOOLEAN
    /\ conns \subseteq Conns
    /\ wg \in Nat /\ current \in Nat
    /\ sock \in [Conns -> {"none", "queued", "open", "closed"}]
    /\ serve \in {"start", "accept", "failed", "track", "reject", "returned"}
    /\ fresh \in Conns \cup {NoConn}
    /\ serve \in {"track", "reject"} => fresh \in Conns
    /\ handler \in [Conns -> {"none", "running", "opening", "delete", "count", "done", "gone"}]
    /\ closer \in [Closers -> {"idle", "listener", "wait", "returned"}]
    /\ hiccups \in 0..MaxHiccups

Bookkeeping ==
    /\ conns = {c \in Conns : Serving(c) \/ handler[c] = "delete"}
    /\ current = Cardinality({c \in Conns : Serving(c) \/ handler[c] \in {"delete", "count"}})
    /\ wg = Cardinality({c \in Conns : Live(c)})

\* When a Close has returned, no handler is left, and none will ever start.
CloseWaitsForAll ==
    (\E g \in Closers : closer[g] = "returned") => \A c \in Conns : ~Live(c)

\* Once the server is closed, every connection a handler works on is closed: a
\* connection accepted during Close is either seen by it or refused by track.
ClosedDropsAll == closed => \A c \in Conns : Serving(c) => sock[c] = "closed"

\* Every open connection has an owner that will close it: its handler, or Serve
\* between Accept and track.  A connection has no handler before that.
Owned ==
    /\ serve \in {"track", "reject"} <=> fresh # NoConn
    /\ fresh # NoConn => sock[fresh] = "open" /\ handler[fresh] = "none"
    /\ \A c \in Conns :
        /\ sock[c] = "open" => Serving(c) \/ c = fresh
        /\ sock[c] \in {"none", "queued"} => handler[c] = "none"

\* The inductive invariant behind all of these: a Close that is past its first
\* step has marked the server closed.
LifecycleInv ==
    /\ Bookkeeping /\ CloseWaitsForAll /\ ClosedDropsAll /\ Owned
    /\ \A g \in Closers : closer[g] # "idle" => closed

\* The rule of sync.WaitGroup: the counter never rises once a Wait may be on.
NoAddDuringWait == [][closed => wg' <= wg]_vars
=============================================================================
