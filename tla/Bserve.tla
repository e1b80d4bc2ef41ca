------------------------------- MODULE Bserve -------------------------------
(***************************************************************************)
(* The program around the server: cmd/bserve starts it, turns SIGINT and     *)
(* SIGTERM into a call of Close from another goroutine, and exits as soon as *)
(* Serve returns, whatever that goroutine is doing.  A program that uses the *)
(* package in another way ("other") calls Close when it likes, from several  *)
(* goroutines, and does not exit.                                            *)
(***************************************************************************)
EXTENDS Lifecycle

CONSTANT Watcher    \* the goroutine of bserve that waits for a signal

ASSUME BserveAssumption == Watcher \in Closers

VARIABLES
    host,       \* whose process it is: "bserve" or "other"
    proc,       \* "boot", "serving" or "exited"
    code,       \* the exit status
    signalled   \* a signal has arrived

procVars == <<host, proc, code, signalled>>
bserveVars == <<vars, procVars>>

BserveInit ==
    /\ Init
    /\ host \in {"bserve", "other"}
    /\ proc = IF host = "bserve" THEN "boot" ELSE "serving"
    /\ code = 0 /\ signalled = FALSE

\* The arguments are wrong; the root is no directory or the port is taken; or
\* run gets as far as Serve.
Boot ==
    /\ proc = "boot"
    /\ \/ proc' = "exited" /\ code' \in {1, 2}
       \/ proc' = "serving" /\ code' = code
    /\ UNCHANGED <<vars, host, signalled>>

\* Later signals change nothing: the context is done already.
Signal ==
    /\ proc = "serving" /\ host = "bserve" /\ ~signalled
    /\ signalled' = TRUE
    /\ UNCHANGED <<vars, host, proc, code>>

\* srv.Close, called by the watcher or by whoever uses the package.
CallClose(g) ==
    /\ host = "bserve" => g = Watcher /\ signalled
    /\ CloseMark(g)

\* Serve has returned nil: the process ends, and the system closes what is open.
Exit ==
    /\ proc = "serving" /\ host = "bserve" /\ serve = "returned"
    /\ proc' = "exited" /\ code' = 0
    /\ listening' = FALSE
    /\ sock' = [c \in Conns |-> IF sock[c] = "none" THEN "none" ELSE "closed"]
    /\ UNCHANGED <<closed, lis, conns, wg, current, serve, fresh, handler, closer, hiccups,
                   host, signalled>>

\* Steps of the goroutines, as long as there is a process.
Running(A) == proc = "serving" /\ A /\ UNCHANGED procVars

Over ==
    /\ proc = "exited" \/ (host = "other" /\ serve = "returned" /\ \A g \in Closers : closer[g] = "returned")
    /\ UNCHANGED bserveVars

BserveNext ==
    \/ Boot \/ Signal \/ Exit
    \/ Running(Serve)
    \/ \E c \in Conns :
        \/ Running(Dial(c)) \/ Running(Blocks(c)) \/ Running(FifoOpened(c))
        \/ Running(HandlerReturns(c)) \/ Running(Untrack(c))
    \/ \E g \in Closers : Running(CallClose(g)) \/ Running(CloseSteps(g))
    \/ Over

\* As in Lifecycle; in bserve the watcher wakes up after a signal, and run goes
\* on when Serve returns.
BserveSpec ==
    /\ BserveInit /\ [][BserveNext]_bserveVars
    /\ WF_bserveVars(Running(Serve)) /\ WF_bserveVars(Exit)
    /\ WF_bserveVars(host = "bserve" /\ Running(CallClose(Watcher)))
    /\ \A c \in Conns :
        /\ SF_bserveVars(sock[c] = "closed" /\ Running(HandlerReturns(c)))
        /\ WF_bserveVars(Running(Untrack(c)))
    /\ \A g \in Closers : WF_bserveVars(Running(CloseSteps(g)))

-----------------------------------------------------------------------------
(* Properties. *)

\* A call of Close returns, whatever connections and failures of Accept it
\* meets, unless the process has exited under it or a handler never leaves
\* os.Open: closing its connection does not wake it there.
CloseEnds ==
    \A g \in Closers :
        closer[g] # "idle" ~> \/ closer[g] = "returned" \/ proc = "exited"
                             \/ [](\E c \in Conns : handler[c] = "opening")

\* No accepted connection is forgotten: after Close, each is closed in the end.
NothingLeaks == closed ~> [](\A c \in Conns : sock[c] # "open")

\* bserve ends with status 0 only after a signal: Serve does not return nil
\* for any other reason.
OnlyOnSignal == proc = "exited" /\ code = 0 => signalled

\* A signal ends bserve with status 0, even one that arrives before Serve has
\* looked at the listener; without one it never ends in that way.
ExitsOnSignal == (signalled ~> (proc = "exited" /\ code = 0)) /\ []OnlyOnSignal

\* Why: Serve returns, and the listener is shut, only when the server was closed,
\* which in bserve the watcher does after a signal.
SignalInv ==
    /\ OnlyOnSignal
    /\ proc = "boot" => code = 0
    /\ ~listening \/ serve \in {"reject", "returned"} => closed
    /\ host = "bserve" /\ closed => signalled
=============================================================================
