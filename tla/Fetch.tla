-------------------------------- MODULE Fetch --------------------------------
(***************************************************************************)
(* What bcurl's client and bserve together promise to the caller of Get,    *)
(* with no connection, frames or handler in sight.  A Get that is answered  *)
(* with 200 returns the first n bytes of a file the path named at some      *)
(* moment between call and return, n being a length that file had between   *)
(* call and return; 404 is returned only if the path named no file at some  *)
(* such moment.  A Get that fails has written at most a prefix of such a    *)
(* file, and ends the client for good.                                      *)
(***************************************************************************)
EXTENDS Frames

VARIABLES
    fs,       \* fs[p]: the file path p names, or None
    flen,     \* flen[i]: length of file i
    busy,     \* a Get is running
    path,     \* its path
    seen,     \* what that path has named since the call
    held,     \* the lengths every file has had since the call
    broken,   \* an earlier Get failed
    results   \* what the finished Gets returned

fetchVars == <<fs, flen, busy, path, seen, held, broken, results>>

Lengths(len) == {<<i, len[i]>> : i \in Inodes}
Content(i, n) == [k \in 1..n |-> <<i, k>>]

Init ==
    /\ fs \in [Paths -> Inodes \cup {None}]
    /\ flen \in [Inodes -> Nat]
    /\ busy = FALSE /\ path = Malformed
    /\ seen = {} /\ held = {}
    /\ broken = FALSE /\ results = <<>>

Call(p) ==
    /\ ~busy /\ ~broken
    /\ busy' = TRUE /\ path' = p
    /\ seen' = {fs[p]} /\ held' = Lengths(flen)
    /\ UNCHANGED <<fs, flen, broken, results>>

\* A Get that returns at once: on a broken client, or for a request that cannot
\* be built.
Refuse(p) ==
    /\ ~busy
    /\ \/ broken /\ results' = Append(results, Outcome(0, p, "broken", 0, <<>>))
       \/ /\ ~broken /\ p \in Unbuildable
          /\ results' = Append(results, Outcome(0, p, "unbuilt", 0, <<>>))
    /\ UNCHANGED <<fs, flen, busy, path, seen, held, broken>>

Change ==
    /\ fs' \in [Paths -> Inodes \cup {None}]
    /\ flen' \in [Inodes -> Nat]
    /\ seen' = IF busy THEN seen \cup {fs'[path]} ELSE seen
    /\ held' = IF busy THEN held \cup Lengths(flen') ELSE held
    /\ UNCHANGED <<busy, path, broken, results>>

Return(id, kind, status, body) ==
    /\ busy
    /\ results' = Append(results, Outcome(id, path, kind, status, body))
    /\ busy' = FALSE /\ path' = Malformed
    /\ seen' = {} /\ held' = {}
    /\ UNCHANGED <<fs, flen>>

Answer ==
    /\ broken' = broken
    /\ \E id \in 1..MaxStreamID :
        \/ path \in BadPaths /\ Return(id, "ok", 400, <<>>)
        \/ /\ path \notin BadPaths
           /\ \/ None \in seen /\ Return(id, "ok", 404, <<>>)
              \/ Return(id, "ok", 500, <<>>)
              \/ \E h \in held : h[1] \in seen /\ Return(id, "ok", 200, Content(h[1], h[2]))

Fail ==
    /\ broken' = TRUE
    /\ \E id \in 0..MaxStreamID :
        \/ Return(id, "failed", 0, <<>>)
        \/ Return(id, "remote", CodeProtocolError, <<>>)
        \/ \E h \in held : \E n \in 1..h[2] :
            /\ h[1] \in seen
            /\ \/ Return(id, "failed", 0, Content(h[1], n))
               \/ Return(id, "remote", CodeProtocolError, Content(h[1], n))

Next ==
    \/ \E p \in Paths : Call(p) \/ Refuse(p)
    \/ Change
    \/ Answer
    \/ Fail

\* What may happen, and that every Get returns.
Safety == Init /\ [][Next]_fetchVars
Spec == Safety /\ WF_fetchVars(Answer \/ Fail)
=============================================================================
