--------------------------- MODULE LifecycleProofs ---------------------------
(***************************************************************************)
(* Proofs about Serve, the handlers and Close: for every finite set of       *)
(* connections, any number of calls of Close and of failures of Accept.      *)
(***************************************************************************)
EXTENDS Bserve, FiniteSetTheorems, TLAPS

\* The connections whose handlers h has in one of the places S.
In(h, S) == {c \in Conns : h[c] \in S}

Tracked == {"running", "opening", "delete"}
Counted == {"running", "opening", "delete", "count"}
Waited == {"running", "opening", "delete", "count", "done"}

-----------------------------------------------------------------------------
(* Counting handlers. *)

LEMMA FiniteIn ==
    ASSUME NEW h, NEW S
    PROVE  IsFiniteSet(In(h, S)) /\ Cardinality(In(h, S)) \in Nat
BY LifecycleAssumption, FS_Subset, FS_CardinalityType DEF In

\* A handler that moves from one place to another within S or outside of it
\* leaves the count alone, one that enters adds one, one that leaves takes one.
LEMMA Moves ==
    ASSUME TypeOK, NEW S, NEW c \in Conns, NEW to,
           handler' = [handler EXCEPT ![c] = to]
    PROVE  /\ handler[c] \in S /\ to \in S => In(handler', S) = In(handler, S)
           /\ handler[c] \notin S /\ to \notin S => In(handler', S) = In(handler, S)
           /\ handler[c] \notin S /\ to \in S =>
                /\ In(handler', S) = In(handler, S) \cup {c}
                /\ Cardinality(In(handler', S)) = Cardinality(In(handler, S)) + 1
           /\ handler[c] \in S /\ to \notin S =>
                /\ In(handler', S) = In(handler, S) \ {c}
                /\ Cardinality(In(handler', S)) = Cardinality(In(handler, S)) - 1
                /\ Cardinality(In(handler, S)) - 1 \in Nat
<1>1. \A x \in Conns : handler'[x] = IF x = c THEN to ELSE handler[x]
    BY DEF TypeOK
<1>2. IsFiniteSet(In(handler, S)) /\ Cardinality(In(handler, S)) \in Nat
    BY FiniteIn
<1>3. ASSUME handler[c] \in S, to \in S PROVE In(handler', S) = In(handler, S)
    BY <1>1, <1>3 DEF In
<1>4. ASSUME handler[c] \notin S, to \notin S PROVE In(handler', S) = In(handler, S)
    BY <1>1, <1>4 DEF In
<1>5. ASSUME handler[c] \notin S, to \in S
      PROVE  /\ In(handler', S) = In(handler, S) \cup {c}
             /\ Cardinality(In(handler', S)) = Cardinality(In(handler, S)) + 1
    <2>1. In(handler', S) = In(handler, S) \cup {c} /\ c \notin In(handler, S)
        BY <1>1, <1>5 DEF In
    <2>2. QED
        BY <1>2, <2>1, FS_AddElement
<1>6. ASSUME handler[c] \in S, to \notin S
      PROVE  /\ In(handler', S) = In(handler, S) \ {c}
             /\ Cardinality(In(handler', S)) = Cardinality(In(handler, S)) - 1
             /\ Cardinality(In(handler, S)) - 1 \in Nat
    <2>1. In(handler', S) = In(handler, S) \ {c} /\ c \in In(handler, S)
        BY <1>1, <1>6 DEF In
    <2>2. IsFiniteSet(In(handler', S)) /\ Cardinality(In(handler', S)) = Cardinality(In(handler, S)) - 1
        BY <1>2, <2>1, FS_RemoveElement, ZenonT(60)
    <2>3. Cardinality(In(handler', S)) \in Nat
        BY <2>2, FS_CardinalityType
    <2>4. QED
        BY <2>1, <2>2, <2>3
<1>7. QED
    BY <1>3, <1>4, <1>5, <1>6

LEMMA BookkeepingCounts ==
    Bookkeeping <=> /\ conns = In(handler, Tracked)
                    /\ current = Cardinality(In(handler, Counted))
                    /\ wg = Cardinality(In(handler, Waited))
BY DEF Bookkeeping, In, Tracked, Counted, Waited, Live, Serving

\* With no handler counted there is none: what wg.Wait relies on.
LEMMA NobodyLeft ==
    ASSUME Bookkeeping, wg = 0
    PROVE  \A c \in Conns : ~Live(c)
<1>1. In(handler, Waited) = {}
    BY FiniteIn, FS_EmptySet, BookkeepingCounts
<1>2. QED
    BY <1>1 DEF In, Waited, Live, Serving

-----------------------------------------------------------------------------
(* The invariant, one lemma for each process. *)

\* A step that leaves the handlers and their count alone.
LEMMA SameBooks ==
    ASSUME Bookkeeping, UNCHANGED <<conns, wg, current, handler>>
    PROVE  Bookkeeping'
BY DEF Bookkeeping, Live, Serving

LEMMA ServeInv ==
    ASSUME TypeOK, LifecycleInv, ServeStart \/ (\E c \in Conns : Accept(c)) \/ AcceptFails
                                 \/ AfterFailure \/ Reject
    PROVE  TypeOK' /\ LifecycleInv'
<1> USE DEF LifecycleInv
<1>1. UNCHANGED <<closed, conns, wg, current, handler, closer>>
    BY DEF ServeStart, Accept, AcceptFails, AfterFailure, Reject, Hung
<1>2. Bookkeeping'
    BY <1>1, SameBooks
<1>3. CloseWaitsForAll' /\ \A g \in Closers : closer'[g] # "idle" => closed'
    BY <1>1 DEF CloseWaitsForAll, Live, Serving
<1>4. CASE ServeStart
    <2>1. /\ \A c \in Conns : sock'[c] = sock[c] \/ (sock[c] = "queued" /\ sock'[c] = "closed")
          /\ sock' \in [Conns -> {"none", "queued", "open", "closed"}]
        BY <1>4 DEF ServeStart, ShutListener, TypeOK
    <2>2. TypeOK'
        BY <1>1, <1>4, <2>1 DEF ServeStart, ShutListener, TypeOK
    <2>3. ClosedDropsAll' /\ Owned'
        BY <1>1, <1>4, <2>1, LifecycleAssumption DEF ServeStart, ClosedDropsAll, Owned, TypeOK, Serving
    <2>4. QED
        BY <1>2, <1>3, <2>2, <2>3
<1>5. CASE \E c \in Conns : Accept(c)
    <2>1. PICK c \in Conns : Accept(c)
        BY <1>5
    <2>2. \A x \in Conns : sock'[x] = IF x = c THEN "open" ELSE sock[x]
        BY <2>1 DEF Accept, TypeOK
    <2>3. TypeOK'
        BY <2>1 DEF Accept, TypeOK
    <2>4. ClosedDropsAll' /\ Owned'
        BY <1>1, <2>1, <2>2, LifecycleAssumption DEF Accept, ClosedDropsAll, Owned, TypeOK, Serving
    <2>5. QED
        BY <1>2, <1>3, <2>3, <2>4
<1>6. CASE AcceptFails \/ AfterFailure
    <2>1. UNCHANGED <<sock, fresh, listening, lis>> /\ serve \notin {"track", "reject"}
          /\ serve' \in {"accept", "failed", "returned"} /\ hiccups' \in 0..MaxHiccups
        BY <1>6, LifecycleAssumption DEF AcceptFails, AfterFailure, TypeOK
    <2>2. TypeOK'
        BY <1>1, <2>1 DEF TypeOK
    <2>3. ClosedDropsAll' /\ Owned'
        BY <1>1, <2>1 DEF ClosedDropsAll, Owned, Serving
    <2>4. QED
        BY <1>2, <1>3, <2>2, <2>3
<1>7. CASE Reject
    <2>1. fresh \in Conns
        BY <1>7 DEF Reject, Hung, TypeOK
    <2>2. \A x \in Conns : sock'[x] = IF x = fresh THEN "closed" ELSE sock[x]
        BY <1>7, <2>1 DEF Reject, Hung, TypeOK
    <2>3. TypeOK'
        BY <1>7 DEF Reject, Hung, TypeOK
    <2>4. ClosedDropsAll' /\ Owned'
        BY <1>1, <1>7, <2>1, <2>2, LifecycleAssumption DEF Reject, Hung, ClosedDropsAll, Owned, TypeOK, Serving
    <2>5. QED
        BY <1>2, <1>3, <2>3, <2>4
<1>8. QED
    BY <1>4, <1>5, <1>6, <1>7

LEMMA TrackInv ==
    ASSUME TypeOK, LifecycleInv, Track
    PROVE  TypeOK' /\ LifecycleInv'
<1> USE DEF LifecycleInv
<1>1. CASE closed
    <2>1. UNCHANGED <<closed, lis, conns, wg, current, listening, sock, fresh, handler, closer, hiccups>>
          /\ serve = "track" /\ serve' = "reject"
        BY <1>1 DEF Track, Refuses
    <2>2. TypeOK'
        BY <2>1 DEF TypeOK
    <2>3. Bookkeeping'
        BY <2>1, SameBooks
    <2>4. QED
        BY <2>1, <2>2, <2>3 DEF CloseWaitsForAll, ClosedDropsAll, Owned, Live, Serving
<1>2. CASE ~closed
    <2>1. /\ fresh \in Conns /\ fresh # NoConn /\ sock[fresh] = "open" /\ handler[fresh] = "none"
          /\ conns' = conns \cup {fresh} /\ wg' = wg + 1 /\ current' = current + 1
          /\ handler' = [handler EXCEPT ![fresh] = "running"]
          /\ fresh' = NoConn /\ serve' = "accept"
          /\ UNCHANGED <<closed, lis, listening, sock, closer, hiccups>>
        BY <1>2, LifecycleAssumption DEF Track, Refuses, TypeOK, Owned, Serving
    <2>2. Bookkeeping'
        <3>a. ASSUME NEW S, "none" \notin S, "running" \in S
              PROVE  /\ In(handler', S) = In(handler, S) \cup {fresh}
                     /\ Cardinality(In(handler', S)) = Cardinality(In(handler, S)) + 1
            <4>1. handler[fresh] \notin S
                BY <2>1, <3>a
            <4>2. QED
                BY <2>1, <3>a, <4>1, Moves
        <3>1. conns' = In(handler', Tracked)
            BY <2>1, <3>a, BookkeepingCounts DEF Tracked
        <3>2. current' = Cardinality(In(handler', Counted))
            BY <2>1, <3>a, BookkeepingCounts DEF Counted
        <3>3. wg' = Cardinality(In(handler', Waited))
            BY <2>1, <3>a, BookkeepingCounts DEF Waited
        <3>4. QED
            BY <3>1, <3>2, <3>3 DEF Bookkeeping, In, Tracked, Counted, Waited, Live, Serving
    <2>3. TypeOK'
        BY <2>1 DEF TypeOK
    <2>4. CloseWaitsForAll' /\ ClosedDropsAll' /\ \A g \in Closers : closer'[g] # "idle" => closed'
        BY <1>2, <2>1 DEF CloseWaitsForAll, ClosedDropsAll, Serving
    <2>5. Owned'
        BY <2>1 DEF Owned, TypeOK, Serving
    <2>6. QED
        BY <2>2, <2>3, <2>4, <2>5
<1>3. QED
    BY <1>1, <1>2 DEF TypeOK

LEMMA HandlerInvariant ==
    ASSUME TypeOK, LifecycleInv, NEW c \in Conns, HandlerReturns(c) \/ Untrack(c)
    PROVE  TypeOK' /\ LifecycleInv'
<1> USE DEF LifecycleInv
<1>1. PICK to \in {"delete", "count", "done", "gone"} :
          handler' = [handler EXCEPT ![c] = to] /\ handler[c] \notin {"none", "opening"}
    BY DEF HandlerReturns, Hung, Untrack, UntrackDelete, UntrackCount, UntrackDone, WgDone
<1>2. /\ \A x \in Conns : handler'[x] = IF x = c THEN to ELSE handler[x]
      /\ handler' \in [Conns -> {"none", "running", "opening", "delete", "count", "done", "gone"}]
    BY <1>1 DEF TypeOK
<1>3. UNCHANGED <<closed, lis, listening, serve, fresh, closer, hiccups>>
    BY DEF HandlerReturns, Hung, Untrack, UntrackDelete, UntrackCount, UntrackDone, WgDone
<1>4. /\ \A x \in Conns : sock'[x] = sock[x] \/ (x = c /\ sock'[x] = "closed")
      /\ handler[c] = "running" => sock'[c] = "closed"
      /\ sock' \in [Conns -> {"none", "queued", "open", "closed"}]
    BY DEF HandlerReturns, Hung, Untrack, UntrackDelete, UntrackCount, UntrackDone, WgDone, TypeOK
<1>5. Live(c)
    BY <1>1 DEF HandlerReturns, Hung, Untrack, UntrackDelete, UntrackCount, UntrackDone, WgDone, Live, Serving
<1>6. Bookkeeping' /\ wg' \in Nat /\ current' \in Nat
    <2> DEFINE from == handler[c]
    <2>a. ASSUME NEW S, from \in S <=> to \in S PROVE In(handler', S) = In(handler, S)
        BY <1>1, <2>a, Moves
    <2>b. ASSUME NEW S, from \in S, to \notin S
          PROVE  /\ In(handler', S) = In(handler, S) \ {c}
                 /\ Cardinality(In(handler', S)) = Cardinality(In(handler, S)) - 1
                 /\ Cardinality(In(handler, S)) - 1 \in Nat
        BY <1>1, <2>b, Moves
    <2> HIDE DEF from
    <2>1. CASE HandlerReturns(c)
        <3>1. from = "running" /\ to = "delete"
              /\ UNCHANGED <<conns, wg, current>>
            BY <1>2, <2>1 DEF HandlerReturns, Hung, from, TypeOK
        <3>2. \A S \in {Tracked, Counted, Waited} : In(handler', S) = In(handler, S)
            BY <2>a, <2>b, <3>1 DEF Tracked, Counted, Waited
        <3>3. QED
            BY <3>1, <3>2, BookkeepingCounts DEF Bookkeeping, In, Tracked, Counted, Waited, Live, TypeOK, Serving
    <2>2. CASE UntrackDelete(c)
        <3>1. from = "delete" /\ to = "count"
              /\ conns' = conns \ {c} /\ UNCHANGED <<wg, current>>
            BY <1>2, <2>2 DEF UntrackDelete, from, TypeOK
        <3>2. "delete" \in Tracked /\ "count" \notin Tracked
              /\ {"delete", "count"} \subseteq Counted /\ {"delete", "count"} \subseteq Waited
            BY DEF Tracked, Counted, Waited
        <3>3. In(handler', Tracked) = In(handler, Tracked) \ {c}
            BY <2>a, <2>b, <3>1, <3>2
        <3>4. In(handler', Counted) = In(handler, Counted) /\ In(handler', Waited) = In(handler, Waited)
            BY <2>a, <2>b, <3>1, <3>2
        <3>5. QED
            BY <3>1, <3>3, <3>4, BookkeepingCounts DEF Bookkeeping, In, Tracked, Counted, Waited, Live, TypeOK, Serving
    <2>3. CASE UntrackCount(c)
        <3>1. from = "count" /\ to = "done"
              /\ current' = current - 1 /\ UNCHANGED <<wg, conns>>
            BY <1>2, <2>3 DEF UntrackCount, from, TypeOK
        <3>2. "count" \notin Tracked /\ "done" \notin Tracked /\ {"count", "done"} \subseteq Waited
              /\ "count" \in Counted /\ "done" \notin Counted
            BY DEF Tracked, Counted, Waited
        <3>3. In(handler', Tracked) = In(handler, Tracked) /\ In(handler', Waited) = In(handler, Waited)
            BY <2>a, <2>b, <3>1, <3>2
        <3>4. /\ Cardinality(In(handler', Counted)) = Cardinality(In(handler, Counted)) - 1
              /\ Cardinality(In(handler, Counted)) - 1 \in Nat
            BY <2>a, <2>b, <3>1, <3>2
        <3>5. QED
            BY <3>1, <3>3, <3>4, BookkeepingCounts
            DEF Bookkeeping, In, Tracked, Counted, Waited, Live, TypeOK, Serving
    <2>4. CASE UntrackDone(c)
        <3>1. from = "done" /\ to = "gone"
              /\ wg' = wg - 1 /\ UNCHANGED <<current, conns>>
            BY <1>2, <2>4 DEF UntrackDone, WgDone, from, TypeOK
        <3>2. "done" \notin Tracked /\ "gone" \notin Tracked /\ "done" \notin Counted /\ "gone" \notin Counted
              /\ "done" \in Waited /\ "gone" \notin Waited
            BY DEF Tracked, Counted, Waited
        <3>3. In(handler', Tracked) = In(handler, Tracked) /\ In(handler', Counted) = In(handler, Counted)
            BY <2>a, <2>b, <3>1, <3>2
        <3>4. /\ Cardinality(In(handler', Waited)) = Cardinality(In(handler, Waited)) - 1
              /\ Cardinality(In(handler, Waited)) - 1 \in Nat
            BY <2>a, <2>b, <3>1, <3>2
        <3>5. QED
            BY <3>1, <3>3, <3>4, BookkeepingCounts
            DEF Bookkeeping, In, Tracked, Counted, Waited, Live, TypeOK, Serving
    <2>5. QED
        BY <2>1, <2>2, <2>3, <2>4 DEF Untrack
<1>7. conns' \subseteq Conns
    BY DEF HandlerReturns, Hung, Untrack, UntrackDelete, UntrackCount, UntrackDone, WgDone, TypeOK
<1>8. TypeOK'
    BY <1>2, <1>3, <1>4, <1>6, <1>7 DEF TypeOK
<1>9. CloseWaitsForAll' /\ \A g \in Closers : closer'[g] # "idle" => closed'
    BY <1>3, <1>5 DEF CloseWaitsForAll
<1>10. ClosedDropsAll'
    BY <1>1, <1>2, <1>3, <1>4 DEF ClosedDropsAll, Serving
<1>11. Owned'
    BY <1>1, <1>2, <1>3, <1>4 DEF Owned, TypeOK, Serving
<1>12. QED
    BY <1>6, <1>8, <1>9, <1>10, <1>11

\* Getting stuck in an open, or free of it, is no change to anybody else.
LEMMA OpeningInv ==
    ASSUME TypeOK, LifecycleInv, NEW c \in Conns, Blocks(c) \/ FifoOpened(c)
    PROVE  TypeOK' /\ LifecycleInv'
<1> USE DEF LifecycleInv
<1>1. PICK to \in {"running", "opening"} :
          handler' = [handler EXCEPT ![c] = to] /\ handler[c] \in {"running", "opening"}
    BY DEF Blocks, FifoOpened
<1>2. /\ \A x \in Conns : handler'[x] = IF x = c THEN to ELSE handler[x]
      /\ handler' \in [Conns -> {"none", "running", "opening", "delete", "count", "done", "gone"}]
    BY <1>1 DEF TypeOK
<1>3. UNCHANGED <<closed, lis, conns, wg, current, listening, sock, serve, fresh, closer, hiccups>>
    BY DEF Blocks, FifoOpened
<1>4. \A x \in Conns : /\ Serving(x)' <=> Serving(x)
                       /\ handler'[x] = handler[x] \/ (Serving(x) /\ Serving(x)')
    BY <1>1, <1>2 DEF Serving
<1>5. Bookkeeping'
    <2>1. \A S \in {Tracked, Counted, Waited} : handler[c] \in S /\ to \in S
        BY <1>1 DEF Tracked, Counted, Waited
    <2>2. \A S \in {Tracked, Counted, Waited} : In(handler', S) = In(handler, S)
        BY <1>1, <2>1, Moves
    <2>3. QED
        BY <1>3, <2>2, BookkeepingCounts DEF Bookkeeping, In, Tracked, Counted, Waited, Live, Serving
<1>6. TypeOK'
    BY <1>2, <1>3 DEF TypeOK
<1>7. CloseWaitsForAll' /\ \A g \in Closers : closer'[g] # "idle" => closed'
    BY <1>3, <1>4 DEF CloseWaitsForAll, Live
<1>8. ClosedDropsAll'
    BY <1>3, <1>4 DEF ClosedDropsAll
<1>9. fresh # NoConn => handler'[fresh] = "none"
    BY <1>4, LifecycleAssumption DEF Owned, TypeOK, Serving
<1>10. Owned'
    BY <1>3, <1>4, <1>9 DEF Owned, TypeOK, Serving
<1>11. QED
    BY <1>3, <1>5, <1>6, <1>7, <1>8, <1>10

LEMMA CloseInv ==
    ASSUME TypeOK, LifecycleInv, NEW g \in Closers, CloseMark(g) \/ CloseSteps(g)
    PROVE  TypeOK' /\ LifecycleInv'
<1> USE DEF LifecycleInv
<1>1. UNCHANGED <<lis, conns, wg, current, serve, fresh, handler, hiccups>>
    BY DEF CloseMark, CloseSteps, CloseListener, CloseReturns, AllGone
<1>2. Bookkeeping'
    BY <1>1, SameBooks
<1>3. CASE CloseMark(g)
    <2>1. /\ closed' /\ \A x \in Conns : sock'[x] = IF x \in conns THEN "closed" ELSE sock[x]
          /\ sock' \in [Conns -> {"none", "queued", "open", "closed"}]
        BY <1>3 DEF CloseMark, TypeOK
    <2>2. TypeOK'
        BY <1>1, <1>3, <2>1 DEF CloseMark, TypeOK
    <2>3. CloseWaitsForAll'
        BY <1>1, <1>3 DEF CloseMark, CloseWaitsForAll, Live, TypeOK, Serving
    <2>4. ClosedDropsAll'
        BY <1>1, <2>1 DEF ClosedDropsAll, Bookkeeping, Serving
    <2>5. fresh \notin conns
        BY LifecycleAssumption DEF Owned, Bookkeeping, TypeOK, Serving
    <2>6. Owned'
        BY <1>1, <2>1, <2>5 DEF Owned, TypeOK, Serving
    <2>7. QED
        BY <1>2, <2>1, <2>2, <2>3, <2>4, <2>6
<1>4. CASE CloseListener(g)
    <2>1. /\ closed' = closed
          /\ \A x \in Conns : sock'[x] = IF sock[x] = "queued" THEN "closed" ELSE sock[x]
          /\ sock' \in [Conns -> {"none", "queued", "open", "closed"}]
        BY <1>4 DEF CloseListener, ShutListener, TypeOK
    <2>2. TypeOK'
        BY <1>1, <1>4, <2>1 DEF CloseListener, ShutListener, TypeOK
    <2>3. CloseWaitsForAll' /\ \A h \in Closers : closer'[h] # "idle" => closed'
        BY <1>1, <1>4, <2>1 DEF CloseListener, CloseWaitsForAll, Live, TypeOK, Serving
    <2>4. ClosedDropsAll' /\ Owned'
        BY <1>1, <2>1 DEF ClosedDropsAll, Owned, TypeOK, Serving
    <2>5. QED
        BY <1>2, <2>2, <2>3, <2>4
<1>5. CASE CloseReturns(g)
    <2>1. UNCHANGED <<closed, listening, sock>>
        BY <1>5 DEF CloseReturns, AllGone
    <2>2. TypeOK'
        BY <1>1, <1>5, <2>1 DEF CloseReturns, AllGone, TypeOK
    <2>3. \A c \in Conns : ~Live(c)
        BY <1>5, NobodyLeft DEF CloseReturns, AllGone
    <2>4. CloseWaitsForAll' /\ \A h \in Closers : closer'[h] # "idle" => closed'
        BY <1>1, <1>5, <2>1, <2>3 DEF CloseReturns, AllGone, CloseWaitsForAll, Live, TypeOK, Serving
    <2>5. ClosedDropsAll' /\ Owned'
        BY <1>1, <2>1 DEF ClosedDropsAll, Owned, Serving
    <2>6. QED
        BY <1>2, <2>2, <2>4, <2>5
<1>6. QED
    BY <1>3, <1>4, <1>5 DEF CloseSteps

LEMMA DialInv ==
    ASSUME TypeOK, LifecycleInv, NEW c \in Conns, Dial(c)
    PROVE  TypeOK' /\ LifecycleInv'
<1> USE DEF LifecycleInv
<1>1. UNCHANGED <<closed, conns, wg, current, serve, fresh, handler, closer>>
    BY DEF Dial
<1>2. \A x \in Conns : sock'[x] = IF x = c THEN "queued" ELSE sock[x]
    BY DEF Dial, TypeOK
<1>3. Bookkeeping'
    BY <1>1, SameBooks
<1>4. TypeOK'
    BY DEF Dial, TypeOK
<1>5. CloseWaitsForAll' /\ \A g \in Closers : closer'[g] # "idle" => closed'
    BY <1>1 DEF CloseWaitsForAll, Live, Serving
<1>6. sock[c] = "none" /\ handler[c] = "none" /\ c # fresh
    BY LifecycleAssumption DEF Dial, Owned, Serving
<1>7. ClosedDropsAll' /\ Owned'
    BY <1>1, <1>2, <1>6 DEF ClosedDropsAll, Owned, TypeOK, Serving
<1>8. QED
    BY <1>3, <1>4, <1>5, <1>7

-----------------------------------------------------------------------------
(* The theorems. *)

LEMMA LifecycleStart ==
    ASSUME Init
    PROVE  TypeOK /\ LifecycleInv
<1>1. TypeOK
    <2>1. hiccups \in 0..MaxHiccups
        BY LifecycleAssumption DEF Init
    <2>2. QED
        BY <2>1 DEF Init, TypeOK
<1>2. \A c \in Conns : handler[c] = "none" /\ sock[c] = "none"
    BY DEF Init
<1>3. Bookkeeping
    <2>1. In(handler, Tracked) = {} /\ In(handler, Counted) = {} /\ In(handler, Waited) = {}
        BY <1>2 DEF In, Tracked, Counted, Waited
    <2>2. QED
        BY <2>1, FS_EmptySet, BookkeepingCounts DEF Init
<1>4. CloseWaitsForAll /\ ClosedDropsAll /\ Owned
    BY <1>2 DEF Init, CloseWaitsForAll, ClosedDropsAll, Owned, Serving
<1>5. QED
    BY <1>1, <1>3, <1>4 DEF LifecycleInv, Init

LEMMA LifecycleStep ==
    ASSUME TypeOK, LifecycleInv, [Next]_vars
    PROVE  TypeOK' /\ LifecycleInv'
<1>1. CASE Serve
    BY <1>1, ServeInv, TrackInv DEF Serve
<1>2. CASE \E c \in Conns : Dial(c) \/ Blocks(c) \/ FifoOpened(c) \/ HandlerReturns(c) \/ Untrack(c)
    BY <1>2, DialInv, OpeningInv, HandlerInvariant
<1>3. CASE \E g \in Closers : CloseMark(g) \/ CloseSteps(g)
    BY <1>3, CloseInv
<1>4. CASE UNCHANGED vars
    BY <1>4, SameBooks DEF vars, TypeOK, LifecycleInv, CloseWaitsForAll, ClosedDropsAll, Owned, Live, Serving
<1>5. QED
    BY <1>1, <1>2, <1>3, <1>4 DEF Next, Finished

\* Serve, the handlers and Close keep their types and their invariant: the two
\* are inductive together, since the counters stay natural only because they
\* count handlers.
THEOREM ServerCorrect == Spec => [](TypeOK /\ LifecycleInv)
<1>1. Init => TypeOK /\ LifecycleInv
    BY LifecycleStart
<1>2. TypeOK /\ LifecycleInv /\ [Next]_vars => TypeOK' /\ LifecycleInv'
    BY LifecycleStep
<1>3. QED
    BY <1>1, <1>2, PTL DEF Spec

-----------------------------------------------------------------------------
(* The same in a process that may be bserve. *)

LEMMA ProcessStep ==
    ASSUME [BserveNext]_bserveVars
    PROVE  [Next]_vars \/ Exit
<1>1. CASE \E g \in Closers : Running(CallClose(g)) \/ Running(CloseSteps(g))
    BY <1>1 DEF Next, Running, CallClose
<1>2. CASE \E c \in Conns : Running(Dial(c)) \/ Running(Blocks(c)) \/ Running(FifoOpened(c))
                           \/ Running(HandlerReturns(c)) \/ Running(Untrack(c))
    BY <1>2 DEF Next, Running
<1>3. QED
    BY <1>1, <1>2 DEF BserveNext, Boot, Signal, Running, Next, Over, bserveVars

\* Exit closes sockets that nobody is looking at any more.
LEMMA ExitInv ==
    ASSUME TypeOK, LifecycleInv, Exit
    PROVE  TypeOK' /\ LifecycleInv'
<1>1. /\ serve = "returned" /\ listening' = FALSE
      /\ UNCHANGED <<closed, lis, conns, wg, current, serve, fresh, handler, closer, hiccups>>
      /\ \A c \in Conns : sock'[c] = IF sock[c] = "none" THEN "none" ELSE "closed"
      /\ sock' \in [Conns -> {"none", "queued", "open", "closed"}]
    BY DEF Exit
<1>2. TypeOK'
    BY <1>1 DEF TypeOK
<1>3. Bookkeeping'
    BY <1>1, SameBooks DEF LifecycleInv
<1>4. fresh = NoConn /\ Owned'
    BY <1>1 DEF LifecycleInv, Owned, TypeOK, Serving
<1>5. ClosedDropsAll'
    BY <1>1 DEF LifecycleInv, ClosedDropsAll, Owned, Serving
<1>6. QED
    BY <1>1, <1>2, <1>3, <1>4, <1>5 DEF LifecycleInv, CloseWaitsForAll, Live, Serving

LEMMA SignalStep ==
    ASSUME TypeOK, LifecycleInv, SignalInv, [BserveNext]_bserveVars
    PROVE  SignalInv'
<1>1. CASE Boot \/ Signal \/ Exit \/ UNCHANGED bserveVars
    BY <1>1 DEF SignalInv, OnlyOnSignal, Boot, Signal, Exit, bserveVars, vars, procVars
<1>2. CASE Running(Serve)
    BY <1>2 DEF SignalInv, OnlyOnSignal, Running, Serve, ServeStart, ShutListener, Accept, AcceptFails,
       AfterFailure, Track, Refuses, Reject, procVars
<1>3. CASE \E c \in Conns : Running(Dial(c)) \/ Running(Blocks(c)) \/ Running(FifoOpened(c))
                           \/ Running(HandlerReturns(c)) \/ Running(Untrack(c))
    BY <1>3 DEF SignalInv, OnlyOnSignal, Running, Dial, Blocks, FifoOpened, HandlerReturns, Untrack, UntrackDelete,
       UntrackCount, UntrackDone, procVars
<1>4. CASE \E g \in Closers : Running(CallClose(g)) \/ Running(CloseSteps(g))
    BY <1>4 DEF SignalInv, OnlyOnSignal, LifecycleInv, Running, CallClose, CloseMark, CloseSteps,
       CloseListener, ShutListener, CloseReturns, procVars
<1>5. QED
    BY <1>1, <1>2, <1>3, <1>4 DEF BserveNext, Over

\* The server's types and its invariant outlive the process around it, bserve or
\* any other.
THEOREM ProcessCorrect == BserveSpec => [](TypeOK /\ LifecycleInv)
<1>1. BserveInit => TypeOK /\ LifecycleInv
    BY LifecycleStart DEF BserveInit
<1>2. TypeOK /\ LifecycleInv /\ [BserveNext]_bserveVars => TypeOK' /\ LifecycleInv'
    BY ProcessStep, LifecycleStep, ExitInv
<1>3. QED
    BY <1>1, <1>2, PTL DEF BserveSpec

\* Once some Close has returned there is no handler left, at any later time too:
\* wg.Wait in Close really waits for all of them.
THEOREM CloseIsFinal == Spec \/ BserveSpec => []CloseWaitsForAll
<1>1. LifecycleInv => CloseWaitsForAll
    BY DEF LifecycleInv
<1>2. QED
    BY <1>1, ServerCorrect, ProcessCorrect, PTL

\* A connection accepted while Close runs does not slip through: its handler
\* finds it closed.
THEOREM CloseReachesEveryHandler == Spec \/ BserveSpec => []ClosedDropsAll
<1>1. LifecycleInv => ClosedDropsAll
    BY DEF LifecycleInv
<1>2. QED
    BY <1>1, ServerCorrect, ProcessCorrect, PTL

\* No open connection is without somebody who will close it.
THEOREM ConnectionsAreOwned == Spec \/ BserveSpec => []Owned
<1>1. LifecycleInv => Owned
    BY DEF LifecycleInv
<1>2. QED
    BY <1>1, ServerCorrect, ProcessCorrect, PTL

LEMMA NeverRises ==
    ASSUME TypeOK, closed, Next
    PROVE  wg' <= wg
<1>1. wg' = wg \/ wg' = wg - 1
    <2>1. CASE Serve
        BY <2>1 DEF Serve, ServeStart, Accept, AcceptFails, AfterFailure, Track, Refuses, Reject, Hung
    <2>2. CASE \E c \in Conns : Dial(c) \/ Blocks(c) \/ FifoOpened(c) \/ HandlerReturns(c) \/ Untrack(c)
        BY <2>2 DEF Dial, Blocks, FifoOpened, HandlerReturns, Hung, Untrack, UntrackDelete, UntrackCount, UntrackDone, WgDone
    <2>3. CASE \E g \in Closers : CloseMark(g) \/ CloseSteps(g)
        BY <2>3 DEF CloseMark, CloseSteps, CloseListener, CloseReturns, AllGone
    <2>4. CASE Finished
        BY <2>4 DEF Finished, vars
    <2>5. QED
        BY <2>1, <2>2, <2>3, <2>4 DEF Next
<1>2. wg \in Nat
    BY DEF TypeOK
<1>3. QED
    BY <1>1, <1>2

\* track never adds to the WaitGroup once Close may be waiting on it.
THEOREM WaitGroupRule == Spec \/ BserveSpec => NoAddDuringWait
<1>1. TypeOK /\ [Next]_vars => [closed => wg' <= wg]_vars
    BY NeverRises
<1>2. TypeOK /\ [BserveNext]_bserveVars => [closed => wg' <= wg]_vars
    <2>1. TypeOK /\ Exit => wg' <= wg
        BY DEF Exit, TypeOK
    <2>2. QED
        BY <1>1, <2>1, ProcessStep
<1>3. QED
    BY <1>1, <1>2, ServerCorrect, ProcessCorrect, PTL DEF Spec, BserveSpec, NoAddDuringWait

\* bserve never ends with status 0 of its own accord.
THEOREM ExitNeedsSignal == BserveSpec => []OnlyOnSignal
<1>1. BserveInit => SignalInv
    BY DEF BserveInit, Init, SignalInv, OnlyOnSignal
<1>2. TypeOK /\ LifecycleInv /\ SignalInv /\ [BserveNext]_bserveVars => SignalInv'
    BY SignalStep
<1>3. SignalInv => OnlyOnSignal
    BY DEF SignalInv
<1>4. QED
    BY <1>1, <1>2, <1>3, ProcessCorrect, PTL DEF BserveSpec
=============================================================================
