--------------------------------- MODULE Tap ---------------------------------
(***************************************************************************)
(* wire.Tap, the passive tap behind bcurl -v: both directions of a           *)
(* connection are fed to it in whatever pieces Read and Write moved, and it  *)
(* reports whole frames, numbered across both directions, and raw bytes that *)
(* form no frame.                                                            *)
(***************************************************************************)
EXTENDS WireBytes

CONSTANT RawPreview    \* rawPreview: how many unframed bytes one report shows

ASSUME TapAssumption == RawPreview \in Nat \ {0}

VARIABLES
    held,     \* framer.buf of each direction
    broken,   \* framer.broken
    feeding,  \* the direction whose framer.feed is in its loop and holds Tap.mu, or "none"
    seq,      \* Tap.seq
    log,      \* the reports of each direction, in the order they were printed
    flushed   \* Flush has run

tapVars == <<held, broken, feeding, seq, log, flushed>>

Dirs == {"sent", "recv"}

TapInit ==
    /\ held = [d \in Dirs |-> <<>>]
    /\ broken = [d \in Dirs |-> FALSE]
    /\ feeding = "none" /\ seq = 0
    /\ log = [d \in Dirs |-> <<>>]
    /\ flushed = FALSE

\* How many bytes of a direction its reports are about.
Told(d) == IF log[d] = <<>> THEN 0 ELSE Last(log[d]).at + Last(log[d]).count

\* printFrame and printRaw.  A report is about count bytes, of which it shows
\* some or all; at, which is not printed, counts the bytes before them.
Shown(b) == IF Len(b) > RawPreview THEN SubSeq(b, 1, RawPreview) ELSE b
FrameReport(d, b) ==
    [kind |-> "frame", num |-> seq + 1, bytes |-> b, at |-> Told(d), count |-> Len(b)]
RawReport(d, b) ==
    [kind |-> "raw", num |-> 0, bytes |-> Shown(b), at |-> Told(d), count |-> Len(b)]

Prints(d, r) == log' = [log EXCEPT ![d] = Append(@, r)]

\* Tap.feed takes the lock: b crossed the connection in direction d.
Feed(d, b) ==
    /\ feeding = "none"
    /\ IF broken[d]
       THEN Prints(d, RawReport(d, b)) /\ UNCHANGED <<held, feeding>>
       ELSE held' = [held EXCEPT ![d] = @ \o b] /\ feeding' = d /\ UNCHANGED log
    /\ UNCHANGED <<broken, seq, flushed>>

\* Bug: a complete frame has to wait for one byte more.
CompleteByOne(b) == Len(b) >= HeaderSize /\ Len(b) > HeaderSize + b[1]

Complete(b) == Len(b) >= HeaderSize /\ Len(b) >= HeaderSize + b[1]

\* Bug: any length is believed.
UnreadableNever(b) == FALSE

Unreadable(b) == Len(b) >= HeaderSize /\ b[1] > MaxPayload

\* The loop of framer.feed: a length no frame may have ends it, and with it the
\* framing of this direction; so does a frame that is not complete yet, which
\* waits for the next bytes; a complete frame is printed and leaves the buffer.
FeedBroken(d) ==
    /\ feeding = d /\ Unreadable(held[d])
    /\ broken' = [broken EXCEPT ![d] = TRUE]
    /\ Prints(d, RawReport(d, held[d]))
    /\ held' = [held EXCEPT ![d] = <<>>]
    /\ feeding' = "none"
    /\ UNCHANGED <<seq, flushed>>

FeedDone(d) ==
    /\ feeding = d /\ ~Unreadable(held[d]) /\ ~Complete(held[d])
    /\ feeding' = "none"
    /\ UNCHANGED <<held, broken, seq, log, flushed>>

FeedFrame(d) ==
    /\ feeding = d /\ ~Unreadable(held[d]) /\ Complete(held[d])
    /\ LET total == HeaderSize + held[d][1] IN
        /\ Prints(d, FrameReport(d, SubSeq(held[d], 1, total)))
        /\ held' = [held EXCEPT ![d] = SubSeq(@, total + 1, Len(@))]
    /\ seq' = seq + 1
    /\ UNCHANGED <<broken, feeding, flushed>>

FeedLoop == \E d \in Dirs : FeedBroken(d) \/ FeedDone(d) \/ FeedFrame(d)

\* Tap.Flush, when the connection is over.
Flush ==
    /\ feeding = "none" /\ ~flushed /\ flushed' = TRUE
    /\ log' = [d \in Dirs |-> IF held[d] = <<>> THEN log[d] ELSE Append(log[d], RawReport(d, held[d]))]
    /\ held' = [d \in Dirs |-> <<>>]
    /\ UNCHANGED <<broken, feeding, seq>>
=============================================================================
