# A verification of BHTTP/1 in TLA+

BHTTP/1 is a small binary protocol for fetching files over one persistent TCP
connection, with a server (`bserve`), a client (`bcurl`) and a proxy that makes
life hard for clients (`bchaos`), written in Go. This directory holds TLA+
modules translated from that code, the TLC configurations that check them on
small instances, and theorems proved with TLAPS. `PROJECT.json` lists the
components, runs, mutants, the source lines behind every definition, the
hazards the properties are aimed at, and the theorems.

    tlc -workers 2 -config MCBcurl.cfg MCBcurl
    tlapm ServerProofs.tla

## 1. The system

| Part | State | Operations | Talks to |
|---|---|---|---|
| frame codec (`internal/frame`) | the reader's buffer and what it still wants | `Encode`, `Write`, `Read` | any connection |
| payloads (`internal/protocol`) | none | encode/decode of request, response, headers, error | frames |
| connection handler (`internal/server` `handle`, `serveRequest`, `sendFile`) | input buffer, open file, reply in progress | one loop: read a frame, answer it; fail, drain, close | peer, file system, `Server.Close` |
| server lifecycle (`Serve`, `track`, `untrack`, `Close`) | `closed`, `lis`, `conns`, `wg`, `current` | accept, start and end handlers, close everything | handlers, callers of `Close` |
| resolver (`resolver.go`) | the root | path rules, symlinks, open | file system |
| client (`internal/client`) | `next`, `exhausted`, `broken` | `Get`, `Close` | peer, the caller's writer |
| wire tap (`internal/wire`) | two reassembly buffers, a sequence number | `Read`/`Write` feed it, `Flush` | whoever uses the connection |
| chaos proxy (`internal/chaos`) | the frame being relayed | two goroutines per connection | client, server |
| programs (`cmd/...`) | flags | arguments, signals, exit codes | the packages |

What makes the system hard:

* *Interleaving.* A handler shares its connection with a peer that does what it
  likes and with `Server.Close`, which closes the socket under it; the served
  files change while they are sent; `Serve`, handlers and `Close` share a table,
  a counter and a `WaitGroup`, updated in steps; the proxy copies two directions
  at once.
* *Partial failure.* A write may stop inside a frame, a file may fail after its
  length was announced, a deadline may pass inside a frame, the caller's writer
  may fail in the middle of a body.
* *Ordering and ending.* Which of several errors a frame leads to, what may
  still be sent afterwards, and whether a report survives the close that follows.
* *Boundaries.* The last stream id, empty files, files that are a multiple of
  the payload limit, input that ends right after a header, 255 headers, lengths at
  the limits of 16 and 64 bits.
* *Stale looks.* The resolver asks the file system about a path several times, once
  for each name while links are followed, then to stat and to open it; the tree may
  change between two questions.
* *Waiting.* Every read and write on a connection has a deadline, set anew for each
  frame; the open of a file has none, and a FIFO can hold it for ever.
* *Programs around it.* A signal closes the server from another goroutine while the
  main one exits as soon as `Serve` returns; the body is on standard output before
  it is known whether the exchange succeeds.

What makes each part correct:

* reader: what it returns depends on the bytes only, not on how they arrive;
* handler: each frame is answered once, in order, on its stream; a response that
  looks complete is complete; a report or torn frame is the last output; a peer that
  sends nothing more does not hold it;
* lifecycle: no connection escapes `Close`; `Close` and `Serve` return;
* client: only a whole answer to its own request is returned, one failure ends
  the connection; the wait for each frame is bounded (the wait for a response is
  not: a server may send DATA without END_STREAM as long as it likes, and every
  frame renews the deadline, `client.go` 115-128 and 172);
* both together: what `Get` returns is a file the server had, or an honest
  failure, and `Get` returns;
* tap: every byte is reported once, as the frames it really forms;
* proxy: what the client understands is what the server said;
* payloads: decoding accepts exactly the layout, and undoes encoding;
* resolver: the answer is that of one moment, never a file outside the root;
* programs: they end, and their exit status is the truth.

## 2. Modules

### Frames and connections

`Frames` is the vocabulary: a frame is a record of its decoded fields. `shape`
tells a frame that arrives from one that is cut short or declares too much.
`Verdict` is the sequence of checks in `frame.Read`, `Encodable` those of
`frame.Encode`, `Reported` whether a fault may be answered (never when it is an
oversized ERROR). A byte of a body is the pair of file and offset it was read
from, so that a property can say where it came from; a payload that does not
decode is `Malformed`, or status 0 in a response.

`Transport` is one TCP connection as both programs use it (external). Each
direction is a log of frames with a position, a half-close, a close and a reset.
At most `Window` frames are under way before a writer blocks. A failing write may
leave a cut frame; closing with unread input may reset the peer; a reset may hide
what was still unread. `Faults` says which faults can happen: `timeout`
(deadlines), `write` (failed or late writes), `io` (file and writer errors),
`drop` (`Server.Close`), `fifo` (a path may name a FIFO).

### Server

`ServerConn` is `Server.handle` and all it calls. `spc` is its place: `read`
(`frame.Read` in the loop), `blocked` (in `os.Open` of a FIFO), `stat` (file open,
`f.Stat` next), `body` (the loop of `sendFile`), `send` (`Server.write` of `reply`),
`drain`, `close`, `done`.

| Action | Code |
|---|---|
| `SrvSkip`, `SrvStreamZero`, `SrvOversize`, `SrvReadEnds`, `SrvIdle` | what `frame.Read` returns, and `onReadError` |
| `SrvServeRequest`, `SrvStat` | `serveRequest` with the resolver's outcomes, `sendFile` up to the response |
| `SrvChunk`, `SrvBodyError` | one turn of the loop in `sendFile`; `bodyError` and `onServeError` |
| `SrvUnexpected`, `SrvPeerError` | the other cases of the switch in `handle` |
| `SrvWrite`, `SrvWriteFails` | `write`, `fail` |
| `SrvDrain`, `SrvDrainEnds`, `SrvClose` | `drain`, the deferred close |
| `SrvDrop`, `FsChange`, `FifoOpened` | `Server.Close` from another goroutine, whoever edits the files, and whoever opens the other end of a FIFO |

`drain` reads the connection itself and not the `bufio.Reader` the handler had
used, so frames already in that buffer are lost to it: `SrvWrite` of an ERROR
skips any number of frames under way. `Handler` states what the handler promises
about its output whoever is at the other end, with the invariant behind it.
`ServerPeer` puts the handler in front of a peer that sends any of `PeerFrames`,
reads or not, half-closes or closes.

`Lifecycle` is `Serve`, `track`, `untrack` and `Close`. What happens under
`Server.mu` is one action; `untrack` is three (table, counter, `Done`), `Close` is
three (mark and close connections, close the listener, wait). A handler is
"running" until it returns for any reason, or "opening" while `os.Open` keeps it
(`Blocks`, until `FifoOpened`); what else it does is `ServerConn`.
`Bserve` is the program around it: `Boot`
(arguments, root, port), `Signal`, the goroutine that calls `Close` (`CallClose`),
and `Exit` as soon as `Serve` has returned, which ends every goroutine wherever it
is. The same module also allows another program (`host = "other"`) that calls
`Close` from several goroutines and does not exit, as the package's tests do.

`Resolver` is `resolver.go`: `Check` (`checkPath`), then one action for each system
call. `within` is called for the path and, when that is a directory, for its index:
`Lstat` of one name after the other and `Readlink` of what was a link, as
`EvalSymlinks` does, and `Confirm`, the check that the result is under the root. The
others are `StatTarget`, `Open` and `StatHandle`. A tree is a function from places to
nodes: files, directories, links, FIFOs, and what permissions forbid. `Walk` is how a
single system call is led along a path (external). `TreeChange` is whoever edits the
tree between two of these steps: what is no directory may be created, replaced by a
rename, or removed, and a link may lead anywhere, out of the root too; directories
only appear where nothing was and disappear when empty.

`Codec` is `internal/protocol`: `Encoded` and `Buildable` for the three messages,
and the decoders one field per action, as the cursor takes them. A byte is a cell of
a smaller base: with 6 values instead of 256 the count byte ends at 5 headers and a
length of two cells at 35, so the limits of both are reached. `FormatInt`,
`ParseLength` and `Lengths` are what becomes of a size on its way into a header and
back in `checkLength`. `ServeRequest` joins the two: a payload is decoded, its path
resolved while the tree changes, and the head of the response encoded and decoded
by the client.

### Client

`ClientConn` is `client.Client`: `CliGet` (the checks and early returns of `Get`),
`CliSend`, `CliResponse`, `CliData` with `checkLength` (`LengthsAgree`),
`CliBodyWriteFails`, `CliStray` (`expect`), `CliRemoteError`, `CliReportable`,
`CliReadEnds` (`readFrame`), `CliReport`/`CliDrain` (`sendError`), `CliFail` (`fail`)
and `CliClose`. `results` is the history of what `Get` returned together with what was
handed to the caller's writer. `Client` has no lock and the program uses it from one
goroutine, so `Get` and `Close` do not overlap in the model. `Caller` states what the
client promises to its caller and to the connection, with the invariants behind it;
`ClientPeer` puts it in front of an arbitrary server. `Bcurl` is the program around
it, over `Session`: `ParseArgs` and `DialServer` with their failures, one Get,
`StatusOf`, the deferred close. Its other mode (`prog = "other"`) is a program that
calls Get twice.

### Both ends

`Session` joins `ServerConn` and `ClientConn` over one `Transport`. `Fetch` is the
abstract specification: no connection and no frames, only files that change and calls
of Get. A Get answered with 200 returns the first n bytes of a file the path named
between call and return, n being a length that file had in that time; 404 needs a
moment without a file; a failed Get has written at most a prefix of such a file and
ends the client. `Session` has two history variables for what path and lengths were
during the call; `ImplementsFetch` is `Fetch` with the mapping `busy <- cpc # "idle"`,
`path <- cur.path`, including its liveness, and `FetchesSafely` the part of it that
says what may happen.

### Bytes

`WireBytes` scales the 12-byte header down to one byte each for length, type,
flags and stream (lengths up to `MaxPayload`), and defines what a byte stream
means: `Framing` and `Meaning`, the reference for the three modules below, read from
the wire format with the whole stream in hand (`At` says what is at a place).
`FrameReader` is `frame.Read` called until it fails, with `io.ReadFull` and
`io.CopyN` taking from a `bufio.Reader` that is filled with whatever the connection
hands over. `Tap` is `Tap.feed` and `Flush` for both directions: `Feed` takes the
lock and appends to the buffer (`feeding` is the direction that holds it), and each
turn of the loop in `framer.feed` is a step: `FeedBroken`, `FeedFrame`, `FeedDone`. A
report carries the place of its bytes in its direction, which the code does not
print, so that properties can speak of it. The number both directions share (`seq`) is part
of the model, but no property is about it. `Wiretap` joins reader and tap as
`bcurl -v` does: the tap sees what the reader's buffer is filled with before the
reader goes on, what `sendError` drains past that buffer (`DrainRead`, after input
that `Offends`), and what `writeAll` writes, short writes included.
`Chaos` is `bchaos` and one `relay`: the start, the accept loop and its two ends
(`ServeReturns`), the dial, the pump with its reads, noise and pieces, the request
copy, the half-closes and the final closes. Relays share no state, so one is enough.

## 3. Runs

Each property has a mutant in `PROJECT.json`: a plausible bug in one mapped
definition under which TLC finds the property violated. The mutated forms stand
next to the originals, marked "Bug".

| Run | Question |
|---|---|
| `server_kinds` | Any two frames out of eleven kinds (good, refused, malformed, cut, oversized, unknown, stream zero, ERROR, ...), all faults of a connection and a FIFO: `AnsweredInOrder`, `EndsOnce`, `ErrorNeverAnswered`, `HandlerEnds`, and the invariant behind the proofs, `HandlerInv`, with `NeverInterleaved` in it |
| `server_files` | Three pipelined frames, requests, unknown and oversized ones, while one of two files is replaced, truncated or grown and reads fail, without deadlines: `BodyAsAnnounced`, `HandlerReportSurvives`, and `ReaderIsServed` (pipelining cannot make both sides wait for each other) |
| `client` | Three Gets on two stream ids, some unbuildable, and any three frames out of twenty kinds: answers that are mixed up, repeated, partial or with lengths that disagree, faults of every kind, with failing writes and a failing body writer: `BrokenForGood`, `OnlyWholeAnswers`, `IdsOnlyGrow`, `ReportSurvives`, `SilentAfterError` |
| `session_calm` | No faults but changing files: `ImplementsFetch`, `FailureExplained` (only the server's own report makes a Get fail), `ServerLetsGo` |
| `download` | `bcurl`, or a program with two Gets, with all faults at once, a FIFO, and refused and unbuildable paths: `ExitTellsTruth`, `BrokenForGood`, `FetchesSafely`, `GetReturns`, `BcurlEnds` |
| `wiretap` | Every stream of up to three frames of five kinds, or with one of four refused kinds among them, cut anywhere, and traffic in both directions, split over reads and writes in every way: `ChunksDoNotMatter`, `EveryByteReported`, `PiecesDoNotMatter`, `ShowsWhatIsRead` |
| `chaos_tidy` | Noise and small pieces, streams that end between frames or stop being frames, failing dials and an accept loop that ends: `SameMeaning`, `RelayEnds` |
| `chaos_torn` | A server that stops inside a frame: `TruncationShows` is **violated** |
| `bserve` | Three connections, two Closes, a passing failure of Accept, handlers that a FIFO holds, signals at any moment: `CloseWaitsForAll`, `LifecycleInv` (with `Bookkeeping`, `ClosedDropsAll` and `Owned`), `NoAddDuringWait`, `CloseEnds`, `NothingLeaks`, `ExitsOnSignal` |
| `request` | Messages at every limit and their near misses (cut, extended, one cell changed), 14 paths on trees of files, directories, links, FIFOs and forbidden places that change twice: `DecodesLayout`, `RoundTrip`, `OneMoment`, `FoundIsReal` |
| `request_escape` | The same paths and trees with one change, which may be a link out of the root: `ServedFromRoot` is **violated** |
| `request_fifo` | The same without changes: `RequestEnds` is **violated** |

What `request` says about a changing tree is exact about what the code does not
promise. Without links, or without changes, the answer is that of one moment
(`OneMoment`). With links that move, and one change, a file that is served is a regular
file, the one a place led to when it was opened, and the path, or the index of the
directory it named, had led to that place under the root before (`FoundIsReal`). But a
404 may be one that no moment justifies, when a file turns into a link to a directory
between `Stat` and `Open`; with two changes `EvalSymlinks` may find a way that never
existed as a whole; and by the time it is opened the place may lead out of the root
(`request_escape`).

What the "always ends" properties say, and what they do not:

* `HandlerEnds`: from any state the handler ends, or another frame of the peer comes,
  or the handler is in the open of a FIFO. A peer that goes on sending is served on
  and on, since every frame renews the deadline (`server.go` 166-191). The property
  counts frames, so it does not rest on the peer's running out of them.
* `GetReturns`: against the real handler, which stops at the length it announced. It
  would not hold against an arbitrary server (see above); `protocol/SPEC.md` 375-376
  expects clients to "bound how long they wait for a response", which the client does
  for each frame of it.
* `CloseEnds` excepts the end of the process, for `bserve` may exit while its `Close` is
  still waiting for handlers, because `Serve` returns first; and a handler that never
  leaves the open of a FIFO, because closing its connection does not wake it.
* `BcurlEnds` does not depend on the client's own read deadline alone: the server's
  deadlines end the connection as well; it does depend on a failed write ending the
  Get. The write to standard output (`client.go` 123) has no deadline and is taken to
  end.

### Bounds

* `MaxPayload` 1 or 2 with files of up to 3 bytes gives empty files, files of one
  frame, of exactly a multiple of the limit, and with a shorter last frame.
* `MaxStreamID` 2 or 3 lets a client use its last id and ask again.
* `Window` 1 or 2 lets both directions fill up.
* `MaxDrain` 1 or 2 lets a peer send less than, exactly and more than a drain accepts.
* `MaxPeerFrames` 2 or 3: two frames show every effect of one on the next; three are
  a response and two pieces of body, or what provokes a report with more behind it
  than the drain takes.
* `MaxFsOps` 0 where files do not matter, else 1 or 2: one change shrinks, grows or
  replaces the file in use, two (`session_calm`) replace it and truncate what it was
  replaced by.
* `MaxGets` 2 or 3: a Get after a success, after a failure, and after the ids are
  used up.
* `MaxHiccups` 1, three connections, two Closes: one connection in each of three
  different phases of accepting and ending while two Closes run.
* `Base` 6 in the codec: see above. Sizes go up to `MaxInt`, which has the most
  digits `checkLength` reads; statuses include both sides of both limits.
* `MaxChanges` 2 in the tree (1 in `request_escape`, 0 in `request_fifo`), `MaxLinks`
  3: a loop of links is given up, a chain of two is followed; places go two names
  deep, so a directory has an index that can itself be a directory, a link or missing.
* `RawPreview` 4 in the tap is less than the longest rest of a stream, so that
  previews are cut; `MaxAsk` is the number of request bytes through the proxy.

No symmetry is used: most runs check liveness.

### Fairness

* `ServerPeer`, `Session`: weak fairness of the handler's next step. Its goroutine
  runs, and every read and write carries a deadline; the deadlines themselves are
  the actions `SrvIdle`, `SrvWriteFails` and `SrvDrainEnds`, allowed only when
  `Faults` has them. Nothing is assumed of the peer, except in `SpecReader`, a
  peer that keeps reading, where there are no deadlines. Nobody has to open a FIFO.
* `ClientPeer`, `Session`, `Bcurl`: weak fairness of a Get in progress, for the same
  reason. Whether Get or Close is called is open; `bcurl` itself runs on to its exit.
* `Lifecycle`, `Bserve`: `Serve`, a Close that was called and the deferred calls run
  on. A handler returns *if its socket is closed and it does not stay in an open*: its
  reads and writes then fail, the next one after any open too. This is strong fairness
  of its return, since a handler that requests for FIFOs hold again and again is
  running in between. Nobody has to open a FIFO, and nothing is assumed of a handler
  whose socket is open, and that a signal arrives is not assumed either; the goroutine
  that waits for it wakes up.
* `ServeRequest`: decoding, `open` and the answer go on; nobody has to open the other
  end of a FIFO, and the tree changes or not.
* `Chaos`: accepting, dialling (which has a timeout) and the steps that do not wait
  for the client, and the server's hanging up
  once its input is finished. Writes towards the client have no deadline in that
  code, so none is fair: a client that neither reads nor hangs up holds its relay
  for ever.
* `Wiretap` states no liveness; it has no deadlock, so a stream is always read on to
  an ending.

### Findings

* `chaos_torn`: when the server stops inside a payload, `run` in
  `internal/chaos/chaos.go` passes on the whole buffer, although `ReadFull` filled
  only part of it. The client receives a complete frame, filled up with zeros,
  where the server had sent a truncated one. With END_STREAM and the announced
  length the download looks complete. A stream cut inside a *header* loses that part of
  it (`chaos.go` 114) and is passed on as a clean end; `Tidy`, the hypothesis of
  `SameMeaning`, leaves out both kinds of streams.
* `request_escape`: `protocol/SPEC.md` 287-289 says the server must not serve a path
  unless it lies inside the root. `within` checks that (`resolver.go` 109, 119), but
  `os.Open` (127) follows the path again: a regular file replaced by a link out of the
  root in between is answered with the file outside.
* `request_fifo`: the table in `protocol/SPEC.md` (300) answers what is not a regular file
  with 404. That check (`resolver.go` 136) follows `os.Open`, which waits on a FIFO until
  somebody opens the other end. The handler waits with it, and so does `Server.Close`.
* Not a run: the comment on `Client.Get` says every error means the connection is
  no longer usable. A request that cannot be built is the exception, as a comment
  in the body says; `BrokenForGood` states the rule as the code has it.

## 4. Proofs

`tlapm` checks the eight proof modules completely. What they prove holds for every
payload limit, stream id limit, window, file size, set of paths, files and faults,
and for any number of frames, Gets, connections, Closes and changes of the files:
the bounds of the runs are arbitrary naturals here. Byte streams have any length, and
any cells in them.

| Module | About | Theorems |
|---|---|---|
| `EndpointProofs` | `Transport`, then `ServerConn` with `Handler` and `ClientConn` with `Caller`, for any other end | (lemmas) |
| `ServerProofs` | `ServerPeer` | `TypeCorrect`, `HandlerCorrect`, `OutputEndsOnce`, `ResponsesInSequence`, `CompleteMeansComplete`, `ErrorsEndIt`, `AnswersInOrder`, `ReportsReach` |
| `ClientPeerProofs` | `ClientPeer` | `TypeCorrect`, `FailureIsFinal`, `IdsGrow`, `AnswersAreWhole`, `ErrorsEndIt`, `ReportsReach` |
| `SessionProofs` | `Session`, `Bcurl` | `SessionFetches`, `FailuresExplained`, `BcurlFetches`, `ExitIsTrue` |
| `LifecycleProofs` | `Lifecycle`, `Bserve` | `ServerCorrect`, `ProcessCorrect`, `CloseIsFinal`, `CloseReachesEveryHandler`, `ConnectionsAreOwned`, `WaitGroupRule`, `ExitNeedsSignal` |
| `WireProofs` | `WireBytes`: what a stream means, and how that changes when it grows | (lemmas) |
| `WiretapProofs` | `FrameReader`, `Tap`, `Wiretap` | `SplitReads`, `NothingUnseen`, `SameFramesInAnyPieces`, `ShownBeforeRead` |
| `ChaosProofs` | `Chaos` | `ProxyTransparent` |

The lemmas on handler and client assume of the other end only `OtherSide`: that it
writes in its own direction, reads from the other and leaves the rest alone. So the
same lemmas serve an arbitrary peer (`ServerPeer`, `ClientPeer`) and the real one
(`Session`, `Bcurl`).

### The handler

`EndsOnce`, `NeverInterleaved` and `BodyAsAnnounced` speak of the output only and are
not inductive: whether the next frame fits depends on where the handler is.
`HandlerInv` adds that. Between two exchanges the last frame sent carries END_STREAM
(`AtBoundary`). In the middle of a body the frames since the last RESPONSE are DATA
and reach as far as `file.off` (`MidBody`). A reply about to be written is an ERROR,
a RESPONSE at a boundary (`ResponseReady`) or DATA that continues the body
(`DataReady`). Once a final frame is out, the handler is beyond writing, or its
socket is closed. The ties to the output are needed only while both sockets are open,
since nothing is appended afterwards. Lemmas on appending one frame carry the
properties over a write, torn writes included; there is then one lemma per action.

`AnsweredInOrder` compares two rows, the frames taken that ask for an answer and the
RESPONSEs sent. `AnswerInv` adds that the handler is one answer behind from the frame
it took last until the RESPONSE is out (`Owing`), and level otherwise; the proof
follows the two cardinalities.

`HandlerReportSurvives` needs to know why `drain` ended (`ReportKept`): nothing more can
come, or it has discarded `MaxDrain`. A deadline or `Server.Close` may cut it short,
so the theorem assumes that neither is among the faults, as does the run.

### The client

* `BrokenInv`: an unbroken client has seen no failure, which is why a `broken` Get
  can only follow one that failed (`BrokenForGood`).
* `IdsInv`: `next` is ahead of every id used until the ids are exhausted, also while
  a request is being sent.
* `EndInv`: when an ERROR was taken, or an ERROR or a torn frame was sent, Get is past
  its last write. With it `SilentAfterError` holds of every step.
* `AnswersInv`: in the middle of a body, the frames since the RESPONSE are a `Stretch`
  without its end and their bytes are those handed to the caller (`Gathering`).
* `ReportDrained`: the counterpart of `ReportKept`, with the same assumption.

### Both ends

`SessionFetches` is the refinement `Spec => F!Safety`: an initial state maps to one,
and every step of either end is a step of `Fetch` or leaves its variables alone.
What `Get` is about to return depends on frames sent long ago, so `SessionInv` says
what can be under way. Between two Gets on a working client nothing is (`Quiet`). While
the client waits (`Midway`), either its request has not been taken and is all there is, or
every frame coming, and the handler's reply, is `Meant` for this Get: an
ERROR, or an answer that is `Truthful` about a file the path has named and a length it
has had since the call. After END_STREAM nothing more comes. What the caller has got is
the beginning of such a file (`GotBeginning`), as far as the last frame taken
(`GotSoFar`). That a 200 is a whole file then needs `BodyAsAnnounced` of the handler.

`FailuresExplained` assumes `Faults = {}`, as the run does, and is about what does
*not* happen: no read ends early, no write fails, no frame is out of place, no length
disagrees. `CalmInv` says why. The handler attends to a client that waits (`Attends`)
until its own report is out, and then that report is still to be read
(`ReportWaits`); everything on the wire is `Plain`; between two Gets the last frame
taken carried END_STREAM. A Get can then fail only by taking the report or before
its request went out (`Unsent`). The proof rests on the invariants of both ends:
`EndInv` (a report that was taken ended the Get), `IdsInv` (the id of a request that
was not sent is on no other), `HandlerInv` and `AnswersInv` (the body has the
announced length) and `ResetsFromClosed`.

`BcurlFetches` repeats the refinement for the program. `ExitIsTrue` is about all that was ever
sent, so `BcurlInv` adds that before the one Get has returned the first frame of the
output is the first of its answer (`Fresh`), and that afterwards nothing more comes
(`Brought`).

### The lifecycle

`ServerCorrect` proves types and `LifecycleInv` together, since `wg - 1` is a natural
number only because `wg` counts handlers (`Bookkeeping`) and one of them is at that step.
`CloseWaitsForAll` needs the same: `wg = 0` means that the set of live handlers is
empty, and that no new one starts needs `closed` to be set by every Close past
its first step. `Moves` is the one fact about cardinality: a handler that goes from
one place to another changes each count by one or not at all. `ProcessCorrect` repeats
it for a process that may exit at any point. `ExitNeedsSignal` is the safety half of
`ExitsOnSignal`; `SignalInv` adds that `Serve` returns only when the server was closed,
which in `bserve` happens after a signal. A handler that goes into an open or comes out
of it is served and counted as before (`OpeningInv`).

### Bytes

`Framing` and `Meaning` are functions defined by recursion over the places of a
stream. `WireProofs` first shows that such functions exist and satisfy their
equations (`Solved`, `FramingsEquation`, `ReadingsEquation`) and have the expected
values (`FramingsType`, `ReadingsType`). The library's induction theorems take an
operator as a parameter, which no prover here can instantiate. The induction is done
with sets instead: a set of places that reaches downwards from the end contains
them all (`Descend`; `Ascend` for the other direction), because the set of
exceptions would have a least element (`Least`, from well-foundedness). A frame that is
whole stays the same frame in every longer stream (`LongerFrame`), and so does a
length nobody accepts (`LongerOversize`).

*Reader.* `ReaderInv` relates what `frame.Read` has returned to the whole input: what
the stream means is what was returned followed by what it means from the frame in
progress on; what is drained is not read (`DrainKeeps`). Where that frame began
follows from the stage: the header read so far (`InHeader`), the header and part of a
payload (`InPayload`), or the number of bytes still to be skipped (`InDiscard`).
`SplitReads` follows at an ending, where nothing is left to mean.

*Tap.* `DirInv` holds for each direction. Reports lie end to end and `held` is the
rest (`Accounted`); while the direction is open the reports are the first frames of
*every* longer stream (`Open`), which is what makes the next piece harmless; after
an unreadable length they are all frames of every longer stream (`Shut`); after
`Flush` nothing follows (`Over`).

*Both.* Client and tap split the same bytes with different code. `LinkInv` says that
the reader has dealt with exactly the first m reports, that what it returned is
`Understood` from them, and that it is in the frame that begins where they end
(`Linked`, `Place`). When feed has returned, the reports reach up to the first thing
in the stream that is no whole frame (`CaughtUp`), so a reader whose buffer is empty
has dealt with all of them.

*Proxy.* What has been written to the client, with what `send` has still to write,
stands for the bytes of the server dealt with so far in one of two ways. Either
whatever comes after it is read as if it came after those bytes (`Carries`), or what
comes is not looked at any more, because a receiver has found a length nobody accepts
or a stream zero (`Fixed`). A noise frame keeps both (`NoiseCarries`), a frame of the
server moves the place on (`FrameCarries`), an oversized header fixes everything
(`OversizeFixes`). `PumpInv` has one of the two for each place of `pump.run`, with the
header and body already read. Half-written frames are harmless since a stream means
at least what its beginning means (`ReadingsGrow`, `GoodPrefix`). `ProxyTransparent`
assumes `Tidy`: without it the code violates the property (`chaos_torn`). The noise is
any set of whole frames of unknown types, which is what `inject` makes.

### Assumptions, and what is only model-checked

The assumptions are those on the constants (`FramesAssumption`,
`TransportAssumption`, `ServerAssumption`, `ClientAssumption`, the two
`PeerAssumption`, `LifecycleAssumption`, `BserveAssumption`, `WireAssumption`,
`TapAssumption`, `TrafficAssumption`, `ChaosAssumption`); TLC evaluates them in the
runs, and `TidyAssumption`, that the streams of `chaos_tidy` satisfy the hypothesis of
`ProxyTransparent`.

Only model-checked are

* all liveness: `HandlerEnds`, `ReaderIsServed`, `GetReturns`, `ServerLetsGo`,
  `BcurlEnds`, `CloseEnds`, `NothingLeaks`, `RelayEnds`, the first half
  of `ExitsOnSignal` and the fairness in `ImplementsFetch`: liveness under fairness is
  beyond the prover used here;
* `ServeRequest`: `DecodesLayout`, `RoundTrip`, `OneMoment` and `FoundIsReal`. A decoder
  is compared with every way to cut a payload up into fields, lengths are digits in a
  base, and a path is walked by a function of three arguments with links in between.
  Each of these needs a theory of its own, as `WireProofs` is one for byte streams, and
  `FoundIsReal` is true of one change of the tree only;
* `TruncationShows`, `ServedFromRoot` and `RequestEnds`, which the code violates.

## 5. Not modelled

* Deadlines as time: a deadline may pass at any moment. That the idle deadline is
  set once per `frame.Read`, so that unknown frames do not extend it, is not seen.
* The bytes within a header field, and the reserved bytes: a field is one cell. UTF-8
  is a set of allowed cells, so characters of several bytes are not seen.
* Names and wording: which flags and targets the programs accept is one choice
  between refusing and going on; Windows' own rules for names appear only as far as
  `checkPath` anticipates them.
* `ServerConn` uses the resolver's four outcomes in one step; `Resolver` shows what
  stands behind them, and the two are not joined in one state space.
* Delays in the proxy; content types, logging and the text layout of dumps: no
  property depends on them.
* The Python tools and examples, which are not part of the programs.

## 6. Plan

Done: frames, transport, handler, client, session and abstract specification,
programs, payloads, resolver, reader, tap, proxy, lifecycle; proofs about handler,
client, both together, `bcurl`, lifecycle, `bserve`, reader, tap and proxy. Every
safety property of the runs outside `request` is a theorem.

Next: a module with a clock for the deadline that `handle` sets once per `frame.Read`;
a theory of the codec's layouts, for a proof of `RoundTrip` by the same induction as
for the byte streams.
