# A verification of the Rust TCP/HTTP server

The repository is one small HTTP/1.1 server core (`core/`) and a family of
concurrency models that drive it (`server/src/models/`): iterative, forking,
preforked, thread-per-connection, thread-pool, poll, epoll level- and
edge-triggered, an event loop, a multi-reactor and io_uring. A load generator
(`loadgen/`) and benchmark scripts measure them. This directory holds TLA+
modules of the parts that decide whether the server is correct, TLC
configurations that check them on small instances, and TLAPS proofs of their
safety properties for every value of the constants.

    tlc -workers 2 -config Reactor_edge.cfg MCReactor   # one run
    tlapm ReactorProofs.tla                             # one module's proofs

`PROJECT.json` lists the components, the runs, the mutants, the source lines of
every definition, the findings, the hazards and the theorems.

## 1. Inventory

| Component | State | Operations | Interacts with |
|---|---|---|---|
| Request parser, `core/src/http/request.rs`, `headers.rs`, `limits.rs` | buffer, parse state, line and scan indices, header count, declared length | `push`, `reset` | called by Connection |
| Sans-IO connection, `core/src/conn.rs` | Reading/Writing/Closed, parser, write buffer and position, deadline | `new`, `on_bytes`, `pending_write`, `on_written`, `is_expired` | called by every driver |
| Blocking loop, `models/blocking.rs`, `iterative.rs` | one socket and one Connection | read, write, return | peer; the five blocking models call it |
| Epoll reactor, `reactor.rs`, `models/epoll.rs`, `event_io.rs`, `sys/epoll.rs`, `sys/conn_table.rs` | connection table, recorded interests, listener flag, current batch | `run`, `accept_ready`, `drive`, `drive_io`, `apply_backpressure`, `sweep_expired`, `drop_conn` | kernel epoll, peers, clock, signal flag |
| Poll loop, `models/poll.rs` | connection table, `wants`, the poll set of the round | build, poll, `accept_one`, `drive`, sweep, `drop_conn` | kernel poll, peers, clock, signal flag |
| io_uring runtime, `models/io_uring.rs` | submission and completion queues, buffer ring, table, `accept_armed` | `run`, `arm_accept`, `push`, `drain_cqes`, `on_accept`, `on_recv`, `on_send`, `apply`, submissions, `drop_conn` | kernel ring, peers, signal flag |
| Forking, `models/forking.rs`, `sys/signal.rs` | `LIVE_CHILDREN`, children | fork, reap in the handler | SIGCHLD |
| Preforked, `models/preforked.rs` | worker pids, shutdown flag | fork, supervise, reap | signals, parent death |
| Thread models, `thread_per_conn.rs`, `thread_pool.rs` | permits; bounded queue | acquire/release; enqueue/dequeue | threads |
| Multireactor and event-loop start-up | `SHUTDOWN`, reactor threads | install, reset, spawn, join | Reactor, signals |
| Load generator, `loadgen/src/main.rs` | queue under a mutex and condvar, connections | schedule, push, pop, close | threads, server |
| Routing and encoding, `app.rs`, `router.rs`, `response.rs`, `asset.rs` | trie, static assets | pure functions | Connection |
| Metrics; configuration and start-up; benchmarks | counters; arguments | I/O | - |

What is hard here, and where a unit test hardly reaches:

- **Arbitrary cuts of the input.** TCP delivers bytes in any pieces. The parser
  keeps indices across pushes, resumes a search that may have stopped between
  CR and LF, applies ceilings to lines that have not ended, and keeps the bytes
  of a next request across `reset`.
- **Edge-triggered readiness.** A missed EAGAIN, a skipped `epoll_ctl` or a
  change of a socket between two system calls can leave a connection ready
  with nobody told.
- **Stale batches.** The events of one `epoll_wait` are handled one by one
  while earlier ones close fds and accept reuses them.
- **Back-pressure.** The listener is deregistered at the cap and added again
  below it, while drops, sweeps and accepts change the count.
- **Slow peers** that neither send nor read, and must not keep a slot.
- **Completions by fd.** io_uring completions name their connection by fd only,
  the kernel writes into shared buffers and reads replies through raw pointers,
  and a push may be dropped.
- **Counters and wakeups.** A semaphore, a channel behind a mutex and a queue
  with a condition variable, with spurious wakeups and notifications sent after
  the lock is released.
- **Signals, forks and threads.** A handler that decrements a counter the
  interrupted loop uses, signals that merge, workers that inherit the flag as
  it stands, a parent that dies, and start-up or shutdown cut by a failure.

`PROJECT.json` lists these as hazards, each at its line, with the properties that
would catch it.

## 2. Modules

| Module | What it is |
|---|---|
| `Connection` | `conn.rs` as operators on a record; used by all drivers |
| `Blocking`, `MCBlocking` | `serve_connection` against one peer |
| `RequestParser`, `MCRequestParser` | the byte-level parser and a reference verdict |
| `Reactor`, `MCReactor` | the epoll server, peers, clock and kernel epoll |
| `PollLoop`, `MCPollLoop` | the poll server |
| `IoUring`, `MCIoUring` | the io_uring server with the kernel's side of the ring |
| `Listening` | what the accept loops share: backlog, the accepted stream, faults |
| `Iterative`, `ThreadPerConn`, `ThreadPool`, `Forking`, `Preforked`, `Multireactor` | one server model each, as a specification of its own |
| `Server` | `main.rs`: one of those models is chosen and runs; the refinement of `Dispatch` |
| `Dispatch` | abstract specification of what a blocking model promises of a connection |
| `LoadGen` | the load generator |
| `ConnectionProofs` | lemmas on minima and on the operators of `Connection` |
| `BlockingProofs`, `RequestParserProofs`, `ReactorProofs`, `PollLoopProofs`, `IoUringProofs`, `ServerProofs`, `LoadGenProofs` | the theorems |

### Connection

A record with the connection's state, the parser's buffer and Done flag, the
answer in `write_buf`, the units still to write and whether the deadline has
passed. Input is a sequence of units: a "part" does not complete a request;
"keep", "close" and "bad" complete one that is kept alive, closed, or refused.
`MaxHead` stands for the ceilings. `Push` is `RequestParser::push` at that level:
it appends, gives a verdict on the first request in the buffer and drains it.
`OnBytes`, `PendingWrite`, `OnWritten`, `IsExpired` are the methods, with their
early returns. The deadline is a Boolean that the clock sets and a keep-alive
turn clears, as `on_written` does; reads do not move it, as in the code.

### Blocking

`serve_connection` is the loop `Read`/`ReadEof`/`ReadError`,
`Write`/`WriteError`, `Close`. A read returns what has arrived, at most
`ReadChunk` units; a write sends any positive part. `ReadError` stands for a reset and for
the read timeout, so it may happen whenever nothing is left to read. The peer
sends unit by unit with at most `Depth` requests in flight, may shut down its
sending side and may reset.

### RequestParser

A byte is one of eight classes, chosen so that each test in the code tells at
least two of them apart. `Push` appends any number of bytes; then
`ParseRequestLine`, `ParseHeaders` and `ParseBody` are the iterations of
`advance`, one line or one body each, until the push has a verdict. The indices
are those of the code, from 0, and `next_crlf`'s resumption (`ScanFrom`,
`ScanEnd`) is kept. Where a step fails after having assigned an index, the
assignment is left out: after `fail` the parser is Done and the connection
closes once the error is written, so the index is never read. `ParseLength`
gives a number, "11" standing for every number of several digits; a leading `+`,
which `usize::parse` accepts, and a number too large for a usize, which it refuses
like any other text, are left out.
`Reference(p)` defines the verdict on a request from all of its bytes, line by
line and with no state; it shares with the parser only the classification of a
single line.

### Reactor

One thread, cut at its system calls: `pc` is where it is.

| `pc` | Code | Actions |
|---|---|---|
| wait | `epoll.wait`, shutdown check | `Wait`, `Stop` |
| batch | the loop over events | `TakeListener`, `TakeHup`, `TakeIo`; when empty `Shed`, `Unshed`, `UnshedFault`, `NoPressure` |
| accept | `accept_ready` | `AcceptStop`, `AcceptOk`, `AcceptFault` |
| io | `drive_io` | `IoRead`, `IoReadNone`, `IoWrite`, `IoWriteNone` |
| apply | the rest of `drive` | `ApplyClose`, `ApplyKeep`, `ApplyModify`, `ApplyFault` |
| sweep | `sweep_expired` | `Sweep` |

`Reactor::run` and `run_epoll` differ in logging and in what wraps them, and
share `drive_io`; `Trigger` chooses between draining to EAGAIN and one system
call per event. Between any two steps peers connect, send, read, shut down and reset, and
deadlines pass. `DropConns` is `drop_conn`: EPOLL_CTL_DEL, the interest
forgotten, the table entry removed and so the socket closed.

The kernel is external and modelled from how the code uses it: `reg` is the
interest list and `rdy` the ready list. A change of a socket queues the fd
if it is registered for it; `epoll_ctl` queues an fd that is ready when it is
registered; `epoll_wait` reports the queued fds that are ready, and forgets
them when edge-triggered or keeps them when level-triggered. A reset is
reported as a hang-up whatever the interest, which the code handles before
reading. `accept4` returns the lowest free fd, so fds are reused at once; with
none free it fails (EMFILE). `AcceptFault`, `ApplyFault` and `UnshedFault` are failures of
`set_nonblocking` and `epoll_ctl`, at most `MaxFaults` of them. The events of a
batch are taken in any order, which covers the kernel's.

### PollLoop

One round is `poll` (the set is built from `wants`, the listener in it below
the cap, and poll's answer is recorded in `revents`), `accept_one`, one `drive` per
reported fd in any order (`wants` is a `HashMap`), and `Sweep`. Peers, the clock and signals
act between any two of these, so the answer is stale when it is used.
`drive_io` makes one system call, as `poll.rs` calls it without a drain; its
EAGAIN branches cannot be reached, because only this loop reads and writes the
socket (`ReportedIoNeverBlocks`, proved). A poll that fails or is interrupted goes round again and is a stutter.

### IoUring

`sq` holds the entries pushed and not yet submitted, `kern` the operations in flight, `cq`
the completions posted and `batch` the snapshot that `drain_cqes` works off. `push` flushes a
full queue once, and when the flush fails (`faults`) the entry is dropped, as
`let _ =` does; `lost` remembers it, and nothing acts on it any more. `user_data` is packed and unpacked as in the
code. The buffer ring has its entries, the runtime's `tail` and the kernel's
head, both modulo `TailMod` (2^16 in the code, smaller in the runs so that they wrap), and
`recycle` stages and commits. The kernel accepts into the lowest free
fd, takes the next buffer of the ring for a receive or fails with ENOBUFS,
sends any positive part, and may end the multishot accept at any completion. The
ring's entries complete in any order and a batch is taken in any order, which
covers the kernel's order. `submit_send`'s branch for an empty reply cannot be
reached, since a Writing connection has bytes to write.

### The accept loops, Server and Dispatch

Every model has the variables of `Listening` (the kernel's backlog, the stream
in the acceptor's hands, how often `serve_connection` was called for each
connection) and its own. `serve_connection` itself is `Blocking`; here a call begins and, some time
later, returns. A failed accept is logged and the loop goes round, so it is a
stutter.

- `ThreadPerConn`: the semaphore's lock, count and condition variable (a wait
  may end spuriously), the permit held across the spawn, and the panic of a
  failed spawn, which ends the process.
- `ThreadPool`: the bounded channel, `try_send`, and the receiver behind its mutex, held
  across `recv` and released before serving; the panic of a failed spawn. The Disconnected branch cannot
  be reached: `serve` itself keeps an `Arc` of the receiver.
- `Forking`: check, reserve, fork and drop as separate steps of the parent; SIGCHLD as one
  pending bit; the handler, during which the accept loop stands still; children
  before and after `prctl`; the parent killed at any point.
- `Preforked`: workers forked one by one, each with its listener's backlog and
  the flag as inherited; `forward_signal` and the in-order `reap`; a signal
  to the parent or to the whole group; the parent killed. The handler has no
  `SA_RESTART` and `reap` ignores the result of `waitpid`, so a signal that finds
  the parent inside it makes `reap` pass over that child (`reap_interrupted`,
  `skipped`). A worker the kill finds between `fork` and `prctl` never hears of
  it (`orphans`).
- `Multireactor`: also event-loop. Installation, reset, spawns that may fail,
  reactors that may fail to bind or panic, joins in order, which keep the first
  error returned and pass over a panic. A signal before installation kills
  the process, and one between installation and reset is lost (`heeded` marks the later ones).

`Server` starts in any of these models and takes that model's steps.
`Dispatch` says what the iterative, threaded and forking models have in
common: a connection waits, is accepted once, is served once or refused, and
is closed, with at most `ServeCap` served at once and `HeldCap` accepted and unserved; the end of a process resets what it
holds. `Server` maps each connection to its phase from the owners of its stream
(`phase`) and checks `Promise!Spec`, where `Promise` is `INSTANCE Dispatch WITH` that mapping, as a property.

### LoadGen

The main thread connects, spawns, pushes and notifies (two steps, since the lock
is released between them), closes and notifies all, and joins. Workers pop, wait,
send and count; a broken one goes on popping and counts every request as an
error, as in the code. The code counts numbers; the model keeps the sets of
requests counted, so that a request counted twice shows. Workers are
joined in any order: the results are summed.

## 3. What the runs check

| Run | Properties | Shows |
|---|---|---|
| `Blocking_serve` | `RepliesAnswerRequests`, `SequentialPeerNotOwed`, `SequentialBufferBounded`, `WorkerReleased` | all streams of up to 5 units, all cuts, 3 in flight: one reply per request, in order, none after a close; a peer that waits for its replies gets them and keeps the buffer bounded; the worker is always released |
| `RequestParser_verdict` | `IndicesInBounds`, `ScanSkipsNothing`, `BoundedWhileIncomplete`, `BufferIsUnconsumed`, `VerdictIgnoresReads` | however the input is cut, the incremental parser gives the reference's verdict on the bytes pushed, and a final verdict is the one on the whole stream, with one exception (below) |
| `Reactor_edge` | `TablesAgree`, `InterestMatchesState`, `NoLostWakeup`, `ClosedForACause`, `EventsStayWithTheirConnection`, `RequestsServed` | edge-triggered, partial writes, fds reused within a batch: tables agree and keep the cap, interests match, no wakeup is lost, no connection is closed without a cause or with input unread, requests are answered |
| `Reactor_timed` | `EveryConnectionEnds`, `ShutdownStops`, `ListenerRearmed` | level-triggered with a fault: liveness |
| `PollLoop` | `WantsMatch`, `ClosedForACause`, `RequestsServed`, `BacklogTaken` | the set polled follows the connections and the cap, the stale answer closes none of them without a cause, requests are answered, the backlog is taken again below the cap and after a failed accept |
| `IoUring_safety` | `FdsAccounted`, `SendBufferStable`, `BuffersConserved`, `InputIntact` | each connection has one operation, each fd and buffer one owner, through fd reuse and a wrapping tail; only a dropped close leaks an fd and only a dropped receive or send strands a connection, one per failed push; with no more connections than buffers a receive finds one |
| `IoUring_live` | `RequestsServed`, `ArrivalsTaken` | requests on accepted connections are answered, a close being no answer, unless the peer resets, a signal stops the loop or ENOBUFS drops the connection, and arrivals taken although the multishot accept ends |
| `Server` | `PermitsAccounted`, `OneOwner`, `ChildrenCounted`, `WorkersReaped`, `FirstErrorReturned`, `ImplementsDispatch`, `EveryConnectionSettled`, `SignalEndsServer`, `WorkersFollowParent` | each blocking model implements `Dispatch` and settles every connection; its permits, channel, children, workers and reactors are accounted for; a signal ends the server with every worker that is no orphan and every reactor, also when a second signal interrupts `reap` |
| `LoadGen` | `EachRequestOnce`, `NoLostWakeup`, `Terminates` | every scheduled request is counted once, no worker sleeps over work, the run ends |

Each property has a mutant of the code in the module it is about (a dropped
guard, a missing reset, an `epoll_ctl` skipped) that TLC refutes under the same
configuration.

Three runs show the code doing something else than its comments or documents say:

- `Blocking_owed`: after a reply, `on_written` resets the parser and asks to
  read, without looking at a complete request that is already buffered. A peer
  that pipelined it and waits gets no reply until it sends more or the timeout
  closes the connection. The comments say a pipelined request is not lost;
  its bytes are not, its reply is late or never comes. For the same reason,
  each push appends a whole read and takes out at most one request, so that
  pipelined requests pile up in the buffer; `SequentialBufferBounded` states
  the bound for a peer that does not pipeline.
- `RequestParser_limit`: a request line of exactly the maximum length is refused
  if a read ends between its CR and LF and accepted otherwise.
- `Reactor_rearm`: edge-triggered, `accept_ready` stops at the cap and so
  consumes the listener's edge; if a connection of the same batch is then
  dropped, `apply_backpressure` sees no reason to act and the waiting peers stay in
  the backlog until another one connects.

`VerdictIgnoresReads` excludes exactly the split of `RequestParser_limit`
(`SplitAtLimit`), and `Reactor_timed` checks `ListenerRearmed` level-triggered,
where it holds.

In two more places preforked does less than its comments say. They have no run
of their own; the model has them, and the properties say what remains true:

- `reap` ("Reap every child so none is left a zombie", `preforked.rs:157`): a
  second signal interrupts `waitpid`, and the child it waited for is left running
  or a zombie when `serve` returns. `WorkersReaped` excepts these children, which
  have been told to stop, and `SignalEndsServer` says that they do.
- `prctl` ("if the parent dies ... take SIGTERM", `preforked.rs:73-74`): a worker
  whose parent is killed between `fork` and `prctl` gets no SIGTERM and serves on.
  `WorkersFollowParent` and `SignalEndsServer` except these workers.

### Bounds, and why they suffice

- Blocking: `ShortStreams` is every sequence of up to five units, so it has
  heads at and past `MaxHead = 1`, three pipelined requests, malformed requests
  and requests behind a close; `ReadChunk` 3 lets a read end inside, at
  and past a request; `RespLen = 2` gives partial writes.
- RequestParser: ceilings of 6, 10, 1 and 1, with lines, blocks, counts
  and bodies below, at and above each; fields of every kind the code
  distinguishes; every arrangement of CR, LF and text up to five bytes, as
  request line and as head; a second request behind the first; all cuts.
- Reactor: two peers (three for re-arming), a cap of one or two
  and two fds reach the cap, reuse within a batch and
  deregistration; `SndBuf = 1` below `RespLen = 2` makes every reply take a
  partial write and an EAGAIN; one fault, at any of the three places.
- PollLoop: the cap is 1 or 2, so the second peer is above it or not; two
  requests, the second closing; `SndBuf = 1` gives partial writes; one fault.
- IoUring: for safety, a queue of one entry (every second push flushes), two
  buffers with a tail modulo 4 that wraps several times, two requests with
  partial sends, one lost push (or failed accept); for liveness no fault and, a cap of one or two with two peers, two
  fds and one buffer, so that connections are shed, fds reused and, at a cap
  above the buffers, two receives meet ENOBUFS. Peers are symmetric in the
  safety run; the liveness runs use no symmetry.
- Server: three connections against a cap and a pool of two, so that the third
  waits, is queued or is refused; two workers, so that one holds the lock, or
  fails, beside the other; two faults, panics or kills, so that an error and a panic
  meet at the join.
- LoadGen: three workers and three requests, so that two sleep when one request
  comes and all may break.
- Deadlock is not checked: a returned worker, a stopped loop or a parser
  whose input has been refused may stop for good.

### Fairness

`Blocking` assumes weak fairness of `serve_connection`: the thread is
scheduled and the socket timeouts that `serve_connection` sets end every read
and write. `LoopFairness` is weak fairness of the loop thread as a whole, not
of each action, so the order of events within a batch stays arbitrary.
`TimedSpec` adds that the clock reaches a deadline nobody refreshes: the loop's
`epoll_wait` has a timeout, so it runs even with no event. `ReadingSpec` adds
that peers read their replies, without which no server can finish a write. `PollLoop` assumes the
same two of the loop and of reading peers, and nothing of the clock. `IoUring`'s `FairSpec`
has the runtime and each operation of the kernel that can complete. In `Server`
each thread and process is scheduled and `serve_connection` returns (`WorkerReleased`);
the pool's mutex need not be fair, so fairness is of some worker taking it, not
of each. Spurious wakeups, failures, signals and kills are never assumed. Peers
are never assumed to connect, send, shut down or reset.

## 4. What is proved

No theorem uses fairness; where a `Spec` states it, the proof leaves it aside.
They use only the named assumptions of the modules: ceilings are naturals, sizes and caps positive,
`Trigger` one of two values, `NoPeer` not a peer, the range of the buffer ring's
tail a multiple of the number of buffers and greater than it (2^16 and a power of two in the code), the accept
loops' connections and the load generator's workers finite in number. Sets of
peers and streams are otherwise arbitrary.

**Parser** (`RequestParserProofs`). `IndInv` is `TypeOK` and `Safe`: the indices
are in bounds, the scan position lies inside the buffer, the resumed search has
skipped no CRLF, and each part of the request already accepted was within its
ceiling (`CeilingsSoFar`). The last is what makes the bound on the buffer
inductive: at the moment push asks for more, the current line is bounded by the
check just made and the earlier ones by `CeilingsSoFar`. Theorems: `TypeCorrect`,
`IndicesSound`, `ScanSound`, `BufferWithinCeilings`. `BufferExact` shows that
the buffer is the part of the stream pushed and not consumed, with the help of
the fact that what is consumed had been pushed.

`VerdictNeverDependsOnReads` relates the incremental parser to `Reference`. The
reference counts the ends of line below a position, so it needs no recursion and
the steps of the parser are the induction: `ReadSoFar` says that the variables
are what the numbered lines of the buffer say, in each parse state (`AtRequestLine`, `AtHeaders`,
`AtBody`): `header_count` lines were read behind the request line, each a good field,
`line_start` is the start of the next, and the declared length is that of the first
length field among them. `push` appends, and no numbered line changes when bytes
are appended; that the numbers leave none out is a pigeonhole argument
(`AllNumbered`). When a step returns, the line it looked at decides the reference
too (`AnswersCurrent`). `FinalVerdictStays` then carries a verdict from
the bytes pushed to the whole stream: bytes behind a final verdict have no say.
The exception `SplitAtLimit` is where a step and the reference part.

**Blocking loop** (`BlockingProofs`). `RepliesAnswerRequests` compares the replies
with `ReplyTo`, which looks at the whole stream; the connection sees only pieces of
it. `IInv` ties the two together by `Cut`, how much of the stream the parser has consumed:
- `BufferI`: the buffer is the piece of the stream from `Cut` to what was read,
  and `Cut` is 0 or the end of a request;
- `RepliesI`: the replies so far are deserved; while the connection reads, the
  requests up to `Cut` are the ones answered, and while it writes, its response is
  the one the next request deserves;
- `SequentialI`: a peer that does not pipeline has sent nothing behind an unanswered
  request, so its buffer is empty when a reply is complete, and holds an
  unfinished head within the ceiling while the connection reads.

The core is `VerdictReply`: the parser's verdict on a piece that starts at `Cut` is
the reply of the next request wherever the piece ends; a head refused for its length
before its end has arrived would be refused with it too. Theorems: `BlockingTypeCorrect`,
`RepliesAlwaysAnswer`, `SequentialPeerNeverOwed`, `SequentialBufferAlwaysBounded`.

**Reactor** (`ReactorProofs`). `NoLostWakeup` is not inductive. The invariant
adds
- `Owned`, `BytesInOrder`: connections in the table have a peer and are well
  formed (a Writing one has something to write), and reads stay behind sends;
- `TablesI`: `TablesAgree` without the cap;
- `DrivenOpen`, `ActionMatches`: the fd being driven is in the table, its event
  has been taken, and `drive_io`'s action is that of its connection's state, or a
  close, for the end of a peer's stream only with all input read;
- `EventsBelong`: a batch names only fds in the table, a hang-up only a
  reset connection, and between batches it is empty;
- `LevelQueued`: level-triggered, an fd in the batch or being driven is still
  on the ready list;
- `Drained`: when `drive_io` returns and the interest need not change, the
  fd is not ready, or it is queued.

`Drained` carries the argument. Edge-triggered, `drive_io` returns only after an
EAGAIN, a partial write or a close. After a read's EAGAIN nothing is left to
read, and after a partial write the send queue is full, so
the socket is not ready in the direction it is registered for; whatever makes it
ready later queues it. If the interest does change, `epoll_ctl` queues the fd when it is ready. There is
one lemma per action; `PeerStepQueued`, `DropInv` and `IoInv` carry what
several actions share. `ConnectionProofs` supplies that `on_bytes` and
`on_written` keep a connection well formed and how they change its state.
Theorems: `ReactorTypeCorrect`, `TablesAlwaysAgree` (with the cap), `InterestAlwaysMatches`,
`NoWakeupIsLost`, and the action properties `EventsNeverStale` and
`NeverClosedWithoutCause`.

**Poll loop** (`PollLoopProofs`). `WantsMatch` needs, beside `TypeOK`,
- `SocketsI`, `BacklogI`: reads stay behind sends, a send queue is never
  overfilled, and the backlog holds each queued peer once, so an accept never
  hands out a peer that already has a connection;
- `TableI`: a connection in the table belongs to an open peer and is well formed;
- `RoundI`: between rounds no event is left over, and the listener's event was
  given below the cap with a peer in the backlog, both of which nothing in the
  round before `accept_one` can undo.

One lemma per action; `DropStep` is shared by the drops of `drive` and of the
sweep. Theorems: `PollLoopTypeCorrect`, `WantsAlwaysMatch`.

The answer of poll is stale when it is used, and `EventsI` says why that is
harmless: a reported event still holds until it is handled. Peers only make a
socket more ready, a reset is final, and what would use the readiness up is
handling the event itself. `ReportedIoNeverBlocks` is that invariant;
`NeverClosedWithoutCause` follows from it.

**io_uring** (`IoUringProofs`). The four properties depend on each other: an input
is intact because its buffer is in one place, a buffer is in one place because
its completion is handled once, and that holds because the fd in the completion
still means the connection it was submitted for. `IInv` is over `Pend`, the operations on
connections that were pushed and have not completed (lost ones included), and `Posted`, the
completions not handled that bring a connection or end a receive or send:
- `QueuesI`: an entry is in one queue; a batch is worked off before the next;
- `OwnersI`: an open fd has one owner, an accept completion, the table or a close;
  one in the table has one operation, pending or posted, and no other fd has one;
- `StatesI`: that operation is the one the connection's state waits for, and a
  pending send is of the bytes still to be written;
- `RingI`: the slots from the kernel's head to the tail hold different
  buffers, the posted receives hold the others;
- `PeersI`: an open fd has a peer of its own, taken from the backlog;
- `InputI`: a connection was given all that the kernel took from its peer, except
  the buffer of a posted receive, which holds exactly what comes next.

The handlers share one argument (`HandOver`): the completion handled was the
owner of the fd's only operation, and the operation pushed, or lost, takes its place, a
close exactly when the connection leaves the table. `FdsAlwaysAccounted` then tells
the pending operations from the lost ones, which never complete: an fd whose close
was lost has no owner and leaks. `LostI` bounds them by the failed submissions. `RecycleRing` and `TakeRing`
do the arithmetic: the index modulo the number of buffers moves on by one also when
the tail or the head wraps, because the range is a multiple. Theorems:
`IoUringTypeCorrect`, `FdsAlwaysAccounted`, `SendBuffersStable`,
`BuffersAlwaysConserved`, `InputAlwaysIntact`, for any number of failed
submissions (`MaxFaults`). That a receive meets ENOBUFS only with more connections
than buffers is a count: the completions that hold a buffer are mapped one to
one into the connections other than the one that waits (`FewerFilled`).

`NeverClosedWithoutCause` is the counterpart of the loops' property, and only
proved. It needs `CausesI`: what a posted completion reports (all input taken and the
stream ended, a reset, bytes sent) holds until it is handled, because its connection has no
other operation that could take more, the fd keeps its peer, and a peer's end and
reset are final. So completions handled late, in any order or in one batch
drop no connection with input that `on_bytes` was not given. The proof of the invariant found an error of the model: `Top` armed the accept
after a second failed push of it, which the single fault of the runs cannot show.

**Accept loops** (`ServerProofs`). `Server` runs one model at a time, so `IInv`
has a part for each (`IterI`, `TpcI`, `PoolI`, `ForkI`, `PreI`, `MultiI`), `OthersIdle`
(the variables of the other models keep their initial values) and `Apart` (a
connection is in the backlog or accepted, once). There is one lemma per model:
its steps keep its part.
- `TpcI` counts permits against the threads in `TpcBusy`; a spawn adds one to
  that set and a release takes one away, and the wait is entered under the lock.
- `PoolI` is `OneOwner` and that a stream in the channel or with a worker was accepted once.
- `ForkI` counts `LIVE_CHILDREN` against the children in `Unreaped`, with the slot the
  parent holds between reserve and fork; the handler takes zombies one by one.
- `PreI` and `MultiI` say how far the forks, joins and reaps have come, and what
  is known of the workers and reactors passed. A child passed over by `reap` has
  its flag raised because every worker that runs has, once `forward_signal` is done.

Theorems: `ServerTypeCorrect`, `PermitsAreAccounted`, `StreamsHaveOneOwner`,
`ChildrenAreCounted`, `WorkersAreReaped`, `FirstErrorIsReturned`.

`ModelsImplementDispatch` is the refinement. For each model a lemma gives the phase
of a connection from the owners of its stream (`IterPhase`, `TpcPhase`, ...); it uses
`IInv` to show that the cases of `phase` exclude each other. A step then
changes the phase of one connection (`MoveNext`), ends the process and resets
all it holds (`ResetNext`), or is a stutter. The caps are counts: at most one stream per worker is
served and at most the channel's places and the acceptor's hand are held, by
injections (`WorkerFree`, `ChanCount`), or the counts of `TpcI` and `ForkI`.

**Load generator** (`LoadGenProofs`). `QueueI` says that the queue holds the
last requests emitted, in order, so that what is pushed next is not in it;
`SendI`, `TakenI` and `OnceI` that what a worker holds or counted has left the
queue, once; `LifeI` that a worker ends only when the queue is closed and
empty. From these, and the counts of sleeping and popping workers, both
`NoWakeupIsLost` and `RequestsAreCountedOnce` follow.

The inductive invariants of `Blocking` and of the last four were model-checked on
the bounds of the runs before they were proved.

**Only model-checked**: all liveness properties (the prover does not handle
fairness), among them `SignalEndsServer`, `WorkersFollowParent` and
`WorkerReleased`. Every invariant and every action property of the runs is
stated by a theorem.

## 5. Not modelled

- Routing, response bytes, assets, logging and metrics: pure functions or
  counters that no control depends on.
- Argument parsing, binding a model's listener before it serves, the kernel
  version gate of io_uring and the wrappers of system calls: they appear only by
  the outcomes their callers see. EINTR is retried, by the code or by std, and left
  out, except where it is not: `waitpid` in `reap` and `io_uring_enter` have actions
  for it, and in `serve_connection` it ends a read or write that blocks as the
  timeout does (`ReadError`, `WriteError`).
- io_uring has no sweep: `Runtime::run` looks at no deadline, so a silent peer keeps
  its slot. There is no step to model; the reactor and poll loops do sweep.
- A panic inside `serve_connection`: none is reachable there (the parser's
  indices are proved in bounds), so a permit leaked by unwinding is not modelled. The panics that the code
  provides for, of a spawn and of a reactor joined by `multireactor`, are.
- Edge-triggered accept that fails for want of descriptors stalls like
  `Reactor_rearm`; the runs of `Reactor` always leave a descriptor.
- The benchmark scripts are outside the program.

## 6. Plan

1. Connection, Blocking, RequestParser, Reactor, their runs, and the proofs of
   the parser and the reactor (done).
2. `PollLoop`, `IoUring`, the accept loops with `Server` and `Dispatch`,
   `LoadGen` (done).
3. Proofs of the accept loops and of their refinement of `Dispatch`, of the
   load generator, of the poll loop, of the io_uring runtime and of the
   blocking loop (done).
4. The parser against its reference; why a connection is closed, for each of the
   three event loops (done).
5. Left: the trie of `router.rs` and the encoding of `response.rs`, as pure
   functions against a reference.
