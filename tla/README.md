# Verification of the Bluewing relay server

Bluewing is a relay server for games: clients connect over TCP (and UDP), pick a
name, join channels, and send messages to a channel or to a peer on one. The program
is `src/Main.cpp` (the application) on top of Lacewing, a networking library with a
relay layer (`src/Lacewing/*.cc`, `*.h`), a socket layer (`src/Lacewing/src/*.c` with
a Windows and a Unix back end) and C++ wrappers. The build the repository ships is
the Windows one; the library is modelled for both.

This directory holds TLA+ modules for the parts whose correctness depends on order: who is
on which channel and what each client has been told, how IDs are lent, when a client is
given up for dead, what happens between the kernel accepting a connection and the relay
server hearing of it, how threads share a lock, how messages are cut out of a byte stream,
how a client goes through one connection after another, how streams are written into one
another while they are queued, filtered and closed, how the event pump delivers what was
posted, how the web server answers requests that come cut anywhere, and how the program
starts and shuts down. TLC checks them on small instances; TLAPS proves every invariant
that is checked of the relay's own parts, of the sockets, of the event pump and of the
application for every value of the constants.

To run: `tlc -config <file>.cfg <Module>` for the runs listed below, and
`tlapm <Module>Proofs.tla` for the proofs.

## 1. The system

### How it runs

One thread runs the event pump (`src/Lacewing/src/windows/eventpump.c`): it takes
completions off an I/O completion port and calls each one's callback to its end
before it takes the next. The relay server's handlers, the application's handlers
and posted calls (`lw_pump_post`) all run there, so **a handler is one action** in
the models of the server. What interleaves is whole handlers, the kernel (completions
enter the port in an order nobody chose), the timer's own thread (which only posts to
the pump), remote clients, and an application's *late answers*: an application may
answer a request from a later call stack than the handler that announced it.

There are three exceptions. Windows runs the console handler (`CloseHandler`,
`Main.cpp` 549) on a thread of its own, and it calls `Shutdown`, hence `unhost()`,
beside the pump's thread: `Application` interleaves its calls with the handlers and with
the end of `main()`. Timers have a thread on Windows and in a Unix build over `select`,
and sleepy ticking has a watcher thread: both are in `EventPump`. The read-write locks
are what keeps threads apart inside the relay's objects, which is why they are modelled
with threads (`ReadWriteLock`). `RelayServer` takes `unhost()` as a call on the pump's
thread: nothing but disconnect handlers runs between its steps.

### Components

| Component | State | Operations | Talks to |
|---|---|---|---|
| **ID pool** `IDPool.h` | released IDs, next ID, count | `borrow`, `returnID` | constructors and destructors of clients and channels |
| **Relay server** `RelayServer.cc` | clients, channels, each one's list of the other, names, masters, read-only flags, unanswered requests | connect, disconnect, set name, join, leave, channel and peer message, server message, blast, close channel, host, unhost, and the application's response to each request | listening server (hooks), application (handlers, responses), clients (messages) |
| **Ping timer** `RelayServer.cc` 138-292, `timer.c` | per client: time of last TCP, UDP and channel-or-peer message, `pongedOnTCP` | `pingtimertick`, message arrival, pong | pump (posted ticks), streams (two ways to close) |
| **Listening server** `windows/server.c` | listening socket, pending accepts, client list | host, unhost, accept completion, client close | kernel, relay server's connect and disconnect hooks |
| **Framing** `FrameReader.h`, `FrameBuilder.h` | partial header, partial message | `process`, `preparefortransmission` | streams, relay server and client |
| **Read-write lock** `ReadWriteLock.cc` | holders, reader and writer counts, shared mutex | open and close a read or write lock, relock | every relay object has one |
| **Relay client** `RelayClient.cc` | connection phase, own name and ID, channels, peers | connect, disconnect, messages, UDP hello | relay server |
| **Streams and stream graph** `stream.c`, `streamgraph.c`, `fdstream.c` | queued writes, filters, closing flags, pending overlapped operations | write, read, close gracefully or at once, add filter | kernel, servers and clients |
| **Event pump** `pump.c`, `eventpump.c` | completion port, watches, sleeping flag | tick, sleepy tick, post, exit | everything |
| **Client and UDP sockets** `windows/client.c`, `udp.c` | socket, connecting flag, pending receives | connect, host, send | pump, relay client, relay server |
| **Application** `Main.cpp` | bans, per-client message counters, the objects it makes and deletes | its handlers (it answers requests inside them), the timer's tick, console shutdown | relay server, pump |
| **Unix back end** `src/unix` | listening socket and backlog, client list, event queue (epoll, kqueue or select), signal pipe | host, accept, read, post, remove, tick | kernel, pump, streams |
| **Web server** `src/webserver` | per connection: parser's position, one request object, multipart parser; per server: sessions | sink bytes, call hooks, respond, save uploads | streams, application's hooks |
| **TLS** `windows/ssl`, `openssl` | handshake over or not, undelivered bytes, waiting writes | two filters' sinks, pump | streams, the libraries |
| **Flash policy**, **wrappers, utilities and headers** | | | a fixed answer; plumbing |

### What makes each one correct, and what is hard about it

* **ID pool.** No ID is lent twice and none is lost, while reuse, rollback of
  `nextID` and the reset at zero mix. Hard: only long sequences reach the mixtures.
* **Relay server.** `client::channels` and `channel::clients` are two lists that four
  handlers edit by hand; they must agree after each one. A listed channel is open,
  inhabited and the only one of its name. No two clients share a name. Each client's
  picture of its channels and peers, built only from messages it is sent, is the
  truth. A relayed message comes from a peer its receiver knows. `unhost` ends. Hard:
  a leave can close a channel and so take others off it; an answer can come after the
  client went, the channel closed or the name was taken; objects live as long as an
  unanswered request points to them.
* **Ping timer.** A client that stops talking is dropped in bounded time, but never
  without the time it was promised to answer a ping; UDP flows are kept alive. Hard:
  three clocks, three limits and early exits in one loop; ticks that queue up.
* **Listening server.** Its client list and the relay server's describe the same
  clients; the accept pool recovers from what it loses; limits per address hold; unhosting
  leaves nobody. Hard: the kernel acts between two handlers, and refuses.
* **Framing.** What the builder sends, however TCP splits it, the reader delivers.
* **Read-write lock.** A writer excludes everybody else; whatever is opened is closed
  once; threads that follow an order do not wait on each other for ever.
* **Relay client.** Its lists follow the server's messages; the UDP handshake ends or
  is abandoned with its connection.
* **Streams.** What is written is sent once, in order; a graceful close ends after the
  last write and closes once; a graph rebuilt while data flows loses nothing.
  Hard: every call may run user code that changes the graph, closes or deletes the
  stream it was called from.
* **Event pump.** Posts run once, in order, with their own parameter; exit is seen; a
  watch is not used once freed. Hard: two queues (signals and their parameters) written
  by several threads; events drained before a callback and delivered after it; a
  watcher and a main thread that wait for each other.
* **Sockets.** A user is told of each connection and its end once; what has arrived is
  taken, or will be told of. Hard: edges that are told once; objects freed by the last
  completion; hooks that close what is being accepted.
* **Web server.** One answer to each request, in order, with nothing of another in it,
  although one object serves them all; a session is found again. Hard: requests cut
  anywhere, pipelined, kept by the application, or saved to files that close later.
* **Application.** Nothing is used after `main()` deleted it; shutdown reaches the end.
  Hard: three threads, and Ctrl-C at any line of `main()`.

`PROJECT.json` lists every hazard at its line, with the properties that cover it.

## 2. The modules

| Module | Models | Builds on |
|---|---|---|
| `IDAllocator` | abstract: borrow lends the lowest ID nobody holds, return takes it back | |
| `IDPool` | `IDPool.h`; implements `IDAllocator` | `IDAllocator` (refinement) |
| `RelayServer` | `RelayServer.cc`: clients, names, channels, requests and answers, unhost | lends IDs as `IDAllocator` does |
| `MCRelayServer` | two spellings of one name, symmetry | `RelayServer` |
| `RelayServerProofs` | proofs about `RelayServer` and its pools of IDs | `RelayServer`, `IDPool` |
| `PingTimer`, `PingTimerProofs` | the ping timer, proofs | |
| `Listener` | `windows/server.c` with the relay server's two hooks | |
| `ReadWriteLock`, `ReadWriteLockProofs` | `ReadWriteLock.cc`, proofs | |
| `Framing`, `FramingProofs` | `FrameBuilder.h` and `FrameReader.h` over a stream cut anywhere, proofs | |
| `RelayClient`, `RelayClientProofs` | `RelayClient.cc` with the parts of `client.c`, `udp.c` and `timer.c` under it, against the server's side of one client; proofs | |
| `Streams` | `stream.c`, `streamgraph.c`, `pipe.c` and the descriptor streams of both builds | |
| `EventPump` | `pump.c`, both `eventpump.c`, the three event queues, both `timer.c`, `event.c` | |
| `Application` | `Main.cpp`: `main()`, its hooks, the console's thread | `EventPump` (shares its state) |
| `ApplicationProofs` | proofs about the pump and the application on it | `Application` |
| `SecureFilters` | the TLS filters of both builds | |
| `Endpoints` | `unix/server.c`, the client and UDP sockets of both builds, sockets with TLS | `Listener`, `SecureFilters` |
| `EndpointsProofs` | proofs about all endpoints, the server of `Listener` among them | `Endpoints` |
| `WebServer` | `src/webserver`: one browser and its connections | |
| `WebServerProofs` | proofs about `WebServer` | `WebServer` |

`PROJECT.json` "map" gives, for each definition, the lines it stands for. Definitions
preceded by a `Fault:` comment are plausible bugs; putting one in the place of the
definition it names must break a property, which shows that the property depends on
that code. Each proof module extends the module it is about.

### IDPool

`releasedIDs`, `nextID` and `borrowedCount` are the class's members; `inUse` is a
history of what callers hold. `borrow()` is three actions, one per way through it
(a released ID, a fresh one, the throw), `returnID()` one. `Limit` stands for
`0xFFFE`. `MaxRefusals` bounds how far `borrowedCount` runs past the limit.

`LendsLowestFree` is refinement of `IDAllocator`: whatever the pool's bookkeeping
went through, an ID lent is the lowest that nobody holds.

Worth knowing: `borrow()` raises `borrowedCount` *before* it tests it and does not
lower it when it throws (lines 60-66), so each refusal takes one ID out of service
until the pool empties and resets. The model does the same. In the instance of the
run, states where IDs are free and every `borrow()` is refused are reached. The
comment at line 65 ("More than can be stored in an ID list are in use") is then not
true.

### RelayServer

* *Objects.* `Clients` and `Channels` are the objects; one that nothing references
  (`LiveClients`, `LiveChannels`, which follow the `shared_ptr`s, including those in
  unanswered requests) has been destroyed: its attributes are back at their initial
  values and it can be made again with a new ID. Every handler that drops a
  reference ends with `Destructors`. Both destructors take no one off a list that
  still has members: the lists hold references themselves.
* *Requests.* A request the application decides on is two actions: the request
  (`JoinRequest`, ...), whose guard is the checks before the handler is called, and
  the answer (`joinchannel_response`, ...), which repeats the checks the code
  repeats. `Deferred = FALSE` is the bundled application: the two are adjacent
  (`Idle`). `Deferred = TRUE` is any application the library allows.
* *Views.* `chview[c]` and `peerview[c]` are what the messages sent to `c` say: they
  change exactly where the code sends, so `ViewAgrees` compares what a client was
  told with what is true.
* *unhost.* Three phases (`unhosting`): the server's clients are closed one by one,
  each running the disconnect handler; then the loop over channels; then the end.
* *Abstractions.* A client is written to or not (`Talking`); what is in a message is
  left out, except IDs and names. Channel names are folded when compared, so
  `ChannelNames` is a set of folded names; `Lower` folds client names.
  `createchannel` is modelled with what its locks do: the read lock
  `joinchannel_response` opens under the write lock `createchannel` holds is not
  held, unlocking it throws, and so the channel is listed and its master never put
  on it. A client's `Boot` stands for each place that marks it read-only and closes it.

### PingTimer

Time is in units of `tcpPingMS / Period`. For each client the model keeps the time
since each of the code's instants, capped beyond every limit it is compared with.
`Advance` is one unit of time: at a multiple of `Period` the timer's thread posts a
tick. The pump runs `pingtimertick` later: with `Stalls = FALSE` the pump takes no
time (a tick runs before the clock moves on); with `Stalls = TRUE` it may be busy and
ticks wait, up to `MaxPosted`. `Ticked` is one turn of the loop, its cases in the
order of the code's early exits. A client that is dropped for a missing pong is
closed at once (`close(lw_true)`); an inactive one is closed gracefully
(`close(lw_false)`), which is over when its writes are, so never if it has stopped
reading (`reading`). `chatty` records whether it sent a TCP message that is neither a
pong nor activity since its last activity; `asked`, `askedAt` and `tries` record what
it was sent. These are read by properties only, except that a pong answers a ping.

### Listener

An accept is `"waiting"` in the kernel, `"ready"` or `"aborted"` in the pump's queue,
or `"none"`. `listen_socket_completion` issues new accepts while the one completed
still counts, runs the connect hook (`generic_handlerconnect`: the two limits per
address, a client that is refused is told so and closed when that is written), and
lists the client. `Unhost` closes the sockets of clients and of waiting accepts; a
completed accept stays in the queue. `SameAddress` compares the pointers, as line
735 of `RelayServer.cc` does.

Issuing accepts stops at the first for which there is no socket or which `AcceptEx`
refuses: `Refilled(issued)` is given those before it, any subset of the missing ones
(`Missing`). `lost` is a history: what failed, or was not issued, since the loop last ran to
its end. `PoolKeepsUp` bounds what is missing by it, and by one for the completed
accept that counts while its own completion refills.

Worth knowing: the pool does run down. An accept that fails is not replaced (lines 232-236
return before new ones are issued), and a loop that stops is gone on with only by
the next accept that succeeds. If all pending accepts fail before one does, a hosting server
takes no connection again; nothing in the repository claims otherwise. Accepts that an
earlier `unhost` aborted and that are still in the queue count when the server is hosted
again, so that fewer are issued and they are not replaced either. The path at which
no memory is left for the client of a completed accept is not modelled.

### ReadWriteLock

A thread has `Handles` (the C++ `readlock` and `writelock` objects on its stack), all on
one lock; `holders` is the lock's list of threads, `readers` and `writers` its counts.
Opening is three steps and closing three more, in the order of the code, so that other
threads run in between:

| `handle[t][h].state` | Meaning |
|---|---|
| `closed` | not constructed, or closed |
| `nested` | opened by a thread on the list already: the mutex is not asked for |
| `waiting`, `entered` | waiting for the mutex; has it, not yet on the list |
| `held` | listed and counted |
| `leaving`, `uncounted` | off the list; off the counts, the mutex still locked |

A handle that is waiting may become `entered` whenever the mutex's mode allows it: which
waiter `std::shared_timed_mutex` prefers is left open. `Exclusion` speaks of what callers
believe (a nested handle counts), not of the mutex, which it would restate.

Callers are assumed to close handles inside out, as C++ scopes do, and not to open a
write lock under a read lock of their own: the debug build refuses that, since it waits
for itself. Not in the model: upgrades, and `relock`, which only `pingtimertick` calls.

### Framing

A byte is a number below `Byte`, and everything the code writes as 254, 255 or 0xffff,
and its 16 and 32-bit integers, is derived from it. `Header` is what the builder
puts after the type. Each branch of `framereader::process` is an action (a type byte, the
first byte of a size, the others, a whole message in the chunk, a message pieced together
in the buffer, a chunk used up), and `calling` says that the call has not returned; that is
the only time at which the reader may be in the middle of something it could do at
once (`Prompt`). All bytes of a message's content equal its type, so contents look like
headers and a reader that loses count takes one for the other. The client's very
first byte is not part of any message and is skipped. `Receive(n)` cuts the stream
anywhere. A size of two bytes is read as a signed integer and widened, as the code does.
`ends` is a history variable: how many bytes had been sent with each message. `Prompt`
compares it with how many the reader has not seen.

### RelayClient

A `relayclient` outlives its connections: each close makes it a new stream socket
(`initsocket`), while the UDP socket, the timer, the frame reader and the lists stay. The
sockets are numbered in the order they are made, and the server's ID of the client on
socket `s` is `s`. What an ended connection left behind may reach the next one;
`crossed` records that it did. There are five ways:

* `UdpWelcome`: a welcome completed before the UDP socket was closed is still delivered
  (`udp.c` frees the filter, then passes everything) and sets `connected`;
* `handlerconnect`: `lw_stream_close` knows nothing of a pending `ConnectEx`, whose
  completion then writes its request to the socket made since;
* `handlerreceive`: the reader is not reset, so that a part of a message is completed
  with data from another connection;
* `NextMessage`: `process` goes on with the rest of a chunk after a handler, or another
  thread, has called `disconnect`;
* `ConnectResponse`: one whose socket another thread closes in the middle of it goes on, hosts
  UDP or starts the timer after `disconnect` ended both, and leaves them running.

The properties about lists, flags and the timer hold up to there and are stated so. `crashed`
records an exception, or a null address used, on the pump's thread, which ends it.

Every completion is an action with the guard `PumpFree`; a chunk of data is handled
message by message. `disconnect` may be called by a handler or another thread, and is four
steps that the pump's thread runs between: what it does without the lock (`connected`, the
timer), then with it the close and its hook, the new socket, and UDP last. The handler of a
connect response takes no lock: it is three steps, and `disconnect` may be anywhere in
between (`ConnectResponse` hosts UDP, which may fail; `ConnectResponse_SaysHello` calls
`udphellotick`, which throws if it did fail, so that the timer is not started then;
`ConnectResponse_StartsTimer`). Handlers that do take the lock wait (`Unlocked`). One
`disconnect` runs at a time; the instant within `initsocket` at which `socket` is null
(`RelayClient.cc` 203-204) is not modelled.

The server is what its messages say: it approves or denies, and joins the client
to channels, with peers that come, go and change names (`truth`). Datagrams are lost
(`LoseHello`, `LoseWelcome`), repeated (`HelloArrives` keeps the hello) and late
(`answers` stay after `unhost`). The application makes requests only once `connected`, and
does not call `connect` from its disconnect handler.

| Code | Model |
|---|---|
| `internal.socket` | `socket`, `state[socket]` |
| how far `disconnect()`, the handler of a connect response, have got | `leaving`, `responding` |
| `connected`, `id`, `name`, `channels` with their `peers` | `connected`, `id`, `named`, `channels` |
| `udp->hosting()`, `udphellotimer`, `reader` | `udp`, `ticking`, `partial` |
| completions queued in the pump | `ticks`, `answers` |

### Streams

The state is one record, `net`, and each function of the code is an operator from one
record to the next, because a call runs to its end whatever it calls: `Write`, `Data`,
`Push`, `WriteQueue`, `Close`, `Delete` and the reads call one another as the functions
of `stream.c` do. Three streams are enough for each way they can meet: `out`, a socket
that is written to, `in`, a file or a socket that may be written into it, and `filter`, a
pipe that may filter `out`.

| Code | Model |
|---|---|
| `flags` of a stream (dead, closing, closeASAP, queueing, draining) | `flags[s]` |
| `front_queue`, `back_queue` | `front[s]`, `back[s]` |
| links, filter specs, `last_expand` of the graph | `links`, `filters`, `expand` |
| `prev_direct`, `direct_bytes_left` | `direct`, `directLeft` |
| a descriptor, its pending operations, its file offset; whether the next `ReadFile` fails at once | `fd[s]` |
| what the kernel was given; its room (Unix) | `sent`; `room`, `short`, `ready` |

Bytes are numbers, in the order in which they were accepted, so order and loss can be
read off `sent`. Where the code itself sends bytes out of order, the reason goes into
`astray` and the properties about order speak of what happens up to there:

* `"behind a stream"`, `"left behind"`: what is queued behind a linked stream is not kept
  back until the link is over, or is never written once it is;
* `"filtered again"`, `"through a filter"`: the queue of a filtered stream is written
  through the filter a second time, and a filter is not told that its stream is busy;
* `"head"`: the head of a queue is not kept back while a stream is linked;
* `"before the front queue"`: a write ignores what is still in the front queue;
* `"lost"`: what was not sunk goes into an item that is a stream, which never looks at it.

On Windows a close that lets writes end cancels the read (`asap`), but one that had ended before
that has its completion in the port, and any outcome may come of it (`ReadCompleted`): bytes,
after which a new read is issued, or an end, which closes the stream at once. A graceful
close is then cut short and its pending writes go with it, so `GracefulLosesNothing` speaks of
closes that nothing of this kind overtakes (`why`). A `ReadFile` that fails when it is issued
(`windows/fdstream.c` 286-290) leaves a reader that waits for bytes with nothing pending, and
no one is told; `IssueRead` does the same.

### EventPump and Application

`build` is Windows or one of the three Unix queues; `mode` is a program that runs the
event loop, one that uses sleepy ticking, or (`"main"`, Windows) that of `Main.cpp`. What
a call on the pump does under `sync_signals` is one step; taking an event off the queue,
each event of a batch, each step of the watcher and of the timer's thread are others.

| Code | Model |
|---|---|
| the signal pipe and `signalparams` | `p.pipe`, `p.params` |
| the completion port | `p.port` |
| `epoll_event`s or `fd_set`s drained and not processed | `batch`, and the watcher's in `held`, `num` |
| `resume_event`, `on_tick_needed` | `resume`, `asked` |
| an edge the kernel has to report; `read_ready_set` of `select.c` | `p.armed`; `p.seen` |
| `struct _lw_timer` and its thread | `timer` |

`Hook` is any callback of a program: it posts, removes a watch and closes its descriptor,
registers one again, or stops the timer; none deletes the timer. `Application` replaces it with the hooks of
`Main.cpp`, adds `main()` line by line (`doing`) and the console's thread (`console`, what
is left of `Shutdown`), and records in `late` which object one of them used after
`main()` had deleted it. A hook that looks a client up uses it in a second step (`Use`),
since the console's thread may clear the list between the two.

Assumed: Windows runs console handlers one at a time, and a kernel queues the completions
of the operations it cancels before the call that cancelled them returns.

### Endpoints and SecureFilters

Endpoints share nothing but the pump, so a behaviour is that of one of them (`part`), the
server of `Listener` among them, and `end` is its record. The Unix server has a backlog in
the kernel and an `edge` that is told once for whatever came since. A loop that calls hooks
is one action per turn, and while it runs (`accepting`, `reading`, `pumping`) nothing else of
that thread does: `AcceptNext` is a turn of `listen_socket_read_ready`'s, `ReadNext` of the
Unix UDP socket's, `pump` of OpenSSL's; connections and datagrams come meanwhile. A client
socket is connecting, answered, failed or open; `stuck` marks the attempts after which
`connecting` stays set. A UDP socket of Windows is its reference count: receives in the
kernel, in the pump's queue, and sends. `SecureFilters` cuts messages of two pieces into
chunks anywhere and follows them through the two filters; OpenSSL's choices (does it answer,
does it want to read before it writes) are left open. Where the code goes wrong for good
the reason goes into `wrong`, and what comes after is not followed: `"server freed"`,
`"no hook"`, `"client freed"`, `"udp freed"`; `stranded`, `stuck`, `short`, `lost` and
`leaked` mark what the properties have to allow for.

### WebServer

One browser and its connections, one after another. What it sends is a sequence of tokens
(a part of a line, the rest of it, the headers' end, pieces of a body), a request after
another; a place in it is a request and one of its tokens. `front` is the place that is
parsed next and `at` the one that is sent next, so that what is between them is the chunk
and the stream's queue together. `Arrive` moves `at` anywhere ahead. A call of the sink of
`http-client.c` is a run of steps, `SinkLine` for a line of headers and `SinkByte` for a
piece of a body, with `sinking` while it lasts; the pump's thread does nothing else
meanwhile, so every other action waits. `AfterLine` and `AfterByte` say whether the sink goes
on. An answer may start the sink again (`Retry`) from inside a hook: the rest of that hook is
kept for the end of the sink (`nested`, `Rest`). The state is one record and a function of
the code takes one record to the next; none is recursive. `Parse` is what `http_parser`
reports for a token, `MultipartToken` what the multipart parser does; both parsers are
submodules that are absent here and are taken from their use. `Hook` is what an application
does: it reads items, writes or renews its session, sets a header, and finishes the request
or keeps it (`auto` is automatic finishing). Where the code leaves requests without an
answer in turn, the reason goes into `broken`, which the properties name:

* `"not answered yet"`: the lines of a chunk are parsed without asking whether the request
  before was answered (the comment at `http-client.c` 116-118 says no more data can be
  processed), so a pipelined request reuses the object of one that the application holds;
* `"left waiting"`: a request that follows a body in the same chunk waits for another chunk;
* `"no hook"`: a multipart parser is never taken away, so the next request on its
  connection reaches no hook; `"too late"`: the upload hook runs when the first saved file
  closes, before later items; `"while saving"`, `"freed"`: the next request, or the end of
  the connection, comes while a file is being closed;
* `"unanswered"`, `"answered twice"`: never reached; `InTurn` says so.

## 3. Runs

| Run | Instance | Shows |
|---|---|---|
| `idpool` | 5 IDs, 2 refusals | the pool's partition of IDs; refinement of the allocator |
| `relay_channels` | 2 clients, 2 channels, 2 channel names, bundled application, fair | listed channels are open, inhabited and differently named, messages are attributable, and both loops of `unhost` end |
| `relay_deferred` | 2 clients, 1 channel, 2 requests waiting at once, an application that creates channels | membership, names and views when answers come late, in any order |
| `ping` | 1 client, period 2, UDP limit 6, inactivity 14 | bounded detection, UDP kept alive, time to answer |
| `endpoints` | `Listener` with 3 accepts, 3 sockets, 2 addresses, limits of 1; each other endpoint with 4 connections, datagrams or messages and 3 calls of its user, 2 receives | client lists agree, users are told once, nothing that has come is left unattended, the pool of accepts misses no more than was lost |
| `rwlock` | 3 threads with 3 handles each | a writer is alone, nesting never waits, no internal check fails, nothing stays counted |
| `framing` | 2 messages of 2 types, 8 sizes around every boundary, `Byte = 4` | delivered is a prefix of sent, and whole as soon as its last byte is in |
| `relay_client` | 2 sockets (one connection, and what it finds and leaves), 1 channel, 1 peer, 2 messages on their way | the lists catch up; a socket not connected is blank |
| `relay_client_handshake` | 3 sockets (two connections), no channels, fair | the timer runs only while UDP is hosted; an approved client gets connected or loses its connection |
| `streams` | 3 bytes accepted for a socket, a file or socket of 2 bytes, a kernel with room for 1; either build | order, graceful close, one close hook, wake-ups |
| `web` | 2 requests of any kinds on up to 2 connections | answers in turn, disconnections told, nothing left in the queue, one session |
| `application` | 2 descriptors, 1 posted call, batches of 2, 2 arrivals, 1 tick; `main()` with one client that sends 5 packets | posts in order and run, watches live while they are used, nothing used after its deletion |

*Why the bounds are enough.* In `relay_deferred` two clients give a leaver and a stayer, and
a name taken by one while another asks; two slots give two answers in either order around
any other event; in `relay_channels` two channels give a client whose departure closes one
and not the other. A third client, who watches two others, is in `RelayServerPeers.cfg`.
Two spellings of one name make names collide both ways. The ID pool's five IDs allow a gap
below, at and above each point of the rollback. Clients of the ping timer do not interact
(each turn of the loop reads one client), so one is enough; `Period = 2` gives an instant
between two ticks, `UdpKeepAlive = 6` and `MaxInactivity = 14` keep the code's order and
that the first is not a multiple of the second. Three accepts give one completed before an
unhost, one after, and one pending. Limits of 1 are the smallest at which the limits can
be broken by two. Three threads give one that holds the lock, one that waits for it and
one that overtakes; three handles give a nested one inside a nested one. With `Byte = 4` a
header has one byte below 2, three below 15 and five from there on, and the sign bit of a
16-bit size is worth 8: the sizes of `framing` lie on both sides of each of these
boundaries and of the sign bit's (those from 8 to 14 are misread); two messages let one's
header follow another's end in the same chunk. Two sockets give the relay client a
connection and the socket after it; three, for the handshake, a second connection that meets
what the first left; two messages on
their way give a chunk whose second is handled after a disconnect, and a piece of one; one
tick waiting is enough to run after a stop. The client's channels and peers do not
interact, but for being on one list. Two bytes of a file can be moved one by one, with
something in between; one more byte is before or behind them, and room for one makes each
write of two a short one; `in` is closed only while it is written into another stream, which
is when that stream can tell, and a hook that is on it from the start comes with a close hook
that deletes `out`. Four connections give a server's backlog one that its hooks end
with some on either side; four messages are the handshake's two and two records, in one
chunk or cut inside each. Two requests give one that the other follows on the same
connection or meets on the next, and every pair of kinds. Two descriptors give a callback
one whose event is later in the same batch, two events the batch that holds both, or one
and the signal pipe. Five packets ban a client (with `MaxWasted = 0` and `MaxDropped = 0`
the first wasted message does, and its ban refuses; the code's are 5 and 3), refuse it once
and let it in again.

*Symmetry* is used for `relay_deferred` only: clients, channels, slots and channel names
are interchangeable there, and no liveness is checked.
*Deadlock* is off where the system may stop: `idpool` (with the count at its cap the pool
only refuses), `framing` (everything is sent and read, or the handler has refused a
message), the two of `RelayClient` (the sockets are used up, or the pump's thread has
ended), `streams` (closed, or everything written), `web` (everything sent and answered),
`endpoints` (the calls are used up) and `application` (the process has ended, or waits for a
thread that never comes, below).

*Fairness.* `relay_channels` assumes weak fairness of `UnhostStep`. `unhost()` is
one call, and its loops run to their end with nothing else between; the code itself
takes the steps. `relay_client_handshake` assumes that a message in a chunk is handled, a
`disconnect` under way goes on and a started timer fires (weak); that the pump gets to a posted tick or welcome (strong, since
`PumpFree` comes and goes: the port is a queue, and each completion ends); and
that of hellos sent again and again one arrives, and of its welcomes one (strong: the
network loses datagrams but not all of them). No fairness is put on the server's
decisions, applications or connections. `AppSpec` assumes weak fairness of the main thread
(in a loop of `EventPump`'s, in `main()` and its hooks) and of the watcher: a thread that can
run does. Clients, timers, other threads' posts and the console need do nothing.

*Kept beside the runs.* `RelayServerPeers.cfg` (passes): three clients on one channel.
`Listener.cfg` (passes): the Windows server alone. TLC is expected to find the property of
each of the others violated; each shows a disagreement described below:
`FramingSigned.cfg` (`AnySizePrompt`), `RelayClientNames.cfg` (`NamesFollow`),
`PingTimerStalls.cfg` (`GraceGiven`), `ListenerLimit.cfg` (`TotalWithinLimit`),
`ListenerUnhost.cfg` (`EmptyAfterUnhost`), `RelayClientTick.cfg` (`TickFindsUdp`).

### Where the code and its comments differ

With a configuration kept for it:

* `FramingSigned.cfg`: a size of two bytes is written unsigned and read as a signed integer
  (`FrameReader.h` 83), so one with its sign bit set is taken for nearly 2^32 and nothing
  more is delivered on that connection;
* `RelayClientNames.cfg`: a message about a known peer is taken for a change of name if
  `lw_sv_cmp` holds of the two names (`RelayClient.cc` 1096), which it does if they are equal
  (`PhiAddress.cc` 33-39): a new name is never stored, against the comment at 1098;
* `PingTimerStalls.cfg`: the timer's thread posts a tick at every expiry whether or not the
  last has run (`timer.c` 106). A pump that was busy for two periods runs two back to back:
  the first pings a client, the second drops it. The remarks at `RelayServer.cc` 127-128 and 185-187
  give it another `tcpPingMS`;
* `ListenerLimit.cfg`: line 735 compares pointers to two address objects, which always
  differ, so the limit per IP of the comment at 106-107 never applies (and 741 would
  allow one more than it);
* `ListenerUnhost.cfg`: an accept completed before `unhost()` and dequeued after it makes a
  client of a server that is not hosting, against the remark at 985-986;
* `RelayClientTick.cfg`: a tick posted before `disconnect()` stops the timer runs after
  it has unhosted UDP, and `udphellotick` throws (`RelayClient.cc` 1247), which nothing
  on the pump's thread catches.

Without one:

* the ID pool's refusals (above);
* `unhost()` sends peer-leave messages. The comment at `RelayServer.cc` 987 says the
  loop after it makes clients read-only so that none are sent, but `socket->unhost()`
  at 979 has by then closed every client, each one's disconnect handler talking to
  those still connected (`UnhostClient` runs while others are `Talking`);
* the remarks at 133-137 say that joins, leaves and other messages are not activity;
  but a client that sends any TCP message in each ping period (and UDP in time)
  leaves the tick at line 167-175, before the inactivity test. `InactiveIsDropped`
  therefore speaks of clients that are not `chatty`;
* the remarks at 127-128 and 244-247 say that a client that is inactive, or does not
  answer, is disconnected. An inactive one is closed gracefully, and one that has
  stopped reading never finishes that: each later tick finds it on the list and skips it
  (line 177), so it stays. `InactiveIsDropped` and `SilentIsDropped` speak of clients
  that read;
* a channel made by `createchannel` is listed and its master never put on it (above). It
  has no member to leave, so nothing closes it but the second loop of `unhost()`, and
  `close_channel` returns early for it: with `MayCreate = TRUE`, `UnhostEnds` fails. The
  remark at 985-986 expects the loop to see every channel closed;
* the five ways in which a relay client's connections meet (above). After a late welcome
  `connected` is true and the connect handler is called with no connection; after a
  duplicated one the handler is called again;
* a tick that runs after the server closed the connection finds a new socket, whose
  address is null (`crashed = "address"`): `on_close` stops the timer and leaves UDP hosted;
* when an address does not resolve, or a socket cannot be made or bound, `connecting` stays
  set and no later `connect` is tried (`client.c` 144-249, `stuck` in `Endpoints`); a close
  does not cancel a connect, a delete during one leaves its completion with a freed client,
  the disconnect hook also runs for closes of a client that was not connected, and a connect
  that fails keeps its socket and watch;
* `relock` sets `locked` on a nested handle too (`ReadWriteLock.cc` 116), where the
  remark at 275 says "Recursive mutex, hence locked stays false". Its one caller never
  nests.
* *streams:* the ways in which bytes go astray (above). `closeASAP` refuses writes, those of
  the stream's own queue too, so a graceful close that finds something queued never ends by
  itself (on Windows, a later immediate one, or a read that had ended, gives up its pending
  writes). `lw_stream_delete`
  marks the stream before it calls close, which therefore unlinks nothing: the stream
  that it was being written into stays busy. The completion of a `TransmitFile` goes
  through `transmit_file_from`, which nobody has set (`windows/fdstream.c` 133-143). Close hooks run
  again if the stream lives on after the first time, which is why `ClosedOnce` speaks of
  streams deleted in theirs. On Unix a stream deleted without being closed leaves its
  descriptor open and watched. A data hook added while a stream is moved directly stops it,
  as the TODO at `stream.c` 1196 suspects;
* *pump, Unix:* signals written before a drain are reported once, and one is read for each
  report, so that a post, a removal or an exit may wait for another signal; hence `PostsRun`
  speaks of Windows. `select.c` reports a descriptor again only once a drain has found it
  unreadable, and ignores `max_events`. A tick ignores an exit. A posted call runs with
  `sync_signals` held: in a build over `select`, one that stops a timer whose thread is
  about to post waits for it for ever (`"stuck"`). A watcher asleep in the queue is not
  woken by the cleanup, which waits for it;
* *pump, Windows:* a cleanup that finds another packet before its end signal waits for ever
  too. After an exit the loop ends when the port is empty, although operations may pend;
  the comment in `eventpump.c` says that all have completed then. A timer deleted with a
  tick posted is used by it (TODO at `unix/timer.c` 166); in the model nobody deletes one before
  the loop has ended;
* *application:* Ctrl-C before the objects are made uses a null pointer; after an exception
  ended the loop of a release build, deleted objects (`threw`). A ban made with
  `disconnects = 1` refuses nobody, since only more than three do and it grows by refusing. A ban for the upload cap is listed under
  the raw address and looked up under the printed one. Close ends the process as soon as the
  handler returns, which leaves the policy file; a client accepted between the clearing of
  `clientdata` and `unhost` stays in it;
* *server, Unix:* a client that ends inside its own accept ends the accept loop and leaves
  the rest of the backlog until another connection comes (`stranded`; the test for a dead
  client at `unix/server.c` 258 casts the server). A socket that cannot listen counts as hosting.
  `lw_server_on_data` tests the hook it has just set. Unhosting leaves the clients, and
  deleting the server leaves them with a pointer to it;
* *UDP:* on Windows a send that fails keeps its reference for good, an aborted receive may
  call the data hook after unhosting, and a delete with nothing pending leaves the socket
  open; on Unix a stranger's datagram ends the read loop, and a delete inside the data hook
  is followed by a use;
* *TLS:* with Schannel what is cut or comes with something else waits in a front queue that
  is never retried, a cut record is swallowed although the comment there says that more data
  is needed, and writes before the handshake are never sent; with OpenSSL a client deleted
  while the pump pushes is never freed (`leaked`);
* *web server:* the reasons in `broken` (above). A graceful close after `Connection: close`
  never ends, the request's stream being linked to the socket for good.
  `lw_ws_sessionitem_value` returns the key (`sessions.c` 142-145). A request disconnected
  inside its own hook is used after it was freed.

## 4. Proofs

| Theorem | Says | Argument |
|---|---|---|
| `RelayServerProofs!PoolTypeCorrect`, `PoolPartitionHolds` | IDs are below `nextID`; lent and released ones partition those below it | `PoolInv`: the reset at zero is decided by `borrowedCount`, so one needs that the count is never below the number of IDs in use (`CountCovers`); it may be above, after a refusal |
| `RelayServerProofs!PoolRefinement` | `PoolSpec => Allocator!Spec` | each action maps to an allocator step or a stutter; the lowest released ID, or `nextID` if there is none, is the lowest free one by the partition |
| `RelayServerProofs!MembershipHolds` | the two lists agree, and hold connected clients only | `MemberInv` below |
| `RelayServerProofs!NoClosedChannelJoined` | a joined channel is listed and open | `MemberInv` |
| `RelayServerProofs!NamesStayUnique` | no two clients share a name | `NameInv` |
| `RelayServerProofs!ViewsAgree` | what each client was told of its channels and peers is the truth | `ViewInv`, on `IdInv`, `AskedInv`, `NameInv`, `MemberInv` |
| `RelayServerProofs!MessagesAttributable` | whoever a relayed message reaches knows its sender, if the application answers inside its handlers | `AloneInv`, `ViewInv` |
| `RelayServerProofs!ChannelNamesStayUnique` | listed channels have different names, if it also makes none itself | `NamedInv` |
| `RelayServerProofs!ListedStayInhabited` | a listed channel has somebody on it, its master among them, if the application makes none itself | `HostedInv` |
| `RelayServerProofs!TypeCorrect` | every variable keeps its type; IDs stay below the number of objects | `IdInv` and the rest |
| `PingTimerProofs!GraceHolds` | a client dropped at a tick was pinged a period ago and has not answered | `AskedInv` |
| `PingTimerProofs!SilenceEnds` | a client that reads is not silent for three periods | `HeardInv` |
| `PingTimerProofs!InactivityEnds` | one that only pongs is dropped within two periods of the limit | `ClocksInv` |
| `PingTimerProofs!UdpStaysAlive` | three datagrams go out before a router could forget the flow | `ClocksInv` |
| `EndpointsProofs!MirrorKept`, `PoolKept` | of the Windows server alone: the lists mirror each other; whatever fails, the pool misses one accept for each loss since a refill ran to its end, and one more | the first is inductive with the types of accepts; the second counts what each step loses (`MissingCounted`, `CompletionCosts`, `LossCovers`) |
| `EndpointsProofs!EndpointsKeepListener` | `EndSpec => Spec`: among the other endpoints that server behaves as it does alone, so the same holds (`MirrorHolds`, `PoolRefills`) | every action of another endpoint leaves its variables alone |
| `EndpointsProofs!ToldHolds` | each hook of the Unix server and of the client sockets runs once for what it tells of | `EndInv` |
| `EndpointsProofs!AttendedHolds` | what has come is taken or will be told of, what is deleted is freed, but in the ways that `Attended` names | `EndInv` |
| `WebServerProofs!AnswersInTurn` | a browser gets one answer to each request, in their order, with nothing of another in it | `WebInv` |
| `WebServerProofs!ToldIfKept` | the application is told of the end of a connection if, and only if, it keeps its request | `Closed` of `WebInv` |
| `WebServerProofs!NothingWaits` | what could be parsed does not wait in the queue of a request that was answered | `Sinks` of `WebInv` |
| `WebServerProofs!BrowserHasOneSession` | a browser that waits for its answers has one session | `One`, on `Waits` and `Fresh` |
| `ReadWriteLockProofs!ExclusionHolds` | a writer is alone, for any threads and handles | `LockInv` |
| `ReadWriteLockProofs!NoSelfWait` | a thread that waits for the mutex does not have it | `LockInv` |
| `ReadWriteLockProofs!FatalNever` | no internal check fails | `LockInv` and `CountInv` |
| `ReadWriteLockProofs!NothingLeaksHolds` | once all handles are closed nothing is counted or listed | `LockInv` and `CountInv` |
| `ReadWriteLockProofs!CountsBounded` | the types; a thread counts once | `LockInv` and `CountInv` |
| `FramingProofs!ReaderBounds` | the reader's state stays in its types: no more than four bytes of a size, never more of a message than its size | `ReaderInv` |
| `FramingProofs!SizeRoundTrip` | a size written by the builder is what the reader reads, unless it takes two bytes and its sign bit is set | arithmetic, for bytes of 256 values |
| `FramingProofs!InOrderHolds` | what is delivered is a prefix of what was sent, however it is cut | `Framing`'s `StreamInv` |
| `FramingProofs!PromptHolds` | a message is delivered by the call that gets its last byte | the same |
| `RelayClientProofs!ConnectedHolds` | a client that says it is connected is, under its ID | `LinkInv` |
| `RelayClientProofs!FreshHolds` | a socket that is not connected finds nothing left of the last | `LinkInv` |
| `RelayClientProofs!HelloHolds` | the timer runs only while UDP is hosted, wherever `disconnect` falls in a connect response | `HelloInv`, on `ApprovalInv` and `StreamInv` |
| `RelayClientProofs!CatchesUpHolds` | once all messages are handled the client's lists are the server's, nothing twice | `ListsInv` |
| `RelayClientProofs!TypeCorrect` | every variable keeps its type | `LinkInv`, and what the messages are (`ListTypes`) |
| `ApplicationProofs!CallsRunInOrder` | posted calls run in the order of their posts, with their own parameters, on every build | `AppInv` |
| `ApplicationProofs!NoStaleUse` | no event reaches a freed watch | `AppInv` |
| `ApplicationProofs!ObjectsOutlive` | nothing is used after `main()` deleted it, unless an exception ended the loop | `AppInv` |

*MemberInv.* `MembershipSymmetric` is not inductive: a channel that closes clears the
lists of its members only, so one needs `JoinedIsOpen`; and an answer can add a client
only because one that is gone is read-only (`GoneIsReadonly`), a fact that holds because
the reference in the request keeps the object and its flag; and while `unhost()` is at
its channels nobody is left (`ChannelsLast`).
*NameInv* adds to `NamesUnique` that only live objects have a name, so that a client
made anew brings none with it.
*ViewInv* says of every client, connected or not, what `ViewAgrees` says of connected ones:
a view holds just that, and is empty for a client the server does not talk to, so that an
object made again starts with a blank one. What a message adds or removes names IDs, so one
needs that no two live clients, or channels, have the same (`IdInv`, by the argument that
fewer IDs are used than there are objects); and a client joins only once approved, so
that it is one the server talks to (`AskedInv`).
*AloneInv* is what an application that answers inside its handlers gives: one request waits
at most, nothing happens before its answer, so the sender is still where the request found
it. *NamedInv* adds that the name of a channel to be listed is still free when the join is
accepted. *HostedInv* adds that a channel which a join will list was made for that join, and
its master is who asked: nobody has left it before. The assumptions are needed: with
`Deferred = TRUE` TLC finds `MessageAttributable` and `ChannelNamesUnique` violated, with
`MayCreate = TRUE` `ChannelNamesUnique` and `ListedIsInhabited`.
The timer's *AskedInv* and *HeardInv* relate a client's clocks to the time since the last tick
(`Elapsed`, a whole period once the next is posted): a client whose pong is missing was
asked no later than at that tick; one that is not waited for was heard of within a
period of it, any other within two; one that is closing and reads is gone before the
next. *ClocksInv* does the same for the other two clocks: the datagrams sent since the last
one that came are as many as the time past `UdpKeepAlive` has periods (`Tried`); and a client
past the inactivity limit at which a tick left was not pinged then, so that it has no pong
to send and the next tick finds it (`Lapsing`).

*LockInv.* `HandleType`; `MutexInv`, what the mutex guarantees of the handles that lock
it; `ListInv`, a thread is listed in a mode exactly when it has a `held` handle in it;
`OneInv`, a thread locks or waits with one handle at most; `NestInv`, a nested handle has
a listed one around it. `Exclusion` needs the last: a nested handle locks nothing itself.
*CountInv* says that the counts are the numbers of handles that are `held` or `leaving`;
`Enter` of another thread tests them.
*ReaderInv* adds to the types how much of a size is in the buffer (`SizeParts`), without
which the size it yields has no bound, and that the stream is made of bytes (`Stored`).
`Framing`'s *StreamInv* says what the reader has of the stream since the last message it
delivered: that stream is made of the codes of the messages not delivered yet (`Encoded`,
with the places where it is cut as a witness, since no recursive definition may be used), of
its first `p` bytes the reader keeps what it needs (`Kept`: the type, the part of the size
that came, the part of the content), and the rest is unread (`Follows`); between calls
some of the next message is missing (`Chunks`). Each branch of `process` moves `p`, or takes
a whole message off the front. That a header read is the header written is `SizeRoundTrip`.
*LinkInv* adds to the two properties that an ID comes from the current socket, and that
the socket is then approved and open (`Attached`). *StreamInv* carries that fact back to
the message it comes from: a socket with messages on their way, or whose chunk is being
handled, is `Attached`. Both properties exclude `crossed`.
*HelloInv* says that while the timer runs its socket is approved, no approval of it is still
to be handled, and `disconnect` has not come to the close: so no second connect response hosts
anew, and maybe in vain, under the timer, and UDP is unhosted only after the close hook has
stopped it. It needs that a connection is approved once (*ApprovalInv*: in what is on its way
and in the chunk there is one approval at most), and that a response about to start the timer
has hosted UDP or is of a socket left.
*ListsInv* says that the messages of the current connection that are still to be
handled, those of the chunk and then those of the stream, lead from the client's lists to
the server's (`Lead`), and that no channel is listed twice; with none left the two are
equal. It too speaks of states that are not `crossed`.
*AppInv* has a part for the pump and one for the program. On Unix, the pipe of signals and
the queue of parameters can be read side by side (`Paired`), a post's two parameters being
the next call to run and a removal's a watch of which nothing more is heard; the events of a
batch are distinct, and none after the one of the pipe is for the watch that is about to be
freed (`Drained`). On Windows, the posts in the port are what is left to run, less one in
the watcher's hands (`InStep`, `Taken`), and no completion of a descriptor is behind its
removal (`OnWindows`). The main thread and the watcher take turns with what was drained
(`Handshake`). Of the program: `Shutdown` posts the exit after its other calls
(`ExitsLast`), and `main()` deletes only after the loop has ended and the timer's thread
is joined (`Deletes`).

*EndInv* has an invariant for each endpoint. *ServerOK*: a connection in the backlog is told
apart from the others and has no client yet (`Waiting`), so accepting it tells of it for the
first time; what the user knows of a client is settled by how far it got (`Known`): a client
in its handshake is not known yet, one that is open is listed. Every hook is a step that
touches one client, or unhosts (`Touched`). *ClientOK*: a connect that failed unnoticed has no
socket. *UdpOK*: receives that were posted are in the kernel or the queue, or one is the
completion that runs (`Held`), and the object is there while it is referred to (`Lives`); a
completion's hook may unhost, host again or delete before its own receive is counted off, which
is why `Held` is proved through the middle of it. *OpenSSLOK* and *SchannelOK* say how many
messages were taken of what came (`Tracks`, `Plainly`), the number being the witness: what is
not taken yet is what follows in the peer's stream, and what was delivered is the records among
those taken. With OpenSSL that holds at every cut; with Schannel as long as every chunk was one
message.

*WebInv* speaks of one record, the state, and of what each function makes of it. Where `front`
is decides what the request object may hold: between two requests (`Between`), within
the headers (`Heading`) and within a body (`InBody`). Requests that are complete have an answer
each, but for one that is awaited (`Counted`), so that the request about to be answered is the
next in turn (`InOrder`); what the object holds of items and headers is that request's
(`Own`); every answer is its request's (`Answers`). That is `InTurn`. For `OneSession` the
browser has to wait: what it has sent reaches no further than the request after the last
answer (`Waits`), so no headers that carry an old cookie are still to be parsed (`Fresh`,
`NothingPending`), and the sessions that live are the one it names or will be told of (`One`).
`Sinks` is `Prompt`: the sink runs as long as there is something that it may parse.
`Closed` is `Told`. Each function has a lemma (`RespondEffect`, `CallUploadsEffect`,
`MessageCompleteEffect`, ...) that takes a record with its part of the invariant to one with
the next part; `Result` is what a token leaves, before it is known whether the sink goes on.
Once something is in `broken` only `Bad` is denied, as no action is taken from there.

*Assumptions.* The constants' (`RelayAssumption`: `Lower` is a function on names, `None`
is none of the objects, the sets of objects are finite; `TimerAssumption`;
`PoolAssumption`; `ListenerAssumption`: its accepts are finitely many; `EndpointAssumption`;
`WebAssumption`: the bounds are positive; `FramingAssumption`; `ClientAssumption`: `None` is
not a number; `PumpAssumption`: descriptors are finitely many and none of the pump's own;
`ClientsAssumption`: the application's clients are descriptors). And, in the statement of
the theorem:

* `IsFiniteSet(Threads)` where the lock's threads are counted (`FatalNever`,
  `NothingLeaksHolds`, `CountsBounded`);
* `~Stalls` for the ping timer: ticks do not pile up. Without it `GraceGiven` fails, as
  `PingTimerStalls.cfg` shows. `InactivityEnds` and `UdpStaysAlive` also assume
  `UdpKeepAlive > 0` and `MaxInactivity >= Period`; the code's are 15000, 600000
  and 5000 ms (`RelayServer.cc` 72, 76, 61);
* `Deferred = FALSE`, the bundled application, for `MessagesAttributable` and
  `ChannelNamesStayUnique`; `MayCreate = FALSE`, an application that makes no channel itself,
  for the latter and `ListedStayInhabited`. The other theorems of `RelayServerProofs` hold
  of either;
* `Byte = 256` for `SizeRoundTrip`, and `Readable` for `InOrderHolds` and `PromptHolds`: bytes
  of 256 values, and no message sent has a size of two bytes with its sign bit set (32768 to
  65534), which the reader takes for negative, or one beyond 32 bits. TLC's instance has
  sizes with the sign bit in it. `InOrder` holds with them there, but not for every number of
  messages: the reader would deliver the next 2^32 bytes, nearly, as one message.

*Only model-checked.* Liveness (`UnhostEnds`, `HandshakeEnds`, `PostsRun`), since fairness and
`ENABLED` are beyond the installed provers, and everything of `Streams`: it needs `RECURSIVE`
operators, because a push through the graph calls streams that push, retry and close in turn,
without an order, and tlapm can prove nothing of a module that has them. Where an argument is by induction over a queue, the
proofs quantify over a function on its positions instead (`Paired`, `Encoded`).

*Types.* The type invariants are not among the runs. Those of the ID pool, the relay server,
the relay client, the lock and the reader are proved (`TypeCorrect`, `CountsBounded`,
`ReaderBounds`), those of the timer, the listening server, the pump and the application as
far as needed (`TimeInv`, `AcceptTyped`, `Typed`), those of the other endpoints in `EndInv` and
of the web server in `WebInv` (`Net`). The modules of the relay's parts have a `TypeOK` for
whoever wants to run it.

## 5. Not modelled

* In the relay server: message content and wording, the list-channels request and the
  hidden flag, empty names, server messages and blasts (no state but clocks),
  implementation detection, logging and statistics.
* The order in which handlers take the locks of server, channel and client; `relock`;
  reading and writing the fields of a message.
* In the relay client: the channel list, masters, names of channels, messages that change
  no list, replies to pings, an application that asks before it is connected or calls
  `connect` from the disconnect handler (which would connect the socket that is closing).
* The relay client and server joined by two streams: each is modelled against what the
  other may send.
* In streams: the buffers of a queue's head beyond one, removal of hooks, nagle and cork,
  two links that are moved directly at once, reads of a bounded size.
* In the pump: errors of system calls, write readiness (which the streams have).
* In endpoints: certificates, addresses, IPv6 and broadcast; what the TLS libraries compute;
  shutting TLS down, which closes the downstream filter only.
* In the web server: SPDY, MIME types, headers and bodies beyond who they belong to, the
  idle timeout (compiled only under `LacewingTimeoutExperiment`; its tick would use
  a client it has freed), nested multipart bodies (whose parent is never set).
* In the application: printing and statistics. `clientdata` is edited by two threads at
  once, a data race whose outcomes are not enumerated: a client found before and used
  after a clearing is (`Use`).
* Flash policy, C++ wrappers, utilities, headers, vendored data structures, opening files:
  a fixed answer, one-line delegations, formatting, declarations, third-party code.
  `windows/sslclient.c` and `clientssl.c` are not used by anything.

## 6. Plan

Done: every module of the first plan but two, with their runs. What is left, in this order:

1. `RelaySession`, which would compose `RelayClient`'s handlers with `RelayServer`'s over two
   FIFO channels: a peer message that crosses the close of its channel (hazard at
   `RelayServer.cc` 1795), and a roster of names and members that both sides follow, as an
   abstract specification of the two.
2. `LockOrder`, which would make each handler a sequence of opens and closes of the three
   kinds of lock, for two threads, the pump's and the console's (hazard at
   `RelayServer.cc` 799): nobody waits for ever, and no unlock throws.
3. Proofs of these two, as far as they are safety: that the two rosters agree once every
   message has arrived follows from `ViewsAgree` and `CatchesUpHolds` if the messages of one
   are those of the other.

4. `Streams` without `RECURSIVE` operators, a step at a time as `WebServer` and `SecureFilters`
   are, and its four invariants proved.

The invariants that the runs check of every module but `Streams` are proved. Proof modules
are kept to one per component.
