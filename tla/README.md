# A TLA+ model of tiny

tiny is a small web server in C: one accept thread, a fixed set of worker
threads with an epoll loop each, static files through a per-worker cache of open
files, and a reverse proxy that runs inside the same loop. This directory models
the parts of it that are hard to test, checks them with TLC on small instances
and proves with TLAPS, for every size of it, what it says of the connection
queue, the worker pool, the logger, the open-file cache, the routing table, the
request parser, the HTTP connection and the proxying of a slot.
Paths below are relative to the repository's `src/`.

## The system

| Part | State | Operations | Interacts with |
|---|---|---|---|
| Connection queue (`connection.c`) | ring of cells with a ready flag, `head_id`, `tail_id` | `enqueue_connection`, `dequeue_connection` | accept thread puts, workers take |
| Accept thread (`runtime.c`) | `workers_started`, `stop`, eventfd | create, await, accept, notify, destroy | queue; wakes all workers by one eventfd |
| Worker loop (`worker.c`) | slots, free stack, count of active slots, armed interests, batch of events | accept, wait, handle, sweep, exit | queue, HTTP connection, proxy |
| HTTP connection (`http.c`) | phase, header buffer, deadline, keep, a bump arena (`allocator.c`) | read, dispatch, write, reuse, clean-up | parser, routes, static files, proxy |
| Reverse proxy (`proxy.c`) | per slot: upstream socket, phase, buffers, flags; per worker: stack of idle sockets | begin, pump, close, release, reopen, retry | both sockets of the slot, the worker's epoll |
| Static files (`static.c`) | document root; table of open files with use counts, retired descriptors | decode, normalise, open, redirect, send; find, recheck, store, retire, release, clear | file system, routes, connections that send |
| Logger (`logger.c`) | ring of lines, `head_id`, `tail_id`, `logger_run` | `tiny_log`, logger thread, `log_shutdown` | every thread |
| Routing table (`routes.c`) | the site's routes and their open directories | load, check, install, match, serve, shut down | file system, HTTP connection, static files |
| Request parser (`http_parser.c`) | none | `http_parse_request` | HTTP connection |
| Statistics, entry point, test client | | | |

What is hard: two lock-free rings; a single eventfd whose wake-up any worker can
take away; batches of events that name slots by index while handlers close slots;
two non-blocking sockets per proxied request that may block, close or be reset
between any two calls, a budget that interrupts the pump anywhere, and pooled
sockets that die while idle; files replaced between two system calls, descriptor
numbers that are reused, counts that decide when a descriptor may be closed;
requests that arrive in any number of pieces, or several in one; a start-up that
looks at its targets three times while they change.
`PROJECT.json` lists each of these hazards with its line and the properties that
would catch it.

What makes each part correct: a queue entry reaches one worker, whole and in
order; every connection has one owner and is eventually taken, swept or joined;
events act on the connection they were reported for; a client receives the
beginning of exactly one response to its own request, and one whose header tells
its length whole before its next request is taken; an upstream receives a request
whole and a POST once; a descriptor a response is sent from stays open on its file
and is closed by its last user; the log is the accepted lines in order; every
request of a connection is answered as it deserves, in order, however its bytes
are cut, and every connection ends; a site that passed its check is installed, the
longest prefix wins and a file comes from the tree of its own route.

## Modules

| Module | Models | Runs |
|---|---|---|
| `ConnFifo` | the abstract bounded queue the ring promises | through `ConnQueue` |
| `ConnQueue` | `connection.c`, access by access | `queue_timely`, `queue_lapped` |
| `ConnQueueProofs` | theorems about `ConnQueue` | TLAPS |
| `WorkerPool` | `runtime.c` (`tiny_run`, `tiny_runtime_destroy`) and the loop of `worker.c` | `pool_safe`, `pool_live`, `pool_hang` |
| `WorkerPoolProofs` | theorems about `WorkerPool` | TLAPS |
| `LogQueue` | `logger.c` | `log_ring` |
| `LogQueueProofs` | theorems about `LogQueue` | TLAPS |
| `FileCache` | the cache of `static.c` and the descriptors of `http.c` | `cache_safe` |
| `FileCacheProofs` | theorems about `FileCache` | TLAPS |
| `ProxySlot` | `proxy.c` with its callers in `http.c` and `worker.c` | `proxy_reuse`, `proxy_faulty`, `proxy_twice` |
| `ProxySlotProofs` | theorems about `ProxySlot`: its sockets, what it waits for, where a POST goes | TLAPS |
| `ProxyFlowProofs` | theorems about `ProxySlot`: requests and answers that flow through it | TLAPS |
| `StaticPath` | what `static.c` makes of a URL: pure operators | through `Routes` |
| `Routes` | `routes.c`: site file, start-up, requests, shutdown | `routes_serve` |
| `RoutesProofs` | theorems about `Routes` | TLAPS |
| `HttpParser` | `http_parser.c`: pure operators | through `HttpConn` |
| `HttpConn` | `http.c` with the writer of `static.c`, `allocator.c` and the loop of `worker.c`, for one connection | `http_stream` |
| `HttpConnProofs` | theorems about `HttpParser` and `HttpConn` | TLAPS |

`HttpConn` extends `HttpParser`, and `Routes` extends `StaticPath`. The three
models of a connection meet at `route_begin`: `HttpConn` takes what a resource
ends in as given by its name, `Routes` says how the name leads there, `ProxySlot`
goes on where a route is proxied, and `FileCache` where a file is sent.

The `MC` modules hold the instances. Definitions called *variant to be rejected*
are plausible mistakes in the code; `PROJECT.json` names, for every property, the
variant that breaks it, so that no property holds for want of a way to fail.

**ConnQueue.** `data`, `ready`, `head`, `tail` are the fields of
`connection_queue`; a payload is copied one field at a time, and each field holds
the number of the accept it came from. The accept thread has four steps (accept,
check the flag at tail, copy, publish), a worker six (load head, probe, recheck,
exchange, copy, release). `enq`, `dropped` and `handed` are history. Atomics are
sequentially consistent; the relaxed exchange of `head_id` is therefore stronger
here than in C. Positions do not wrap: they are 64 bits wide.

**WorkerPool.** The queue is `ConnFifo`'s, taken from in one step. Each thread
has a program counter; a worker's batch is the set of events of one `epoll_wait`,
each tagged, as history, with the connection it was reported for. The free stack
is a sequence, the eventfd a Boolean (its counter is only ever read to zero).
What a handler does is left open: keep, renew the deadline (a client may do so
for ever), or close. Deadlines pass at any moment; only the interruptions of
`epoll_wait` are bounded (`MaxDisturb`). The descriptors, arenas and pools freed after the joins are
not state here.

**LogQueue.** Every atomic access of `enqueue_log` and `dequeue_log`, ids modulo
`2^W`, and both loops of the logger thread. The length and the text of a line
are copied separately. The spin's pauses are left out.

**FileCache.** Files are version numbers: each replacement is a new inode with
its own size and times (a file edited in place, under the same inode, is not
modelled), and some are no regular file: what `S_ISREG` refuses, though `open` may
not. The kernel hands out the lowest free descriptor. `fstatat` and `open`
of one request are separate steps, and other processes act between them.
`version` and `atLeast` of a connection are history.

**ProxySlot.** One slot, its client, and every upstream socket opened for it.
An iteration of `proxy_pump`, which makes at most one system call, is a step.
Streams are sequences of units: two for a header, one for a piece of a body, one
for a last chunk; every unit names its request, so that bytes of another
request's response are visible. An upstream may send past the end of what it framed (`Past`,
units `o`): a body longer than its Content-Length, one after the answer to a
HEAD or after a 204, bytes after the last chunk. A call transfers any number of
units. `caller`
says who receives the pump's result (`http_conn_on_read`, `http_conn_reuse` or
the event loop), since each treats it differently. Deadlines are a `Timeout`
while the slot waits. Corking, header text and chunk syntax are left out; a
request's header arrives in one piece, 405, 411 and the parser's errors are the
`deny` target, and a header that never ends (431) is `long`. `excused` of the
connection is history: a failure the upstream or the system is to blame for.

**StaticPath, Routes.** A path is a sequence of symbols, each a character or a
whole `%XX` escape, so that decoding changes what a path is; normalisation works
on the segments between slashes. What lies at a path may also be something whose
open fails with an error that `arm_open_error` answers 500 (a socket, a name that
is too long), and a redirect is read as a client reads it (`NamesHost`). A site file is a sequence of lines, already
split into words: blank, `listen`, a route, or one that is refused. Start-up goes
through the stages load, check, begin, stat/open per route, serve, exit, and
whatever lies at a target may change between any two steps (`Change`). Open
descriptors are a function from numbers to what they refer to, so that one that is
closed twice, or another one closed in its place, shows. `excuse` is history: an
open failed, or a target changed since the check. A request is one step;
the cache is a set of relative paths, since `FileCache` has its details. `Walk` and
`Names` are the reference for `NormalizePath`: how a file system itself would
read the decoded path.

**HttpParser, HttpConn.** A byte stream is a sequence of units: what a line holds
is one unit, CR and LF are units, and so is a piece of a body. The tests on the
characters of a line are given with its unit (`Junk` fails them); where lines end,
which are fields, what comes twice or is missing, and the value of
Content-Length with its overflow test (`UMax` is 255 here) are computed. A read
returns any number of the units to come, or nothing; how much has arrived is
open until then. `hc.ttl` is the deadline less the clock, which moves only while
the worker waits, since the loop reads the clock once per turn. Responses are
sent in parts, and any number of parts is taken by a call. Sizes of the arena's
allocations are the code's. `Statuses` and `GoesOn` are the reference: what a
request deserves, read off the request and not off the buffer.

## Runs

Passing:

| Run | Instance | Shows |
|---|---|---|
| `queue_timely` | 2 workers, 2 fields, capacity 4, 6 connections | one claim per position, ring invariant, whole payloads, refinement of `ConnFifo`, and every published connection is handed out, when nobody is lapped |
| `pool_safe` | 2 workers, 2 slots, queue of 2, 3 connections, all faults | one owner per connection, exact free stack, no stale event |
| `pool_live` | 2 workers, 1 slot, a start that may fail | no lost wake-up while slots are free, the queue drains unless some worker is full for good, deadlines are swept, shutdown ends |
| `log_ring` | 2 producers of which one may stop anywhere, ring of 2, ids from 13 wrapping at 16 | output in order across the wrap, lines flushed, drained at exit, dropped only for cause, `log_shutdown` returns |
| `cache_safe` | 3 colliding paths, 2 slots, 2 connections, 1 retired slot, 3 descriptors, 4 versions of which one is irregular | descriptors, counts, table and freshness |
| `proxy_reuse` | scripts of two requests, 2 upstream sockets, epoll and connect failures, no budget limit in reach | every property of a proxied slot but `PoolClean` |
| `proxy_faulty` | every kind of request and answer, answers that go on past their end, budget 2, epoll and connect failures | responses stay intact, sockets that were read too far are not parked |
| `routes_serve` | 68 site files of up to 5 lines, 3 routes and prefixes of 5 symbols, 2 targets one of which changes, paths with escapes, dots and doubled slashes, files whose open fails | table sound, a 500 only where an open fails, nothing left open, longest prefix, own tree, redirects settle or name another host, check foretells start-up |
| `http_stream` | 25 kinds of requests in scripts of 2 or 3, a buffer of 17 units for requests of 5 to 20, timeouts of 1 or 2 ticks | answers in order, nothing forgotten, verdict independent of the cuts, arena suffices, deadlines fixed, every connection ends |

The type invariant of each module, `TypeOK`, is a part of one of the invariants a
run checks (`SlotsAccounted`, `OutputInOrder`, `UsesExact`, `PoolClean`,
`TableSound`, `ArenaSuffices`); that of `ConnQueue` is proved by itself, and those of
`WorkerPool`, `LogQueue`, `FileCache`, `Routes` and `HttpConn` with the invariant they
are in; that of `ProxySlot` is a part of the invariant `SlotInv`.

Why the bounds suffice. The rings need the cell at tail to be reused while a
worker still copies, and the ids to wrap: a ring of 4 for 6 connections and one
of 2 for 6 lines, with ids that start just below the wrap, do both. The pool needs a full queue, a full worker beside a free
one and a sweep between two batches: 2 workers with 1 or 2 slots and 2 or 3
connections. The cache needs a collision that wraps, a tombstone with an entry
behind it, and a descriptor number that is reused while an older one is retired:
3 paths in 2 slots, 3 descriptors and 4 versions. The proxy needs a socket that is parked,
dies, and is replaced, a transfer that ends in the middle, and two units past an answer
of which one may be read: 2 requests, 2 sockets, buffers of 3 units. The routes need a file that becomes a directory
between check and start-up and then collides, a prefix that just fits, and the
same relative path in two trees: 2 targets and one change. The connection needs
two whole requests in the buffer at once, a request that does not fit, a cut at
every unit and a third request on one arena: two short requests are 16 units, the
longest is 20.

Violations, each a disagreement between the code and a line of the repository
(quoted in `PROJECT.json`, "findings"):

| Run | What happens |
|---|---|
| `queue_lapped` | a worker delayed between its exchange and its release is lapped; its connection goes to a second worker |
| `pool_hang` | three workers, two notifications: one worker sleeps for ever and is joined for ever |
| `proxy_twice` | a body byte that arrives between two reads proxies the request again and loses a socket |

The limits of the passing runs. Some properties hold only in the instances named
above. Each of these changes to a cfg makes TLC show how the code departs from
them:

- `proxy_reuse` with `Budget = 3` and a POST of two units breaks
  `BadGatewayForCause`: when the budget ends in `PX_SEND_BODY` with nothing left
  to send, none of the tests at `proxy.c:1060-1079` applies and 502 is answered.
- `proxy_reuse` with `Budget = 2` and one GET answered by a 1xx block and a
  header breaks `WaitsForNeed`: `PX_RECV_HDR` waits for the upstream although the
  final header is already in `px->buf` (`proxy.c:1070`).
- `proxy_reuse` with a second request that is a GET with a body breaks
  `RequestIntact` (its part `RequestWhole`): `proxy_reopen` rewinds `hdr_off` but not the body, so the retry
  is sent without it (`proxy.c:268`).
- `proxy_reuse` with `HeaderCap = 2` and a POST of two units breaks
  `ResponseIntact`: `http_conn_on_read` writes 431 in front of the upstream's
  answer (`http.c:298`).
- `cache_safe` with three connections that send from one path breaks `OneOwner`:
  with all retired slots taken `retire_fd` returns without recording the
  descriptor, `static_cache_release` finds it nowhere, and it stays open
  (`static.c:452`; in the code 8 slots and 128 connections).
- `http_stream` with `LocSize = 3936` breaks `ArenaSuffices`: a redirect whose
  path and query leave no room in the 4096 bytes behind the two path buffers is
  answered 500 (`static.c:337`), though its header fits the header buffer.
- `proxy_faulty` breaks `OneUpstream` the way `proxy_twice` does: the budget
  ends while the client's bytes are waiting.

Others are exempted by the property itself, because the code does not do more:

- `QueueDrains` and `QueuedOnlyWhenSomeFull` excuse a connection that stays queued
  while *some* worker is full. A full worker may drain the shared eventfd and
  stay full, its clients asking again and again, while another with a free slot
  sleeps without a timeout and the connection waits (`runtime.c:421`). Without the excuse
  TLC shows it.
- `WholeWhenDone`, a part of `ResponseIntact`, says nothing of a response that only
  the upstream's close ends. `rewrite_response` writes `Connection: keep-alive` for it all
  the same and `proxy_done` keeps the client (`proxy.c:810-831`, `321-335`), which
  then has no way to tell this response from the next one on the connection.
- `PoolClean` says that nothing past an answer was *read* from a parked socket, not that
  nothing is there. Reads of a body with a Content-Length are capped at its end
  (`proxy.c:1361`), and a header read may end just at it, so that bytes behind it stay
  unseen, `PX_OVERREAD` is not set (`proxy.h:30`: "read past the framed body; do not
  pool") and the socket is parked with them. The next request that takes it meets them in
  place of its status line. In the model they are taken to be no
  status line, so that it is answered 502; bytes that look like a response would be
  taken for the answer.
- `RedirectSettles` exempts a path that begins with two slashes. `GET //d` for a directory
  is answered `Location: //d/` (`static.c:347-358`), which a client reads as the
  host `d`. The property says that this happens for such paths only.
- `TableSound` lets a 500 be sent where an open fails with an error other than the five
  that `arm_open_error` answers by themselves (`static.c:412-421`): a segment
  of more than 255 bytes, or a socket, is answered 500 as a broken table would be.

Also seen in the models, with no property of their own: a file replaced between
`fstatat` and `open` of a recheck is announced with the other one's size until
the next recheck (`static.c:545`); an upstream event that follows the end of the
response in one batch closes a client that was to be kept (`worker.c:331`); a slot
whose requests go to two addresses has one socket in use and another parked,
where `proxy.c:96` says "Peak fds stay one per slot"; a directory or proxy prefix
`/a/` also matches `/a`, and being longer it beats a file route `/a`, of which
`routes.h:17` says "A regular file route matches that path only". In an
absolute-form target the authority is not looked at (`http_parser.c:134`), so a
bare LF in it is part of the line when the rest has arrived and a verdict of its
own when it has not; the units leave such a line out.

Deadlock is not checked where the system may rest: once the bounded clients have
nothing more to do, a server waits. `ConnQueue` is checked for it.

## Fairness

- `ConnQueue`: nobody is lapped, a worker keeps running and polls again after an empty look, as
  the loop of `worker.c` does on every wake-up. Nothing is asked of the accept
  thread.
- `WorkerPool`: runnable threads are scheduled; a worker asleep in `epoll_wait`
  returns when the eventfd is readable, or when its timeout elapses, which it has
  only with active slots; deadlines pass. No client has to do anything, and none is
  made to stop: clients may keep a worker full for ever, so that the queue need not
  drain while some worker stays full (`QueueDrains`).
- `LogQueue`: the logger runs, and a joined thread inside `enqueue_log`
  finishes. No thread has to log.
- `HttpConn`: the worker runs a handler it has begun to its end, sweeps what has
  expired (it waits for 50 ms at most while a slot is active, and sweeps every
  so many rounds when busy; `WorkerPool.ExpiredIsSwept`), and time passes, also
  while events keep coming. The client has to do nothing.

## What is proved

Each proof module holds the theorems about one model. The theorems are about
the definitions the runs check, for every value of the constants that the model's
`ASSUME`s admit; TLC evaluates those on every run. In
each module one inductive invariant, stated in the model beside the properties
it is for, carries them all: it holds initially, every action keeps it, and it
implies the properties. The proofs have one step, or one lemma, per action.

| Theorem | States | Holds of |
|---|---|---|
| `TypeCorrect` | `TypeOK` of the queue | `Spec` |
| `ClaimsOnce` | `ClaimsDistinct` | `Spec` |
| `WholePayloads` | `Delivery` | `TimelySpec` |
| `RingIsFifo` | `ImplementsFifo`, the refinement of `ConnFifo` | `TimelySpec` |
| `SlotsAreAccounted` | `SlotsAccounted` | `Spec` |
| `NoEventIsStale` | `BatchNotStale` | `Spec` |
| `EveryConnInOnePlace` | `OnePlace` | `Spec` |
| `NoWakeupIsLost` | `QueuedOnlyWhenSomeFull` | `Spec`, if `epoll_wait` does not fail |
| `LinesInOrder` | `OutputInOrder` | `TimelySpec` |
| `NothingJoinedIsLost` | `DrainedAtExit` | `TimelySpec` |
| `DroppedForCause` | `RefusedForCause`, an action property | `TimelySpec` |
| `UsesAreExact` | `UsesExact` | `Spec` |
| `EntriesAreReachable` | `Reachable` | `Spec` |
| `EditsShowUp` | `EditShowsUp` | `Spec` |
| `OwnedWhileRoom` | `OneOwner` | `Spec`, while `Room` |
| `TableIsSound` | `TableSound` | `Spec` |
| `DirectoriesAreClosed` | `NothingLeft` | `Spec` |
| `LongestPrefixWins` | `MatchIsBest` | `Spec` |
| `CheckIsConclusive` | `CheckPredictsInit`, an action property | `Spec` |
| `VerdictsAreFinal` | `EarlyVerdictFinal` | `Spec` |
| `DeadlinesStay` | `DeadlineFixed`, an action property | `Spec` |
| `ArenaIsEnough` | `ArenaSuffices` | `Spec`, if the arena holds one request (`Fits`) |
| `SlotInvariant` | `SlotInv`, with `TypeOK` of the proxy | `Spec`, while `Quiet` |
| `OneUpstreamHolds` | `OneUpstream` | `Spec`, while `Quiet` |
| `PostOnceHolds` | `PostOnce` | `Spec`, while `Quiet` |
| `RequestIntactHolds` | `RequestIntact` | `Spec`, while `Quiet`, for `Bodyless` scripts |
| `WaitsForNeedHolds` | `WaitsForNeed` | `Spec`, while `Quiet` and `Affordable` |
| `PoolCleanHolds` | `PoolClean` | `Spec`, while `Quiet`, for `Bodyless` scripts |
| `ResponseIntactHolds` | `ResponseIntact` | `Spec`, while `Quiet`, for `Bodyless` scripts |
| `BadGatewayForCauseHolds` | `BadGatewayForCause` | `Spec`, while `Quiet` and `Affordable`, for `Bodyless` scripts |

**ConnQueue**, for every set of workers, every set of fields that has `fd`,
every capacity of at least 2 and every number of connections. `ClaimsDistinct` is
inductive together with the type
invariant and `HandedBehindHead`: only the exchange moves `head`, by one, and
the position it gives away is the old `head`.
`TimelySpec` adds one assumption, `NotLapped`: no worker sits between its
exchange and its release while `head` advances by a whole ring. It is needed,
as `queue_lapped` shows. `Delivery` is not inductive. `RingInv` adds where
entries are: a position *occupies* its cell from publication to release
(`Occupied`); occupied cells are ready and hold what was published
(`OccupiedCells`); a ready flag belongs to an occupied position
(`ReadyMeansOccupied`); the cell being filled is the producer's
(`ProducerOwnsCell`); what a worker has copied so far is of its entry
(`WorkerLocals`). Two lemmas on remainders carry the argument: positions less
than a ring apart have different cells, and positions a ring apart share one.
For the refinement, a ready flag at tail is shown to mean that the queue is full,
and each of publish, exchange and release is a put, a take and a give.

**WorkerPool**, for any number of workers, slots, queue entries and connections,
with all the faults. `PoolInv` adds to the properties the life cycle of a worker
(`LifeCycle`: it has slots and events only between a successful start and its
exit, and is created once) and where connections are (`Places`: the queue, the
slots and the closed ones partition the accepted ones). `OnePlace` counts with cardinalities; `Places`
says the same with sets and indices, which is what an action can be followed
through, and the last step of `EveryConnInOnePlace` turns one into the other. A
batch is never stale because slots are only given away in `accept`, where the
batch is empty. For `QueuedOnlyWhenSomeFull` the invariant `NoLostWakeup` says
who will look: once the eventfd is drained with a connection queued, some
worker is between its wake-up and its look at the queue, or is full. The theorem
assumes `"wait" \notin Faults`: a full worker that was the excuse may have its
`epoll_wait` fail, and it then ends and closes its slots with the connection
still queued.

**LogQueue**, for any set of threads, any ring that divides the ids (they are
`W` bits wide) and any number of lines. The ids wrap, so the invariant speaks of
places that do not: `Id(j)` and `Cell(j)` of a place `j`, with `Taken` and
`Len(placed)` for head and tail (`RingIds`). `Writers` says that a place between
the compare-and-swap and the store of `ready` is one thread's, `Cells` what every
entry of the ring holds and when it is ready, `Copied` and `ShutDown` what the logger has
got and whom `log_shutdown` found idle. `TimelySpec` assumes `NotLapped`: no
thread sits between its load of the tail and its compare-and-swap while `2^W`
lines are placed, 2^32 of them in the code. Without it a compare-and-swap
succeeds on an id that has come round: a ring of one entry with one-bit ids breaks
`RefusedForCause`. `log_ring` does not assume it; its threads log too few lines to
get that far. That `2^W` is a natural number is among the assumptions because
the provers know no exponentiation.

**FileCache**, for any paths, hash, table size, number of retired slots,
descriptors and versions, and any finite set of connections; no further
assumption. `Sound` is stated of any tables rather than of the variables, since a
handler makes several calls: each of drop, put, share, own, close and release
has a lemma that it keeps `Sound`, and an action's proof chains them. It says that
no descriptor has two owners (`Apart`), that what anyone holds is open on its file
(`Backed`), and that counts are exact (`Counted`). `Chained` is the invariant of
open addressing: a path has one entry, and no slot between its home and its entry
is empty. `Newer` and `Serving` say what a request may rely on between its system
calls: what `fstatat` or `fstat` saw is no newer than what is at the path, and
the entry it looked up is still there. That a descriptor has at most one owner is in
`Apart`; that it has one at all (`OwnerInv`) depends on `retire_fd` finding a free
slot. `OwnedWhileRoom` proves `OneOwner` as long as it does (`Room`). With one
connection more than retired slots it always does, which is the instance
of `cache_safe`; the code, with 8 retired slots for 128 connections, has no such
bound (see the limits above).

**Routes**, for any set of site files over any prefixes and targets, any limits
and any changes of the targets during start-up; no further assumption.
`RoutesInv` says of each stage what is done (`SiteInv`; `TableInv`: routes before
the one `routes_init` is at are set up, those after hold no descriptor, and what
is open is exactly what the table holds), and, as long as nothing has changed
since the check, that what is installed is what was checked (`Agrees`). Two
lemmas are about the matching itself: `MatchIsCovers`, that the comparison of
`prefix_matches` finds exactly the paths a prefix covers, and `MatchDetermines`,
that two routes matching one path to the same length have one prefix, so
that the winner is unique in a table without duplicates. The assumptions on
constants say that a path starts with a slash or is empty, as
`http_parser.c` hands it on, and that no target has the name that stands for
none; `Texts` lists the symbols the module writes, because the provers do not
know that they are strings.

**HttpConn**, for any scripts of requests, any buffer, timeouts and sizes, and any
way of cutting the stream. `ConnInv` says that the buffer is what was read of the
stream and not yet answered, where the worker may be while it reads and while it
answers (`Phases`), and that a request is read with an empty arena and no verdict,
while a verdict is the parser's on the buffer (`Verdicts`). So `EarlyVerdictFinal`
comes down to a lemma about the parser alone, `ParseGrows`: what follows a buffer
it has judged does not change the judgement. The lemma goes along the
parser: a line that has its end keeps it (`EndsStay`), the loop over the
fields comes past the same ones (`LoopGrows`), and what was refused among them
stays refused (`RefusedStays`). It has one exception, which the
property states: a bare LF is refused at once when no CR is behind it, but the same bytes
with a CR as the last of them are waited with (`http_parser.c:55-64`). For this the
loop is written without recursion, as a count of the lines that are fields.
`ArenaIsEnough` has a hypothesis on sizes, `Fits`: the two path buffers and the
longer of a response header and a redirect (`LocSize` is the length of its target) fit
in the arena. The code meets it for the header, and for targets up to 3935 bytes;
above that see the limits. `SentAssumption`, that the stream of a script is a
sequence, is an assumption because the stream is a fold, of which the provers
know nothing without induction.

**ProxySlot**, for any scripts and responses, any number of sockets, any sizes of
pool and buffers, any budget and all the faults. The code does not keep these
properties unconditionally, so the theorems are of the form *as long as `Quiet`
holds, the property does* (`Spec /\ []Quiet => []P`). `Quiet` says that
`http_conn_on_read`, which takes a `WANT_READ` of the proxy for its own and reads
on, then finds no bytes and has room. `proxy_twice` shows what happens otherwise;
the bytes may arrive between the two reads, or be there because the budget ended in
`PX_SEND_BODY` before they were read. The other two hypotheses are limits that
the runs show too (above). `Affordable`: the budget does not end with a whole
header of the answer in the buffer, or with a body that is sent, where the lines
behind the loop wait for the wrong end or answer 502; any budget that the data
does not use up meets it. `Bodyless`: no GET or HEAD has a body, which a retry
would lose.

The invariants build on each other. `SlotInv` says where the worker may be, by
what the slot does (`Control`), and that a socket is the slot's, in the pool
once, or not open (`Owned`); every action is first brought into the form of one of a
few effects (the upstream is dropped, parked or replaced, the slot waits, the
loop goes round), and each effect keeps it. For what is sent, `HandInv` follows
the client's bytes: those read and those in flight are consecutive (`Follows`),
and what the slot still has in hand of a request ends just before what it has
not read (`Hand`). A turn of the pump then is one of six things to a request
(`RequestStep`: it goes on, ends, starts over, or moves a piece of the header or of
the body). `PostInv` gives `PostOnce`: a socket that has anything of a POST is the only one, and
once a unit is gone `PX_SEND_REQ` with a whole header, where a retry is
possible, is behind. `GotInv` says that requests go upstream in the order of the
script, so that the current one is new to every socket when it is dispatched, and
`RequestInv` that what the slot's socket has been sent ends with exactly what is
gone of the current request. `WaitInv` needs `Affordable` in one place only, the
lines behind the pump's loop.

For the answers, `AnswerInv` has two parts. `Exchange` is about the slot's socket:
what the client has been sent, what the slot has read and not forwarded yet
(`Shown`: by the phase, its header and its buffer, or neither), what is unread in
the socket and what it will still send are, one after the other, a stretch of one
response to the current request (`Within`), which begins at its header once the
header is recognised; from there on the slot's counters say what is left of it as
it is framed (`Framed`). Before that, the line may begin with what an earlier answer
left in a pooled socket instead; such a header is refused. What the upstream sends past the
framed end is part of the line but never of what is forwarded. `Idle` is about every
other socket: no request in it is without an answer, and what is left in it,
if it is in the pool, is past the answer it gave last. A unit that moves along
the line leaves the line as it is, so that a step of the pump comes down to the
one counter it changes. `PoolClean` follows: parking needs the end of the body with
nothing read beyond it, so that what is left begins with the first unit behind
it, and by `RequestInv` the whole request is gone where its answer
is awaited. `OutInv` adds whose
answer it is: the server's own, of which the rest is in hand (`left`), or an
upstream's without its 100; where the next request is taken it is complete, if its
header tells its length (`WholeWhenDone`; see the limits for the others). `ResponseIntact` is read off it. `CauseInv` says why `http_conn` answers a proxied
request itself; the lines behind the pump's loop answer 502 as well, for no
cause but the budget, and there `Affordable` is needed again.

Where a lemma needs induction, it is by
least counterexample: a set of naturals without a least element is empty, and the
elements of a finite set can be listed. Theorems with an operator parameter, which
the library offers for induction, cannot be instantiated by the installed provers.

Only model-checked, and why:

- all liveness (`EventuallyHanded`, `QueueDrains`, `ExpiredIsSwept`,
  `ShutdownCompletes`, `EventuallyFlushed`, `LoggerEnds`, `Closes`): fairness and
  `ENABLED` are out of the prover's reach;
- `OwnTree` and `RedirectSettles` of `Routes`: they compare decoding and
  normalisation with a walk through the path, which is induction over its
  segments;
- `AnswersInOrder` and `NothingForgotten` of `HttpConn`: they compare the answers
  with the script the stream is a fold of, which is induction over the script;
- `ResponseIntact` where `Quiet` does not hold, which `proxy_faulty` has in it;
  `OneUpstream`, `WaitsForNeed`, `RequestIntact` and `BadGatewayForCause` do fail without
  the hypotheses that their theorems have, by the limits above.

## Not modelled

Weak memory orders; the listener's options and pool sizes; statistics (counters
nothing reads, and the signal that prints them); the test client; MIME types; the
text of headers and of the site file's words; the tests on characters within a
request line or a field; symbolic links (`openat2` resolves them or refuses);
`http_get_header`, which has no caller. `STATIC_PATH_MAX` is not reached: a target
is part of a header block of at most 4096 bytes.

## Plan

Modelled and checked: all parts of the server's own logic. Left:

1. Composition of `HttpConn` and `ProxySlot` on one connection, if the state
   space allows.
2. `AnswersInOrder` of `HttpConn` as a theorem, with the stream stated by an
   assumption on its units in place of the fold.
