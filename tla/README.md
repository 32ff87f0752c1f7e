# Verification of madbfs

madbfs mounts the storage of an Android device through FUSE. FUSE threads hand
each call to one io_context thread, where C++ coroutines keep a tree of nodes and
an LRU cache of file pages, and talk to the device over RPC. This directory holds
TLA+ models of that program, what TLC checks about them on small instances, and
what TLAPS proves about them for every instance.

## The system

| part | state | operations | talks to |
|---|---|---|---|
| FUSE operations (`operations.cpp`) | none of its own | one callback per FUSE request; blocks its thread until the coroutine ends | Filesystem |
| Filesystem (`filesystem.cpp`, `node.cpp`) | tree of nodes (stat, expiry, dirty flag of a regular file), handles | traverse, readdir, getattr, mknod, mkdir, unlink, rmdir, rename, truncate, open, read, write, flush, release, copy_file_range | Cache, Connection |
| File handle store (`file_handle_store.cpp`) | slots with node, mode, real fd | store, find, release, erase | Filesystem |
| Cache (`cache.cpp`) | m_lru (pages), m_table (per file: page iterators, reader and writer counts, two device fds, in-flight counts, dirty), m_read_queue, m_stale_fds | hint_open, hint_close, read, write, flush, truncate, evict, clean_stale_fds, invalidate_*, shutdown, set_* | Connection |
| Connection (`connection.cpp`) | current transport, a future while reconnecting | send_req with retries, reconnect, optimize, ping | transports |
| Proxy transport (`proxy_transport.cpp`) | request table of promises, send channel, socket | send (with or without timeout), send loop, receive loop, stop | device server |
| Adb transport (`adb_transport.cpp`) | fd to path table | one adb process per request | adb |
| Device server (`server.cpp`, `request_handler.cpp`) | one client connection, one worker thread, response channel | one handler per request | the device's file system |
| RPC codec (`rpc.cpp`), IPC (`ipc.cpp`) | framing of messages; sockets of madbfs-msg clients | encode, decode; accept, serve, log subscription | both ends |
| Madbfs (`madbfs.cpp`) | timers | watchdog (ping, reconnect, invalidate_fds), reaper (clean_stale_fds), IPC handlers | all of the above |

Everything in the madbfs process runs on one thread, so two coroutines interleave
only at co_await. The hard part is therefore what each coroutine keeps across a
co_await: iterators into m_lru and entry.pages, references to table entries, fds,
and conclusions such as "this page is clean". The failures to survive are device
requests that fail, running out of descriptors, disconnections and reconnections,
and the periodic reaper and watchdog. What makes each part correct:

- Cache: a read returns the bytes written last; a page that will not be written
  back is on the device; nobody follows a destroyed node; no request goes out on a
  closed fd; the list is bounded; whoever waits for a page is woken.
- Filesystem and handles: a handle keeps naming the file it was opened for; the tree
  agrees with the device as long as nobody else changes it and no answer is lost; the
  file system does not take its own changes for somebody else's.
- Connection and transports: a request is executed at most once per attempt and answered
  by its own answer or an error; every call returns; a reconnection strands nobody, does
  not mix up fds, and finds the best transport again.
- Device server: no answer is lost, and a lost client leaves the server free for the next.
- Codec: decoding inverts encoding; a reader never loses the frame boundary.
- IPC: whoever asks is answered; subscribers get the log in order and are not dropped.

`PROJECT.json` lists under "hazards" the places where these are at risk.

## Modules

| module | extends or instantiates | models |
|---|---|---|
| PageSpan, CacheBytes | | one file of the page cache, byte by byte |
| Cache | | the page cache, its coroutines interleaved |
| Rpc, RpcStream (MCRpcStream) | RpcStream extends Rpc | `rpc.cpp`: messages as bytes, and a stream of them |
| Exchange | | what a transport promises (`transport.hpp`): the abstract specification |
| ProxyTransport | instance of Exchange | `proxy_transport.cpp` composed with `server.cpp` |
| Connection | uses what Exchange promises | `connection.cpp`, watchdog, descriptors across reconnections |
| Tree (MCTree) | | `filesystem.cpp`, `node.cpp`, `file_handle_store.cpp` |
| Ipc (MCIpc) | | `ipc.cpp`, the IPC handlers of `madbfs.cpp` |
| CacheTypes_proofs, CacheBase_proofs, Cache_proofs, CacheAlone_proofs | each extends the one before, the first Cache | theorems about Cache |
| ProxyTransport_proofs, Connection_proofs, Tree_proofs, Ipc_proofs | the module they are named after | theorems about it |

**PageSpan** - the arithmetic that cuts a byte range into pages, and class Page:
bytes, valid size, dirty flag, with the unsigned subtraction of Page::read and the guard
and clamp of Page::write.

**CacheBytes** (extends PageSpan) - one file byte by byte, one operation per step:
Read, Write, Flush, Evict, Shutdown, Truncate, CopyFileRange, with the size kept in the
node. `content` is what POSIX defines. Three switches select the known-good operations:
AnyWrite = FALSE keeps to writes that leave nothing of an uncached page behind,
AnyTruncate = FALSE to truncations that do not shrink, AnyCopy = FALSE to copies onto
bytes of which no page is cached. With any of them TRUE, ReadsAsWritten fails.

**Cache** - the interleavings. A page's bytes are one value. Each coroutine (one
read_at or write_at per page of a request, one flush, the reaper) has a frame in
`task` with its program counter and the locals that survive a co_await; `running` is
the coroutine that holds the thread, and only it may step until it suspends. A step
is the code between two points where something else can be observed:

| code | actions |
|---|---|
| Filesystem::open, hint_open | Open |
| Filesystem::read, write and Cache::read, write | Begin, EndIO |
| Filesystem::flush, release, hint_close | BeginFlush, EndFlush, Release, HintClose |
| read_at | Enter, Woken, ReadFind, ReadOpened, ReadFetch, ReadFilled, CopyPage |
| write_at | Enter, Woken, WriteFind, CopyPage |
| evict | EvictPop, EvictOpened, EvictErase, EvictDone |
| flush_at | Enter, Woken, FlushWrite, FlushAck |
| Cache::flush | Flush, FlushOpened, FlushNext |
| clean_stale_fds | ReapCollect, ReapClose, ReapClosed, ReapSweep |
| use of a destroyed list or map node | Dangle: the model stops, running = Crashed |

List nodes are numbers; a number is reused only when neither the list nor a slot nor
a frame refers to it, so a stale iterator stays recognisable. Device requests take
effect when they are issued and are answered in order (`wire`): the proxy transport
has one send loop, the server one worker thread. (The adb transport runs a process per
request, which may end in any order; the model of the cache is of the proxy.) flush_at
repeats a write that was short until the page is written; the model has the page in one
request, which fails or is complete. A request in `Failures` may fail,
without an effect; an open also fails when the device has no descriptor left. The
bytes of a write are taken from the page when the request is issued; the code
serialises them a moment later, so it may send newer bytes than the model. None of
the passing runs and theorems depends on which.

**Rpc** - for every procedure the fields build_request and build_response write and,
separately, the fields parse_request and parse_response read; integers as digits in
network order, strings with their length and terminator, headers, listings, statuses.
**RpcStream** sends messages of every kind over a byte stream that may end anywhere, and
reads them as receive_request and receive_response do, after the handshake. Bytes are
digits of a small Radix, and an integer has as many digits as the code's has bytes, so
that lengths and offsets are the code's.

**Exchange** - a call is executed at most once and returns once, with its own answer or
an error. **ProxyTransport** - the client's table of promises, its unbuffered channel,
request_send and response_receive; the server's listener, worker thread, channel and
send_response; two streams with a capacity. The connection may break at any moment,
losing any suffix of what is in flight, and the device may hang without closing it. The
watchdog is the caller whose send has a timeout; when that expires it stops the
transport in the same run of the io_context, and the model makes that one step because
nothing else can run in between. A retry is a new call of a new transport (Connection),
so that "at most once" is per attempt: an operation that is retried after EAGAIN may have
been executed before.

**Connection** - callers that read files the way the cache does (open if no fd is stored,
then read through the fd), with send_req's attempts; the transport in use, its device
process with its own numbering of fds, what can be created at the moment, and the
watchdog: ping, reconnect, optimize, invalidate_fds, start. Of a transport it keeps what
Exchange promises. A server that hangs may keep its port, so that the next proxy cannot
be created and adb takes its place until it can. Two history variables say what the
properties need: whether the device has been out of reach (`lost`), and whose requests
optimize has cancelled (`cut`). The conversion of the timeout to milliseconds wraps as in the code
(Bits, PerSecond): without a timeout the ping's timer is in the past.

**Tree** - nodes by path, with kind, expiry, `synced`, dirty flag and the path of the cache
entry; handles by slot; the kernel's open files. Of times only "the device's is ahead of
the node's" (`behind`) is kept, which is what detect_modification asks. refresh_stat stamps a
node with the host's clock, so that what it stamps stays behind if the device's clock is
ahead by more than the two seconds detect_modification tolerates (constant Ahead). Expiry is a flag
that ExpiresAll sets and SetTtl clears, at any time. (Nodes made by mknod and mkdir do not
expire in the code until a TTL is set again; letting them expire only adds behaviours.)
Every operation is one step, because the kernel holds the directory's lock
and libfuse the path's, except readdir, whose listing may be old when it is applied. A
destroyed node leaves `Freed` in handles that were not erased, an erased handle holds
`Null`; using either where the code does not check ends the behaviour (`crashed`).
Events after which the tree may be wrong are counted as surprises: changes by other
programs, lost answers, and a lookup cut off with an error that should_cache_error does not
know. Properties that speak of an undisturbed tree hold until the first surprise;
HandlesRegular, EntriesFollow and TypeOK always. The rename of a directory with cache
entries below it, which leaves their paths behind (`cache.cpp:321`), is a step like any
other; `stranded` remembers that one has happened.

**Ipc** - peers that connect, ask, subscribe and leave; the accept loop that serves one at
a time; IpcHandler with the arithmetic of page size and page limit; the log sink's two
queues and logcat_handler, which sends message by message. A subscription that makes the
vector of subscribers move while logcat_handler is in its loop ends the behaviour
(`crashed`). Log messages come from the io_context's thread; those of FUSE's threads race
with LogcatSink::swap and are left out.

Definitions marked "Seeded fault" are faulty versions of the definition behind them;
`PROJECT.json` pairs each property of a passing run with one that breaks it. The
specifications never use them.

## Runs

| run | what it checks | instance | result |
|---|---|---|---|
| bytes | TypeOK, ReadsAsWritten, DeviceAsWritten | pages of 2 bytes, files up to 5 bytes (3 pages, the last one partial), 2 byte values, every initial content | pass |
| single | NoDangling, Coherent, CleanOnDevice, ListMatchesTable, NoSpuriousError | 1 caller, 1 file of 3 pages, list of 2, single-page requests, no failures; deadlock checked | pass |
| shared | TypeOK, StaleUnused, FdsValid, EntriesInUseStay, LruBounded, WaitersServed, EveryOperationReturns | 2 callers of 1 page, list of 1, 3 descriptors, any request may fail, reaper | pass |
| codec | Faithful, Aligned, NothingRejected | every message kind, sequences of 2, strings of 0 and 3 bytes, a cut anywhere, 5 greetings | pass |
| transport | Implements (Exchange), InStep, NoneForgotten, NoneUnanswered, EverySendReturns, EveryLossFrees | 2 callers, one answered with an error, 2 pings, 1 request fills the way up, 3 parts of answers the way down | pass |
| connection | NoGiveUp, WaitersWoken, EveryCallReturns, EveryReturnHeals | 2 callers of 1 file, 2 attempts, 2 changes or hangs of the device, timeout on and off; deadlock checked | pass |
| tree | TypeOK, Mirror, OwnChangesKnown, NoFreedHandle, HandlesRegular, EntriesFollow | 2 directories with 1 file each, 1 open file, 1 surprise or renames that strand entries | pass |
| ipc | SubscribersKept, LogsInOrder, NoOldLogs, CacheKept, EveryOpAnswered | 3 peers, 3 log messages, queues of 2 | pass |
| dangling | NoDangling | 1 caller, requests of 2 pages | violated |
| partial_write | ReadsAsWritten with AnyWrite | files up to 4 bytes | violated |
| stale_fd | RightFile | 2 callers of 2 files, 5 attempts, no change of the device | violated |
| rescan | HandlesKept | as tree, no surprise | violated |

What the passing runs show.

- A caller that works alone, page by page, sees a coherent cache through every eviction,
  write-back and reopening (single), and the byte arithmetic is right at every alignment,
  within the three switches (bytes). With callers that overlap, the bookkeeping of
  descriptors and table entries still holds, the list stays bounded and nobody waits
  forever (shared).
- Writer and reader of every message agree field by field, and no message is rejected or
  read across its end, cut streams included (codec).
- The proxy transport with the device server implements Exchange. The payload of a late
  answer is never awaited (`proxy_transport.cpp:336`), which would lose the frame
  boundary; InStep shows that this cannot be met, because only the ping has a timeout and
  its expiry stops the transport at once. The wait for the pool in the server's listener
  does not deadlock, because the workers only queue their answers (transport).
- Every send returns, also when the device hangs, with one exception that the property
  names and the run reaches: a timed send starts its timer only when request_send has taken
  it (`proxy_transport.cpp:278`, `285`), so a ping queued behind a request that the hung
  device keeps from being written never expires, and all callers wait with it
  (PingBlocked). That takes more unread requests than the sockets hold.
- The promise of a reconnection is fulfilled before the new transport is started, but the
  coroutines it wakes run only after the watchdog's next suspension, so whoever waits for
  a reconnection meets a started transport (connection). optimize is different: it stops
  the old transport, and its own m_reconnection is empty again before the callers it has
  cancelled resume (`connection.cpp:133-143`), so these give up with EAGAIN, although
  send_req is to "wait for reconnection if one is ongoing" (`connection.hpp:348`).
  NoGiveUp shows that they are the only ones while a device is in reach. With a device
  that hangs or goes, callers return all the same.
- Without foreign changes and lost answers the tree tells the truth, also in answers given
  without the device, and no handle points to a destroyed node; a directory renamed above
  cached files is the only thing that sends a cache entry astray (tree). That the file
  system does not take its own changes for somebody else's needs two conditions more, and
  TLC refutes it without either: the device's clock must not be ahead (with it, every own
  write looks foreign), and no entry may have been sent astray (its pages are written to
  the old path, which may be another file by then).
- Departing subscribers and late arrivals do not disturb the others, and a peer that
  fails does not stop the accept loop. Nothing logged before the sink was last turned on is
  sent; but a peer that subscribes after the last of the others was dropped and before the
  next tick finds the sink still on, and is sent what was logged for them (ipc).

What the violated runs show; the findings in `PROJECT.json` quote the documentation.

- dangling: evict pops a page from the list, waits for the device, then erases its slot
  in entry.pages. Meanwhile the slot leads to a destroyed node. One two-page write by
  one caller is enough.
- partial_write: a write to a part of an uncached page starts from zeros instead of the
  page's bytes.
- stale_fd: a read that is retried after a reconnection carries the old process's fd and
  may return another file's bytes. One ping answered late is enough.
- rescan: creating a file in a directory leaves the directory's node behind the device;
  when the node has expired, reading its parent takes that for a foreign change and
  destroys the nodes below, open files included.

The same modules show more on other instances, which are not runs of their own: with two
callers of one page CleanOnDevice fails, since flush_at marks a page clean that was
written again while the device answered; with AnyTruncate ReadsAsWritten fails, since
shrinking across a page boundary drops the wrong pages; with AnyCopy it fails, since
copy_file_range leaves the target's cached pages as they were.

Bounds. Cache: three pages with a list of two are the least at which a page is evicted
while another one of the same file is in use and a third arrives; list nodes (MaxRef)
exceed the list by the slots and frames that can still refer to a popped node; three
descriptors let the double open of one file and EMFILE happen; MaxStale and MaxCount
limit how often failed releases and repeated closes accumulate. Codec: two messages show
whether the second starts where the first ends. Transport: two callers and a ping are
overtaken in every order; a way up that one request fills lets request_send block behind
it with the ping waiting for the channel; a way down of three holds an answer, header and
payload, and the header of the next; two pings are one that is
answered and one that expires. Connection: two changes are a loss and a return; two
attempts let a retry fail again. Tree: two directories are the least for a rename between
them, with a file each for exchange and overwriting; surprises befall the directories
(Exposed), so that what is below them is concerned too, and a behaviour has a surprise or a
directory renamed above a cached file, not both (NotBoth, a constraint of the run: what a
surprise leaves of the properties, HandlesRegular, EntriesFollow and TypeOK, is proved
without that bound). The runs have Ahead = FALSE; with Ahead = TRUE and no surprise TLC
finds all properties of run tree to hold as well. Ipc: three peers are two
subscribers whose indices shift and one that asks or joins late. A guard that names a
bound disables the step, so runs with those bounds within reach do not check deadlock;
runs bytes, single and connection do.

Symmetry (tree): the two directories and the open files are interchangeable in every
definition, and that run checks invariants and one action property, no liveness.

Fairness. The io_context runs ready handlers in FIFO order and a coroutine that holds the
thread runs to its next co_await, so a coroutine that is ready gets its turn.

- EveryOperationReturns: strong fairness for each coroutine of the cache, since one that
  is ready again and again is interrupted by others; every device request is answered,
  with an error if need be, which EverySendReturns shows of the transport, up to its one
  exception.
- Transport: weak fairness of both loops, of the server's threads while the device does
  not hang, of the timer, and of the watchdog, whose interval always ends. The bound on
  pings must not hide the watchdog, so the device hangs only while a ping is to come.
- Connection: weak fairness of callers that are ready, of answers of a reachable device,
  of the adb processes and of the watchdog's timers.
- Ipc: madbfs-msg asks as soon as it is connected, subscribers read what they are sent,
  and ready coroutines run. A peer that connects and stays silent would block the accept
  loop: that assumption is on the client, not on the server.
- Nothing is assumed of callers, who need not begin anything, of the reaper's timer, or of
  what goes wrong.

## Proofs

The theorems hold for every value of the constants that the modules' named assumptions
admit: any finite set of callers or peers, any set of files, any page limit, number of
descriptors, attempts, stream capacity, queue size and number of messages, any set of
failing requests, any tree of paths. The assumptions say that bounds are natural numbers,
that paths are sequences of names that include their parents, and that the special values
(None, Crashed, Reaper, Done, Ended, Null, Freed, an error) are none of the others; TLC
evaluates them in every run.

| module | theorem | says |
|---|---|---|
| Cache | TypeCorrect | Spec => []TypeOK |
| | EntriesStay | Spec => []EntriesInUseStay: the sweep never erases an entry in use |
| | StaleNeverInUse | Spec => []StaleUnused: the reaper is never pointed at the fd of an open file |
| | WaitersAreServed | Spec => []WaitersServed: every waiter waits for a fetch in flight |
| | ListIsBounded | Spec => []LruBounded |
| | DescriptorsAreValid | Spec => []FdsValid: no request goes out on a closed fd or another file's |
| Cache, one caller | NothingDangles | Alone, OpensSucceed: FileSpec => []NoDangling |
| | ListMatches | Alone, OpensSucceed: FileSpec => []ListMatchesTable |
| | CleanPagesOnDevice | Alone, OpensSucceed: FileSpec => []CleanOnDevice |
| | ReadsSeeWrites | Alone, OpensSucceed, device writes do not fail: FileSpec => []Coherent |
| | ErrorsComeFromDevice | Alone, OpensSucceed: FileSpec => []NoSpuriousError |
| ProxyTransport | TransportImplements | Spec => Implements: it refines Exchange |
| | NobodyIsForgotten | Spec => []NoneForgotten: whoever waits has a promise somebody will fulfil |
| | StreamInStep | Spec => []InStep: headers are read where headers were written |
| | NoAnswerLost | Spec => []NoneUnanswered: the server answers what it has taken in |
| Connection | WaitersAreWoken | Spec => []WaitersWoken: whoever waits for a reconnection is woken |
| | OnlyOptimizeGivesUp | Spec => []NoGiveUp: while a device is in reach, only requests that optimize cancels are given up |
| Tree | TreeTyped | Spec => []TypeOK: nodes below directories only, handles with a node or none |
| | HandlesAreRegular | Spec => []HandlesRegular, whatever happens on the device |
| | TreeMirrorsDevice | Spec => []Mirror: until a surprise the tree tells the truth |
| | OwnChangesAreKnown | Spec => []OwnChangesKnown: with clocks in step and no entry astray, no write of ours is taken for somebody else's |
| | HandlesAreNotFreed | Spec => []NoFreedHandle: until a surprise no handle outlives its node |
| | EntriesKeepUp | Spec => EntriesFollow: entries go astray only below a renamed directory, whatever happens |
| Ipc | SubscribersAreKept | Spec => []SubscribersKept: nobody who is there is dropped |
| | LogsAreInOrder | Spec => []LogsInOrder |
| | NoOldLogsAreSent | Spec => []NoOldLogs: nothing from before the sink was turned on is sent |
| | ResizesKeepTheCache | SizesFit: Spec => []CacheKept: a new page size never shrinks the cache |
| | ErasesExactly | what erasing indices last to first leaves, for every vector and every indices |

None of the properties is inductive. What each needs, and why:

**Cache.** TypeOK needs to know which fields of a frame are set at which program counter
(Frames), that the page an evict is writing back still has its entry (Victims), and that
list nodes hold pages (ListNodes); the entry of a victim stays because its write_inflight
is not empty, that of an open handle because its counts are not zero, which needs that an
entry counts at least the handles there are (Counts, an inequality since a failed release
leaves counts behind). Together with the frame of the reaper and the handles these are
`Base`, the invariant of CacheBase_proofs. On top of Base, WaitersServed needs that a
queued future belongs to a fetch of that page (Queue), and LruBounded that a list that is
too long has exactly one coroutine, holding the thread, that still has to pop one page
(Overlong). FdsValid needs the rest of a descriptor's life (`Descriptors`): an fd on its way
into the table was opened for that file and has one owner, an fd the reaper is to close is
known to nobody else (FdsApart), and whoever writes pages back holds write_inflight of an
entry with a write_fd, which keeps the reaper away from the fd flush_at captured (Locked).
CacheTypes_proofs defines what these speak of and proves what the operators compute and
that every step keeps the types; CacheBase_proofs states for each action what it does to its own
frame and to the table, derives what each part of Base needs from that, and proves Base
inductive; Cache_proofs adds the invariants that build on it, and sorts the steps by what
they do to descriptors (kept, opened, stored) to prove Descriptors.

**Cache under one caller** (CacheAlone_proofs). The properties of run single are false when
callers overlap: the violated run dangling shows it for one request of two pages, and the
instances under "Runs" for two callers. They are proved where they hold, under
two hypotheses. `Alone`: one caller, whose requests cover one page each, so that one
coroutine runs at a time; the numbers of files, pages and values, the page limit and the modes
are free. `OpensSucceed`: no open fails, and the device has a descriptor for every file
and direction. The theorems are about FileSpec, the cache between two runs of the reaper, as the
run is: the reaper's sweep erases entries without looking at their fds, so that with it a
descriptor can be lost for good and opens run out, whatever their number. Reads and
writes of the device may fail in NothingDangles, ListMatches and CleanPagesOnDevice;
Coherent is about what a write stored, and an evicted page whose write-back failed is
lost, so ReadsSeeWrites excludes failing writes and nothing else.

The invariant is built in layers on Base and Descriptors. `Shape`: at most one frame is in
use; every open descriptor is in its entry or on its way there (FdsFound, without which
opens could run out); a slot of entry.pages leads to the list node of its page, or to the
page being evicted, which has left the list (Matched); and what each program counter knows
of the page it is at (Knows), above all that a coroutine that evicts has just put its own
page in front, so that evict, which takes the page at the back of a list that is too long,
never takes it. Structure is Shape with these and NoDangling, and is inductive. `Clean`
adds what CleanOnDevice leaves open: a dirty page has a dirty entry (Tidy), which lets a
flush return early; between the write and its answer the page does not change; and the
pages a flush has passed are settled (Carries), which is what lets it mark the whole
entry clean. `Exact` adds that an uncached page is on the device (Stored), a cached one
that no write is about to replace has the written bytes (Shown), and that a page on its way
out has them until the device does (Rescued). `AllWell`, under Failures = {}, says that no
frame holds an error. Each step is sorted by what it does to slots, list, dirty flags and
bytes, and one lemma per sort carries each layer over.

**ProxyTransport.** `TransportInv`: an id is in one place at a time between the client's
channel and its return to the client (OnePlace), and belongs to an entry of the request
table as long as the transport runs (Registered); headers and payloads alternate as the
sizes say, from where response_receive is (Stream); who is registered waits with nothing in
its future, and the other way round (Registry); a request is executed once (Once); and what
is on its way to a caller, or in its future, is its own answer or an error (Told). The refinement follows step by
step: the step of the worker that executes a request is Exchange's execution, a return is
Exchange's return with the promise's content, everything else stutters. Exchange states no
fairness, so this is all of Implements.

**Connection.** `ConnectionInv`: m_reconnection is set exactly while the watchdog reconnects
(Promised); and as long as a device has been in reach there is a transport, which runs
unless a reconnection is replacing it, and the error that asks for a retry is held only by
calls that this reconnection cancelled, which will find it going on, or that an
optimization cancelled (Calm).

**Tree.** `TreeInv`: always, the shape of tree and device and the types of the rest (Typed,
Shape), and that a handle has the node of a regular file or none (HandlesOf); until a
surprise, also that every node is true (Truthful: Mirror node by node, and for the paths in
Sure, which are all unless the device's clock is ahead or an entry has been sent astray,
that a clean file is not behind and that an entry has its node's path, on which the former
rests), no handle is freed, and the listing a readdir waits for is still what the
device would answer (ScanCurrent), which is what the kernel's lock on the directory is for
and what the invariant needs to go through ReaddirApply. NoFreedHandle rests on Mirror: what
readdir, rmdir and rename destroy without erasing handles has no file on the device, while a
handle's node has one. A lookup is a fold of Visit along the path, a recursive function;
ReachOnward shows by induction over its components that it keeps all this, and that the nodes
on a path that has been looked up stay as they are (Settled), so that the two or three lookups
of a rename can be relied on together. A rename is two disjoint subtrees that change places,
or one that takes the other's: Rebase is shown to have an inverse and to commute with Parent,
and shape, handles and truth are carried over (Carried) from each to the other.
EntriesFollow compares two states and needs no truth: for each part of a lookup or an
operation Followed says that it leaves an entry alone or gives it its node's path, and
Followed is transitive, so that it carries through the folds (NextFollows).

**Ipc.** `IpcInv`: a connection is in one place (with its peer, in the backlog, served, or
among the subscribers, who are distinct: Places); queues and received messages increase,
and what a peer has received is older than what is being collected (Orders); during a
round the queue in front lies between the two for every subscriber still to come and from
the present message on for the present one, and the indices given up are those of peers
that have left (Rounds). For NoOldLogs `Session` adds that the sink is on exactly while it
was turned on for a subscriber (prevEmpty), that both queues and all that was received are
later than the turning on, and that a peer that has received something still streams,
so that the sink cannot be turned on anew under it. The erasure is a recursive function; that it exists and what it
leaves is proved by induction with a set in the place of the predicate (SetInduction),
which takes no operator as parameter and so is within the provers' reach. CacheKept needs
`Resizing`: a resize between its two halves remembers sizes that are powers of two and fit,
and at any other time the sizes in force are such (between the halves page limit times
page size may exceed what fits). The arithmetic is proved from the recursive function of
the powers of two by the same induction: powers of two divide each other (PowersDivide),
so the quotient that SetPageSize rounds is exact or below one, and rounding up never passes
the largest power. `SizesFit` is the hypothesis that std::bit_ceil has a result for every
size that is asked for and that the smallest cache of largest pages fits in a usize;
beyond that the C++ is undefined. The run's instance satisfies it.

Each of these invariants was checked by TLC on the instance of its run before it was proved.

Only model-checked:

- liveness (EveryOperationReturns, EverySendReturns, EveryLossFrees, EveryCallReturns,
  EveryReturnHeals, EveryOpAnswered), which is out of the prover's reach;
- the byte arithmetic of PageSpan and CacheBytes (ReadsAsWritten, DeviceAsWritten and the
  types) and the codec (Faithful, Aligned, NothingRejected): reads, writes and
  parsers fold over sequences of bytes, and what a fold computes for every input is an
  induction over data whose theorems in the library take an operator as parameter.

## Not modelled

- Cache: truncate, invalidate_one and shutdown between suspended operations of other
  callers (they are checked one operation at a time), flush_at's repetition of short
  writes, and operation without a cache, where each call is one request.
- Tree: symbolic links and other special files, whose nodes behave like regular files
  that cannot be opened; sizes and permissions (sizes are in CacheBytes); suspensions
  inside operations other than readdir, which the kernel's and libfuse's locks keep from
  meeting on the same name. Changes by others that the two seconds' tolerance, or a device
  clock that is behind, keep from being noticed: every change by others is a surprise,
  after which the properties it could break claim nothing.
- Connection: the destruction of the old transport while its coroutines are still pending
  (`connection.cpp:138`); the model has them return with the error that stop gave them.
- Adb transport: the shell commands and the parsing of their output. Of it Connection has
  the state: descriptors, running flag, errors.
- Device server: the answer to a second client, stop, and the lifetime of a Connection
  destroyed while send_response is suspended.
- Log messages of FUSE's threads (a data race with LogcatSink::swap), signals, start-up
  and tear-down of the process, command lines, JSON and path strings.

## Plan

1. Cache administration as steps of module Cache's coroutines: which of its invariants
   invalidate_one, truncate and shutdown break, and under which use they keep them.
