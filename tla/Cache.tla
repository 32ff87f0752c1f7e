------------------------------- MODULE Cache -------------------------------
(***************************************************************************)
(* madbfs's page cache (madbfs/src/cache.cpp) under the file operations of *)
(* Filesystem that drive it: open, read, write, flush and release, with    *)
(* the periodic fd reaper.                                                 *)
(*                                                                         *)
(* All coroutines run on one io_context thread, so a coroutine that has    *)
(* not reached a co_await cannot be interrupted.  running is the coroutine *)
(* holding the thread; it is None when every coroutine is suspended.       *)
(*                                                                         *)
(* A device request takes effect when it is issued and is answered later:  *)
(* the proxy transport sends in order, the server executes on one worker   *)
(* thread and answers in order.  wire is the FIFO of unanswered requests.  *)
(* A request that fails has no effect.  The bytes of a write are those the *)
(* page has when the request is issued; in the code they are serialised a  *)
(* moment later and may be newer.                                          *)
(*                                                                         *)
(* A page's bytes are one value and reads and writes cover whole pages;    *)
(* the byte arithmetic inside a page is module PageSpan's subject.         *)
(***************************************************************************)
EXTENDS Integers, Sequences, FiniteSets

CONSTANTS
  Client,      \* FUSE callers, one file handle and one operation at a time each
  Id,          \* files (Node ids)
  MaxIdx,      \* bound: the pages of a file are 0..MaxIdx
  MaxSpan,     \* pages one FUSE request may cover
  MaxPages,    \* Cache::m_max_pages
  MaxRef,      \* bound: list nodes that exist or are still referred to
  MaxFd,       \* descriptors the device process may hold (then EMFILE)
  MaxStale,    \* bound: copies of one entry in m_stale_fds
  MaxCount,    \* bound: reader and writer counts of an entry
  Val,         \* page values clients write
  Modes,       \* open modes clients use, among "r", "w", "rw"
  Failures,    \* device requests that may fail: "open", "read", "write"
  Reaper,      \* the coroutine of Cache::clean_stale_fds
  Crashed,     \* undefined behaviour was reached
  None

Idx    == 0..MaxIdx
Ref    == 1..MaxRef
Fd     == 1..MaxFd
Kind   == {"r", "w"}
Key    == Id \X Idx
Worker == Client \X Idx       \* the coroutine for one page of a client's range
Task   == Worker \cup {Reaper}
Bytes  == Val \cup {0, None}  \* 0: initial bytes; None: no valid bytes

VARIABLES
  table,      \* m_table: file -> LookupEntry, or None
  lru,        \* m_lru: list nodes, most recently used first
  page,       \* the Page in each list node
  readQueue,  \* m_read_queue: page key -> the read_at whose future it holds
  stale,      \* m_stale_fds: how often (file, kind) is in it
  task,       \* frames of the cache coroutines
  running,    \* the coroutine holding the io_context thread, None or Crashed
  client,     \* per FUSE caller: its handle and the operation it waits for
  nodeDirty,  \* node::Regular::dirty of each file
  file,       \* page values of each file on the device
  fds,        \* open descriptors of the device process
  wire,       \* tasks whose device request is unanswered, in order
  content     \* ghost: page values as the writes so far define them

fsVars == <<client, nodeDirty>>
vars   == <<table, lru, page, readQueue, stale, task, running, fsVars, file, fds, wire, content>>

-----------------------------------------------------------------------------
(* Cache::LookupEntry, Page, coroutine frames and FUSE callers *)

Entry ==
  [pages : [Idx -> Ref \cup {None}], reader : Nat, writer : Nat,
   read_fd : Fd \cup {None}, write_fd : Fd \cup {None},
   read_inflight : SUBSET Worker,      \* holders of the scoped increments
   write_inflight : SUBSET Worker, dirty : BOOLEAN]

NewEntry ==
  [pages |-> [i \in Idx |-> None], reader |-> 0, writer |-> 0,
   read_fd |-> None, write_fd |-> None,
   read_inflight |-> {}, write_inflight |-> {}, dirty |-> FALSE]

\* Seeded fault: the sweep forgets the users of an entry.
IsFreeUncounted(e) == (\A i \in Idx : e.pages[i] = None) /\ ~e.dirty

IsFree(e) ==
  /\ \A i \in Idx : e.pages[i] = None
  /\ e.reader = 0 /\ e.writer = 0
  /\ e.read_inflight = {} /\ e.write_inflight = {}
  /\ ~e.dirty

Page == [key : Key, val : Bytes, dirty : BOOLEAN]
\* Seeded fault: the page is made without its bytes.
NewPageBlank(key, v) == [key |-> key, val |-> None, dirty |-> FALSE]
NewPage(key, v) == [key |-> key, val |-> v, dirty |-> FALSE]

Idle ==
  [pc |-> "idle", op |-> None, id |-> None,
   idx |-> -1,       \* own page index, or flush's position in pages
   ref |-> None,     \* list node found through entry.pages
   on |-> None,      \* the read_at whose future is awaited
   ok |-> TRUE,      \* outcome of the future, of the request or of flush_at
   val |-> None,     \* bytes read from or written to the page
   fd |-> None,      \* fd just opened, or flush_at's argument
   evict |-> 0,      \* pages evict still has to remove
   victim |-> None,  \* page evict moved out of the list
   todo |-> {}]      \* fds the reaper still has to close

ASSUME CacheAssumption ==
  /\ IsFiniteSet(Client)
  /\ MaxIdx \in Nat /\ MaxRef \in Nat /\ MaxFd \in Nat /\ MaxStale \in Nat
  /\ MaxCount \in Nat /\ MaxSpan \in Nat
  /\ MaxPages \in Nat \ {0}
  /\ Modes \subseteq {"r", "w", "rw"}
  /\ Reaper \notin Worker
  /\ Crashed \notin Task
  /\ None \notin Task \cup Id \cup Fd \cup Ref \cup {Crashed} \cup (Id \X Kind)
  /\ None \notin Entry /\ None \notin Page

NoHandle == [op |-> "closed", id |-> None, mode |-> None]

Reads(mode)  == mode \in {"r", "rw"}
Writes(mode) == mode \in {"w", "rw"}
One(b)       == IF b THEN 1 ELSE 0

Live(r) == \E k \in 1..Len(lru) : lru[k] = r

\* A new list node is one that nothing refers to any more.
FreeRefs ==
  {r \in Ref : /\ ~Live(r)
               /\ \A id \in Id : table[id] # None => \A i \in Idx : table[id].pages[i] # r
               /\ \A t \in Task : task[t].ref # r}
FreshRef == CHOOSE r \in FreeRefs : TRUE

-----------------------------------------------------------------------------
(* Scheduling and device requests *)

MayRun(t, pc) == running \in {None, t} /\ task[t].pc = pc
Keep(t) == running' = t         \* t goes on without a co_await
Yield   == running' = None      \* t suspends or ends

Outcomes(req) == IF req \in Failures THEN BOOLEAN ELSE {TRUE}

\* The device gives a free descriptor, or fails when it has none.
FreeFds == {f \in Fd : fds[f] = None}
FreshFd == CHOOSE f \in FreeFds : TRUE

SendOpen(t, id, kind, frame) ==
  \E ok \in Outcomes("open") :
    LET opened == ok /\ FreeFds # {} IN
    /\ fds' = IF opened THEN [fds EXCEPT ![FreshFd] = <<id, kind>>] ELSE fds
    /\ task' = [task EXCEPT ![t] =
         [frame EXCEPT !.ok = opened, !.fd = IF opened THEN FreshFd ELSE None]]
    /\ wire' = Append(wire, t)
    /\ Yield

\* The answer to t's request arrives.
Answered(t, pc) ==
  /\ running = None /\ task[t].pc = pc
  /\ wire # << >> /\ Head(wire) = t
  /\ wire' = Tail(wire)

OpenFor(fd, kind) == fd \in Fd /\ fds[fd] # None /\ fds[fd][2] = kind

Finish(t, ok) == [Idle EXCEPT !.pc = "done", !.op = task[t].op, !.id = task[t].id,
                              !.idx = task[t].idx, !.ok = ok, !.val = task[t].val]

Init ==
  /\ table = [id \in Id |-> None]
  /\ lru = << >>
  /\ page = [r \in Ref |-> None]
  /\ readQueue = [k \in Key |-> None]
  /\ stale = [id \in Id |-> [k \in Kind |-> 0]]
  /\ task = [t \in Task |-> Idle]
  /\ running = None
  /\ client = [c \in Client |-> NoHandle]
  /\ nodeDirty = [id \in Id |-> FALSE]
  /\ file = [id \in Id |-> [i \in Idx |-> 0]]
  /\ fds = [f \in Fd |-> None]
  /\ wire = << >>
  /\ content = file

-----------------------------------------------------------------------------
(* Filesystem::open, read, write, flush and release *)

\* Seeded fault: hint_open leaves the file in m_stale_fds.
OpenStale(c, id, mode) ==
  LET old == IF table[id] = None THEN NewEntry ELSE table[id] IN
  /\ running = None /\ client[c].op = "closed"
  /\ old.reader < MaxCount /\ old.writer < MaxCount
  /\ client' = [client EXCEPT ![c] = [op |-> "open", id |-> id, mode |-> mode]]
  /\ table' = [table EXCEPT ![id] =
       [old EXCEPT !.reader = @ + One(Reads(mode)), !.writer = @ + One(Writes(mode))]]
  /\ UNCHANGED <<lru, page, readQueue, stale, task, running, nodeDirty, file, fds, wire, content>>

\* Filesystem::open with Cache::hint_open: no device access.
Open(c, id, mode) ==
  LET old == IF table[id] = None THEN NewEntry ELSE table[id] IN
  /\ running = None /\ client[c].op = "closed"
  /\ old.reader < MaxCount /\ old.writer < MaxCount
  /\ client' = [client EXCEPT ![c] = [op |-> "open", id |-> id, mode |-> mode]]
  /\ table' = [table EXCEPT ![id] =
       [old EXCEPT !.reader = @ + One(Reads(mode)), !.writer = @ + One(Writes(mode))]]
  /\ stale' = [stale EXCEPT
       ![id]["r"] = IF Reads(mode) /\ old.reader = 0 THEN 0 ELSE @,
       ![id]["w"] = IF Writes(mode) /\ old.writer = 0 THEN 0 ELSE @]
  /\ UNCHANGED <<lru, page, readQueue, task, running, nodeDirty, file, fds, wire, content>>

\* read and write up to wait_all: one read_at or write_at per page of the range.
Begin(c, op, first, last, v) ==
  LET id == client[c].id IN
  /\ running = None /\ client[c].op = "open"
  /\ IF op = "read" THEN Reads(client[c].mode) ELSE Writes(client[c].mode)
  /\ table[id] # None
  /\ client' = [client EXCEPT ![c].op = op]
  /\ table' = [table EXCEPT ![id].dirty = IF op = "write" THEN TRUE ELSE @]
  /\ task' = [t \in Task |->
       IF t \in {c} \X (first..last)
       THEN [Idle EXCEPT !.pc = "enter", !.op = op, !.id = id, !.idx = t[2], !.val = v]
       ELSE task[t]]
  /\ UNCHANGED <<lru, page, readQueue, stale, running, nodeDirty, file, fds, wire, content>>

Succeeded(c) == \A i \in Idx : task[<<c, i>>].ok

\* wait_all returns: the operation fails if any page did.
EndIO(c) ==
  LET id == client[c].id IN
  /\ running = None /\ client[c].op \in {"read", "write"}
  /\ \A i \in Idx : task[<<c, i>>].pc \in {"idle", "done"}
  /\ nodeDirty' = [nodeDirty EXCEPT ![id] = @ \/ (client[c].op = "write" /\ Succeeded(c))]
  /\ client' = [client EXCEPT ![c].op = "open"]
  /\ task' = [t \in Task |-> IF t \in {c} \X Idx THEN Idle ELSE task[t]]
  /\ UNCHANGED <<table, lru, page, readQueue, stale, running, file, fds, wire, content>>

\* flush, and release of a dirty file, start Cache::flush.
BeginFlush(c, op) ==
  /\ running = None /\ client[c].op = "open" /\ nodeDirty[client[c].id]
  /\ client' = [client EXCEPT ![c].op = op]
  /\ task' = [task EXCEPT ![<<c, 0>>] =
       [Idle EXCEPT !.pc = "flush", !.op = "flush", !.id = client[c].id]]
  /\ UNCHANGED <<table, lru, page, readQueue, stale, running, nodeDirty, file, fds, wire, content>>

\* Cache::hint_close: fds without users are marked stale, clean_stale_fds closes them.
HintClose(id, mode) ==
  LET e == [table[id] EXCEPT !.reader = @ - One(Reads(mode)), !.writer = @ - One(Writes(mode))]
  IN  IF \/ table[id] = None
         \/ Reads(mode) /\ table[id].reader = 0
         \/ Writes(mode) /\ table[id].writer = 0
      THEN UNCHANGED <<table, stale>>
      ELSE /\ table' = [table EXCEPT ![id] = e]
           /\ stale' = [stale EXCEPT
                ![id]["r"] = @ + One(e.reader = 0 /\ e.read_fd # None),
                ![id]["w"] = @ + One(e.writer = 0 /\ e.write_fd # None)]
           /\ \A k \in Kind : stale'[id][k] <= MaxStale

\* release of a file that is not dirty.
Release(c) ==
  /\ running = None /\ client[c].op = "open" /\ ~nodeDirty[client[c].id]
  /\ HintClose(client[c].id, client[c].mode)
  /\ client' = [client EXCEPT ![c] = NoHandle]
  /\ UNCHANGED <<lru, page, readQueue, task, running, nodeDirty, file, fds, wire, content>>

\* flush and release resume: a release whose flush failed skips hint_close.
EndFlush(c) ==
  LET ok == task[<<c, 0>>].ok
      releasing == client[c].op = "release"
  IN
  /\ running = None /\ client[c].op \in {"flush", "release"} /\ task[<<c, 0>>].pc = "done"
  /\ nodeDirty' = [nodeDirty EXCEPT ![client[c].id] = @ /\ ~ok]
  /\ IF releasing /\ ok THEN HintClose(client[c].id, client[c].mode) ELSE UNCHANGED <<table, stale>>
  /\ client' = [client EXCEPT ![c] = IF releasing THEN NoHandle ELSE [@ EXCEPT !.op = "open"]]
  /\ task' = [task EXCEPT ![<<c, 0>>] = Idle]
  /\ UNCHANGED <<lru, page, readQueue, running, file, fds, wire, content>>

-----------------------------------------------------------------------------
(* The common first part of read_at, write_at and flush_at: a page that is *)
(* being fetched is waited for.                                            *)

\* The function t is in, and the page it is about: evict flushes its victim.
InFunction(t) == IF task[t].victim # None THEN "flush" ELSE task[t].op
KeyOf(t)      == IF task[t].victim # None THEN task[t].victim.key ELSE <<task[t].id, task[t].idx>>
AfterFlushAt(t) == IF task[t].victim # None THEN "evict_erase" ELSE "flush_next"

\* The coroutines of one wait_all start in page order.
StartsNext(t) == \A j \in Idx : j < t[2] => task[<<t[1], j>>].pc # "enter"

LeaveRead(t) == [table EXCEPT ![task[t].id].read_inflight = @ \ {t}]

Enter(t) ==
  LET owner == readQueue[KeyOf(t)] IN
  /\ MayRun(t, "enter") /\ StartsNext(t)
  /\ table' = IF InFunction(t) = "read"
              THEN [table EXCEPT ![task[t].id].read_inflight = @ \cup {t}] ELSE table
  /\ IF owner # None
     THEN task' = [task EXCEPT ![t].pc = "wait", ![t].on = owner] /\ Yield
     ELSE task' = [task EXCEPT ![t].pc = "body"] /\ Keep(t)
  /\ UNCHANGED <<lru, page, readQueue, stale, fsVars, file, fds, wire, content>>

\* The future is ready; an error ends the function.
Woken(t) ==
  /\ MayRun(t, "wait") /\ task[t].on = None
  /\ \/ /\ task[t].ok
        /\ task' = [task EXCEPT ![t].pc = "body"]
        /\ Keep(t) /\ UNCHANGED table
     \/ /\ ~task[t].ok /\ InFunction(t) = "flush"
        /\ task' = [task EXCEPT ![t].pc = AfterFlushAt(t)]
        /\ Keep(t) /\ UNCHANGED table
     \/ /\ ~task[t].ok /\ InFunction(t) # "flush"
        /\ task' = [task EXCEPT ![t] = Finish(t, FALSE)]
        /\ table' = IF InFunction(t) = "read" THEN LeaveRead(t) ELSE table
        /\ Yield
  /\ UNCHANGED <<lru, page, readQueue, stale, fsVars, file, fds, wire, content>>

\* Seeded fault: the promise is only fulfilled when the read succeeds.
WakeOnSuccess(tasks, o, ok) ==
  [u \in Task |-> IF ok /\ tasks[u].on = o THEN [tasks[u] EXCEPT !.on = None] ELSE tasks[u]]

\* The promise of read_at o is fulfilled: its waiters may go on.
Wake(tasks, o, ok) ==
  [u \in Task |-> IF tasks[u].on = o THEN [tasks[u] EXCEPT !.on = None, !.ok = ok]
                  ELSE tasks[u]]

-----------------------------------------------------------------------------
(* Cache::read_at and Cache::write_at *)

\* A hit is copied; a miss needs a device fd.
ReadFind(t) ==
  LET e == table[task[t].id]
      r == e.pages[task[t].idx]
  IN
  /\ MayRun(t, "body") /\ InFunction(t) = "read"
  /\ \/ /\ r # None
        /\ task' = [task EXCEPT ![t].pc = "copy", ![t].ref = r]
        /\ Keep(t) /\ UNCHANGED <<fds, wire>>
     \/ /\ r = None /\ e.read_fd # None
        /\ task' = [task EXCEPT ![t].pc = "fetch"]
        /\ Keep(t) /\ UNCHANGED <<fds, wire>>
     \/ /\ r = None /\ e.read_fd = None
        /\ SendOpen(t, task[t].id, "r", [task[t] EXCEPT !.pc = "read_open"])
  /\ UNCHANGED <<table, lru, page, readQueue, stale, fsVars, file, content>>

\* Seeded fault: the new fd is not stored in the entry.
ReadOpenedUnstored(t) ==
  /\ Answered(t, "read_open")
  /\ IF task[t].ok
     THEN task' = [task EXCEPT ![t].pc = "fetch", ![t].fd = None] /\ Keep(t) /\ UNCHANGED table
     ELSE /\ table' = LeaveRead(t)
          /\ task' = [task EXCEPT ![t] = Finish(t, FALSE)]
          /\ Yield
  /\ UNCHANGED <<lru, page, readQueue, stale, fsVars, file, fds, content>>

ReadOpened(t) ==
  /\ Answered(t, "read_open")
  /\ IF task[t].ok
     THEN /\ table' = [table EXCEPT ![task[t].id].read_fd = task[t].fd]
          /\ task' = [task EXCEPT ![t].pc = "fetch", ![t].fd = None]
          /\ Keep(t)
     ELSE /\ table' = LeaveRead(t)
          /\ task' = [task EXCEPT ![t] = Finish(t, FALSE)]
          /\ Yield
  /\ UNCHANGED <<lru, page, readQueue, stale, fsVars, file, fds, content>>

\* The future is queued, unless one is there already, and the page requested.
ReadFetch(t) ==
  LET fd == table[task[t].id].read_fd IN
  /\ MayRun(t, "fetch")
  /\ readQueue' = IF readQueue[KeyOf(t)] = None
                  THEN [readQueue EXCEPT ![KeyOf(t)] = t] ELSE readQueue
  /\ \E ok \in Outcomes("read") :
       LET done == ok /\ OpenFor(fd, "r") IN
       task' = [task EXCEPT ![t] =
         [task[t] EXCEPT !.pc = "fill", !.ok = done,
                         !.val = IF done THEN file[fds[fd][1]][task[t].idx] ELSE None]]
  /\ wire' = Append(wire, t)
  /\ Yield
  /\ UNCHANGED <<table, lru, page, stale, fsVars, file, fds, content>>

\* Seeded faults: evict is told the list's length, or the length before the
\* insertion without the guard, and does not stop at m_max_pages.
OverfullAll(l)    == IF Len(l) > MaxPages THEN Len(l) ELSE 0
OverfullBefore(l) == Len(l) - 1 - MaxPages
OverfullLate(l)   == IF Len(l) > MaxPages + 1 THEN Len(l) - MaxPages - 1 ELSE 0

\* What a new front node does to the list: it may have to shrink again.
Overfull(l) == IF Len(l) > MaxPages THEN Len(l) - MaxPages ELSE 0
AfterInsert(l) == IF Overfull(l) > 0 THEN "evict" ELSE "copy"

\* The page arrives: a new list node, and its table slot unless that is taken.
\* A key gone from the queue means operation_canceled.
ReadFilled(t) ==
  LET id   == task[t].id
      i    == task[t].idx
      slot == IF table[id].pages[i] = None THEN FreshRef ELSE table[id].pages[i]
  IN
  /\ Answered(t, "fill")
  /\ readQueue' = [readQueue EXCEPT ![KeyOf(t)] = None]
  /\ IF task[t].ok /\ readQueue[KeyOf(t)] # None
     THEN /\ FreeRefs # {}
          /\ lru' = << FreshRef >> \o lru
          /\ page' = [page EXCEPT ![FreshRef] = NewPage(<<id, i>>, task[t].val)]
          /\ table' = [table EXCEPT ![id].pages[i] = slot]
          /\ task' = Wake([task EXCEPT ![t] =
               [task[t] EXCEPT !.pc = AfterInsert(lru'), !.evict = Overfull(lru'),
                               !.ref = slot, !.val = None]], t, TRUE)
          /\ Keep(t)
     ELSE /\ table' = LeaveRead(t)
          /\ task' = Wake([task EXCEPT ![t] = Finish(t, FALSE)], t, FALSE)
          /\ Yield /\ UNCHANGED <<lru, page>>
  /\ UNCHANGED <<stale, fsVars, file, fds, content>>

\* write_at: a page that is not cached is created empty.
WriteFind(t) ==
  LET id == task[t].id
      i  == task[t].idx
  IN
  /\ MayRun(t, "body") /\ InFunction(t) = "write"
  /\ Keep(t)
  /\ \/ /\ table[id].pages[i] # None
        /\ task' = [task EXCEPT ![t].pc = "copy", ![t].ref = table[id].pages[i]]
        /\ UNCHANGED <<table, lru, page>>
     \/ /\ table[id].pages[i] = None /\ FreeRefs # {}
        /\ lru' = << FreshRef >> \o lru
        /\ page' = [page EXCEPT ![FreshRef] = NewPage(<<id, i>>, None)]
        /\ table' = [table EXCEPT ![id].pages[i] = FreshRef]
        /\ task' = [task EXCEPT ![t] =
             [task[t] EXCEPT !.pc = AfterInsert(lru'), !.evict = Overfull(lru'),
                             !.ref = FreshRef]]
  /\ UNCHANGED <<readQueue, stale, fsVars, file, fds, wire, content>>

\* The list node and the map node t's iterators point to still exist.
IteratorValid(t) ==
  Live(task[t].ref) /\ table[task[t].id].pages[task[t].idx] = task[t].ref

ToFront(r) ==
  LET k == CHOOSE k \in 1..Len(lru) : lru[k] = r IN
  << r >> \o SubSeq(lru, 1, k - 1) \o SubSeq(lru, k + 1, Len(lru))

\* The page moves to the front; its bytes are copied out, or replaced.
CopyPage(t) ==
  LET r == task[t].ref
      writing == task[t].op = "write"
  IN
  /\ MayRun(t, "copy") /\ IteratorValid(t)
  /\ lru' = ToFront(r)
  /\ page' = IF writing THEN [page EXCEPT ![r].val = task[t].val, ![r].dirty = TRUE] ELSE page
  /\ content' = IF writing THEN [content EXCEPT ![task[t].id][task[t].idx] = task[t].val]
                ELSE content
  /\ table' = IF writing THEN table ELSE LeaveRead(t)
  /\ task' = [task EXCEPT ![t] = [Finish(t, TRUE) EXCEPT !.val = page'[r].val]]
  /\ Yield
  /\ UNCHANGED <<readQueue, stale, fsVars, file, fds, wire>>

-----------------------------------------------------------------------------
(* Cache::evict, run by the read_at or write_at that overfilled the list *)

\* The back node is removed; a dirty page first goes to the device, and its
\* table slot stays meanwhile.
EvictPop(t) ==
  LET r == lru[Len(lru)]
      p == page[r]
      e == table[p.key[1]]
      popped  == [task[t] EXCEPT !.evict = @ - 1]
      pushing == [popped EXCEPT !.victim = p, !.fd = e.write_fd]
      locked  == [table EXCEPT ![p.key[1]].write_inflight = @ \cup {t}]
  IN
  /\ MayRun(t, "evict") /\ task[t].evict > 0 /\ lru # << >>
  /\ lru' = SubSeq(lru, 1, Len(lru) - 1)
  /\ page' = [page EXCEPT ![r] = None]
  /\ \/ /\ e = None \/ ~p.dirty
        /\ table' = IF e = None THEN table ELSE [table EXCEPT ![p.key[1]].pages[p.key[2]] = None]
        /\ task' = [task EXCEPT ![t] = popped]
        /\ Keep(t) /\ UNCHANGED <<fds, wire>>
     \/ /\ e # None /\ p.dirty /\ e.write_fd # None
        /\ table' = locked
        /\ task' = [task EXCEPT ![t] = [pushing EXCEPT !.pc = "enter"]]
        /\ Keep(t) /\ UNCHANGED <<fds, wire>>
     \/ /\ e # None /\ p.dirty /\ e.write_fd = None
        /\ table' = locked
        /\ SendOpen(t, p.key[1], "w", [pushing EXCEPT !.pc = "evict_open"])
  /\ UNCHANGED <<readQueue, stale, fsVars, file, content>>

EvictDone(t) ==
  /\ MayRun(t, "evict") /\ (task[t].evict = 0 \/ lru = << >>)
  /\ task' = [task EXCEPT ![t].pc = "copy"]
  /\ Keep(t)
  /\ UNCHANGED <<table, lru, page, readQueue, stale, fsVars, file, fds, wire, content>>

\* Without a device fd the page is dropped, but its table slot is not erased.
EvictOpened(t) ==
  LET id == task[t].victim.key[1] IN
  /\ Answered(t, "evict_open")
  /\ Keep(t)
  /\ IF task[t].ok
     THEN /\ table' = [table EXCEPT ![id].write_fd = task[t].fd]
          /\ task' = [task EXCEPT ![t].pc = "enter"]
     ELSE /\ table' = [table EXCEPT ![id].write_inflight = @ \ {t}]
          /\ task' = [task EXCEPT ![t].pc = "evict", ![t].victim = None]
  /\ UNCHANGED <<lru, page, readQueue, stale, fsVars, file, fds, content>>

\* Seeded fault: the slot of an evicted page is not erased.
EvictEraseNot(t) ==
  LET key == task[t].victim.key IN
  /\ MayRun(t, "evict_erase")
  /\ table' = [table EXCEPT ![key[1]].write_inflight = @ \ {t}]
  /\ task' = [task EXCEPT ![t].pc = "evict", ![t].victim = None, ![t].fd = None]
  /\ Keep(t)
  /\ UNCHANGED <<lru, page, readQueue, stale, fsVars, file, fds, wire, content>>

\* The slot is erased whether or not the page reached the device.
EvictErase(t) ==
  LET key == task[t].victim.key IN
  /\ MayRun(t, "evict_erase")
  /\ table' = [table EXCEPT ![key[1]].write_inflight = @ \ {t}, ![key[1]].pages[key[2]] = None]
  /\ task' = [task EXCEPT ![t].pc = "evict", ![t].victim = None, ![t].fd = None]
  /\ Keep(t)
  /\ UNCHANGED <<lru, page, readQueue, stale, fsVars, file, fds, wire, content>>

-----------------------------------------------------------------------------
(* Cache::flush_at, of evict's moved page or of a page in the list *)

Evicting(t)    == task[t].victim # None
SubjectLive(t) == Evicting(t) \/ Live(task[t].ref)

FlushWrite(t) ==
  LET p == IF Evicting(t) THEN task[t].victim ELSE page[task[t].ref] IN
  /\ MayRun(t, "body") /\ InFunction(t) = "flush" /\ SubjectLive(t)
  /\ \E ok \in Outcomes("write") :
       LET done == ok /\ OpenFor(task[t].fd, "w") IN
       /\ file' = IF done THEN [file EXCEPT ![fds[task[t].fd][1]][p.key[2]] = p.val] ELSE file
       /\ task' = [task EXCEPT ![t].pc = "flush_ack", ![t].ok = done]
  /\ wire' = Append(wire, t)
  /\ Yield
  /\ UNCHANGED <<table, lru, page, readQueue, stale, fsVars, fds, content>>

\* The answer: the page is marked clean, whatever was written to it meanwhile.
FlushAck(t) ==
  /\ Answered(t, "flush_ack")
  /\ task[t].ok => SubjectLive(t)
  /\ page' = IF task[t].ok /\ ~Evicting(t) THEN [page EXCEPT ![task[t].ref].dirty = FALSE] ELSE page
  /\ task' = [task EXCEPT ![t].pc = AfterFlushAt(t)]
  /\ Keep(t)
  /\ UNCHANGED <<table, lru, readQueue, stale, fsVars, file, fds, content>>

-----------------------------------------------------------------------------
(* Cache::flush *)

LockWrite(t, fd) ==
  [table EXCEPT ![task[t].id].write_fd = fd, ![task[t].id].write_inflight = @ \cup {t}]

Flush(t) ==
  LET e == table[task[t].id] IN
  /\ MayRun(t, "flush")
  /\ \/ /\ e = None \/ ~e.dirty
        /\ task' = [task EXCEPT ![t] = Finish(t, TRUE)]
        /\ Yield /\ UNCHANGED <<table, fds, wire>>
     \/ /\ e # None /\ e.dirty /\ e.write_fd # None
        /\ table' = LockWrite(t, e.write_fd)
        /\ task' = [task EXCEPT ![t].pc = "flush_next"]
        /\ Keep(t) /\ UNCHANGED <<fds, wire>>
     \/ /\ e # None /\ e.dirty /\ e.write_fd = None
        /\ SendOpen(t, task[t].id, "w", [task[t] EXCEPT !.pc = "flush_open"])
        /\ UNCHANGED table
  /\ UNCHANGED <<lru, page, readQueue, stale, fsVars, file, content>>

FlushOpened(t) ==
  /\ Answered(t, "flush_open")
  /\ IF task[t].ok
     THEN /\ table' = LockWrite(t, task[t].fd)
          /\ task' = [task EXCEPT ![t].pc = "flush_next"]
          /\ Keep(t)
     ELSE /\ task' = [task EXCEPT ![t] = Finish(t, FALSE)]
          /\ Yield /\ UNCHANGED table
  /\ UNCHANGED <<lru, page, readQueue, stale, fsVars, file, fds, content>>

\* Seeded fault: the page after each stop is skipped.
FlushStopsSkip(t) ==
  {i \in Idx : LET r == table[task[t].id].pages[i] IN
                 i > task[t].idx + 1 /\ r # None /\ (Live(r) => page[r].dirty)}

\* Where the loop over entry.pages stops next: a dirty page, or a dead node.
FlushStops(t) ==
  {i \in Idx : LET r == table[task[t].id].pages[i] IN
                 i > task[t].idx /\ r # None /\ (Live(r) => page[r].dirty)}
FirstStop(t, i) == i \in FlushStops(t) /\ \A j \in FlushStops(t) : i <= j

\* The loop's iterator into entry.pages still exists (-1: not started yet).
LoopValid(t) == task[t].idx >= 0 => table[task[t].id].pages[task[t].idx] = task[t].ref

\* The next dirty page is handed to flush_at; after the last one, or a failure,
\* flush ends.
FlushNext(t) ==
  LET e == table[task[t].id] IN
  /\ MayRun(t, "flush_next")
  /\ \/ /\ task[t].ok /\ LoopValid(t)
        /\ \E i \in Idx :
             /\ FirstStop(t, i) /\ Live(e.pages[i])
             /\ task' = [task EXCEPT ![t] =
                  [task[t] EXCEPT !.pc = "enter", !.idx = i, !.fd = e.write_fd, !.ref = e.pages[i]]]
        /\ Keep(t) /\ UNCHANGED table
     \/ /\ ~task[t].ok \/ (LoopValid(t) /\ FlushStops(t) = {})
        /\ table' = [table EXCEPT ![task[t].id].write_inflight = @ \ {t},
                                  ![task[t].id].dirty = @ /\ ~task[t].ok]
        /\ task' = [task EXCEPT ![t] = Finish(t, task[t].ok)]
        /\ Yield
  /\ UNCHANGED <<lru, page, readQueue, stale, fsVars, file, fds, wire, content>>

-----------------------------------------------------------------------------
(* Cache::clean_stale_fds *)

FdOf(e, k)       == IF k = "r" THEN e.read_fd ELSE e.write_fd
InflightOf(e, k) == IF k = "r" THEN e.read_inflight ELSE e.write_inflight

\* A stale fd no operation is using is taken out of its entry.
Reapable(id, k) ==
  /\ stale[id][k] > 0 /\ table[id] # None
  /\ InflightOf(table[id], k) = {} /\ FdOf(table[id], k) # None

\* Seeded fault: the fd about to be closed stays in the entry.
ReapCollectKeepsFd ==
  /\ running = None /\ task[Reaper].pc = "idle"
  /\ stale' = [id \in Id |-> [k \in Kind |->
       IF table[id] = None THEN 0 ELSE stale[id][k] - One(Reapable(id, k))]]
  /\ task' = [task EXCEPT ![Reaper] =
       [Idle EXCEPT !.pc = "reap",
                    !.todo = {FdOf(table[x[1]], x[2]) : x \in {y \in Id \X Kind : Reapable(y[1], y[2])}}]]
  /\ Keep(Reaper)
  /\ UNCHANGED <<table, lru, page, readQueue, fsVars, file, fds, wire, content>>

ReapCollect ==
  /\ running = None /\ task[Reaper].pc = "idle"
  /\ table' = [id \in Id |->
       IF table[id] = None THEN None
       ELSE [table[id] EXCEPT !.read_fd = IF Reapable(id, "r") THEN None ELSE @,
                              !.write_fd = IF Reapable(id, "w") THEN None ELSE @]]
  /\ stale' = [id \in Id |-> [k \in Kind |->
       IF table[id] = None THEN 0 ELSE stale[id][k] - One(Reapable(id, k))]]
  /\ task' = [task EXCEPT ![Reaper] =
       [Idle EXCEPT !.pc = "reap",
                    !.todo = {FdOf(table[x[1]], x[2]) : x \in {y \in Id \X Kind : Reapable(y[1], y[2])}}]]
  /\ Keep(Reaper)
  /\ UNCHANGED <<lru, page, readQueue, fsVars, file, fds, wire, content>>

ReapClose ==
  /\ MayRun(Reaper, "reap")
  /\ \E f \in task[Reaper].todo :
       /\ fds' = [fds EXCEPT ![f] = None]
       /\ task' = [task EXCEPT ![Reaper].pc = "reap_wait", ![Reaper].todo = @ \ {f}]
  /\ wire' = Append(wire, Reaper)
  /\ Yield
  /\ UNCHANGED <<table, lru, page, readQueue, stale, fsVars, file, content>>

ReapClosed ==
  /\ Answered(Reaper, "reap_wait")
  /\ task' = [task EXCEPT ![Reaper].pc = "reap"]
  /\ Keep(Reaper)
  /\ UNCHANGED <<table, lru, page, readQueue, stale, fsVars, file, fds, content>>

\* All collected fds are closed: entries nobody uses leave the table.
ReapSweep ==
  /\ MayRun(Reaper, "reap") /\ task[Reaper].todo = {}
  /\ table' = [id \in Id |-> IF table[id] # None /\ IsFree(table[id]) THEN None ELSE table[id]]
  /\ task' = [task EXCEPT ![Reaper] = Idle]
  /\ Yield
  /\ UNCHANGED <<lru, page, readQueue, stale, fsVars, file, fds, wire, content>>

-----------------------------------------------------------------------------
(* A coroutine follows an iterator or a reference to a list or map node    *)
(* that was erased while it was suspended: undefined, and the model stops. *)

Dangle(t) ==
  /\ running \in {None, t}
  /\ \/ task[t].pc = "copy" /\ ~IteratorValid(t)
     \/ task[t].pc = "body" /\ InFunction(t) = "flush" /\ ~SubjectLive(t)
     \/ /\ task[t].pc = "flush_ack" /\ task[t].ok /\ ~SubjectLive(t)
        /\ wire # << >> /\ Head(wire) = t
     \/ /\ task[t].pc = "flush_next" /\ task[t].ok
        /\ \/ ~LoopValid(t)
           \/ \E i \in Idx : FirstStop(t, i) /\ ~Live(table[task[t].id].pages[i])
  /\ running' = Crashed
  /\ UNCHANGED <<table, lru, page, readQueue, stale, task, fsVars, file, fds, wire, content>>

-----------------------------------------------------------------------------
ClientStep(c) ==
  \/ \E id \in Id, mode \in Modes : Open(c, id, mode)
  \/ \E i, j \in Idx :
       /\ i <= j /\ j < i + MaxSpan
       /\ \/ Begin(c, "read", i, j, None)
          \/ \E v \in Val : Begin(c, "write", i, j, v)
  \/ EndIO(c)
  \/ BeginFlush(c, "flush") \/ BeginFlush(c, "release")
  \/ EndFlush(c)
  \/ Release(c)

PageStep(t) ==
  \/ Enter(t) \/ Woken(t)
  \/ ReadFind(t) \/ ReadOpened(t) \/ ReadFetch(t) \/ ReadFilled(t)
  \/ WriteFind(t) \/ CopyPage(t)

FlushStep(t) ==
  \/ EvictPop(t) \/ EvictDone(t) \/ EvictOpened(t) \/ EvictErase(t)
  \/ FlushWrite(t) \/ FlushAck(t)
  \/ Flush(t) \/ FlushOpened(t) \/ FlushNext(t)

ReaperStep == ReapCollect \/ ReapClose \/ ReapClosed \/ ReapSweep

FileStep ==
  \/ \E c \in Client : ClientStep(c)
  \/ \E t \in Worker : PageStep(t) \/ FlushStep(t) \/ Dangle(t)

Next == FileStep \/ ReaperStep

Spec == Init /\ [][Next]_vars

\* The cache between two runs of the reaper, which wakes every ten seconds.
FileSpec == Init /\ [][FileStep]_vars

\* The io_context serves ready handlers in FIFO order and the device answers every
\* request, so a coroutine that can go on again and again does so.  Clients need
\* not begin anything, nor the reaper wake up.
Fairness ==
  /\ \A c \in Client : SF_vars(EndIO(c) \/ EndFlush(c))
  /\ \A t \in Worker : SF_vars(PageStep(t) \/ FlushStep(t) \/ Dangle(t))
  /\ SF_vars(ReapClose \/ ReapClosed \/ ReapSweep)

FairSpec == Spec /\ Fairness

-----------------------------------------------------------------------------
(* Properties *)

Pcs ==
  {"idle", "enter", "wait", "body", "read_open", "fetch", "fill", "copy", "evict",
   "evict_open", "evict_erase", "flush", "flush_open", "flush_next", "flush_ack",
   "done", "reap", "reap_wait"}

Frame ==
  [pc : Pcs,
   op : {"read", "write", "flush", None}, id : Id \cup {None}, idx : -1..MaxIdx,
   ref : Ref \cup {None}, on : Worker \cup {None}, ok : BOOLEAN, val : Bytes,
   fd : Fd \cup {None}, evict : Nat, victim : Page \cup {None}, todo : SUBSET Fd]

Handle ==
  [op : {"closed", "open", "read", "write", "flush", "release"},
   id : Id \cup {None}, mode : Modes \cup {None}]

\* Every variable keeps the type its C++ counterpart has.
TypeOK ==
  /\ table \in [Id -> Entry \cup {None}]
  /\ lru \in Seq(Ref)
  /\ page \in [Ref -> Page \cup {None}]
  /\ readQueue \in [Key -> Worker \cup {None}]
  /\ stale \in [Id -> [Kind -> Nat]]
  /\ task \in [Task -> Frame]
  /\ running \in Task \cup {None, Crashed}
  /\ client \in [Client -> Handle]
  /\ nodeDirty \in [Id -> BOOLEAN]
  /\ file \in [Id -> [Idx -> Bytes]]
  /\ fds \in [Fd -> (Id \X Kind) \cup {None}]
  /\ wire \in Seq(Task)
  /\ content \in [Id -> [Idx -> Bytes]]

\* While (file, kind) is in m_stale_fds the file has no reader (writer): in every
\* order of calls hint_open and hint_close keep the list and the counts in step,
\* so clean_stale_fds never closes the fd of a file that is open.
StaleUnused ==
  \A id \in Id : table[id] # None =>
    /\ stale[id]["r"] > 0 => table[id].reader = 0
    /\ stale[id]["w"] > 0 => table[id].writer = 0

\* The file whose page t is flushing.
FlushedFile(t) == IF Evicting(t) THEN task[t].victim.key[1] ELSE task[t].id

InFlushAt(t) == InFunction(t) = "flush" /\ task[t].pc \in {"enter", "wait", "body", "flush_ack"}

\* A request never goes out on a closed descriptor or on another file's: the fds
\* of the table, and the fd flush_at captured before its co_awaits, are open on the
\* device for the file and the direction they are used for.
FdsValid ==
  /\ \A id \in Id : table[id] # None =>
       /\ table[id].read_fd # None => fds[table[id].read_fd] = <<id, "r">>
       /\ table[id].write_fd # None => fds[table[id].write_fd] = <<id, "w">>
  /\ \A t \in Worker : InFlushAt(t) =>
       task[t].fd # None /\ fds[task[t].fd] = <<FlushedFile(t), "w">>

\* Suspended coroutines hold references to table entries; the reaper's sweep never
\* erases one of those, nor the entry of an open handle.
EntriesInUseStay ==
  /\ \A c \in Client : client[c].op # "closed" => table[client[c].id] # None
  /\ \A t \in Worker : Evicting(t) => table[FlushedFile(t)] # None

\* Whenever all coroutines are suspended the list respects m_max_pages.
LruBounded == running = None => Len(lru) <= MaxPages

\* No coroutine follows an iterator or a reference into an erased node.
NoDangling == running # Crashed

Cached(id, i) == table[id] # None /\ table[id].pages[i] # None

\* No operation on the file's data is in progress.
AtRest == running = None /\ \A t \in Worker : task[t].pc \in {"idle", "done"}

\* What the next reader of page i of a file is shown, the cached page or the
\* device's bytes, is exactly what the completed writes define.
Coherent ==
  AtRest =>
    \A id \in Id, i \in Idx :
      content[id][i] = IF Cached(id, i) THEN page[table[id].pages[i]].val ELSE file[id][i]

\* A page the cache would not write back any more is on the device: a clean page,
\* or any page of a file whose entry is not dirty.
CleanOnDevice ==
  AtRest =>
    \A id \in Id, i \in Idx :
      Cached(id, i) /\ (~page[table[id].pages[i]].dirty \/ ~table[id].dirty) =>
        page[table[id].pages[i]].val = file[id][i]

\* The list and the table describe the same pages, one per key, except for the
\* slots of pages that an eviction is still writing back.
ListMatchesTable ==
  running = None =>
    /\ \A k \in 1..Len(lru) :
         LET key == page[lru[k]].key IN
         Cached(key[1], key[2]) /\ table[key[1]].pages[key[2]] = lru[k]
    /\ \A id \in Id, i \in Idx :
         Cached(id, i) => \/ Live(table[id].pages[i])
                          \/ \E t \in Worker : Evicting(t) /\ task[t].victim.key = <<id, i>>

\* A coroutine waits only for a read that is still in flight: every future is
\* fulfilled, even when its key left the queue early.
WaitersServed ==
  \A t \in Worker : task[t].on # None => task[task[t].on].pc = "fill"

\* An operation fails only if the device failed a request.
NoSpuriousError ==
  Failures = {} => \A t \in Worker : task[t].pc = "done" => task[t].ok

\* Every read, write, flush and release returns to its FUSE caller, whatever the
\* device answers and whoever else waits for the same page.
EveryOperationReturns ==
  \A c \in Client :
    client[c].op \in {"read", "write", "flush", "release"}
      ~> (client[c].op \in {"open", "closed"} \/ running = Crashed)
=============================================================================
