------------------------- MODULE CacheTypes_proofs -------------------------
(***************************************************************************)
(* The inductive invariant of module Cache, lemmas about its operators, and *)
(* the proof that every step keeps the types.  The proofs hold for every    *)
(* set of clients and files, every m_max_pages, every number of descriptors *)
(* and every pattern of device failures.                                    *)
(***************************************************************************)
EXTENDS Cache, TLAPS, SequenceTheorems, FiniteSetTheorems

-----------------------------------------------------------------------------
(* The inductive invariant *)

Busy == {"read", "write", "flush", "release"}

\* A frame in use belongs to an operation of its client, and its fields are set
\* where the code has a local variable in scope.
WellFormed(f, h, i) ==
  /\ f.pc # "idle" => f.id = h.id /\ h.op \in Busy
  /\ h.op \in {"flush", "release"} /\ i # 0 => f.pc = "idle"
  /\ f.pc \notin {"idle", "done"} => f.op \in {"read", "write", "flush"}
  /\ f.pc # "idle" /\ f.op \in {"read", "write"} => f.idx = i
  /\ f.pc \in {"read_open", "fetch", "fill"} => f.op = "read"
  /\ f.pc \in {"copy", "evict", "evict_open", "evict_erase"} => f.op \in {"read", "write"}
  /\ f.pc \in {"flush", "flush_open", "flush_next"} => f.op = "flush"
  /\ f.pc \in {"evict_open", "evict_erase"} => f.victim # None
  /\ f.pc = "flush_ack" => f.op = "flush" \/ f.victim # None
  /\ f.op = "flush" /\ f.pc \in {"enter", "wait", "body", "flush_ack"} =>
       f.idx \in Idx /\ f.ref # None
  /\ f.pc \notin {"reap", "reap_wait"}
  /\ f.todo = {}

FrameOf(t) == WellFormed(task[t], client[t[1]], t[2])

Frames == \A t \in Worker : FrameOf(t)

ReaperFrame ==
  /\ task[Reaper].pc \in {"idle", "reap", "reap_wait"}
  /\ task[Reaper].on = None /\ task[Reaper].victim = None

\* A page being evicted holds its file's write_inflight, and evict's caller is a
\* read_at or a write_at.
Victims ==
  \A t \in Worker : task[t].victim # None =>
    /\ table[task[t].victim.key[1]] # None
    /\ t \in table[task[t].victim.key[1]].write_inflight
    /\ task[t].op \in {"read", "write"}
    /\ task[t].pc \in {"enter", "wait", "body", "flush_ack", "evict_open", "evict_erase"}

\* A handle has an entry, and the entry counts at least the handles there are.
ReadersOf(id) == {c \in Client : client[c].id = id /\ Reads(client[c].mode)}
WritersOf(id) == {c \in Client : client[c].id = id /\ Writes(client[c].mode)}

Handles ==
  \A c \in Client :
    IF client[c].op = "closed" THEN client[c] = NoHandle
    ELSE client[c].id \in Id /\ client[c].mode \in Modes /\ table[client[c].id] # None

Counts ==
  \A id \in Id : table[id] # None =>
    /\ table[id].reader >= Cardinality(ReadersOf(id))
    /\ table[id].writer >= Cardinality(WritersOf(id))

\* Every node is in the list once, and holds a page while it is.
ListNodes ==
  /\ \A k \in 1..Len(lru) : page[lru[k]] # None
  /\ \A k, m \in 1..Len(lru) : lru[k] = lru[m] => k = m

\* A queued future belongs to a fetch of that page.
Queue ==
  \A k \in Key : readQueue[k] # None =>
    task[readQueue[k]].pc = "fill" /\ k = <<task[readQueue[k]].id, task[readQueue[k]].idx>>

Base == TypeOK /\ Frames /\ ReaperFrame /\ Victims /\ Handles /\ Counts /\ ListNodes

\* The list is too long only while the coroutine that made it so has not yet
\* removed the page it has to.
Overlong ==
  /\ Len(lru) <= MaxPages + 1
  /\ Len(lru) > MaxPages => running \in Worker /\ task[running].evict = 1
  /\ \A t \in Worker : task[t].evict > 0 =>
       /\ task[t].evict = 1 /\ task[t].pc = "evict" /\ running \in {t, Crashed}
       /\ Len(lru) = MaxPages + 1

-----------------------------------------------------------------------------
(* Lemmas about the operators of the model *)

LEMMA FreshRefIsFree == FreeRefs # {} => FreshRef \in Ref /\ ~Live(FreshRef)
  BY DEF FreshRef, FreeRefs

LEMMA FreshFdIsFree == FreeFds # {} => FreshFd \in Fd /\ fds[FreshFd] = None
  BY DEF FreshFd, FreeFds

LEMMA IdleFrame == Idle \in Frame
  BY CacheAssumption DEF Idle, Frame, Pcs, Bytes

LEMMA NewEntryIsEntry == NewEntry \in Entry
  BY CacheAssumption DEF NewEntry, Entry

\* An entry keeps its type when its counts change.
LEMMA CountsTyped ==
  ASSUME NEW e \in Entry, NEW r, NEW w, r \in Nat, w \in Nat
  PROVE  [e EXCEPT !.reader = r, !.writer = w] \in Entry
  BY DEF Entry

LEMMA PcTyped ==
  ASSUME NEW f \in Frame, NEW pc \in Pcs
  PROVE  [f EXCEPT !.pc = pc] \in Frame
  BY DEF Frame

LEMMA AfterFlushAtType ==
  ASSUME NEW t
  PROVE  AfterFlushAt(t) \in Pcs
  BY DEF AfterFlushAt, Pcs

LEMMA HandleTyped ==
  ASSUME NEW h \in Handle, NEW op \in Busy
  PROVE  [h EXCEPT !.op = op] \in Handle
  BY DEF Handle, Busy

\* A frame in use names a file that is in the table.
LEMMA InUse ==
  ASSUME Base, NEW t \in Worker, task[t].pc # "idle"
  PROVE  /\ t \in Task /\ t[1] \in Client /\ t[2] \in Idx
         /\ task[t] \in Frame
         /\ task[t].id \in Id
         /\ table[task[t].id] \in Entry
<1>1. t \in Task /\ t[1] \in Client /\ t[2] \in Idx
  BY DEF Task, Worker
<1>2. task[t] \in Frame
  BY <1>1 DEF Base, TypeOK
<1>3. client[t[1]].op # "closed" /\ task[t].id = client[t[1]].id
  BY <1>1 DEF Base, Frames, FrameOf, WellFormed, Busy
<1>4. task[t].id \in Id /\ table[task[t].id] # None
  BY <1>1, <1>3 DEF Base, Handles
<1>5. QED
  BY <1>1, <1>2, <1>4 DEF Base, TypeOK

\* The page evict moved out of the list is a page of a file in the table.
LEMMA VictimInUse ==
  ASSUME Base, NEW t \in Worker, task[t].victim # None
  PROVE  /\ task[t].victim \in Page
         /\ task[t].victim.key \in Key
         /\ task[t].victim.key[1] \in Id /\ task[t].victim.key[2] \in Idx
         /\ table[task[t].victim.key[1]] \in Entry
         /\ task[t].pc # "idle"
<1>1. task[t].victim \in Page
  BY DEF Base, TypeOK, Frame, Pcs, Task
<1>2. task[t].victim.key \in Key
  BY <1>1 DEF Page
<1>3. task[t].victim.key[1] \in Id /\ task[t].victim.key[2] \in Idx
  BY <1>2 DEF Key
<1>4. table[task[t].victim.key[1]] # None /\ task[t].pc # "idle"
  BY DEF Base, Victims
<1>5. QED
  BY <1>1, <1>2, <1>3, <1>4 DEF Base, TypeOK

\* A page being read, written or flushed has a key.
LEMMA KeyInUse ==
  ASSUME Base, NEW t \in Worker,
         task[t].pc \in {"enter", "wait", "body", "fetch", "fill"}
  PROVE  KeyOf(t) \in Key
<1>1. CASE task[t].victim # None
  BY <1>1, VictimInUse DEF KeyOf
<1>2. CASE task[t].victim = None
  <2>1. task[t].id \in Id /\ task[t] \in Frame /\ t[2] \in Idx
    BY InUse
  <2>2. task[t].op \in {"read", "write", "flush"}
    BY <2>1 DEF Base, Frames, FrameOf, WellFormed, Frame, Pcs
  <2>3. task[t].idx \in Idx
    BY <2>1, <2>2 DEF Base, Frames, FrameOf, WellFormed
  <2>4. QED
    BY <1>2, <2>1, <2>3 DEF KeyOf, Key
<1>3. QED
  BY <1>1, <1>2

\* Removing t from a file's read_inflight keeps the table's type.
LEMMA LeaveReadType ==
  ASSUME Base, NEW t \in Worker, task[t].pc # "idle"
  PROVE  LeaveRead(t) \in [Id -> Entry \cup {None}]
<1>1. [table[task[t].id] EXCEPT !.read_inflight = @ \ {t}] \in Entry
  BY InUse DEF Entry
<1>2. QED
  BY <1>1, InUse DEF LeaveRead, Base, TypeOK

LEMMA FinishType ==
  ASSUME TypeOK, NEW t \in Task, NEW ok \in BOOLEAN
  PROVE  Finish(t, ok) \in Frame
  BY IdleFrame DEF TypeOK, Finish, Frame, Pcs

\* SendOpen's effect on the descriptors, the requester's frame and the wire.
LEMMA SendOpenType ==
  ASSUME TypeOK, NEW t \in Task, NEW id \in Id, NEW kind \in Kind, NEW frame \in Frame,
         SendOpen(t, id, kind, frame)
  PROVE  /\ fds' \in [Fd -> (Id \X Kind) \cup {None}]
         /\ task' \in [Task -> Frame]
         /\ wire' \in Seq(Task)
         /\ running' = None
<1>1. PICK ok \in Outcomes("open") :
        LET opened == ok /\ FreeFds # {} IN
        /\ fds' = IF opened THEN [fds EXCEPT ![FreshFd] = <<id, kind>>] ELSE fds
        /\ task' = [task EXCEPT ![t] =
             [frame EXCEPT !.ok = opened, !.fd = IF opened THEN FreshFd ELSE None]]
        /\ wire' = Append(wire, t)
        /\ running' = None
  BY DEF SendOpen, Yield
<1> DEFINE opened == ok /\ FreeFds # {}
           fd == IF opened THEN FreshFd ELSE None
<1>2. opened \in BOOLEAN
  OBVIOUS
<1>3. fd \in Fd \cup {None}
  BY FreshFdIsFree
<1>4. [frame EXCEPT !.ok = opened, !.fd = fd] \in Frame
  <2> HIDE DEF opened, fd
  <2> QED BY <1>2, <1>3 DEF Frame, Pcs
<1>5. task' \in [Task -> Frame]
  BY <1>1, <1>4 DEF TypeOK
<1>6. fds' \in [Fd -> (Id \X Kind) \cup {None}]
  <2>1. CASE opened
    BY <1>1, <2>1, FreshFdIsFree DEF TypeOK
  <2>2. CASE ~opened
    BY <1>1, <2>2 DEF TypeOK
  <2>3. QED BY <2>1, <2>2
<1>7. wire' \in Seq(Task)
  BY <1>1 DEF TypeOK
<1>8. QED
  BY <1>1, <1>5, <1>6, <1>7

LEMMA AnsweredType ==
  ASSUME TypeOK, NEW t, NEW pc, Answered(t, pc)
  PROVE  wire' \in Seq(Task)
<1>1. wire \in Seq(Task) /\ wire # << >>
  BY DEF Answered, TypeOK
<1>2. QED
  BY <1>1, HeadTailProperties DEF Answered

-----------------------------------------------------------------------------
(* Type correctness, action by action: the FUSE operations *)

LEMMA OpenType ==
  ASSUME Base, NEW c \in Client, NEW id \in Id, NEW mode \in Modes, Open(c, id, mode)
  PROVE  TypeOK'
<1> USE DEF Base, TypeOK
<1> DEFINE old == IF table[id] = None THEN NewEntry ELSE table[id]
<1>1. old \in Entry
  BY NewEntryIsEntry
<1>2. old.reader + One(Reads(mode)) \in Nat /\ old.writer + One(Writes(mode)) \in Nat
  <2> HIDE DEF old
  <2> QED BY <1>1 DEF Entry, One
<1>3. [old EXCEPT !.reader = @ + One(Reads(mode)), !.writer = @ + One(Writes(mode))] \in Entry
  <2> HIDE DEF old
  <2> QED BY <1>1, <1>2, CountsTyped
<1>4. table' \in [Id -> Entry \cup {None}]
  BY <1>3 DEF Open
<1>5. client' \in [Client -> Handle]
  BY DEF Open, Handle
<1>6. stale' \in [Id -> [Kind -> Nat]]
  BY DEF Open, Kind
<1>7. QED
  BY <1>4, <1>5, <1>6 DEF Open

LEMMA BeginType ==
  ASSUME Base, NEW c \in Client, NEW op \in {"read", "write"}, NEW i \in Idx, NEW j \in Idx,
         NEW v \in Bytes, Begin(c, op, i, j, v)
  PROVE  TypeOK'
<1> USE DEF Base, TypeOK
<1>1. client[c].id \in Id /\ table[client[c].id] \in Entry
  BY DEF Begin, Handles
<1>2. table' \in [Id -> Entry \cup {None}]
  <2> DEFINE e == table[client[c].id]
             b == IF op = "write" THEN TRUE ELSE e.dirty
  <2>1. b \in BOOLEAN
    BY <1>1 DEF Entry
  <2>2. [e EXCEPT !.dirty = b] \in Entry
    <3> HIDE DEF b
    <3> QED BY <1>1, <2>1 DEF Entry
  <2>3. QED
    BY <1>1, <2>2 DEF Begin
<1>3. client' \in [Client -> Handle]
  <2>1. [client[c] EXCEPT !.op = op] \in Handle
    BY HandleTyped DEF Busy
  <2>2. QED
    BY <2>1 DEF Begin
<1>4. task' \in [Task -> Frame]
  <2>1. SUFFICES ASSUME NEW t \in Task, t \in {c} \X (i..j)
                 PROVE  [Idle EXCEPT !.pc = "enter", !.op = op, !.id = client[c].id,
                                     !.idx = t[2], !.val = v] \in Frame
    BY DEF Begin
  <2>2. t[2] \in -1..MaxIdx
    BY <2>1, CacheAssumption DEF Idx
  <2>3. QED
    BY <1>1, <2>2, IdleFrame DEF Frame, Pcs
<1>5. QED
  BY <1>2, <1>3, <1>4 DEF Begin

LEMMA EndIOType ==
  ASSUME Base, NEW c \in Client, EndIO(c)
  PROVE  TypeOK'
<1> USE DEF Base, TypeOK
<1>1. client[c].id \in Id
  BY DEF EndIO, Handles
<1>2. nodeDirty' \in [Id -> BOOLEAN]
  BY <1>1 DEF EndIO
<1>3. client' \in [Client -> Handle]
  <2>1. client \in [Client -> Handle] /\ client[c] \in Handle
    OBVIOUS
  <2>2. [client[c] EXCEPT !.op = "open"] \in Handle
    BY <2>1 DEF Handle
  <2>3. client' = [client EXCEPT ![c] = [client[c] EXCEPT !.op = "open"]]
    BY <2>1 DEF EndIO
  <2>4. QED
    BY <2>1, <2>2, <2>3
<1>4. task' \in [Task -> Frame]
  BY IdleFrame DEF EndIO
<1>5. QED
  BY <1>2, <1>3, <1>4 DEF EndIO

LEMMA BeginFlushType ==
  ASSUME Base, NEW c \in Client, NEW op \in {"flush", "release"}, BeginFlush(c, op)
  PROVE  TypeOK'
<1> USE DEF Base, TypeOK
<1>1. client[c].id \in Id
  BY DEF BeginFlush, Handles
<1>2. client' \in [Client -> Handle]
  <2>1. [client[c] EXCEPT !.op = op] \in Handle
    BY HandleTyped DEF Busy
  <2>2. QED
    BY <2>1 DEF BeginFlush
<1>3. [Idle EXCEPT !.pc = "flush", !.op = "flush", !.id = client[c].id] \in Frame
  BY <1>1, IdleFrame DEF Frame, Pcs
<1>4. task' \in [Task -> Frame]
  BY <1>3 DEF BeginFlush
<1>5. QED
  BY <1>2, <1>4 DEF BeginFlush

LEMMA HintCloseType ==
  ASSUME Base, NEW id \in Id, NEW mode \in Modes, HintClose(id, mode)
  PROVE  /\ table' \in [Id -> Entry \cup {None}]
         /\ stale' \in [Id -> [Kind -> Nat]]
<1> USE DEF Base, TypeOK
<1> DEFINE refused == \/ table[id] = None
                      \/ Reads(mode) /\ table[id].reader = 0
                      \/ Writes(mode) /\ table[id].writer = 0
<1>1. CASE refused
  BY <1>1 DEF HintClose
<1>2. CASE ~refused
  <2>1. table[id] \in Entry
    BY <1>2
  <2> DEFINE e == [table[id] EXCEPT !.reader = @ - One(Reads(mode)),
                                    !.writer = @ - One(Writes(mode))]
  <2>2. /\ table[id].reader - One(Reads(mode)) \in Nat
        /\ table[id].writer - One(Writes(mode)) \in Nat
    BY <1>2, <2>1 DEF Entry, One
  <2>3. e \in Entry
    BY <2>1, <2>2, CountsTyped
  <2>4. table' = [table EXCEPT ![id] = e]
    BY <1>2 DEF HintClose
  <2>5. stale' = [stale EXCEPT
                ![id]["r"] = @ + One(e.reader = 0 /\ e.read_fd # None),
                ![id]["w"] = @ + One(e.writer = 0 /\ e.write_fd # None)]
    BY <1>2 DEF HintClose
  <2>6. stale' \in [Id -> [Kind -> Nat]]
    <3> HIDE DEF e
    <3> QED BY <2>5 DEF Kind, One
  <2>7. QED
    BY <2>3, <2>4, <2>6
<1>3. QED
  BY <1>1, <1>2

LEMMA ReleaseType ==
  ASSUME Base, NEW c \in Client, Release(c)
  PROVE  TypeOK'
<1>1. client[c].id \in Id /\ client[c].mode \in Modes
  BY DEF Base, Release, Handles
<1>2. client' \in [Client -> Handle]
  BY DEF Base, TypeOK, Release, NoHandle, Handle
<1>3. QED
  BY <1>1, <1>2, HintCloseType DEF Base, TypeOK, Release

LEMMA EndFlushType ==
  ASSUME Base, NEW c \in Client, EndFlush(c)
  PROVE  TypeOK'
<1> USE DEF Base, TypeOK
<1>1. client[c].id \in Id /\ client[c].mode \in Modes
  BY DEF EndFlush, Handles
<1>2. nodeDirty' \in [Id -> BOOLEAN]
  BY <1>1 DEF EndFlush
<1>3. client' \in [Client -> Handle]
  <2>1. client \in [Client -> Handle] /\ client[c] \in Handle /\ NoHandle \in Handle
    BY DEF NoHandle, Handle
  <2>2. [client[c] EXCEPT !.op = "open"] \in Handle
    BY <2>1 DEF Handle
  <2>3. \E h \in {NoHandle, [client[c] EXCEPT !.op = "open"]} : client' = [client EXCEPT ![c] = h]
    BY <2>1 DEF EndFlush
  <2>4. QED
    BY <2>1, <2>2, <2>3
<1>4. task' \in [Task -> Frame]
  BY IdleFrame DEF EndFlush
<1>5. table' \in [Id -> Entry \cup {None}] /\ stale' \in [Id -> [Kind -> Nat]]
  BY <1>1, HintCloseType DEF EndFlush
<1>6. QED
  BY <1>2, <1>3, <1>4, <1>5 DEF EndFlush

-----------------------------------------------------------------------------
(* Type correctness: the coroutines of read and write *)

LEMMA EnterType ==
  ASSUME Base, NEW t \in Worker, Enter(t)
  PROVE  TypeOK'
<1> USE DEF Base, TypeOK
<1>1. /\ t \in Task /\ task[t] \in Frame /\ KeyOf(t) \in Key
      /\ task[t].id \in Id /\ table[task[t].id] \in Entry
  BY InUse, KeyInUse DEF Enter, MayRun
<1>2. table' \in [Id -> Entry \cup {None}]
  <2>1. [table[task[t].id] EXCEPT !.read_inflight = @ \cup {t}] \in Entry
    BY <1>1 DEF Entry
  <2>2. QED
    BY <1>1, <2>1 DEF Enter
<1>3. task' \in [Task -> Frame] /\ running' \in Task \cup {None, Crashed}
  <2> DEFINE owner == readQueue[KeyOf(t)]
  <2>1. CASE owner # None
    <3>1. [task[t] EXCEPT !.pc = "wait", !.on = owner] \in Frame
      BY <1>1, <2>1 DEF Frame, Pcs
    <3>2. QED
      BY <1>1, <2>1, <3>1 DEF Enter, Yield
  <2>2. CASE owner = None
    <3>1. [task[t] EXCEPT !.pc = "body"] \in Frame
      BY <1>1 DEF Frame, Pcs
    <3>2. QED
      BY <1>1, <2>2, <3>1 DEF Enter, Keep
  <2>3. QED
    BY <2>1, <2>2
<1>4. QED
  BY <1>2, <1>3 DEF Enter, fsVars

LEMMA WokenType ==
  ASSUME Base, NEW t \in Worker, Woken(t)
  PROVE  TypeOK'
<1> USE DEF Base, TypeOK
<1>1. t \in Task /\ task[t] \in Frame /\ LeaveRead(t) \in [Id -> Entry \cup {None}]
  BY InUse, LeaveReadType DEF Woken, MayRun
<1>2. /\ [task[t] EXCEPT !.pc = "body"] \in Frame
      /\ [task[t] EXCEPT !.pc = AfterFlushAt(t)] \in Frame
      /\ Finish(t, FALSE) \in Frame
  BY <1>1, AfterFlushAtType, PcTyped, FinishType DEF Pcs
<1>3. table' \in [Id -> Entry \cup {None}]
  BY <1>1 DEF Woken
<1>4. task' \in [Task -> Frame]
  BY <1>1, <1>2 DEF Woken
<1>5. running' \in Task \cup {None}
  BY <1>1 DEF Woken, Keep, Yield
<1>6. QED
  BY <1>3, <1>4, <1>5 DEF Woken, fsVars

LEMMA ReadFindType ==
  ASSUME Base, NEW t \in Worker, ReadFind(t)
  PROVE  TypeOK'
<1> USE DEF Base, TypeOK
<1>1. /\ t \in Task /\ task[t] \in Frame /\ t[2] \in Idx
      /\ task[t].id \in Id /\ table[task[t].id] \in Entry
  BY InUse DEF ReadFind, MayRun
<1>2. task[t].idx \in Idx
  <2>1. task[t].op = "read" /\ task[t].pc = "body"
    BY DEF ReadFind, InFunction, MayRun
  <2>2. QED
    BY <1>1, <2>1 DEF Frames, FrameOf, WellFormed
<1>3. table[task[t].id].pages[task[t].idx] \in Ref \cup {None}
  BY <1>1, <1>2 DEF Entry
<1> DEFINE r == table[task[t].id].pages[task[t].idx]
<1>4. CASE task' = [task EXCEPT ![t].pc = "copy", ![t].ref = r] /\ Keep(t) /\ UNCHANGED <<fds, wire>>
  <2>1. [task[t] EXCEPT !.pc = "copy", !.ref = r] \in Frame
    BY <1>1, <1>3 DEF Frame, Pcs
  <2>2. QED
    BY <1>1, <1>4, <2>1 DEF ReadFind, Keep, fsVars
<1>5. CASE task' = [task EXCEPT ![t].pc = "fetch"] /\ Keep(t) /\ UNCHANGED <<fds, wire>>
  <2>1. [task[t] EXCEPT !.pc = "fetch"] \in Frame
    BY <1>1 DEF Frame, Pcs
  <2>2. QED
    BY <1>1, <1>5, <2>1 DEF ReadFind, Keep, fsVars
<1>6. CASE SendOpen(t, task[t].id, "r", [task[t] EXCEPT !.pc = "read_open"])
  <2>1. [task[t] EXCEPT !.pc = "read_open"] \in Frame /\ "r" \in Kind
    BY <1>1 DEF Frame, Pcs, Kind
  <2>2. QED
    BY <1>1, <1>6, <2>1, SendOpenType DEF ReadFind, fsVars
<1>7. QED
  BY <1>4, <1>5, <1>6 DEF ReadFind

LEMMA ReadOpenedType ==
  ASSUME Base, NEW t \in Worker, ReadOpened(t)
  PROVE  TypeOK'
<1> USE DEF Base, TypeOK
<1>1. /\ t \in Task /\ task[t] \in Frame
      /\ task[t].id \in Id /\ table[task[t].id] \in Entry
      /\ LeaveRead(t) \in [Id -> Entry \cup {None}]
  BY InUse, LeaveReadType DEF ReadOpened, Answered
<1>2. [table[task[t].id] EXCEPT !.read_fd = task[t].fd] \in Entry
  BY <1>1 DEF Entry, Frame, Pcs
<1>3. [task[t] EXCEPT !.pc = "fetch", !.fd = None] \in Frame
  BY <1>1 DEF Frame, Pcs
<1>4. table' \in [Id -> Entry \cup {None}]
  BY <1>1, <1>2 DEF ReadOpened
<1>5. task' \in [Task -> Frame]
  BY <1>1, <1>3, FinishType DEF ReadOpened
<1>6. running' \in Task \cup {None}
  BY <1>1 DEF ReadOpened, Keep, Yield
<1>7. wire' \in Seq(Task)
  BY AnsweredType DEF ReadOpened
<1>8. QED
  BY <1>4, <1>5, <1>6, <1>7 DEF ReadOpened, fsVars

LEMMA ReadFetchType ==
  ASSUME Base, NEW t \in Worker, ReadFetch(t)
  PROVE  TypeOK'
<1> USE DEF Base, TypeOK
<1>1. /\ t \in Task /\ task[t] \in Frame /\ KeyOf(t) \in Key /\ t[2] \in Idx
      /\ task[t].id \in Id /\ table[task[t].id] \in Entry
  BY InUse, KeyInUse DEF ReadFetch, MayRun
<1>2. task[t].idx \in Idx
  BY <1>1 DEF ReadFetch, MayRun, Frames, FrameOf, WellFormed
<1> DEFINE fd == table[task[t].id].read_fd
<1>3. PICK ok \in Outcomes("read") :
        LET done == ok /\ OpenFor(fd, "r") IN
        task' = [task EXCEPT ![t] =
         [task[t] EXCEPT !.pc = "fill", !.ok = done,
                         !.val = IF done THEN file[fds[fd][1]][task[t].idx] ELSE None]]
  BY DEF ReadFetch
<1> DEFINE done == ok /\ OpenFor(fd, "r")
           val == IF done THEN file[fds[fd][1]][task[t].idx] ELSE None
<1>4. done \in BOOLEAN
  OBVIOUS
<1>5. val \in Bytes
  <2>1. CASE done
    <3>1. fds[fd] \in Id \X Kind
      BY <2>1 DEF OpenFor
    <3>2. file \in [Id -> [Idx -> Bytes]] /\ fds[fd][1] \in Id
      BY <3>1
    <3>3. file[fds[fd][1]][task[t].idx] \in Bytes
      <4> HIDE DEF Base, TypeOK, fd
      <4> QED BY <1>2, <3>2
    <3>4. QED
      BY <2>1, <3>3
  <2>2. CASE ~done
    BY <2>2 DEF Bytes
  <2>3. QED
    BY <2>1, <2>2
<1>6. [task[t] EXCEPT !.pc = "fill", !.ok = done, !.val = val] \in Frame
  <2> HIDE DEF done, val
  <2> QED BY <1>1, <1>4, <1>5 DEF Frame, Pcs
<1>7. task' \in [Task -> Frame]
  BY <1>1, <1>3, <1>6
<1>8. readQueue' \in [Key -> Worker \cup {None}]
  BY <1>1 DEF ReadFetch
<1>9. wire' \in Seq(Task) /\ running' = None
  BY <1>1 DEF ReadFetch, Yield
<1>10. QED
  BY <1>7, <1>8, <1>9 DEF ReadFetch, fsVars

-----------------------------------------------------------------------------
(* The list: a node put in front, the back node removed, a node moved *)

LEMMA PushFront ==
  ASSUME NEW S, NEW s \in Seq(S), NEW r \in S
  PROVE  /\ << r >> \o s \in Seq(S)
         /\ Len(<< r >> \o s) = Len(s) + 1
         /\ (<< r >> \o s)[1] = r
         /\ \A k \in 2..(Len(s) + 1) : (<< r >> \o s)[k] = s[k - 1]
<1>1. << r >> \in Seq(S) /\ Len(<< r >>) = 1 /\ << r >>[1] = r
  OBVIOUS
<1>2. Len(s) \in Nat
  BY LenProperties
<1>3. QED
  BY <1>1, <1>2, ConcatProperties

LEMMA PopBack ==
  ASSUME NEW S, NEW s \in Seq(S), s # << >>
  PROVE  /\ SubSeq(s, 1, Len(s) - 1) \in Seq(S)
         /\ Len(SubSeq(s, 1, Len(s) - 1)) = Len(s) - 1
         /\ \A k \in 1..(Len(s) - 1) : SubSeq(s, 1, Len(s) - 1)[k] = s[k]
         /\ Len(s) \in Nat \ {0}
         /\ s[Len(s)] \in S
<1>1. Len(s) \in Nat \ {0}
  BY LenProperties, EmptySeq
<1>2. s[Len(s)] \in S
  BY <1>1, ElementOfSeq
<1>3. QED
  BY <1>1, <1>2, SubSeqProperties

LEMMA MoveToFront ==
  ASSUME lru \in Seq(Ref), NEW r \in Ref, Live(r)
  PROVE  /\ ToFront(r) \in Seq(Ref)
         /\ Len(ToFront(r)) = Len(lru)
         /\ \E k \in 1..Len(lru) :
              /\ lru[k] = r
              /\ \A m \in 1..Len(lru) :
                   ToFront(r)[m] = IF m = 1 THEN r ELSE IF m <= k THEN lru[m - 1] ELSE lru[m]
<1> DEFINE n == Len(lru)
           k == CHOOSE k \in 1..n : lru[k] = r
           left == SubSeq(lru, 1, k - 1)
           right == SubSeq(lru, k + 1, n)
<1>1. n \in Nat /\ k \in 1..n /\ lru[k] = r
  BY LenProperties DEF Live
<1>2. ToFront(r) = (<< r >> \o left) \o right
  BY DEF ToFront
<1> HIDE DEF n, k
<1>3. left \in Seq(Ref) /\ Len(left) = k - 1 /\ \A m \in 1..(k - 1) : left[m] = lru[m]
  BY <1>1, SubSeqProperties DEF n
<1>4. right \in Seq(Ref) /\ Len(right) = n - k /\ \A m \in 1..(n - k) : right[m] = lru[k + m]
  BY <1>1, SubSeqProperties DEF n
<1> HIDE DEF left, right
<1> DEFINE front == << r >> \o left
<1>5. /\ front \in Seq(Ref) /\ Len(front) = k /\ front[1] = r
      /\ \A m \in 2..k : front[m] = lru[m - 1]
  BY <1>1, <1>3, PushFront
<1> HIDE DEF front
<1>6. /\ front \o right \in Seq(Ref) /\ Len(front \o right) = n
      /\ \A m \in 1..n : (front \o right)[m] = IF m <= k THEN front[m] ELSE right[m - k]
  <2>1. /\ front \o right \in Seq(Ref)
        /\ Len(front \o right) = Len(front) + Len(right)
        /\ \A m \in 1..(Len(front) + Len(right)) :
             (front \o right)[m] = IF m <= Len(front) THEN front[m] ELSE right[m - Len(front)]
    BY <1>4, <1>5, ConcatProperties
  <2>2. Len(front) + Len(right) = n
    BY <1>1, <1>4, <1>5
  <2>3. QED
    BY <1>5, <2>1, <2>2
<1>7. \A m \in 1..n : ToFront(r)[m] = IF m = 1 THEN r ELSE IF m <= k THEN lru[m - 1] ELSE lru[m]
  BY <1>1, <1>2, <1>4, <1>5, <1>6 DEF front
<1>8. QED
  BY <1>1, <1>2, <1>6, <1>7 DEF n, front

-----------------------------------------------------------------------------
(* Type correctness: pages entering and leaving the list *)

LEMMA WokenFrameType ==
  ASSUME NEW f \in Frame, NEW ok \in BOOLEAN
  PROVE  [f EXCEPT !.on = None, !.ok = ok] \in Frame
BY DEF Frame

LEMMA FilledFrameType ==
  ASSUME NEW f \in Frame, NEW v \in Bytes
  PROVE  [f EXCEPT !.val = v] \in Frame
BY DEF Frame

LEMMA WakeType ==
  ASSUME NEW tasks \in [Task -> Frame], NEW o, NEW ok \in BOOLEAN
  PROVE  Wake(tasks, o, ok) \in [Task -> Frame]
<1>1. ASSUME NEW u \in Task
      PROVE  [tasks[u] EXCEPT !.on = None, !.ok = ok] \in Frame
  BY <1>1, WokenFrameType
<1>2. QED
  BY <1>1 DEF Wake

\* Read and write frames that insert a page.
LEMMA InsertedType ==
  ASSUME NEW f \in Frame, NEW l \in Seq(Ref), NEW r \in Ref
  PROVE  [f EXCEPT !.pc = AfterInsert(l), !.evict = Overfull(l), !.ref = r] \in Frame
<1>1. AfterInsert(l) \in Pcs
  BY DEF AfterInsert, Pcs
<1>2. Overfull(l) \in Nat
  BY LenProperties, CacheAssumption DEF Overfull
<1>3. QED
  BY <1>1, <1>2 DEF Frame

LEMMA NewPageType ==
  ASSUME NEW key \in Key, NEW v \in Bytes
  PROVE  NewPage(key, v) \in Page
  BY DEF NewPage, Page

LEMMA ReadFilledType ==
  ASSUME Base, NEW t \in Worker, ReadFilled(t)
  PROVE  TypeOK'
<1> USE DEF Base, TypeOK
<1>1. /\ t \in Task /\ task[t] \in Frame /\ t[2] \in Idx /\ KeyOf(t) \in Key
      /\ task[t].id \in Id /\ table[task[t].id] \in Entry
      /\ LeaveRead(t) \in [Id -> Entry \cup {None}]
  BY InUse, KeyInUse, LeaveReadType DEF ReadFilled, Answered
<1>2. task[t].idx \in Idx
  BY <1>1 DEF ReadFilled, Answered, Frames, FrameOf, WellFormed
<1>3. readQueue' \in [Key -> Worker \cup {None}] /\ wire' \in Seq(Task)
  BY <1>1, AnsweredType DEF ReadFilled
<1> DEFINE i == task[t].idx
           slot == IF table[task[t].id].pages[i] = None THEN FreshRef
                   ELSE table[task[t].id].pages[i]
<1>4. CASE task[t].ok /\ readQueue[KeyOf(t)] # None
  <2>1. FreshRef \in Ref
    BY <1>4, FreshRefIsFree DEF ReadFilled
  <2>2. slot \in Ref
    BY <1>1, <1>2, <2>1 DEF Entry
  <2>3. lru' \in Seq(Ref)
    <3>1. lru' = << FreshRef >> \o lru
      BY <1>4 DEF ReadFilled
    <3>2. lru \in Seq(Ref)
      OBVIOUS
    <3>3. QED
      BY <2>1, <3>1, <3>2, PushFront
  <2>4. page' \in [Ref -> Page \cup {None}]
    <3>1. NewPage(<<task[t].id, i>>, task[t].val) \in Page
      BY <1>1, <1>2, NewPageType DEF Frame, Key
    <3>2. QED
      BY <1>4, <2>1, <3>1 DEF ReadFilled
  <2>5. table' \in [Id -> Entry \cup {None}]
    <3>1. [table[task[t].id] EXCEPT !.pages[i] = slot] \in Entry
      <4> HIDE DEF i, slot
      <4> QED BY <1>1, <1>2, <2>2 DEF Entry, i
    <3>2. QED
      BY <1>1, <1>4, <3>1 DEF ReadFilled
  <2>6. task' \in [Task -> Frame] /\ running' = t
    <3> DEFINE g == [task[t] EXCEPT !.pc = AfterInsert(lru'), !.evict = Overfull(lru'),
                                    !.ref = slot, !.val = None]
    <3>1. g \in Frame
      <4> HIDE DEF slot
      <4>1. [task[t] EXCEPT !.pc = AfterInsert(lru'), !.evict = Overfull(lru'), !.ref = slot] \in Frame
        BY <1>1, <2>2, <2>3, InsertedType
      <4>2. AfterInsert(lru') \in Pcs /\ Overfull(lru') \in Nat
        BY <2>3, LenProperties, CacheAssumption DEF AfterInsert, Pcs, Overfull
      <4>3. QED
        BY <1>1, <2>2, <4>2 DEF Frame, Bytes
    <3>2. task' = Wake([task EXCEPT ![t] = g], t, TRUE) /\ running' = t
      BY <1>4 DEF ReadFilled, Keep
    <3>3. [task EXCEPT ![t] = g] \in [Task -> Frame]
      BY <1>1, <3>1
    <3>4. QED
      BY <3>2, <3>3, WakeType
  <2>7. QED
    BY <1>1, <1>3, <2>3, <2>4, <2>5, <2>6 DEF ReadFilled, fsVars
<1>5. CASE ~(task[t].ok /\ readQueue[KeyOf(t)] # None)
  <2>1. task' \in [Task -> Frame]
    <3>1. task' = Wake([task EXCEPT ![t] = Finish(t, FALSE)], t, FALSE)
      BY <1>5 DEF ReadFilled
    <3>2. [task EXCEPT ![t] = Finish(t, FALSE)] \in [Task -> Frame]
      BY <1>1, FinishType
    <3>3. QED
      BY <3>1, <3>2, WakeType
  <2>2. table' \in [Id -> Entry \cup {None}] /\ running' = None /\ UNCHANGED <<lru, page>>
    BY <1>1, <1>5 DEF ReadFilled, Yield
  <2>3. QED
    BY <1>3, <2>1, <2>2 DEF ReadFilled, fsVars
<1>6. QED
  BY <1>4, <1>5

LEMMA WriteFindType ==
  ASSUME Base, NEW t \in Worker, WriteFind(t)
  PROVE  TypeOK'
<1> USE DEF Base, TypeOK
<1>1. /\ t \in Task /\ task[t] \in Frame /\ t[2] \in Idx
      /\ task[t].id \in Id /\ table[task[t].id] \in Entry
  BY InUse DEF WriteFind, MayRun
<1>2. task[t].idx \in Idx
  <2>1. task[t].op = "write" /\ task[t].pc = "body"
    BY DEF WriteFind, InFunction, MayRun
  <2>2. QED
    BY <1>1, <2>1 DEF Frames, FrameOf, WellFormed
<1> DEFINE i == task[t].idx
           r == table[task[t].id].pages[i]
<1>3. CASE r # None
  <2>1. r \in Ref
    BY <1>1, <1>2, <1>3 DEF Entry
  <2>2. [task[t] EXCEPT !.pc = "copy", !.ref = r] \in Frame
    <3> HIDE DEF r
    <3> QED BY <1>1, <2>1 DEF Frame, Pcs
  <2>3. /\ task' = [task EXCEPT ![t] = [task[t] EXCEPT !.pc = "copy", !.ref = r]]
        /\ running' = t
        /\ UNCHANGED <<table, lru, page, readQueue, stale, fsVars, file, fds, wire, content>>
    BY <1>1, <1>3 DEF WriteFind, Keep
  <2>4. task' \in [Task -> Frame]
    BY <1>1, <2>2, <2>3
  <2>5. QED
    BY <1>1, <2>3, <2>4 DEF fsVars
<1>4. CASE r = None
  <2>1. FreshRef \in Ref
    BY <1>4, FreshRefIsFree DEF WriteFind
  <2>2. lru' \in Seq(Ref)
    <3>1. lru' = << FreshRef >> \o lru
      BY <1>4 DEF WriteFind
    <3>2. lru \in Seq(Ref)
      OBVIOUS
    <3>3. QED
      BY <2>1, <3>1, <3>2, PushFront
  <2>3. page' \in [Ref -> Page \cup {None}]
    <3>1. NewPage(<<task[t].id, i>>, None) \in Page
      BY <1>1, <1>2, NewPageType DEF Bytes, Key
    <3>2. QED
      BY <1>4, <2>1, <3>1 DEF WriteFind
  <2>4. table' \in [Id -> Entry \cup {None}]
    <3>1. [table[task[t].id] EXCEPT !.pages[i] = FreshRef] \in Entry
      BY <1>1, <1>2, <2>1 DEF Entry
    <3>2. QED
      BY <1>1, <1>4, <3>1 DEF WriteFind
  <2>5. task' \in [Task -> Frame]
    <3>1. [task[t] EXCEPT !.pc = AfterInsert(lru'), !.evict = Overfull(lru'), !.ref = FreshRef] \in Frame
      BY <1>1, <2>1, <2>2, InsertedType
    <3>2. QED
      BY <1>1, <1>4, <3>1 DEF WriteFind
  <2>6. QED
    BY <1>1, <2>2, <2>3, <2>4, <2>5 DEF WriteFind, Keep, fsVars
<1>5. QED
  BY <1>3, <1>4

LEMMA CopyPageType ==
  ASSUME Base, NEW t \in Worker, CopyPage(t)
  PROVE  TypeOK'
<1> USE DEF Base, TypeOK
<1>1. /\ t \in Task /\ task[t] \in Frame /\ t[2] \in Idx
      /\ task[t].id \in Id /\ table[task[t].id] \in Entry
      /\ LeaveRead(t) \in [Id -> Entry \cup {None}]
  BY InUse, LeaveReadType DEF CopyPage, MayRun
<1>2. task[t].idx \in Idx
  BY <1>1 DEF CopyPage, MayRun, Frames, FrameOf, WellFormed
<1> DEFINE r == task[t].ref
<1>3. r \in Ref /\ page[r] \in Page
  <2>1. PICK k \in 1..Len(lru) : lru[k] = r
    BY DEF CopyPage, IteratorValid, Live
  <2>2. r \in Ref
    BY <2>1, ElementOfSeq
  <2>3. QED
    BY <2>1, <2>2 DEF ListNodes
<1>4. lru' \in Seq(Ref)
  BY <1>3, MoveToFront DEF CopyPage, IteratorValid
<1>5. page' \in [Ref -> Page \cup {None}] /\ page'[r] \in Page
  <2>1. [page[r] EXCEPT !.val = task[t].val, !.dirty = TRUE] \in Page
    BY <1>1, <1>3 DEF Page, Frame
  <2>2. QED
    BY <1>3, <2>1 DEF CopyPage
<1>6. content' \in [Id -> [Idx -> Bytes]]
  BY <1>1, <1>2 DEF CopyPage, Frame
<1>7. task' \in [Task -> Frame]
  <2>1. page'[r].val \in Bytes
    BY <1>5 DEF Page
  <2>2. [Finish(t, TRUE) EXCEPT !.val = page'[r].val] \in Frame
    BY <1>1, <2>1, FinishType, FilledFrameType
  <2>3. QED
    BY <1>1, <2>2 DEF CopyPage
<1>8. table' \in [Id -> Entry \cup {None}]
  BY <1>1 DEF CopyPage
<1>9. QED
  BY <1>4, <1>5, <1>6, <1>7, <1>8 DEF CopyPage, Yield, fsVars

LEMMA EvictPopType ==
  ASSUME Base, NEW t \in Worker, EvictPop(t)
  PROVE  TypeOK'
<1> USE DEF Base, TypeOK
<1>1. t \in Task /\ task[t] \in Frame
  BY InUse DEF EvictPop, MayRun
<1> DEFINE r == lru[Len(lru)]
           p == page[r]
           e == table[p.key[1]]
           popped == [task[t] EXCEPT !.evict = @ - 1]
           pushing == [popped EXCEPT !.victim = p, !.fd = e.write_fd]
<1>2. lru' \in Seq(Ref) /\ r \in Ref /\ Len(lru) \in Nat \ {0}
  <2>1. lru \in Seq(Ref) /\ lru # << >> /\ lru' = SubSeq(lru, 1, Len(lru) - 1)
    BY DEF EvictPop
  <2>2. QED
    BY <2>1, PopBack
<1>3. p \in Page /\ p.key[1] \in Id /\ p.key[2] \in Idx
  <2>1. p \in Page
    BY <1>2 DEF ListNodes
  <2>2. p.key \in Key
    BY <2>1 DEF Page
  <2>3. QED
    BY <2>1, <2>2 DEF Key
<1>4. page' \in [Ref -> Page \cup {None}]
  BY <1>2 DEF EvictPop
<1>5. popped \in Frame
  <2>1. task[t].evict - 1 \in Nat
    <3>1. task[t].evict \in Nat
      BY <1>1 DEF Frame
    <3>2. task[t].evict > 0
      BY DEF EvictPop
    <3>3. QED
      BY <3>1, <3>2
  <2>2. QED
    BY <1>1, <2>1 DEF Frame
<1>6. e \in Entry \cup {None}
  BY <1>3
<1>7. CASE e = None \/ ~p.dirty
  <2>1. table' \in [Id -> Entry \cup {None}]
    <3>1. CASE e = None
      BY <1>7, <3>1 DEF EvictPop
    <3>2. CASE e # None
      <4>1. [e EXCEPT !.pages[p.key[2]] = None] \in Entry
        <5> HIDE DEF e, p
        <5> QED BY <1>3, <1>6, <3>2 DEF Entry
      <4>2. table' = [table EXCEPT ![p.key[1]].pages[p.key[2]] = None]
        BY <1>7, <3>2 DEF EvictPop
      <4>3. QED
        BY <1>3, <4>1, <4>2
    <3>3. QED
      BY <3>1, <3>2
  <2>2. task' = [task EXCEPT ![t] = popped] /\ running' = t /\ UNCHANGED <<fds, wire>>
    BY <1>7 DEF EvictPop, Keep
  <2>3. task' \in [Task -> Frame]
    <3> HIDE DEF popped
    <3> QED BY <1>1, <1>5, <2>2
  <2>4. QED
    BY <1>1, <1>2, <1>4, <2>1, <2>2, <2>3 DEF EvictPop, fsVars
<1>8. CASE e # None /\ p.dirty
  <2>1. table' \in [Id -> Entry \cup {None}]
    <3>1. [e EXCEPT !.write_inflight = @ \cup {t}] \in Entry
      <4> HIDE DEF e
      <4> QED BY <1>6, <1>8 DEF Entry
    <3>2. table' = [table EXCEPT ![p.key[1]].write_inflight = @ \cup {t}]
      BY <1>8 DEF EvictPop
    <3>3. QED
      BY <1>3, <3>1, <3>2
  <2>2. e.write_fd \in Fd \cup {None}
    <3> HIDE DEF e
    <3> QED BY <1>6, <1>8 DEF Entry
  <2>3. \A pc \in Pcs : [pushing EXCEPT !.pc = pc] \in Frame
    <3> HIDE DEF e, p, popped
    <3> QED BY <1>3, <1>5, <2>2 DEF Frame
  <2>4. task' \in [Task -> Frame] /\ fds' \in [Fd -> (Id \X Kind) \cup {None}]
        /\ wire' \in Seq(Task) /\ running' \in Task \cup {None}
    <3>1. CASE e.write_fd # None
      <4>1. task' = [task EXCEPT ![t] = [pushing EXCEPT !.pc = "enter"]] /\ running' = t
            /\ UNCHANGED <<fds, wire>>
        BY <1>8, <3>1 DEF EvictPop, Keep
      <4>2. [pushing EXCEPT !.pc = "enter"] \in Frame
        BY <2>3 DEF Pcs
      <4>3. QED
        BY <1>1, <4>1, <4>2
    <3>2. CASE e.write_fd = None
      <4>1. SendOpen(t, p.key[1], "w", [pushing EXCEPT !.pc = "evict_open"])
        BY <1>8, <3>2 DEF EvictPop
      <4>2. [pushing EXCEPT !.pc = "evict_open"] \in Frame /\ "w" \in Kind
        BY <2>3 DEF Pcs, Kind
      <4> HIDE DEF pushing
      <4>3. QED
        BY <1>1, <1>3, <4>1, <4>2, SendOpenType
    <3>3. QED
      BY <3>1, <3>2
  <2>5. QED
    BY <1>2, <1>4, <2>1, <2>4 DEF EvictPop, fsVars
<1>9. QED
  BY <1>7, <1>8

LEMMA EvictDoneType ==
  ASSUME Base, NEW t \in Worker, EvictDone(t)
  PROVE  TypeOK'
<1>1. t \in Task /\ [task[t] EXCEPT !.pc = "copy"] \in Frame
  BY InUse, PcTyped DEF EvictDone, MayRun, Pcs
<1>2. QED
  BY <1>1 DEF Base, TypeOK, EvictDone, Keep, fsVars

LEMMA EvictOpenedType ==
  ASSUME Base, NEW t \in Worker, EvictOpened(t)
  PROVE  TypeOK'
<1> USE DEF Base, TypeOK
<1>1. task[t].victim # None /\ t \in Task /\ task[t] \in Frame
  BY InUse DEF EvictOpened, Answered, Frames, FrameOf, WellFormed
<1> DEFINE id == task[t].victim.key[1]
<1>2. id \in Id /\ table[id] \in Entry
  BY <1>1, VictimInUse
<1>3. wire' \in Seq(Task) /\ running' \in Task
  BY <1>1, AnsweredType DEF EvictOpened, Keep
<1>4. table' \in [Id -> Entry \cup {None}]
  <2>1. /\ [table[id] EXCEPT !.write_fd = task[t].fd] \in Entry
        /\ [table[id] EXCEPT !.write_inflight = @ \ {t}] \in Entry
    <3>1. task[t].fd \in Fd \cup {None}
      BY <1>1 DEF Frame
    <3> HIDE DEF id
    <3>2. QED
      BY <1>2, <3>1 DEF Entry
  <2>2. QED
    BY <1>2, <2>1 DEF EvictOpened
<1>5. task' \in [Task -> Frame]
  <2>1. /\ [task[t] EXCEPT !.pc = "enter"] \in Frame
        /\ [task[t] EXCEPT !.pc = "evict", !.victim = None] \in Frame
    BY <1>1 DEF Frame, Pcs
  <2>2. QED
    BY <1>1, <2>1 DEF EvictOpened
<1>6. QED
  BY <1>3, <1>4, <1>5 DEF EvictOpened, fsVars

LEMMA EvictEraseType ==
  ASSUME Base, NEW t \in Worker, EvictErase(t)
  PROVE  TypeOK'
<1> USE DEF Base, TypeOK
<1>1. task[t].victim # None /\ t \in Task /\ task[t] \in Frame
  BY InUse DEF EvictErase, MayRun, Frames, FrameOf, WellFormed
<1> DEFINE key == task[t].victim.key
<1>2. key[1] \in Id /\ key[2] \in Idx /\ table[key[1]] \in Entry
  BY <1>1, VictimInUse
<1>3. table' \in [Id -> Entry \cup {None}]
  <2>1. [table[key[1]] EXCEPT !.write_inflight = @ \ {t}, !.pages[key[2]] = None] \in Entry
    <3> HIDE DEF key
    <3> QED BY <1>2 DEF Entry
  <2>2. QED
    BY <1>2, <2>1 DEF EvictErase
<1>4. [task[t] EXCEPT !.pc = "evict", !.victim = None, !.fd = None] \in Frame
  BY <1>1 DEF Frame, Pcs
<1>5. task' \in [Task -> Frame] /\ running' \in Task
  BY <1>1, <1>4 DEF EvictErase, Keep
<1>6. QED
  BY <1>3, <1>5 DEF EvictErase, fsVars

-----------------------------------------------------------------------------
(* Type correctness: flush_at, flush and the reaper *)

LEMMA FlushWriteType ==
  ASSUME Base, NEW t \in Worker, FlushWrite(t)
  PROVE  TypeOK'
<1> USE DEF Base, TypeOK
<1>1. t \in Task /\ task[t] \in Frame
  BY InUse DEF FlushWrite, MayRun
<1> DEFINE p == IF Evicting(t) THEN task[t].victim ELSE page[task[t].ref]
<1>2. p \in Page
  <2>1. CASE Evicting(t)
    BY <2>1, VictimInUse DEF Evicting
  <2>2. CASE ~Evicting(t)
    <3>1. PICK k \in 1..Len(lru) : lru[k] = task[t].ref
      BY <2>2 DEF FlushWrite, SubjectLive, Live
    <3>2. task[t].ref \in Ref
      BY <3>1, ElementOfSeq
    <3>3. QED
      BY <2>2, <3>1, <3>2 DEF ListNodes
  <2>3. QED
    BY <2>1, <2>2
<1>3. PICK ok \in Outcomes("write") :
        LET done == ok /\ OpenFor(task[t].fd, "w") IN
        /\ file' = IF done THEN [file EXCEPT ![fds[task[t].fd][1]][p.key[2]] = p.val] ELSE file
        /\ task' = [task EXCEPT ![t].pc = "flush_ack", ![t].ok = done]
  BY DEF FlushWrite
<1> HIDE DEF p
<1> DEFINE done == ok /\ OpenFor(task[t].fd, "w")
<1>4. file' \in [Id -> [Idx -> Bytes]]
  <2>1. CASE done
    <3>1. fds[task[t].fd][1] \in Id
      BY <2>1 DEF OpenFor
    <3>2. p.key[2] \in Idx /\ p.val \in Bytes
      BY <1>2 DEF Page, Key
    <3>3. QED
      BY <1>3, <2>1, <3>1, <3>2
  <2>2. CASE ~done
    BY <1>3, <2>2
  <2>3. QED
    BY <2>1, <2>2
<1>5. task' \in [Task -> Frame]
  <2>1. done \in BOOLEAN
    OBVIOUS
  <2>2. [task[t] EXCEPT !.pc = "flush_ack", !.ok = done] \in Frame
    <3> HIDE DEF done
    <3> QED BY <1>1, <2>1 DEF Frame, Pcs
  <2>3. QED
    BY <1>1, <1>3, <2>2
<1>6. wire' \in Seq(Task) /\ running' = None
  BY <1>1 DEF FlushWrite, Yield
<1>7. QED
  BY <1>4, <1>5, <1>6 DEF FlushWrite, fsVars

LEMMA FlushAckType ==
  ASSUME Base, NEW t \in Worker, FlushAck(t)
  PROVE  TypeOK'
<1> USE DEF Base, TypeOK
<1>1. t \in Task /\ task[t] \in Frame
  BY InUse DEF FlushAck, Answered
<1>2. page' \in [Ref -> Page \cup {None}]
  <2>1. CASE task[t].ok /\ ~Evicting(t)
    <3>1. PICK k \in 1..Len(lru) : lru[k] = task[t].ref
      BY <2>1 DEF FlushAck, SubjectLive, Live
    <3>2. task[t].ref \in Ref /\ page[task[t].ref] \in Page
      BY <3>1, ElementOfSeq DEF ListNodes
    <3>3. [page[task[t].ref] EXCEPT !.dirty = FALSE] \in Page
      BY <3>2 DEF Page
    <3>4. QED
      BY <2>1, <3>2, <3>3 DEF FlushAck
  <2>2. CASE ~(task[t].ok /\ ~Evicting(t))
    BY <2>2 DEF FlushAck
  <2>3. QED
    BY <2>1, <2>2
<1>3. [task[t] EXCEPT !.pc = AfterFlushAt(t)] \in Frame
  BY <1>1, AfterFlushAtType, PcTyped
<1>4. task' \in [Task -> Frame] /\ running' \in Task
  BY <1>1, <1>3 DEF FlushAck, Keep
<1>5. wire' \in Seq(Task)
  BY AnsweredType DEF FlushAck
<1>6. QED
  BY <1>2, <1>4, <1>5 DEF FlushAck, fsVars

LEMMA LockWriteType ==
  ASSUME Base, NEW t \in Worker, task[t].pc # "idle", NEW fd \in Fd \cup {None}
  PROVE  LockWrite(t, fd) \in [Id -> Entry \cup {None}]
<1>1. [table[task[t].id] EXCEPT !.write_fd = fd, !.write_inflight = @ \cup {t}] \in Entry
  BY InUse DEF Entry
<1>2. QED
  BY <1>1, InUse DEF LockWrite, Base, TypeOK

LEMMA FlushType ==
  ASSUME Base, NEW t \in Worker, Flush(t)
  PROVE  TypeOK'
<1> USE DEF Base, TypeOK
<1>1. t \in Task /\ task[t] \in Frame /\ task[t].id \in Id /\ task[t].pc # "idle"
      /\ table[task[t].id] \in Entry
  BY InUse DEF Flush, MayRun
<1> DEFINE e == table[task[t].id]
<1>2. CASE /\ task' = [task EXCEPT ![t] = Finish(t, TRUE)]
           /\ Yield /\ UNCHANGED <<table, fds, wire>>
  BY <1>1, <1>2, FinishType DEF Flush, Yield, fsVars
<1>3. CASE /\ table' = LockWrite(t, e.write_fd)
           /\ task' = [task EXCEPT ![t].pc = "flush_next"]
           /\ Keep(t) /\ UNCHANGED <<fds, wire>>
  <2>1. e.write_fd \in Fd \cup {None}
    BY <1>1 DEF Entry
  <2>2. [task[t] EXCEPT !.pc = "flush_next"] \in Frame
    BY <1>1, PcTyped DEF Pcs
  <2>3. table' \in [Id -> Entry \cup {None}]
    BY <1>1, <1>3, <2>1, LockWriteType
  <2>4. QED
    BY <1>1, <1>3, <2>2, <2>3 DEF Flush, Keep, fsVars
<1>4. CASE /\ SendOpen(t, task[t].id, "w", [task[t] EXCEPT !.pc = "flush_open"])
           /\ UNCHANGED table
  <2>1. [task[t] EXCEPT !.pc = "flush_open"] \in Frame /\ "w" \in Kind
    BY <1>1, PcTyped DEF Pcs, Kind
  <2>2. QED
    BY <1>1, <1>4, <2>1, SendOpenType DEF Flush, fsVars
<1>5. QED
  BY <1>2, <1>3, <1>4 DEF Flush

LEMMA FlushOpenedType ==
  ASSUME Base, NEW t \in Worker, FlushOpened(t)
  PROVE  TypeOK'
<1> USE DEF Base, TypeOK
<1>1. t \in Task /\ task[t] \in Frame /\ task[t].pc # "idle"
  BY InUse DEF FlushOpened, Answered
<1>2. task[t].fd \in Fd \cup {None}
  BY <1>1 DEF Frame
<1>3. table' \in [Id -> Entry \cup {None}]
  <2>1. LockWrite(t, task[t].fd) \in [Id -> Entry \cup {None}]
    BY <1>1, <1>2, LockWriteType
  <2>2. QED
    BY <2>1 DEF FlushOpened
<1>4. [task[t] EXCEPT !.pc = "flush_next"] \in Frame
  BY <1>1, PcTyped DEF Pcs
<1>5. task' \in [Task -> Frame] /\ running' \in Task \cup {None}
  BY <1>1, <1>4, FinishType DEF FlushOpened, Keep, Yield
<1>6. wire' \in Seq(Task)
  BY AnsweredType DEF FlushOpened
<1>7. QED
  BY <1>3, <1>5, <1>6 DEF FlushOpened, fsVars

LEMMA FlushNextType ==
  ASSUME Base, NEW t \in Worker, FlushNext(t)
  PROVE  TypeOK'
<1> USE DEF Base, TypeOK
<1>1. t \in Task /\ task[t] \in Frame /\ task[t].id \in Id /\ table[task[t].id] \in Entry
  BY InUse DEF FlushNext, MayRun
<1> DEFINE e == table[task[t].id]
<1>2. ASSUME NEW i \in Idx,
             task' = [task EXCEPT ![t] =
                  [task[t] EXCEPT !.pc = "enter", !.idx = i, !.fd = e.write_fd, !.ref = e.pages[i]]],
             Keep(t), UNCHANGED table
      PROVE  TypeOK'
  <2>1. e.write_fd \in Fd \cup {None} /\ e.pages[i] \in Ref \cup {None} /\ i \in -1..MaxIdx
    BY <1>1, CacheAssumption DEF Entry, Idx
  <2>2. [task[t] EXCEPT !.pc = "enter", !.idx = i, !.fd = e.write_fd, !.ref = e.pages[i]] \in Frame
    <3> HIDE DEF e
    <3> QED BY <1>1, <2>1 DEF Frame, Pcs
  <2>3. QED
    BY <1>1, <1>2, <2>2 DEF FlushNext, Keep, fsVars
<1>3. CASE /\ table' = [table EXCEPT ![task[t].id].write_inflight = @ \ {t},
                                     ![task[t].id].dirty = @ /\ ~task[t].ok]
           /\ task' = [task EXCEPT ![t] = Finish(t, task[t].ok)]
           /\ Yield
  <2>1. task[t].ok \in BOOLEAN
    BY <1>1 DEF Frame
  <2>2. [e EXCEPT !.write_inflight = @ \ {t}, !.dirty = @ /\ ~task[t].ok] \in Entry
    <3> DEFINE d == e.dirty /\ ~task[t].ok
    <3>1. d \in BOOLEAN
      OBVIOUS
    <3>2. [e EXCEPT !.write_inflight = @ \ {t}, !.dirty = d] \in Entry
      <4> HIDE DEF d
      <4> QED BY <1>1, <3>1 DEF Entry
    <3>3. QED
      BY <3>2
  <2>3. table' \in [Id -> Entry \cup {None}]
    BY <1>1, <1>3, <2>2
  <2>4. QED
    BY <1>1, <1>3, <2>1, <2>3, FinishType DEF FlushNext, Yield, fsVars
<1>4. QED
  BY <1>2, <1>3 DEF FlushNext

LEMMA ReapCollectType ==
  ASSUME Base, ReapCollect
  PROVE  TypeOK'
<1> USE DEF Base, TypeOK
<1>1. table' \in [Id -> Entry \cup {None}]
  <2>1. SUFFICES ASSUME NEW id \in Id, table[id] # None
                 PROVE  [table[id] EXCEPT !.read_fd = IF Reapable(id, "r") THEN None ELSE @,
                                          !.write_fd = IF Reapable(id, "w") THEN None ELSE @] \in Entry
    BY DEF ReapCollect
  <2>2. table[id] \in Entry
    BY <2>1
  <2>3. QED
    BY <2>2 DEF Entry
<1>2. stale' \in [Id -> [Kind -> Nat]]
  <2>1. SUFFICES ASSUME NEW id \in Id, NEW k \in Kind
                 PROVE  stale[id][k] - One(Reapable(id, k)) \in Nat
    BY DEF ReapCollect
  <2>2. stale[id][k] \in Nat /\ (Reapable(id, k) => stale[id][k] > 0)
    BY DEF Reapable
  <2>3. QED
    BY <2>2 DEF One
<1> DEFINE todo == {FdOf(table[x[1]], x[2]) : x \in {y \in Id \X Kind : Reapable(y[1], y[2])}}
<1>3. todo \in SUBSET Fd
  <2>1. SUFFICES ASSUME NEW x \in Id \X Kind, Reapable(x[1], x[2])
                 PROVE  FdOf(table[x[1]], x[2]) \in Fd
    OBVIOUS
  <2>2. table[x[1]] \in Entry /\ FdOf(table[x[1]], x[2]) # None
    BY <2>1 DEF Reapable
  <2>3. QED
    BY <2>2 DEF FdOf, Entry
<1>4. [Idle EXCEPT !.pc = "reap", !.todo = todo] \in Frame
  <2> HIDE DEF todo
  <2> QED BY <1>3, IdleFrame DEF Frame, Pcs
<1>5. task' \in [Task -> Frame] /\ running' \in Task
  BY <1>4 DEF ReapCollect, Keep, Task
<1>6. QED
  BY <1>1, <1>2, <1>5 DEF ReapCollect, fsVars

LEMMA ReapTypes ==
  ASSUME Base, ReapClose \/ ReapClosed \/ ReapSweep
  PROVE  TypeOK'
<1> USE DEF Base, TypeOK
<1>1. Reaper \in Task /\ task[Reaper] \in Frame
  BY DEF Task
<1>2. CASE ReapClose
  <2>1. PICK f \in task[Reaper].todo :
          /\ fds' = [fds EXCEPT ![f] = None]
          /\ task' = [task EXCEPT ![Reaper].pc = "reap_wait", ![Reaper].todo = @ \ {f}]
    BY <1>2 DEF ReapClose
  <2>2. fds' \in [Fd -> (Id \X Kind) \cup {None}]
    BY <1>1, <2>1 DEF Frame
  <2>3. [task[Reaper] EXCEPT !.pc = "reap_wait", !.todo = @ \ {f}] \in Frame
    BY <1>1 DEF Frame, Pcs
  <2>4. task' \in [Task -> Frame]
    BY <1>1, <2>1, <2>3
  <2>5. wire' = Append(wire, Reaper) /\ running' = None
    BY <1>2 DEF ReapClose, Yield
  <2>6. wire' \in Seq(Task)
    BY <1>1, <2>5, AppendProperties
  <2>7. QED
    BY <1>2, <2>2, <2>4, <2>5, <2>6 DEF ReapClose, fsVars
<1>3. CASE ReapClosed
  <2>1. [task[Reaper] EXCEPT !.pc = "reap"] \in Frame
    BY <1>1, PcTyped DEF Pcs
  <2>2. wire' \in Seq(Task)
    BY <1>3, AnsweredType DEF ReapClosed
  <2>3. task' \in [Task -> Frame] /\ running' \in Task
    BY <1>1, <1>3, <2>1 DEF ReapClosed, Keep
  <2>4. QED
    BY <1>3, <2>2, <2>3 DEF ReapClosed, fsVars
<1>4. CASE ReapSweep
  <2>1. task' \in [Task -> Frame] /\ running' = None
    BY <1>1, <1>4, IdleFrame DEF ReapSweep, Yield
  <2>2. table' \in [Id -> Entry \cup {None}]
    BY <1>4 DEF ReapSweep
  <2>3. QED
    BY <1>4, <2>1, <2>2 DEF ReapSweep, fsVars
<1>5. QED
  BY <1>2, <1>3, <1>4

\* Every step keeps the types.
LEMMA TypeStep ==
  ASSUME Base, [Next]_vars
  PROVE  TypeOK'
<1>1. ASSUME NEW c \in Client, ClientStep(c)
      PROVE  TypeOK'
  <2>1. \A v \in Val : v \in Bytes
    BY DEF Bytes
  <2>2. None \in Bytes
    BY DEF Bytes
  <2>3. QED
    BY <1>1, <2>1, <2>2, OpenType, BeginType, EndIOType, BeginFlushType, EndFlushType, ReleaseType
    DEF ClientStep
<1>2. ASSUME NEW t \in Worker, PageStep(t)
      PROVE  TypeOK'
  BY <1>2, EnterType, WokenType, ReadFindType, ReadOpenedType, ReadFetchType, ReadFilledType,
     WriteFindType, CopyPageType DEF PageStep
<1>3. ASSUME NEW t \in Worker, FlushStep(t)
      PROVE  TypeOK'
  BY <1>3, EvictPopType, EvictDoneType, EvictOpenedType, EvictEraseType, FlushWriteType,
     FlushAckType, FlushType, FlushOpenedType, FlushNextType DEF FlushStep
<1>4. ASSUME NEW t \in Worker, Dangle(t)
      PROVE  TypeOK'
  BY <1>4 DEF Base, TypeOK, Dangle, fsVars
<1>5. ASSUME ReaperStep
      PROVE  TypeOK'
  BY <1>5, ReapCollectType, ReapTypes DEF ReaperStep
<1>6. CASE UNCHANGED vars
  BY <1>6 DEF Base, TypeOK, vars, fsVars
<1>7. QED
  BY <1>1, <1>2, <1>3, <1>4, <1>5, <1>6 DEF Next, FileStep


=============================================================================
