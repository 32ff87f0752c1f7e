------------------------- MODULE CacheAlone_proofs -------------------------
(***************************************************************************)
(* Module Cache under one caller whose requests stay within a page, between *)
(* two runs of the reaper: no iterator dangles, the list matches the table, *)
(* nothing a write stored is lost and nothing fails without the device.     *)
(* For every number of files and pages, every m_max_pages and all values.   *)
(***************************************************************************)
EXTENDS Cache_proofs

-----------------------------------------------------------------------------
(* Hypotheses *)

\* One FUSE caller, whose requests cover one page each: one read_at, write_at or flush
\* runs at a time.
Alone == MaxSpan = 1 /\ \A c, d \in Client : c = d

\* The device never refuses an open: it has a descriptor for every file and direction.
OpensSucceed ==
  "open" \notin Failures /\ IsFiniteSet(Id) /\ 2 * Cardinality(Id) <= MaxFd

-----------------------------------------------------------------------------
(* The inductive invariant *)

\* At most one frame is in use.
OneFrame == \A t, u \in Worker : task[t].pc # "idle" /\ task[u].pc # "idle" => t = u

FdAt(id, k) == IF table[id] = None THEN None ELSE FdOf(table[id], k)

\* Every open descriptor is in its entry, or is on its way there and has the place free.
FdsFound ==
  /\ \A f \in Fd, id \in Id, k \in Kind : fds[f] = <<id, k>> =>
       FdAt(id, k) = f \/ \E t \in Worker : Opening(t) /\ task[t].fd = f
  /\ \A t \in Worker, id \in Id, k \in Kind :
       Opening(t) /\ OpenedAs(t) = <<id, k>> => FdAt(id, k) = None

\* The list node entry.pages holds for a page.
Slot(id, i) == IF table[id] = None THEN None ELSE table[id].pages[i]

\* The page t works on, and the page evict took out of the list.
Own(t)       == Slot(task[t].id, task[t].idx)
VictimOn(t, id, i) == Evicting(t) /\ task[t].victim.key = <<id, i>>
Leaving(id, i)     == \E t \in Worker : VictimOn(t, id, i)

\* The list and the table describe the same pages, in every state: a slot is that of a
\* list node, or of a page that is being evicted.
Matched ==
  /\ \A id \in Id, i \in Idx, r \in Ref :
       /\ Live(r) /\ page[r].key = <<id, i>> => Slot(id, i) = r
       /\ Slot(id, i) = r => (Live(r) /\ page[r].key = <<id, i>>) \/ (~Live(r) /\ Leaving(id, i))
       /\ Slot(id, i) = r /\ Leaving(id, i) => ~Live(r)
  /\ \A id \in Id, i \in Idx : Leaving(id, i) => Slot(id, i) # None

\* t has the iterators of a page it will copy, or of the page flush_at works on.
Holding(t) ==
  \/ task[t].pc \in {"copy", "evict"} \/ Evicting(t)
  \/ task[t].op = "flush" /\ task[t].pc \in {"enter", "body", "flush_ack"}

\* What a frame knows of the list and the table.
Knows(t) ==
  /\ task[t].pc # "wait"
  /\ Holding(t) => Live(task[t].ref) /\ Own(t) = task[t].ref
  /\ task[t].pc = "evict" /\ task[t].evict > 0 => lru[1] = task[t].ref
  /\ task[t].pc \in {"read_open", "fetch", "fill"} => Own(t) = None
  /\ task[t].pc = "fetch" => FdAt(task[t].id, "r") # None
  /\ task[t].pc = "fill" => readQueue[<<task[t].id, task[t].idx>>] # None
  /\ task[t].pc \in {"read_open", "flush_open", "evict_open"} => task[t].ok
  /\ task[t].pc = "flush_next" /\ task[t].idx >= 0 => Own(t) = task[t].ref
  /\ task[t].pc \in {"flush", "flush_open"} => task[t].idx = -1

Shape == OneFrame /\ FdsFound /\ Matched /\ \A t \in Worker : Knows(t)

\* An entry the next flush writes back.
DirtyEntry(id) == table[id] # None /\ table[id].dirty

\* t is about to replace the bytes of its page, which may have none yet.
Writing(t, id, i) ==
  task[t].op = "write" /\ Holding(t) /\ task[t].id = id /\ task[t].idx = i
Awaited(id, i) == \E t \in Worker : Writing(t, id, i)

\* A page no write is about to replace: a dirty one is known to the next flush, a clean
\* one has the bytes of the device.
Good(id, i, r) ==
  /\ page[r].dirty => DirtyEntry(id)
  /\ ~page[r].dirty => page[r].val = file[id][i]

Settled(id, i) == \A r \in Ref : Slot(id, i) = r => Live(r) /\ ~page[r].dirty

Tidy ==
  \A id \in Id, i \in Idx, r \in Ref :
    Slot(id, i) = r /\ Live(r) /\ ~Awaited(id, i) => Good(id, i, r)

\* What a frame knows of the device's bytes and of the pages flush has passed.
Carries(t) ==
  /\ \A id \in Id, i \in Idx : task[t].id = id /\ task[t].idx = i =>
       /\ task[t].pc = "fill" /\ task[t].ok => task[t].val = file[id][i]
       /\ task[t].pc = "flush_ack" /\ task[t].op = "flush" /\ task[t].ok =>
            \A r \in Ref : Slot(id, i) = r => page[r].val = file[id][i]
       /\ task[t].pc = "flush_next" /\ task[t].ok => Settled(id, i)
  /\ \A id \in Id : task[t].id = id =>
       /\ task[t].op = "write" /\ task[t].pc \notin {"idle", "done"} => DirtyEntry(id)
       /\ task[t].op = "flush" /\ task[t].pc \in {"enter", "body", "flush_ack", "flush_next"} =>
            \A i \in Idx : i < task[t].idx => Settled(id, i)

Clean == Tidy /\ \A t \in Worker : Carries(t)

\* What a reader is shown is what the writes define: a page that is not cached is on the
\* device, a cached one that no write is about to replace has the bytes.
Stored ==
  \A id \in Id, i \in Idx : Slot(id, i) = None => file[id][i] = content[id][i]
Shown ==
  \A id \in Id, i \in Idx, r \in Ref :
    Slot(id, i) = r /\ Live(r) /\ ~Awaited(id, i) => page[r].val = content[id][i]

\* The page evict took out of the list has the bytes, until the device has them.
Rescued(t) ==
  \A id \in Id, i \in Idx : VictimOn(t, id, i) =>
    /\ task[t].victim.val = content[id][i]
    /\ task[t].pc \in {"flush_ack", "evict_erase"} => file[id][i] = content[id][i]

Exact == Stored /\ Shown /\ \A t \in Worker : Rescued(t)

\* Nothing has failed.
AllWell == \A t \in Worker : task[t].ok

-----------------------------------------------------------------------------
(* What each step does to the slots and to the dirty flags of the entries *)

SameSlots == \A id \in Id, i \in Idx : Slot(id, i)' = Slot(id, i)
SameDirty == \A id \in Id : DirtyEntry(id)' <=> DirtyEntry(id)

NewSlot(id, i) == IF table'[id] = None THEN None ELSE table'[id].pages[i]

SetSlot(id, i, r) ==
  /\ NewSlot(id, i) = r
  /\ \A k \in Id, j \in Idx : k # id \/ j # i => Slot(k, j)' = Slot(k, j)

LEMMA EntryViews ==
  ASSUME Base, NEW id \in Id, table[id] # None, NEW g \in Entry,
         table' = [table EXCEPT ![id] = g]
  PROVE  /\ \A i \in Idx : Slot(id, i)' = g.pages[i] /\ Slot(id, i) = table[id].pages[i]
         /\ \A k \in Id, i \in Idx : k # id => Slot(k, i)' = Slot(k, i)
         /\ DirtyEntry(id)' <=> g.dirty
         /\ DirtyEntry(id) <=> table[id].dirty
         /\ \A k \in Id : k # id => (DirtyEntry(k)' <=> DirtyEntry(k))
<1>1. table'[id] = g /\ g # None /\ \A k \in Id : k # id => table'[k] = table[k]
  BY CacheAssumption DEF Base, TypeOK
<1>2. ASSUME NEW i \in Idx
      PROVE  Slot(id, i)' = g.pages[i] /\ Slot(id, i) = table[id].pages[i]
  BY <1>1 DEF Slot
<1>3. ASSUME NEW k \in Id, NEW i \in Idx, k # id
      PROVE  Slot(k, i)' = Slot(k, i)
  BY <1>1, <1>3 DEF Slot
<1>4. (DirtyEntry(id)' <=> g.dirty) /\ (DirtyEntry(id) <=> table[id].dirty)
  BY <1>1 DEF DirtyEntry
<1>5. ASSUME NEW k \in Id, k # id
      PROVE  DirtyEntry(k)' <=> DirtyEntry(k)
  BY <1>1, <1>5 DEF DirtyEntry
<1>6. QED
  BY <1>2, <1>3, <1>4, <1>5

LEMMA SameViews ==
  ASSUME table' = table
  PROVE  SameSlots /\ SameDirty
BY DEF SameSlots, SameDirty, Slot, DirtyEntry

\* An entry changes, its pages and its dirty flag do not.
LEMMA OtherFields ==
  ASSUME Base, NEW id \in Id, table[id] # None, NEW g \in Entry,
         table' = [table EXCEPT ![id] = g],
         g.pages = table[id].pages, g.dirty = table[id].dirty
  PROVE  SameSlots /\ SameDirty
<1>1. /\ \A i \in Idx : Slot(id, i)' = g.pages[i] /\ Slot(id, i) = table[id].pages[i]
      /\ \A k \in Id, i \in Idx : k # id => Slot(k, i)' = Slot(k, i)
      /\ DirtyEntry(id)' <=> g.dirty
      /\ DirtyEntry(id) <=> table[id].dirty
      /\ \A k \in Id : k # id => (DirtyEntry(k)' <=> DirtyEntry(k))
  BY EntryViews
<1>2. SameSlots
  BY <1>1 DEF SameSlots
<1>3. DirtyEntry(id)' <=> DirtyEntry(id)
  BY <1>1
<1>4. SameDirty
  BY <1>1, <1>3 DEF SameDirty
<1>5. QED
  BY <1>2, <1>4

LEMMA ReadMarkViews ==
  ASSUME Base, NEW t \in Worker, NEW id \in Id, table[id] # None,
         \/ table' = [table EXCEPT ![id].read_inflight = @ \cup {t}]
         \/ table' = [table EXCEPT ![id].read_inflight = @ \ {t}]
  PROVE  SameSlots /\ SameDirty
<1> DEFINE e == table[id]
<1>1. e \in Entry
  BY DEF Base, TypeOK
<1>2. ASSUME NEW S \in SUBSET Worker, table' = [table EXCEPT ![id].read_inflight = S]
      PROVE  SameSlots /\ SameDirty
  <2> DEFINE g == [e EXCEPT !.read_inflight = S]
  <2>1. table' = [table EXCEPT ![id] = g]
    BY <1>2 DEF Base, TypeOK
  <2>2. g \in Entry /\ g.pages = e.pages /\ g.dirty = e.dirty
    <3> HIDE DEF e
    <3> QED BY <1>1 DEF Entry
  <2> HIDE DEF g
  <2>3. QED
    BY <2>1, <2>2, OtherFields
<1>3. e.read_inflight \cup {t} \in SUBSET Worker /\ e.read_inflight \ {t} \in SUBSET Worker
  <2> HIDE DEF e
  <2> QED BY <1>1 DEF Entry
<1>4. QED
  BY <1>2, <1>3

LEMMA WriteMarkViews ==
  ASSUME Base, NEW t \in Worker, NEW id \in Id, table[id] # None,
         \/ table' = [table EXCEPT ![id].write_inflight = @ \cup {t}]
         \/ table' = [table EXCEPT ![id].write_inflight = @ \ {t}]
  PROVE  SameSlots /\ SameDirty
<1> DEFINE e == table[id]
<1>1. e \in Entry
  BY DEF Base, TypeOK
<1>2. ASSUME NEW S \in SUBSET Worker, table' = [table EXCEPT ![id].write_inflight = S]
      PROVE  SameSlots /\ SameDirty
  <2> DEFINE g == [e EXCEPT !.write_inflight = S]
  <2>1. table' = [table EXCEPT ![id] = g]
    BY <1>2 DEF Base, TypeOK
  <2>2. g \in Entry /\ g.pages = e.pages /\ g.dirty = e.dirty
    <3> HIDE DEF e
    <3> QED BY <1>1 DEF Entry
  <2> HIDE DEF g
  <2>3. QED
    BY <2>1, <2>2, OtherFields
<1>3. e.write_inflight \cup {t} \in SUBSET Worker /\ e.write_inflight \ {t} \in SUBSET Worker
  <2> HIDE DEF e
  <2> QED BY <1>1 DEF Entry
<1>4. QED
  BY <1>2, <1>3

LEMMA LeaveReadViews ==
  ASSUME Base, NEW t \in Worker, task[t].pc # "idle", table' = LeaveRead(t)
  PROVE  SameSlots /\ SameDirty
<1>1. task[t].id \in Id /\ table[task[t].id] # None
  BY InUse, CacheAssumption
<1>2. QED
  BY <1>1, ReadMarkViews DEF LeaveRead

\* A slot of pages changes and nothing else does.
LEMMA SlotViews ==
  ASSUME Base, NEW id \in Id, table[id] # None, NEW i \in Idx, NEW r \in Ref \cup {None},
         table' = [table EXCEPT ![id].pages[i] = r]
  PROVE  SetSlot(id, i, r) /\ SameDirty
<1> DEFINE e == table[id]
           g == [e EXCEPT !.pages[i] = r]
<1>1. e \in Entry
  BY DEF Base, TypeOK
<1>2. table' = [table EXCEPT ![id] = g]
  BY DEF Base, TypeOK
<1>3. /\ g \in Entry /\ g.dirty = e.dirty /\ g.pages[i] = r
      /\ \A j \in Idx : j # i => g.pages[j] = e.pages[j]
  <2> HIDE DEF e
  <2> QED BY <1>1 DEF Entry
<1> HIDE DEF g
<1>4. /\ \A j \in Idx : Slot(id, j)' = g.pages[j] /\ Slot(id, j) = e.pages[j]
      /\ \A k \in Id, j \in Idx : k # id => Slot(k, j)' = Slot(k, j)
      /\ DirtyEntry(id)' <=> g.dirty
      /\ DirtyEntry(id) <=> e.dirty
      /\ \A k \in Id : k # id => (DirtyEntry(k)' <=> DirtyEntry(k))
  BY <1>2, <1>3, EntryViews
<1> HIDE DEF e
<1>5. SetSlot(id, i, r)
  <2>1. Slot(id, i)' = NewSlot(id, i)
    BY DEF Slot, NewSlot
  <2>2. QED
    BY <1>3, <1>4, <2>1 DEF SetSlot
<1>6. DirtyEntry(id)' <=> DirtyEntry(id)
  BY <1>3, <1>4
<1>7. SameDirty
  BY <1>4, <1>6 DEF SameDirty
<1>8. QED
  BY <1>5, <1>7

-----------------------------------------------------------------------------
(* What each step does to what the invariant speaks of *)

\* The outcome and the bytes a frame carries stay.
SameResult(t) == task'[t].ok = task[t].ok /\ task'[t].val = task[t].val

SameData == UNCHANGED <<lru, page, file, content>>

LEMMA EnterEffect ==
  ASSUME Base, NEW t \in Worker, Enter(t), readQueue[KeyOf(t)] = None
  PROVE  /\ task'[t].pc = "body" /\ SameResult(t) /\ SameSlots /\ SameDirty /\ SameData
         /\ UNCHANGED <<fds, readQueue>>
<1>1. t \in Task /\ task \in [Task -> Frame] /\ task[t] \in Frame
  BY DEF Base, TypeOK, Task
<1>2. task'[t] = [task[t] EXCEPT !.pc = "body"]
  BY <1>1 DEF Enter
<1>3. task'[t].pc = "body" /\ SameResult(t)
  BY <1>1, <1>2 DEF SameResult, Frame
<1>4. UNCHANGED <<lru, page, file, content, fds, readQueue>>
  BY DEF Enter
<1>5. task[t].pc # "idle"
  BY DEF Enter, MayRun
<1>6. task[t].id \in Id /\ table[task[t].id] # None
  BY <1>5, InUse, CacheAssumption
<1>7. \/ table' = [table EXCEPT ![task[t].id].read_inflight = @ \cup {t}]
      \/ table' = table
  BY DEF Enter
<1>8. SameSlots /\ SameDirty
  BY <1>6, <1>7, ReadMarkViews, SameViews
<1>9. QED
  BY <1>3, <1>4, <1>8 DEF SameData

\* The page t works on is in the entry the frame names.
LEMMA OwnSlot ==
  ASSUME Base, NEW t \in Worker, task[t].pc # "idle"
  PROVE  /\ task[t].id \in Id /\ table[task[t].id] # None /\ table[task[t].id] \in Entry
         /\ Own(t) = table[task[t].id].pages[task[t].idx]
         /\ FdAt(task[t].id, "r") = table[task[t].id].read_fd
         /\ FdAt(task[t].id, "w") = table[task[t].id].write_fd
<1>1. task[t].id \in Id /\ table[task[t].id] \in Entry /\ table[task[t].id] # None
  BY InUse, CacheAssumption
<1>2. QED
  BY <1>1 DEF Own, Slot, FdAt, FdOf

\* A frame that requests an open; the request succeeds if the device may not refuse it
\* and has a descriptor left.
LEMMA RequestOutcome ==
  ASSUME TypeOK, NEW t \in Task, NEW id, NEW kind, NEW frame \in Frame,
         SendOpen(t, id, kind, frame)
  PROVE  /\ task'[t].pc = frame.pc /\ task'[t].val = frame.val
         /\ "open" \notin Failures /\ FreeFds # {} => task'[t].ok
<1>1. PICK o \in Outcomes("open") :
        LET opened == o /\ FreeFds # {} IN
        task' = [task EXCEPT ![t] =
          [frame EXCEPT !.ok = opened, !.fd = IF opened THEN FreshFd ELSE None]]
  BY DEF SendOpen
<1> DEFINE ok == o /\ FreeFds # {}
           fd == IF ok THEN FreshFd ELSE None
<1>2. task'[t] = [frame EXCEPT !.ok = ok, !.fd = fd]
  BY <1>1 DEF TypeOK
<1>3. "open" \notin Failures /\ FreeFds # {} => ok
  BY DEF Outcomes
<1>4. ok \in BOOLEAN
  OBVIOUS
<1> HIDE DEF ok, fd
<1>5. task'[t].ok = ok /\ task'[t].pc = frame.pc /\ task'[t].val = frame.val
  BY <1>2, <1>4 DEF Frame
<1>6. QED
  BY <1>3, <1>5

LEMMA ReadFindEffect ==
  ASSUME Base, NEW t \in Worker, ReadFind(t)
  PROVE  /\ table' = table /\ SameData /\ UNCHANGED readQueue
         /\ \/ /\ task'[t].pc = "copy" /\ task'[t].ref = Own(t) /\ Own(t) # None
               /\ SameResult(t) /\ fds' = fds
            \/ /\ task'[t].pc = "fetch" /\ Own(t) = None /\ FdAt(task[t].id, "r") # None
               /\ SameResult(t) /\ fds' = fds
            \/ /\ task'[t].pc = "read_open" /\ Own(t) = None /\ FdAt(task[t].id, "r") = None
               /\ SendOpen(t, task[t].id, "r", [task[t] EXCEPT !.pc = "read_open"])
<1>1. t \in Task /\ task \in [Task -> Frame] /\ task[t] \in Frame
  BY DEF Base, TypeOK, Task
<1>2. task[t].pc # "idle"
  BY DEF ReadFind, MayRun
<1> DEFINE r == table[task[t].id].pages[task[t].idx]
           fd == table[task[t].id].read_fd
<1>3. r = Own(t) /\ fd = FdAt(task[t].id, "r")
  BY <1>2, OwnSlot
<1>4. \/ r # None /\ task'[t] = [task[t] EXCEPT !.pc = "copy", !.ref = r] /\ fds' = fds
      \/ r = None /\ fd # None /\ task'[t] = [task[t] EXCEPT !.pc = "fetch"] /\ fds' = fds
      \/ r = None /\ fd = None /\ SendOpen(t, task[t].id, "r", [task[t] EXCEPT !.pc = "read_open"])
  BY <1>1 DEF ReadFind
<1>5. SameData /\ table' = table /\ UNCHANGED readQueue
  BY DEF ReadFind, SameData
<1> HIDE DEF r, fd
<1>6. CASE r # None /\ task'[t] = [task[t] EXCEPT !.pc = "copy", !.ref = r] /\ fds' = fds
  <2>1. task'[t].pc = "copy" /\ task'[t].ref = r /\ SameResult(t)
    BY <1>1, <1>6 DEF SameResult, Frame
  <2>2. QED
    BY <1>3, <1>5, <1>6, <2>1
<1>7. CASE r = None /\ fd # None /\ task'[t] = [task[t] EXCEPT !.pc = "fetch"] /\ fds' = fds
  <2>1. task'[t].pc = "fetch" /\ SameResult(t)
    BY <1>1, <1>7 DEF SameResult, Frame
  <2>2. QED
    BY <1>3, <1>5, <1>7, <2>1
<1>8. CASE r = None /\ fd = None /\ SendOpen(t, task[t].id, "r", [task[t] EXCEPT !.pc = "read_open"])
  <2>1. task'[t].pc = "read_open"
    <3> DEFINE f == [task[t] EXCEPT !.pc = "read_open"]
    <3>1. f \in Frame
      BY <1>1, PcTyped DEF Pcs
    <3>2. f.pc = "read_open"
      BY <1>1 DEF Frame
    <3>3. SendOpen(t, task[t].id, "r", f)
      BY <1>8
    <3> HIDE DEF f
    <3>4. QED
      BY <1>1, <3>1, <3>2, <3>3, RequestOutcome DEF Base
  <2>2. QED
    BY <1>3, <1>5, <1>8, <2>1
<1>9. QED
  BY <1>4, <1>6, <1>7, <1>8

\* An fd that is stored in an entry leaves its pages and its dirty flag alone.
LEMMA FdViews ==
  ASSUME Base, NEW id \in Id, table[id] # None, NEW fd \in Fd \cup {None},
         \/ table' = [table EXCEPT ![id].read_fd = fd]
         \/ table' = [table EXCEPT ![id].write_fd = fd]
  PROVE  SameSlots /\ SameDirty
<1> DEFINE e == table[id]
<1>1. e \in Entry
  BY DEF Base, TypeOK
<1>2. CASE table' = [table EXCEPT ![id].read_fd = fd]
  <2> DEFINE g == [e EXCEPT !.read_fd = fd]
  <2>1. table' = [table EXCEPT ![id] = g]
    BY <1>2 DEF Base, TypeOK
  <2>2. g \in Entry /\ g.pages = e.pages /\ g.dirty = e.dirty
    <3> HIDE DEF e
    <3> QED BY <1>1 DEF Entry
  <2> HIDE DEF g
  <2>3. QED
    BY <2>1, <2>2, OtherFields
<1>3. CASE table' = [table EXCEPT ![id].write_fd = fd]
  <2> DEFINE g == [e EXCEPT !.write_fd = fd]
  <2>1. table' = [table EXCEPT ![id] = g]
    BY <1>3 DEF Base, TypeOK
  <2>2. g \in Entry /\ g.pages = e.pages /\ g.dirty = e.dirty
    <3> HIDE DEF e
    <3> QED BY <1>1 DEF Entry
  <2> HIDE DEF g
  <2>3. QED
    BY <2>1, <2>2, OtherFields
<1>4. QED
  BY <1>2, <1>3

LEMMA ReadOpenedEffect ==
  ASSUME Base, NEW t \in Worker, ReadOpened(t), task[t].ok
  PROVE  /\ task'[t].pc = "fetch" /\ SameResult(t) /\ SameSlots /\ SameDirty /\ SameData
         /\ UNCHANGED <<fds, readQueue>>
<1>1. t \in Task /\ task \in [Task -> Frame] /\ task[t] \in Frame /\ task[t].fd \in Fd \cup {None}
  BY FdTyped DEF Base, TypeOK
<1>2. task'[t] = [task[t] EXCEPT !.pc = "fetch", !.fd = None]
  BY <1>1 DEF ReadOpened
<1>3. task'[t].pc = "fetch" /\ SameResult(t)
  BY <1>1, <1>2 DEF SameResult, Frame
<1>4. task[t].pc # "idle"
  BY DEF ReadOpened, Answered
<1>5. task[t].id \in Id /\ table[task[t].id] # None
  BY <1>4, OwnSlot
<1>6. table' = [table EXCEPT ![task[t].id].read_fd = task[t].fd]
  BY DEF ReadOpened
<1>7. SameSlots /\ SameDirty
  BY <1>1, <1>5, <1>6, FdViews
<1>8. UNCHANGED <<lru, page, file, content, fds, readQueue>>
  BY DEF ReadOpened
<1>9. QED
  BY <1>3, <1>7, <1>8 DEF SameData

\* With a valid fd the bytes fetched are those of the page on the device.
LEMMA ReadFetchEffect ==
  ASSUME Base, FdsValid, NEW t \in Worker, ReadFetch(t), FdAt(task[t].id, "r") # None
  PROVE  /\ task'[t].pc = "fill" /\ table' = table /\ SameData /\ fds' = fds
         /\ readQueue'[<<task[t].id, task[t].idx>>] # None
         /\ task'[t].ok => task'[t].val = file[task[t].id][task[t].idx]
         /\ Failures = {} => task'[t].ok
<1>1. t \in Task /\ task \in [Task -> Frame] /\ task[t] \in Frame
  BY DEF Base, TypeOK, Task
<1>2. task[t].pc = "fetch" /\ task[t].pc # "idle"
  BY DEF ReadFetch, MayRun
<1> DEFINE id == task[t].id
           fd == table[task[t].id].read_fd
<1>3. id \in Id /\ fd \in Fd /\ fds[fd] = <<id, "r">>
  <2>1. id \in Id /\ table[id] # None /\ fd # None
    BY <1>2, OwnSlot
  <2>2. QED
    BY <2>1, TableTyped DEF FdsValid
<1>4. OpenFor(fd, "r") /\ fds[fd][1] = id
  BY <1>3, CacheAssumption DEF OpenFor, Kind
<1>5. PICK o \in Outcomes("read") :
        task' = [task EXCEPT ![t] =
          [task[t] EXCEPT !.pc = "fill", !.ok = o /\ OpenFor(fd, "r"),
                          !.val = IF o /\ OpenFor(fd, "r") THEN file[fds[fd][1]][task[t].idx] ELSE None]]
  BY DEF ReadFetch
<1> DEFINE ok == o /\ OpenFor(fd, "r")
           v  == IF o /\ OpenFor(fd, "r") THEN file[fds[fd][1]][task[t].idx] ELSE None
<1>6. task'[t] = [task[t] EXCEPT !.pc = "fill", !.ok = ok, !.val = v]
  BY <1>1, <1>5
<1>7. (ok => v = file[id][task[t].idx]) /\ ok \in BOOLEAN /\ (Failures = {} => ok)
  BY <1>4 DEF Outcomes
<1> HIDE DEF ok, v
<1>8. task'[t].pc = "fill" /\ task'[t].ok = ok /\ task'[t].val = v
  BY <1>1, <1>6 DEF Frame
<1>9. KeyOf(t) \in Key /\ KeyOf(t) = <<task[t].id, task[t].idx>>
  <2>1. task[t].victim = None
    BY <1>2 DEF Base, Victims
  <2>2. QED
    BY <1>2, <2>1, KeyInUse DEF KeyOf
<1>10. readQueue'[<<task[t].id, task[t].idx>>] # None
  <2>1. t # None
    BY <1>1, CacheAssumption
  <2>2. readQueue \in [Key -> Worker \cup {None}]
    BY DEF Base, TypeOK
  <2>3. readQueue' = IF readQueue[KeyOf(t)] = None
                     THEN [readQueue EXCEPT ![KeyOf(t)] = t] ELSE readQueue
    BY DEF ReadFetch
  <2>4. readQueue'[KeyOf(t)] # None
    BY <1>9, <2>1, <2>2, <2>3
  <2>5. QED
    BY <1>9, <2>4
<1>11. SameData /\ table' = table /\ fds' = fds
  BY DEF ReadFetch, SameData
<1>12. QED
  BY <1>7, <1>8, <1>10, <1>11

-----------------------------------------------------------------------------
(* Steps that change the list *)

SameLive == \A r \in Ref : Live(r)' <=> Live(r)

LEMMA SameLiveList ==
  ASSUME lru' = lru
  PROVE  SameLive
BY DEF SameLive, Live

\* A new node r for page i of file id is at the front of the list and in its slot.
Inserted(id, i, r, v) ==
  /\ r \in Ref /\ ~Live(r) /\ lru'[1] = r
  /\ \A q \in Ref : Live(q)' <=> Live(q) \/ q = r
  /\ page'[r].key = <<id, i>> /\ page'[r].val = v /\ page'[r].dirty = FALSE
  /\ \A q \in Ref : q # r => page'[q] = page[q]
  /\ SetSlot(id, i, r) /\ SameDirty

LEMMA InsertEffect ==
  ASSUME Base, FreeRefs # {}, lru' = << FreshRef >> \o lru, NEW id \in Id, NEW i \in Idx, NEW v,
         page' = [page EXCEPT ![FreshRef] = NewPage(<<id, i>>, v)],
         table[id] # None, table' = [table EXCEPT ![id].pages[i] = FreshRef]
  PROVE  Inserted(id, i, FreshRef, v)
<1>1. FreshRef \in Ref /\ ~Live(FreshRef) /\ lru \in Seq(Ref) /\ page \in [Ref -> Page \cup {None}]
  BY FreshRefIsFree DEF Base, TypeOK
<1> DEFINE r == FreshRef
           p == NewPage(<<id, i>>, v)
<1> HIDE DEF r
<1>2. /\ Len(lru') = Len(lru) + 1 /\ lru'[1] = r /\ Len(lru) \in Nat
      /\ \A k \in 2..(Len(lru) + 1) : lru'[k] = lru[k - 1]
  BY <1>1, PushFront, LenProperties DEF r
<1>3. ASSUME NEW q \in Ref
      PROVE  Live(q)' <=> Live(q) \/ q = r
  <2>1. ASSUME Live(q)'
        PROVE  Live(q) \/ q = r
    <3>1. PICK k \in 1..Len(lru') : lru'[k] = q
      BY <2>1 DEF Live
    <3>2. CASE k = 1
      BY <1>2, <3>1, <3>2
    <3>3. CASE k # 1
      <4>1. k - 1 \in 1..Len(lru) /\ lru[k - 1] = q
        BY <1>2, <3>1, <3>3
      <4>2. QED
        BY <4>1 DEF Live
    <3>4. QED
      BY <3>2, <3>3
  <2>2. ASSUME q = r
        PROVE  Live(q)'
    <3>1. 1 \in 1..Len(lru') /\ lru'[1] = q
      BY <1>2, <2>2
    <3>2. QED
      BY <3>1 DEF Live
  <2>3. ASSUME Live(q)
        PROVE  Live(q)'
    <3>1. PICK k \in 1..Len(lru) : lru[k] = q
      BY <2>3 DEF Live
    <3>2. k + 1 \in 1..Len(lru') /\ lru'[k + 1] = q
      BY <1>2, <3>1
    <3>3. QED
      BY <3>2 DEF Live
  <2>4. QED
    BY <2>1, <2>2, <2>3
<1>4. p.key = <<id, i>> /\ p.val = v /\ p.dirty = FALSE
  BY DEF NewPage
<1>5. page'[r] = p /\ \A q \in Ref : q # r => page'[q] = page[q]
  BY <1>1 DEF r
<1>6. SetSlot(id, i, r) /\ SameDirty
  BY <1>1, SlotViews DEF r
<1> HIDE DEF p
<1>7. Inserted(id, i, r, v)
  BY <1>1, <1>2, <1>3, <1>4, <1>5, <1>6 DEF Inserted, r
<1>8. QED
  BY <1>7 DEF r

\* The bytes arrive, and the page gets a node and its slot.
LEMMA ReadFilledEffect ==
  ASSUME Base, NEW t \in Worker, ReadFilled(t), Own(t) = None,
         readQueue[<<task[t].id, task[t].idx>>] # None
  PROVE  /\ UNCHANGED <<file, content, fds>>
         /\ IF task[t].ok
            THEN /\ Inserted(task[t].id, task[t].idx, task'[t].ref, task[t].val) /\ task'[t].ok
                 /\ task[t].idx \in Idx
            ELSE SameSlots /\ SameDirty /\ SameData
<1>1. t \in Task /\ task \in [Task -> Frame] /\ task[t] \in Frame
  BY DEF Base, TypeOK, Task
<1>2. task[t].pc = "fill" /\ task[t].pc # "idle"
  BY DEF ReadFilled, Answered
<1>3. KeyOf(t) = <<task[t].id, task[t].idx>>
  <2>1. task[t].victim = None
    BY <1>2 DEF Base, Victims
  <2>2. QED
    BY <2>1 DEF KeyOf
<1>4. /\ task[t].id \in Id /\ table[task[t].id] # None
      /\ table[task[t].id].pages[task[t].idx] = None
  BY <1>2, OwnSlot
<1>5. task[t].idx \in Idx
  BY <1>2, InUse DEF Base, Frames, FrameOf, WellFormed
<1>6. UNCHANGED <<file, content, fds>>
  BY DEF ReadFilled
<1>7. CASE task[t].ok
  <2>1. /\ FreeRefs # {} /\ lru' = << FreshRef >> \o lru
        /\ page' = [page EXCEPT ![FreshRef] = NewPage(<<task[t].id, task[t].idx>>, task[t].val)]
        /\ table' = [table EXCEPT ![task[t].id].pages[task[t].idx] = FreshRef]
    BY <1>3, <1>4, <1>7 DEF ReadFilled
  <2> DEFINE pc == AfterInsert(lru')
             n  == Overfull(lru')
             fr == FreshRef
             g  == [task[t] EXCEPT !.pc = pc, !.evict = n, !.ref = fr, !.val = None]
  <2>2. task' = Wake([task EXCEPT ![t] = g], t, TRUE)
    BY <1>3, <1>4, <1>7 DEF ReadFilled
  <2>3. task'[t] = IF g.on = t THEN [g EXCEPT !.on = None, !.ok = TRUE] ELSE g
    BY <1>1, <2>2 DEF Wake
  <2> HIDE DEF pc, n, fr
  <2>4. task'[t].ref = fr /\ task'[t].ok
    <3>1. g.ref = fr /\ g.ok = task[t].ok
      BY <1>1 DEF Frame
    <3>2. CASE g.on = t
      <4>1. task'[t] = [g EXCEPT !.on = None, !.ok = TRUE]
        BY <2>3, <3>2
      <4>2. QED
        BY <1>1, <4>1 DEF Frame
    <3>3. CASE g.on # t
      BY <1>7, <2>3, <3>1, <3>3
    <3>4. QED
      BY <3>2, <3>3
  <2>5. Inserted(task[t].id, task[t].idx, FreshRef, task[t].val)
    BY <1>4, <1>5, <2>1, InsertEffect
  <2>6. QED
    BY <1>5, <1>6, <1>7, <2>4, <2>5 DEF fr
<1>8. CASE ~task[t].ok
  <2>1. table' = LeaveRead(t) /\ UNCHANGED <<lru, page>>
    BY <1>8 DEF ReadFilled
  <2>2. QED
    BY <1>2, <1>6, <1>8, <2>1, LeaveReadViews DEF SameData
<1>9. QED
  BY <1>7, <1>8

LEMMA WriteFindEffect ==
  ASSUME Base, NEW t \in Worker, WriteFind(t)
  PROVE  /\ UNCHANGED <<file, content, fds, readQueue>> /\ SameResult(t)
         /\ task[t].idx \in Idx
         /\ IF Own(t) # None
            THEN task'[t].ref = Own(t) /\ table' = table /\ SameData
            ELSE Inserted(task[t].id, task[t].idx, task'[t].ref, None)
<1>1. t \in Task /\ task \in [Task -> Frame] /\ task[t] \in Frame
  BY DEF Base, TypeOK, Task
<1>2. task[t].pc = "body" /\ task[t].op = "write" /\ task[t].pc # "idle"
  BY DEF WriteFind, MayRun, InFunction
<1>3. /\ task[t].id \in Id /\ table[task[t].id] # None
      /\ table[task[t].id].pages[task[t].idx] = Own(t)
  BY <1>2, OwnSlot
<1>4. task[t].idx \in Idx
  BY <1>2, InUse DEF Base, Frames, FrameOf, WellFormed
<1>5. UNCHANGED <<file, content, fds, readQueue>>
  BY DEF WriteFind
<1>6. CASE Own(t) # None
  <2> DEFINE r == table[task[t].id].pages[task[t].idx]
  <2>1. task'[t] = [task[t] EXCEPT !.pc = "copy", !.ref = r]
    BY <1>1, <1>3, <1>6 DEF WriteFind
  <2>2. r = Own(t)
    BY <1>3
  <2>3. table' = table /\ UNCHANGED <<lru, page>>
    BY <1>3, <1>6 DEF WriteFind
  <2> HIDE DEF r
  <2>4. task'[t].ref = r /\ SameResult(t)
    BY <1>1, <2>1 DEF SameResult, Frame
  <2>5. QED
    BY <1>4, <1>5, <1>6, <2>2, <2>3, <2>4 DEF SameData
<1>7. CASE Own(t) = None
  <2>1. /\ FreeRefs # {} /\ lru' = << FreshRef >> \o lru
        /\ page' = [page EXCEPT ![FreshRef] = NewPage(<<task[t].id, task[t].idx>>, None)]
        /\ table' = [table EXCEPT ![task[t].id].pages[task[t].idx] = FreshRef]
    BY <1>3, <1>7 DEF WriteFind
  <2> DEFINE pc == AfterInsert(lru')
             n  == Overfull(lru')
             r  == FreshRef
  <2>2. task'[t] = [task[t] EXCEPT !.pc = pc, !.evict = n, !.ref = r]
    BY <1>1, <1>3, <1>7 DEF WriteFind
  <2> HIDE DEF pc, n, r
  <2>3. task'[t].ref = r /\ SameResult(t)
    BY <1>1, <2>2 DEF SameResult, Frame
  <2>4. Inserted(task[t].id, task[t].idx, FreshRef, None)
    BY <1>3, <1>4, <2>1, InsertEffect
  <2>5. QED
    BY <1>4, <1>5, <1>7, <2>3, <2>4 DEF r
<1>8. QED
  BY <1>6, <1>7

LEMMA MoveLive ==
  ASSUME Base, NEW r \in Ref, Live(r), lru' = ToFront(r)
  PROVE  SameLive
<1> DEFINE n == Len(lru)
<1>1. PICK k \in 1..n :
        /\ lru[k] = r
        /\ \A m \in 1..n : lru'[m] = IF m = 1 THEN r ELSE IF m <= k THEN lru[m - 1] ELSE lru[m]
  BY MoveToFront DEF Base, TypeOK
<1>2. n \in Nat /\ Len(lru') = n
  BY MoveToFront, LenProperties DEF Base, TypeOK
<1> HIDE DEF n
<1>3. ASSUME NEW q \in Ref, Live(q)'
      PROVE  Live(q)
  <2>1. PICK m \in 1..n : lru'[m] = q
    BY <1>2, <1>3 DEF Live
  <2>2. \/ q = r
        \/ m - 1 \in 1..n /\ q = lru[m - 1]
        \/ q = lru[m]
    BY <1>1, <1>2, <2>1
  <2>3. QED
    BY <2>2 DEF Live, n
<1>4. ASSUME NEW q \in Ref, Live(q)
      PROVE  Live(q)'
  <2>1. PICK j \in 1..n : lru[j] = q
    BY <1>4 DEF Live, n
  <2>2. CASE j = k
    <3>1. 1 \in 1..n /\ lru'[1] = q
      BY <1>1, <1>2, <2>1, <2>2
    <3>2. QED
      BY <1>2, <3>1 DEF Live
  <2>3. CASE j < k
    <3>1. j + 1 \in 1..n /\ lru'[j + 1] = q
      BY <1>1, <1>2, <2>1, <2>3
    <3>2. QED
      BY <1>2, <3>1 DEF Live
  <2>4. CASE j > k
    <3>1. lru'[j] = q
      BY <1>1, <1>2, <2>1, <2>4
    <3>2. QED
      BY <1>2, <2>1, <3>1 DEF Live
  <2>5. QED
    BY <1>1, <2>1, <2>2, <2>3, <2>4
<1>5. QED
  BY <1>3, <1>4 DEF SameLive

\* Page r now holds v and is dirty.
Rewritten(r, v) ==
  /\ page'[r].key = page[r].key /\ page'[r].val = v /\ page'[r].dirty = TRUE
  /\ \A q \in Ref : q # r => page'[q] = page[q]

\* The value of page i of file id is v in f', and nothing else changed.
SetValue(f, g, id, i, v) ==
  /\ g[id][i] = v
  /\ \A k \in Id, j \in Idx : k # id \/ j # i => g[k][j] = f[k][j]

LEMMA ValueSet ==
  ASSUME NEW f \in [Id -> [Idx -> Bytes]], NEW id \in Id, NEW i \in Idx, NEW v,
         NEW g, g = [f EXCEPT ![id][i] = v]
  PROVE  SetValue(f, g, id, i, v)
BY DEF SetValue

LEMMA CopyPageEffect ==
  ASSUME Base, NEW t \in Worker, CopyPage(t)
  PROVE  /\ SameLive /\ SameSlots /\ SameDirty /\ UNCHANGED <<file, fds, readQueue>>
         /\ task'[t].ok /\ task[t].idx \in Idx /\ task[t].id \in Id /\ task[t].ref \in Ref
         /\ IF task[t].op = "write"
            THEN /\ Rewritten(task[t].ref, task[t].val)
                 /\ SetValue(content, content', task[t].id, task[t].idx, task[t].val)
            ELSE UNCHANGED <<page, content>>
<1>1. t \in Task /\ task \in [Task -> Frame] /\ task[t] \in Frame
  BY DEF Base, TypeOK, Task
<1>2. task[t].pc = "copy" /\ task[t].pc # "idle"
  BY DEF CopyPage, MayRun
<1> DEFINE r == task[t].ref
<1>3. Live(r) /\ r \in Ref /\ page[r] \in Page
  <2>1. Live(r)
    BY DEF CopyPage, IteratorValid
  <2>2. PICK k \in 1..Len(lru) : lru[k] = r
    BY <2>1 DEF Live
  <2>3. lru \in Seq(Ref) /\ page \in [Ref -> Page \cup {None}]
    BY DEF Base, TypeOK
  <2>4. r \in Ref
    BY <2>2, <2>3, ElementOfSeq
  <2>5. page[r] # None
    BY <2>2 DEF Base, ListNodes
  <2>6. QED
    BY <2>1, <2>3, <2>4, <2>5
<1>4. lru' = ToFront(r) /\ UNCHANGED <<file, fds, readQueue>>
  BY DEF CopyPage
<1>5. SameLive
  BY <1>3, <1>4, MoveLive
<1>6. task[t].id \in Id /\ task[t].idx \in Idx
  BY <1>2, InUse DEF Base, Frames, FrameOf, WellFormed
<1>7. SameSlots /\ SameDirty
  <2>1. table' = table \/ table' = LeaveRead(t)
    BY DEF CopyPage
  <2>2. QED
    BY <1>2, <2>1, SameViews, LeaveReadViews
<1>8. task'[t].ok
  <2> DEFINE v == page'[r].val
  <2>1. task'[t] = [Finish(t, TRUE) EXCEPT !.val = v]
    BY <1>1 DEF CopyPage
  <2> HIDE DEF v
  <2>2. QED
    BY <2>1 DEF Finish, Idle
<1>9. CASE task[t].op = "write"
  <2> DEFINE p == page[r]
             g == [p EXCEPT !.val = task[t].val, !.dirty = TRUE]
  <2>1. page' = [page EXCEPT ![r] = g]
    <3>1. page' = [page EXCEPT ![r].val = task[t].val, ![r].dirty = TRUE]
      BY <1>9 DEF CopyPage
    <3>2. page \in [Ref -> Page \cup {None}]
      BY DEF Base, TypeOK
    <3>3. QED
      BY <1>3, <3>1, <3>2 DEF Page
  <2>2. g.key = p.key /\ g.val = task[t].val /\ g.dirty = TRUE
    <3> HIDE DEF p, r
    <3>1. p \in Page
      BY <1>3 DEF p
    <3>2. QED
      BY <3>1 DEF Page
  <2> HIDE DEF g
  <2>3. page'[r] = g /\ \A q \in Ref : q # r => page'[q] = page[q]
    BY <1>3, <2>1 DEF Base, TypeOK
  <2>4. Rewritten(r, task[t].val)
    BY <2>2, <2>3 DEF Rewritten
  <2>5. content' = [content EXCEPT ![task[t].id][task[t].idx] = task[t].val]
    BY <1>9 DEF CopyPage
  <2>6. SetValue(content, content', task[t].id, task[t].idx, task[t].val)
    <3>1. content \in [Id -> [Idx -> Bytes]]
      BY DEF Base, TypeOK
    <3>2. QED
      BY <1>6, <2>5, <3>1 DEF SetValue
  <2>7. QED
    BY <1>3, <1>4, <1>5, <1>6, <1>7, <1>8, <1>9, <2>4, <2>6
<1>10. CASE task[t].op # "write"
  <2>1. UNCHANGED <<page, content>>
    BY <1>10 DEF CopyPage
  <2>2. QED
    BY <1>3, <1>4, <1>5, <1>6, <1>7, <1>8, <1>10, <2>1
<1>11. QED
  BY <1>9, <1>10

\* The node at the back leaves the list.
Popped(r) ==
  /\ r \in Ref /\ Live(r) /\ r = lru[Len(lru)]
  /\ \A q \in Ref : Live(q)' <=> Live(q) /\ q # r
  /\ \A q \in Ref : q # r => page'[q] = page[q]

LEMMA PopEffect ==
  ASSUME Base, NEW t \in Worker, EvictPop(t)
  PROVE  Popped(lru[Len(lru)])
<1>1. /\ lru \in Seq(Ref) /\ Len(lru) \in Nat \ {0} /\ lru[Len(lru)] \in Ref
      /\ lru' = SubSeq(lru, 1, Len(lru) - 1) /\ lru # << >>
      /\ page' = [page EXCEPT ![lru[Len(lru)]] = None] /\ page \in [Ref -> Page \cup {None}]
  BY LastPage DEF EvictPop, Base, TypeOK
<1> DEFINE n == Len(lru)
           r == lru[n]
<1>2. /\ Len(lru') = n - 1 /\ n \in Nat \ {0} /\ n \in 1..n
      /\ \A k \in 1..(n - 1) : lru'[k] = lru[k]
  BY <1>1, PopBack
<1>3. \A k, m \in 1..n : lru[k] = lru[m] => k = m
  BY DEF Base, ListNodes
<1>4. \A q \in Ref : q # r => page'[q] = page[q]
  BY <1>1
<1>5. Live(r)
  BY <1>2 DEF Live
<1> HIDE DEF n
<1>6. ASSUME NEW q \in Ref, Live(q)'
      PROVE  Live(q) /\ q # r
  <2>1. PICK k \in 1..(n - 1) : lru'[k] = q
    BY <1>2, <1>6 DEF Live
  <2>2. k \in 1..n /\ lru[k] = q /\ k # n
    BY <1>2, <2>1
  <2>3. Live(q)
    BY <2>2 DEF Live, n
  <2>4. QED
    BY <1>2, <1>3, <2>2, <2>3
<1>7. ASSUME NEW q \in Ref, Live(q), q # r
      PROVE  Live(q)'
  <2>1. PICK k \in 1..n : lru[k] = q
    BY <1>7 DEF Live, n
  <2>2. k \in 1..(n - 1)
    BY <1>2, <1>7, <2>1
  <2>3. k \in 1..Len(lru') /\ lru'[k] = q
    BY <1>2, <2>1, <2>2
  <2>4. QED
    BY <2>3 DEF Live
<1>8. QED
  BY <1>1, <1>4, <1>5, <1>6, <1>7 DEF Popped, n

\* A clean page leaves its slot with the node; a dirty one keeps it while it is written.
LEMMA EvictPopEffect ==
  ASSUME Base, NEW t \in Worker, EvictPop(t), table[Last.key[1]] # None
  PROVE  /\ UNCHANGED <<file, content, readQueue>> /\ SameDirty
         /\ IF Last.dirty
            THEN /\ SameSlots
                 /\ IF FdAt(Last.key[1], "w") # None THEN fds' = fds /\ SameResult(t)
                    ELSE "open" \notin Failures /\ FreeFds # {} => task'[t].ok
            ELSE SetSlot(Last.key[1], Last.key[2], None) /\ fds' = fds /\ SameResult(t)
<1>1. t \in Task /\ task \in [Task -> Frame] /\ task[t] \in Frame
  BY DEF Base, TypeOK, Task
<1>2. task[t].pc = "evict" /\ task[t].evict > 0
  BY DEF EvictPop, MayRun
<1> DEFINE id == Last.key[1]
           e == table[id]
           n == task[t].evict - 1
           w == e.write_fd
<1>3. n \in Nat
  BY <1>1, <1>2 DEF Frame
<1>4. id \in Id /\ Last.key[2] \in Idx /\ Last \in Page /\ e \in Entry
  BY LastPage
<1>5. FdAt(id, "w") = w
  BY DEF FdAt, FdOf
<1>6. UNCHANGED <<file, content, readQueue>>
  BY DEF EvictPop
<1>7. CASE ~Last.dirty
  <2>1. /\ task'[t] = [task[t] EXCEPT !.evict = n] /\ fds' = fds
        /\ table' = [table EXCEPT ![id].pages[Last.key[2]] = None]
    BY <1>1, <1>7 DEF EvictPop, Last
  <2>2. SetSlot(id, Last.key[2], None) /\ SameDirty
    BY <1>4, <2>1, SlotViews
  <2> HIDE DEF n
  <2>3. SameResult(t)
    BY <1>1, <2>1 DEF SameResult, Frame
  <2>4. QED
    BY <1>6, <1>7, <2>1, <2>2, <2>3
<1>8. CASE Last.dirty
  <2>1. table' = [table EXCEPT ![id].write_inflight = @ \cup {t}]
    BY <1>8 DEF EvictPop, Last
  <2>2. SameSlots /\ SameDirty
    BY <1>4, <2>1, WriteMarkViews
  <2> DEFINE push(pc) == [task[t] EXCEPT !.evict = n, !.victim = Last, !.fd = w, !.pc = pc]
  <2>3. w \in Fd \cup {None}
    <3> HIDE DEF e
    <3> QED BY <1>4 DEF Entry
  <2>4. \A pc : [[[task[t] EXCEPT !.evict = @ - 1] EXCEPT !.victim = Last, !.fd = w] EXCEPT !.pc = pc] = push(pc)
    <3> HIDE DEF w
    <3> QED BY <1>1 DEF Frame
  <2>5. CASE w # None
    <3>1. task'[t] = push("enter") /\ fds' = fds
      BY <1>1, <1>8, <2>4, <2>5 DEF EvictPop, Last
    <3> HIDE DEF n, w
    <3>2. SameResult(t)
      BY <1>1, <3>1 DEF SameResult, Frame
    <3>3. QED
      BY <1>5, <1>6, <1>8, <2>2, <2>5, <3>1, <3>2
  <2>6. CASE w = None
    <3>1. SendOpen(t, id, "w", push("evict_open"))
      BY <1>8, <2>4, <2>6 DEF EvictPop, Last
    <3>2. push("evict_open") \in Frame
      <4>1. "evict_open" \in Pcs
        BY DEF Pcs
      <4> HIDE DEF n, w
      <4>2. QED
        BY <1>1, <1>3, <1>4, <2>3, <4>1 DEF Frame
    <3> HIDE DEF push
    <3>3. "open" \notin Failures /\ FreeFds # {} => task'[t].ok
      BY <1>1, <3>1, <3>2, RequestOutcome DEF Base
    <3>4. QED
      BY <1>5, <1>6, <1>8, <2>2, <2>6, <3>3
  <2>7. QED
    BY <2>5, <2>6
<1>9. QED
  BY <1>7, <1>8

LEMMA EvictDoneEffect ==
  ASSUME Base, NEW t \in Worker, EvictDone(t)
  PROVE  /\ table' = table /\ SameResult(t) /\ SameData /\ UNCHANGED <<fds, readQueue>>
<1>1. t \in Task /\ task \in [Task -> Frame] /\ task[t] \in Frame
  BY DEF Base, TypeOK, Task
<1>2. task'[t] = [task[t] EXCEPT !.pc = "copy"]
  BY <1>1 DEF EvictDone
<1>3. SameResult(t)
  BY <1>1, <1>2 DEF SameResult, Frame
<1>4. QED
  BY <1>3 DEF EvictDone, SameData

LEMMA EvictOpenedEffect ==
  ASSUME Base, NEW t \in Worker, EvictOpened(t), task[t].ok
  PROVE  /\ SameResult(t) /\ SameSlots /\ SameDirty /\ SameData /\ UNCHANGED <<fds, readQueue>>
<1>1. t \in Task /\ task \in [Task -> Frame] /\ task[t] \in Frame /\ task[t].fd \in Fd \cup {None}
  BY FdTyped DEF Base, TypeOK
<1>2. task'[t] = [task[t] EXCEPT !.pc = "enter"]
  BY <1>1 DEF EvictOpened
<1>3. SameResult(t)
  BY <1>1, <1>2 DEF SameResult, Frame
<1>4. task[t].victim # None
  BY DEF EvictOpened, Answered, Base, Frames, FrameOf, WellFormed
<1>5. task[t].victim.key[1] \in Id /\ table[task[t].victim.key[1]] # None
  BY <1>4, VictimInUse, CacheAssumption
<1>6. table' = [table EXCEPT ![task[t].victim.key[1]].write_fd = task[t].fd]
  BY DEF EvictOpened
<1>7. SameSlots /\ SameDirty
  BY <1>1, <1>5, <1>6, FdViews
<1>8. QED
  BY <1>3, <1>7 DEF EvictOpened, SameData

LEMMA EvictEraseEffect ==
  ASSUME Base, NEW t \in Worker, EvictErase(t)
  PROVE  /\ SameResult(t) /\ SameDirty /\ SameData /\ UNCHANGED <<fds, readQueue>>
         /\ SetSlot(task[t].victim.key[1], task[t].victim.key[2], None)
<1>1. t \in Task /\ task \in [Task -> Frame] /\ task[t] \in Frame
  BY DEF Base, TypeOK, Task
<1>2. task'[t] = [task[t] EXCEPT !.pc = "evict", !.victim = None, !.fd = None]
  BY <1>1 DEF EvictErase
<1>3. SameResult(t)
  BY <1>1, <1>2 DEF SameResult, Frame
<1>4. task[t].victim # None
  BY DEF EvictErase, MayRun, Base, Frames, FrameOf, WellFormed
<1>5. PICK id \in Id, i \in Idx : id = task[t].victim.key[1] /\ i = task[t].victim.key[2]
  BY <1>4, VictimInUse
<1> DEFINE e == table[id]
           g == [e EXCEPT !.write_inflight = e.write_inflight \ {t}, !.pages[i] = None]
<1>6. e \in Entry /\ e # None
  BY <1>4, <1>5, VictimInUse, CacheAssumption
<1>7. table' = [table EXCEPT ![id] = g]
  <2>1. table \in [Id -> Entry \cup {None}]
    BY DEF Base, TypeOK
  <2>2. [[e EXCEPT !.write_inflight = @ \ {t}] EXCEPT !.pages[i] = None] = g
    <3> HIDE DEF e
    <3> QED BY <1>6 DEF Entry
  <2> HIDE DEF g
  <2>3. QED
    BY <1>5, <1>6, <2>1, <2>2 DEF EvictErase
<1>8. /\ g \in Entry /\ g.dirty = e.dirty /\ g.pages[i] = None
      /\ \A j \in Idx : j # i => g.pages[j] = e.pages[j]
  <2> HIDE DEF e
  <2> QED BY <1>6 DEF Entry
<1> HIDE DEF g
<1>9. /\ \A j \in Idx : Slot(id, j)' = g.pages[j] /\ Slot(id, j) = e.pages[j]
      /\ \A k \in Id, j \in Idx : k # id => Slot(k, j)' = Slot(k, j)
      /\ DirtyEntry(id)' <=> g.dirty
      /\ DirtyEntry(id) <=> e.dirty
      /\ \A k \in Id : k # id => (DirtyEntry(k)' <=> DirtyEntry(k))
  BY <1>6, <1>7, <1>8, EntryViews
<1> HIDE DEF e
<1>10. SetSlot(id, i, None)
  <2>1. Slot(id, i)' = NewSlot(id, i)
    BY DEF Slot, NewSlot
  <2>2. QED
    BY <1>8, <1>9, <2>1 DEF SetSlot
<1>11. DirtyEntry(id)' <=> DirtyEntry(id)
  BY <1>8, <1>9
<1>12. SameDirty
  BY <1>9, <1>11 DEF SameDirty
<1>13. QED
  BY <1>3, <1>5, <1>10, <1>12 DEF EvictErase, SameData

\* The page flush_at writes back.
Subject(t) == IF Evicting(t) THEN task[t].victim ELSE page[task[t].ref]

LEMMA FlushWriteEffect ==
  ASSUME Base, FdsValid, NEW t \in Worker, FlushWrite(t), FlushedFile(t) \in Id,
         Subject(t).key[2] \in Idx
  PROVE  /\ UNCHANGED <<table, lru, page, content, fds, readQueue>>
         /\ "write" \notin Failures => task'[t].ok
         /\ IF task'[t].ok
            THEN SetValue(file, file', FlushedFile(t), Subject(t).key[2], Subject(t).val)
            ELSE file' = file
<1>1. t \in Task /\ task \in [Task -> Frame] /\ task[t] \in Frame /\ task[t].fd \in Fd \cup {None}
  BY FdTyped DEF Base, TypeOK
<1>2. task[t].pc = "body" /\ InFunction(t) = "flush"
  BY DEF FlushWrite, MayRun
<1>3. task[t].fd # None /\ fds[task[t].fd] = <<FlushedFile(t), "w">>
  BY <1>2 DEF FdsValid, InFlushAt
<1>4. OpenFor(task[t].fd, "w") /\ fds[task[t].fd][1] = FlushedFile(t)
  <2>1. <<FlushedFile(t), "w">> # None
    BY CacheAssumption DEF Kind
  <2>2. QED
    BY <1>1, <1>3, <2>1 DEF OpenFor
<1> DEFINE p == Subject(t)
<1>5. PICK o \in Outcomes("write") :
        LET done == o /\ OpenFor(task[t].fd, "w") IN
        /\ file' = IF done THEN [file EXCEPT ![fds[task[t].fd][1]][p.key[2]] = p.val] ELSE file
        /\ task' = [task EXCEPT ![t].pc = "flush_ack", ![t].ok = done]
  BY DEF FlushWrite, Subject
<1> DEFINE ok == o /\ OpenFor(task[t].fd, "w")
<1>6. ok \in BOOLEAN /\ ("write" \notin Failures => ok)
  BY <1>4 DEF Outcomes
<1>7. task'[t] = [task[t] EXCEPT !.pc = "flush_ack", !.ok = ok]
  BY <1>1, <1>5
<1>8. file' = IF ok THEN [file EXCEPT ![FlushedFile(t)][p.key[2]] = p.val] ELSE file
  BY <1>4, <1>5
<1> HIDE DEF ok, p
<1>9. task'[t].ok = ok
  BY <1>1, <1>7 DEF Frame
<1>10. ok => SetValue(file, file', FlushedFile(t), p.key[2], p.val)
  <2>1. file \in [Id -> [Idx -> Bytes]]
    BY DEF Base, TypeOK
  <2>2. p.key[2] \in Idx
    BY DEF p
  <2>3. QED
    BY <1>8, <2>1, <2>2 DEF SetValue
<1>11. QED
  BY <1>6, <1>8, <1>9, <1>10 DEF FlushWrite, p

\* The page r is clean, and nothing else changed.
Cleaned(r) ==
  /\ page'[r].key = page[r].key /\ page'[r].val = page[r].val /\ page'[r].dirty = FALSE
  /\ \A q \in Ref : q # r => page'[q] = page[q]

LEMMA FlushAckEffect ==
  ASSUME Base, NEW t \in Worker, FlushAck(t)
  PROVE  /\ UNCHANGED <<table, lru, file, content, fds, readQueue>> /\ SameResult(t)
         /\ IF task[t].ok /\ ~Evicting(t) THEN Cleaned(task[t].ref) ELSE page' = page
<1>1. t \in Task /\ task \in [Task -> Frame] /\ task[t] \in Frame
  BY DEF Base, TypeOK, Task
<1> DEFINE pc == AfterFlushAt(t)
<1>2. task'[t] = [task[t] EXCEPT !.pc = pc]
  BY <1>1 DEF FlushAck
<1> HIDE DEF pc
<1>3. SameResult(t)
  BY <1>1, <1>2 DEF SameResult, Frame
<1>4. CASE task[t].ok /\ ~Evicting(t)
  <2> DEFINE r == task[t].ref
             p == page[r]
             g == [p EXCEPT !.dirty = FALSE]
  <2>1. Live(r)
    BY <1>4 DEF FlushAck, SubjectLive
  <2>2. PICK k \in 1..Len(lru) : lru[k] = r
    BY <2>1 DEF Live
  <2>3. lru \in Seq(Ref) /\ page \in [Ref -> Page \cup {None}]
    BY DEF Base, TypeOK
  <2>4. r \in Ref /\ p \in Page
    BY <2>2, <2>3, ElementOfSeq DEF Base, ListNodes
  <2>5. page' = [page EXCEPT ![r] = g]
    BY <1>4, <2>3, <2>4 DEF FlushAck
  <2>6. g.key = p.key /\ g.val = p.val /\ g.dirty = FALSE
    <3> HIDE DEF p
    <3> QED BY <2>4 DEF Page
  <2> HIDE DEF g
  <2>7. page'[r] = g /\ \A q \in Ref : q # r => page'[q] = page[q]
    BY <2>3, <2>4, <2>5
  <2>8. Cleaned(r)
    BY <2>6, <2>7 DEF Cleaned
  <2>9. QED
    BY <1>3, <1>4, <2>8 DEF FlushAck
<1>5. CASE ~(task[t].ok /\ ~Evicting(t))
  BY <1>3, <1>5 DEF FlushAck
<1>6. QED
  BY <1>4, <1>5

LEMMA LockWriteViews ==
  ASSUME Base, NEW t \in Worker, task[t].pc # "idle", NEW fd \in Fd \cup {None},
         table' = LockWrite(t, fd)
  PROVE  SameSlots /\ SameDirty
<1>1. PICK id \in Id : id = task[t].id /\ table[id] \in Entry
  BY InUse
<1> DEFINE e == table[id]
           g == [e EXCEPT !.write_fd = fd, !.write_inflight = e.write_inflight \cup {t}]
<1>2. table' = [table EXCEPT ![id] = g]
  <2>1. table \in [Id -> Entry \cup {None}]
    BY DEF Base, TypeOK
  <2>2. [[e EXCEPT !.write_fd = fd] EXCEPT !.write_inflight = @ \cup {t}] = g
    <3> HIDE DEF e
    <3> QED BY <1>1 DEF Entry, e
  <2> HIDE DEF g
  <2>3. QED
    BY <1>1, <2>1, <2>2 DEF LockWrite
<1>3. g \in Entry /\ g.pages = e.pages /\ g.dirty = e.dirty
  <2>1. e \in Entry
    BY <1>1
  <2> HIDE DEF e
  <2>2. QED
    BY <2>1 DEF Entry
<1> HIDE DEF g
<1>4. table[id] # None
  BY <1>1, CacheAssumption
<1>5. QED
  BY <1>2, <1>3, <1>4, OtherFields

LEMMA FlushEffect ==
  ASSUME Base, NEW t \in Worker, Flush(t)
  PROVE  /\ SameSlots /\ SameDirty /\ SameData /\ UNCHANGED readQueue
         /\ \/ task'[t].pc = "done" /\ task'[t].ok
            \/ task'[t].pc = "flush_next" /\ SameResult(t)
            \/ /\ task'[t].pc = "flush_open" /\ FdAt(task[t].id, "w") = None
               /\ "open" \notin Failures /\ FreeFds # {} => task'[t].ok
<1>1. t \in Task /\ task \in [Task -> Frame] /\ task[t] \in Frame
  BY DEF Base, TypeOK, Task
<1>2. task[t].pc # "idle"
  BY DEF Flush, MayRun
<1> DEFINE e == table[task[t].id]
<1>3. e \in Entry /\ FdAt(task[t].id, "w") = e.write_fd
  BY <1>2, OwnSlot
<1>4. e.write_fd \in Fd \cup {None}
  <2> HIDE DEF e
  <2> QED BY <1>3 DEF Entry
<1>5. SameData /\ UNCHANGED readQueue
  BY DEF Flush, SameData
<1>6. CASE e = None \/ ~e.dirty
  <2>1. task'[t] = Finish(t, TRUE) /\ table' = table
    BY <1>1, <1>6 DEF Flush
  <2>2. task'[t].pc = "done" /\ task'[t].ok
    BY <2>1 DEF Finish, Idle
  <2>3. QED
    BY <1>5, <2>1, <2>2, SameViews
<1>7. CASE e # None /\ e.dirty /\ e.write_fd # None
  <2>1. task'[t] = [task[t] EXCEPT !.pc = "flush_next"] /\ table' = LockWrite(t, e.write_fd)
    BY <1>1, <1>7 DEF Flush
  <2>2. task'[t].pc = "flush_next" /\ SameResult(t)
    BY <1>1, <2>1 DEF SameResult, Frame
  <2>3. SameSlots /\ SameDirty
    BY <1>2, <1>4, <2>1, LockWriteViews
  <2>4. QED
    BY <1>5, <2>2, <2>3
<1>8. CASE e # None /\ e.dirty /\ e.write_fd = None
  <2> DEFINE g == [task[t] EXCEPT !.pc = "flush_open"]
  <2>1. SendOpen(t, task[t].id, "w", g) /\ table' = table
    BY <1>8 DEF Flush
  <2>2. g \in Frame
    BY <1>1, PcTyped DEF Pcs
  <2>3. g.pc = "flush_open"
    BY <1>1 DEF Frame
  <2> HIDE DEF g
  <2>4. task'[t].pc = "flush_open" /\ ("open" \notin Failures /\ FreeFds # {} => task'[t].ok)
    BY <1>1, <2>1, <2>2, <2>3, RequestOutcome DEF Base
  <2>5. QED
    BY <1>3, <1>5, <1>8, <2>1, <2>4, SameViews
<1>9. QED
  BY <1>6, <1>7, <1>8

LEMMA FlushOpenedEffect ==
  ASSUME Base, NEW t \in Worker, FlushOpened(t), task[t].ok
  PROVE  /\ SameSlots /\ SameDirty /\ SameData /\ SameResult(t) /\ UNCHANGED <<fds, readQueue>>
         /\ task'[t].pc = "flush_next"
<1>1. t \in Task /\ task \in [Task -> Frame] /\ task[t] \in Frame /\ task[t].fd \in Fd \cup {None}
  BY FdTyped DEF Base, TypeOK
<1>2. task[t].pc # "idle"
  BY DEF FlushOpened, Answered
<1>3. task'[t] = [task[t] EXCEPT !.pc = "flush_next"] /\ table' = LockWrite(t, task[t].fd)
  BY <1>1 DEF FlushOpened
<1>4. SameResult(t) /\ task'[t].pc = "flush_next"
  BY <1>1, <1>3 DEF SameResult, Frame
<1>5. SameSlots /\ SameDirty
  BY <1>1, <1>2, <1>3, LockWriteViews
<1>6. QED
  BY <1>4, <1>5 DEF FlushOpened, SameData

\* flush goes on to page i of file id: the pages between are settled.
StopsAt(t, id, i) ==
  /\ task'[t].pc = "enter" /\ task'[t].idx = i /\ task'[t].ref = Slot(id, i)
  /\ Live(Slot(id, i)) /\ i > task[t].idx
  /\ \A j \in Idx : j > task[t].idx /\ j < i => Settled(id, j)

\* flush ends; after a success every page is settled from where the loop was.
EndsFlush(t, id) ==
  /\ task'[t].pc = "done" /\ task'[t].ok = task[t].ok
  /\ \A k \in Id : k # id => (DirtyEntry(k)' <=> DirtyEntry(k))
  /\ IF task[t].ok THEN \A j \in Idx : j > task[t].idx => Settled(id, j) ELSE SameDirty

LEMMA FlushNextEffect ==
  ASSUME Base, NEW t \in Worker, FlushNext(t), NEW id \in Id, id = task[t].id
  PROVE  /\ SameSlots /\ SameData /\ UNCHANGED <<fds, readQueue>>
         /\ \/ /\ SameDirty /\ SameResult(t)
               /\ \E i \in Idx : StopsAt(t, id, i)
            \/ EndsFlush(t, id)
<1>1. t \in Task /\ task \in [Task -> Frame] /\ task[t] \in Frame
  BY DEF Base, TypeOK, Task
<1>2. task[t].pc = "flush_next" /\ task[t].pc # "idle"
  BY DEF FlushNext, MayRun
<1>3. UNCHANGED <<fds, readQueue>> /\ SameData
  BY DEF FlushNext, SameData
<1> DEFINE e == table[id]
<1>4. e \in Entry /\ e # None
  BY <1>2, OwnSlot
<1>5. \A j \in Idx : Slot(id, j) = e.pages[j]
  BY <1>4 DEF Slot
<1>6. task[t].idx \in Int /\ task[t].ok \in BOOLEAN
  BY <1>1, CacheAssumption DEF Frame
<1>7. ASSUME NEW j \in Idx, j > task[t].idx, j \notin FlushStops(t)
      PROVE  Settled(id, j)
  BY <1>5, <1>7, CacheAssumption DEF FlushStops, Settled
<1>8. CASE \E i \in Idx :
             /\ FirstStop(t, i) /\ Live(e.pages[i]) /\ table' = table
             /\ task' = [task EXCEPT ![t] =
                  [task[t] EXCEPT !.pc = "enter", !.idx = i, !.fd = e.write_fd, !.ref = e.pages[i]]]
  <2>1. PICK i \in Idx :
          /\ FirstStop(t, i) /\ Live(e.pages[i]) /\ table' = table
          /\ task' = [task EXCEPT ![t] =
               [task[t] EXCEPT !.pc = "enter", !.idx = i, !.fd = e.write_fd, !.ref = e.pages[i]]]
    BY <1>8
  <2> DEFINE w == e.write_fd
             r == e.pages[i]
  <2>2. task'[t] = [task[t] EXCEPT !.pc = "enter", !.idx = i, !.fd = w, !.ref = r]
    BY <1>1, <2>1
  <2>3. r = Slot(id, i) /\ Live(r)
    BY <1>5, <2>1
  <2> HIDE DEF w, r
  <2>4. task'[t].pc = "enter" /\ task'[t].idx = i /\ task'[t].ref = r /\ SameResult(t)
    BY <1>1, <2>2 DEF Frame, SameResult
  <2>5. i \in FlushStops(t) /\ \A j \in FlushStops(t) : i <= j
    BY <2>1 DEF FirstStop
  <2>6. i > task[t].idx
    BY <2>5 DEF FlushStops
  <2>7. ASSUME NEW j \in Idx, j > task[t].idx, j < i
        PROVE  Settled(id, j)
    <3>1. j \notin FlushStops(t)
      BY <2>5, <2>7, CacheAssumption DEF Idx
    <3>2. QED
      BY <1>7, <2>7, <3>1
  <2>8. StopsAt(t, id, i)
    BY <2>3, <2>4, <2>6, <2>7 DEF StopsAt
  <2>9. QED
    BY <1>3, <2>1, <2>4, <2>8, SameViews
<1>9. CASE /\ ~task[t].ok \/ FlushStops(t) = {}
           /\ table' = [table EXCEPT ![id].write_inflight = @ \ {t}, ![id].dirty = @ /\ ~task[t].ok]
           /\ task' = [task EXCEPT ![t] = Finish(t, task[t].ok)]
  <2> DEFINE d == e.dirty /\ ~task[t].ok
             g == [e EXCEPT !.write_inflight = e.write_inflight \ {t}, !.dirty = d]
  <2>1. [[e EXCEPT !.write_inflight = @ \ {t}] EXCEPT !.dirty = d] = g
    <3> HIDE DEF e, d
    <3> QED BY <1>4 DEF Entry
  <2>2. table' = [table EXCEPT ![id] = g]
    <3>1. [e EXCEPT !.write_inflight = @ \ {t}].dirty = e.dirty
      <4> HIDE DEF e
      <4> QED BY <1>4 DEF Entry
    <3>2. table \in [Id -> Entry \cup {None}]
      BY DEF Base, TypeOK
    <3> HIDE DEF g
    <3>3. QED
      BY <1>4, <1>9, <2>1, <3>1, <3>2
  <2>3. d \in BOOLEAN /\ (~task[t].ok => d = e.dirty)
    <3>1. e.dirty \in BOOLEAN
      <4> HIDE DEF e
      <4> QED BY <1>4 DEF Entry
    <3>2. QED
      BY <3>1
  <2>4. g \in Entry /\ g.pages = e.pages /\ g.dirty = d
    <3> HIDE DEF e, d
    <3> QED BY <1>4, <2>3 DEF Entry
  <2> HIDE DEF g, d
  <2>5. /\ \A i \in Idx : Slot(id, i)' = g.pages[i] /\ Slot(id, i) = e.pages[i]
        /\ \A k \in Id, i \in Idx : k # id => Slot(k, i)' = Slot(k, i)
        /\ DirtyEntry(id)' <=> g.dirty
        /\ DirtyEntry(id) <=> e.dirty
        /\ \A k \in Id : k # id => (DirtyEntry(k)' <=> DirtyEntry(k))
    BY <1>4, <2>2, <2>4, EntryViews
  <2>6. SameSlots
    BY <2>4, <2>5 DEF SameSlots
  <2>7. ~task[t].ok => SameDirty
    <3>1. ~task[t].ok => (DirtyEntry(id)' <=> DirtyEntry(id))
      BY <2>3, <2>4, <2>5
    <3>2. QED
      BY <2>5, <3>1 DEF SameDirty
  <2>8. task'[t] = Finish(t, task[t].ok)
    BY <1>1, <1>9
  <2>9. task'[t].pc = "done" /\ task'[t].ok = task[t].ok
    BY <2>8 DEF Finish, Idle
  <2>10. task[t].ok => \A j \in Idx : j > task[t].idx => Settled(id, j)
    BY <1>7, <1>9
  <2>11. EndsFlush(t, id)
    BY <2>5, <2>7, <2>9, <2>10 DEF EndsFlush
  <2>12. QED
    BY <1>3, <2>6, <2>11
<1>10. QED
  BY <1>8, <1>9 DEF FlushNext

-----------------------------------------------------------------------------
(* The frames beside the one that runs *)

LEMMA StepInUse ==
  ASSUME NEW t \in Worker, PageStep(t) \/ FlushStep(t)
  PROVE  task[t].pc # "idle"
<1>1. CASE PageStep(t)
  BY <1>1 DEF PageStep, Enter, Woken, ReadFind, ReadOpened, ReadFetch, ReadFilled, WriteFind,
              CopyPage, MayRun, Answered
<1>2. CASE FlushStep(t)
  BY <1>2 DEF FlushStep, EvictPop, EvictDone, EvictOpened, EvictErase, FlushWrite, FlushAck,
              Flush, FlushOpened, FlushNext, MayRun, Answered
<1>3. QED
  BY <1>1, <1>2

\* The other frames are not in use and a step of t leaves them alone.
Aside(t) ==
  \A u \in Worker : u # t => task[u].pc = "idle" /\ task[u].victim = None /\ task'[u] = task[u]

LEMMA OthersIdle ==
  ASSUME Base, OnlyWaiters, OneFrame, NEW t \in Worker, PageStep(t) \/ FlushStep(t)
  PROVE  Aside(t)
<1> SUFFICES ASSUME NEW u \in Worker, u # t
             PROVE  task[u].pc = "idle" /\ task[u].victim = None /\ task'[u] = task[u]
  BY DEF Aside
<1>1. task[u].pc = "idle"
  BY StepInUse DEF OneFrame
<1>2. task[u].victim = None
  BY <1>1 DEF Base, Victims
<1>3. task[u].on = None /\ t # None
  BY <1>1, CacheAssumption DEF OnlyWaiters, Task
<1>4. CASE ReadFilled(t)
  <2>1. u \in Task /\ t \in Task
    BY DEF Task
  <2>2. ASSUME NEW g, NEW ok, task' = Wake([task EXCEPT ![t] = g], t, ok)
        PROVE  task'[u] = task[u]
    <3>1. [task EXCEPT ![t] = g][u] = task[u]
      BY <2>1 DEF Base, TypeOK
    <3>2. QED
      BY <1>3, <2>1, <2>2, <3>1 DEF Wake
  <2>3. QED
    BY <1>1, <1>2, <1>4, <2>2 DEF ReadFilled
<1>5. CASE ~ReadFilled(t)
  BY <1>1, <1>2, <1>5, StepOthers DEF Task
<1>6. QED
  BY <1>4, <1>5

\* A frame that is not in use plays no part.
LEMMA Unused ==
  ASSUME NEW u, task[u].pc = "idle", task[u].victim = None
  PROVE  /\ ~Opening(u) /\ ~Evicting(u) /\ ~Holding(u) /\ Knows(u)
         /\ \A id, i : ~VictimOn(u, id, i) /\ ~Writing(u, id, i)
<1>1. ~Opening(u) /\ ~Evicting(u)
  BY DEF Opening, Evicting
<1>2. ~Holding(u)
  BY <1>1 DEF Holding
<1>3. Knows(u)
  BY <1>2 DEF Knows
<1>4. QED
  BY <1>1, <1>2, <1>3 DEF VictimOn, Writing

LEMMA UnusedNext ==
  ASSUME NEW u, task'[u].pc = "idle", task'[u].victim = None
  PROVE  /\ ~Opening(u)' /\ ~Evicting(u)' /\ ~Holding(u)' /\ Knows(u)' /\ Carries(u)'
         /\ \A id, i : ~VictimOn(u, id, i)' /\ ~Writing(u, id, i)'
<1>1. ~Opening(u)' /\ ~Evicting(u)'
  BY DEF Opening, Evicting
<1>2. ~Holding(u)'
  BY <1>1 DEF Holding
<1>3. Knows(u)'
  BY <1>2 DEF Knows
<1>4. Carries(u)'
  BY DEF Carries
<1>5. QED
  BY <1>1, <1>2, <1>3, <1>4 DEF VictimOn, Writing

\* Only t evicts and only t writes.
OnlyOwn(t) ==
  \A id \in Id, i \in Idx :
    /\ Leaving(id, i) <=> VictimOn(t, id, i)
    /\ Leaving(id, i)' <=> VictimOn(t, id, i)'
    /\ Awaited(id, i) <=> Writing(t, id, i)
    /\ Awaited(id, i)' <=> Writing(t, id, i)'

LEMMA AsideFacts ==
  ASSUME NEW t \in Worker, Aside(t)
  PROVE  /\ OnlyOwn(t)
         /\ \A u \in Worker : u # t =>
              ~Opening(u) /\ ~Opening(u)' /\ Knows(u)' /\ Carries(u)' /\ task'[u] = task[u]
         /\ OneFrame'
<1>1. ASSUME NEW u \in Worker, u # t
      PROVE  /\ ~Opening(u) /\ ~Opening(u)' /\ Knows(u)' /\ Carries(u)' /\ task'[u].pc = "idle"
             /\ task'[u] = task[u]
             /\ \A id, i : ~VictimOn(u, id, i) /\ ~Writing(u, id, i)
             /\ \A id, i : ~VictimOn(u, id, i)' /\ ~Writing(u, id, i)'
  <2>1. task[u].pc = "idle" /\ task[u].victim = None /\ task'[u] = task[u]
    BY <1>1 DEF Aside
  <2>2. task'[u].pc = "idle" /\ task'[u].victim = None
    BY <2>1
  <2>3. QED
    BY <2>1, <2>2, Unused, UnusedNext
<1>2. OnlyOwn(t)
  <2> SUFFICES ASSUME NEW id \in Id, NEW i \in Idx
               PROVE  /\ Leaving(id, i) <=> VictimOn(t, id, i)
                      /\ Leaving(id, i)' <=> VictimOn(t, id, i)'
                      /\ Awaited(id, i) <=> Writing(t, id, i)
                      /\ Awaited(id, i)' <=> Writing(t, id, i)'
    BY DEF OnlyOwn
  <2>1. Leaving(id, i) <=> VictimOn(t, id, i)
    BY <1>1 DEF Leaving
  <2>2. Leaving(id, i)' <=> VictimOn(t, id, i)'
    BY <1>1 DEF Leaving
  <2>3. Awaited(id, i) <=> Writing(t, id, i)
    BY <1>1 DEF Awaited
  <2>4. Awaited(id, i)' <=> Writing(t, id, i)'
    BY <1>1 DEF Awaited
  <2>5. QED
    BY <2>1, <2>2, <2>3, <2>4
<1>3. OneFrame'
  BY <1>1 DEF OneFrame
<1>4. QED
  BY <1>1, <1>2, <1>3

-----------------------------------------------------------------------------
(* Every open descriptor is found again *)

SameFdAt == \A id \in Id, k \in Kind : FdAt(id, k)' = FdAt(id, k)

LEMMA FdAtKept ==
  ASSUME NEW t, KeepsEntries(t), KeepsFds
  PROVE  SameFdAt
<1> SUFFICES ASSUME NEW id \in Id, NEW k \in Kind
             PROVE  FdAt(id, k)' = FdAt(id, k)
  BY DEF SameFdAt
<1>1. CASE table[id] = None
  BY <1>1 DEF KeepsEntries, FdAt
<1>2. CASE table[id] # None
  <2>1. table'[id] # None /\ SameFds(table[id], table'[id])
    BY <1>2 DEF KeepsEntries, KeepsFds
  <2>2. QED
    BY <1>2, <2>1 DEF SameFds, FdAt, FdOf
<1>3. QED
  BY <1>1, <1>2

\* No descriptor is opened or stored.
LEMMA FoundKept ==
  ASSUME FdsFound, SameFdAt, fds' = fds, \A u \in Worker : ~Opening(u) /\ ~Opening(u)'
  PROVE  FdsFound'
<1>1. ASSUME NEW f \in Fd, NEW id \in Id, NEW k \in Kind, fds'[f] = <<id, k>>
      PROVE  FdAt(id, k)' = f
  BY <1>1 DEF FdsFound, SameFdAt
<1>2. QED
  BY <1>1 DEF FdsFound

\* t asks for a descriptor that its entry lacks, and gets a free one.
LEMMA FoundOpened ==
  ASSUME Base, FdsFound, SameFdAt, NEW t \in Worker, NEW id \in Id, NEW k \in Kind,
         \A u \in Worker : ~Opening(u), \A u \in Worker : u # t => ~Opening(u)',
         FdAt(id, k) = None, task'[t].ok, Opened(t, id, k), OpenedAs(t)' = <<id, k>>, Opening(t)'
  PROVE  FdsFound'
<1> DEFINE fd == task'[t].fd
<1>1. fd \in Fd /\ fds' = [fds EXCEPT ![fd] = <<id, k>>]
  BY DEF Opened
<1>2. fds \in [Fd -> (Id \X Kind) \cup {None}]
  BY DEF Base, TypeOK
<1>3. ASSUME NEW f \in Fd, NEW j \in Id, NEW m \in Kind, fds'[f] = <<j, m>>
      PROVE  FdAt(j, m)' = f \/ \E u \in Worker : Opening(u)' /\ task'[u].fd = f
  <2>1. CASE f = fd
    BY <2>1
  <2>2. CASE f # fd
    <3>1. fds[f] = <<j, m>>
      BY <1>1, <1>2, <1>3, <2>2
    <3>2. FdAt(j, m) = f
      BY <3>1 DEF FdsFound
    <3>3. QED
      BY <3>2 DEF SameFdAt
  <2>3. QED
    BY <2>1, <2>2
<1>4. ASSUME NEW u \in Worker, NEW j \in Id, NEW m \in Kind, Opening(u)', OpenedAs(u)' = <<j, m>>
      PROVE  FdAt(j, m)' = None
  <2>1. u = t
    BY <1>4
  <2>2. <<j, m>> = <<id, k>>
    BY <1>4, <2>1
  <2>3. j = id /\ m = k
    BY <2>2
  <2>4. QED
    BY <2>3 DEF SameFdAt
<1>5. QED
  BY <1>3, <1>4 DEF FdsFound

\* t stores the descriptor it asked for.
LEMMA FoundStored ==
  ASSUME FdsApart, FdsFound, fds' = fds, NEW t \in Worker, NEW id \in Id, NEW k \in Kind,
         Opening(t), OpenedAs(t) = <<id, k>>, \A u \in Worker : u # t => ~Opening(u),
         \A u \in Worker : ~Opening(u)', FdAt(id, k)' = task[t].fd,
         \A j \in Id, m \in Kind : j # id \/ m # k => FdAt(j, m)' = FdAt(j, m)
  PROVE  FdsFound'
<1>1. FdAt(id, k) = None
  BY DEF FdsFound
<1>2. ASSUME NEW f \in Fd, NEW j \in Id, NEW m \in Kind, fds'[f] = <<j, m>>
      PROVE  FdAt(j, m)' = f
  <2>1. FdAt(j, m) = f \/ \E u \in Worker : Opening(u) /\ task[u].fd = f
    BY <1>2 DEF FdsFound
  <2>2. CASE FdAt(j, m) = f
    <3>1. f # None
      BY CacheAssumption
    <3>2. j # id \/ m # k
      BY <1>1, <2>2, <3>1
    <3>3. QED
      BY <2>2, <3>2
  <2>3. CASE task[t].fd = f
    <3>1. fds[f] = <<id, k>>
      BY <2>3 DEF FdsApart
    <3>2. j = id /\ m = k
      BY <1>2, <3>1
    <3>3. QED
      BY <2>3, <3>2
  <2>4. QED
    BY <2>1, <2>2, <2>3
<1>3. QED
  BY <1>2 DEF FdsFound

LEMMA KindSize == IsFiniteSet(Kind) /\ Cardinality(Kind) = 2
<1>1. IsFiniteSet({"w"}) /\ Cardinality({"w"}) = 1
  BY FS_Singleton
<1>2. /\ IsFiniteSet({"w"} \cup {"r"})
      /\ Cardinality({"w"} \cup {"r"}) =
           IF "r" \in {"w"} THEN Cardinality({"w"}) ELSE Cardinality({"w"}) + 1
  BY <1>1, FS_AddElement
<1>3. Kind = {"w"} \cup {"r"} /\ "r" \notin {"w"}
  BY DEF Kind
<1>4. QED
  BY <1>1, <1>2, <1>3

\* The device has a descriptor for an entry that lacks one: otherwise two of the open
\* ones would be of the same file and direction, and one of them in no entry.
LEMMA DescriptorLeft ==
  ASSUME Base, FdsFound, OpensSucceed, NEW id \in Id, NEW k \in Kind, FdAt(id, k) = None,
         \A u \in Worker : ~Opening(u)
  PROVE  FreeFds # {}
<1> SUFFICES ASSUME FreeFds = {} PROVE FALSE
  OBVIOUS
<1> DEFINE P == Id \X Kind
           T == P \ {<<id, k>>}
<1>1. IsFiniteSet(Id) /\ IsFiniteSet(Kind) /\ Cardinality(Kind) = 2
  BY KindSize DEF OpensSucceed
<1>2. IsFiniteSet(P) /\ Cardinality(P) = Cardinality(Id) * Cardinality(Kind)
  BY <1>1, FS_Product
<1>3. IsFiniteSet(T) /\ Cardinality(T) = IF <<id, k>> \in P THEN Cardinality(P) - 1 ELSE Cardinality(P)
  <2> HIDE DEF P
  <2> QED BY <1>2, FS_RemoveElement
<1>4. <<id, k>> \in P /\ Cardinality(Id) \in Nat /\ MaxFd \in Nat
  BY <1>1, FS_CardinalityType, CacheAssumption
<1>5. IsFiniteSet(Fd) /\ Cardinality(Fd) = MaxFd
  <2>1. IsFiniteSet(1..MaxFd) /\ Cardinality(1..MaxFd) = IF 1 > MaxFd THEN 0 ELSE MaxFd - 1 + 1
    BY <1>4, FS_Interval
  <2>2. QED
    BY <1>4, <2>1 DEF Fd
<1>6. Cardinality(T) < Cardinality(Fd)
  <2> HIDE DEF P, T
  <2> QED BY <1>1, <1>2, <1>3, <1>4, <1>5 DEF OpensSucceed
<1>7. fds \in [Fd -> (Id \X Kind) \cup {None}]
  BY DEF Base, TypeOK
<1>8. ASSUME NEW f \in Fd
      PROVE  fds[f] \in P /\ FdAt(fds[f][1], fds[f][2]) = f
  <2>1. fds[f] # None
    BY DEF FreeFds
  <2>2. fds[f] \in Id \X Kind
    BY <1>7, <2>1
  <2>3. PICK j \in Id, m \in Kind : fds[f] = <<j, m>>
    BY <2>2
  <2>4. FdAt(j, m) = f
    BY <2>3 DEF FdsFound
  <2>5. QED
    BY <2>2, <2>3, <2>4
<1>9. ASSUME NEW f \in Fd
      PROVE  fds[f] \in T
  <2>1. FdAt(fds[f][1], fds[f][2]) = f /\ f # None /\ fds[f] \in P
    BY <1>8, CacheAssumption
  <2>2. fds[f] # <<id, k>>
    BY <2>1
  <2>3. QED
    BY <2>1, <2>2
<1>10. fds \in [Fd -> T]
  BY <1>7, <1>9
<1>11. \E f, g \in Fd : f # g /\ fds[f] = fds[g]
  <2> HIDE DEF T
  <2> QED BY <1>3, <1>5, <1>6, <1>10, FS_PigeonHole
<1>12. QED
  BY <1>8, <1>11

-----------------------------------------------------------------------------
(* The list and the table change together *)

SameKeys == \A r \in Ref : Live(r) => page'[r].key = page[r].key

LEMMA SlotNext ==
  ASSUME NEW id, NEW i, NEW r, SetSlot(id, i, r)
  PROVE  Slot(id, i)' = r
BY DEF SetSlot, NewSlot, Slot

LEMMA MatchedKept ==
  ASSUME Matched, SameSlots, SameLive, SameKeys,
         \A id \in Id, i \in Idx : Leaving(id, i)' <=> Leaving(id, i)
  PROVE  Matched'
<1>1. ASSUME NEW id \in Id, NEW i \in Idx, NEW r \in Ref
      PROVE  /\ Live(r)' /\ page'[r].key = <<id, i>> => Slot(id, i)' = r
             /\ Slot(id, i)' = r =>
                  (Live(r)' /\ page'[r].key = <<id, i>>) \/ (~Live(r)' /\ Leaving(id, i)')
             /\ Slot(id, i)' = r /\ Leaving(id, i)' => ~Live(r)'
  <2>1. /\ Live(r) /\ page[r].key = <<id, i>> => Slot(id, i) = r
        /\ Slot(id, i) = r => (Live(r) /\ page[r].key = <<id, i>>) \/ (~Live(r) /\ Leaving(id, i))
        /\ Slot(id, i) = r /\ Leaving(id, i) => ~Live(r)
    BY DEF Matched
  <2>2. Slot(id, i)' = Slot(id, i)
    BY DEF SameSlots
  <2>3. Live(r)' <=> Live(r)
    BY DEF SameLive
  <2>4. Live(r) => page'[r].key = page[r].key
    BY DEF SameKeys
  <2>5. Leaving(id, i)' <=> Leaving(id, i)
    OBVIOUS
  <2>6. QED
    BY <2>1, <2>2, <2>3, <2>4, <2>5
<1>2. ASSUME NEW id \in Id, NEW i \in Idx, Leaving(id, i)'
      PROVE  Slot(id, i)' # None
  BY <1>2 DEF Matched, SameSlots
<1>3. QED
  BY <1>1, <1>2 DEF Matched

\* Nothing is being evicted, before and after.
NoneLeaves == \A id \in Id, i \in Idx : ~Leaving(id, i) /\ ~Leaving(id, i)'

LEMMA MatchedInserted ==
  ASSUME Matched, NEW id \in Id, NEW i \in Idx, NEW r, NEW v, Inserted(id, i, r, v),
         Slot(id, i) = None, NoneLeaves
  PROVE  Matched'
<1>1. /\ r \in Ref /\ ~Live(r) /\ page'[r].key = <<id, i>> /\ Slot(id, i)' = r
      /\ \A q \in Ref : Live(q)' <=> Live(q) \/ q = r
      /\ \A q \in Ref : q # r => page'[q] = page[q]
      /\ \A k \in Id, j \in Idx : k # id \/ j # i => Slot(k, j)' = Slot(k, j)
  BY SlotNext DEF Inserted, SetSlot
<1>2. ASSUME NEW k \in Id, NEW j \in Idx, NEW q \in Ref
      PROVE  /\ Live(q)' /\ page'[q].key = <<k, j>> => Slot(k, j)' = q
             /\ Slot(k, j)' = q => Live(q)' /\ page'[q].key = <<k, j>>
  <2>1. /\ Live(q) /\ page[q].key = <<k, j>> => Slot(k, j) = q
        /\ Slot(k, j) = q => Live(q) /\ page[q].key = <<k, j>>
    BY DEF Matched, NoneLeaves
  <2>2. Live(q)' <=> Live(q) \/ q = r
    BY <1>1
  <2>3. CASE k = id /\ j = i
    <3>1. Slot(k, j)' = r /\ Slot(k, j) = None /\ q # None
      BY <1>1, <2>3, CacheAssumption
    <3>2. CASE q = r
      BY <1>1, <2>2, <2>3, <3>1, <3>2
    <3>3. CASE q # r
      BY <1>1, <2>1, <2>2, <3>1, <3>3
    <3>4. QED
      BY <3>2, <3>3
  <2>4. CASE k # id \/ j # i
    <3>1. Slot(k, j)' = Slot(k, j) /\ <<k, j>> # <<id, i>>
      BY <1>1, <2>4
    <3>2. CASE q = r
      BY <1>1, <2>1, <3>1, <3>2
    <3>3. CASE q # r
      BY <1>1, <2>1, <2>2, <3>1, <3>3
    <3>4. QED
      BY <3>2, <3>3
  <2>5. QED
    BY <2>3, <2>4
<1>3. QED
  BY <1>2 DEF Matched, NoneLeaves

LEMMA MatchedPopped ==
  ASSUME Matched, NEW id \in Id, NEW i \in Idx, NEW r, Popped(r), page[r].key = <<id, i>>,
         SetSlot(id, i, None), NoneLeaves
  PROVE  Matched'
<1>1. /\ r \in Ref /\ Live(r) /\ Slot(id, i)' = None
      /\ \A q \in Ref : Live(q)' <=> Live(q) /\ q # r
      /\ \A q \in Ref : q # r => page'[q] = page[q]
      /\ \A k \in Id, j \in Idx : k # id \/ j # i => Slot(k, j)' = Slot(k, j)
  BY SlotNext DEF Popped, SetSlot
<1>2. Slot(id, i) = r
  BY <1>1 DEF Matched
<1>3. ASSUME NEW k \in Id, NEW j \in Idx, NEW q \in Ref
      PROVE  /\ Live(q)' /\ page'[q].key = <<k, j>> => Slot(k, j)' = q
             /\ Slot(k, j)' = q => Live(q)' /\ page'[q].key = <<k, j>>
  <2>1. /\ Live(q) /\ page[q].key = <<k, j>> => Slot(k, j) = q
        /\ Slot(k, j) = q => Live(q) /\ page[q].key = <<k, j>>
    BY DEF Matched, NoneLeaves
  <2>2. Live(q)' <=> Live(q) /\ q # r
    BY <1>1
  <2>3. CASE k = id /\ j = i
    BY <1>1, <1>2, <2>1, <2>2, <2>3, CacheAssumption
  <2>4. CASE k # id \/ j # i
    <3>1. Slot(k, j)' = Slot(k, j) /\ <<k, j>> # <<id, i>>
      BY <1>1, <2>4
    <3>2. CASE q = r
      BY <1>1, <2>1, <2>2, <3>1, <3>2
    <3>3. CASE q # r
      BY <1>1, <2>1, <2>2, <3>1, <3>3
    <3>4. QED
      BY <3>2, <3>3
  <2>5. QED
    BY <2>3, <2>4
<1>4. QED
  BY <1>3 DEF Matched, NoneLeaves

\* evict takes a dirty page out of the list; its slot stays.
LEMMA MatchedTaken ==
  ASSUME Matched, NEW id \in Id, NEW i \in Idx, NEW r, Popped(r), page[r].key = <<id, i>>,
         SameSlots, \A k \in Id, j \in Idx : ~Leaving(k, j),
         \A k \in Id, j \in Idx : Leaving(k, j)' <=> k = id /\ j = i
  PROVE  Matched'
<1>1. /\ r \in Ref /\ Live(r)
      /\ \A q \in Ref : Live(q)' <=> Live(q) /\ q # r
      /\ \A q \in Ref : q # r => page'[q] = page[q]
  BY DEF Popped
<1>2. Slot(id, i) = r
  BY <1>1 DEF Matched
<1>3. ASSUME NEW k \in Id, NEW j \in Idx, NEW q \in Ref
      PROVE  /\ Live(q)' /\ page'[q].key = <<k, j>> => Slot(k, j)' = q
             /\ Slot(k, j)' = q =>
                  (Live(q)' /\ page'[q].key = <<k, j>>) \/ (~Live(q)' /\ Leaving(k, j)')
             /\ Slot(k, j)' = q /\ Leaving(k, j)' => ~Live(q)'
  <2>1. /\ Live(q) /\ page[q].key = <<k, j>> => Slot(k, j) = q
        /\ Slot(k, j) = q => Live(q) /\ page[q].key = <<k, j>>
    BY DEF Matched
  <2>2. Live(q)' <=> Live(q) /\ q # r
    BY <1>1
  <2>3. Slot(k, j)' = Slot(k, j)
    BY DEF SameSlots
  <2>4. Leaving(k, j)' <=> k = id /\ j = i
    OBVIOUS
  <2>5. CASE q = r
    <3>1. Slot(k, j)' = q => k = id /\ j = i
      BY <2>1, <2>3, <2>5
    <3>2. QED
      BY <2>2, <2>4, <2>5, <3>1
  <2>6. CASE q # r
    <3>1. Leaving(k, j)' => Slot(k, j)' = r
      BY <1>2, <2>3, <2>4
    <3>2. QED
      BY <1>1, <2>1, <2>2, <2>3, <2>6, <3>1
  <2>7. QED
    BY <2>5, <2>6
<1>4. ASSUME NEW k \in Id, NEW j \in Idx, Leaving(k, j)'
      PROVE  Slot(k, j)' # None
  BY <1>1, <1>2, <1>4, CacheAssumption DEF SameSlots
<1>5. QED
  BY <1>3, <1>4 DEF Matched

\* The slot of the evicted page is erased.
LEMMA MatchedErased ==
  ASSUME Matched, NEW id \in Id, NEW i \in Idx, SetSlot(id, i, None), SameLive, SameKeys,
         \A k \in Id, j \in Idx : Leaving(k, j) <=> k = id /\ j = i,
         \A k \in Id, j \in Idx : ~Leaving(k, j)'
  PROVE  Matched'
<1>1. /\ Slot(id, i)' = None
      /\ \A k \in Id, j \in Idx : k # id \/ j # i => Slot(k, j)' = Slot(k, j)
  BY SlotNext DEF SetSlot
<1>2. ASSUME NEW k \in Id, NEW j \in Idx, NEW q \in Ref
      PROVE  /\ Live(q)' /\ page'[q].key = <<k, j>> => Slot(k, j)' = q
             /\ Slot(k, j)' = q => Live(q)' /\ page'[q].key = <<k, j>>
  <2>1. /\ Live(q) /\ page[q].key = <<k, j>> => Slot(k, j) = q
        /\ Slot(k, j) = q => (Live(q) /\ page[q].key = <<k, j>>) \/ Leaving(k, j)
        /\ Slot(k, j) = q /\ Leaving(k, j) => ~Live(q)
    BY DEF Matched
  <2>2. (Live(q)' <=> Live(q)) /\ (Live(q) => page'[q].key = page[q].key)
    BY DEF SameLive, SameKeys
  <2>3. Leaving(k, j) <=> k = id /\ j = i
    OBVIOUS
  <2>4. CASE k = id /\ j = i
    BY <1>1, <2>1, <2>2, <2>3, <2>4, CacheAssumption
  <2>5. CASE k # id \/ j # i
    <3>1. Slot(k, j)' = Slot(k, j) /\ ~Leaving(k, j)
      BY <1>1, <2>3, <2>5
    <3>2. QED
      BY <2>1, <2>2, <3>1
  <2>6. QED
    BY <2>4, <2>5
<1>3. QED
  BY <1>2 DEF Matched

-----------------------------------------------------------------------------
(* Each step of the frame in use keeps the shape *)

\* What is known of the state before a step of t.
Lone(t) == Base /\ Descriptors /\ Waiting /\ Overlong /\ Shape /\ Aside(t)

\* What a step of t has to show.
ShapeNext(t) == FdsFound' /\ Matched' /\ Knows(t)'

LEMMA LiveRef ==
  ASSUME Base, NEW r, Live(r)
  PROVE  r \in Ref
<1>1. lru \in Seq(Ref)
  BY DEF Base, TypeOK
<1>2. PICK k \in 1..Len(lru) : lru[k] = r
  BY DEF Live
<1>3. QED
  BY <1>1, <1>2

LEMMA LiveNext ==
  ASSUME NEW t, NEW r, task'[t].ref = r, Live(r)'
  PROVE  Live(task[t].ref)'
BY DEF Live

LEMMA OwnNext ==
  ASSUME NEW t, NEW id, NEW i, task'[t].id = id, task'[t].idx = i
  PROVE  Own(t)' = Slot(id, i)'
BY DEF Own, Slot

LEMMA OwnIndex ==
  ASSUME Base, NEW t \in Worker, task[t].pc # "idle"
  PROVE  /\ task[t].op \in {"read", "write"} => task[t].idx \in Idx
         /\ task[t].op = "flush" /\ task[t].pc \in {"enter", "body", "flush_ack"} => task[t].idx \in Idx
         /\ task[t].idx >= 0 => task[t].idx \in Idx
         /\ task[t].id \in Id /\ task[t].idx \in Int
<1>1. t[2] \in Idx /\ task[t].id \in Id /\ task[t] \in Frame
  BY InUse
<1>2. task[t].idx \in -1..MaxIdx /\ MaxIdx \in Nat
  BY <1>1, CacheAssumption DEF Frame
<1>3. task[t].op \in {"read", "write"} => task[t].idx = t[2]
  BY DEF Base, Frames, FrameOf, WellFormed
<1>4. task[t].op = "flush" /\ task[t].pc \in {"enter", "body", "flush_ack"} => task[t].idx \in Idx
  BY DEF Base, Frames, FrameOf, WellFormed
<1>5. QED
  BY <1>1, <1>2, <1>3, <1>4 DEF Idx

LEMMA SameOwn ==
  ASSUME Base, NEW t \in Worker, task[t].pc # "idle", task[t].idx \in Idx, SameSlots,
         task'[t].id = task[t].id, task'[t].idx = task[t].idx
  PROVE  Own(t)' = Own(t)
<1>1. PICK id \in Id, i \in Idx : id = task[t].id /\ i = task[t].idx
  BY OwnIndex
<1>2. Own(t)' = Slot(id, i)'
  BY <1>1, OwnNext
<1>3. Own(t) = Slot(id, i)
  BY <1>1 DEF Own
<1>4. QED
  BY <1>2, <1>3 DEF SameSlots

\* The page a frame holds stays when the list and the slots do.
LEMMA HoldsOn ==
  ASSUME Base, NEW t \in Worker, Knows(t), Holding(t), task[t].pc # "idle", SameLive, SameSlots,
         task'[t].id = task[t].id, task'[t].idx = task[t].idx, task'[t].ref = task[t].ref
  PROVE  Live(task[t].ref)' /\ Own(t)' = task'[t].ref
<1>1. PICK r : r = task[t].ref
  OBVIOUS
<1>2. Live(r) /\ Own(t) = r
  BY <1>1 DEF Knows
<1>3. r \in Ref
  BY <1>2, LiveRef
<1>4. Live(r)'
  BY <1>2, <1>3 DEF SameLive
<1>5. Live(task[t].ref)'
  BY <1>1, <1>4, LiveNext
<1>6. task[t].idx \in Idx
  <2>1. CASE Evicting(t)
    <3>1. task[t].op \in {"read", "write"}
      BY <2>1 DEF Evicting, Base, Victims
    <3>2. QED
      BY <3>1, OwnIndex
  <2>2. CASE task[t].pc \in {"copy", "evict"}
    <3>1. task[t].op \in {"read", "write"}
      BY <2>2 DEF Base, Frames, FrameOf, WellFormed
    <3>2. QED
      BY <3>1, OwnIndex
  <2>3. CASE task[t].op = "flush" /\ task[t].pc \in {"enter", "body", "flush_ack"}
    BY <2>3, OwnIndex
  <2>4. QED
    BY <2>1, <2>2, <2>3 DEF Holding
<1>7. Own(t)' = Own(t)
  BY <1>6, SameOwn
<1>8. QED
  BY <1>1, <1>2, <1>5, <1>7

LEMMA SameVictim ==
  ASSUME NEW t \in Worker, OnlyOwn(t), task'[t].victim = task[t].victim
  PROVE  \A id \in Id, i \in Idx : Leaving(id, i)' <=> Leaving(id, i)
<1> SUFFICES ASSUME NEW id \in Id, NEW i \in Idx
             PROVE  Leaving(id, i)' <=> Leaving(id, i)
  OBVIOUS
<1>1. VictimOn(t, id, i)' <=> VictimOn(t, id, i)
  BY DEF VictimOn, Evicting
<1>2. QED
  BY <1>1 DEF OnlyOwn

LEMMA NoVictim ==
  ASSUME NEW t \in Worker, OnlyOwn(t), task[t].victim = None, task'[t].victim = None
  PROVE  NoneLeaves
<1> SUFFICES ASSUME NEW id \in Id, NEW i \in Idx
             PROVE  ~Leaving(id, i) /\ ~Leaving(id, i)'
  BY DEF NoneLeaves
<1>1. ~VictimOn(t, id, i) /\ ~VictimOn(t, id, i)'
  BY DEF VictimOn, Evicting
<1>2. QED
  BY <1>1 DEF OnlyOwn

\* A step that changes neither the list, nor the slots, nor the descriptors.
LEMMA PlainShape ==
  ASSUME NEW t \in Worker, Lone(t), SameSlots, SameLive, SameKeys, SameFdAt, fds' = fds,
         task'[t].victim = task[t].victim, ~Opening(t), ~Opening(t)'
  PROVE  FdsFound' /\ Matched'
<1>1. OnlyOwn(t) /\ \A u \in Worker : u # t => ~Opening(u) /\ ~Opening(u)'
  BY AsideFacts DEF Lone
<1>2. FdsFound'
  BY <1>1, FoundKept DEF Lone, Shape
<1>3. Matched'
  BY <1>1, SameVictim, MatchedKept DEF Lone, Shape
<1>4. QED
  BY <1>2, <1>3

LEMMA SameDataShape ==
  ASSUME SameData
  PROVE  SameLive /\ SameKeys
BY SameLiveList DEF SameData, SameKeys

LEMMA EnterShape ==
  ASSUME NEW t \in Worker, Lone(t), Enter(t)
  PROVE  ShapeNext(t) /\ readQueue[KeyOf(t)] = None
<1>1. Base /\ Queue /\ Shape
  BY DEF Lone, Waiting
<1>2. /\ task[t].pc = "enter" /\ task'[t].pc \in {"wait", "body"} /\ Steady(t)
      /\ task'[t].pc = "wait" => task'[t].on = readQueue[KeyOf(t)] /\ task'[t].on # None
      /\ task'[t].pc = "body" => task'[t].on = task[t].on /\ readQueue[KeyOf(t)] = None
  BY <1>1, EnterFrame
<1>3. readQueue[KeyOf(t)] = None
  <2> SUFFICES ASSUME readQueue[KeyOf(t)] # None PROVE FALSE
    OBVIOUS
  <2>1. KeyOf(t) \in Key
    BY <1>1, <1>2, KeyInUse
  <2>2. PICK o \in Worker : o = readQueue[KeyOf(t)]
    BY <1>1, <2>1 DEF Base, TypeOK
  <2>3. task[o].pc = "fill"
    BY <1>1, <2>1, <2>2 DEF Queue
  <2>4. QED
    BY <1>1, <1>2, <2>2, <2>3 DEF Shape, OneFrame
<1>4. /\ task'[t].pc = "body" /\ SameResult(t) /\ SameSlots /\ SameDirty /\ SameData
      /\ UNCHANGED <<fds, readQueue>>
  BY <1>1, <1>3, EnterEffect
<1>5. SameLive /\ SameKeys
  BY <1>4, SameDataShape
<1>6. SameFdAt
  BY <1>1, PageTables, FdAtKept DEF PageStep, Enter, ReadOpened, MayRun, Answered
<1>7. ~Opening(t) /\ ~Opening(t)'
  BY <1>2, <1>4 DEF Opening
<1>8. FdsFound' /\ Matched'
  BY <1>2, <1>4, <1>5, <1>6, <1>7, PlainShape DEF Steady
<1>9. Knows(t)'
  <2>1. Holding(t)' => Holding(t)
    BY <1>2, <1>4 DEF Holding, Evicting, Steady
  <2>2. Holding(t)' => Live(task[t].ref)' /\ Own(t)' = task'[t].ref
    BY <1>1, <1>2, <1>4, <1>5, <2>1, HoldsOn DEF Steady, Shape
  <2>3. QED
    BY <1>4, <2>2 DEF Knows
<1>10. QED
  BY <1>3, <1>8, <1>9 DEF ShapeNext

\* A slot holds a node of the list while nothing is evicted.
LEMMA SlotLive ==
  ASSUME Base, Matched, NEW id \in Id, NEW i \in Idx, Slot(id, i) # None, ~Leaving(id, i)
  PROVE  Slot(id, i) \in Ref /\ Live(Slot(id, i)) /\ page[Slot(id, i)].key = <<id, i>>
<1>1. table[id] \in Entry
  BY DEF Base, TypeOK, Slot
<1>2. table[id].pages[i] \in Ref \cup {None}
  BY <1>1 DEF Entry
<1>3. PICK r \in Ref : r = Slot(id, i)
  BY <1>1, <1>2, CacheAssumption DEF Slot
<1>4. QED
  BY <1>3 DEF Matched

LEMMA NotLeaving ==
  ASSUME NEW t \in Worker, Aside(t), task[t].victim = None, NEW id \in Id, NEW i \in Idx
  PROVE  ~Leaving(id, i)
<1>1. ~VictimOn(t, id, i)
  BY DEF VictimOn, Evicting
<1>2. Leaving(id, i) <=> VictimOn(t, id, i)
  BY AsideFacts DEF OnlyOwn
<1>3. QED
  BY <1>1, <1>2

LEMMA ReadFindShape ==
  ASSUME NEW t \in Worker, Lone(t), OpensSucceed, ReadFind(t)
  PROVE  ShapeNext(t) /\ (task'[t].pc = "read_open" => task'[t].ok)
<1>1. Base /\ Shape /\ FdsFound /\ Matched /\ Aside(t)
  BY DEF Lone, Shape
<1>2. /\ table' = table /\ SameData /\ UNCHANGED readQueue
      /\ \/ /\ task'[t].pc = "copy" /\ task'[t].ref = Own(t) /\ Own(t) # None
            /\ SameResult(t) /\ fds' = fds
         \/ /\ task'[t].pc = "fetch" /\ Own(t) = None /\ FdAt(task[t].id, "r") # None
            /\ SameResult(t) /\ fds' = fds
         \/ /\ task'[t].pc = "read_open" /\ Own(t) = None /\ FdAt(task[t].id, "r") = None
            /\ SendOpen(t, task[t].id, "r", [task[t] EXCEPT !.pc = "read_open"])
  BY <1>1, ReadFindEffect
<1>3. /\ task[t].pc = "body" /\ task[t].op = "read" /\ task[t].victim = None
      /\ \/ task'[t].pc = "copy" /\ Moved(t) /\ task'[t].evict = task[t].evict
            /\ task'[t].on = task[t].on /\ fds' = fds
         \/ task'[t].pc = "fetch" /\ Steady(t) /\ task'[t].on = task[t].on /\ fds' = fds
         \/ /\ Requested(t, "read_open") /\ Opened(t, task[t].id, "r")
            /\ task'[t].evict = task[t].evict /\ task'[t].victim = None
  BY <1>1, ReadFindFrame
<1>4. PICK id \in Id, i \in Idx : id = task[t].id /\ i = task[t].idx
  BY <1>1, <1>3, OwnIndex
<1>5. SameSlots /\ SameLive /\ SameKeys
  BY <1>2, SameViews, SameDataShape
<1>6. SameFdAt
  BY <1>2, SameTable, FdAtKept
<1>7. /\ task'[t].id = id /\ task'[t].idx = i /\ task'[t].op = "read" /\ task'[t].victim = None
      /\ task'[t].pc # "evict"
  BY <1>2, <1>3, <1>4 DEF Moved, Steady, Requested
<1>8. Own(t) = Slot(id, i) /\ Own(t)' = Slot(id, i)'
  BY <1>4, <1>7, OwnNext DEF Own
<1>9. Own(t)' = Own(t)
  BY <1>5, <1>8 DEF SameSlots
<1>10. ~Opening(t) /\ (task'[t].pc # "read_open" => (Holding(t)' <=> task'[t].pc = "copy"))
  BY <1>2, <1>3, <1>7 DEF Opening, Holding, Evicting
<1>11. OnlyOwn(t) /\ \A u \in Worker : u # t => ~Opening(u) /\ ~Opening(u)'
  BY <1>1, AsideFacts
<1>12. CASE task'[t].pc = "copy"
  <2>1. task'[t].ref = Own(t) /\ Own(t) # None /\ fds' = fds
    BY <1>2, <1>12
  <2>2. ~Opening(t)'
    BY <1>12 DEF Opening
  <2>3. FdsFound' /\ Matched'
    BY <1>3, <1>5, <1>6, <1>7, <1>10, <2>1, <2>2, PlainShape
  <2>4. PICK r \in Ref : r = Slot(id, i) /\ Live(r)
    BY <1>1, <1>3, <1>8, <2>1, NotLeaving, SlotLive
  <2>5. Live(r)'
    BY <1>5, <2>4 DEF SameLive
  <2>6. Live(task[t].ref)' /\ Own(t)' = task'[t].ref
    BY <1>8, <1>9, <2>1, <2>4, <2>5, LiveNext
  <2>7. Knows(t)'
    BY <1>12, <2>6 DEF Knows
  <2>8. QED
    BY <1>12, <2>3, <2>7 DEF ShapeNext
<1>13. CASE task'[t].pc = "fetch"
  <2>1. Own(t) = None /\ FdAt(id, "r") # None /\ fds' = fds
    BY <1>2, <1>4, <1>13
  <2>2. ~Opening(t)' /\ ~Holding(t)'
    BY <1>10, <1>13 DEF Opening
  <2>3. FdsFound' /\ Matched'
    BY <1>3, <1>5, <1>6, <1>7, <1>10, <2>1, <2>2, PlainShape
  <2>4. FdAt(id, "r")' # None
    BY <1>6, <2>1 DEF SameFdAt, Kind
  <2>5. FdAt(task[t].id, "r")' # None
    BY <1>7, <2>4 DEF FdAt
  <2>6. Knows(t)'
    BY <1>9, <1>13, <2>1, <2>2, <2>5 DEF Knows
  <2>7. QED
    BY <1>13, <2>3, <2>6 DEF ShapeNext
<1>14. CASE task'[t].pc = "read_open"
  <2>1. /\ Own(t) = None /\ FdAt(id, "r") = None /\ Opened(t, id, "r")
        /\ SendOpen(t, id, "r", [task[t] EXCEPT !.pc = "read_open"])
    BY <1>2, <1>3, <1>4, <1>14
  <2>2. FreeFds # {}
    BY <1>1, <1>10, <1>11, <2>1, DescriptorLeft DEF Kind
  <2>3. task'[t].ok
    <3> DEFINE f == [task[t] EXCEPT !.pc = "read_open"]
    <3>1. t \in Task /\ task[t] \in Frame /\ TypeOK
      BY <1>1 DEF Base, TypeOK, Task
    <3>2. f \in Frame
      BY <3>1, PcTyped DEF Pcs
    <3>3. SendOpen(t, id, "r", f)
      BY <2>1
    <3> HIDE DEF f
    <3>4. /\ task'[t].pc = f.pc /\ task'[t].val = f.val
          /\ "open" \notin Failures /\ FreeFds # {} => task'[t].ok
      BY <3>1, <3>2, <3>3, RequestOutcome
    <3>5. QED
      BY <2>2, <3>4 DEF OpensSucceed
  <2>4. Opening(t)' /\ ~Holding(t)'
    BY <1>7, <1>14, <2>3 DEF Opening, Holding, Evicting
  <2>5. OpenedAs(t)' = <<id, "r">>
    BY <1>7, <1>14 DEF OpenedAs
  <2>6. FdsFound'
    BY <1>1, <1>6, <1>10, <1>11, <2>1, <2>3, <2>4, <2>5, FoundOpened DEF Kind
  <2>7. Matched'
    BY <1>1, <1>3, <1>5, <1>7, <1>11, SameVictim, MatchedKept
  <2>8. Knows(t)'
    BY <1>9, <1>14, <2>1, <2>3, <2>4 DEF Knows
  <2>9. QED
    BY <2>3, <2>6, <2>7, <2>8 DEF ShapeNext
<1>15. QED
  BY <1>2, <1>12, <1>13, <1>14

\* A descriptor is stored in the entry of file id.
LEMMA StoredAt ==
  ASSUME NEW id \in Id, NEW k \in Kind, NEW fd, table[id] # None, table'[id] # None,
         \A j \in Id : j # id => table'[j] = table[j],
         \/ k = "r" /\ table'[id].read_fd = fd /\ table'[id].write_fd = table[id].write_fd
         \/ k = "w" /\ table'[id].write_fd = fd /\ table'[id].read_fd = table[id].read_fd
  PROVE  /\ FdAt(id, k)' = fd
         /\ \A j \in Id, m \in Kind : j # id \/ m # k => FdAt(j, m)' = FdAt(j, m)
<1>1. FdAt(id, k)' = fd
  BY DEF FdAt, FdOf
<1>2. ASSUME NEW j \in Id, NEW m \in Kind, j # id \/ m # k
      PROVE  FdAt(j, m)' = FdAt(j, m)
  <2>1. CASE j # id
    BY <2>1 DEF FdAt
  <2>2. CASE j = id
    BY <1>2, <2>2 DEF FdAt, FdOf, Kind
  <2>3. QED
    BY <2>1, <2>2
<1>3. QED
  BY <1>1, <1>2

LEMMA ReadOpenedShape ==
  ASSUME NEW t \in Worker, Lone(t), ReadOpened(t)
  PROVE  ShapeNext(t) /\ task[t].ok
<1>1. Base /\ Shape /\ FdsFound /\ Matched /\ Aside(t) /\ Knows(t) /\ FdsApart
  BY DEF Lone, Shape, Descriptors
<1>2. task[t].pc = "read_open"
  BY <1>1, ReadOpenedFrame
<1>3. task[t].ok /\ Own(t) = None
  BY <1>1, <1>2 DEF Knows
<1>4. /\ task'[t].pc = "fetch" /\ task'[t].op = task[t].op /\ task'[t].id = task[t].id
      /\ task'[t].idx = task[t].idx /\ task'[t].victim = task[t].victim
  BY <1>1, <1>3, ReadOpenedFrame
<1>5. /\ SameSlots /\ SameData /\ UNCHANGED <<fds, readQueue>>
  BY <1>1, <1>3, ReadOpenedEffect
<1>6. SameLive /\ SameKeys
  BY <1>5, SameDataShape
<1>7. task[t].op = "read"
  BY <1>1, <1>2 DEF Base, Frames, FrameOf, WellFormed
<1>8. task[t].victim = None \/ task[t].pc # "read_open"
  BY <1>1, <1>2 DEF Base, Victims
<1>9. PICK id \in Id, i \in Idx : id = task[t].id /\ i = task[t].idx
  BY <1>1, <1>2, <1>7, OwnIndex
<1>10. /\ KeepsEntries(t)
       /\ table'[id].read_fd = task[t].fd /\ table'[id].write_fd = table[id].write_fd
       /\ \A j \in Id : j # id => table'[j] = table[j]
  BY <1>1, <1>3, <1>9, ReadOpenedTable
<1>11. table[id] # None
  BY <1>1, <1>2, <1>9, OwnSlot
<1>12. table'[id] # None
  BY <1>10, <1>11 DEF KeepsEntries
<1>13. /\ FdAt(id, "r")' = task[t].fd
       /\ \A j \in Id, m \in Kind : j # id \/ m # "r" => FdAt(j, m)' = FdAt(j, m)
  BY <1>10, <1>11, <1>12, StoredAt DEF Kind
<1>14. Opening(t) /\ OpenedAs(t) = <<id, "r">> /\ ~Opening(t)'
  BY <1>2, <1>3, <1>4, <1>9 DEF Opening, OpenedAs
<1>15. OnlyOwn(t) /\ \A u \in Worker : u # t => ~Opening(u) /\ ~Opening(u)'
  BY <1>1, AsideFacts
<1>16. FdsFound'
  BY <1>1, <1>5, <1>13, <1>14, <1>15, FoundStored DEF Kind
<1>17. Matched'
  BY <1>1, <1>4, <1>5, <1>6, <1>15, SameVictim, MatchedKept
<1>18. Knows(t)'
  <2>1. ~Holding(t)'
    BY <1>2, <1>4, <1>7, <1>8 DEF Holding, Evicting
  <2>2. Own(t)' = None
    BY <1>1, <1>2, <1>3, <1>4, <1>5, <1>9, SameOwn
  <2>3. task[t].fd # None
    BY <1>1, <1>14 DEF FdsApart
  <2>4. FdAt(task[t].id, "r")' # None
    BY <1>4, <1>9, <1>13, <2>3 DEF FdAt
  <2>5. QED
    BY <1>4, <2>1, <2>2, <2>4 DEF Knows
<1>19. QED
  BY <1>3, <1>16, <1>17, <1>18 DEF ShapeNext

LEMMA ReadFetchShape ==
  ASSUME NEW t \in Worker, Lone(t), ReadFetch(t)
  PROVE  ShapeNext(t) /\ FdAt(task[t].id, "r") # None
<1>1. Base /\ Shape /\ Knows(t) /\ FdsValid
  BY DEF Lone, Shape, Descriptors
<1>2. task[t].pc = "fetch" /\ task'[t].pc = "fill" /\ Steady(t)
  BY <1>1, ReadFetchFrame
<1>3. Own(t) = None /\ FdAt(task[t].id, "r") # None
  BY <1>1, <1>2 DEF Knows
<1>4. /\ table' = table /\ SameData /\ fds' = fds
      /\ readQueue'[<<task[t].id, task[t].idx>>] # None
  BY <1>1, <1>3, ReadFetchEffect
<1>5. SameSlots /\ SameLive /\ SameKeys
  BY <1>4, SameViews, SameDataShape
<1>6. SameFdAt
  BY <1>4, SameTable, FdAtKept
<1>7. task[t].op = "read" /\ task[t].victim = None
  BY <1>1, <1>2 DEF Base, Frames, FrameOf, WellFormed, Victims
<1>8. ~Opening(t) /\ ~Opening(t)' /\ ~Holding(t)'
  BY <1>2, <1>7 DEF Opening, Holding, Evicting, Steady
<1>9. FdsFound' /\ Matched'
  BY <1>2, <1>4, <1>5, <1>6, <1>8, PlainShape DEF Steady
<1>10. Own(t)' = None
  BY <1>1, <1>2, <1>3, <1>5, <1>7, SameOwn, OwnIndex DEF Steady
<1>11. Knows(t)'
  <2>1. readQueue'[<<task'[t].id, task'[t].idx>>] # None
    BY <1>2, <1>4 DEF Steady
  <2>2. QED
    BY <1>2, <1>8, <1>10, <2>1 DEF Knows
<1>12. QED
  BY <1>3, <1>9, <1>11 DEF ShapeNext

\* The frame that inserted a page holds it.
LEMMA InsertedShape ==
  ASSUME NEW t \in Worker, Lone(t), NEW id \in Id, NEW i \in Idx, NEW v,
         Inserted(id, i, task'[t].ref, v), Slot(id, i) = None, fds' = fds, SameFdAt,
         task'[t].id = id, task'[t].idx = i, task[t].victim = None, task'[t].victim = None,
         task'[t].pc \in {"copy", "evict"}, ~Opening(t)
  PROVE  ShapeNext(t)
<1>1. PICK r : r = task'[t].ref
  OBVIOUS
<1>2. Inserted(id, i, r, v)
  BY <1>1
<1>3. OnlyOwn(t) /\ \A u \in Worker : u # t => ~Opening(u) /\ ~Opening(u)'
  BY AsideFacts DEF Lone
<1>4. Matched'
  BY <1>2, <1>3, NoVictim, MatchedInserted DEF Lone, Shape
<1>5. ~Opening(t)'
  BY DEF Opening
<1>6. FdsFound'
  BY <1>3, <1>5, FoundKept DEF Lone, Shape
<1>7. r \in Ref /\ Live(r)' /\ lru'[1] = r /\ SetSlot(id, i, r)
  BY <1>2 DEF Inserted
<1>8. Slot(id, i)' = r
  BY <1>7, SlotNext
<1>9. Live(task[t].ref)' /\ Own(t)' = task'[t].ref /\ lru'[1] = task'[t].ref
  BY <1>1, <1>7, <1>8, LiveNext, OwnNext
<1>10. Knows(t)'
  BY <1>9 DEF Knows
<1>11. QED
  BY <1>4, <1>6, <1>10 DEF ShapeNext

\* A frame that has ended knows nothing.
LEMMA KnowsDone ==
  ASSUME NEW t, Finished(t)
  PROVE  Knows(t)' /\ ~Opening(t)'
<1>1. ~Holding(t)'
  BY DEF Holding, Evicting, Finished
<1>2. QED
  BY <1>1 DEF Knows, Opening, Finished

LEMMA ReadFilledShape ==
  ASSUME NEW t \in Worker, Lone(t), ReadFilled(t)
  PROVE  /\ ShapeNext(t) /\ Own(t) = None /\ task[t].victim = None
         /\ readQueue[<<task[t].id, task[t].idx>>] # None
         /\ task[t].ok => Moved(t) /\ task'[t].pc \in {"copy", "evict"}
<1>1. Base /\ Shape /\ Knows(t)
  BY DEF Lone, Shape
<1>2. task[t].pc = "fill"
  BY <1>1, ReadFilledFrame
<1>3. Own(t) = None /\ readQueue[<<task[t].id, task[t].idx>>] # None
  BY <1>1, <1>2 DEF Knows
<1>4. KeyOf(t) = <<task[t].id, task[t].idx>>
  BY <1>1, <1>2, FillKey
<1>5. task[t].op = "read" /\ task[t].victim = None /\ ~Opening(t)
  BY <1>1, <1>2 DEF Base, Frames, FrameOf, WellFormed, Victims, Opening
<1>6. PICK id \in Id, i \in Idx : id = task[t].id /\ i = task[t].idx
  BY <1>1, <1>2, <1>5, OwnIndex
<1>7. SameFdAt
  BY <1>1, <1>2, PageTables, FdAtKept DEF PageStep, ReadOpened, Answered
<1>8. /\ UNCHANGED <<file, content, fds>>
      /\ IF task[t].ok
         THEN /\ Inserted(id, i, task'[t].ref, task[t].val) /\ task'[t].ok
         ELSE SameSlots /\ SameDirty /\ SameData
  BY <1>1, <1>3, <1>6, ReadFilledEffect
<1>9. IF task[t].ok
      THEN task'[t].pc = AfterInsert(lru') /\ Moved(t)
      ELSE Finished(t)
  BY <1>1, <1>3, <1>4, ReadFilledFrame
<1>10. CASE task[t].ok
  <2>1. task'[t].pc \in {"copy", "evict"} /\ Moved(t)
    BY <1>9, <1>10 DEF AfterInsert
  <2>2. Slot(id, i) = None
    BY <1>3, <1>6 DEF Own
  <2>3. ShapeNext(t)
    BY <1>5, <1>6, <1>7, <1>8, <1>10, <2>1, <2>2, InsertedShape DEF Moved
  <2>4. QED
    BY <1>3, <1>5, <2>1, <2>3
<1>11. CASE ~task[t].ok
  <2>1. SameSlots /\ SameLive /\ SameKeys /\ Finished(t)
    BY <1>8, <1>9, <1>11, SameDataShape
  <2>2. task'[t].victim = task[t].victim
    BY <1>5, <2>1 DEF Finished
  <2>3. Knows(t)' /\ ~Opening(t)'
    BY <2>1, KnowsDone
  <2>4. FdsFound' /\ Matched'
    BY <1>5, <1>7, <1>8, <2>1, <2>2, <2>3, PlainShape
  <2>5. QED
    BY <1>3, <1>5, <1>11, <2>3, <2>4 DEF ShapeNext
<1>12. QED
  BY <1>10, <1>11

LEMMA WriteFindShape ==
  ASSUME NEW t \in Worker, Lone(t), WriteFind(t)
  PROVE  /\ ShapeNext(t) /\ task[t].victim = None /\ task[t].op = "write" /\ Moved(t)
         /\ task'[t].pc \in {"copy", "evict"}
<1>1. Base /\ Shape /\ Knows(t) /\ Matched /\ Aside(t)
  BY DEF Lone, Shape
<1>2. /\ task[t].pc = "body" /\ task[t].op = "write" /\ task[t].victim = None /\ Moved(t)
      /\ IF table[task[t].id].pages[task[t].idx] # None
         THEN task'[t].pc = "copy" /\ task'[t].evict = task[t].evict
         ELSE task'[t].pc = AfterInsert(lru') /\ task'[t].evict = Overfull(lru')
  BY <1>1, WriteFindFrame
<1>3. PICK id \in Id, i \in Idx : id = task[t].id /\ i = task[t].idx
  BY <1>1, <1>2, OwnIndex
<1>4. /\ UNCHANGED <<file, content, fds, readQueue>> /\ SameResult(t)
      /\ IF Own(t) # None
         THEN task'[t].ref = Own(t) /\ table' = table /\ SameData
         ELSE Inserted(id, i, task'[t].ref, None)
  BY <1>1, <1>3, WriteFindEffect
<1>5. SameFdAt
  BY <1>1, <1>2, PageTables, FdAtKept DEF PageStep, ReadOpened, Answered
<1>6. Own(t) = Slot(id, i) /\ Own(t)' = Slot(id, i)'
  BY <1>2, <1>3, OwnNext DEF Own, Moved
<1>7. ~Opening(t) /\ task'[t].pc \in {"copy", "evict"}
  BY <1>2 DEF Opening, AfterInsert
<1>8. ~Opening(t)'
  BY <1>7 DEF Opening
<1>9. Own(t) = table[task[t].id].pages[task[t].idx]
  BY <1>1, <1>2, OwnSlot
<1>10. CASE Own(t) # None
  <2>1. SameSlots /\ SameLive /\ SameKeys /\ task'[t].pc = "copy" /\ task'[t].ref = Own(t)
    BY <1>2, <1>4, <1>9, <1>10, SameViews, SameDataShape
  <2>2. FdsFound' /\ Matched'
    BY <1>2, <1>4, <1>5, <1>7, <1>8, <2>1, PlainShape DEF Moved
  <2>3. PICK r \in Ref : r = Slot(id, i) /\ Live(r)
    BY <1>1, <1>2, <1>6, <1>10, NotLeaving, SlotLive
  <2>4. Live(r)' /\ Slot(id, i)' = r
    BY <2>1, <2>3 DEF SameLive, SameSlots
  <2>5. Live(task[t].ref)' /\ Own(t)' = task'[t].ref
    BY <1>6, <2>1, <2>3, <2>4, LiveNext
  <2>6. Knows(t)'
    BY <2>1, <2>5 DEF Knows
  <2>7. QED
    BY <1>2, <1>7, <2>2, <2>6 DEF ShapeNext
<1>11. CASE Own(t) = None
  <2>1. ShapeNext(t)
    BY <1>2, <1>3, <1>4, <1>5, <1>6, <1>7, <1>11, InsertedShape DEF Moved
  <2>2. QED
    BY <1>2, <1>7, <2>1
<1>12. QED
  BY <1>10, <1>11

LEMMA CopyPageShape ==
  ASSUME NEW t \in Worker, Lone(t), CopyPage(t)
  PROVE  ShapeNext(t)
<1>1. Base
  BY DEF Lone
<1>2. task[t].pc = "copy" /\ Finished(t)
  BY <1>1, CopyPageFrame
<1>3. /\ SameLive /\ SameSlots /\ UNCHANGED <<file, fds, readQueue>> /\ task[t].ref \in Ref
      /\ IF task[t].op = "write"
         THEN Rewritten(task[t].ref, task[t].val)
         ELSE UNCHANGED <<page, content>>
  BY <1>1, CopyPageEffect
<1>4. SameKeys
  BY <1>3 DEF SameKeys, Rewritten
<1>5. SameFdAt
  BY <1>1, <1>2, PageTables, FdAtKept DEF PageStep, ReadOpened, Answered
<1>6. task[t].victim = None /\ ~Opening(t)
  BY <1>1, <1>2 DEF Base, Victims, Opening
<1>7. task'[t].victim = task[t].victim
  BY <1>2, <1>6 DEF Finished
<1>8. Knows(t)' /\ ~Opening(t)'
  BY <1>2, KnowsDone
<1>9. FdsFound' /\ Matched'
  BY <1>3, <1>4, <1>5, <1>6, <1>7, <1>8, PlainShape
<1>10. QED
  BY <1>8, <1>9 DEF ShapeNext

\* The page evict pops is not the one its caller holds.
PoppedIs(t, id, i, r) ==
  /\ r = lru[Len(lru)] /\ Popped(r) /\ Last = page[r] /\ page[r].key = <<id, i>>
  /\ Slot(id, i) = r /\ table[id] # None
  /\ task[t].ref \in Ref /\ task[t].ref # r /\ Live(task[t].ref) /\ Own(t) = task[t].ref
  /\ task[t].id # id \/ task[t].idx # i

LEMMA EvictPopKnows ==
  ASSUME NEW t \in Worker, Lone(t), EvictPop(t)
  PROVE  /\ \E id \in Id, i \in Idx, r \in Ref : PoppedIs(t, id, i, r)
         /\ task[t].evict = 1 /\ task[t].victim = None /\ task[t].op \in {"read", "write"}
<1>1. Base /\ Shape /\ Knows(t) /\ Matched /\ Overlong
  BY DEF Lone, Shape
<1>2. task[t].pc = "evict" /\ task[t].evict > 0
  BY <1>1, EvictPopFrame
<1>3. task[t].evict = 1 /\ Len(lru) = MaxPages + 1
  BY <1>1, <1>2 DEF Overlong
<1>4. task[t].victim = None /\ task[t].op \in {"read", "write"}
  BY <1>1, <1>2 DEF Base, Victims, Frames, FrameOf, WellFormed
<1>5. /\ lru \in Seq(Ref) /\ lru[Len(lru)] \in Ref
      /\ Last \in Page /\ Last.key[1] \in Id /\ Last.key[2] \in Idx
  BY <1>1, LastPage
<1>6. PICK r \in Ref : r = lru[Len(lru)]
  BY <1>5
<1>7. Popped(r) /\ Last = page[r]
  BY <1>1, <1>6, PopEffect DEF Last
<1>8. Last.key \in Id \X Idx
  BY <1>5 DEF Page, Key
<1>9. PICK id \in Id, i \in Idx : page[r].key = <<id, i>>
  BY <1>7, <1>8
<1>10. Slot(id, i) = r
  BY <1>1, <1>7, <1>9 DEF Matched, Popped
<1>11. table[id] # None
  BY <1>10, CacheAssumption DEF Slot
<1>12. Live(task[t].ref) /\ Own(t) = task[t].ref /\ lru[1] = task[t].ref
  BY <1>1, <1>2 DEF Knows, Holding
<1>13. task[t].ref \in Ref
  BY <1>1, <1>12, LiveRef
<1>14. 1 \in 1..Len(lru) /\ Len(lru) \in 1..Len(lru) /\ Len(lru) # 1
  BY <1>3, CacheAssumption
<1>15. task[t].ref # r
  BY <1>1, <1>6, <1>12, <1>14 DEF Base, ListNodes
<1>16. task[t].id # id \/ task[t].idx # i
  BY <1>10, <1>12, <1>15 DEF Own
<1>17. PoppedIs(t, id, i, r)
  BY <1>6, <1>7, <1>9, <1>10, <1>11, <1>12, <1>13, <1>15, <1>16 DEF PoppedIs
<1>18. QED
  BY <1>3, <1>4, <1>17

LEMMA EvictPopShape ==
  ASSUME NEW t \in Worker, Lone(t), OpensSucceed, EvictPop(t)
  PROVE  ShapeNext(t) /\ (task'[t].pc = "evict_open" => task'[t].ok)
<1>1. Base /\ Shape /\ FdsFound /\ Matched /\ Aside(t)
  BY DEF Lone, Shape
<1>2. /\ \E id \in Id, i \in Idx, r \in Ref : PoppedIs(t, id, i, r)
      /\ task[t].evict = 1 /\ task[t].victim = None /\ task[t].op \in {"read", "write"}
  BY EvictPopKnows
<1>3. PICK id \in Id, i \in Idx, r \in Ref : PoppedIs(t, id, i, r)
  BY <1>2
<1>4. /\ Popped(r) /\ Last = page[r] /\ page[r].key = <<id, i>> /\ Slot(id, i) = r
      /\ table[id] # None /\ Last.key[1] = id /\ Last.key[2] = i
  BY <1>3 DEF PoppedIs
<1>5. /\ task[t].pc = "evict" /\ task'[t].evict = 0
      /\ task'[t].op = task[t].op /\ task'[t].id = task[t].id /\ task'[t].idx = task[t].idx
      /\ task'[t].ref = task[t].ref
      /\ IF ~Last.dirty
         THEN task'[t].pc = "evict" /\ task'[t].victim = task[t].victim
         ELSE /\ task'[t].victim = Last
              /\ IF table[id].write_fd # None
                 THEN task'[t].pc = "enter"
                 ELSE task'[t].pc = "evict_open" /\ Opened(t, id, "w")
  BY <1>1, <1>2, <1>4, EvictPopFrame
<1>6. IF Last.dirty
      THEN /\ SameSlots
           /\ IF FdAt(id, "w") # None THEN fds' = fds
              ELSE "open" \notin Failures /\ FreeFds # {} => task'[t].ok
      ELSE SetSlot(id, i, None) /\ fds' = fds
  BY <1>1, <1>4, EvictPopEffect
<1>7. FdAt(id, "w") = table[id].write_fd
  BY <1>4 DEF FdAt, FdOf
<1>8. SameFdAt
  BY <1>1, EvictPopTable, FdAtKept
<1>9. OnlyOwn(t) /\ ~Opening(t) /\ \A u \in Worker : u # t => ~Opening(u) /\ ~Opening(u)'
  BY <1>1, <1>5, AsideFacts DEF Opening
<1>10. PICK oid \in Id, oi \in Idx : oid = task[t].id /\ oi = task[t].idx
  BY <1>1, <1>2, <1>5, OwnIndex
<1>11. PICK q \in Ref : q = task[t].ref /\ q # r /\ Live(q) /\ Slot(oid, oi) = q /\ (oid # id \/ oi # i)
  BY <1>3, <1>10 DEF PoppedIs, Own
<1>12. Live(q)'
  BY <1>4, <1>11 DEF Popped
<1>13. Slot(oid, oi)' = Slot(oid, oi)
  BY <1>6, <1>11 DEF SetSlot, SameSlots
<1>14. Live(task[t].ref)' /\ Own(t)' = task'[t].ref
  BY <1>5, <1>10, <1>11, <1>12, <1>13, LiveNext, OwnNext
<1>15. CASE ~Last.dirty
  <2>1. task'[t].pc = "evict" /\ task'[t].victim = None /\ SetSlot(id, i, None) /\ fds' = fds
    BY <1>2, <1>5, <1>6, <1>15
  <2>2. ~Opening(t)'
    BY <2>1 DEF Opening
  <2>3. FdsFound'
    BY <1>1, <1>8, <1>9, <2>1, <2>2, FoundKept
  <2>4. Matched'
    BY <1>1, <1>2, <1>4, <1>9, <2>1, NoVictim, MatchedPopped
  <2>5. Knows(t)'
    BY <1>5, <1>14, <2>1 DEF Knows
  <2>6. QED
    BY <2>1, <2>3, <2>4, <2>5 DEF ShapeNext
<1>16. CASE Last.dirty
  <2>1. SameSlots /\ task'[t].victim = page[r] /\ task'[t].pc \in {"enter", "evict_open"}
    BY <1>4, <1>5, <1>6, <1>16
  <2>2. page[r] # None
    BY <1>1, <1>4, LastPage, CacheAssumption
  <2>3. ASSUME NEW k \in Id, NEW j \in Idx
        PROVE  ~Leaving(k, j) /\ (Leaving(k, j)' <=> k = id /\ j = i)
    <3>1. VictimOn(t, k, j)' <=> <<id, i>> = <<k, j>>
      BY <1>4, <2>1, <2>2 DEF VictimOn, Evicting
    <3>2. Leaving(k, j)' <=> VictimOn(t, k, j)'
      BY <1>9 DEF OnlyOwn
    <3>3. ~Leaving(k, j)
      BY <1>1, <1>2, NotLeaving
    <3>4. QED
      BY <3>1, <3>2, <3>3
  <2>4. Matched'
    BY <1>1, <1>4, <2>1, <2>3, MatchedTaken
  <2>5. CASE table[id].write_fd # None
    <3>1. task'[t].pc = "enter" /\ fds' = fds
      BY <1>5, <1>6, <1>7, <1>16, <2>5
    <3>2. ~Opening(t)'
      BY <3>1 DEF Opening
    <3>3. FdsFound'
      BY <1>1, <1>8, <1>9, <3>1, <3>2, FoundKept
    <3>4. Knows(t)'
      BY <1>14, <3>1 DEF Knows
    <3>5. QED
      BY <2>4, <3>1, <3>3, <3>4 DEF ShapeNext
  <2>6. CASE table[id].write_fd = None
    <3>1. task'[t].pc = "evict_open" /\ Opened(t, id, "w") /\ FdAt(id, "w") = None
      BY <1>5, <1>7, <1>16, <2>6
    <3>2. FreeFds # {}
      BY <1>1, <1>9, <3>1, DescriptorLeft DEF Kind
    <3>3. task'[t].ok
      BY <1>6, <1>16, <3>1, <3>2 DEF OpensSucceed
    <3>4. Opening(t)'
      BY <3>1, <3>3 DEF Opening
    <3>5. OpenedAs(t)' = <<id, "w">>
      BY <1>4, <2>1, <3>1 DEF OpenedAs
    <3>6. FdsFound'
      BY <1>1, <1>8, <1>9, <3>1, <3>3, <3>4, <3>5, FoundOpened DEF Kind
    <3>7. Knows(t)'
      BY <1>14, <3>1, <3>3 DEF Knows
    <3>8. QED
      BY <2>4, <3>3, <3>6, <3>7 DEF ShapeNext
  <2>7. QED
    BY <2>5, <2>6
<1>17. QED
  BY <1>15, <1>16

LEMMA EvictDoneShape ==
  ASSUME NEW t \in Worker, Lone(t), EvictDone(t)
  PROVE  ShapeNext(t)
<1>1. Base /\ Shape /\ Knows(t)
  BY DEF Lone, Shape
<1>2. task[t].pc = "evict" /\ task'[t].pc = "copy" /\ Steady(t)
  BY <1>1, EvictDoneFrame
<1>3. table' = table /\ SameData /\ fds' = fds
  BY <1>1, EvictDoneEffect
<1>4. SameSlots /\ SameLive /\ SameKeys
  BY <1>3, SameViews, SameDataShape
<1>5. SameFdAt
  BY <1>3, SameTable, FdAtKept
<1>6. ~Opening(t) /\ ~Opening(t)' /\ Holding(t)
  BY <1>2 DEF Opening, Holding
<1>7. FdsFound' /\ Matched'
  BY <1>2, <1>3, <1>4, <1>5, <1>6, PlainShape DEF Steady
<1>8. Live(task[t].ref)' /\ Own(t)' = task'[t].ref
  BY <1>1, <1>2, <1>4, <1>6, HoldsOn DEF Steady
<1>9. Knows(t)'
  BY <1>2, <1>8 DEF Knows
<1>10. QED
  BY <1>7, <1>9 DEF ShapeNext

LEMMA EvictOpenedShape ==
  ASSUME NEW t \in Worker, Lone(t), EvictOpened(t)
  PROVE  ShapeNext(t) /\ task[t].ok
<1>1. Base /\ Shape /\ FdsFound /\ Matched /\ Aside(t) /\ Knows(t) /\ FdsApart
  BY DEF Lone, Shape, Descriptors
<1>2. task[t].pc = "evict_open"
  BY <1>1, EvictOpenedFrame
<1>3. task[t].ok
  BY <1>1, <1>2 DEF Knows
<1>4. task'[t].pc = "enter" /\ Steady(t)
  BY <1>1, <1>3, EvictOpenedFrame
<1>5. SameSlots /\ SameData /\ UNCHANGED <<fds, readQueue>>
  BY <1>1, <1>3, EvictOpenedEffect
<1>6. SameLive /\ SameKeys
  BY <1>5, SameDataShape
<1>7. task[t].victim # None
  BY <1>1, <1>2 DEF Base, Frames, FrameOf, WellFormed
<1>8. PICK id \in Id : id = task[t].victim.key[1] /\ table[id] # None
  BY <1>1, <1>7, VictimInUse, CacheAssumption
<1>9. /\ KeepsEntries(t)
      /\ table'[id].write_fd = task[t].fd /\ table'[id].read_fd = table[id].read_fd
      /\ \A j \in Id : j # id => table'[j] = table[j]
  BY <1>1, <1>3, <1>8, EvictOpenedTable
<1>10. table'[id] # None
  BY <1>8, <1>9 DEF KeepsEntries
<1>11. /\ FdAt(id, "w")' = task[t].fd
       /\ \A j \in Id, m \in Kind : j # id \/ m # "w" => FdAt(j, m)' = FdAt(j, m)
  BY <1>8, <1>9, <1>10, StoredAt DEF Kind
<1>12. Opening(t) /\ OpenedAs(t) = <<id, "w">> /\ ~Opening(t)' /\ Holding(t)
  BY <1>2, <1>3, <1>4, <1>7, <1>8 DEF Opening, OpenedAs, Holding, Evicting
<1>13. OnlyOwn(t) /\ \A u \in Worker : u # t => ~Opening(u) /\ ~Opening(u)'
  BY <1>1, AsideFacts
<1>14. FdsFound'
  BY <1>1, <1>5, <1>11, <1>12, <1>13, FoundStored DEF Kind
<1>15. Matched'
  BY <1>1, <1>4, <1>5, <1>6, <1>13, SameVictim, MatchedKept DEF Steady
<1>16. Live(task[t].ref)' /\ Own(t)' = task'[t].ref
  BY <1>1, <1>2, <1>4, <1>5, <1>6, <1>12, HoldsOn DEF Steady
<1>17. Knows(t)'
  BY <1>4, <1>16 DEF Knows
<1>18. QED
  BY <1>3, <1>14, <1>15, <1>17 DEF ShapeNext

LEMMA EvictEraseShape ==
  ASSUME NEW t \in Worker, Lone(t), EvictErase(t)
  PROVE  ShapeNext(t)
<1>1. Base /\ Shape /\ FdsFound /\ Matched /\ Aside(t) /\ Knows(t) /\ Overlong
  BY DEF Lone, Shape
<1>2. task[t].pc = "evict_erase" /\ Dropped(t)
  BY <1>1, EvictEraseFrame
<1>3. task[t].victim # None
  BY <1>1, <1>2 DEF Base, Frames, FrameOf, WellFormed
<1>4. task[t].op \in {"read", "write"}
  BY <1>1, <1>3 DEF Base, Victims
<1>5. task[t].victim.key \in Id \X Idx
  BY <1>1, <1>3, VictimInUse DEF Key
<1>6. PICK id \in Id, i \in Idx : task[t].victim.key = <<id, i>>
  BY <1>5
<1>7. SameData /\ UNCHANGED <<fds, readQueue>> /\ SetSlot(id, i, None)
  <2>1. task[t].victim.key[1] = id /\ task[t].victim.key[2] = i
    BY <1>6
  <2>2. /\ SameResult(t) /\ SameDirty /\ SameData /\ UNCHANGED <<fds, readQueue>>
        /\ SetSlot(task[t].victim.key[1], task[t].victim.key[2], None)
    BY <1>1, EvictEraseEffect
  <2>3. QED
    BY <2>1, <2>2
<1>8. SameLive /\ SameKeys
  BY <1>7, SameDataShape
<1>9. SameFdAt
  BY <1>1, EvictEraseTable, FdAtKept
<1>10. OnlyOwn(t) /\ \A u \in Worker : u # t => ~Opening(u) /\ ~Opening(u)'
  BY <1>1, AsideFacts
<1>11. ~Opening(t) /\ ~Opening(t)' /\ Holding(t)
  BY <1>2, <1>3 DEF Opening, Holding, Evicting, Dropped
<1>12. FdsFound'
  BY <1>1, <1>7, <1>9, <1>10, <1>11, FoundKept
<1>13. ASSUME NEW k \in Id, NEW j \in Idx
       PROVE  (Leaving(k, j) <=> k = id /\ j = i) /\ ~Leaving(k, j)'
  <2>1. VictimOn(t, k, j) <=> <<id, i>> = <<k, j>>
    BY <1>3, <1>6 DEF VictimOn, Evicting
  <2>2. ~VictimOn(t, k, j)'
    BY <1>2 DEF VictimOn, Evicting, Dropped
  <2>3. (Leaving(k, j) <=> VictimOn(t, k, j)) /\ (Leaving(k, j)' <=> VictimOn(t, k, j)')
    BY <1>10 DEF OnlyOwn
  <2>4. QED
    BY <2>1, <2>2, <2>3
<1>14. Matched'
  BY <1>1, <1>7, <1>8, <1>13, MatchedErased
<1>15. PICK oid \in Id, oi \in Idx : oid = task[t].id /\ oi = task[t].idx
  BY <1>1, <1>2, <1>4, OwnIndex
<1>16. PICK q : q = task[t].ref /\ Live(q) /\ Slot(oid, oi) = q
  BY <1>1, <1>11, <1>15 DEF Knows, Own
<1>17. q \in Ref
  BY <1>1, <1>16, LiveRef
<1>18. oid # id \/ oi # i
  BY <1>1, <1>13, <1>16, <1>17 DEF Matched
<1>19. Live(q)' /\ Slot(oid, oi)' = q
  BY <1>7, <1>8, <1>16, <1>17, <1>18 DEF SameLive, SetSlot
<1>20. Live(task[t].ref)' /\ Own(t)' = task'[t].ref
  BY <1>2, <1>15, <1>16, <1>19, LiveNext, OwnNext DEF Dropped
<1>21. ~(task[t].evict > 0)
  BY <1>1, <1>2 DEF Overlong
<1>22. Knows(t)'
  BY <1>2, <1>20, <1>21 DEF Knows, Dropped
<1>23. QED
  BY <1>12, <1>14, <1>22 DEF ShapeNext

\* The page flush_at works on: evict's, or the one of the loop in flush.
FlushesPage(t, id, i) ==
  /\ FlushedFile(t) = id /\ Subject(t).key = <<id, i>>
  /\ IF Evicting(t) THEN VictimOn(t, id, i)
     ELSE /\ task[t].op = "flush" /\ task[t].id = id /\ task[t].idx = i
          /\ task[t].ref \in Ref /\ Live(task[t].ref) /\ Slot(id, i) = task[t].ref

LEMMA FlushKnows ==
  ASSUME NEW t \in Worker, Lone(t), task[t].pc \in {"body", "flush_ack"}, InFunction(t) = "flush"
  PROVE  Holding(t) /\ \E id \in Id, i \in Idx : FlushesPage(t, id, i)
<1>1. Base /\ Shape /\ Matched /\ Aside(t) /\ Knows(t)
  BY DEF Lone, Shape
<1>2. Holding(t)
  BY DEF Holding, InFunction, Evicting
<1>3. CASE Evicting(t)
  <2>1. task[t].victim.key \in Id \X Idx
    BY <1>1, <1>3, VictimInUse DEF Key, Evicting
  <2>2. PICK id \in Id, i \in Idx : task[t].victim.key = <<id, i>>
    BY <2>1
  <2>3. FlushesPage(t, id, i)
    BY <1>3, <2>2 DEF FlushesPage, FlushedFile, Subject, VictimOn
  <2>4. QED
    BY <1>2, <2>3
<1>4. CASE ~Evicting(t)
  <2>1. task[t].op = "flush" /\ task[t].victim = None
    BY <1>4 DEF InFunction, Evicting
  <2>2. PICK id \in Id, i \in Idx : id = task[t].id /\ i = task[t].idx
    BY <1>1, <2>1, OwnIndex
  <2>3. Live(task[t].ref) /\ Slot(id, i) = task[t].ref
    BY <1>1, <1>2, <2>2 DEF Knows, Own
  <2>4. task[t].ref \in Ref
    BY <1>1, <2>3, LiveRef
  <2>5. page[task[t].ref].key = <<id, i>>
    BY <1>1, <2>1, <2>3, <2>4, NotLeaving DEF Matched
  <2>6. FlushesPage(t, id, i)
    BY <1>4, <2>1, <2>2, <2>3, <2>4, <2>5 DEF FlushesPage, FlushedFile, Subject
  <2>7. QED
    BY <1>2, <2>6
<1>5. QED
  BY <1>3, <1>4

LEMMA FlushWriteShape ==
  ASSUME NEW t \in Worker, Lone(t), FlushWrite(t)
  PROVE  ShapeNext(t)
<1>1. Base /\ Shape /\ Knows(t) /\ FdsValid
  BY DEF Lone, Shape, Descriptors
<1>2. /\ task[t].pc = "body" /\ InFunction(t) = "flush"
      /\ task'[t].pc = "flush_ack" /\ Steady(t)
  BY <1>1, FlushWriteFrame
<1>3. UNCHANGED <<table, lru, page, fds>>
  BY DEF FlushWrite
<1>4. SameSlots /\ SameLive /\ SameKeys
  BY <1>3, SameViews, SameLiveList DEF SameKeys
<1>5. SameFdAt
  BY <1>3, SameTable, FdAtKept
<1>6. ~Opening(t) /\ ~Opening(t)' /\ Holding(t)
  BY <1>2, FlushKnows DEF Opening
<1>7. FdsFound' /\ Matched'
  BY <1>2, <1>3, <1>4, <1>5, <1>6, PlainShape DEF Steady
<1>8. Live(task[t].ref)' /\ Own(t)' = task'[t].ref
  BY <1>1, <1>2, <1>4, <1>6, HoldsOn DEF Steady
<1>9. Knows(t)'
  BY <1>2, <1>8 DEF Knows
<1>10. QED
  BY <1>7, <1>9 DEF ShapeNext

LEMMA FlushAckShape ==
  ASSUME NEW t \in Worker, Lone(t), FlushAck(t)
  PROVE  ShapeNext(t) /\ InFunction(t) = "flush"
<1>1. Base /\ Shape /\ Knows(t)
  BY DEF Lone, Shape
<1>2. task[t].pc = "flush_ack" /\ task'[t].pc = AfterFlushAt(t) /\ Steady(t)
  BY <1>1, FlushAckFrame
<1>3. InFunction(t) = "flush"
  BY <1>1, <1>2 DEF Base, Frames, FrameOf, WellFormed, InFunction
<1>4. /\ UNCHANGED <<table, lru, file, content, fds, readQueue>>
      /\ IF task[t].ok /\ ~Evicting(t) THEN Cleaned(task[t].ref) ELSE page' = page
  BY <1>1, FlushAckEffect
<1>5. SameSlots /\ SameLive
  BY <1>4, SameViews, SameLiveList
<1>6. SameKeys
  BY <1>4 DEF SameKeys, Cleaned
<1>7. SameFdAt
  BY <1>4, SameTable, FdAtKept
<1>8. ~Opening(t) /\ ~Opening(t)' /\ Holding(t)
  BY <1>2, <1>3, FlushKnows DEF Opening, AfterFlushAt
<1>9. FdsFound' /\ Matched'
  BY <1>2, <1>4, <1>5, <1>6, <1>7, <1>8, PlainShape DEF Steady
<1>10. Live(task[t].ref)' /\ Own(t)' = task'[t].ref
  BY <1>1, <1>2, <1>5, <1>8, HoldsOn DEF Steady
<1>11. Knows(t)'
  BY <1>2, <1>10 DEF Knows, AfterFlushAt
<1>12. QED
  BY <1>3, <1>9, <1>11 DEF ShapeNext

\* flush takes its lock; the fd it stores is the entry's or the one it opened.
LEMMA LockStores ==
  ASSUME Base, NEW t \in Worker, task[t].pc # "idle", NEW fd \in Fd \cup {None},
         table' = LockWrite(t, fd), NEW id \in Id, id = task[t].id
  PROVE  /\ FdAt(id, "w")' = fd
         /\ \A j \in Id, m \in Kind : j # id \/ m # "w" => FdAt(j, m)' = FdAt(j, m)
<1>1. /\ KeepsEntries(t)
      /\ table'[id].write_fd = fd /\ table'[id].read_fd = table[id].read_fd
      /\ \A i \in Id : i # id => table'[i] = table[i]
  BY LockWriteTable
<1>2. table[id] # None
  BY OwnSlot
<1>3. table'[id] # None
  BY <1>1, <1>2 DEF KeepsEntries
<1>4. QED
  BY <1>1, <1>2, <1>3, StoredAt DEF Kind

LEMMA FlushShape ==
  ASSUME NEW t \in Worker, Lone(t), OpensSucceed, Flush(t)
  PROVE  ShapeNext(t) /\ (task'[t].pc = "flush_open" => task'[t].ok)
<1>1. Base /\ Shape /\ FdsFound /\ Matched /\ Aside(t) /\ Knows(t)
  BY DEF Lone, Shape
<1>2. /\ task[t].pc = "flush"
      /\ \/ Finished(t) /\ UNCHANGED <<table, fds>>
         \/ task'[t].pc = "flush_next" /\ Steady(t) /\ fds' = fds
            /\ table[task[t].id].write_fd # None
            /\ table' = LockWrite(t, table[task[t].id].write_fd)
         \/ /\ Requested(t, "flush_open") /\ Opened(t, task[t].id, "w") /\ table' = table
            /\ task'[t].evict = task[t].evict /\ task'[t].victim = task[t].victim
  BY <1>1, FlushFrame
<1>3. /\ SameSlots /\ SameDirty /\ SameData /\ UNCHANGED readQueue
      /\ \/ task'[t].pc = "done" /\ task'[t].ok
         \/ task'[t].pc = "flush_next" /\ SameResult(t)
         \/ /\ task'[t].pc = "flush_open" /\ FdAt(task[t].id, "w") = None
            /\ "open" \notin Failures /\ FreeFds # {} => task'[t].ok
  BY <1>1, FlushEffect
<1>4. SameLive /\ SameKeys
  BY <1>3, SameDataShape
<1>5. task[t].victim = None /\ ~Opening(t) /\ task[t].idx = -1
  BY <1>1, <1>2 DEF Base, Victims, Opening, Knows
<1>6. OnlyOwn(t) /\ \A u \in Worker : u # t => ~Opening(u) /\ ~Opening(u)'
  BY <1>1, AsideFacts
<1>7. PICK id \in Id : id = task[t].id
  BY <1>1, <1>2, OwnIndex
<1>8. CASE Finished(t) /\ UNCHANGED <<table, fds>>
  <2>1. SameFdAt
    BY <1>8, SameTable, FdAtKept
  <2>2. Knows(t)' /\ ~Opening(t)' /\ task'[t].victim = task[t].victim
    BY <1>5, <1>8, KnowsDone DEF Finished
  <2>3. FdsFound' /\ Matched'
    BY <1>3, <1>4, <1>5, <1>8, <2>1, <2>2, PlainShape
  <2>4. QED
    BY <1>8, <2>2, <2>3 DEF ShapeNext, Finished
<1>9. CASE /\ task'[t].pc = "flush_next" /\ Steady(t) /\ fds' = fds
           /\ table' = LockWrite(t, table[task[t].id].write_fd)
  <2>1. table[id] # None /\ FdAt(id, "w") = table[id].write_fd
    BY <1>1, <1>2, <1>7, OwnSlot
  <2>2. PICK fd \in Fd \cup {None} : fd = table[id].write_fd
    BY <1>1, <2>1, TableTyped
  <2>3. /\ FdAt(id, "w")' = fd
        /\ \A j \in Id, m \in Kind : j # id \/ m # "w" => FdAt(j, m)' = FdAt(j, m)
    BY <1>1, <1>2, <1>7, <1>9, <2>2, LockStores
  <2>4. SameFdAt
    BY <2>1, <2>2, <2>3 DEF SameFdAt
  <2>5. ~Opening(t)' /\ ~Holding(t)'
    BY <1>5, <1>9 DEF Opening, Holding, Evicting, Steady
  <2>6. FdsFound' /\ Matched'
    BY <1>3, <1>4, <1>5, <1>9, <2>4, <2>5, PlainShape DEF Steady
  <2>7. Knows(t)'
    BY <1>5, <1>9, <2>5 DEF Knows, Steady
  <2>8. QED
    BY <1>9, <2>6, <2>7 DEF ShapeNext
<1>10. CASE /\ Requested(t, "flush_open") /\ Opened(t, task[t].id, "w") /\ table' = table
            /\ task'[t].victim = task[t].victim
  <2>1. /\ task'[t].pc = "flush_open" /\ task'[t].id = id /\ task'[t].idx = -1
        /\ Opened(t, id, "w")
    BY <1>5, <1>7, <1>10 DEF Requested
  <2>2. FdAt(id, "w") = None /\ ("open" \notin Failures /\ FreeFds # {} => task'[t].ok)
    BY <1>3, <1>7, <2>1
  <2>3. FreeFds # {}
    BY <1>1, <1>5, <1>6, <2>2, DescriptorLeft DEF Kind
  <2>4. task'[t].ok
    BY <2>2, <2>3 DEF OpensSucceed
  <2>5. SameFdAt
    BY <1>10, SameTable, FdAtKept
  <2>6. Opening(t)' /\ OpenedAs(t)' = <<id, "w">> /\ ~Holding(t)'
    BY <1>5, <1>10, <2>1, <2>4 DEF Opening, OpenedAs, Holding, Evicting
  <2>7. FdsFound'
    BY <1>1, <1>5, <1>6, <2>1, <2>2, <2>4, <2>5, <2>6, FoundOpened DEF Kind
  <2>8. Matched'
    BY <1>1, <1>3, <1>4, <1>6, <1>10, SameVictim, MatchedKept
  <2>9. Knows(t)'
    BY <2>1, <2>4, <2>6 DEF Knows
  <2>10. QED
    BY <2>4, <2>7, <2>8, <2>9 DEF ShapeNext
<1>11. QED
  BY <1>2, <1>8, <1>9, <1>10

LEMMA FlushOpenedShape ==
  ASSUME NEW t \in Worker, Lone(t), FlushOpened(t)
  PROVE  ShapeNext(t) /\ task[t].ok
<1>1. Base /\ Shape /\ FdsFound /\ Matched /\ Aside(t) /\ Knows(t) /\ FdsApart
  BY DEF Lone, Shape, Descriptors
<1>2. task[t].pc = "flush_open"
  BY <1>1, FlushOpenedFrame
<1>3. task[t].ok /\ task[t].idx = -1
  BY <1>1, <1>2 DEF Knows
<1>4. task'[t].pc = "flush_next" /\ Steady(t) /\ table' = LockWrite(t, task[t].fd)
  BY <1>1, <1>3, FlushOpenedFrame
<1>5. SameSlots /\ SameData /\ UNCHANGED <<fds, readQueue>>
  BY <1>1, <1>3, FlushOpenedEffect
<1>6. SameLive /\ SameKeys
  BY <1>5, SameDataShape
<1>7. task[t].victim = None
  BY <1>1, <1>2 DEF Base, Victims
<1>8. PICK id \in Id : id = task[t].id
  BY <1>1, <1>2, OwnIndex
<1>9. PICK fd \in Fd \cup {None} : fd = task[t].fd
  BY <1>1, FdTyped
<1>10. /\ FdAt(id, "w")' = fd
       /\ \A j \in Id, m \in Kind : j # id \/ m # "w" => FdAt(j, m)' = FdAt(j, m)
  BY <1>1, <1>2, <1>4, <1>8, <1>9, LockStores
<1>11. Opening(t) /\ OpenedAs(t) = <<id, "w">> /\ ~Opening(t)' /\ ~Holding(t)'
  BY <1>2, <1>3, <1>4, <1>7, <1>8 DEF Opening, OpenedAs, Holding, Evicting, Steady
<1>12. OnlyOwn(t) /\ \A u \in Worker : u # t => ~Opening(u) /\ ~Opening(u)'
  BY <1>1, AsideFacts
<1>13. FdsFound'
  BY <1>1, <1>5, <1>9, <1>10, <1>11, <1>12, FoundStored DEF Kind
<1>14. Matched'
  BY <1>1, <1>4, <1>5, <1>6, <1>12, SameVictim, MatchedKept DEF Steady
<1>15. Knows(t)'
  BY <1>3, <1>4, <1>11 DEF Knows, Steady
<1>16. QED
  BY <1>3, <1>13, <1>14, <1>15 DEF ShapeNext

LEMMA FlushNextShape ==
  ASSUME NEW t \in Worker, Lone(t), FlushNext(t)
  PROVE  ShapeNext(t) /\ task[t].op = "flush" /\ task[t].victim = None
<1>1. Base /\ Shape /\ Knows(t)
  BY DEF Lone, Shape
<1>2. task[t].pc = "flush_next"
  BY <1>1, FlushNextFrame
<1>3. task[t].victim = None /\ task[t].op = "flush" /\ ~Opening(t)
  BY <1>1, <1>2 DEF Base, Victims, Frames, FrameOf, WellFormed, Opening
<1>4. PICK id \in Id : id = task[t].id
  BY <1>1, <1>2, OwnIndex
<1>5. /\ SameSlots /\ SameData /\ UNCHANGED <<fds, readQueue>>
      /\ \/ /\ SameDirty /\ SameResult(t)
            /\ \E i \in Idx : StopsAt(t, id, i)
         \/ EndsFlush(t, id)
  BY <1>1, <1>4, FlushNextEffect
<1>6. SameLive /\ SameKeys
  BY <1>5, SameDataShape
<1>7. SameFdAt
  BY <1>1, FlushNextTable, FdAtKept
<1>8. \/ task'[t].pc = "enter" /\ task'[t].id = id /\ task'[t].victim = None
      \/ Finished(t)
  BY <1>1, <1>3, <1>4, FlushNextFrame
<1>9. CASE task'[t].pc = "enter" /\ task'[t].id = id /\ task'[t].victim = None
  <2>1. PICK i \in Idx : StopsAt(t, id, i)
    BY <1>5, <1>9 DEF EndsFlush
  <2>2. ~Opening(t)'
    BY <1>9 DEF Opening
  <2>3. FdsFound' /\ Matched'
    BY <1>3, <1>5, <1>6, <1>7, <1>9, <2>2, PlainShape
  <2>4. PICK r : r = Slot(id, i) /\ task'[t].ref = r /\ Live(r) /\ task'[t].idx = i
    BY <2>1 DEF StopsAt
  <2>5. r \in Ref
    BY <1>1, <2>4, LiveRef
  <2>6. Live(r)' /\ Slot(id, i)' = r
    BY <1>5, <1>6, <2>4, <2>5 DEF SameLive, SameSlots
  <2>7. Live(task[t].ref)' /\ Own(t)' = task'[t].ref
    BY <1>9, <2>4, <2>6, LiveNext, OwnNext
  <2>8. Knows(t)'
    BY <1>9, <2>7 DEF Knows
  <2>9. QED
    BY <1>3, <2>3, <2>8 DEF ShapeNext
<1>10. CASE Finished(t)
  <2>1. Knows(t)' /\ ~Opening(t)' /\ task'[t].victim = task[t].victim
    BY <1>3, <1>10, KnowsDone DEF Finished
  <2>2. FdsFound' /\ Matched'
    BY <1>3, <1>5, <1>6, <1>7, <2>1, PlainShape
  <2>3. QED
    BY <1>3, <2>1, <2>2 DEF ShapeNext
<1>11. QED
  BY <1>8, <1>9, <1>10

\* A step of a frame keeps the shape; nobody is ever woken.
LEMMA WorkerShape ==
  ASSUME Base, Descriptors, Waiting, Overlong, Shape, OpensSucceed,
         NEW t \in Worker, PageStep(t) \/ FlushStep(t)
  PROVE  Lone(t) /\ ~Woken(t) /\ Shape'
<1>1. Aside(t)
  BY OthersIdle DEF Descriptors, Shape
<1>2. Lone(t)
  BY <1>1 DEF Lone
<1>3. ~Woken(t)
  BY DEF Woken, MayRun, Shape, Knows
<1>4. ShapeNext(t)
  <2>1. CASE PageStep(t)
    BY <1>2, <1>3, <2>1, EnterShape, ReadFindShape, ReadOpenedShape, ReadFetchShape,
       ReadFilledShape, WriteFindShape, CopyPageShape DEF PageStep
  <2>2. CASE FlushStep(t)
    BY <1>2, <2>2, EvictPopShape, EvictDoneShape, EvictOpenedShape, EvictEraseShape,
       FlushWriteShape, FlushAckShape, FlushShape, FlushOpenedShape, FlushNextShape DEF FlushStep
  <2>3. QED
    BY <2>1, <2>2
<1>5. OneFrame' /\ \A u \in Worker : u # t => Knows(u)'
  BY <1>1, AsideFacts
<1>6. Shape'
  BY <1>4, <1>5 DEF Shape, ShapeNext
<1>7. QED
  BY <1>2, <1>3, <1>6

-----------------------------------------------------------------------------
(* Nothing dangles *)

LEMMA NeverDangles ==
  ASSUME Base, Shape, NEW t \in Worker
  PROVE  ~Dangle(t)
<1> SUFFICES ASSUME Dangle(t) PROVE FALSE
  OBVIOUS
<1>1. Knows(t) /\ Matched /\ OneFrame
  BY DEF Shape
<1>2. task[t].pc # "idle"
  BY DEF Dangle
<1>3. Own(t) = table[task[t].id].pages[task[t].idx]
  BY <1>2, OwnSlot
<1>4. CASE task[t].pc = "copy" /\ ~IteratorValid(t)
  BY <1>1, <1>3, <1>4 DEF Knows, Holding, IteratorValid
<1>5. CASE task[t].pc = "body" /\ InFunction(t) = "flush" /\ ~SubjectLive(t)
  BY <1>1, <1>5 DEF Knows, Holding, InFunction, SubjectLive, Evicting
<1>6. CASE task[t].pc = "flush_ack" /\ ~SubjectLive(t)
  <2>1. task[t].op = "flush" \/ task[t].victim # None
    BY <1>6 DEF Base, Frames, FrameOf, WellFormed
  <2>2. QED
    BY <1>1, <1>6, <2>1 DEF Knows, Holding, SubjectLive, Evicting
<1>7. CASE task[t].pc = "flush_next" /\ ~LoopValid(t)
  BY <1>1, <1>3, <1>7 DEF Knows, LoopValid
<1>8. CASE /\ task[t].pc = "flush_next"
           /\ \E i \in Idx : FirstStop(t, i) /\ ~Live(table[task[t].id].pages[i])
  <2>1. PICK i \in Idx : FirstStop(t, i) /\ ~Live(table[task[t].id].pages[i])
    BY <1>8
  <2>2. PICK id \in Id : id = task[t].id /\ table[id] # None
    BY <1>2, OwnSlot
  <2>3. Slot(id, i) = table[task[t].id].pages[i] /\ Slot(id, i) # None
    BY <2>1, <2>2 DEF Slot, FirstStop, FlushStops
  <2>4. ~Leaving(id, i)
    <3>1. ASSUME NEW u \in Worker, VictimOn(u, id, i)
          PROVE  FALSE
      <4>1. task[u].victim # None
        BY <3>1 DEF VictimOn, Evicting
      <4>2. task[u].pc # "idle" /\ task[u].pc # "flush_next"
        BY <4>1 DEF Base, Victims
      <4>3. QED
        BY <1>1, <1>8, <4>2 DEF OneFrame
    <3>2. QED
      BY <3>1 DEF Leaving
  <2>5. QED
    BY <1>1, <2>1, <2>3, <2>4, SlotLive
<1>9. QED
  BY <1>4, <1>5, <1>6, <1>7, <1>8 DEF Dangle

LEMMA WorkerRuns ==
  ASSUME NEW t \in Worker, PageStep(t) \/ FlushStep(t)
  PROVE  running' \in {None, t}
<1>1. CASE PageStep(t)
  BY <1>1 DEF PageStep, Enter, Woken, ReadFind, ReadOpened, ReadFetch, ReadFilled, WriteFind,
              CopyPage, SendOpen, Keep, Yield
<1>2. CASE FlushStep(t)
  BY <1>2 DEF FlushStep, EvictPop, EvictDone, EvictOpened, EvictErase, FlushWrite, FlushAck,
              Flush, FlushOpened, FlushNext, SendOpen, Keep, Yield
<1>3. QED
  BY <1>1, <1>2

-----------------------------------------------------------------------------
(* The steps of the caller *)

\* A frame a step of the caller leaves or makes.
Fresh(u) ==
  /\ task'[u].pc \in {"idle", "done", "enter", "flush"} /\ task'[u].victim = None
  /\ task'[u].pc = "enter" => task'[u].op \in {"read", "write"}
  /\ task'[u].pc = "flush" => task'[u].idx = -1 /\ task'[u].op = "flush"
  /\ task'[u].pc = "enter" /\ task'[u].op = "write" => DirtyEntry(task[u].id)'
  /\ task'[u].ok \/ task'[u].ok = task[u].ok

ClientEffect ==
  /\ SameSlots /\ UNCHANGED <<lru, page, file, content>>
  /\ \A id \in Id : DirtyEntry(id) => DirtyEntry(id)'
  /\ OneFrame' /\ \A u \in Worker : task[u].pc \in {"idle", "done"} /\ Fresh(u)

LEMMA FreshSame ==
  ASSUME Base, NEW u \in Worker, task[u].pc \in {"idle", "done"}, task'[u] = task[u]
  PROVE  Fresh(u)
<1>1. task[u].victim = None
  BY DEF Base, Victims
<1>2. QED
  BY <1>1 DEF Fresh

LEMMA FreshIdle ==
  ASSUME NEW u, task'[u] = Idle
  PROVE  Fresh(u) /\ task'[u].pc = "idle"
<1>1. task'[u].pc = "idle" /\ task'[u].victim = None /\ task'[u].ok
  BY DEF Idle
<1>2. QED
  BY <1>1 DEF Fresh

\* There is one caller.
LEMMA OnlyClient ==
  ASSUME Alone, NEW c \in Client, NEW u \in Worker
  PROVE  u[2] \in Idx /\ u = <<c, u[2]>>
<1>1. u[1] \in Client /\ u[2] \in Idx /\ u = <<u[1], u[2]>>
  BY DEF Worker
<1>2. QED
  BY <1>1 DEF Alone

LEMMA AllIdle ==
  ASSUME Base, Alone, NEW c \in Client, client[c].op \notin Busy
  PROVE  \A u \in Worker : task[u].pc = "idle"
BY IdleClient, OnlyClient

LEMMA OpenEffect ==
  ASSUME Base, Alone, NEW c \in Client, NEW id \in Id, NEW mode \in Modes, Open(c, id, mode)
  PROVE  ClientEffect
<1> DEFINE old == IF table[id] = None THEN NewEntry ELSE table[id]
           x == old.reader + One(Reads(mode))
           y == old.writer + One(Writes(mode))
           g == [old EXCEPT !.reader = x, !.writer = y]
<1>1. /\ client[c].op = "closed" /\ UNCHANGED <<lru, page, file, content, task>>
      /\ table' = [table EXCEPT ![id] = [old EXCEPT !.reader = @ + One(Reads(mode)),
                                                    !.writer = @ + One(Writes(mode))]]
  BY DEF Open
<1>2. old \in Entry
  BY NewEntryIsEntry DEF Base, TypeOK
<1>3. [old EXCEPT !.reader = @ + One(Reads(mode)), !.writer = @ + One(Writes(mode))] = g
  <2> HIDE DEF old
  <2> QED BY <1>2 DEF Entry
<1>4. table \in [Id -> Entry \cup {None}]
  BY DEF Base, TypeOK
<1>5. table'[id] = g /\ \A k \in Id : k # id => table'[k] = table[k]
  <2> HIDE DEF g, old
  <2> QED BY <1>1, <1>3, <1>4
<1>6. g.pages = old.pages /\ g.dirty = old.dirty /\ g # None
  <2>1. x \in Nat /\ y \in Nat
    <3>1. old.reader \in Nat /\ old.writer \in Nat
      <4> HIDE DEF old
      <4> QED BY <1>2 DEF Entry
    <3> HIDE DEF old
    <3>2. QED
      BY <3>1 DEF One
  <2> HIDE DEF x, y, old
  <2>2. g \in Entry
    BY <1>2, <2>1, CountsTyped
  <2>3. QED
    BY <1>2, <2>2, CacheAssumption DEF Entry
<1> HIDE DEF g
<1>7. ASSUME NEW k \in Id, NEW i \in Idx
      PROVE  Slot(k, i)' = Slot(k, i)
  <2>1. CASE k # id
    BY <1>5, <2>1 DEF Slot
  <2>2. CASE k = id /\ table[id] # None
    BY <1>5, <1>6, <2>2 DEF Slot
  <2>3. CASE k = id /\ table[id] = None
    <3>1. old.pages = [j \in Idx |-> None]
      BY <2>3 DEF NewEntry
    <3> HIDE DEF old
    <3>2. QED
      BY <1>5, <1>6, <2>3, <3>1 DEF Slot
  <2>4. QED
    BY <2>1, <2>2, <2>3
<1>8. ASSUME NEW k \in Id, DirtyEntry(k)
      PROVE  DirtyEntry(k)'
  <2>1. CASE k # id
    BY <1>5, <1>8, <2>1 DEF DirtyEntry
  <2>2. CASE k = id
    BY <1>5, <1>6, <1>8, <2>2 DEF DirtyEntry
  <2>3. QED
    BY <2>1, <2>2
<1>9. \A u \in Worker : task[u].pc = "idle"
  BY <1>1, AllIdle DEF Busy
<1>10. OneFrame'
  BY <1>1, <1>9 DEF OneFrame
<1>11. \A u \in Worker : task[u].pc \in {"idle", "done"} /\ Fresh(u)
  BY <1>1, <1>9, FreshSame
<1>12. QED
  BY <1>1, <1>7, <1>8, <1>10, <1>11 DEF ClientEffect, SameSlots

LEMMA BeginEffect ==
  ASSUME Base, Alone, NEW c \in Client, NEW op \in {"read", "write"}, NEW i \in Idx,
         NEW v \in Bytes, Begin(c, op, i, i, v)
  PROVE  ClientEffect
<1> DEFINE e == table[client[c].id]
           d == IF op = "write" THEN TRUE ELSE e.dirty
           o == <<c, i>>
<1>1. /\ client[c].op = "open" /\ e # None /\ UNCHANGED <<lru, page, file, content>>
      /\ table' = [table EXCEPT ![client[c].id].dirty = d]
      /\ task' = [t \in Task |-> IF t \in {c} \X (i..i)
           THEN [Idle EXCEPT !.pc = "enter", !.op = op, !.id = client[c].id, !.idx = t[2], !.val = v]
           ELSE task[t]]
  BY DEF Begin
<1>2. client[c].id \in Id /\ e \in Entry
  BY <1>1 DEF Base, Handles, TypeOK
<1>3. PICK id \in Id : id = client[c].id
  BY <1>2
<1>4. d \in BOOLEAN
  <2>1. e.dirty \in BOOLEAN
    <3> HIDE DEF e
    <3> QED BY <1>2 DEF Entry
  <2>2. QED
    BY <2>1
<1> DEFINE g == [e EXCEPT !.dirty = d]
<1>5. g \in Entry /\ g.pages = e.pages /\ g.dirty = d
  <2> HIDE DEF e, d
  <2> QED BY <1>2, <1>4 DEF Entry
<1>6. table' = [table EXCEPT ![id] = g]
  <2> HIDE DEF d
  <2> QED BY <1>1, <1>3
<1> HIDE DEF g
<1>7. /\ \A j \in Idx : Slot(id, j)' = g.pages[j] /\ Slot(id, j) = table[id].pages[j]
      /\ \A k \in Id, j \in Idx : k # id => Slot(k, j)' = Slot(k, j)
      /\ DirtyEntry(id)' <=> g.dirty
      /\ DirtyEntry(id) <=> table[id].dirty
      /\ \A k \in Id : k # id => (DirtyEntry(k)' <=> DirtyEntry(k))
  BY <1>1, <1>3, <1>5, <1>6, EntryViews
<1>8. SameSlots
  BY <1>3, <1>5, <1>7 DEF SameSlots
<1>9. DirtyEntry(id) => DirtyEntry(id)'
  BY <1>3, <1>5, <1>7
<1>10. op = "write" => DirtyEntry(id)'
  BY <1>5, <1>7
<1>11. \A u \in Worker : task[u].pc = "idle"
  BY <1>1, AllIdle DEF Busy
<1>12. o \in Task /\ o \in {c} \X (i..i)
  BY DEF Task, Worker, Idx
<1>13. task'[o] = [Idle EXCEPT !.pc = "enter", !.op = op, !.id = client[c].id, !.idx = o[2], !.val = v]
  BY <1>1, <1>12
<1>14. /\ task'[o].pc = "enter" /\ task'[o].op = op /\ task'[o].id = id /\ task'[o].victim = None
       /\ task'[o].ok
  BY <1>3, <1>13 DEF Idle
<1>15. ASSUME NEW u \in Worker, u # o
       PROVE  task'[u] = task[u]
  <2>1. u \notin {c} \X (i..i) /\ u \in Task
    BY <1>15 DEF Task, Idx
  <2>2. QED
    BY <1>1, <2>1
<1>16. op = "write" => DirtyEntry(task[o].id)'
  BY <1>10, <1>14 DEF DirtyEntry
<1>17. Fresh(o)
  BY <1>14, <1>16 DEF Fresh
<1>18. \A u \in Worker : task[u].pc \in {"idle", "done"} /\ Fresh(u)
  BY <1>11, <1>15, <1>17, FreshSame
<1>19. OneFrame'
  BY <1>11, <1>15 DEF OneFrame
<1>20. QED
  BY <1>1, <1>7, <1>8, <1>9, <1>18, <1>19 DEF ClientEffect

LEMMA EndIOEffect ==
  ASSUME Base, Alone, NEW c \in Client, EndIO(c)
  PROVE  ClientEffect
<1>1. /\ \A i \in Idx : task[<<c, i>>].pc \in {"idle", "done"}
      /\ task' = [t \in Task |-> IF t \in {c} \X Idx THEN Idle ELSE task[t]]
      /\ UNCHANGED <<table, lru, page, file, content>>
  BY DEF EndIO
<1>2. ASSUME NEW u \in Worker
      PROVE  task[u].pc \in {"idle", "done"} /\ task'[u] = Idle
  <2>1. u[2] \in Idx /\ u = <<c, u[2]>> /\ u \in Task
    BY OnlyClient DEF Task
  <2>2. u \in {c} \X Idx
    BY <2>1
  <2>3. task[<<c, u[2]>>].pc \in {"idle", "done"}
    BY <1>1, <2>1
  <2>4. QED
    BY <1>1, <2>1, <2>2, <2>3
<1>3. \A u \in Worker : Fresh(u) /\ task'[u].pc = "idle"
  BY <1>2, FreshIdle
<1>4. OneFrame'
  BY <1>3 DEF OneFrame
<1>5. QED
  BY <1>1, <1>2, <1>3, <1>4, SameViews DEF ClientEffect, SameDirty

LEMMA BeginFlushEffect ==
  ASSUME Base, Alone, NEW c \in Client, NEW op \in {"flush", "release"}, BeginFlush(c, op)
  PROVE  ClientEffect
<1> DEFINE o == <<c, 0>>
<1>1. /\ client[c].op = "open" /\ UNCHANGED <<table, lru, page, file, content>>
      /\ task' = [task EXCEPT ![o] = [Idle EXCEPT !.pc = "flush", !.op = "flush", !.id = client[c].id]]
  BY DEF BeginFlush
<1>2. \A u \in Worker : task[u].pc = "idle"
  BY <1>1, AllIdle DEF Busy
<1>3. o \in Task
  BY CacheAssumption DEF Worker, Task, Idx
<1>4. task'[o] = [Idle EXCEPT !.pc = "flush", !.op = "flush", !.id = client[c].id]
  BY <1>1, <1>3 DEF Base, TypeOK
<1>5. /\ task'[o].pc = "flush" /\ task'[o].op = "flush" /\ task'[o].idx = -1
      /\ task'[o].victim = None /\ task'[o].ok
  BY <1>4 DEF Idle
<1>6. Fresh(o)
  BY <1>5 DEF Fresh
<1>7. \A u \in Worker : u # o => task'[u] = task[u]
  BY <1>1 DEF Task, Base, TypeOK
<1>8. \A u \in Worker : task[u].pc \in {"idle", "done"} /\ Fresh(u)
  BY <1>2, <1>6, <1>7, FreshSame
<1>9. OneFrame'
  BY <1>2, <1>7 DEF OneFrame
<1>10. QED
  BY <1>1, <1>8, <1>9, SameViews DEF ClientEffect, SameDirty

LEMMA HintCloseViews ==
  ASSUME Base, NEW c \in Client, client[c].op # "closed", HintClose(client[c].id, client[c].mode)
  PROVE  SameSlots /\ SameDirty
<1>1. PICK id \in Id, mode \in Modes : id = client[c].id /\ mode = client[c].mode
  BY DEF Base, Handles
<1>2. HintClose(id, mode)
  BY <1>1
<1> DEFINE e == table[id]
<1>3. e \in Entry /\ e # None
  BY <1>1 DEF Base, Handles, TypeOK
<1>4. CASE table' = table
  BY <1>4, SameViews
<1>5. CASE table' # table
  <2> DEFINE x == e.reader - One(Reads(mode))
             y == e.writer - One(Writes(mode))
             g == [e EXCEPT !.reader = x, !.writer = y]
             raw == [table[id] EXCEPT !.reader = @ - One(Reads(mode)),
                                      !.writer = @ - One(Writes(mode))]
  <2>1. /\ ~(Reads(mode) /\ e.reader = 0) /\ ~(Writes(mode) /\ e.writer = 0)
        /\ table' = [table EXCEPT ![id] = raw]
    BY <1>2, <1>5 DEF HintClose
  <2>2. x \in Nat /\ y \in Nat
    <3>1. e.reader \in Nat /\ e.writer \in Nat
      <4> HIDE DEF e
      <4> QED BY <1>3 DEF Entry
    <3> HIDE DEF e
    <3>2. QED
      BY <2>1, <3>1 DEF One
  <2>3. raw = g
    <3>1. raw = [e EXCEPT !.reader = @ - One(Reads(mode)), !.writer = @ - One(Writes(mode))]
      OBVIOUS
    <3> HIDE DEF e, raw
    <3>2. QED
      BY <1>3, <3>1 DEF Entry
  <2>4. table' = [table EXCEPT ![id] = g]
    <3> HIDE DEF g, raw
    <3> QED BY <2>1, <2>3
  <2> HIDE DEF x, y
  <2>5. g \in Entry /\ g.pages = e.pages /\ g.dirty = e.dirty
    <3> HIDE DEF e
    <3> QED BY <1>3, <2>2 DEF Entry
  <2> HIDE DEF g
  <2>6. QED
    BY <1>3, <2>4, <2>5, OtherFields
<1>6. QED
  BY <1>4, <1>5

LEMMA ReleaseEffect ==
  ASSUME Base, Alone, NEW c \in Client, Release(c)
  PROVE  ClientEffect
<1>1. /\ client[c].op = "open" /\ HintClose(client[c].id, client[c].mode)
      /\ UNCHANGED <<lru, page, file, content, task>>
  BY DEF Release
<1>2. SameSlots /\ SameDirty
  BY <1>1, HintCloseViews
<1>3. \A u \in Worker : task[u].pc = "idle"
  BY <1>1, AllIdle DEF Busy
<1>4. \A u \in Worker : task[u].pc \in {"idle", "done"} /\ Fresh(u)
  BY <1>1, <1>3, FreshSame
<1>5. OneFrame'
  BY <1>1, <1>3 DEF OneFrame
<1>6. QED
  BY <1>1, <1>2, <1>4, <1>5 DEF ClientEffect, SameDirty

LEMMA EndFlushEffect ==
  ASSUME Base, Alone, NEW c \in Client, EndFlush(c)
  PROVE  ClientEffect
<1> DEFINE o == <<c, 0>>
<1>1. /\ client[c].op \in {"flush", "release"} /\ task[o].pc = "done"
      /\ task' = [task EXCEPT ![o] = Idle] /\ UNCHANGED <<lru, page, file, content>>
      /\ HintClose(client[c].id, client[c].mode) \/ UNCHANGED table
  BY DEF EndFlush
<1>2. SameSlots /\ SameDirty
  BY <1>1, HintCloseViews, SameViews
<1>3. o \in Task
  BY CacheAssumption DEF Worker, Task, Idx
<1>4. ASSUME NEW u \in Worker
      PROVE  task[u].pc \in {"idle", "done"} /\ Fresh(u) /\ task'[u].pc = "idle"
  <2>1. CASE u = o
    <3>1. task'[u] = Idle
      BY <1>1, <1>3, <2>1 DEF Base, TypeOK
    <3>2. QED
      BY <1>1, <2>1, <3>1, FreshIdle
  <2>2. CASE u # o
    <3>1. u[2] \in Idx /\ u = <<c, u[2]>>
      BY OnlyClient
    <3>2. u[2] # 0 /\ u[1] = c
      BY <2>2, <3>1
    <3>3. task[u].pc = "idle"
      BY <1>1, <3>2 DEF Base, Frames, FrameOf, WellFormed
    <3>4. task'[u] = task[u]
      BY <1>1, <2>2 DEF Task, Base, TypeOK
    <3>5. QED
      BY <3>3, <3>4, FreshSame
  <2>3. QED
    BY <2>1, <2>2
<1>5. OneFrame'
  BY <1>4 DEF OneFrame
<1>6. QED
  BY <1>1, <1>2, <1>4, <1>5 DEF ClientEffect, SameDirty

LEMMA ClientEffects ==
  ASSUME Base, Alone, NEW c \in Client, ClientStep(c)
  PROVE  ClientEffect
<1>1. None \in Bytes /\ \A v \in Val : v \in Bytes
  BY DEF Bytes
<1>2. CASE \E i, j \in Idx :
             /\ i <= j /\ j < i + MaxSpan
             /\ \/ Begin(c, "read", i, j, None)
                \/ \E v \in Val : Begin(c, "write", i, j, v)
  <2>1. PICK i, j \in Idx :
          /\ i <= j /\ j < i + MaxSpan
          /\ \/ Begin(c, "read", i, j, None)
             \/ \E v \in Val : Begin(c, "write", i, j, v)
    BY <1>2
  <2>2. i = j
    BY <2>1, CacheAssumption DEF Alone, Idx
  <2>3. \/ Begin(c, "read", i, i, None)
        \/ \E v \in Val : Begin(c, "write", i, i, v)
    BY <2>1, <2>2
  <2>4. QED
    BY <1>1, <2>3, BeginEffect
<1>3. QED
  BY <1>2, OpenEffect, EndIOEffect, BeginFlushEffect, ReleaseEffect, EndFlushEffect DEF ClientStep

\* The entries keep their descriptors, and no frame holds or opens anything.
LEMMA ClientShape ==
  ASSUME Base, Alone, Shape, NEW c \in Client, ClientStep(c)
  PROVE  Shape'
<1>1. ClientEffect
  BY ClientEffects
<1>2. fds' = fds /\ \A id \in Id : SameUse(id)
  BY ClientSteps DEF ClientLeaves
<1>3. SameFdAt
  <2> SUFFICES ASSUME NEW id \in Id, NEW k \in Kind
               PROVE  FdAt(id, k)' = FdAt(id, k)
    BY DEF SameFdAt
  <2>1. SameUse(id)
    BY <1>2
  <2>2. CASE table[id] = None
    BY <2>1, <2>2 DEF SameUse, FdAt, FdOf
  <2>3. CASE table[id] # None
    BY <2>1, <2>3 DEF SameUse, SameFds, FdAt, FdOf
  <2>4. QED
    BY <2>2, <2>3
<1>4. ASSUME NEW u \in Worker
      PROVE  /\ ~Opening(u) /\ ~Opening(u)' /\ ~Evicting(u) /\ ~Evicting(u)' /\ ~Holding(u)'
             /\ Knows(u)'
  <2>1. task[u].pc \in {"idle", "done"} /\ Fresh(u)
    BY <1>1 DEF ClientEffect
  <2>2. ~Opening(u) /\ ~Opening(u)' /\ ~Evicting(u)'
    BY <2>1 DEF Opening, Evicting, Fresh
  <2>3. ~Evicting(u)
    BY <2>1 DEF Base, Victims, Evicting
  <2>4. ~Holding(u)'
    BY <2>1, <2>2 DEF Holding, Fresh
  <2>5. Knows(u)'
    BY <2>1, <2>4 DEF Knows, Fresh
  <2>6. QED
    BY <2>2, <2>3, <2>4, <2>5
<1>5. FdsFound'
  BY <1>2, <1>3, <1>4, FoundKept DEF Shape
<1>6. SameSlots /\ SameLive /\ SameKeys /\ OneFrame'
  BY <1>1, SameLiveList DEF ClientEffect, SameKeys
<1>7. NoneLeaves
  BY <1>4 DEF NoneLeaves, Leaving, VictimOn
<1>8. Matched'
  BY <1>6, <1>7, MatchedKept DEF Shape, NoneLeaves
<1>9. QED
  BY <1>4, <1>5, <1>6, <1>8 DEF Shape

-----------------------------------------------------------------------------
(* No iterator dangles and the list matches the table, whichever reads and writes fail *)

LEMMA InitShape ==
  ASSUME Init
  PROVE  Shape
<1>1. \A u \in Worker : task[u].pc = "idle" /\ task[u].victim = None
  BY DEF Init, Idle, Task
<1>2. \A u \in Worker : Knows(u) /\ ~Opening(u) /\ \A id, i : ~VictimOn(u, id, i)
  BY <1>1, Unused
<1>3. \A id \in Id, i \in Idx : Slot(id, i) = None /\ ~Leaving(id, i)
  BY <1>2 DEF Init, Slot, Leaving
<1>4. \A r \in Ref : ~Live(r)
  BY DEF Init, Live
<1>5. Matched
  BY <1>3, <1>4, CacheAssumption DEF Matched
<1>6. FdsFound
  <2>1. \A f \in Fd : fds[f] = None
    BY DEF Init
  <2>2. \A id \in Id, k \in Kind : <<id, k>> # None
    BY CacheAssumption
  <2>3. QED
    BY <1>2, <2>1, <2>2 DEF FdsFound
<1>7. QED
  BY <1>1, <1>2, <1>5, <1>6 DEF Shape, OneFrame

Structure == Base /\ Descriptors /\ Waiting /\ Overlong /\ Shape /\ NoDangling

LEMMA InitStructure ==
  ASSUME Init
  PROVE  Structure
<1>1. Base /\ Descriptors /\ Shape
  BY InitBase, DescriptorsInit, InitShape
<1>2. Waiting
  BY DEF Init, Waiting, Queue, WaitersServed, Idle, Task
<1>3. Overlong
  BY CacheAssumption DEF Init, Overlong, Idle, Task
<1>4. NoDangling
  BY CacheAssumption DEF Init, NoDangling
<1>5. QED
  BY <1>1, <1>2, <1>3, <1>4 DEF Structure

LEMMA StructureStep ==
  ASSUME Alone, OpensSucceed, Structure, FileStep
  PROVE  Structure'
<1>1. Base /\ Descriptors /\ Waiting /\ Overlong /\ Shape /\ NoDangling
  BY DEF Structure
<1>2. Base' /\ Descriptors' /\ Waiting' /\ Overlong'
  BY <1>1, BaseStep, DescriptorsStep, WaitingStep, OverlongStep DEF Next
<1>3. ASSUME NEW c \in Client, ClientStep(c)
      PROVE  Shape' /\ NoDangling'
  <2>1. Shape'
    BY <1>1, <1>3, ClientShape
  <2>2. running' = None
    BY <1>1, <1>3, ClientSteps DEF ClientLeaves
  <2>3. QED
    BY <2>1, <2>2, CacheAssumption DEF NoDangling
<1>4. ASSUME NEW t \in Worker, PageStep(t) \/ FlushStep(t)
      PROVE  Shape' /\ NoDangling'
  <2>1. Shape'
    BY <1>1, <1>4, WorkerShape
  <2>2. running' \in {None, t}
    BY <1>4, WorkerRuns
  <2>3. QED
    BY <2>1, <2>2, CacheAssumption DEF NoDangling, Task
<1>5. \A t \in Worker : ~Dangle(t)
  BY <1>1, NeverDangles
<1>6. QED
  BY <1>2, <1>3, <1>4, <1>5 DEF FileStep, Structure

LEMMA StructureStutters ==
  ASSUME Structure, UNCHANGED vars
  PROVE  Structure'
<1>1. Base' /\ Descriptors' /\ Waiting' /\ Overlong'
  BY BaseStep, DescriptorsStep, WaitingStep, OverlongStep DEF Structure
<1>2. NoDangling'
  BY DEF Structure, NoDangling, vars
<1>3. UNCHANGED <<table, lru, page, readQueue, task, fds>>
  BY DEF vars
<1>4. OneFrame'
  BY <1>3 DEF Structure, Shape, OneFrame
<1>5. FdsFound'
  BY <1>3 DEF Structure, Shape, FdsFound, FdAt, Opening, OpenedAs
<1>6. Matched'
  <2>1. SameSlots /\ SameLive /\ SameKeys
    BY <1>3, SameViews, SameLiveList DEF SameKeys
  <2>2. \A id \in Id, i \in Idx : Leaving(id, i)' <=> Leaving(id, i)
    BY <1>3 DEF Leaving, VictimOn, Evicting
  <2>3. QED
    BY <2>1, <2>2, MatchedKept DEF Structure, Shape
<1>7. ASSUME NEW t \in Worker
      PROVE  Knows(t)'
  <2>1. Knows(t)
    BY DEF Structure, Shape
  <2>2. QED
    BY <1>3, <2>1 DEF Knows, Holding, Evicting, Live, Own, Slot, FdAt
<1>8. QED
  BY <1>1, <1>2, <1>4, <1>5, <1>6, <1>7 DEF Structure, Shape

LEMMA StructureHolds == Alone /\ OpensSucceed => (FileSpec => []Structure)
<1> SUFFICES ASSUME Alone, OpensSucceed
             PROVE  FileSpec => []Structure
  OBVIOUS
<1>1. Init => Structure
  BY InitStructure
<1>2. Structure /\ [FileStep]_vars => Structure'
  BY StructureStep, StructureStutters
<1>3. QED
  BY <1>1, <1>2, PTL DEF FileSpec

\* One caller whose requests stay within a page never makes a coroutine follow an iterator
\* into an erased node, whatever m_max_pages is and however often device reads and writes
\* fail: evict never takes the page that made it run, and nothing erases a slot while
\* flush's loop is on it.
THEOREM NothingDangles == Alone /\ OpensSucceed => (FileSpec => []NoDangling)
<1> SUFFICES ASSUME Alone, OpensSucceed
             PROVE  FileSpec => []NoDangling
  OBVIOUS
<1>1. FileSpec => []Structure
  BY StructureHolds
<1>2. Structure => NoDangling
  BY DEF Structure
<1>3. QED
  BY <1>1, <1>2, PTL

LEMMA MatchedLists ==
  ASSUME Base, Matched
  PROVE  ListMatchesTable
<1>1. ASSUME NEW k \in 1..Len(lru)
      PROVE  LET key == page[lru[k]].key IN
             Cached(key[1], key[2]) /\ table[key[1]].pages[key[2]] = lru[k]
  <2>1. lru \in Seq(Ref) /\ page \in [Ref -> Page \cup {None}]
    BY DEF Base, TypeOK
  <2>2. PICK r \in Ref : r = lru[k]
    BY <2>1
  <2>3. page[r] \in Page
    BY <2>1, <2>2 DEF Base, ListNodes
  <2>4. page[r].key \in Id \X Idx
    BY <2>3 DEF Page, Key
  <2>5. PICK id \in Id, i \in Idx : page[r].key = <<id, i>>
    BY <2>4
  <2>6. Live(r)
    BY <2>2 DEF Live
  <2>7. Slot(id, i) = r /\ r # None
    BY <2>5, <2>6, CacheAssumption DEF Matched
  <2>8. Cached(id, i) /\ table[id].pages[i] = r
    BY <2>7 DEF Slot, Cached
  <2>9. QED
    BY <2>2, <2>5, <2>8
<1>2. ASSUME NEW id \in Id, NEW i \in Idx, Cached(id, i)
      PROVE  \/ Live(table[id].pages[i])
             \/ \E t \in Worker : Evicting(t) /\ task[t].victim.key = <<id, i>>
  <2>1. Slot(id, i) = table[id].pages[i] /\ Slot(id, i) # None
    BY <1>2 DEF Cached, Slot
  <2>2. CASE Leaving(id, i)
    BY <2>2 DEF Leaving, VictimOn
  <2>3. CASE ~Leaving(id, i)
    BY <2>1, <2>3, SlotLive
  <2>4. QED
    BY <2>2, <2>3
<1>3. QED
  BY <1>1, <1>2 DEF ListMatchesTable

\* Under one such caller m_lru and the slots of m_table describe the same pages, one per
\* key: every insertion, eviction and erasure changes both, also when the write-back of
\* the evicted page failed.
THEOREM ListMatches == Alone /\ OpensSucceed => (FileSpec => []ListMatchesTable)
<1> SUFFICES ASSUME Alone, OpensSucceed
             PROVE  FileSpec => []ListMatchesTable
  OBVIOUS
<1>1. FileSpec => []Structure
  BY StructureHolds
<1>2. Structure => ListMatchesTable
  BY MatchedLists DEF Structure, Shape
<1>3. QED
  BY <1>1, <1>2, PTL

-----------------------------------------------------------------------------
(* A clean page has the device's bytes, and flush finds every dirty one *)

\* What a step of t has to show.
CleanNext(t) == Tidy' /\ Carries(t)'

DirtyStays  == \A id \in Id : DirtyEntry(id) => DirtyEntry(id)'
AwaitedStays == \A id \in Id, i \in Idx : Awaited(id, i) => Awaited(id, i)'
NoneAwaited == \A id \in Id, i \in Idx : ~Awaited(id, i)

LEMMA TidyKept ==
  ASSUME Tidy, SameSlots, SameLive, UNCHANGED <<page, file>>, DirtyStays, AwaitedStays
  PROVE  Tidy'
<1> SUFFICES ASSUME NEW id \in Id, NEW i \in Idx, NEW r \in Ref,
                    Slot(id, i)' = r, Live(r)', ~Awaited(id, i)'
             PROVE  Good(id, i, r)'
  BY DEF Tidy
<1>1. Slot(id, i) = r /\ Live(r) /\ ~Awaited(id, i)
  BY DEF SameSlots, SameLive, AwaitedStays
<1>2. Good(id, i, r)
  BY <1>1 DEF Tidy
<1>3. DirtyEntry(id) => DirtyEntry(id)'
  BY DEF DirtyStays
<1>4. QED
  BY <1>2, <1>3 DEF Good

LEMMA SettledKept ==
  ASSUME SameSlots, SameLive, page' = page, NEW id \in Id, NEW i \in Idx, Settled(id, i)
  PROVE  Settled(id, i)'
BY DEF SameSlots, SameLive, Settled

LEMMA OwnAwaited ==
  ASSUME NEW t \in Worker, OnlyOwn(t), task'[t].op = task[t].op, task'[t].id = task[t].id,
         task'[t].idx = task[t].idx, Holding(t) => Holding(t)'
  PROVE  AwaitedStays
<1> SUFFICES ASSUME NEW id \in Id, NEW i \in Idx, Awaited(id, i)
             PROVE  Awaited(id, i)'
  BY DEF AwaitedStays
<1>1. Writing(t, id, i)
  BY DEF OnlyOwn
<1>2. Writing(t, id, i)'
  BY <1>1 DEF Writing
<1>3. QED
  BY <1>2 DEF OnlyOwn

LEMMA NotWriting ==
  ASSUME NEW t \in Worker, OnlyOwn(t), task[t].op # "write" \/ ~Holding(t)
  PROVE  NoneAwaited /\ AwaitedStays
<1>1. ASSUME NEW id \in Id, NEW i \in Idx
      PROVE  ~Awaited(id, i)
  <2>1. ~Writing(t, id, i)
    BY DEF Writing
  <2>2. QED
    BY <2>1 DEF OnlyOwn
<1>2. QED
  BY <1>1 DEF NoneAwaited, AwaitedStays

\* A frame of read_at or write_at that fetches nothing.
LEMMA CarriesIO ==
  ASSUME NEW t, Carries(t), task[t].op \in {"read", "write"}, task[t].pc \notin {"idle", "done"},
         task'[t].op = task[t].op, task'[t].id = task[t].id, task'[t].pc \notin {"fill", "flush_next"},
         DirtyStays
  PROVE  Carries(t)'
<1>1. ASSUME NEW id \in Id, task'[t].id = id, task'[t].op = "write"
      PROVE  DirtyEntry(id)'
  <2>1. DirtyEntry(id)
    BY <1>1 DEF Carries
  <2>2. QED
    BY <2>1 DEF DirtyStays
<1>2. QED
  BY <1>1 DEF Carries

LEMMA CarriesDone ==
  ASSUME NEW t, task'[t].pc = "done"
  PROVE  Carries(t)'
BY DEF Carries

LEMMA SameStays ==
  ASSUME SameDirty
  PROVE  DirtyStays
BY DEF SameDirty, DirtyStays

\* What the lemmas about a step of t start from.
LEMMA CleanFacts ==
  ASSUME NEW t \in Worker, Lone(t), Clean
  PROVE  Base /\ Shape /\ Matched /\ Knows(t) /\ Aside(t) /\ OnlyOwn(t) /\ Tidy /\ Carries(t)
<1>1. Base /\ Shape /\ Matched /\ Knows(t) /\ Aside(t)
  BY DEF Lone, Shape
<1>2. OnlyOwn(t)
  BY <1>1, AsideFacts
<1>3. QED
  BY <1>1, <1>2 DEF Clean

LEMMA EnterClean ==
  ASSUME NEW t \in Worker, Lone(t), Clean, Enter(t)
  PROVE  CleanNext(t)
<1>1. Base /\ OnlyOwn(t) /\ Tidy /\ Carries(t)
  BY CleanFacts
<1>2. task[t].pc = "enter" /\ Steady(t)
  BY <1>1, EnterFrame
<1>3. readQueue[KeyOf(t)] = None
  BY EnterShape
<1>4. task'[t].pc = "body" /\ SameSlots /\ SameDirty /\ SameData
  BY <1>1, <1>3, EnterEffect
<1>5. SameLive /\ DirtyStays
  BY <1>4, SameDataShape, SameStays
<1>6. Holding(t) => Holding(t)'
  BY <1>2, <1>4 DEF Holding, Evicting, Steady
<1>7. AwaitedStays
  BY <1>1, <1>2, <1>6, OwnAwaited DEF Steady
<1>8. Tidy'
  BY <1>1, <1>4, <1>5, <1>7, TidyKept DEF SameData
<1>9. CASE task[t].op \in {"read", "write"}
  <2>1. Carries(t)'
    BY <1>1, <1>2, <1>4, <1>5, <1>9, CarriesIO DEF Steady
  <2>2. QED
    BY <1>8, <2>1 DEF CleanNext
<1>10. CASE task[t].op = "flush"
  <2>1. task[t].idx \in Idx /\ task[t].id \in Id
    BY <1>1, <1>2, <1>10, OwnIndex
  <2>2. ASSUME NEW id \in Id, task'[t].id = id, NEW i \in Idx, i < task'[t].idx
        PROVE  Settled(id, i)'
    <3>1. Settled(id, i)
      BY <1>1, <1>2, <1>10, <2>2 DEF Carries, Steady
    <3>2. QED
      BY <1>4, <1>5, <3>1, SettledKept DEF SameData
  <2>3. task'[t].op = "flush"
    BY <1>2, <1>10 DEF Steady
  <2>4. Carries(t)'
    BY <1>4, <2>2, <2>3 DEF Carries
  <2>5. QED
    BY <1>8, <2>4 DEF CleanNext
<1>11. QED
  BY <1>1, <1>2, <1>9, <1>10 DEF Base, Frames, FrameOf, WellFormed

LEMMA ReadFindClean ==
  ASSUME NEW t \in Worker, Lone(t), Clean, ReadFind(t)
  PROVE  CleanNext(t)
<1>1. Base /\ OnlyOwn(t) /\ Tidy /\ Carries(t)
  BY CleanFacts
<1>2. /\ task[t].pc = "body" /\ task[t].op = "read"
      /\ \/ task'[t].pc = "copy" /\ Moved(t)
         \/ task'[t].pc = "fetch" /\ Steady(t)
         \/ Requested(t, "read_open")
  BY <1>1, ReadFindFrame
<1>3. table' = table /\ SameData
  BY <1>1, ReadFindEffect
<1>4. SameSlots /\ SameDirty /\ SameLive /\ DirtyStays
  BY <1>3, SameViews, SameDataShape, SameStays
<1>5. AwaitedStays
  BY <1>1, <1>2, NotWriting
<1>6. Tidy'
  BY <1>1, <1>3, <1>4, <1>5, TidyKept DEF SameData
<1>7. /\ task'[t].op = task[t].op /\ task'[t].id = task[t].id
      /\ task'[t].pc \notin {"fill", "flush_next"}
  BY <1>2 DEF Moved, Steady, Requested
<1>8. Carries(t)'
  BY <1>1, <1>2, <1>4, <1>7, CarriesIO
<1>9. QED
  BY <1>6, <1>8 DEF CleanNext

LEMMA ReadOpenedClean ==
  ASSUME NEW t \in Worker, Lone(t), Clean, ReadOpened(t)
  PROVE  CleanNext(t)
<1>1. Base /\ OnlyOwn(t) /\ Tidy /\ Carries(t)
  BY CleanFacts
<1>2. task[t].ok
  BY ReadOpenedShape
<1>3. task[t].pc = "read_open"
  BY <1>1, ReadOpenedFrame
<1>4. task'[t].pc = "fetch" /\ task'[t].op = task[t].op /\ task'[t].id = task[t].id
  BY <1>1, <1>2, ReadOpenedFrame
<1>5. SameSlots /\ SameDirty /\ SameData
  BY <1>1, <1>2, ReadOpenedEffect
<1>6. SameLive /\ DirtyStays
  BY <1>5, SameDataShape, SameStays
<1>7. task[t].op = "read"
  BY <1>1, <1>3 DEF Base, Frames, FrameOf, WellFormed
<1>8. AwaitedStays
  BY <1>1, <1>7, NotWriting
<1>9. Tidy'
  BY <1>1, <1>5, <1>6, <1>8, TidyKept DEF SameData
<1>10. Carries(t)'
  BY <1>1, <1>3, <1>4, <1>6, <1>7, CarriesIO
<1>11. QED
  BY <1>9, <1>10 DEF CleanNext

LEMMA ReadFetchClean ==
  ASSUME NEW t \in Worker, Lone(t), Clean, ReadFetch(t)
  PROVE  CleanNext(t)
<1>1. Base /\ OnlyOwn(t) /\ Tidy /\ Carries(t) /\ FdsValid
  BY CleanFacts DEF Lone, Descriptors
<1>2. task[t].pc = "fetch" /\ task'[t].pc = "fill" /\ Steady(t)
  BY <1>1, ReadFetchFrame
<1>3. FdAt(task[t].id, "r") # None
  BY ReadFetchShape
<1>4. /\ table' = table /\ SameData
      /\ task'[t].ok => task'[t].val = file[task[t].id][task[t].idx]
  BY <1>1, <1>3, ReadFetchEffect
<1>5. SameSlots /\ SameDirty /\ SameLive /\ DirtyStays
  BY <1>4, SameViews, SameDataShape, SameStays
<1>6. task[t].op = "read"
  BY <1>1, <1>2 DEF Base, Frames, FrameOf, WellFormed
<1>7. AwaitedStays
  BY <1>1, <1>6, NotWriting
<1>8. Tidy'
  BY <1>1, <1>4, <1>5, <1>7, TidyKept DEF SameData
<1>9. task'[t].op = "read" /\ task'[t].id = task[t].id /\ task'[t].idx = task[t].idx /\ file' = file
  BY <1>2, <1>4, <1>6 DEF Steady, SameData
<1>10. ASSUME NEW id \in Id, NEW i \in Idx, task'[t].id = id, task'[t].idx = i, task'[t].ok
       PROVE  task'[t].val = file'[id][i]
  BY <1>4, <1>9, <1>10
<1>11. Carries(t)'
  BY <1>2, <1>9, <1>10 DEF Carries
<1>12. QED
  BY <1>8, <1>11 DEF CleanNext

\* A new page is clean and has the device's bytes, or is about to be written.
LEMMA TidyInserted ==
  ASSUME Base, Matched, NoneLeaves, Tidy, NoneAwaited, file' = file,
         NEW id \in Id, NEW i \in Idx, NEW r, NEW v, Inserted(id, i, r, v),
         v = file[id][i] \/ Awaited(id, i)'
  PROVE  Tidy'
<1> SUFFICES ASSUME NEW k \in Id, NEW j \in Idx, NEW q \in Ref,
                    Slot(k, j)' = q, Live(q)', ~Awaited(k, j)'
             PROVE  Good(k, j, q)'
  BY DEF Tidy
<1>1. /\ r \in Ref /\ ~Live(r) /\ page'[r].val = v /\ page'[r].dirty = FALSE
      /\ SetSlot(id, i, r) /\ SameDirty
  BY DEF Inserted
<1>2. CASE k = id /\ j = i
  <2>1. q = r
    BY <1>1, <1>2, SlotNext
  <2>2. v = file[id][i]
    BY <1>2
  <2>3. page'[q].val = file'[k][j] /\ page'[q].dirty = FALSE
    BY <1>1, <1>2, <2>1, <2>2
  <2>4. QED
    BY <2>3 DEF Good
<1>3. CASE k # id \/ j # i
  <2>1. Slot(k, j) = q
    BY <1>1, <1>3 DEF SetSlot
  <2>2. Live(q) /\ q # r
    BY <1>1, <2>1 DEF Matched, NoneLeaves
  <2>3. Good(k, j, q)
    BY <2>1, <2>2 DEF Tidy, NoneAwaited
  <2>4. page'[q] = page[q] /\ (DirtyEntry(k)' <=> DirtyEntry(k))
    BY <1>1, <2>2 DEF Inserted, SameDirty
  <2>5. QED
    BY <2>3, <2>4 DEF Good
<1>4. QED
  BY <1>2, <1>3

LEMMA ReadFilledClean ==
  ASSUME NEW t \in Worker, Lone(t), Clean, ReadFilled(t)
  PROVE  CleanNext(t)
<1>1. Base /\ Matched /\ OnlyOwn(t) /\ Tidy /\ Carries(t)
  BY CleanFacts
<1>2. /\ Own(t) = None /\ task[t].victim = None
      /\ readQueue[<<task[t].id, task[t].idx>>] # None
      /\ task[t].ok => Moved(t) /\ task'[t].pc \in {"copy", "evict"}
  BY ReadFilledShape
<1>3. task[t].pc = "fill" /\ KeyOf(t) = <<task[t].id, task[t].idx>>
  BY <1>1, ReadFilledFrame, FillKey
<1>4. task[t].op = "read"
  BY <1>1, <1>3 DEF Base, Frames, FrameOf, WellFormed
<1>5. PICK id \in Id, i \in Idx : id = task[t].id /\ i = task[t].idx
  BY <1>1, <1>3, <1>4, OwnIndex
<1>6. /\ UNCHANGED <<file, content, fds>>
      /\ IF task[t].ok
         THEN Inserted(id, i, task'[t].ref, task[t].val)
         ELSE SameSlots /\ SameDirty /\ SameData
  BY <1>1, <1>2, <1>5, ReadFilledEffect
<1>7. NoneAwaited /\ AwaitedStays
  BY <1>1, <1>4, NotWriting
<1>8. CASE task[t].ok
  <2>1. NoneLeaves
    BY <1>1, <1>2, <1>8, NoVictim DEF Moved
  <2>2. task[t].val = file[id][i]
    BY <1>1, <1>3, <1>5, <1>8 DEF Carries
  <2>3. Tidy'
    BY <1>1, <1>6, <1>7, <1>8, <2>1, <2>2, TidyInserted
  <2>4. DirtyStays
    BY <1>6, <1>8, SameStays DEF Inserted
  <2>5. Carries(t)'
    BY <1>1, <1>2, <1>3, <1>4, <1>8, <2>4, CarriesIO DEF Moved
  <2>6. QED
    BY <2>3, <2>5 DEF CleanNext
<1>9. CASE ~task[t].ok
  <2>1. SameSlots /\ SameLive /\ DirtyStays /\ SameData
    BY <1>6, <1>9, SameDataShape, SameStays
  <2>2. Tidy'
    BY <1>1, <1>7, <2>1, TidyKept DEF SameData
  <2>3. Finished(t)
    BY <1>1, <1>2, <1>3, <1>9, ReadFilledFrame
  <2>4. Carries(t)'
    BY <2>3, CarriesDone DEF Finished
  <2>5. QED
    BY <2>2, <2>4 DEF CleanNext
<1>10. QED
  BY <1>8, <1>9

LEMMA WriteFindClean ==
  ASSUME NEW t \in Worker, Lone(t), Clean, WriteFind(t)
  PROVE  CleanNext(t)
<1>1. Base /\ Matched /\ OnlyOwn(t) /\ Tidy /\ Carries(t)
  BY CleanFacts
<1>2. /\ task[t].victim = None /\ task[t].op = "write" /\ Moved(t)
      /\ task'[t].pc \in {"copy", "evict"}
  BY WriteFindShape
<1>3. task[t].pc = "body"
  BY <1>1, WriteFindFrame
<1>4. PICK id \in Id, i \in Idx : id = task[t].id /\ i = task[t].idx
  BY <1>1, <1>2, <1>3, OwnIndex
<1>5. /\ UNCHANGED <<file, content, fds, readQueue>>
      /\ IF Own(t) # None
         THEN task'[t].ref = Own(t) /\ table' = table /\ SameData
         ELSE Inserted(id, i, task'[t].ref, None)
  BY <1>1, <1>4, WriteFindEffect
<1>6. ~Holding(t)
  BY <1>2, <1>3 DEF Holding, Evicting
<1>7. NoneAwaited /\ AwaitedStays
  BY <1>1, <1>6, NotWriting
<1>8. DirtyStays
  <2>1. SameDirty
    BY <1>5, SameViews DEF Inserted
  <2>2. QED
    BY <2>1, SameStays
<1>9. Carries(t)'
  BY <1>1, <1>2, <1>3, <1>8, CarriesIO DEF Moved
<1>10. CASE Own(t) # None
  <2>1. SameSlots /\ SameLive /\ SameData
    BY <1>5, <1>10, SameViews, SameDataShape
  <2>2. Tidy'
    BY <1>1, <1>7, <1>8, <2>1, TidyKept DEF SameData
  <2>3. QED
    BY <1>9, <2>2 DEF CleanNext
<1>11. CASE Own(t) = None
  <2>1. NoneLeaves
    BY <1>1, <1>2, NoVictim DEF Moved
  <2>2. Holding(t)'
    BY <1>2 DEF Holding
  <2>3. Writing(t, id, i)'
    BY <1>2, <1>4, <2>2 DEF Writing, Moved
  <2>4. Awaited(id, i)'
    BY <1>1, <2>3 DEF OnlyOwn
  <2>5. Tidy'
    BY <1>1, <1>5, <1>7, <1>11, <2>1, <2>4, TidyInserted
  <2>6. QED
    BY <1>9, <2>5 DEF CleanNext
<1>12. QED
  BY <1>10, <1>11

\* A node of the list is in the slot of one page.
LEMMA OneSlot ==
  ASSUME Matched, NEW r \in Ref, Live(r), NEW id \in Id, NEW i \in Idx, Slot(id, i) = r,
         NEW k \in Id, NEW j \in Idx, Slot(k, j) = r
  PROVE  k = id /\ j = i
<1>1. page[r].key = <<id, i>> /\ page[r].key = <<k, j>>
  BY DEF Matched
<1>2. QED
  BY <1>1

LEMMA CopyPageClean ==
  ASSUME NEW t \in Worker, Lone(t), Clean, CopyPage(t)
  PROVE  CleanNext(t)
<1>1. Base /\ Matched /\ Knows(t) /\ OnlyOwn(t) /\ Tidy /\ Carries(t)
  BY CleanFacts
<1>2. task[t].pc = "copy" /\ Finished(t)
  BY <1>1, CopyPageFrame
<1>3. /\ SameLive /\ SameSlots /\ SameDirty /\ file' = file
      /\ task[t].idx \in Idx /\ task[t].id \in Id /\ task[t].ref \in Ref
      /\ IF task[t].op = "write" THEN Rewritten(task[t].ref, task[t].val) ELSE page' = page
  BY <1>1, CopyPageEffect
<1>4. Carries(t)'
  BY <1>2, CarriesDone DEF Finished
<1>5. DirtyStays
  BY <1>3, SameStays
<1>6. CASE task[t].op # "write"
  <2>1. AwaitedStays
    BY <1>1, <1>6, NotWriting
  <2>2. Tidy'
    BY <1>1, <1>3, <1>5, <1>6, <2>1, TidyKept
  <2>3. QED
    BY <1>4, <2>2 DEF CleanNext
<1>7. CASE task[t].op = "write"
  <2>1. PICK id \in Id, i \in Idx, r \in Ref :
          id = task[t].id /\ i = task[t].idx /\ r = task[t].ref
    BY <1>3
  <2>2. Slot(id, i) = r /\ Live(r)
    BY <1>1, <1>2, <2>1 DEF Knows, Holding, Own
  <2>3. Rewritten(r, task[t].val)
    BY <1>3, <1>7, <2>1
  <2>4. DirtyEntry(id)'
    <3>1. DirtyEntry(id)
      BY <1>1, <1>2, <1>7, <2>1 DEF Carries
    <3>2. QED
      BY <1>5, <3>1 DEF DirtyStays
  <2>5. ASSUME NEW k \in Id, NEW j \in Idx, NEW q \in Ref, Slot(k, j)' = q, Live(q)'
        PROVE  Good(k, j, q)'
    <3>1. Slot(k, j) = q /\ Live(q)
      BY <1>3, <2>5 DEF SameSlots, SameLive
    <3>2. CASE q = r
      <4>1. k = id /\ j = i
        BY <1>1, <2>2, <3>1, <3>2, OneSlot
      <4>2. page'[q].dirty = TRUE
        BY <2>3, <3>2 DEF Rewritten
      <4>3. QED
        BY <2>4, <4>1, <4>2 DEF Good
    <3>3. CASE q # r
      <4>1. k # id \/ j # i
        BY <2>2, <3>1, <3>3
      <4>2. ~Writing(t, k, j)
        BY <2>1, <4>1 DEF Writing
      <4>3. ~Awaited(k, j)
        BY <1>1, <4>2 DEF OnlyOwn
      <4>4. Good(k, j, q)
        BY <1>1, <3>1, <4>3 DEF Tidy
      <4>5. page'[q] = page[q] /\ (DirtyEntry(k)' <=> DirtyEntry(k))
        BY <1>3, <2>3, <3>3 DEF Rewritten, SameDirty
      <4>6. QED
        BY <1>3, <4>4, <4>5 DEF Good
    <3>4. QED
      BY <3>2, <3>3
  <2>6. Tidy'
    BY <2>5 DEF Tidy
  <2>7. QED
    BY <1>4, <2>6 DEF CleanNext
<1>8. QED
  BY <1>6, <1>7

\* What is live and in a slot was so before.
LEMMA TidyLess ==
  ASSUME Tidy, file' = file, DirtyStays, AwaitedStays,
         \A id \in Id, i \in Idx, r \in Ref : Slot(id, i)' = r /\ Live(r)' =>
           Slot(id, i) = r /\ Live(r) /\ page'[r] = page[r]
  PROVE  Tidy'
<1> SUFFICES ASSUME NEW id \in Id, NEW i \in Idx, NEW r \in Ref,
                    Slot(id, i)' = r, Live(r)', ~Awaited(id, i)'
             PROVE  Good(id, i, r)'
  BY DEF Tidy
<1>1. Slot(id, i) = r /\ Live(r) /\ ~Awaited(id, i) /\ page'[r] = page[r]
  BY DEF AwaitedStays
<1>2. Good(id, i, r)
  BY <1>1 DEF Tidy
<1>3. DirtyEntry(id) => DirtyEntry(id)'
  BY DEF DirtyStays
<1>4. QED
  BY <1>1, <1>2, <1>3 DEF Good

LEMMA EvictPopClean ==
  ASSUME NEW t \in Worker, Lone(t), Clean, EvictPop(t)
  PROVE  CleanNext(t)
<1>1. Base /\ Matched /\ OnlyOwn(t) /\ Tidy /\ Carries(t)
  BY CleanFacts
<1>2. /\ \E id \in Id, i \in Idx, r \in Ref : PoppedIs(t, id, i, r)
      /\ task[t].victim = None /\ task[t].op \in {"read", "write"}
  BY EvictPopKnows
<1>3. PICK id \in Id, i \in Idx, r \in Ref : PoppedIs(t, id, i, r)
  BY <1>2
<1>4. /\ Popped(r) /\ Last = page[r] /\ table[id] # None /\ Last.key[1] = id /\ Last.key[2] = i
  BY <1>3 DEF PoppedIs
<1>5. /\ task[t].pc = "evict" /\ task'[t].op = task[t].op /\ task'[t].id = task[t].id
      /\ task'[t].idx = task[t].idx
      /\ IF ~Last.dirty
         THEN task'[t].pc = "evict"
         ELSE /\ task'[t].victim = Last
              /\ IF table[id].write_fd # None THEN task'[t].pc = "enter"
                 ELSE task'[t].pc = "evict_open"
  BY <1>1, <1>4, EvictPopFrame
<1>6. /\ UNCHANGED <<file, content, readQueue>> /\ SameDirty
      /\ IF Last.dirty THEN SameSlots ELSE SetSlot(id, i, None)
  BY <1>1, <1>4, EvictPopEffect
<1>7. Last # None
  BY <1>1, LastPage, CacheAssumption
<1>8. Holding(t)'
  BY <1>5, <1>7 DEF Holding, Evicting
<1>9. AwaitedStays /\ DirtyStays
  BY <1>1, <1>5, <1>6, <1>8, OwnAwaited, SameStays
<1>10. ASSUME NEW k \in Id, NEW j \in Idx, NEW q \in Ref, Slot(k, j)' = q, Live(q)'
       PROVE  Slot(k, j) = q /\ Live(q) /\ page'[q] = page[q]
  <2>1. Live(q) /\ page'[q] = page[q]
    BY <1>4, <1>10 DEF Popped
  <2>2. CASE Last.dirty
    BY <1>6, <1>10, <2>1, <2>2 DEF SameSlots
  <2>3. CASE ~Last.dirty
    <3>1. SetSlot(id, i, None)
      BY <1>6, <2>3
    <3>2. Slot(id, i)' = None /\ q # None
      BY <3>1, SlotNext, CacheAssumption
    <3>3. k # id \/ j # i
      BY <1>10, <3>2
    <3>4. QED
      BY <1>10, <2>1, <3>1, <3>3 DEF SetSlot
  <2>4. QED
    BY <2>2, <2>3
<1>11. Tidy'
  BY <1>1, <1>6, <1>9, <1>10, TidyLess
<1>12. Carries(t)'
  BY <1>1, <1>2, <1>5, <1>9, CarriesIO
<1>13. QED
  BY <1>11, <1>12 DEF CleanNext

LEMMA EvictDoneClean ==
  ASSUME NEW t \in Worker, Lone(t), Clean, EvictDone(t)
  PROVE  CleanNext(t)
<1>1. Base /\ OnlyOwn(t) /\ Tidy /\ Carries(t)
  BY CleanFacts
<1>2. task[t].pc = "evict" /\ task'[t].pc = "copy" /\ Steady(t)
  BY <1>1, EvictDoneFrame
<1>3. table' = table /\ SameData
  BY <1>1, EvictDoneEffect
<1>4. SameSlots /\ SameDirty /\ SameLive /\ DirtyStays
  BY <1>3, SameViews, SameDataShape, SameStays
<1>5. Holding(t)' /\ task[t].op \in {"read", "write"}
  BY <1>1, <1>2 DEF Holding, Base, Frames, FrameOf, WellFormed
<1>6. AwaitedStays
  BY <1>1, <1>2, <1>5, OwnAwaited DEF Steady
<1>7. Tidy'
  BY <1>1, <1>3, <1>4, <1>6, TidyKept DEF SameData
<1>8. Carries(t)'
  BY <1>1, <1>2, <1>4, <1>5, CarriesIO DEF Steady
<1>9. QED
  BY <1>7, <1>8 DEF CleanNext

LEMMA EvictOpenedClean ==
  ASSUME NEW t \in Worker, Lone(t), Clean, EvictOpened(t)
  PROVE  CleanNext(t)
<1>1. Base /\ OnlyOwn(t) /\ Tidy /\ Carries(t)
  BY CleanFacts
<1>2. task[t].ok
  BY EvictOpenedShape
<1>3. task[t].pc = "evict_open"
  BY <1>1, EvictOpenedFrame
<1>4. task'[t].pc = "enter" /\ Steady(t)
  BY <1>1, <1>2, EvictOpenedFrame
<1>5. SameSlots /\ SameDirty /\ SameData
  BY <1>1, <1>2, EvictOpenedEffect
<1>6. SameLive /\ DirtyStays
  BY <1>5, SameDataShape, SameStays
<1>7. task[t].victim # None /\ task[t].op \in {"read", "write"}
  BY <1>1, <1>3 DEF Base, Frames, FrameOf, WellFormed
<1>8. Holding(t)'
  BY <1>4, <1>7 DEF Holding, Evicting, Steady
<1>9. AwaitedStays
  BY <1>1, <1>4, <1>8, OwnAwaited DEF Steady
<1>10. Tidy'
  BY <1>1, <1>5, <1>6, <1>9, TidyKept DEF SameData
<1>11. Carries(t)'
  BY <1>1, <1>3, <1>4, <1>6, <1>7, CarriesIO DEF Steady
<1>12. QED
  BY <1>10, <1>11 DEF CleanNext

LEMMA EvictEraseClean ==
  ASSUME NEW t \in Worker, Lone(t), Clean, EvictErase(t)
  PROVE  CleanNext(t)
<1>1. Base /\ OnlyOwn(t) /\ Tidy /\ Carries(t)
  BY CleanFacts
<1>2. task[t].pc = "evict_erase" /\ Dropped(t)
  BY <1>1, EvictEraseFrame
<1>3. task[t].victim # None /\ task[t].op \in {"read", "write"}
  BY <1>1, <1>2 DEF Base, Frames, FrameOf, WellFormed
<1>4. task[t].victim.key \in Id \X Idx
  BY <1>1, <1>3, VictimInUse DEF Key
<1>5. PICK id \in Id, i \in Idx : task[t].victim.key[1] = id /\ task[t].victim.key[2] = i
  BY <1>4
<1>6. SameDirty /\ SameData /\ SetSlot(id, i, None)
  <2>1. /\ SameResult(t) /\ SameDirty /\ SameData /\ UNCHANGED <<fds, readQueue>>
        /\ SetSlot(task[t].victim.key[1], task[t].victim.key[2], None)
    BY <1>1, EvictEraseEffect
  <2>2. QED
    BY <1>5, <2>1
<1>7. Holding(t)'
  BY <1>2 DEF Holding, Dropped
<1>8. AwaitedStays /\ DirtyStays /\ SameLive
  BY <1>1, <1>2, <1>6, <1>7, OwnAwaited, SameStays, SameDataShape DEF Dropped
<1>9. ASSUME NEW k \in Id, NEW j \in Idx, NEW q \in Ref, Slot(k, j)' = q, Live(q)'
      PROVE  Slot(k, j) = q /\ Live(q) /\ page'[q] = page[q]
  <2>1. Slot(id, i)' = None /\ q # None
    BY <1>6, SlotNext, CacheAssumption
  <2>2. k # id \/ j # i
    BY <1>9, <2>1
  <2>3. Slot(k, j) = q
    BY <1>6, <1>9, <2>2 DEF SetSlot
  <2>4. QED
    BY <1>6, <1>8, <1>9, <2>3 DEF SameLive, SameData
<1>10. Tidy'
  BY <1>1, <1>6, <1>8, <1>9, TidyLess DEF SameData
<1>11. Carries(t)'
  BY <1>1, <1>2, <1>3, <1>8, CarriesIO DEF Dropped
<1>12. QED
  BY <1>10, <1>11 DEF CleanNext

LEMMA FlushWriteClean ==
  ASSUME NEW t \in Worker, Lone(t), Clean, FlushWrite(t)
  PROVE  CleanNext(t)
<1>1. Base /\ Matched /\ OnlyOwn(t) /\ Tidy /\ Carries(t) /\ FdsValid
  BY CleanFacts DEF Lone, Descriptors
<1>2. /\ task[t].pc = "body" /\ InFunction(t) = "flush"
      /\ task'[t].pc = "flush_ack" /\ Steady(t)
  BY <1>1, FlushWriteFrame
<1>3. PICK id \in Id, i \in Idx : FlushesPage(t, id, i)
  BY <1>2, FlushKnows
<1>4. FlushedFile(t) = id /\ Subject(t).key = <<id, i>>
  BY <1>3 DEF FlushesPage
<1>5. Subject(t).key[2] = i
  BY <1>4
<1>6. /\ UNCHANGED <<table, lru, page>>
      /\ IF task'[t].ok THEN SetValue(file, file', id, i, Subject(t).val) ELSE file' = file
  BY <1>1, <1>4, <1>5, FlushWriteEffect
<1>7. SameSlots /\ SameDirty /\ SameLive /\ DirtyStays
  BY <1>6, SameViews, SameLiveList, SameStays
<1>8. \A k \in Id, j \in Idx : k # id \/ j # i => file'[k][j] = file[k][j]
  BY <1>6 DEF SetValue
<1>9. CASE Evicting(t)
  <2>1. VictimOn(t, id, i) /\ task[t].op \in {"read", "write"}
    BY <1>1, <1>3, <1>9 DEF FlushesPage, Base, Victims, Evicting
  <2>2. Leaving(id, i)
    BY <1>1, <2>1 DEF OnlyOwn
  <2>3. Holding(t)'
    BY <1>2, <1>9 DEF Holding, Evicting, Steady
  <2>4. AwaitedStays
    BY <1>1, <1>2, <2>3, OwnAwaited DEF Steady
  <2>5. ASSUME NEW k \in Id, NEW j \in Idx, NEW q \in Ref, Slot(k, j)' = q, Live(q)',
               ~Awaited(k, j)'
        PROVE  Good(k, j, q)'
    <3>1. Slot(k, j) = q /\ Live(q) /\ ~Awaited(k, j)
      BY <1>7, <2>4, <2>5 DEF SameSlots, SameLive, AwaitedStays
    <3>2. k # id \/ j # i
      BY <1>1, <2>2, <3>1 DEF Matched
    <3>3. Good(k, j, q)
      BY <1>1, <3>1 DEF Tidy
    <3>4. file'[k][j] = file[k][j] /\ (DirtyEntry(k)' <=> DirtyEntry(k)) /\ page' = page
      BY <1>6, <1>7, <1>8, <3>2 DEF SameDirty
    <3>5. QED
      BY <3>3, <3>4 DEF Good
  <2>6. Tidy'
    BY <2>5 DEF Tidy
  <2>7. Carries(t)'
    BY <1>1, <1>2, <1>7, <2>1, CarriesIO DEF Steady
  <2>8. QED
    BY <2>6, <2>7 DEF CleanNext
<1>10. CASE ~Evicting(t)
  <2>1. PICK r \in Ref : r = task[t].ref /\ Live(r) /\ Slot(id, i) = r
    BY <1>3, <1>10 DEF FlushesPage
  <2>2. task[t].op = "flush" /\ task[t].id = id /\ task[t].idx = i
    BY <1>3, <1>10 DEF FlushesPage
  <2>3. task'[t].ok => file'[id][i] = page[r].val
    BY <1>6, <1>10, <2>1 DEF SetValue, Subject
  <2>4. NoneAwaited
    BY <1>1, <2>2, NotWriting
  <2>5. ASSUME NEW k \in Id, NEW j \in Idx, NEW q \in Ref, Slot(k, j)' = q, Live(q)'
        PROVE  Good(k, j, q)'
    <3>1. Slot(k, j) = q /\ Live(q) /\ ~Awaited(k, j)
      BY <1>7, <2>4, <2>5 DEF SameSlots, SameLive, NoneAwaited
    <3>2. Good(k, j, q)
      BY <1>1, <3>1 DEF Tidy
    <3>3. (DirtyEntry(k)' <=> DirtyEntry(k)) /\ page' = page
      BY <1>6, <1>7 DEF SameDirty
    <3>4. CASE task'[t].ok /\ k = id /\ j = i
      <4>1. page'[q].val = file'[k][j]
        BY <2>1, <2>3, <3>1, <3>3, <3>4
      <4>2. QED
        BY <3>2, <3>3, <4>1 DEF Good
    <3>5. CASE ~(task'[t].ok /\ k = id /\ j = i)
      <4>1. file'[k][j] = file[k][j]
        BY <1>6, <1>8, <3>5
      <4>2. QED
        BY <3>2, <3>3, <4>1 DEF Good
    <3>6. QED
      BY <3>4, <3>5
  <2>6. Tidy'
    BY <2>5 DEF Tidy
  <2>7. task'[t].op = "flush" /\ task'[t].id = id /\ task'[t].idx = i
    BY <1>2, <2>2 DEF Steady
  <2>8. ASSUME NEW j \in Idx, j < i
        PROVE  Settled(id, j)'
    <3>1. Settled(id, j)
      BY <1>1, <1>2, <2>2, <2>8 DEF Carries
    <3>2. QED
      BY <1>6, <1>7, <3>1, SettledKept
  <2>9. ASSUME task'[t].ok, NEW q \in Ref, Slot(id, i)' = q
        PROVE  page'[q].val = file'[id][i]
    BY <1>6, <1>7, <2>1, <2>3, <2>9 DEF SameSlots
  <2>10. Carries(t)'
    BY <1>2, <2>7, <2>8, <2>9 DEF Carries
  <2>11. QED
    BY <2>6, <2>10 DEF CleanNext
<1>11. QED
  BY <1>9, <1>10

LEMMA FlushAckClean ==
  ASSUME NEW t \in Worker, Lone(t), Clean, FlushAck(t)
  PROVE  CleanNext(t)
<1>1. Base /\ Matched /\ OnlyOwn(t) /\ Tidy /\ Carries(t)
  BY CleanFacts
<1>2. task[t].pc = "flush_ack" /\ task'[t].pc = AfterFlushAt(t) /\ Steady(t)
  BY <1>1, FlushAckFrame
<1>3. InFunction(t) = "flush"
  BY FlushAckShape
<1>4. PICK id \in Id, i \in Idx : FlushesPage(t, id, i)
  BY <1>2, <1>3, FlushKnows
<1>5. /\ UNCHANGED <<table, lru, file>> /\ SameResult(t)
      /\ IF task[t].ok /\ ~Evicting(t) THEN Cleaned(task[t].ref) ELSE page' = page
  BY <1>1, FlushAckEffect
<1>6. SameSlots /\ SameDirty /\ SameLive /\ DirtyStays
  BY <1>5, SameViews, SameLiveList, SameStays
<1>7. CASE Evicting(t)
  <2>1. task[t].op \in {"read", "write"} /\ task'[t].pc = "evict_erase"
    BY <1>1, <1>2, <1>7 DEF Base, Victims, Evicting, AfterFlushAt
  <2>2. Holding(t)'
    BY <1>2, <1>7 DEF Holding, Evicting, Steady
  <2>3. AwaitedStays
    BY <1>1, <1>2, <2>2, OwnAwaited DEF Steady
  <2>4. Tidy'
    BY <1>1, <1>5, <1>6, <1>7, <2>3, TidyKept
  <2>5. Carries(t)'
    BY <1>1, <1>2, <1>6, <2>1, CarriesIO DEF Steady
  <2>6. QED
    BY <2>4, <2>5 DEF CleanNext
<1>8. CASE ~Evicting(t)
  <2>1. PICK r \in Ref : r = task[t].ref /\ Live(r) /\ Slot(id, i) = r
    BY <1>4, <1>8 DEF FlushesPage
  <2>2. task[t].op = "flush" /\ task[t].id = id /\ task[t].idx = i
    BY <1>4, <1>8 DEF FlushesPage
  <2>3. NoneAwaited
    BY <1>1, <2>2, NotWriting
  <2>4. task[t].ok => page[r].val = file[id][i]
    BY <1>1, <1>2, <2>1, <2>2 DEF Carries
  <2>5. IF task[t].ok THEN Cleaned(r) ELSE page' = page
    BY <1>5, <1>8, <2>1
  <2>6. ASSUME NEW k \in Id, NEW j \in Idx, NEW q \in Ref, Slot(k, j)' = q, Live(q)'
        PROVE  Good(k, j, q)'
    <3>1. Slot(k, j) = q /\ Live(q) /\ ~Awaited(k, j)
      BY <1>6, <2>3, <2>6 DEF SameSlots, SameLive, NoneAwaited
    <3>2. Good(k, j, q)
      BY <1>1, <3>1 DEF Tidy
    <3>3. DirtyEntry(k)' <=> DirtyEntry(k)
      BY <1>6 DEF SameDirty
    <3>4. CASE task[t].ok /\ q = r
      <4>1. k = id /\ j = i
        BY <1>1, <2>1, <3>1, <3>4, OneSlot
      <4>2. page'[q].val = page[q].val /\ page'[q].dirty = FALSE
        BY <2>5, <3>4 DEF Cleaned
      <4>3. page'[q].val = file'[k][j]
        BY <1>5, <2>4, <3>4, <4>1, <4>2
      <4>4. QED
        BY <4>2, <4>3 DEF Good
    <3>5. CASE ~(task[t].ok /\ q = r)
      <4>1. page'[q] = page[q]
        BY <2>5, <3>5 DEF Cleaned
      <4>2. QED
        BY <1>5, <3>2, <3>3, <4>1 DEF Good
    <3>6. QED
      BY <3>4, <3>5
  <2>7. Tidy'
    BY <2>6 DEF Tidy
  <2>8. /\ task'[t].op = "flush" /\ task'[t].id = id /\ task'[t].idx = i
        /\ task'[t].pc = "flush_next" /\ task'[t].ok = task[t].ok
    BY <1>2, <1>5, <1>8, <2>2 DEF Steady, AfterFlushAt, Evicting, SameResult
  <2>9. ASSUME NEW j \in Idx, j < i
        PROVE  Settled(id, j)'
    <3>1. Settled(id, j)
      BY <1>1, <1>2, <2>2, <2>9 DEF Carries
    <3>2. ASSUME NEW q \in Ref, Slot(id, j)' = q
          PROVE  Live(q)' /\ ~page'[q].dirty
      <4>1. Live(q) /\ ~page[q].dirty
        BY <1>6, <3>1, <3>2 DEF SameSlots, Settled
      <4>2. ~page'[q].dirty
        BY <2>5, <4>1 DEF Cleaned
      <4>3. QED
        BY <1>6, <4>1, <4>2 DEF SameLive
    <3>3. QED
      BY <3>2 DEF Settled
  <2>10. ASSUME task[t].ok
         PROVE  Settled(id, i)'
    <3>1. page'[r].dirty = FALSE /\ Live(r)' /\ Slot(id, i)' = r
      BY <1>6, <2>1, <2>5, <2>10 DEF Cleaned, SameLive, SameSlots
    <3>2. QED
      BY <3>1 DEF Settled
  <2>11. Carries(t)'
    BY <2>8, <2>9, <2>10 DEF Carries
  <2>12. QED
    BY <2>7, <2>11 DEF CleanNext
<1>9. QED
  BY <1>7, <1>8

\* Before its first page flush has settled nothing.
LEMMA CarriesStart ==
  ASSUME NEW t, task'[t].op = "flush", task'[t].idx = -1, task'[t].pc \in {"flush_open", "flush_next"}
  PROVE  Carries(t)'
<1>1. \A i \in Idx : i # -1 /\ ~(i < -1)
  BY CacheAssumption DEF Idx
<1>2. QED
  BY <1>1 DEF Carries

LEMMA FlushClean ==
  ASSUME NEW t \in Worker, Lone(t), Clean, Flush(t)
  PROVE  CleanNext(t)
<1>1. Base /\ Knows(t) /\ OnlyOwn(t) /\ Tidy /\ Carries(t)
  BY CleanFacts
<1>2. /\ task[t].pc = "flush"
      /\ \/ Finished(t)
         \/ task'[t].pc = "flush_next" /\ Steady(t)
         \/ Requested(t, "flush_open")
  BY <1>1, FlushFrame
<1>3. SameSlots /\ SameDirty /\ SameData
  BY <1>1, FlushEffect
<1>4. SameLive /\ DirtyStays
  BY <1>3, SameDataShape, SameStays
<1>5. task[t].op = "flush" /\ task[t].idx = -1
  BY <1>1, <1>2 DEF Knows, Base, Frames, FrameOf, WellFormed
<1>6. AwaitedStays
  BY <1>1, <1>5, NotWriting
<1>7. Tidy'
  BY <1>1, <1>3, <1>4, <1>6, TidyKept DEF SameData
<1>8. CASE Finished(t)
  <2>1. Carries(t)'
    BY <1>8, CarriesDone DEF Finished
  <2>2. QED
    BY <1>7, <2>1 DEF CleanNext
<1>9. CASE (task'[t].pc = "flush_next" /\ Steady(t)) \/ Requested(t, "flush_open")
  <2>1. /\ task'[t].op = "flush" /\ task'[t].idx = -1
        /\ task'[t].pc \in {"flush_open", "flush_next"}
    BY <1>5, <1>9 DEF Steady, Requested
  <2>2. Carries(t)'
    BY <2>1, CarriesStart
  <2>3. QED
    BY <1>7, <2>2 DEF CleanNext
<1>10. QED
  BY <1>2, <1>8, <1>9

LEMMA FlushOpenedClean ==
  ASSUME NEW t \in Worker, Lone(t), Clean, FlushOpened(t)
  PROVE  CleanNext(t)
<1>1. Base /\ Knows(t) /\ OnlyOwn(t) /\ Tidy /\ Carries(t)
  BY CleanFacts
<1>2. task[t].ok
  BY FlushOpenedShape
<1>3. task[t].pc = "flush_open"
  BY <1>1, FlushOpenedFrame
<1>4. task'[t].pc = "flush_next" /\ Steady(t)
  BY <1>1, <1>2, FlushOpenedFrame
<1>5. SameSlots /\ SameDirty /\ SameData
  BY <1>1, <1>2, FlushOpenedEffect
<1>6. SameLive /\ DirtyStays
  BY <1>5, SameDataShape, SameStays
<1>7. task[t].op = "flush" /\ task[t].idx = -1
  BY <1>1, <1>3 DEF Knows, Base, Frames, FrameOf, WellFormed
<1>8. AwaitedStays
  BY <1>1, <1>7, NotWriting
<1>9. Tidy'
  BY <1>1, <1>5, <1>6, <1>8, TidyKept DEF SameData
<1>10. Carries(t)'
  BY <1>4, <1>7, CarriesStart DEF Steady
<1>11. QED
  BY <1>9, <1>10 DEF CleanNext

\* Only after a success flush goes on to the next page.
LEMMA FlushNextGoesOn ==
  ASSUME Base, NEW t \in Worker, FlushNext(t), task'[t].pc # "done"
  PROVE  task[t].ok
<1>1. t \in Task /\ task \in [Task -> Frame]
  BY DEF Base, TypeOK, Task
<1>2. task[t].ok \/ task' = [task EXCEPT ![t] = Finish(t, task[t].ok)]
  BY DEF FlushNext
<1>3. task' = [task EXCEPT ![t] = Finish(t, task[t].ok)] => task'[t].pc = "done"
  BY <1>1 DEF Finish, Idle
<1>4. QED
  BY <1>2, <1>3

\* flush marks the entry clean only after every page of the file is settled.
LEMMA FlushNextClean ==
  ASSUME NEW t \in Worker, Lone(t), Clean, FlushNext(t)
  PROVE  CleanNext(t)
<1>1. Base /\ OnlyOwn(t) /\ Tidy /\ Carries(t)
  BY CleanFacts
<1>2. task[t].op = "flush"
  BY FlushNextShape
<1>3. task[t].pc = "flush_next"
  BY <1>1, FlushNextFrame
<1>4. PICK id \in Id : id = task[t].id
  BY <1>1, <1>3, OwnIndex
<1>5. /\ SameSlots /\ SameData
      /\ \/ SameDirty /\ SameResult(t) /\ \E i \in Idx : StopsAt(t, id, i)
         \/ EndsFlush(t, id)
  BY <1>1, <1>4, FlushNextEffect
<1>6. SameLive /\ UNCHANGED <<page, file>>
  BY <1>5, SameDataShape DEF SameData
<1>7. NoneAwaited /\ AwaitedStays
  BY <1>1, <1>2, NotWriting
<1>8. \/ task'[t].pc = "enter" /\ task'[t].id = id /\ task'[t].op = "flush"
      \/ Finished(t)
  BY <1>1, <1>2, <1>4, FlushNextFrame
<1>9. task[t].idx \in Int /\ \A j \in Idx : j \in Int
  BY <1>1, <1>3, OwnIndex, CacheAssumption DEF Idx
<1>10. \A j \in Idx : j < task[t].idx => Settled(id, j)
  BY <1>1, <1>2, <1>3, <1>4 DEF Carries
<1>11. task[t].ok => \A j \in Idx : j = task[t].idx => Settled(id, j)
  BY <1>1, <1>3, <1>4 DEF Carries
<1>12. CASE task'[t].pc = "enter" /\ task'[t].id = id /\ task'[t].op = "flush"
  <2>1. SameDirty /\ \E i \in Idx : StopsAt(t, id, i)
    BY <1>5, <1>12 DEF EndsFlush
  <2>2. PICK i \in Idx : StopsAt(t, id, i)
    BY <2>1
  <2>3. DirtyStays
    BY <2>1, SameStays
  <2>4. Tidy'
    BY <1>1, <1>5, <1>6, <1>7, <2>3, TidyKept
  <2>5. task[t].ok
    BY <1>1, <1>12, FlushNextGoesOn
  <2>6. ASSUME NEW j \in Idx, j < i
        PROVE  Settled(id, j)'
    <3>1. j < task[t].idx \/ j = task[t].idx \/ j > task[t].idx
      BY <1>9
    <3>2. Settled(id, j)
      BY <1>10, <1>11, <2>2, <2>5, <2>6, <3>1 DEF StopsAt
    <3>3. QED
      BY <1>5, <1>6, <3>2, SettledKept
  <2>7. task'[t].idx = i
    BY <2>2 DEF StopsAt
  <2>8. Carries(t)'
    BY <1>12, <2>6, <2>7 DEF Carries
  <2>9. QED
    BY <2>4, <2>8 DEF CleanNext
<1>13. CASE Finished(t)
  <2>1. EndsFlush(t, id)
    BY <1>5, <1>13 DEF StopsAt, Finished
  <2>2. Carries(t)'
    BY <1>13, CarriesDone DEF Finished
  <2>3. CASE ~task[t].ok
    <3>1. DirtyStays
      BY <2>1, <2>3, SameStays DEF EndsFlush
    <3>2. Tidy'
      BY <1>1, <1>5, <1>6, <1>7, <3>1, TidyKept
    <3>3. QED
      BY <2>2, <3>2 DEF CleanNext
  <2>4. CASE task[t].ok
    <3>1. ASSUME NEW k \in Id, NEW j \in Idx, NEW q \in Ref, Slot(k, j)' = q, Live(q)'
          PROVE  Good(k, j, q)'
      <4>1. Slot(k, j) = q /\ Live(q) /\ ~Awaited(k, j)
        BY <1>5, <1>6, <1>7, <3>1 DEF SameSlots, SameLive, NoneAwaited
      <4>2. Good(k, j, q)
        BY <1>1, <4>1 DEF Tidy
      <4>3. CASE k # id
        <5>1. DirtyEntry(k)' <=> DirtyEntry(k)
          BY <2>1, <4>3 DEF EndsFlush
        <5>2. QED
          BY <1>6, <4>2, <5>1 DEF Good
      <4>4. CASE k = id
        <5>1. j < task[t].idx \/ j = task[t].idx \/ j > task[t].idx
          BY <1>9
        <5>2. Settled(id, j)
          BY <1>10, <1>11, <2>1, <2>4, <5>1 DEF EndsFlush
        <5>3. ~page[q].dirty
          BY <4>1, <4>4, <5>2 DEF Settled
        <5>4. QED
          BY <1>6, <4>2, <5>3 DEF Good
      <4>5. QED
        BY <4>3, <4>4
    <3>2. Tidy'
      BY <3>1 DEF Tidy
    <3>3. QED
      BY <2>2, <3>2 DEF CleanNext
  <2>5. QED
    BY <2>3, <2>4
<1>14. QED
  BY <1>8, <1>12, <1>13

LEMMA WorkerClean ==
  ASSUME NEW t \in Worker, Lone(t), Clean, ~Woken(t), PageStep(t) \/ FlushStep(t)
  PROVE  Clean'
<1>1. CleanNext(t)
  <2>1. CASE PageStep(t)
    BY <2>1, EnterClean, ReadFindClean, ReadOpenedClean, ReadFetchClean, ReadFilledClean,
       WriteFindClean, CopyPageClean DEF PageStep
  <2>2. CASE FlushStep(t)
    BY <2>2, EvictPopClean, EvictDoneClean, EvictOpenedClean, EvictEraseClean,
       FlushWriteClean, FlushAckClean, FlushClean, FlushOpenedClean, FlushNextClean DEF FlushStep
  <2>3. QED
    BY <2>1, <2>2
<1>2. \A u \in Worker : u # t => Carries(u)'
  BY AsideFacts DEF Lone
<1>3. QED
  BY <1>1, <1>2 DEF Clean, CleanNext

\* Between two operations no page is about to be replaced.
LEMMA RestAwaits ==
  ASSUME Base, \A u \in Worker : task[u].pc \in {"idle", "done"}
  PROVE  NoneAwaited /\ \A id \in Id, i \in Idx : ~Leaving(id, i)
<1>1. ASSUME NEW u \in Worker
      PROVE  ~Holding(u) /\ ~Evicting(u)
  <2>1. ~Evicting(u)
    BY DEF Base, Victims, Evicting
  <2>2. QED
    BY <2>1 DEF Holding
<1>2. QED
  BY <1>1 DEF NoneAwaited, Awaited, Writing, Leaving, VictimOn

LEMMA ClientClean ==
  ASSUME Base, Alone, Clean, NEW c \in Client, ClientStep(c)
  PROVE  Clean'
<1>1. ClientEffect
  BY ClientEffects
<1>2. SameSlots /\ SameLive /\ UNCHANGED <<page, file>> /\ DirtyStays
  BY <1>1, SameLiveList DEF ClientEffect, DirtyStays
<1>3. NoneAwaited
  BY <1>1, RestAwaits DEF ClientEffect
<1>4. AwaitedStays
  BY <1>3 DEF NoneAwaited, AwaitedStays
<1>5. Tidy'
  BY <1>2, <1>4, TidyKept DEF Clean
<1>6. ASSUME NEW u \in Worker
      PROVE  Carries(u)'
  <2>1. Fresh(u)
    BY <1>1 DEF ClientEffect
  <2>2. ASSUME NEW id \in Id, task'[u].id = id, task'[u].pc = "enter", task'[u].op = "write"
        PROVE  DirtyEntry(id)'
    <3>1. DirtyEntry(task[u].id)'
      BY <2>1, <2>2 DEF Fresh
    <3>2. QED
      BY <2>2, <3>1 DEF DirtyEntry
  <2>3. \/ task'[u].pc \in {"idle", "done"}
        \/ task'[u].pc = "enter" /\ task'[u].op \in {"read", "write"}
        \/ task'[u].pc = "flush" /\ task'[u].op # "write"
    BY <2>1 DEF Fresh
  <2>4. QED
    BY <2>2, <2>3 DEF Carries
<1>7. QED
  BY <1>5, <1>6 DEF Clean

LEMMA InitClean ==
  ASSUME Init
  PROVE  Clean
<1>1. \A id \in Id, i \in Idx : Slot(id, i) = None
  BY DEF Init, Slot
<1>2. Tidy
  BY <1>1, CacheAssumption DEF Tidy
<1>3. \A u \in Worker : task[u].pc = "idle"
  BY DEF Init, Idle, Task
<1>4. QED
  BY <1>2, <1>3 DEF Clean, Carries

Written == Structure /\ Clean

LEMMA WrittenStep ==
  ASSUME Alone, OpensSucceed, Written, FileStep
  PROVE  Written'
<1>1. Structure /\ Clean /\ Base /\ Descriptors /\ Waiting /\ Overlong /\ Shape
  BY DEF Written, Structure
<1>2. Structure'
  BY <1>1, StructureStep
<1>3. ASSUME NEW c \in Client, ClientStep(c)
      PROVE  Clean'
  BY <1>1, <1>3, ClientClean
<1>4. ASSUME NEW t \in Worker, PageStep(t) \/ FlushStep(t)
      PROVE  Clean'
  BY <1>1, <1>4, WorkerShape, WorkerClean
<1>5. \A t \in Worker : ~Dangle(t)
  BY <1>1, NeverDangles
<1>6. QED
  BY <1>2, <1>3, <1>4, <1>5 DEF FileStep, Written

LEMMA WrittenStutters ==
  ASSUME Written, UNCHANGED vars
  PROVE  Written'
<1>1. Structure'
  BY StructureStutters DEF Written
<1>2. UNCHANGED <<table, lru, page, task, file>>
  BY DEF vars
<1>3. SameSlots /\ SameDirty /\ SameLive /\ DirtyStays
  BY <1>2, SameViews, SameLiveList, SameStays
<1>4. AwaitedStays
  BY <1>2 DEF AwaitedStays, Awaited, Writing, Holding, Evicting
<1>5. Tidy'
  BY <1>2, <1>3, <1>4, TidyKept DEF Written, Clean
<1>6. ASSUME NEW t \in Worker
      PROVE  Carries(t)'
  <2>1. Carries(t)
    BY DEF Written, Clean
  <2>2. QED
    BY <1>2, <2>1 DEF Carries, Settled, Slot, Live, DirtyEntry
<1>7. QED
  BY <1>1, <1>5, <1>6 DEF Written, Clean

LEMMA WrittenHolds == Alone /\ OpensSucceed => (FileSpec => []Written)
<1> SUFFICES ASSUME Alone, OpensSucceed
             PROVE  FileSpec => []Written
  OBVIOUS
<1>1. Init => Written
  BY InitStructure, InitClean DEF Written
<1>2. Written /\ [FileStep]_vars => Written'
  BY WrittenStep, WrittenStutters
<1>3. QED
  BY <1>1, <1>2, PTL DEF FileSpec

\* At rest a cached page is in the list, and no write is about to replace it.
LEMMA RestingPage ==
  ASSUME Structure, AtRest, NEW id \in Id, NEW i \in Idx, Cached(id, i)
  PROVE  /\ Slot(id, i) = table[id].pages[i] /\ Slot(id, i) \in Ref /\ Live(Slot(id, i))
         /\ ~Awaited(id, i)
<1>1. Base /\ Matched
  BY DEF Structure, Shape
<1>2. ~Awaited(id, i) /\ ~Leaving(id, i)
  BY <1>1, RestAwaits DEF AtRest, NoneAwaited
<1>3. Slot(id, i) = table[id].pages[i] /\ Slot(id, i) # None
  BY DEF Cached, Slot
<1>4. QED
  BY <1>1, <1>2, <1>3, SlotLive

\* Under one such caller a page the cache would not write back any more is on the device:
\* a page is marked clean only after its bytes arrived, and a file only after all its
\* pages were, also when reads and writes of the device fail on the way.
THEOREM CleanPagesOnDevice == Alone /\ OpensSucceed => (FileSpec => []CleanOnDevice)
<1> SUFFICES ASSUME Alone, OpensSucceed
             PROVE  FileSpec => []CleanOnDevice
  OBVIOUS
<1>1. FileSpec => []Written
  BY WrittenHolds
<1>2. Written => CleanOnDevice
  <2> SUFFICES ASSUME Written, AtRest, NEW id \in Id, NEW i \in Idx, Cached(id, i),
                      ~page[table[id].pages[i]].dirty \/ ~table[id].dirty
               PROVE  page[table[id].pages[i]].val = file[id][i]
    BY DEF CleanOnDevice
  <2>1. /\ Slot(id, i) = table[id].pages[i] /\ Slot(id, i) \in Ref /\ Live(Slot(id, i))
        /\ ~Awaited(id, i)
    BY RestingPage DEF Written
  <2>2. PICK r \in Ref : r = Slot(id, i)
    BY <2>1
  <2>3. Good(id, i, r)
    BY <2>1, <2>2 DEF Written, Clean, Tidy
  <2>4. ~page[r].dirty \/ ~DirtyEntry(id)
    BY <2>1, <2>2 DEF DirtyEntry
  <2>5. QED
    BY <2>1, <2>2, <2>3, <2>4 DEF Good
<1>3. QED
  BY <1>1, <1>2, PTL

-----------------------------------------------------------------------------
(* A reader is shown what the writes define, when no device write fails *)

\* What a step of t has to show.
ExactNext(t) == Stored' /\ Shown' /\ Rescued(t)'

\* A step that moves no bytes.
Quiet(t) ==
  /\ SameSlots /\ SameLive /\ UNCHANGED <<page, file, content>> /\ AwaitedStays
  /\ task'[t].victim = task[t].victim
  /\ task'[t].pc = "flush_ack" => task[t].pc = "flush_ack"
  /\ task'[t].pc = "evict_erase" => task[t].pc \in {"flush_ack", "evict_erase"}

LEMMA ShownKept ==
  ASSUME Stored, Shown, SameSlots, SameLive, UNCHANGED <<page, file, content>>, AwaitedStays
  PROVE  Stored' /\ Shown'
<1>1. Stored'
  BY DEF Stored, SameSlots
<1>2. ASSUME NEW id \in Id, NEW i \in Idx, NEW r \in Ref,
             Slot(id, i)' = r, Live(r)', ~Awaited(id, i)'
      PROVE  page'[r].val = content'[id][i]
  <2>1. Slot(id, i) = r /\ Live(r) /\ ~Awaited(id, i)
    BY <1>2 DEF SameSlots, SameLive, AwaitedStays
  <2>2. QED
    BY <2>1 DEF Shown
<1>3. Shown'
  BY <1>2 DEF Shown
<1>4. QED
  BY <1>1, <1>3

LEMMA NotRescued ==
  ASSUME NEW t, task'[t].victim = None
  PROVE  Rescued(t)'
<1>1. \A id, i : ~VictimOn(t, id, i)'
  BY DEF VictimOn, Evicting
<1>2. QED
  BY <1>1 DEF Rescued

LEMMA QuietExact ==
  ASSUME NEW t \in Worker, Exact, Quiet(t)
  PROVE  ExactNext(t)
<1>1. Stored' /\ Shown'
  BY ShownKept DEF Exact, Quiet
<1>2. ASSUME NEW id \in Id, NEW i \in Idx, VictimOn(t, id, i)'
      PROVE  /\ task'[t].victim.val = content'[id][i]
             /\ task'[t].pc \in {"flush_ack", "evict_erase"} => file'[id][i] = content'[id][i]
  <2>1. VictimOn(t, id, i)
    BY <1>2 DEF VictimOn, Evicting, Quiet
  <2>2. /\ task[t].victim.val = content[id][i]
        /\ task[t].pc \in {"flush_ack", "evict_erase"} => file[id][i] = content[id][i]
    BY <2>1 DEF Exact, Rescued
  <2>3. QED
    BY <2>2 DEF Quiet
<1>3. Rescued(t)'
  BY <1>2 DEF Rescued
<1>4. QED
  BY <1>1, <1>3 DEF ExactNext

LEMMA EnterQuiet ==
  ASSUME NEW t \in Worker, Lone(t), Clean, Enter(t)
  PROVE  Quiet(t)
<1>1. Base /\ OnlyOwn(t)
  BY CleanFacts
<1>2. task[t].pc = "enter" /\ Steady(t)
  BY <1>1, EnterFrame
<1>3. task'[t].pc = "body" /\ SameSlots /\ SameData
  BY <1>1, EnterShape, EnterEffect
<1>4. Holding(t) => Holding(t)'
  BY <1>2, <1>3 DEF Holding, Evicting, Steady
<1>5. SameLive /\ AwaitedStays
  BY <1>1, <1>2, <1>3, <1>4, SameDataShape, OwnAwaited DEF Steady
<1>6. QED
  BY <1>2, <1>3, <1>5 DEF Quiet, SameData, Steady

LEMMA ReadFindQuiet ==
  ASSUME NEW t \in Worker, Lone(t), Clean, ReadFind(t)
  PROVE  Quiet(t)
<1>1. Base /\ OnlyOwn(t)
  BY CleanFacts
<1>2. /\ task[t].op = "read"
      /\ task'[t].pc \in {"copy", "fetch", "read_open"} /\ task'[t].victim = task[t].victim
  BY <1>1, ReadFindFrame DEF Moved, Steady, Requested
<1>3. table' = table /\ SameData
  BY <1>1, ReadFindEffect
<1>4. SameSlots /\ SameLive /\ AwaitedStays
  BY <1>1, <1>2, <1>3, SameViews, SameDataShape, NotWriting
<1>5. QED
  BY <1>2, <1>3, <1>4 DEF Quiet, SameData

LEMMA ReadOpenedQuiet ==
  ASSUME NEW t \in Worker, Lone(t), Clean, ReadOpened(t)
  PROVE  Quiet(t)
<1>1. Base /\ OnlyOwn(t) /\ task[t].ok
  BY CleanFacts, ReadOpenedShape
<1>2. task[t].pc = "read_open" /\ task'[t].pc = "fetch" /\ task'[t].victim = task[t].victim
  BY <1>1, ReadOpenedFrame
<1>3. SameSlots /\ SameData
  BY <1>1, ReadOpenedEffect
<1>4. task[t].op = "read"
  BY <1>1, <1>2 DEF Base, Frames, FrameOf, WellFormed
<1>5. SameLive /\ AwaitedStays
  BY <1>1, <1>3, <1>4, SameDataShape, NotWriting
<1>6. QED
  BY <1>2, <1>3, <1>5 DEF Quiet, SameData

LEMMA ReadFetchQuiet ==
  ASSUME NEW t \in Worker, Lone(t), Clean, ReadFetch(t)
  PROVE  Quiet(t)
<1>1. Base /\ OnlyOwn(t) /\ FdsValid /\ FdAt(task[t].id, "r") # None
  BY CleanFacts, ReadFetchShape DEF Lone, Descriptors
<1>2. task[t].pc = "fetch" /\ task'[t].pc = "fill" /\ Steady(t)
  BY <1>1, ReadFetchFrame
<1>3. table' = table /\ SameData
  BY <1>1, ReadFetchEffect
<1>4. task[t].op = "read"
  BY <1>1, <1>2 DEF Base, Frames, FrameOf, WellFormed
<1>5. SameSlots /\ SameLive /\ AwaitedStays
  BY <1>1, <1>3, <1>4, SameViews, SameDataShape, NotWriting
<1>6. QED
  BY <1>2, <1>3, <1>5 DEF Quiet, SameData, Steady

LEMMA EvictDoneQuiet ==
  ASSUME NEW t \in Worker, Lone(t), Clean, EvictDone(t)
  PROVE  Quiet(t)
<1>1. Base /\ OnlyOwn(t)
  BY CleanFacts
<1>2. task[t].pc = "evict" /\ task'[t].pc = "copy" /\ Steady(t)
  BY <1>1, EvictDoneFrame
<1>3. table' = table /\ SameData
  BY <1>1, EvictDoneEffect
<1>4. Holding(t)'
  BY <1>2 DEF Holding
<1>5. SameSlots /\ SameLive /\ AwaitedStays
  BY <1>1, <1>2, <1>3, <1>4, SameViews, SameDataShape, OwnAwaited DEF Steady
<1>6. QED
  BY <1>2, <1>3, <1>5 DEF Quiet, SameData, Steady

LEMMA EvictOpenedQuiet ==
  ASSUME NEW t \in Worker, Lone(t), Clean, EvictOpened(t)
  PROVE  Quiet(t)
<1>1. Base /\ OnlyOwn(t) /\ task[t].ok
  BY CleanFacts, EvictOpenedShape
<1>2. task[t].pc = "evict_open" /\ task'[t].pc = "enter" /\ Steady(t)
  BY <1>1, EvictOpenedFrame
<1>3. SameSlots /\ SameData
  BY <1>1, EvictOpenedEffect
<1>4. task[t].victim # None
  BY <1>1, <1>2 DEF Base, Frames, FrameOf, WellFormed
<1>5. Holding(t)'
  BY <1>2, <1>4 DEF Holding, Evicting, Steady
<1>6. SameLive /\ AwaitedStays
  BY <1>1, <1>2, <1>3, <1>5, SameDataShape, OwnAwaited DEF Steady
<1>7. QED
  BY <1>2, <1>3, <1>6 DEF Quiet, SameData, Steady

\* flush moves no bytes itself.
LEMMA FlushQuiet ==
  ASSUME NEW t \in Worker, Lone(t), Clean, Flush(t) \/ FlushOpened(t) \/ FlushNext(t)
  PROVE  Quiet(t)
<1>1. Base /\ OnlyOwn(t)
  BY CleanFacts
<1>2. task[t].pc \in {"flush", "flush_open", "flush_next"}
  BY DEF Flush, FlushOpened, FlushNext, MayRun, Answered
<1>3. task[t].op = "flush" /\ task[t].victim = None
  BY <1>1, <1>2 DEF Base, Frames, FrameOf, WellFormed, Victims
<1>4. AwaitedStays
  BY <1>1, <1>3, NotWriting
<1>5. SameSlots /\ SameData
  <2>1. CASE Flush(t)
    BY <1>1, <2>1, FlushEffect
  <2>2. CASE FlushOpened(t)
    BY <1>1, <2>2, FlushOpenedShape, FlushOpenedEffect
  <2>3. CASE FlushNext(t)
    <3>1. PICK id \in Id : id = task[t].id
      BY <1>1, <1>2, OwnIndex
    <3>2. QED
      BY <1>1, <2>3, <3>1, FlushNextEffect
  <2>4. QED
    BY <2>1, <2>2, <2>3
<1>6. task'[t].victim = None /\ task'[t].pc \in {"done", "enter", "flush_open", "flush_next"}
  <2>1. CASE Flush(t)
    BY <1>1, <1>3, <2>1, FlushFrame DEF Finished, Steady, Requested
  <2>2. CASE FlushOpened(t)
    BY <1>1, <1>3, <2>2, FlushOpenedShape, FlushOpenedFrame DEF Steady
  <2>3. CASE FlushNext(t)
    BY <1>1, <1>3, <2>3, FlushNextFrame DEF Finished
  <2>4. QED
    BY <2>1, <2>2, <2>3
<1>7. SameLive
  BY <1>5, SameDataShape
<1>8. QED
  BY <1>3, <1>4, <1>5, <1>6, <1>7 DEF Quiet, SameData

\* A new page has the bytes the writes define, or is about to be written.
LEMMA ShownInserted ==
  ASSUME Matched, NoneLeaves, Stored, Shown, NoneAwaited, UNCHANGED <<file, content>>,
         NEW id \in Id, NEW i \in Idx, NEW r, NEW v, Inserted(id, i, r, v),
         v = content[id][i] \/ Awaited(id, i)'
  PROVE  Stored' /\ Shown'
<1>1. /\ r \in Ref /\ ~Live(r) /\ page'[r].val = v /\ SetSlot(id, i, r)
      /\ \A q \in Ref : q # r => page'[q] = page[q]
  BY DEF Inserted
<1>2. Slot(id, i)' = r /\ r # None
  BY <1>1, SlotNext, CacheAssumption
<1>3. Stored'
  BY <1>1, <1>2 DEF Stored, SetSlot
<1>4. ASSUME NEW k \in Id, NEW j \in Idx, NEW q \in Ref,
             Slot(k, j)' = q, Live(q)', ~Awaited(k, j)'
      PROVE  page'[q].val = content'[k][j]
  <2>1. CASE k = id /\ j = i
    BY <1>1, <1>2, <1>4, <2>1
  <2>2. CASE k # id \/ j # i
    <3>1. Slot(k, j) = q
      BY <1>1, <1>4, <2>2 DEF SetSlot
    <3>2. Live(q) /\ q # r
      BY <1>1, <3>1 DEF Matched, NoneLeaves
    <3>3. page[q].val = content[k][j]
      BY <3>1, <3>2 DEF Shown, NoneAwaited
    <3>4. QED
      BY <1>1, <3>2, <3>3
  <2>3. QED
    BY <2>1, <2>2
<1>5. Shown'
  BY <1>4 DEF Shown
<1>6. QED
  BY <1>3, <1>5

LEMMA ReadFilledExact ==
  ASSUME NEW t \in Worker, Lone(t), Clean, Exact, ReadFilled(t)
  PROVE  ExactNext(t)
<1>1. Base /\ Matched /\ OnlyOwn(t) /\ Carries(t) /\ Stored /\ Shown
  BY CleanFacts DEF Exact
<1>2. /\ Own(t) = None /\ task[t].victim = None
      /\ readQueue[<<task[t].id, task[t].idx>>] # None
      /\ task[t].ok => Moved(t)
  BY ReadFilledShape
<1>3. task[t].pc = "fill" /\ KeyOf(t) = <<task[t].id, task[t].idx>>
  BY <1>1, ReadFilledFrame, FillKey
<1>4. task[t].op = "read"
  BY <1>1, <1>3 DEF Base, Frames, FrameOf, WellFormed
<1>5. PICK id \in Id, i \in Idx : id = task[t].id /\ i = task[t].idx
  BY <1>1, <1>3, <1>4, OwnIndex
<1>6. /\ UNCHANGED <<file, content>>
      /\ IF task[t].ok
         THEN Inserted(id, i, task'[t].ref, task[t].val)
         ELSE SameSlots /\ SameData
  BY <1>1, <1>2, <1>5, ReadFilledEffect
<1>7. NoneAwaited /\ AwaitedStays
  BY <1>1, <1>4, NotWriting
<1>8. CASE task[t].ok
  <2>1. task'[t].victim = None
    BY <1>2, <1>8 DEF Moved
  <2>2. NoneLeaves
    BY <1>1, <1>2, <2>1, NoVictim
  <2>3. task[t].val = file[id][i]
    BY <1>1, <1>3, <1>5, <1>8 DEF Carries
  <2>4. file[id][i] = content[id][i]
    BY <1>1, <1>2, <1>5 DEF Own, Stored
  <2>5. task[t].val = content[id][i]
    BY <2>3, <2>4
  <2>6. Stored' /\ Shown'
    BY <1>1, <1>6, <1>7, <1>8, <2>2, <2>5, ShownInserted
  <2>7. QED
    BY <2>1, <2>6, NotRescued DEF ExactNext
<1>9. CASE ~task[t].ok
  <2>1. SameSlots /\ SameLive /\ UNCHANGED <<page, file, content>>
    BY <1>6, <1>9, SameDataShape DEF SameData
  <2>2. Stored' /\ Shown'
    BY <1>1, <1>7, <2>1, ShownKept
  <2>3. task'[t].victim = None
    BY <1>1, <1>2, <1>3, <1>9, ReadFilledFrame DEF Finished
  <2>4. QED
    BY <2>2, <2>3, NotRescued DEF ExactNext
<1>10. QED
  BY <1>8, <1>9

LEMMA WriteFindExact ==
  ASSUME NEW t \in Worker, Lone(t), Clean, Exact, WriteFind(t)
  PROVE  ExactNext(t)
<1>1. Base /\ Matched /\ OnlyOwn(t) /\ Stored /\ Shown
  BY CleanFacts DEF Exact
<1>2. /\ task[t].victim = None /\ task[t].op = "write" /\ Moved(t)
      /\ task'[t].pc \in {"copy", "evict"}
  BY WriteFindShape
<1>3. task[t].pc = "body" /\ task'[t].victim = None
  BY <1>1, <1>2, WriteFindFrame DEF Moved
<1>4. PICK id \in Id, i \in Idx : id = task[t].id /\ i = task[t].idx
  BY <1>1, <1>2, <1>3, OwnIndex
<1>5. /\ UNCHANGED <<file, content>>
      /\ IF Own(t) # None
         THEN table' = table /\ SameData
         ELSE Inserted(id, i, task'[t].ref, None)
  BY <1>1, <1>4, WriteFindEffect
<1>6. ~Holding(t) /\ Holding(t)'
  BY <1>2, <1>3 DEF Holding, Evicting
<1>7. NoneAwaited /\ AwaitedStays
  BY <1>1, <1>6, NotWriting
<1>8. CASE Own(t) # None
  <2>1. SameSlots /\ SameLive /\ UNCHANGED <<page, file, content>>
    BY <1>5, <1>8, SameViews, SameDataShape DEF SameData
  <2>2. Stored' /\ Shown'
    BY <1>1, <1>7, <2>1, ShownKept
  <2>3. QED
    BY <1>3, <2>2, NotRescued DEF ExactNext
<1>9. CASE Own(t) = None
  <2>1. NoneLeaves
    BY <1>1, <1>2, <1>3, NoVictim
  <2>2. Writing(t, id, i)'
    BY <1>2, <1>4, <1>6 DEF Writing, Moved
  <2>3. Awaited(id, i)'
    BY <1>1, <2>2 DEF OnlyOwn
  <2>4. Stored' /\ Shown'
    BY <1>1, <1>5, <1>7, <1>9, <2>1, <2>3, ShownInserted
  <2>5. QED
    BY <1>3, <2>4, NotRescued DEF ExactNext
<1>10. QED
  BY <1>8, <1>9

LEMMA CopyPageExact ==
  ASSUME NEW t \in Worker, Lone(t), Clean, Exact, CopyPage(t)
  PROVE  ExactNext(t)
<1>1. Base /\ Matched /\ Knows(t) /\ OnlyOwn(t) /\ Stored /\ Shown
  BY CleanFacts DEF Exact
<1>2. task[t].pc = "copy" /\ task'[t].victim = None
  BY <1>1, CopyPageFrame DEF Finished
<1>3. /\ SameLive /\ SameSlots /\ file' = file
      /\ task[t].idx \in Idx /\ task[t].id \in Id /\ task[t].ref \in Ref
      /\ IF task[t].op = "write"
         THEN /\ Rewritten(task[t].ref, task[t].val)
              /\ SetValue(content, content', task[t].id, task[t].idx, task[t].val)
         ELSE UNCHANGED <<page, content>>
  BY <1>1, CopyPageEffect
<1>4. CASE task[t].op # "write"
  <2>1. AwaitedStays
    BY <1>1, <1>4, NotWriting
  <2>2. Stored' /\ Shown'
    BY <1>1, <1>3, <1>4, <2>1, ShownKept
  <2>3. QED
    BY <1>2, <2>2, NotRescued DEF ExactNext
<1>5. CASE task[t].op = "write"
  <2>1. PICK id \in Id, i \in Idx, r \in Ref :
          id = task[t].id /\ i = task[t].idx /\ r = task[t].ref
    BY <1>3
  <2>2. Slot(id, i) = r /\ Live(r) /\ r # None
    BY <1>1, <1>2, <2>1, CacheAssumption DEF Knows, Holding, Own
  <2>3. /\ page'[r].val = task[t].val /\ content'[id][i] = task[t].val
        /\ \A q \in Ref : q # r => page'[q] = page[q]
        /\ \A k \in Id, j \in Idx : k # id \/ j # i => content'[k][j] = content[k][j]
    BY <1>3, <1>5, <2>1 DEF Rewritten, SetValue
  <2>4. ASSUME NEW k \in Id, NEW j \in Idx, Slot(k, j)' = None
        PROVE  file'[k][j] = content'[k][j]
    <3>1. Slot(k, j) = None
      BY <1>3, <2>4 DEF SameSlots
    <3>2. k # id \/ j # i
      BY <2>2, <3>1
    <3>3. QED
      BY <1>1, <1>3, <2>3, <3>1, <3>2 DEF Stored
  <2>5. ASSUME NEW k \in Id, NEW j \in Idx, NEW q \in Ref, Slot(k, j)' = q, Live(q)'
        PROVE  page'[q].val = content'[k][j]
    <3>1. Slot(k, j) = q /\ Live(q)
      BY <1>3, <2>5 DEF SameSlots, SameLive
    <3>2. CASE q = r
      <4>1. k = id /\ j = i
        BY <1>1, <2>2, <3>1, <3>2, OneSlot
      <4>2. QED
        BY <2>3, <3>2, <4>1
    <3>3. CASE q # r
      <4>1. k # id \/ j # i
        BY <2>2, <3>1, <3>3
      <4>2. ~Writing(t, k, j)
        BY <2>1, <4>1 DEF Writing
      <4>3. ~Awaited(k, j)
        BY <1>1, <4>2 DEF OnlyOwn
      <4>4. page[q].val = content[k][j]
        BY <1>1, <3>1, <4>3 DEF Shown
      <4>5. QED
        BY <2>3, <3>3, <4>1, <4>4
    <3>4. QED
      BY <3>2, <3>3
  <2>6. Stored' /\ Shown'
    BY <2>4, <2>5 DEF Stored, Shown
  <2>7. QED
    BY <1>2, <2>6, NotRescued DEF ExactNext
<1>6. QED
  BY <1>4, <1>5

\* A clean page that is dropped is on the device; a dirty one is carried by evict.
LEMMA EvictPopExact ==
  ASSUME NEW t \in Worker, Lone(t), Clean, Exact, EvictPop(t)
  PROVE  ExactNext(t)
<1>1. Base /\ Matched /\ OnlyOwn(t) /\ Tidy /\ Stored /\ Shown
  BY CleanFacts DEF Exact
<1>2. /\ \E id \in Id, i \in Idx, r \in Ref : PoppedIs(t, id, i, r)
      /\ task[t].victim = None
  BY EvictPopKnows
<1>3. PICK id \in Id, i \in Idx, r \in Ref : PoppedIs(t, id, i, r)
  BY <1>2
<1>4. /\ Popped(r) /\ Last = page[r] /\ table[id] # None /\ Last.key = <<id, i>>
      /\ Last.key[1] = id /\ Last.key[2] = i /\ Slot(id, i) = r
      /\ task[t].id # id \/ task[t].idx # i
  BY <1>3 DEF PoppedIs
<1>5. /\ task[t].pc = "evict" /\ task'[t].op = task[t].op /\ task'[t].id = task[t].id
      /\ task'[t].idx = task[t].idx
      /\ IF ~Last.dirty
         THEN task'[t].pc = "evict" /\ task'[t].victim = task[t].victim
         ELSE /\ task'[t].victim = Last
              /\ IF table[id].write_fd # None THEN task'[t].pc = "enter"
                 ELSE task'[t].pc = "evict_open"
  BY <1>1, <1>4, EvictPopFrame
<1>6. /\ UNCHANGED <<file, content, readQueue>>
      /\ IF Last.dirty THEN SameSlots ELSE SetSlot(id, i, None)
  BY <1>1, <1>4, EvictPopEffect
<1>7. Last # None
  BY <1>1, LastPage, CacheAssumption
<1>8. Holding(t)'
  BY <1>5, <1>7 DEF Holding, Evicting
<1>9. AwaitedStays
  BY <1>1, <1>5, <1>8, OwnAwaited
<1>10. ~Awaited(id, i) /\ Live(r)
  <2>1. ~Writing(t, id, i)
    BY <1>4 DEF Writing
  <2>2. QED
    BY <1>1, <1>4, <2>1 DEF OnlyOwn, Popped
<1>11. page[r].val = content[id][i] /\ Good(id, i, r)
  BY <1>1, <1>4, <1>10 DEF Shown, Tidy
<1>12. ASSUME NEW k \in Id, NEW j \in Idx, NEW q \in Ref, Slot(k, j)' = q, Live(q)',
              ~Awaited(k, j)'
       PROVE  page'[q].val = content'[k][j]
  <2>1. Live(q) /\ page'[q] = page[q]
    BY <1>4, <1>12 DEF Popped
  <2>2. Slot(k, j) = q
    <3>1. CASE Last.dirty
      BY <1>6, <1>12, <3>1 DEF SameSlots
    <3>2. CASE ~Last.dirty
      <4>1. SetSlot(id, i, None)
        BY <1>6, <3>2
      <4>2. Slot(id, i)' = None /\ q # None
        BY <4>1, SlotNext, CacheAssumption
      <4>3. k # id \/ j # i
        BY <1>12, <4>2
      <4>4. QED
        BY <1>12, <4>1, <4>3 DEF SetSlot
    <3>3. QED
      BY <3>1, <3>2
  <2>3. ~Awaited(k, j)
    BY <1>9, <1>12 DEF AwaitedStays
  <2>4. QED
    BY <1>1, <1>6, <2>1, <2>2, <2>3 DEF Shown
<1>13. Shown'
  BY <1>12 DEF Shown
<1>14. CASE ~Last.dirty
  <2>1. file[id][i] = content[id][i]
    BY <1>4, <1>11, <1>14 DEF Good
  <2>2. SetSlot(id, i, None)
    BY <1>6, <1>14
  <2>3. Stored'
    BY <1>1, <1>6, <2>1, <2>2 DEF Stored, SetSlot
  <2>4. task'[t].victim = None
    BY <1>2, <1>5, <1>14
  <2>5. QED
    BY <1>13, <2>3, <2>4, NotRescued DEF ExactNext
<1>15. CASE Last.dirty
  <2>1. task'[t].victim = page[r] /\ task'[t].pc \in {"enter", "evict_open"} /\ SameSlots
    BY <1>4, <1>5, <1>6, <1>15
  <2>2. Stored'
    BY <1>1, <1>6, <2>1 DEF Stored, SameSlots
  <2>3. ASSUME NEW k \in Id, NEW j \in Idx, VictimOn(t, k, j)'
        PROVE  task'[t].victim.val = content'[k][j]
    <3>1. <<id, i>> = <<k, j>>
      BY <1>4, <2>1, <2>3 DEF VictimOn
    <3>2. k = id /\ j = i
      BY <3>1
    <3>3. QED
      BY <1>6, <1>11, <2>1, <3>2
  <2>4. Rescued(t)'
    BY <2>1, <2>3 DEF Rescued
  <2>5. QED
    BY <1>13, <2>2, <2>4 DEF ExactNext
<1>16. QED
  BY <1>14, <1>15

LEMMA EvictEraseExact ==
  ASSUME NEW t \in Worker, Lone(t), Clean, Exact, EvictErase(t)
  PROVE  ExactNext(t)
<1>1. Base /\ OnlyOwn(t) /\ Stored /\ Shown /\ Rescued(t)
  BY CleanFacts DEF Exact
<1>2. task[t].pc = "evict_erase" /\ Dropped(t)
  BY <1>1, EvictEraseFrame
<1>3. task[t].victim # None
  BY <1>1, <1>2 DEF Base, Frames, FrameOf, WellFormed
<1>4. task[t].victim.key \in Id \X Idx
  BY <1>1, <1>3, VictimInUse DEF Key
<1>5. PICK id \in Id, i \in Idx : task[t].victim.key = <<id, i>>
  BY <1>4
<1>6. SameData /\ SetSlot(id, i, None)
  <2>1. task[t].victim.key[1] = id /\ task[t].victim.key[2] = i
    BY <1>5
  <2>2. /\ SameResult(t) /\ SameDirty /\ SameData /\ UNCHANGED <<fds, readQueue>>
        /\ SetSlot(task[t].victim.key[1], task[t].victim.key[2], None)
    BY <1>1, EvictEraseEffect
  <2>3. QED
    BY <2>1, <2>2
<1>7. VictimOn(t, id, i)
  BY <1>3, <1>5 DEF VictimOn, Evicting
<1>8. file[id][i] = content[id][i]
  BY <1>1, <1>2, <1>7 DEF Rescued
<1>9. UNCHANGED <<page, file, content>> /\ SameLive
  BY <1>6, SameDataShape DEF SameData
<1>10. Stored'
  BY <1>1, <1>6, <1>8, <1>9 DEF Stored, SetSlot
<1>11. Holding(t)'
  BY <1>2 DEF Holding, Dropped
<1>12. AwaitedStays
  BY <1>1, <1>2, <1>11, OwnAwaited DEF Dropped
<1>13. ASSUME NEW k \in Id, NEW j \in Idx, NEW q \in Ref, Slot(k, j)' = q, Live(q)',
              ~Awaited(k, j)'
       PROVE  page'[q].val = content'[k][j]
  <2>1. Slot(id, i)' = None /\ q # None
    BY <1>6, SlotNext, CacheAssumption
  <2>2. k # id \/ j # i
    BY <1>13, <2>1
  <2>3. Slot(k, j) = q /\ Live(q) /\ ~Awaited(k, j)
    BY <1>6, <1>9, <1>12, <1>13, <2>2 DEF SetSlot, SameLive, AwaitedStays
  <2>4. QED
    BY <1>1, <1>9, <2>3 DEF Shown
<1>14. Shown'
  BY <1>13 DEF Shown
<1>15. task'[t].victim = None
  BY <1>2 DEF Dropped
<1>16. QED
  BY <1>10, <1>14, <1>15, NotRescued DEF ExactNext

\* What flush_at writes is what the writes define.
LEMMA FlushWriteExact ==
  ASSUME NEW t \in Worker, Lone(t), Clean, Exact, "write" \notin Failures, FlushWrite(t)
  PROVE  ExactNext(t)
<1>1. Base /\ Matched /\ OnlyOwn(t) /\ Stored /\ Shown /\ Rescued(t) /\ FdsValid
  BY CleanFacts DEF Exact, Lone, Descriptors
<1>2. /\ task[t].pc = "body" /\ InFunction(t) = "flush"
      /\ task'[t].pc = "flush_ack" /\ Steady(t)
  BY <1>1, FlushWriteFrame
<1>3. PICK id \in Id, i \in Idx : FlushesPage(t, id, i)
  BY <1>2, FlushKnows
<1>4. FlushedFile(t) = id /\ Subject(t).key = <<id, i>>
  BY <1>3 DEF FlushesPage
<1>5. Subject(t).key[2] = i
  BY <1>4
<1>6. UNCHANGED <<table, lru, page, content>> /\ SetValue(file, file', id, i, Subject(t).val)
  BY <1>1, <1>4, <1>5, FlushWriteEffect
<1>7. SameSlots /\ SameLive
  BY <1>6, SameViews, SameLiveList
<1>8. Holding(t) /\ Holding(t)'
  <2>1. Holding(t)
    BY <1>2, FlushKnows
  <2>2. Holding(t)'
    BY <1>2, <2>1 DEF Holding, Evicting, Steady
  <2>3. QED
    BY <2>1, <2>2
<1>9. AwaitedStays
  BY <1>1, <1>2, <1>8, OwnAwaited DEF Steady
<1>10. Subject(t).val = content[id][i]
  <2>1. CASE Evicting(t)
    <3>1. VictimOn(t, id, i) /\ Subject(t) = task[t].victim
      BY <1>3, <2>1 DEF FlushesPage, Subject
    <3>2. QED
      BY <1>1, <3>1 DEF Rescued
  <2>2. CASE ~Evicting(t)
    <3>1. task[t].op = "flush"
      BY <1>3, <2>2 DEF FlushesPage
    <3>2. PICK r \in Ref : r = task[t].ref /\ Live(r) /\ Slot(id, i) = r
      BY <1>3, <2>2 DEF FlushesPage
    <3>3. ~Awaited(id, i)
      BY <1>1, <3>1, NotWriting DEF NoneAwaited
    <3>4. page[r].val = content[id][i]
      BY <1>1, <3>2, <3>3 DEF Shown
    <3>5. QED
      BY <2>2, <3>2, <3>4 DEF Subject
  <2>3. QED
    BY <2>1, <2>2
<1>11. /\ file'[id][i] = content'[id][i]
       /\ \A k \in Id, j \in Idx : k # id \/ j # i => file'[k][j] = file[k][j]
  BY <1>6, <1>10 DEF SetValue
<1>12. Stored'
  BY <1>1, <1>6, <1>7, <1>11 DEF Stored, SameSlots
<1>13. ASSUME NEW k \in Id, NEW j \in Idx, NEW q \in Ref, Slot(k, j)' = q, Live(q)',
              ~Awaited(k, j)'
       PROVE  page'[q].val = content'[k][j]
  <2>1. Slot(k, j) = q /\ Live(q) /\ ~Awaited(k, j)
    BY <1>7, <1>9, <1>13 DEF SameSlots, SameLive, AwaitedStays
  <2>2. QED
    BY <1>1, <1>6, <2>1 DEF Shown
<1>14. Shown'
  BY <1>13 DEF Shown
<1>15. ASSUME NEW k \in Id, NEW j \in Idx, VictimOn(t, k, j)'
       PROVE  task'[t].victim.val = content'[k][j] /\ file'[k][j] = content'[k][j]
  <2>1. VictimOn(t, k, j)
    BY <1>2, <1>15 DEF VictimOn, Evicting, Steady
  <2>2. task[t].victim.val = content[k][j]
    BY <1>1, <2>1 DEF Rescued
  <2>3. Subject(t) = task[t].victim /\ Subject(t).key = <<k, j>>
    BY <2>1 DEF VictimOn, Subject
  <2>4. <<id, i>> = <<k, j>>
    BY <1>4, <2>3
  <2>5. k = id /\ j = i
    BY <2>4
  <2>6. QED
    BY <1>2, <1>6, <1>11, <2>2, <2>5 DEF Steady
<1>16. Rescued(t)'
  BY <1>15 DEF Rescued
<1>17. QED
  BY <1>12, <1>14, <1>16 DEF ExactNext

LEMMA FlushAckExact ==
  ASSUME NEW t \in Worker, Lone(t), Clean, Exact, FlushAck(t)
  PROVE  ExactNext(t)
<1>1. Base /\ Matched /\ OnlyOwn(t) /\ Stored /\ Shown /\ Rescued(t)
  BY CleanFacts DEF Exact
<1>2. task[t].pc = "flush_ack" /\ task'[t].pc = AfterFlushAt(t) /\ Steady(t)
  BY <1>1, FlushAckFrame
<1>3. InFunction(t) = "flush"
  BY FlushAckShape
<1>4. /\ UNCHANGED <<table, lru, file, content>>
      /\ IF task[t].ok /\ ~Evicting(t) THEN Cleaned(task[t].ref) ELSE page' = page
  BY <1>1, FlushAckEffect
<1>5. \A q \in Ref : page'[q].val = page[q].val
  BY <1>4 DEF Cleaned
<1>6. SameSlots /\ SameLive
  BY <1>4, SameViews, SameLiveList
<1>7. AwaitedStays
  <2>1. CASE Evicting(t)
    <3>1. Holding(t)'
      BY <1>2, <2>1 DEF Holding, Evicting, Steady
    <3>2. QED
      BY <1>1, <1>2, <3>1, OwnAwaited DEF Steady
  <2>2. CASE ~Evicting(t)
    <3>1. task[t].op # "write"
      BY <1>3, <2>2 DEF InFunction, Evicting
    <3>2. QED
      BY <1>1, <3>1, NotWriting
  <2>3. QED
    BY <2>1, <2>2
<1>8. Stored'
  BY <1>1, <1>4, <1>6 DEF Stored, SameSlots
<1>9. ASSUME NEW k \in Id, NEW j \in Idx, NEW q \in Ref, Slot(k, j)' = q, Live(q)',
             ~Awaited(k, j)'
      PROVE  page'[q].val = content'[k][j]
  <2>1. Slot(k, j) = q /\ Live(q) /\ ~Awaited(k, j)
    BY <1>6, <1>7, <1>9 DEF SameSlots, SameLive, AwaitedStays
  <2>2. page[q].val = content[k][j]
    BY <1>1, <2>1 DEF Shown
  <2>3. QED
    BY <1>4, <1>5, <2>2
<1>10. Shown'
  BY <1>9 DEF Shown
<1>11. ASSUME NEW k \in Id, NEW j \in Idx, VictimOn(t, k, j)'
       PROVE  task'[t].victim.val = content'[k][j] /\ file'[k][j] = content'[k][j]
  <2>1. VictimOn(t, k, j)
    BY <1>2, <1>11 DEF VictimOn, Evicting, Steady
  <2>2. task[t].victim.val = content[k][j] /\ file[k][j] = content[k][j]
    BY <1>1, <1>2, <2>1 DEF Rescued
  <2>3. QED
    BY <1>2, <1>4, <2>2 DEF Steady
<1>12. Rescued(t)'
  BY <1>11 DEF Rescued
<1>13. QED
  BY <1>8, <1>10, <1>12 DEF ExactNext

LEMMA WorkerExact ==
  ASSUME NEW t \in Worker, Lone(t), Clean, Exact, "write" \notin Failures, ~Woken(t),
         PageStep(t) \/ FlushStep(t)
  PROVE  Exact'
<1>1. ExactNext(t)
  <2>1. CASE PageStep(t)
    <3>1. Quiet(t) \/ ReadFilled(t) \/ WriteFind(t) \/ CopyPage(t)
      BY <2>1, EnterQuiet, ReadFindQuiet, ReadOpenedQuiet, ReadFetchQuiet DEF PageStep
    <3>2. QED
      BY <3>1, QuietExact, ReadFilledExact, WriteFindExact, CopyPageExact
  <2>2. CASE FlushStep(t)
    <3>1. Quiet(t) \/ EvictPop(t) \/ EvictErase(t) \/ FlushWrite(t) \/ FlushAck(t)
      BY <2>2, EvictDoneQuiet, EvictOpenedQuiet, FlushQuiet DEF FlushStep
    <3>2. QED
      BY <3>1, QuietExact, EvictPopExact, EvictEraseExact, FlushWriteExact, FlushAckExact
  <2>3. QED
    BY <2>1, <2>2
<1>2. ASSUME NEW u \in Worker, u # t
      PROVE  Rescued(u)'
  <2>1. task'[u].victim = None
    BY <1>2 DEF Lone, Aside
  <2>2. QED
    BY <2>1, NotRescued
<1>3. QED
  BY <1>1, <1>2 DEF Exact, ExactNext

LEMMA ClientExact ==
  ASSUME Base, Alone, Exact, NEW c \in Client, ClientStep(c)
  PROVE  Exact'
<1>1. ClientEffect
  BY ClientEffects
<1>2. SameSlots /\ SameLive /\ UNCHANGED <<page, file, content>>
  BY <1>1, SameLiveList DEF ClientEffect
<1>3. NoneAwaited
  BY <1>1, RestAwaits DEF ClientEffect
<1>4. AwaitedStays
  BY <1>3 DEF NoneAwaited, AwaitedStays
<1>5. Stored' /\ Shown'
  BY <1>2, <1>4, ShownKept DEF Exact
<1>6. ASSUME NEW u \in Worker
      PROVE  Rescued(u)'
  <2>1. task'[u].victim = None
    BY <1>1 DEF ClientEffect, Fresh
  <2>2. QED
    BY <2>1, NotRescued
<1>7. QED
  BY <1>5, <1>6 DEF Exact

LEMMA InitExact ==
  ASSUME Init
  PROVE  Exact
<1>1. file = content /\ \A id \in Id, i \in Idx : Slot(id, i) = None
  BY DEF Init, Slot
<1>2. Stored /\ Shown
  BY <1>1, CacheAssumption DEF Stored, Shown
<1>3. \A u \in Worker : task[u].victim = None
  BY DEF Init, Idle, Task
<1>4. \A u \in Worker : Rescued(u)
  BY <1>3 DEF Rescued, VictimOn, Evicting
<1>5. QED
  BY <1>2, <1>4 DEF Exact

Faithful == Written /\ Exact

LEMMA FaithfulStep ==
  ASSUME Alone, OpensSucceed, "write" \notin Failures, Faithful, FileStep
  PROVE  Faithful'
<1>1. /\ Written /\ Exact /\ Structure /\ Clean
      /\ Base /\ Descriptors /\ Waiting /\ Overlong /\ Shape
  BY DEF Faithful, Written, Structure
<1>2. Written'
  BY <1>1, WrittenStep
<1>3. ASSUME NEW c \in Client, ClientStep(c)
      PROVE  Exact'
  BY <1>1, <1>3, ClientExact
<1>4. ASSUME NEW t \in Worker, PageStep(t) \/ FlushStep(t)
      PROVE  Exact'
  BY <1>1, <1>4, WorkerShape, WorkerExact
<1>5. \A t \in Worker : ~Dangle(t)
  BY <1>1, NeverDangles
<1>6. QED
  BY <1>2, <1>3, <1>4, <1>5 DEF FileStep, Faithful

LEMMA FaithfulStutters ==
  ASSUME Faithful, UNCHANGED vars
  PROVE  Faithful'
<1>1. Written'
  BY WrittenStutters DEF Faithful
<1>2. UNCHANGED <<table, lru, page, task, file, content>>
  BY DEF vars
<1>3. SameSlots /\ SameLive
  BY <1>2, SameViews, SameLiveList
<1>4. AwaitedStays
  BY <1>2 DEF AwaitedStays, Awaited, Writing, Holding, Evicting
<1>5. Stored' /\ Shown'
  BY <1>2, <1>3, <1>4, ShownKept DEF Faithful, Exact
<1>6. \A t \in Worker : Rescued(t)'
  BY <1>2 DEF Faithful, Exact, Rescued, VictimOn, Evicting
<1>7. QED
  BY <1>1, <1>5, <1>6 DEF Faithful, Exact

\* Under one such caller, and while device writes succeed, what the next reader of a page
\* is shown, the cached page or the device's bytes, is what the completed writes define:
\* no eviction drops a dirty page, and no reader is given the bytes the device had before
\* a write-back.  Reads of the device may fail.
THEOREM ReadsSeeWrites ==
  Alone /\ OpensSucceed /\ "write" \notin Failures => (FileSpec => []Coherent)
<1> SUFFICES ASSUME Alone, OpensSucceed, "write" \notin Failures
             PROVE  FileSpec => []Coherent
  OBVIOUS
<1>1. Init => Faithful
  BY InitStructure, InitClean, InitExact DEF Faithful, Written
<1>2. Faithful /\ [FileStep]_vars => Faithful'
  BY FaithfulStep, FaithfulStutters
<1>3. Faithful => Coherent
  <2> SUFFICES ASSUME Faithful, AtRest, NEW id \in Id, NEW i \in Idx
               PROVE  content[id][i] = IF Cached(id, i) THEN page[table[id].pages[i]].val
                                       ELSE file[id][i]
    BY DEF Coherent
  <2>1. Structure /\ Stored /\ Shown
    BY DEF Faithful, Written, Exact
  <2>2. CASE Cached(id, i)
    <3>1. /\ Slot(id, i) = table[id].pages[i] /\ Slot(id, i) \in Ref /\ Live(Slot(id, i))
          /\ ~Awaited(id, i)
      BY <2>1, <2>2, RestingPage
    <3>2. PICK r \in Ref : r = Slot(id, i)
      BY <3>1
    <3>3. page[r].val = content[id][i]
      BY <2>1, <3>1, <3>2 DEF Shown
    <3>4. QED
      BY <2>2, <3>1, <3>2, <3>3
  <2>3. CASE ~Cached(id, i)
    <3>1. Slot(id, i) = None
      BY <2>3 DEF Cached, Slot
    <3>2. file[id][i] = content[id][i]
      BY <2>1, <3>1 DEF Stored
    <3>3. QED
      BY <2>3, <3>2
  <2>4. QED
    BY <2>2, <2>3
<1>4. QED
  BY <1>1, <1>2, <1>3, PTL DEF FileSpec

-----------------------------------------------------------------------------
(* Nothing fails unless the device does *)

LEMMA PageWell ==
  ASSUME NEW t \in Worker, Lone(t), OpensSucceed, Failures = {}, task[t].ok, ~Woken(t),
         PageStep(t)
  PROVE  task'[t].ok
<1>1. Base /\ FdsValid
  BY DEF Lone, Descriptors
<1>2. CASE Enter(t)
  BY <1>1, <1>2, EnterShape, EnterEffect DEF SameResult
<1>3. CASE ReadFind(t)
  <2>1. SameResult(t) \/ task'[t].pc = "read_open"
    BY <1>1, <1>3, ReadFindEffect
  <2>2. QED
    BY <1>3, <2>1, ReadFindShape DEF SameResult
<1>4. CASE ReadOpened(t)
  BY <1>1, <1>4, ReadOpenedEffect DEF SameResult
<1>5. CASE ReadFetch(t)
  BY <1>1, <1>5, ReadFetchShape, ReadFetchEffect
<1>6. CASE ReadFilled(t)
  BY <1>1, <1>6, ReadFilledShape, ReadFilledEffect
<1>7. CASE WriteFind(t)
  BY <1>1, <1>7, WriteFindEffect DEF SameResult
<1>8. CASE CopyPage(t)
  BY <1>1, <1>8, CopyPageEffect
<1>9. QED
  BY <1>2, <1>3, <1>4, <1>5, <1>6, <1>7, <1>8 DEF PageStep

LEMMA FlushWell ==
  ASSUME NEW t \in Worker, Lone(t), OpensSucceed, Failures = {}, task[t].ok, FlushStep(t)
  PROVE  task'[t].ok
<1>1. Base /\ FdsValid
  BY DEF Lone, Descriptors
<1>2. CASE EvictPop(t)
  <2>1. PICK id \in Id, i \in Idx, r \in Ref : PoppedIs(t, id, i, r)
    BY <1>2, EvictPopKnows
  <2>2. table[id] # None /\ Last.key[1] = id
    BY <2>1 DEF PoppedIs
  <2>3. IF Last.dirty
        THEN IF FdAt(id, "w") # None THEN SameResult(t) ELSE TRUE
        ELSE SameResult(t)
    BY <1>1, <1>2, <2>2, EvictPopEffect
  <2>4. Last.dirty /\ table[id].write_fd = None => task'[t].pc = "evict_open"
    BY <1>1, <1>2, <2>2, EvictPopFrame
  <2>5. FdAt(id, "w") = table[id].write_fd
    BY <2>2 DEF FdAt, FdOf
  <2>6. SameResult(t) \/ task'[t].pc = "evict_open"
    BY <2>3, <2>4, <2>5
  <2>7. QED
    BY <1>2, <2>6, EvictPopShape DEF SameResult
<1>3. CASE EvictDone(t)
  BY <1>1, <1>3, EvictDoneEffect DEF SameResult
<1>4. CASE EvictOpened(t)
  BY <1>1, <1>4, EvictOpenedEffect DEF SameResult
<1>5. CASE EvictErase(t)
  BY <1>1, <1>5, EvictEraseEffect DEF SameResult
<1>6. CASE FlushWrite(t)
  <2>1. task[t].pc = "body" /\ InFunction(t) = "flush"
    BY <1>1, <1>6, FlushWriteFrame
  <2>2. PICK id \in Id, i \in Idx : FlushesPage(t, id, i)
    BY <2>1, FlushKnows
  <2>3. FlushedFile(t) = id /\ Subject(t).key = <<id, i>>
    BY <2>2 DEF FlushesPage
  <2>4. Subject(t).key[2] = i
    BY <2>3
  <2>5. QED
    BY <1>1, <1>6, <2>3, <2>4, FlushWriteEffect
<1>7. CASE FlushAck(t)
  BY <1>1, <1>7, FlushAckEffect DEF SameResult
<1>8. CASE Flush(t)
  <2>1. task'[t].ok \/ SameResult(t) \/ task'[t].pc = "flush_open"
    BY <1>1, <1>8, FlushEffect
  <2>2. QED
    BY <1>8, <2>1, FlushShape DEF SameResult
<1>9. CASE FlushOpened(t)
  BY <1>1, <1>9, FlushOpenedEffect DEF SameResult
<1>10. CASE FlushNext(t)
  <2>1. task[t].pc # "idle"
    BY <1>10 DEF FlushNext, MayRun
  <2>2. PICK id \in Id : id = task[t].id
    BY <1>1, <2>1, OwnIndex
  <2>3. SameResult(t) \/ EndsFlush(t, id)
    BY <1>1, <1>10, <2>2, FlushNextEffect
  <2>4. QED
    BY <2>3 DEF SameResult, EndsFlush
<1>11. QED
  BY <1>2, <1>3, <1>4, <1>5, <1>6, <1>7, <1>8, <1>9, <1>10 DEF FlushStep

Healthy == Structure /\ AllWell

LEMMA HealthyStep ==
  ASSUME Alone, OpensSucceed, Failures = {}, Healthy, FileStep
  PROVE  Healthy'
<1>1. Structure /\ AllWell /\ Base /\ Descriptors /\ Waiting /\ Overlong /\ Shape
  BY DEF Healthy, Structure
<1>2. Structure'
  BY <1>1, StructureStep
<1>3. ASSUME NEW c \in Client, ClientStep(c)
      PROVE  AllWell'
  <2>1. \A u \in Worker : task'[u].ok \/ task'[u].ok = task[u].ok
    BY <1>1, <1>3, ClientEffects DEF ClientEffect, Fresh
  <2>2. QED
    BY <1>1, <2>1 DEF AllWell
<1>4. ASSUME NEW t \in Worker, PageStep(t) \/ FlushStep(t)
      PROVE  AllWell'
  <2>1. Lone(t) /\ ~Woken(t) /\ task[t].ok
    BY <1>1, <1>4, WorkerShape DEF AllWell
  <2>2. task'[t].ok
    BY <1>4, <2>1, PageWell, FlushWell
  <2>3. \A u \in Worker : u # t => task'[u] = task[u]
    BY <2>1 DEF Lone, Aside
  <2>4. QED
    BY <1>1, <2>2, <2>3 DEF AllWell
<1>5. \A t \in Worker : ~Dangle(t)
  BY <1>1, NeverDangles
<1>6. QED
  BY <1>2, <1>3, <1>4, <1>5 DEF FileStep, Healthy

\* Under one such caller, with a device on which no request fails, no operation fails:
\* no order of opens, reads, writes, evictions and flushes makes the cache report an
\* error, or run out of descriptors, on its own.
THEOREM ErrorsComeFromDevice == Alone /\ OpensSucceed => (FileSpec => []NoSpuriousError)
<1> SUFFICES ASSUME Alone, OpensSucceed
             PROVE  FileSpec => []NoSpuriousError
  OBVIOUS
<1>1. CASE Failures = {}
  <2>1. Init => Healthy
    <3> SUFFICES ASSUME Init PROVE Healthy
      OBVIOUS
    <3>1. AllWell
      BY DEF Init, AllWell, Idle, Task
    <3>2. QED
      BY <3>1, InitStructure DEF Healthy
  <2>2. Healthy /\ [FileStep]_vars => Healthy'
    <3>1. Healthy /\ UNCHANGED vars => Healthy'
      BY StructureStutters DEF Healthy, AllWell, vars
    <3>2. QED
      BY <1>1, <3>1, HealthyStep
  <2>3. Healthy => NoSpuriousError
    BY DEF Healthy, AllWell, NoSpuriousError
  <2>4. QED
    BY <2>1, <2>2, <2>3, PTL DEF FileSpec
<1>2. CASE Failures # {}
  <2>1. NoSpuriousError
    BY <1>2 DEF NoSpuriousError
  <2>2. QED
    BY <2>1, PTL
<1>3. QED
  BY <1>1, <1>2

=============================================================================
