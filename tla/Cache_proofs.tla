---------------------------- MODULE Cache_proofs ----------------------------
(***************************************************************************)
(* Theorems about module Cache that need more than Base: stale fds, the     *)
(* read queue, the length of the list and the descriptors.                  *)
(***************************************************************************)
EXTENDS CacheBase_proofs

-----------------------------------------------------------------------------
(* What a step of a client leaves alone *)

\* A frame that no coroutine is in.
Reset(u) ==
  /\ task[u].pc \in {"idle", "done"} /\ task'[u].pc \in {"idle", "enter", "flush"}
  /\ task'[u].on = None /\ task'[u].evict = 0 /\ task'[u].victim = None /\ task'[u].fd = None
  /\ task'[u].pc = "enter" => task'[u].op \in {"read", "write"}

\* An entry keeps its fds and marks; a new entry has none.
SameUse(id) ==
  IF table[id] # None
  THEN /\ table'[id] # None /\ SameFds(table[id], table'[id])
       /\ table'[id].write_inflight = table[id].write_inflight
  ELSE table'[id] # None => table'[id].read_fd = None /\ table'[id].write_fd = None

ClientLeaves ==
  /\ running = None /\ running' = None
  /\ UNCHANGED <<lru, readQueue, fds>>
  /\ \A u \in Task : task'[u] = task[u] \/ (u \in Worker /\ Reset(u))
  /\ \A id \in Id : SameUse(id)

LEMMA SameUses ==
  ASSUME table' = table
  PROVE  \A id \in Id : SameUse(id)
BY DEF SameUse, SameFds

LEMMA OpenLeaves ==
  ASSUME Base, NEW c \in Client, NEW id \in Id, NEW mode \in Modes, Open(c, id, mode)
  PROVE  ClientLeaves
<1> DEFINE old == IF table[id] = None THEN NewEntry ELSE table[id]
<1>1. old \in Entry
  BY NewEntryIsEntry DEF Base, TypeOK
<1>2. table'[id] \in Entry /\ SameFds(old, table'[id]) /\ table'[id].write_inflight = old.write_inflight
  <2> DEFINE g == [old EXCEPT !.reader = @ + One(Reads(mode)), !.writer = @ + One(Writes(mode))]
  <2>1. table' = [table EXCEPT ![id] = g]
    BY DEF Open
  <2>2. table'[id] = g
    <3> HIDE DEF g
    <3> QED BY <2>1 DEF Base, TypeOK
  <2>3. SameFds(old, g) /\ g.write_inflight = old.write_inflight
    <3> HIDE DEF old
    <3> QED BY <1>1 DEF Entry, SameFds
  <2>4. table'[id] \in Entry
    <3>1. old.reader + One(Reads(mode)) \in Nat /\ old.writer + One(Writes(mode)) \in Nat
      <4> HIDE DEF old
      <4> QED BY <1>1 DEF Entry, One
    <3>2. g = [old EXCEPT !.reader = old.reader + One(Reads(mode)), !.writer = old.writer + One(Writes(mode))]
      <4> HIDE DEF old
      <4> QED BY <1>1 DEF Entry
    <3> HIDE DEF old
    <3>3. g \in Entry
      BY <1>1, <3>1, <3>2, CountsTyped
    <3>4. QED
      BY <2>2, <3>3
  <2>5. QED
    BY <2>2, <2>3, <2>4
<1>3. \A k \in Id : k # id => table'[k] = table[k]
  BY DEF Open, Base, TypeOK
<1>4. (old.read_fd = None /\ old.write_fd = None) \/ old = table[id]
  BY DEF NewEntry
<1>5. table'[id] # None
  BY <1>2, CacheAssumption
<1>6. ASSUME NEW k \in Id
      PROVE  SameUse(k)
  <2>1. CASE k # id
    BY <1>3, <2>1 DEF SameUse, SameFds
  <2>2. CASE k = id /\ table[id] # None
    BY <1>2, <1>5, <2>2 DEF SameUse
  <2>3. CASE k = id /\ table[id] = None
    <3>1. old.read_fd = None /\ old.write_fd = None
      BY <2>3 DEF NewEntry
    <3> HIDE DEF old
    <3>2. QED
      BY <1>2, <2>3, <3>1 DEF SameUse, SameFds
  <2>4. QED
    BY <2>1, <2>2, <2>3
<1>7. QED
  BY <1>6 DEF ClientLeaves, Open

LEMMA BeginLeaves ==
  ASSUME Base, NEW c \in Client, NEW op \in {"read", "write"}, NEW i \in Idx, NEW j \in Idx,
         NEW v \in Bytes, Begin(c, op, i, j, v)
  PROVE  ClientLeaves
<1> DEFINE id == client[c].id
           e == table[id]
           d == IF op = "write" THEN TRUE ELSE e.dirty
           new(t) == [Idle EXCEPT !.pc = "enter", !.op = op, !.id = id, !.idx = t[2], !.val = v]
<1>1. /\ client[c].op = "open" /\ e # None /\ running = None /\ UNCHANGED <<lru, readQueue, fds, running>>
      /\ table' = [table EXCEPT ![id].dirty = d]
      /\ task' = [t \in Task |-> IF t \in {c} \X (i..j) THEN new(t) ELSE task[t]]
  BY DEF Begin
<1>2. id \in Id /\ e \in Entry
  BY <1>1 DEF Base, Handles, TypeOK
<1>3. ASSUME NEW k \in Id
      PROVE  SameUse(k)
  <2>1. table' \in [Id -> Entry \cup {None}]
    BY BeginType DEF TypeOK
  <2> HIDE DEF d
  <2>2. table'[id] = [e EXCEPT !.dirty = d] /\ (k # id => table'[k] = table[k])
    BY <1>1, <1>2 DEF Base, TypeOK
  <2>3. SameFds(e, table'[id]) /\ table'[id].write_inflight = e.write_inflight
    <3> HIDE DEF e
    <3> QED BY <1>2, <2>2 DEF Entry, SameFds
  <2>4. table'[id] # None
    <3>1. d \in BOOLEAN
      <4>1. e.dirty \in BOOLEAN
        <5> HIDE DEF e
        <5> QED BY <1>2 DEF Entry
      <4>2. QED
        BY <4>1 DEF d
    <3>2. table'[id] \in Entry
      <4> HIDE DEF e
      <4> QED BY <1>2, <2>2, <3>1 DEF Entry
    <3>3. QED
      BY <3>2, CacheAssumption
  <2>5. QED
    BY <1>1, <2>2, <2>3, <2>4 DEF SameUse, SameFds
<1>4. ASSUME NEW u \in Task
      PROVE  task'[u] = task[u] \/ (u \in Worker /\ Reset(u))
  <2>1. CASE u \in {c} \X (i..j)
    <3>1. u \in Worker /\ u = <<c, u[2]>> /\ u[2] \in Idx
      <4>1. \A k \in i..j : k \in Idx
        BY CacheAssumption DEF Idx
      <4>2. QED
        BY <2>1, <4>1 DEF Worker
    <3>2. task[u].pc = "idle"
      BY <1>1, <3>1, IdleClient DEF Busy
    <3>3. task'[u] = new(u)
      BY <1>1, <2>1
    <3>4. /\ task'[u].pc = "enter" /\ task'[u].on = None /\ task'[u].evict = 0
          /\ task'[u].victim = None /\ task'[u].fd = None /\ task'[u].op = op
      BY <3>3 DEF Idle
    <3>5. QED
      BY <3>1, <3>2, <3>4 DEF Reset
  <2>2. CASE u \notin {c} \X (i..j)
    BY <1>1, <2>2
  <2>3. QED
    BY <2>1, <2>2
<1>5. QED
  BY <1>1, <1>3, <1>4 DEF ClientLeaves

LEMMA IdleReset ==
  ASSUME NEW u, task[u].pc \in {"idle", "done"}, task'[u] = Idle
  PROVE  Reset(u)
BY DEF Reset, Idle

LEMMA EndIOLeaves ==
  ASSUME Base, NEW c \in Client, EndIO(c)
  PROVE  ClientLeaves
<1>1. /\ running = None /\ UNCHANGED <<lru, readQueue, fds, running, table>>
      /\ task' = [t \in Task |-> IF t \in {c} \X Idx THEN Idle ELSE task[t]]
      /\ \A i \in Idx : task[<<c, i>>].pc \in {"idle", "done"}
  BY DEF EndIO
<1>2. ASSUME NEW u \in Task
      PROVE  task'[u] = task[u] \/ (u \in Worker /\ Reset(u))
  <2>1. CASE u \in {c} \X Idx
    <3>1. u \in Worker /\ u = <<c, u[2]>> /\ u[2] \in Idx
      BY <2>1 DEF Worker
    <3>2. task[u].pc \in {"idle", "done"} /\ task'[u] = Idle
      BY <1>1, <2>1, <3>1
    <3>3. QED
      BY <3>1, <3>2, IdleReset
  <2>2. CASE u \notin {c} \X Idx
    BY <1>1, <2>2
  <2>3. QED
    BY <2>1, <2>2
<1>3. QED
  BY <1>1, <1>2, SameUses DEF ClientLeaves

LEMMA BeginFlushLeaves ==
  ASSUME Base, NEW c \in Client, NEW op \in {"flush", "release"}, BeginFlush(c, op)
  PROVE  ClientLeaves
<1> DEFINE o == <<c, 0>>
           new == [Idle EXCEPT !.pc = "flush", !.op = "flush", !.id = client[c].id]
<1>1. /\ client[c].op = "open" /\ running = None /\ UNCHANGED <<lru, readQueue, fds, running, table>>
      /\ task' = [task EXCEPT ![o] = new]
  BY DEF BeginFlush
<1>2. o \in Worker /\ o \in Task /\ task[o].pc = "idle"
  BY <1>1, IdleClient, CacheAssumption DEF Worker, Task, Idx, Busy
<1>3. Reset(o)
  <2>1. task'[o] = new
    BY <1>1, <1>2 DEF Base, TypeOK
  <2>2. /\ task'[o].pc = "flush" /\ task'[o].on = None /\ task'[o].evict = 0
        /\ task'[o].victim = None /\ task'[o].fd = None
    BY <2>1 DEF Idle
  <2>3. QED
    BY <1>2, <2>2 DEF Reset
<1>4. \A u \in Task : u # o => task'[u] = task[u]
  BY <1>1
<1>5. QED
  BY <1>1, <1>2, <1>3, <1>4, SameUses DEF ClientLeaves

LEMMA CloseUses ==
  ASSUME Base, NEW c \in Client, client[c].op # "closed",
         HintClose(client[c].id, client[c].mode)
  PROVE  \A id \in Id : SameUse(id)
<1>1. PICK id \in Id, mode \in Modes : id = client[c].id /\ mode = client[c].mode
  BY DEF Base, Handles
<1>2. HintClose(id, mode) /\ table[id] # None
  BY <1>1 DEF Base, Handles
<1>3. /\ \A k \in Id : k # id => table'[k] = table[k]
      /\ table'[id] # None /\ table'[id].write_inflight = table[id].write_inflight
      /\ SameFds(table[id], table'[id])
  BY <1>2, HintCloseTable
<1>4. QED
  BY <1>2, <1>3 DEF SameUse, SameFds

LEMMA ReleaseLeaves ==
  ASSUME Base, NEW c \in Client, Release(c)
  PROVE  ClientLeaves
<1>1. /\ client[c].op # "closed" /\ HintClose(client[c].id, client[c].mode) /\ running = None
      /\ UNCHANGED <<lru, readQueue, fds, running, task>>
  BY DEF Release
<1>2. QED
  BY <1>1, CloseUses DEF ClientLeaves

LEMMA EndFlushLeaves ==
  ASSUME Base, NEW c \in Client, EndFlush(c)
  PROVE  ClientLeaves
<1> DEFINE o == <<c, 0>>
<1>1. /\ client[c].op # "closed" /\ running = None /\ UNCHANGED <<lru, readQueue, fds, running>>
      /\ task' = [task EXCEPT ![o] = Idle] /\ task[o].pc = "done"
      /\ HintClose(client[c].id, client[c].mode) \/ UNCHANGED table
  BY DEF EndFlush
<1>2. \A id \in Id : SameUse(id)
  BY <1>1, CloseUses, SameUses
<1>3. o \in Worker /\ o \in Task
  BY CacheAssumption DEF Worker, Task, Idx
<1>4. Reset(o)
  <2>1. task'[o] = Idle
    BY <1>1, <1>3 DEF Base, TypeOK
  <2>2. QED
    BY <1>1, <2>1, IdleReset
<1>5. \A u \in Task : u # o => task'[u] = task[u]
  BY <1>1
<1>6. QED
  BY <1>1, <1>2, <1>3, <1>4, <1>5 DEF ClientLeaves

LEMMA ClientSteps ==
  ASSUME Base, NEW c \in Client, ClientStep(c)
  PROVE  ClientLeaves
<1>1. None \in Bytes /\ \A v \in Val : v \in Bytes
  BY DEF Bytes
<1>2. QED
  BY <1>1, OpenLeaves, BeginLeaves, EndIOLeaves, BeginFlushLeaves, EndFlushLeaves, ReleaseLeaves
  DEF ClientStep

-----------------------------------------------------------------------------
(* Stale fds: hint_open and hint_close keep m_stale_fds and the counts in step *)

LEMMA StaleStep ==
  ASSUME Base, StaleUnused, [Next]_vars
  PROVE  StaleUnused'
<1> DEFINE ok(id) == table'[id] # None =>
             /\ stale'[id]["r"] > 0 => table'[id].reader = 0
             /\ stale'[id]["w"] > 0 => table'[id].writer = 0
<1> SUFFICES ASSUME NEW id \in Id
             PROVE  ok(id)
  BY DEF StaleUnused
<1>1. /\ table \in [Id -> Entry \cup {None}] /\ stale \in [Id -> [Kind -> Nat]]
      /\ stale[id]["r"] \in Nat /\ stale[id]["w"] \in Nat
      /\ table[id] # None => table[id].reader \in Nat /\ table[id].writer \in Nat
  BY DEF Base, TypeOK, Kind, Entry
<1>2. ASSUME stale' = stale,
             table'[id] # None => /\ table[id] # None /\ table'[id].reader = table[id].reader
                                  /\ table'[id].writer = table[id].writer
      PROVE  ok(id)
  BY <1>2 DEF StaleUnused
<1>3. ASSUME NEW t \in Worker, PageStep(t) \/ FlushStep(t)
      PROVE  ok(id)
  <2>1. KeepsEntries(t)
    BY <1>3, StepEntries
  <2>2. stale' = stale
    BY <1>3 DEF PageStep, FlushStep, Enter, Woken, ReadFind, ReadOpened, ReadFetch, ReadFilled,
       WriteFind, CopyPage, EvictPop, EvictDone, EvictOpened, EvictErase, FlushWrite, FlushAck,
       Flush, FlushOpened, FlushNext
  <2>3. QED
    BY <1>2, <2>1, <2>2 DEF KeepsEntries, Alike
<1>4. ASSUME NEW c \in Client, NEW k \in Id, NEW mode \in Modes, Open(c, k, mode)
      PROVE  ok(id)
  <2> DEFINE old == IF table[k] = None THEN NewEntry ELSE table[k]
             x == old.reader + One(Reads(mode))
             y == old.writer + One(Writes(mode))
  <2>1. CASE id # k
    <3>1. table'[id] = table[id] /\ stale'[id] = stale[id]
      BY <1>1, <1>4, <2>1 DEF Open
    <3>2. QED
      BY <3>1 DEF StaleUnused
  <2>2. CASE id = k
    <3>1. old \in Entry
      BY <1>1, NewEntryIsEntry
    <3>2. old.reader \in Nat /\ old.writer \in Nat
      <4> HIDE DEF old
      <4> QED BY <3>1 DEF Entry
    <3>3. table'[id].reader = x /\ table'[id].writer = y
      <4>1. table' = [table EXCEPT ![k] = [old EXCEPT !.reader = @ + One(Reads(mode)),
                                                      !.writer = @ + One(Writes(mode))]]
        BY <1>4 DEF Open
      <4>2. table'[k] = [old EXCEPT !.reader = @ + One(Reads(mode)), !.writer = @ + One(Writes(mode))]
        <5> HIDE DEF old
        <5> QED BY <1>1, <4>1
      <4> HIDE DEF old
      <4>3. QED
        BY <2>2, <3>1, <4>2 DEF Entry
    <3>4. /\ stale'[id]["r"] = IF Reads(mode) /\ old.reader = 0 THEN 0 ELSE stale[id]["r"]
          /\ stale'[id]["w"] = IF Writes(mode) /\ old.writer = 0 THEN 0 ELSE stale[id]["w"]
      <4>1. stale' = [stale EXCEPT
              ![k]["r"] = IF Reads(mode) /\ old.reader = 0 THEN 0 ELSE @,
              ![k]["w"] = IF Writes(mode) /\ old.writer = 0 THEN 0 ELSE @]
        BY <1>4 DEF Open
      <4> HIDE DEF old
      <4>2. QED
        BY <1>1, <2>2, <4>1 DEF Kind
    <3>5. /\ stale[id]["r"] > 0 => old.reader = 0
          /\ stale[id]["w"] > 0 => old.writer = 0
      BY <2>2 DEF StaleUnused, NewEntry
    <3> HIDE DEF old
    <3>6. QED
      BY <1>1, <3>2, <3>3, <3>4, <3>5 DEF One
  <2>3. QED
    BY <2>1, <2>2
<1>5. ASSUME NEW c \in Client, client[c].op # "closed", HintClose(client[c].id, client[c].mode)
      PROVE  ok(id)
  <2>1. PICK k \in Id, mode \in Modes : k = client[c].id /\ mode = client[c].mode
    BY <1>5 DEF Base, Handles
  <2>2. HintClose(k, mode) /\ table[k] # None
    BY <1>5, <2>1 DEF Base, Handles
  <2>3. /\ id # k => table'[id] = table[id] /\ stale'[id] = stale[id]
        /\ table'[k].reader \in Nat /\ table'[k].writer \in Nat
        /\ table'[k].reader > 0 => table[k].reader > 0 /\ stale'[k]["r"] = stale[k]["r"]
        /\ table'[k].writer > 0 => table[k].writer > 0 /\ stale'[k]["w"] = stale[k]["w"]
    BY <2>2, HintCloseTable
  <2>4. CASE id # k
    BY <2>3, <2>4 DEF StaleUnused
  <2>5. CASE id = k
    BY <1>1, <2>2, <2>3, <2>5 DEF StaleUnused
  <2>6. QED
    BY <2>4, <2>5
<1>6. ASSUME NEW c \in Client, EndFlush(c) \/ Release(c)
      PROVE  ok(id)
  <2>1. client[c].op # "closed"
    BY <1>6 DEF EndFlush, Release
  <2>2. HintClose(client[c].id, client[c].mode) \/ UNCHANGED <<table, stale>>
    BY <1>6 DEF EndFlush, Release
  <2>3. QED
    BY <1>2, <1>5, <2>1, <2>2
<1>7. ASSUME NEW c \in Client, NEW op, NEW i, NEW j, NEW v, Begin(c, op, i, j, v)
      PROVE  ok(id)
  <2> DEFINE k == client[c].id
             d == IF op = "write" THEN TRUE ELSE table[k].dirty
  <2>1. k \in Id /\ table[k] \in Entry /\ stale' = stale
    BY <1>7 DEF Begin, Base, Handles, TypeOK
  <2>2. table' = [table EXCEPT ![k].dirty = d]
    BY <1>7 DEF Begin
  <2> HIDE DEF d
  <2>3. table'[k] = [table[k] EXCEPT !.dirty = d] /\ (id # k => table'[id] = table[id])
    BY <1>1, <2>1, <2>2
  <2>4. table'[k].reader = table[k].reader /\ table'[k].writer = table[k].writer
    BY <2>1, <2>3 DEF Entry
  <2>5. table[k] # None
    BY <2>1, CacheAssumption
  <2>6. QED
    BY <1>2, <2>1, <2>3, <2>4, <2>5
<1>8. ASSUME NEW c \in Client, ClientStep(c)
      PROVE  ok(id)
  <2>1. CASE EndIO(c) \/ BeginFlush(c, "flush") \/ BeginFlush(c, "release")
    BY <1>2, <2>1 DEF EndIO, BeginFlush
  <2>2. QED
    BY <1>4, <1>6, <1>7, <1>8, <2>1 DEF ClientStep
<1>9. CASE ReapCollect
  <2>1. stale'[id] = [k \in Kind |-> IF table[id] = None THEN 0 ELSE stale[id][k] - One(Reapable(id, k))]
    BY <1>9 DEF ReapCollect
  <2>2. /\ table'[id] # None => stale'[id]["r"] <= stale[id]["r"] /\ stale'[id]["w"] <= stale[id]["w"]
        /\ stale'[id]["r"] \in Int /\ stale'[id]["w"] \in Int
    BY <1>1, <1>9, <2>1, CollectTable DEF Kind, One
  <2>3. QED
    BY <1>1, <1>9, <2>2, CollectTable DEF StaleUnused
<1>10. CASE ReapClose \/ ReapClosed
  BY <1>2, <1>10 DEF ReapClose, ReapClosed
<1>11. CASE ReapSweep
  <2>1. table'[id] = None \/ table'[id] = table[id]
    BY <1>11 DEF ReapSweep
  <2>2. QED
    BY <1>2, <1>11, <2>1 DEF ReapSweep
<1>12. ASSUME NEW t \in Worker, Dangle(t)
       PROVE  ok(id)
  BY <1>2, <1>12 DEF Dangle
<1>13. CASE UNCHANGED vars
  BY <1>2, <1>13 DEF vars
<1>14. QED
  BY <1>3, <1>8, <1>9, <1>10, <1>11, <1>12, <1>13 DEF Next, FileStep, ReaperStep

\* In every order of opens, closes and reaper runs an fd listed in m_stale_fds belongs
\* to a file without readers (writers), so clean_stale_fds (cache.cpp) never closes the
\* descriptor of a file that is open in that direction.
THEOREM StaleNeverInUse == Spec => []StaleUnused
<1>1. Init => Base /\ StaleUnused
  BY InitBase DEF Init, StaleUnused
<1>2. Base /\ StaleUnused /\ [Next]_vars => Base' /\ StaleUnused'
  BY BaseStep, StaleStep
<1>3. QED
  BY <1>1, <1>2, PTL DEF Spec

-----------------------------------------------------------------------------
(* The read queue: a coroutine only waits for a fetch that is in flight *)

Waiting == Queue /\ WaitersServed

\* A coroutine in "fill" is the one that owns the key of its page.
LEMMA FillKey ==
  ASSUME Base, NEW t \in Worker, task[t].pc \in {"fetch", "fill"}
  PROVE  KeyOf(t) = <<task[t].id, task[t].idx>> /\ KeyOf(t) \in Key
<1>1. task[t].victim = None
  BY DEF Base, Victims
<1>2. QED
  BY <1>1, KeyInUse DEF KeyOf

\* Nothing that this invariant speaks of changes.
LEMMA SameWaiting ==
  ASSUME Base, Waiting, readQueue' = readQueue,
         \A u \in Worker : task'[u].on # None => task'[u].on = task[u].on,
         \A u \in Worker : task[u].pc = "fill" =>
           task'[u].pc = "fill" /\ task'[u].id = task[u].id /\ task'[u].idx = task[u].idx
  PROVE  Waiting'
<1>1. \A k \in Key : readQueue[k] \in Worker \cup {None}
  BY DEF Base, TypeOK
<1>2. Queue'
  BY <1>1 DEF Waiting, Queue
<1>3. \A u \in Worker : task[u].on \in Worker \cup {None}
  <2>1. \A u \in Worker : task[u] \in Frame
    BY DEF Base, TypeOK, Task
  <2>2. QED
    BY <2>1 DEF Frame
<1>4. WaitersServed'
  BY <1>3 DEF Waiting, WaitersServed
<1>5. QED
  BY <1>2, <1>4 DEF Waiting

LEMMA WaitingStep ==
  ASSUME Base, Waiting, [Next]_vars
  PROVE  Waiting'
<1>1. ASSUME NEW u \in Worker
      PROVE  u \in Task /\ task[u] \in Frame /\ task[u].on \in Worker \cup {None}
  <2>1. u \in Task /\ task[u] \in Frame
    BY DEF Base, TypeOK, Task
  <2>2. QED
    BY <2>1 DEF Frame
<1>2. \A k \in Key : readQueue[k] \in Worker \cup {None}
  BY DEF Base, TypeOK
\* A step of t other than the end of a fetch, which leaves the queue alone.
<1>3. ASSUME NEW t \in Worker, Others(t), task[t].pc # "fill", readQueue' = readQueue,
             \A u \in Worker : u # t => task'[u].on = task[u].on,
             task'[t].on # None => task'[t].on = task[t].on
      PROVE  Waiting'
  <2>1. \A u \in Worker : task[u].pc = "fill" =>
          task'[u].pc = "fill" /\ task'[u].id = task[u].id /\ task'[u].idx = task[u].idx
    BY <1>1, <1>3 DEF Others, Kept, Steady
  <2>2. \A u \in Worker : task'[u].on # None => task'[u].on = task[u].on
    BY <1>3
  <2>3. QED
    BY <1>3, <2>1, <2>2, SameWaiting
<1>4. ASSUME NEW t \in Worker, PageStep(t) \/ FlushStep(t)
      PROVE  Waiting'
  <2>1. Others(t)
    BY <1>4, StepFrames
  <2>2. ~ReadFilled(t) => \A u \in Worker : u # t => task'[u].on = task[u].on
    BY <1>1, <1>4, StepOthers
  <2>3. CASE Enter(t)
    <3>1. KeyOf(t) \in Key
      BY <2>3, KeyInUse, EnterFrame
    <3>2. task[t].pc = "enter" /\ readQueue' = readQueue /\ ~ReadFilled(t)
      BY <2>3 DEF Enter, MayRun, ReadFilled, Answered
    <3>3. CASE task'[t].pc = "body"
      BY <1>3, <2>1, <2>2, <2>3, <3>2, <3>3, EnterFrame
    <3>4. CASE task'[t].pc = "wait"
      <4>1. task'[t].on = readQueue[KeyOf(t)] /\ task'[t].on # None
        BY <2>3, <3>4, EnterFrame
      <4>2. task'[t].on \in Worker /\ task[task'[t].on].pc = "fill"
        BY <1>2, <3>1, <4>1 DEF Waiting, Queue
      <4>3. \A u \in Worker : task[u].pc = "fill" =>
              task'[u].pc = "fill" /\ task'[u].id = task[u].id /\ task'[u].idx = task[u].idx
        BY <1>1, <2>1, <3>2 DEF Others, Kept, Steady
      <4>4. Queue'
        BY <1>2, <3>2, <4>3 DEF Waiting, Queue
      <4>5. \A u \in Worker : task'[u].on # None => task'[task'[u].on].pc = "fill"
        BY <1>1, <2>2, <3>2, <4>2, <4>3 DEF Waiting, WaitersServed
      <4>6. QED
        BY <4>4, <4>5 DEF Waiting, WaitersServed
    <3>5. QED
      BY <2>3, <3>3, <3>4, EnterFrame
  <2>4. CASE ReadFetch(t)
    <3>1. /\ task[t].pc = "fetch" /\ task'[t].pc = "fill" /\ task'[t].id = task[t].id
          /\ task'[t].idx = task[t].idx /\ task'[t].on = task[t].on
      BY <2>4, ReadFetchFrame DEF Steady
    <3>2. KeyOf(t) = <<task[t].id, task[t].idx>> /\ KeyOf(t) \in Key
      BY <3>1, FillKey
    <3>3. ~ReadFilled(t)
      BY <3>1 DEF ReadFilled, Answered
    <3>4. \A u \in Worker : task[u].pc = "fill" =>
            task'[u].pc = "fill" /\ task'[u].id = task[u].id /\ task'[u].idx = task[u].idx
      BY <1>1, <2>1, <3>1 DEF Others, Kept, Steady
    <3>5. ASSUME NEW k \in Key, readQueue'[k] # None
          PROVE  task'[readQueue'[k]].pc = "fill" /\ k = <<task'[readQueue'[k]].id, task'[readQueue'[k]].idx>>
      <4>1. CASE readQueue'[k] = readQueue[k]
        BY <1>2, <3>4, <3>5, <4>1 DEF Waiting, Queue
      <4>2. CASE k = KeyOf(t) /\ readQueue'[k] = t
        BY <3>1, <3>2, <4>2
      <4>3. QED
        BY <2>4, <4>1, <4>2 DEF ReadFetch, Base, TypeOK
    <3>6. \A u \in Worker : task'[u].on # None => task'[task'[u].on].pc = "fill"
      BY <1>1, <2>2, <3>1, <3>3, <3>4 DEF Waiting, WaitersServed
    <3>7. QED
      BY <3>5, <3>6 DEF Waiting, Queue, WaitersServed
  <2>5. CASE ReadFilled(t)
    <3>1. task[t].pc = "fill" /\ readQueue' = [readQueue EXCEPT ![KeyOf(t)] = None]
      BY <2>5 DEF ReadFilled, Answered
    <3>2. KeyOf(t) = <<task[t].id, task[t].idx>> /\ KeyOf(t) \in Key
      BY <3>1, FillKey
    <3>3. ASSUME NEW k \in Key, readQueue'[k] # None
          PROVE  task'[readQueue'[k]].pc = "fill" /\ k = <<task'[readQueue'[k]].id, task'[readQueue'[k]].idx>>
      <4>1. k # KeyOf(t) /\ readQueue'[k] = readQueue[k]
        BY <3>1, <3>2, <3>3 DEF Base, TypeOK
      <4>2. readQueue[k] \in Worker /\ task[readQueue[k]].pc = "fill"
            /\ k = <<task[readQueue[k]].id, task[readQueue[k]].idx>>
        BY <1>2, <3>3, <4>1 DEF Waiting, Queue
      <4>3. readQueue[k] # t
        BY <3>2, <4>1, <4>2
      <4>4. QED
        BY <1>1, <2>1, <4>1, <4>2, <4>3 DEF Others, Kept, Steady
    <3>4. ASSUME NEW u \in Worker, task'[u].on # None
          PROVE  task'[task'[u].on].pc = "fill"
      <4>1. task'[u].on = task[u].on /\ task[u].on # t
        BY <1>1, <2>5, <3>4, ReadFilledFrame
      <4>2. task[u].on \in Worker /\ task[task[u].on].pc = "fill"
        BY <1>1, <3>4, <4>1 DEF Waiting, WaitersServed
      <4>3. QED
        BY <1>1, <2>1, <4>1, <4>2 DEF Others, Kept
    <3>5. QED
      BY <3>3, <3>4 DEF Waiting, Queue, WaitersServed
  <2>6. CASE Woken(t) \/ ReadFind(t) \/ ReadOpened(t) \/ WriteFind(t) \/ CopyPage(t)
    <3>1. task[t].pc # "fill" /\ (task'[t].on # None => task'[t].on = task[t].on)
      BY <2>6, WokenFrame, ReadFindFrame, ReadOpenedFrame, WriteFindFrame, CopyPageFrame
      DEF Finished, Requested
    <3>2. readQueue' = readQueue
      BY <2>6 DEF Woken, ReadFind, ReadOpened, WriteFind, CopyPage
    <3>3. ~ReadFilled(t)
      BY <3>1 DEF ReadFilled, Answered
    <3>4. QED
      BY <1>3, <2>1, <2>2, <3>1, <3>2, <3>3
  <2>7. CASE FlushStep(t)
    <3>1. task[t].pc # "fill" /\ (task'[t].on # None => task'[t].on = task[t].on)
      BY <2>7, EvictPopFrame, EvictDoneFrame, EvictOpenedFrame, EvictEraseFrame, FlushWriteFrame,
         FlushAckFrame, FlushFrame, FlushOpenedFrame, FlushNextFrame
      DEF Finished, Requested, FlushStep
    <3>2. readQueue' = readQueue
      BY <2>7 DEF FlushStep, EvictPop, EvictDone, EvictOpened, EvictErase, FlushWrite, FlushAck,
         Flush, FlushOpened, FlushNext
    <3>3. ~ReadFilled(t)
      BY <3>1 DEF ReadFilled, Answered
    <3>4. QED
      BY <1>3, <2>1, <2>2, <3>1, <3>2, <3>3
  <2>8. QED
    BY <1>4, <2>3, <2>4, <2>5, <2>6, <2>7 DEF PageStep
<1>5. ASSUME NEW c \in Client, ClientStep(c)
      PROVE  Waiting'
  <2>1. ClientLeaves
    BY <1>5, ClientSteps
  <2>2. \A u \in Worker : task'[u].on # None => task'[u].on = task[u].on
    BY <1>1, <2>1 DEF ClientLeaves, Reset
  <2>3. \A u \in Worker : task[u].pc = "fill" =>
          task'[u].pc = "fill" /\ task'[u].id = task[u].id /\ task'[u].idx = task[u].idx
    BY <1>1, <2>1 DEF ClientLeaves, Reset
  <2>4. QED
    BY <2>1, <2>2, <2>3, SameWaiting DEF ClientLeaves
<1>6. CASE ReaperStep
  <2>1. \A u \in Worker : task'[u] = task[u]
    BY <1>6, ReaperAlone
  <2>2. readQueue' = readQueue
    BY <1>6 DEF ReaperStep, ReapCollect, ReapClose, ReapClosed, ReapSweep
  <2>3. QED
    BY <2>1, <2>2, SameWaiting
<1>7. ASSUME NEW t \in Worker, Dangle(t)
      PROVE  Waiting'
  BY <1>7, SameWaiting DEF Dangle
<1>8. CASE UNCHANGED vars
  BY <1>8, SameWaiting DEF vars
<1>9. QED
  BY <1>4, <1>5, <1>6, <1>7, <1>8 DEF Next, FileStep

\* read_at's promise always has someone to fulfil it: a coroutine that found a future in
\* m_read_queue waits for a fetch whose answer is still to come, even when a second
\* read of the page took the future out of the queue early (cache.cpp, read_at).
THEOREM WaitersAreServed == Spec => []WaitersServed
<1>1. Init => Base /\ Waiting
  <2>1. ASSUME Init
        PROVE  Waiting
    BY <2>1 DEF Init, Waiting, Queue, WaitersServed, Idle, Task
  <2>2. QED
    BY <2>1, InitBase
<1>2. Base /\ Waiting /\ [Next]_vars => Base' /\ Waiting'
  BY BaseStep, WaitingStep
<1>3. Waiting => WaitersServed
  BY DEF Waiting
<1>4. QED
  BY <1>1, <1>2, <1>3, PTL DEF Spec

-----------------------------------------------------------------------------
(* The list is longer than m_max_pages only while a coroutine that holds the *)
(* thread has still to evict                                                 *)

LEMMA InsertedLength ==
  ASSUME NEW s \in Seq(Ref), NEW r \in Ref, Len(s) <= MaxPages
  PROVE  LET l == << r >> \o s IN
         /\ Len(l) <= MaxPages + 1 /\ Overfull(l) \in {0, 1}
         /\ Overfull(l) = 1 <=> Len(l) = MaxPages + 1
         /\ Overfull(l) = 1 <=> Len(l) > MaxPages
         /\ AfterInsert(l) = IF Overfull(l) = 1 THEN "evict" ELSE "copy"
<1> DEFINE l == << r >> \o s
           n == Len(l)
<1>1. n = Len(s) + 1 /\ Len(s) \in Nat /\ MaxPages \in Nat
  BY PushFront, LenProperties, CacheAssumption
<1> HIDE DEF l
<1>2. Overfull(l) = IF n > MaxPages THEN n - MaxPages ELSE 0
  BY DEF Overfull
<1>3. AfterInsert(l) = IF Overfull(l) > 0 THEN "evict" ELSE "copy"
  BY DEF AfterInsert
<1>4. n <= MaxPages + 1 /\ n \in Nat
  BY <1>1
<1>5. QED
  BY <1>1, <1>2, <1>3, <1>4 DEF l

LEMMA OverlongStep ==
  ASSUME Base, Overlong, [Next]_vars
  PROVE  Overlong'
<1>1. ASSUME NEW u \in Worker
      PROVE  u \in Task /\ u # None /\ u # Crashed /\ u # Reaper /\ task[u].evict \in Nat
  <2>1. u \in Task /\ task[u] \in Frame
    BY DEF Base, TypeOK, Task
  <2>2. QED
    BY <2>1, CacheAssumption DEF Frame
<1>2. lru \in Seq(Ref) /\ Len(lru) \in Nat /\ MaxPages \in Nat \ {0}
  BY LenProperties, CacheAssumption DEF Base, TypeOK
<1>3. None # Crashed /\ None # Reaper /\ Reaper # Crashed /\ None \notin Worker /\ Reaper \notin Worker
  BY CacheAssumption DEF Task
\* Nobody is in evict's loop, nor is after the step.
<1>4. ASSUME Len(lru') <= MaxPages, \A u \in Worker : task'[u].evict = 0
      PROVE  Overlong'
  <2>1. Len(lru') \in Nat
    <3>1. lru' \in Seq(Ref)
      BY TypeStep DEF TypeOK
    <3>2. QED
      BY <3>1, LenProperties
  <2>2. QED
    BY <1>2, <1>4, <2>1 DEF Overlong
<1>5. ASSUME running \notin Worker, running # Crashed
      PROVE  Len(lru) <= MaxPages /\ \A u \in Worker : task[u].evict = 0
  BY <1>1, <1>2, <1>5 DEF Overlong
\* Whoever may run is alone in evict's loop.
<1>6. ASSUME NEW t \in Worker, running \in {None, t}, NEW u \in Worker, u # t
       PROVE  task[u].evict = 0
  <2>1. task[u].evict > 0 => running \in {u, Crashed}
    BY DEF Overlong
  <2>2. running # u /\ running # Crashed
    BY <1>1, <1>3, <1>6
  <2>3. QED
    BY <1>1, <2>1, <2>2
<1>7. ASSUME NEW t \in Worker, running \in {None, t}, task[t].pc # "evict"
      PROVE  Len(lru) <= MaxPages /\ \A u \in Worker : task[u].evict = 0
  <2>1. task[t].evict = 0
    BY <1>1, <1>7 DEF Overlong
  <2>2. ASSUME NEW u \in Worker
        PROVE  task[u].evict = 0
    BY <1>7, <1>6, <2>1
  <2>3. QED
    BY <1>2, <1>3, <1>7, <2>1, <2>2 DEF Overlong
<1>8. ASSUME NEW t \in Worker, PageStep(t) \/ FlushStep(t)
      PROVE  Overlong'
  <2>1. Others(t) /\ running \in {None, t} /\ task[t].evict \in Nat
    BY <1>1, <1>8, StepFrames DEF PageStep, FlushStep, Enter, Woken, ReadFind, ReadOpened, ReadFetch,
       ReadFilled, WriteFind, CopyPage, EvictPop, EvictDone, EvictOpened, EvictErase, FlushWrite,
       FlushAck, Flush, FlushOpened, FlushNext, MayRun, Answered
  <2>2. \A u \in Worker : u # t => task'[u].evict = task[u].evict
    BY <1>1, <2>1 DEF Others, Kept, Steady
  <2>3. ASSUME task[t].pc # "evict", Len(lru') = Len(lru), task'[t].evict \in {0, task[t].evict}
        PROVE  Overlong'
    BY <1>4, <1>7, <2>1, <2>2, <2>3
  <2>4. CASE Enter(t) \/ Woken(t) \/ ReadFind(t) \/ ReadOpened(t) \/ ReadFetch(t)
    <3>1. task[t].pc # "evict" /\ task'[t].evict \in {0, task[t].evict}
      BY <2>4, EnterFrame, WokenFrame, ReadFindFrame, ReadOpenedFrame, ReadFetchFrame
      DEF Steady, Moved, Finished
    <3>2. lru' = lru
      BY <2>4 DEF Enter, Woken, ReadFind, ReadOpened, ReadFetch
    <3>3. QED
      BY <2>3, <3>1, <3>2
\* A new node at the front.
  <2>5. ASSUME task[t].pc # "evict", FreeRefs # {}, lru' = << FreshRef >> \o lru, running' = t,
               task'[t].evict = Overfull(lru'), task'[t].pc = AfterInsert(lru')
        PROVE  Overlong'
    <3>1. Len(lru) <= MaxPages /\ \A u \in Worker : task[u].evict = 0
      BY <1>7, <2>1, <2>5
    <3>2. FreshRef \in Ref
      BY <2>5, FreshRefIsFree
    <3>3. /\ Len(lru') <= MaxPages + 1 /\ Overfull(lru') \in {0, 1}
          /\ Overfull(lru') = 1 <=> Len(lru') = MaxPages + 1
          /\ Overfull(lru') = 1 <=> Len(lru') > MaxPages
          /\ AfterInsert(lru') = IF Overfull(lru') = 1 THEN "evict" ELSE "copy"
      BY <1>2, <2>5, <3>1, <3>2, InsertedLength
    <3>4. QED
      BY <2>2, <2>5, <3>1, <3>3 DEF Overlong
  <2>6. CASE ReadFilled(t)
    <3>1. task[t].pc # "evict"
      BY <2>6 DEF ReadFilled, Answered
    <3>2. CASE task[t].ok /\ readQueue[KeyOf(t)] # None
      BY <2>5, <2>6, <3>1, <3>2, ReadFilledFrame DEF ReadFilled, Keep
    <3>3. CASE ~(task[t].ok /\ readQueue[KeyOf(t)] # None)
      BY <2>3, <2>6, <3>1, <3>3, ReadFilledFrame DEF ReadFilled, Finished
    <3>4. QED
      BY <3>2, <3>3
  <2>7. CASE WriteFind(t)
    <3>1. task[t].pc # "evict"
      BY <2>7, WriteFindFrame
    <3>2. CASE table[task[t].id].pages[task[t].idx] = None
      BY <2>5, <2>7, <3>1, <3>2, WriteFindFrame DEF WriteFind, Keep
    <3>3. CASE table[task[t].id].pages[task[t].idx] # None
      BY <2>3, <2>7, <3>1, <3>3, WriteFindFrame DEF WriteFind
    <3>4. QED
      BY <3>2, <3>3
  <2>8. CASE CopyPage(t)
    <3>1. task[t].pc # "evict" /\ task'[t].evict = 0
      BY <2>8, CopyPageFrame DEF Finished
    <3>2. Live(task[t].ref) /\ lru' = ToFront(task[t].ref)
      BY <2>8 DEF CopyPage, IteratorValid
    <3>3. task[t].ref \in Ref
      BY <1>2, <3>2, ElementOfSeq DEF Live
    <3>4. Len(lru') = Len(lru)
      BY <1>2, <3>2, <3>3, MoveToFront
    <3>5. QED
      BY <2>3, <3>1, <3>4
  <2>9. CASE EvictPop(t)
    <3>1. task[t].evict > 0 /\ task'[t].evict = task[t].evict - 1
      BY <2>9, EvictPopFrame
    <3>2. task[t].evict = 1 /\ Len(lru) = MaxPages + 1
      BY <3>1 DEF Overlong
    <3>3. \A u \in Worker : u # t => task[u].evict = 0
      BY <1>6, <2>1
    <3>4. Len(lru') = MaxPages
      <4>1. lru # << >> /\ lru' = SubSeq(lru, 1, Len(lru) - 1)
        BY <2>9 DEF EvictPop
      <4>2. Len(lru') = Len(lru) - 1
        BY <1>2, <4>1, PopBack
      <4>3. QED
        BY <1>2, <3>2, <4>2
    <3>5. QED
      BY <1>2, <1>4, <2>2, <3>1, <3>2, <3>3, <3>4
  <2>10. CASE EvictDone(t)
    <3>1. task[t].evict = 0
      <4>1. task[t].evict > 0 => Len(lru) = MaxPages + 1
        BY DEF Overlong
      <4>2. lru = << >> => Len(lru) = 0
        BY EmptySeq
      <4>3. QED
        BY <1>2, <2>1, <2>10, <4>1, <4>2 DEF EvictDone
    <3>2. \A u \in Worker : u # t => task[u].evict = 0
      BY <1>6, <2>1
    <3>3. Len(lru) <= MaxPages
      BY <1>2, <1>3, <2>1, <3>1 DEF Overlong
    <3>4. QED
      BY <1>4, <2>2, <2>10, <3>1, <3>2, <3>3, EvictDoneFrame DEF EvictDone, Steady
  <2>11. CASE EvictOpened(t) \/ EvictErase(t) \/ FlushWrite(t) \/ FlushAck(t) \/ Flush(t)
              \/ FlushOpened(t) \/ FlushNext(t)
    <3>1. task[t].pc # "evict" /\ task'[t].evict \in {0, task[t].evict}
      BY <2>11, EvictOpenedFrame, EvictEraseFrame, FlushWriteFrame, FlushAckFrame, FlushFrame,
         FlushOpenedFrame, FlushNextFrame DEF Steady, Dropped, Finished
    <3>2. lru' = lru
      BY <2>11 DEF EvictOpened, EvictErase, FlushWrite, FlushAck, Flush, FlushOpened, FlushNext
    <3>3. QED
      BY <2>3, <3>1, <3>2
  <2>12. QED
    BY <1>8, <2>4, <2>6, <2>7, <2>8, <2>9, <2>10, <2>11 DEF PageStep, FlushStep
<1>9. ASSUME NEW c \in Client, ClientStep(c)
      PROVE  Overlong'
  <2>1. ClientLeaves
    BY <1>9, ClientSteps
  <2>2. Len(lru) <= MaxPages /\ \A u \in Worker : task[u].evict = 0
    BY <1>3, <1>5, <2>1 DEF ClientLeaves
  <2>3. \A u \in Worker : task'[u].evict = 0
    BY <1>1, <2>1, <2>2 DEF ClientLeaves, Reset
  <2>4. QED
    BY <1>4, <2>1, <2>2, <2>3 DEF ClientLeaves
<1>10. CASE ReaperStep
  <2>1. running \in {None, Reaper}
    BY <1>10 DEF ReaperStep, ReapCollect, ReapClose, ReapClosed, ReapSweep, MayRun, Answered
  <2>2. Len(lru) <= MaxPages /\ \A u \in Worker : task[u].evict = 0
    BY <1>3, <1>5, <2>1
  <2>3. QED
    BY <1>4, <1>10, <2>2, ReaperAlone
<1>11. ASSUME NEW t \in Worker, Dangle(t)
       PROVE  Overlong'
  <2>1. running \in {None, t} /\ task[t].pc # "evict" /\ UNCHANGED <<task, lru>>
    BY <1>11 DEF Dangle
  <2>2. Len(lru) <= MaxPages /\ \A u \in Worker : task[u].evict = 0
    BY <1>7, <2>1
  <2>3. QED
    BY <1>4, <2>1, <2>2
<1>12. CASE UNCHANGED vars
  BY <1>12 DEF vars, Overlong
<1>13. QED
  BY <1>8, <1>9, <1>10, <1>11, <1>12 DEF Next, FileStep

\* However many clients fill the cache at once, m_lru is never longer than m_max_pages
\* when the io_context thread is free, and by one page at most in between: every
\* insertion evicts before its coroutine gives up the thread (cache.cpp, evict).
THEOREM ListIsBounded == Spec => []LruBounded
<1>1. Init => Base /\ Overlong
  <2>1. ASSUME Init
        PROVE  Overlong
    <3>1. Len(lru) = 0 /\ MaxPages \in Nat
      BY <2>1, EmptySeq, CacheAssumption DEF Init
    <3>2. \A t \in Worker : task[t].evict = 0
      BY <2>1 DEF Init, Idle, Task
    <3>3. QED
      BY <3>1, <3>2 DEF Overlong
  <2>2. QED
    BY <2>1, InitBase
<1>2. Base /\ Overlong /\ [Next]_vars => Base' /\ Overlong'
  BY BaseStep, OverlongStep
<1>3. Base /\ Overlong => LruBounded
  <2>1. SUFFICES ASSUME Base, Overlong, running = None
                 PROVE  Len(lru) <= MaxPages
    BY DEF LruBounded
  <2>2. None \notin Worker /\ Len(lru) \in Nat /\ MaxPages \in Nat
    BY LenProperties, CacheAssumption DEF Base, TypeOK, Task
  <2>3. QED
    BY <2>1, <2>2 DEF Overlong
<1>4. QED
  BY <1>1, <1>2, <1>3, PTL DEF Spec

-----------------------------------------------------------------------------
(* The descriptors: a request never goes out on a closed descriptor or on   *)
(* another file's, however opens, flushes, evictions and the reaper         *)
(* interleave.                                                              *)

\* t waits for an open that succeeded: its fd is not in the table yet.
Opening(t) == task[t].pc \in {"read_open", "flush_open", "evict_open"} /\ task[t].ok
OpenedAs(t) ==
  IF task[t].pc = "read_open" THEN <<task[t].id, "r">>
  ELSE IF task[t].pc = "flush_open" THEN <<task[t].id, "w">>
  ELSE <<task[t].victim.key[1], "w">>

\* An fd on its way into the table has one owner, and an fd the reaper is to close
\* is known to nobody else.
FdsApart ==
  /\ \A t \in Worker : Opening(t) => task[t].fd # None /\ fds[task[t].fd] = OpenedAs(t)
  /\ \A t, u \in Worker :
       Opening(t) /\ (Opening(u) \/ InFlushAt(u)) /\ task[t].fd = task[u].fd => t = u
  /\ \A t \in Worker, id \in Id : Opening(t) /\ table[id] # None =>
       task[t].fd # table[id].read_fd /\ task[t].fd # table[id].write_fd
  /\ \A f \in task[Reaper].todo :
       /\ fds[f] # None
       /\ \A id \in Id : table[id] # None => f # table[id].read_fd /\ f # table[id].write_fd
       /\ \A t \in Worker : Opening(t) \/ InFlushAt(t) => f # task[t].fd

\* Whoever writes pages back holds write_inflight of an entry that has a write_fd: that
\* is what keeps the reaper away from the fd flush_at captured.
Flushing(t) == InFlushAt(t) \/ task[t].pc = "flush_next"

Locked ==
  \A t \in Worker : Flushing(t) =>
    /\ table[FlushedFile(t)] # None
    /\ t \in table[FlushedFile(t)].write_inflight
    /\ table[FlushedFile(t)].write_fd # None

\* Only a coroutine that waits for a future refers to one.
OnlyWaiters == \A t \in Worker : task[t].on # None => task[t].pc = "wait"

Descriptors == FdsValid /\ FdsApart /\ Locked /\ OnlyWaiters

-----------------------------------------------------------------------------
(* Lemmas about frames and descriptors *)

LEMMA FdTyped ==
  ASSUME Base, NEW u \in Worker
  PROVE  /\ u \in Task /\ u # Reaper /\ task[u] \in Frame
         /\ task[u].fd \in Fd \cup {None} /\ task[u].ok \in BOOLEAN
<1>1. u \in Task /\ u # Reaper /\ task[u] \in Frame
  BY CacheAssumption DEF Base, TypeOK, Task
<1>2. QED
  BY <1>1 DEF Frame

LEMMA TableTyped ==
  ASSUME Base, NEW id \in Id, table[id] # None
  PROVE  table[id].read_fd \in Fd \cup {None} /\ table[id].write_fd \in Fd \cup {None}
<1>1. table[id] \in Entry
  BY DEF Base, TypeOK
<1>2. QED
  BY <1>1 DEF Entry

\* A coroutine on its way through flush_at or flush names a file.
LEMMA FlushedId ==
  ASSUME Base, NEW t \in Worker, Flushing(t)
  PROVE  FlushedFile(t) \in Id
<1>1. task[t].pc # "idle"
  BY DEF Flushing, InFlushAt
<1>2. QED
  BY <1>1, InUse, VictimInUse DEF FlushedFile, Evicting

LEMMA OpenedId ==
  ASSUME Base, NEW t \in Worker, Opening(t)
  PROVE  OpenedAs(t) \in Id \X Kind /\ OpenedAs(t) # None
<1>1. task[t].pc # "idle" /\ task[t].id \in Id
  BY InUse DEF Opening
<1>2. task[t].pc = "evict_open" => task[t].victim # None
  BY FdTyped DEF Base, Frames, FrameOf, WellFormed
<1>3. task[t].pc = "evict_open" => task[t].victim.key[1] \in Id
  BY <1>2, VictimInUse
<1>4. OpenedAs(t) \in Id \X Kind
  BY <1>1, <1>3 DEF Opening, OpenedAs, Kind
<1>5. QED
  BY <1>4, CacheAssumption

-----------------------------------------------------------------------------
(* Four ways in which a step treats the descriptors *)

\* u still holds the fd it held, or has let it go.
KeepsHold(u) ==
  /\ Opening(u)' => Opening(u) /\ task'[u].fd = task[u].fd /\ OpenedAs(u)' = OpenedAs(u)
  /\ InFlushAt(u)' => InFlushAt(u) /\ task'[u].fd = task[u].fd /\ FlushedFile(u)' = FlushedFile(u)

\* u captures its file's write_fd.
Captures(u) ==
  /\ ~Opening(u)'
  /\ FlushedFile(u)' \in Id /\ table[FlushedFile(u)'] # None
  /\ task'[u].fd = table[FlushedFile(u)'].write_fd /\ task'[u].fd # None

\* Entries keep their fds, or leave the table; new ones have none.
TableKeepsFds ==
  \A id \in Id : table'[id] # None =>
    IF table[id] # None THEN SameFds(table[id], table'[id])
    ELSE table'[id].read_fd = None /\ table'[id].write_fd = None

LEMMA FdsKept ==
  ASSUME Base, FdsValid, FdsApart, fds' = fds, TableKeepsFds,
         \A u \in Worker : KeepsHold(u) \/ Captures(u),
         task'[Reaper].todo \subseteq task[Reaper].todo
  PROVE  FdsValid' /\ FdsApart'
<1>1. ASSUME NEW id \in Id, table'[id] # None
      PROVE  /\ table'[id].read_fd # None => fds'[table'[id].read_fd] = <<id, "r">>
             /\ table'[id].write_fd # None => fds'[table'[id].write_fd] = <<id, "w">>
  BY <1>1 DEF FdsValid, TableKeepsFds, SameFds
<1>2. ASSUME NEW t \in Worker, InFlushAt(t)'
      PROVE  task'[t].fd # None /\ fds'[task'[t].fd] = <<FlushedFile(t)', "w">>
  <2>1. CASE KeepsHold(t)
    BY <1>2, <2>1 DEF KeepsHold, FdsValid
  <2>2. CASE Captures(t)
    BY <1>2, <2>2 DEF Captures, FdsValid
  <2>3. QED
    BY <2>1, <2>2
<1>3. ASSUME NEW t \in Worker, Opening(t)'
      PROVE  /\ Opening(t) /\ task'[t].fd = task[t].fd
             /\ task'[t].fd # None /\ fds'[task'[t].fd] = OpenedAs(t)'
  <2>1. KeepsHold(t)
    BY <1>3 DEF Captures
  <2>2. QED
    BY <1>3, <2>1 DEF KeepsHold, FdsApart
<1>4. ASSUME NEW t \in Worker, NEW u \in Worker, Opening(t)', Opening(u)' \/ InFlushAt(u)',
             task'[t].fd = task'[u].fd
      PROVE  t = u
  <2>1. Opening(t) /\ task'[t].fd = task[t].fd
    BY <1>3, <1>4
  <2>2. CASE KeepsHold(u)
    BY <1>4, <2>1, <2>2 DEF KeepsHold, FdsApart
  <2>3. CASE Captures(u)
    BY <1>4, <2>1, <2>3 DEF Captures, FdsApart
  <2>4. QED
    BY <2>2, <2>3
<1>5. ASSUME NEW t \in Worker, NEW id \in Id, Opening(t)', table'[id] # None
      PROVE  task'[t].fd # table'[id].read_fd /\ task'[t].fd # table'[id].write_fd
  <2>1. Opening(t) /\ task'[t].fd = task[t].fd /\ task[t].fd # None
    BY <1>3, <1>5
  <2>2. QED
    BY <1>5, <2>1 DEF TableKeepsFds, SameFds, FdsApart
<1>6. ASSUME NEW f \in task'[Reaper].todo
      PROVE  /\ fds'[f] # None
             /\ \A id \in Id : table'[id] # None => f # table'[id].read_fd /\ f # table'[id].write_fd
             /\ \A t \in Worker : Opening(t)' \/ InFlushAt(t)' => f # task'[t].fd
  <2>1. f \in task[Reaper].todo /\ f # None
    <3>1. task[Reaper].todo \subseteq Fd
      <4>1. task[Reaper] \in Frame
        BY DEF Base, TypeOK, Task
      <4>2. QED
        BY <4>1 DEF Frame
    <3>2. QED
      BY <3>1, CacheAssumption
  <2>2. \A id \in Id : table'[id] # None => f # table'[id].read_fd /\ f # table'[id].write_fd
    BY <2>1 DEF TableKeepsFds, SameFds, FdsApart
  <2>3. ASSUME NEW t \in Worker, Opening(t)' \/ InFlushAt(t)'
        PROVE  f # task'[t].fd
    <3>1. CASE KeepsHold(t)
      BY <2>1, <2>3, <3>1 DEF KeepsHold, FdsApart
    <3>2. CASE Captures(t)
      BY <2>1, <2>3, <3>2 DEF Captures, FdsApart
    <3>3. QED
      BY <3>1, <3>2
  <2>4. QED
    BY <2>1, <2>2, <2>3 DEF FdsApart
<1>7. FdsValid'
  BY <1>1, <1>2 DEF FdsValid
<1>8. FdsApart'
  BY <1>3, <1>4, <1>5, <1>6 DEF FdsApart
<1>9. QED
  BY <1>7, <1>8

\* A descriptor that was free is opened for t; nobody else knows it.
LEMMA FdsOpened ==
  ASSUME Base, FdsValid, FdsApart, NEW t \in Worker, NEW as,
         Opening(t)', ~InFlushAt(t)', OpenedAs(t)' = as,
         task'[t].fd \in Fd, fds[task'[t].fd] = None, fds' = [fds EXCEPT ![task'[t].fd] = as],
         TableKeepsFds, \A id \in Id : table'[id] # None => table[id] # None,
         \A u \in Worker : u # t => KeepsHold(u),
         task'[Reaper].todo \subseteq task[Reaper].todo
  PROVE  FdsValid' /\ FdsApart'
<1> DEFINE new == task'[t].fd
<1>1. new # None /\ fds'[new] = as /\ \A f \in Fd : f # new => fds'[f] = fds[f]
  BY CacheAssumption DEF Base, TypeOK
<1>2. ASSUME NEW id \in Id, table'[id] # None
      PROVE  /\ table[id] # None /\ SameFds(table[id], table'[id])
             /\ table[id].read_fd \in Fd \cup {None} /\ table[id].write_fd \in Fd \cup {None}
             /\ table[id].read_fd # new /\ table[id].write_fd # new
             /\ <<id, "r">> # None /\ <<id, "w">> # None
  <2>1. <<id, "r">> # None /\ <<id, "w">> # None
    <3>1. <<id, "r">> \in Id \X Kind /\ <<id, "w">> \in Id \X Kind
      BY DEF Kind
    <3>2. QED
      BY <3>1, CacheAssumption
  <2>2. table[id] # None /\ SameFds(table[id], table'[id])
    BY <1>2 DEF TableKeepsFds
  <2>3. table[id].read_fd # new /\ table[id].write_fd # new
    BY <1>1, <2>1, <2>2 DEF FdsValid
  <2>4. QED
    BY <2>1, <2>2, <2>3, TableTyped
<1>3. ASSUME NEW id \in Id, table'[id] # None
      PROVE  /\ table'[id].read_fd # None => fds'[table'[id].read_fd] = <<id, "r">>
             /\ table'[id].write_fd # None => fds'[table'[id].write_fd] = <<id, "w">>
  <2>1. /\ table[id] # None /\ table'[id].read_fd = table[id].read_fd
        /\ table'[id].write_fd = table[id].write_fd
    BY <1>2, <1>3 DEF SameFds
  <2>2. /\ table[id].read_fd # None => fds'[table[id].read_fd] = fds[table[id].read_fd]
        /\ table[id].write_fd # None => fds'[table[id].write_fd] = fds[table[id].write_fd]
    BY <1>1, <1>2, <1>3
  <2>3. QED
    BY <2>1, <2>2 DEF FdsValid
\* Whoever held a descriptor holds another one than the new one.
<1>4. ASSUME NEW u \in Worker, Opening(u) \/ InFlushAt(u)
      PROVE  task[u].fd \in Fd /\ task[u].fd # new /\ fds'[task[u].fd] = fds[task[u].fd]
  <2>1. CASE Opening(u)
    <3>1. task[u].fd # None /\ fds[task[u].fd] # None
      BY <2>1, OpenedId DEF FdsApart
    <3>2. QED
      BY <1>1, <3>1, FdTyped
  <2>2. CASE InFlushAt(u)
    <3>1. FlushedFile(u) \in Id
      BY <2>2, FlushedId DEF Flushing
    <3>2. <<FlushedFile(u), "w">> \in Id \X Kind
      BY <3>1 DEF Kind
    <3>3. task[u].fd # None /\ fds[task[u].fd] # None
      BY <2>2, <3>2, CacheAssumption DEF FdsValid
    <3>4. QED
      BY <1>1, <3>3, FdTyped
  <2>3. QED
    BY <1>4, <2>1, <2>2
<1>5. ASSUME NEW u \in Worker, InFlushAt(u)'
      PROVE  /\ InFlushAt(u) /\ task'[u].fd = task[u].fd /\ u # t
             /\ task'[u].fd # None /\ fds'[task'[u].fd] = <<FlushedFile(u)', "w">>
  <2>1. u # t /\ KeepsHold(u)
    BY <1>5
  <2>2. InFlushAt(u) /\ task'[u].fd = task[u].fd /\ FlushedFile(u)' = FlushedFile(u)
    BY <1>5, <2>1 DEF KeepsHold
  <2>3. QED
    BY <1>4, <2>1, <2>2 DEF FdsValid
<1>6. ASSUME NEW u \in Worker, Opening(u)', u # t
      PROVE  /\ Opening(u) /\ task'[u].fd = task[u].fd
             /\ task'[u].fd # None /\ fds'[task'[u].fd] = OpenedAs(u)'
  <2>1. Opening(u) /\ task'[u].fd = task[u].fd /\ OpenedAs(u)' = OpenedAs(u)
    BY <1>6 DEF KeepsHold
  <2>2. QED
    BY <1>4, <2>1 DEF FdsApart
<1>7. ASSUME NEW u \in Worker, Opening(u)'
      PROVE  task'[u].fd # None /\ fds'[task'[u].fd] = OpenedAs(u)'
  BY <1>1, <1>6, <1>7
<1>8. ASSUME NEW u \in Worker, NEW w \in Worker, Opening(u)', Opening(w)' \/ InFlushAt(w)',
             task'[u].fd = task'[w].fd
      PROVE  u = w
  <2>1. CASE u # t /\ w # t
    BY <1>5, <1>6, <1>8, <2>1 DEF FdsApart
  <2>2. CASE u = t /\ w # t
    BY <1>4, <1>5, <1>6, <1>8, <2>2
  <2>3. CASE u # t /\ w = t
    BY <1>4, <1>6, <1>8, <2>3
  <2>4. QED
    BY <2>1, <2>2, <2>3
<1>9. ASSUME NEW u \in Worker, NEW id \in Id, Opening(u)', table'[id] # None
      PROVE  task'[u].fd # table'[id].read_fd /\ task'[u].fd # table'[id].write_fd
  <2>1. CASE u = t
    <3>1. table'[id].read_fd = table[id].read_fd /\ table'[id].write_fd = table[id].write_fd
      BY <1>2, <1>9 DEF SameFds
    <3>2. table[id].read_fd # new /\ table[id].write_fd # new
      BY <1>2, <1>9
    <3>3. QED
      BY <2>1, <3>1, <3>2
  <2>2. CASE u # t
    <3>1. Opening(u) /\ task'[u].fd = task[u].fd
      BY <1>6, <1>9, <2>2
    <3>2. /\ table[id] # None /\ table'[id].read_fd = table[id].read_fd
          /\ table'[id].write_fd = table[id].write_fd
      BY <1>2, <1>9 DEF SameFds
    <3>3. QED
      BY <3>1, <3>2 DEF FdsApart
  <2>3. QED
    BY <2>1, <2>2
<1>10. ASSUME NEW f \in task'[Reaper].todo
       PROVE  /\ fds'[f] # None
              /\ \A id \in Id : table'[id] # None => f # table'[id].read_fd /\ f # table'[id].write_fd
              /\ \A u \in Worker : Opening(u)' \/ InFlushAt(u)' => f # task'[u].fd
  <2>1. f \in task[Reaper].todo /\ f \in Fd
    <3>1. task[Reaper].todo \subseteq Fd
      <4>1. task[Reaper] \in Frame
        BY DEF Base, TypeOK, Task
      <4>2. QED
        BY <4>1 DEF Frame
    <3>2. QED
      BY <3>1
  <2>2. fds[f] # None /\ f # new
    BY <2>1 DEF FdsApart
  <2>3. \A id \in Id : table'[id] # None => f # table'[id].read_fd /\ f # table'[id].write_fd
    BY <1>2, <2>1 DEF SameFds, FdsApart
  <2>4. \A u \in Worker : Opening(u)' \/ InFlushAt(u)' => f # task'[u].fd
    BY <1>5, <1>6, <2>1, <2>2 DEF FdsApart
  <2>5. QED
    BY <1>1, <2>1, <2>2, <2>3, <2>4
<1>11. FdsValid'
  BY <1>3, <1>5 DEF FdsValid
<1>12. FdsApart'
  BY <1>7, <1>8, <1>9, <1>10 DEF FdsApart
<1>13. QED
  BY <1>11, <1>12

\* The fd t opened goes into the entry of the file it was opened for; flush_at may go
\* on with it at once.
LEMMA FdsStored ==
  ASSUME Base, FdsValid, FdsApart, NEW t \in Worker, Opening(t), ~Opening(t)', fds' = fds,
         NEW id \in Id, table[id] # None,
         \A i \in Id : i # id => table'[i] = table[i],
         \/ /\ OpenedAs(t) = <<id, "r">>
            /\ table'[id].read_fd = task[t].fd /\ table'[id].write_fd = table[id].write_fd
         \/ /\ OpenedAs(t) = <<id, "w">>
            /\ table'[id].write_fd = task[t].fd /\ table'[id].read_fd = table[id].read_fd,
         InFlushAt(t)' => /\ task'[t].fd = task[t].fd /\ FlushedFile(t)' = id
                          /\ OpenedAs(t) = <<id, "w">>,
         \A u \in Worker : u # t => KeepsHold(u),
         task'[Reaper].todo \subseteq task[Reaper].todo
  PROVE  FdsValid' /\ FdsApart'
<1> DEFINE new == task[t].fd
<1>1. new # None /\ fds[new] = OpenedAs(t)
  BY DEF FdsApart
<1>2. ASSUME NEW i \in Id, table'[i] # None
      PROVE  /\ table[i] # None
             /\ table'[i].read_fd = table[i].read_fd \/ (table'[i].read_fd = new /\ fds[new] = <<i, "r">>)
             /\ table'[i].write_fd = table[i].write_fd \/ (table'[i].write_fd = new /\ fds[new] = <<i, "w">>)
  BY <1>1, <1>2
<1>3. ASSUME NEW i \in Id, table'[i] # None
      PROVE  /\ table'[i].read_fd # None => fds'[table'[i].read_fd] = <<i, "r">>
             /\ table'[i].write_fd # None => fds'[table'[i].write_fd] = <<i, "w">>
  BY <1>2, <1>3 DEF FdsValid
<1>4. ASSUME NEW u \in Worker, InFlushAt(u)'
      PROVE  task'[u].fd # None /\ fds'[task'[u].fd] = <<FlushedFile(u)', "w">>
  <2>1. CASE u = t
    BY <1>1, <1>4, <2>1
  <2>2. CASE u # t
    BY <1>4, <2>2 DEF KeepsHold, FdsValid
  <2>3. QED
    BY <2>1, <2>2
<1>5. ASSUME NEW u \in Worker, Opening(u)'
      PROVE  /\ Opening(u) /\ u # t /\ task'[u].fd = task[u].fd /\ task[u].fd # new
             /\ task'[u].fd # None /\ fds'[task'[u].fd] = OpenedAs(u)'
  <2>1. u # t /\ Opening(u) /\ task'[u].fd = task[u].fd /\ OpenedAs(u)' = OpenedAs(u)
    BY <1>5 DEF KeepsHold
  <2>2. QED
    BY <2>1 DEF FdsApart
<1>6. ASSUME NEW u \in Worker, NEW w \in Worker, Opening(u)', Opening(w)' \/ InFlushAt(w)',
             task'[u].fd = task'[w].fd
      PROVE  u = w
  <2>1. CASE w = t
    BY <1>5, <1>6, <2>1
  <2>2. CASE w # t
    BY <1>5, <1>6, <2>2 DEF KeepsHold, FdsApart
  <2>3. QED
    BY <2>1, <2>2
<1>7. ASSUME NEW u \in Worker, NEW i \in Id, Opening(u)', table'[i] # None
      PROVE  task'[u].fd # table'[i].read_fd /\ task'[u].fd # table'[i].write_fd
  BY <1>2, <1>5, <1>7 DEF FdsApart
<1>8. ASSUME NEW f \in task'[Reaper].todo
      PROVE  /\ fds'[f] # None
             /\ \A i \in Id : table'[i] # None => f # table'[i].read_fd /\ f # table'[i].write_fd
             /\ \A u \in Worker : Opening(u)' \/ InFlushAt(u)' => f # task'[u].fd
  <2>1. f \in task[Reaper].todo /\ f # new
    BY DEF FdsApart
  <2>2. \A i \in Id : table'[i] # None => f # table'[i].read_fd /\ f # table'[i].write_fd
    BY <1>2, <2>1 DEF FdsApart
  <2>3. \A u \in Worker : Opening(u)' \/ InFlushAt(u)' => f # task'[u].fd
    BY <1>5, <2>1 DEF KeepsHold, FdsApart
  <2>4. QED
    BY <2>1, <2>2, <2>3 DEF FdsApart
<1>9. FdsValid'
  BY <1>3, <1>4 DEF FdsValid
<1>10. FdsApart'
  BY <1>5, <1>6, <1>7, <1>8 DEF FdsApart
<1>11. QED
  BY <1>9, <1>10

-----------------------------------------------------------------------------
(* Steps of a coroutine: the others, and its own frame *)

\* u goes on flushing what it flushed.
KeepsFlushing(u) == Flushing(u)' => Flushing(u) /\ FlushedFile(u)' = FlushedFile(u)

LEMMA KeptHolds ==
  ASSUME NEW u, Kept(u), task'[u].ok = task[u].ok \/ task[u].pc = "wait"
  PROVE  KeepsHold(u) /\ KeepsFlushing(u)
<1>1. FlushedFile(u)' = FlushedFile(u) /\ (InFlushAt(u)' <=> InFlushAt(u))
  BY DEF Kept, Steady, InFlushAt, InFunction, FlushedFile, Evicting
<1>2. Opening(u)' => Opening(u) /\ OpenedAs(u)' = OpenedAs(u)
  BY DEF Kept, Steady, Opening, OpenedAs
<1>3. QED
  BY <1>1, <1>2 DEF Kept, Steady, KeepsHold, KeepsFlushing, Flushing

LEMMA OthersHold ==
  ASSUME Base, OnlyWaiters, NEW t \in Worker, PageStep(t) \/ FlushStep(t), NEW u \in Worker, u # t
  PROVE  /\ KeepsHold(u) /\ KeepsFlushing(u)
         /\ task'[u].on # None => task'[u].pc = "wait"
<1>1. u \in Task /\ Kept(u)
  BY StepFrames, FdTyped DEF Others
<1>2. CASE ~ReadFilled(t)
  <2>1. task'[u] = task[u]
    BY <1>1, <1>2, StepOthers
  <2>2. QED
    BY <1>1, <2>1, KeptHolds DEF OnlyWaiters
<1>3. CASE ReadFilled(t)
  <2>1. task'[u].on = IF task[u].on = t THEN None ELSE task[u].on
    BY <1>1, <1>3, ReadFilledFrame
  <2>2. task'[u].ok = task[u].ok \/ task[u].on = t
    <3>1. PICK g, ok : task' = Wake([task EXCEPT ![t] = g], t, ok)
      BY <1>3 DEF ReadFilled
    <3>2. task'[u] = IF task[u].on = t THEN [task[u] EXCEPT !.on = None, !.ok = ok] ELSE task[u]
      BY <1>1, <3>1 DEF Wake, Base, TypeOK
    <3>3. QED
      BY <3>2
  <2>3. task[u].on = t => task[u].pc = "wait"
    BY CacheAssumption DEF OnlyWaiters, Task
  <2>4. task'[u].on # None => task'[u].pc = "wait"
    BY <1>1, <2>1 DEF OnlyWaiters, Kept
  <2>5. QED
    BY <1>1, <2>2, <2>3, <2>4, KeptHolds
<1>4. QED
  BY <1>2, <1>3

LEMMA OwnWait ==
  ASSUME Base, OnlyWaiters, NEW t \in Worker, PageStep(t) \/ FlushStep(t)
  PROVE  task'[t].on # None => task'[t].pc = "wait"
<1>1. task[t].on # None => task[t].pc = "wait"
  BY DEF OnlyWaiters
<1>2. CASE Enter(t) \/ Woken(t)
  BY <1>1, <1>2, EnterFrame, WokenFrame DEF Finished
<1>3. CASE ReadFind(t) \/ ReadOpened(t) \/ ReadFetch(t)
  BY <1>1, <1>3, ReadFindFrame, ReadOpenedFrame, ReadFetchFrame DEF Finished, Requested
<1>4. CASE ReadFilled(t) \/ WriteFind(t) \/ CopyPage(t)
  BY <1>1, <1>4, ReadFilledFrame, WriteFindFrame, CopyPageFrame DEF Finished
<1>5. CASE EvictPop(t) \/ EvictDone(t) \/ EvictOpened(t) \/ EvictErase(t)
  BY <1>1, <1>5, EvictPopFrame, EvictDoneFrame, EvictOpenedFrame, EvictEraseFrame
<1>6. CASE FlushWrite(t) \/ FlushAck(t)
  BY <1>1, <1>6, FlushWriteFrame, FlushAckFrame
<1>7. CASE Flush(t) \/ FlushOpened(t) \/ FlushNext(t)
  BY <1>1, <1>7, FlushFrame, FlushOpenedFrame, FlushNextFrame DEF Finished, Requested
<1>8. QED
  BY <1>2, <1>3, <1>4, <1>5, <1>6, <1>7 DEF PageStep, FlushStep

\* A step that keeps the entries, their marks and their write fds keeps the locks of
\* everybody but the coroutine that takes it.
LEMMA OthersLocked ==
  ASSUME Base, Locked, OnlyWaiters, NEW t \in Worker, PageStep(t) \/ FlushStep(t),
         \A id \in Id : table[id] # None /\ table[id].write_fd # None => table'[id].write_fd # None,
         Flushing(t)' => /\ table'[FlushedFile(t)'] # None
                         /\ t \in table'[FlushedFile(t)'].write_inflight
                         /\ table'[FlushedFile(t)'].write_fd # None
  PROVE  Locked' /\ OnlyWaiters'
<1>1. KeepsEntries(t)
  BY StepEntries
<1>2. ASSUME NEW u \in Worker, u # t, Flushing(u)'
      PROVE  /\ table'[FlushedFile(u)'] # None
             /\ u \in table'[FlushedFile(u)'].write_inflight
             /\ table'[FlushedFile(u)'].write_fd # None
  <2>1. Flushing(u) /\ FlushedFile(u)' = FlushedFile(u)
    BY <1>2, OthersHold DEF KeepsFlushing
  <2>2. FlushedFile(u) \in Id
    BY <2>1, FlushedId
  <2>3. /\ table[FlushedFile(u)] # None /\ u \in table[FlushedFile(u)].write_inflight
        /\ table[FlushedFile(u)].write_fd # None
    BY <2>1 DEF Locked
  <2>4. QED
    BY <1>1, <1>2, <2>1, <2>2, <2>3 DEF KeepsEntries, Alike
<1>3. Locked'
  BY <1>2 DEF Locked
<1>4. OnlyWaiters'
  BY OthersHold, OwnWait DEF OnlyWaiters
<1>5. QED
  BY <1>3, <1>4

-----------------------------------------------------------------------------
(* Descriptors under a step of a coroutine *)

\* What t flushes after the step is locked.
OwnLock(t) ==
  Flushing(t) => /\ table[FlushedFile(t)] # None
                 /\ t \in table[FlushedFile(t)].write_inflight
                 /\ table[FlushedFile(t)].write_fd # None

LEMMA SameTodo ==
  ASSUME Base, NEW t \in Worker, PageStep(t) \/ FlushStep(t)
  PROVE  task'[Reaper].todo = task[Reaper].todo
<1>1. Reaper \in Task /\ Reaper # t
  BY CacheAssumption DEF Task
<1>2. QED
  BY <1>1, StepFrames DEF Others, Kept, Steady

LEMMA SameTableFds ==
  ASSUME NEW t, KeepsEntries(t), KeepsFds
  PROVE  /\ TableKeepsFds /\ \A id \in Id : table'[id] # None => table[id] # None
         /\ \A id \in Id : table[id] # None /\ table[id].write_fd # None => table'[id].write_fd # None
BY DEF KeepsEntries, KeepsFds, SameFds, TableKeepsFds

\* The step opens nothing and stores nothing.
LEMMA PlainStep ==
  ASSUME Base, Descriptors, NEW t \in Worker, PageStep(t) \/ FlushStep(t),
         fds' = fds, KeepsFds, KeepsHold(t) \/ Captures(t), OwnLock(t)'
  PROVE  Descriptors'
<1>1. KeepsEntries(t)
  BY StepEntries
<1>2. TableKeepsFds
  BY <1>1, SameTableFds
<1>3. \A u \in Worker : KeepsHold(u) \/ Captures(u)
  BY OthersHold DEF Descriptors
<1>4. FdsValid' /\ FdsApart'
  BY <1>2, <1>3, SameTodo, FdsKept DEF Descriptors
<1>5. \A id \in Id : table[id] # None /\ table[id].write_fd # None => table'[id].write_fd # None
  BY <1>1, SameTableFds
<1>6. Locked' /\ OnlyWaiters'
  BY <1>5, OthersLocked DEF OwnLock, Descriptors
<1>7. QED
  BY <1>4, <1>6 DEF Descriptors

\* The step sends an open to the device.
LEMMA RequestStep ==
  ASSUME Base, Descriptors, NEW t \in Worker, PageStep(t) \/ FlushStep(t), NEW id, NEW kind,
         Opened(t, id, kind), OpenedAs(t)' = <<id, kind>>,
         task'[t].pc \in {"read_open", "flush_open", "evict_open"}, KeepsFds
  PROVE  Descriptors'
<1>1. KeepsEntries(t)
  BY StepEntries
<1>2. /\ TableKeepsFds /\ \A i \in Id : table'[i] # None => table[i] # None
      /\ \A i \in Id : table[i] # None /\ table[i].write_fd # None => table'[i].write_fd # None
  BY <1>1, SameTableFds
<1>3. ~InFlushAt(t)' /\ ~Flushing(t)'
  BY DEF InFlushAt, Flushing
<1>4. CASE task'[t].ok
  <2>1. Opening(t)'
    BY <1>4 DEF Opening
  <2>2. \A u \in Worker : u # t => KeepsHold(u)
    BY OthersHold DEF Descriptors
  <2>3. /\ task'[t].fd \in Fd /\ fds[task'[t].fd] = None
        /\ fds' = [fds EXCEPT ![task'[t].fd] = <<id, kind>>]
    BY <1>4 DEF Opened
  <2>4. FdsValid' /\ FdsApart'
    BY <1>2, <1>3, <2>1, <2>2, <2>3, SameTodo, FdsOpened DEF Descriptors
  <2>5. Locked' /\ OnlyWaiters'
    BY <1>2, <1>3, OthersLocked DEF Descriptors
  <2>6. QED
    BY <2>4, <2>5 DEF Descriptors
<1>5. CASE ~task'[t].ok
  <2>1. KeepsHold(t)
    BY <1>3, <1>5 DEF KeepsHold, Opening
  <2>2. fds' = fds
    BY <1>5 DEF Opened
  <2>3. QED
    BY <1>3, <2>1, <2>2, PlainStep DEF OwnLock
<1>6. QED
  BY <1>4, <1>5

\* A frame outside flush_at, not waiting for an open, holds nothing.
LEMMA HoldsNothing ==
  ASSUME NEW t, task'[t].pc \in {"fetch", "fill", "copy", "evict", "evict_erase", "flush_next", "done"}
  PROVE  KeepsHold(t) /\ (task'[t].pc # "flush_next" => OwnLock(t)')
BY DEF KeepsHold, Opening, InFlushAt, Flushing, OwnLock

\* Within flush_at the file and the fd stay.
LEMMA InsideFlushAt ==
  ASSUME Base, Descriptors, NEW t \in Worker, PageStep(t) \/ FlushStep(t), KeepsFds, KeepsLocks(t), Steady(t),
         task[t].pc \in {"enter", "wait", "body"}, task'[t].pc \in {"wait", "body", "flush_ack"},
         fds' = fds
  PROVE  Descriptors'
<1>1. KeepsHold(t)
  BY DEF KeepsHold, Steady, Opening, InFlushAt, InFunction, FlushedFile, Evicting
<1>2. ASSUME Flushing(t)'
      PROVE  /\ table'[FlushedFile(t)'] # None
             /\ t \in table'[FlushedFile(t)'].write_inflight
             /\ table'[FlushedFile(t)'].write_fd # None
  <2>1. Flushing(t) /\ FlushedFile(t)' = FlushedFile(t)
    BY <1>1, <1>2 DEF KeepsHold, Flushing
  <2>2. FlushedFile(t) \in Id
    BY <2>1, FlushedId
  <2>3. /\ table[FlushedFile(t)] # None /\ t \in table[FlushedFile(t)].write_inflight
        /\ table[FlushedFile(t)].write_fd # None
    BY <2>1 DEF Descriptors, Locked
  <2>4. KeepsEntries(t)
    BY StepEntries
  <2>5. QED
    BY <2>1, <2>2, <2>3, <2>4 DEF KeepsEntries, KeepsFds, SameFds, KeepsLocks, Holds
<1>3. QED
  BY <1>1, <1>2, PlainStep DEF OwnLock

\* flush_at returns to evict or to flush, whose lock is still there.
LEMMA FlushAtReturns ==
  ASSUME Base, Descriptors, NEW t \in Worker, PageStep(t) \/ FlushStep(t), KeepsFds, KeepsLocks(t), Steady(t),
         InFlushAt(t), task'[t].pc = AfterFlushAt(t), fds' = fds
  PROVE  Descriptors'
<1>1. task'[t].pc \in {"evict_erase", "flush_next"} /\ KeepsHold(t)
  BY HoldsNothing DEF AfterFlushAt
<1>2. ASSUME task'[t].pc = "flush_next"
      PROVE  /\ table'[FlushedFile(t)'] # None
             /\ t \in table'[FlushedFile(t)'].write_inflight
             /\ table'[FlushedFile(t)'].write_fd # None
  <2>1. FlushedFile(t)' = FlushedFile(t)
    BY DEF Steady, FlushedFile, Evicting
  <2>2. FlushedFile(t) \in Id
    BY FlushedId DEF Flushing
  <2>3. /\ table[FlushedFile(t)] # None /\ t \in table[FlushedFile(t)].write_inflight
        /\ table[FlushedFile(t)].write_fd # None
    BY DEF Descriptors, Locked, Flushing
  <2>4. KeepsEntries(t)
    BY StepEntries
  <2>5. QED
    BY <2>1, <2>2, <2>3, <2>4 DEF KeepsEntries, KeepsFds, SameFds, KeepsLocks, Holds
<1>3. OwnLock(t)'
  BY <1>1, <1>2, HoldsNothing DEF OwnLock
<1>4. QED
  BY <1>1, <1>3, PlainStep

\* The answer to an open: the fd is stored.
LEMMA StoreStep ==
  ASSUME Base, Descriptors, NEW t \in Worker, PageStep(t) \/ FlushStep(t),
         Opening(t), ~Opening(t)', fds' = fds, NEW id \in Id, table[id] # None,
         \A i \in Id : i # id => table'[i] = table[i],
         \/ /\ OpenedAs(t) = <<id, "r">>
            /\ table'[id].read_fd = task[t].fd /\ table'[id].write_fd = table[id].write_fd
         \/ /\ OpenedAs(t) = <<id, "w">>
            /\ table'[id].write_fd = task[t].fd /\ table'[id].read_fd = table[id].read_fd,
         InFlushAt(t)' => /\ task'[t].fd = task[t].fd /\ FlushedFile(t)' = id
                          /\ OpenedAs(t) = <<id, "w">>,
         OwnLock(t)'
  PROVE  Descriptors'
<1>1. \A u \in Worker : u # t => KeepsHold(u)
  BY OthersHold DEF Descriptors
<1>2. FdsValid' /\ FdsApart'
  BY <1>1, SameTodo, FdsStored DEF Descriptors
<1>3. task[t].fd # None
  BY DEF Descriptors, FdsApart
<1>4. \A i \in Id : table[i] # None /\ table[i].write_fd # None => table'[i].write_fd # None
  BY <1>3
<1>5. Locked' /\ OnlyWaiters'
  BY <1>4, OthersLocked DEF OwnLock, Descriptors
<1>6. QED
  BY <1>2, <1>5 DEF Descriptors

LEMMA ReadDescriptors ==
  ASSUME Base, Descriptors, NEW t \in Worker, PageStep(t)
  PROVE  Descriptors'
<1>1. ~ReadOpened(t) => KeepsFds /\ KeepsLocks(t)
  BY PageTables
<1>2. CASE Enter(t)
  <2>1. ~ReadOpened(t) /\ fds' = fds
    BY <1>2 DEF Enter, MayRun, ReadOpened, Answered
  <2>2. QED
    BY <1>1, <1>2, <2>1, EnterFrame, InsideFlushAt
<1>3. CASE Woken(t)
  <2>1. ~ReadOpened(t) /\ fds' = fds
    BY <1>3 DEF Woken, MayRun, ReadOpened, Answered
  <2>2. CASE task'[t].pc = "body" /\ Steady(t)
    BY <1>1, <1>3, <2>1, <2>2, WokenFrame, InsideFlushAt
  <2>3. CASE task'[t].pc = AfterFlushAt(t) /\ Steady(t) /\ InFunction(t) = "flush"
    <3>1. InFlushAt(t)
      BY <1>3, <2>3, WokenFrame DEF InFlushAt
    <3>2. QED
      BY <1>1, <2>1, <2>3, <3>1, FlushAtReturns
  <2>4. CASE Finished(t)
    BY <1>1, <2>1, <2>4, HoldsNothing, PlainStep DEF Finished
  <2>5. QED
    BY <1>3, <2>2, <2>3, <2>4, WokenFrame
<1>4. CASE ReadFind(t)
  <2>1. ~ReadOpened(t)
    BY <1>4, ReadFindFrame DEF ReadOpened, Answered
  <2>2. CASE task'[t].pc \in {"copy", "fetch"} /\ fds' = fds
    BY <1>1, <2>1, <2>2, HoldsNothing, PlainStep
  <2>3. CASE Requested(t, "read_open") /\ Opened(t, task[t].id, "r")
    <3>1. task'[t].pc = "read_open" /\ OpenedAs(t)' = <<task[t].id, "r">>
      BY <2>3 DEF Requested, OpenedAs
    <3>2. QED
      BY <1>1, <2>1, <2>3, <3>1, RequestStep
  <2>4. QED
    BY <1>4, <2>2, <2>3, ReadFindFrame
<1>5. CASE ReadOpened(t)
  <2>1. task[t].pc = "read_open" /\ fds' = fds /\ KeepsEntries(t)
    BY <1>5, ReadOpenedFrame, ReadOpenedTable
  <2>2. CASE ~task[t].ok
    <3>1. KeepsFds /\ Finished(t)
      BY <1>5, <2>2, ReadOpenedFrame, ReadOpenedTable
    <3>2. QED
      BY <2>1, <3>1, HoldsNothing, PlainStep DEF Finished
  <2>3. CASE task[t].ok
    <3>1. task'[t].pc = "fetch"
      BY <1>5, <2>3, ReadOpenedFrame
    <3>2. Opening(t) /\ OpenedAs(t) = <<task[t].id, "r">> /\ ~Opening(t)' /\ ~InFlushAt(t)'
      BY <2>1, <2>3, <3>1 DEF Opening, OpenedAs, InFlushAt
    <3>3. task[t].id \in Id /\ table[task[t].id] # None
      BY <2>1, InUse, CacheAssumption
    <3>4. /\ table'[task[t].id].read_fd = task[t].fd
          /\ table'[task[t].id].write_fd = table[task[t].id].write_fd
          /\ \A i \in Id : i # task[t].id => table'[i] = table[i]
      BY <1>5, <2>3, ReadOpenedTable
    <3>5. OwnLock(t)'
      BY <3>1, HoldsNothing
    <3>6. QED
      BY <2>1, <3>2, <3>3, <3>4, <3>5, StoreStep
  <2>4. QED
    BY <2>2, <2>3
<1>6. CASE ReadFetch(t) \/ ReadFilled(t) \/ WriteFind(t) \/ CopyPage(t)
  <2>1. fds' = fds /\ ~ReadOpened(t)
    BY <1>6 DEF ReadFetch, ReadFilled, WriteFind, CopyPage, MayRun, ReadOpened, Answered
  <2>2. task'[t].pc \in {"fill", "copy", "evict", "done"}
    BY <1>6, ReadFetchFrame, ReadFilledFrame, WriteFindFrame, CopyPageFrame DEF Finished, AfterInsert
  <2>3. QED
    BY <1>1, <2>1, <2>2, HoldsNothing, PlainStep
<1>7. QED
  BY <1>2, <1>3, <1>4, <1>5, <1>6 DEF PageStep

LEMMA EvictDescriptors ==
  ASSUME Base, Descriptors, NEW t \in Worker,
         EvictPop(t) \/ EvictDone(t) \/ EvictOpened(t) \/ EvictErase(t)
  PROVE  Descriptors'
<1>1. FlushStep(t)
  BY DEF FlushStep
<1>2. CASE EvictPop(t)
  <2> DEFINE id == Last.key[1]
  <2>1. KeepsFds /\ KeepsEntries(t) /\ id \in Id
    BY <1>2, EvictPopTable, LastPage
  <2>2. CASE table[id] = None \/ ~Last.dirty
    <3>1. fds' = fds /\ task'[t].pc = "evict"
      BY <1>2, <2>2, EvictPopFrame DEF EvictPop, Last
    <3>2. QED
      BY <1>1, <2>1, <3>1, HoldsNothing, PlainStep
  <2>3. CASE table[id] # None /\ Last.dirty
    <3>1. task'[t].victim = Last /\ t \in table'[id].write_inflight /\ table'[id] # None
      BY <1>2, <2>1, <2>3, EvictPopFrame, EvictPopTable DEF KeepsEntries
    <3>2. Last # None
      BY <1>2, LastPage, CacheAssumption
    <3>3. FlushedFile(t)' = id
      BY <3>1, <3>2 DEF FlushedFile, Evicting
    <3>4. CASE table[id].write_fd # None
      <4>1. fds' = fds
        BY <1>2, <2>3, <3>4 DEF EvictPop, Last
      <4>2. task'[t].pc = "enter" /\ task'[t].fd = table[id].write_fd
        BY <1>2, <2>3, <3>4, EvictPopFrame
      <4>3. Captures(t)
        BY <2>1, <2>3, <3>3, <3>4, <4>2 DEF Captures, Opening
      <4>4. OwnLock(t)'
        BY <2>1, <2>3, <3>1, <3>3, <3>4 DEF OwnLock, KeepsFds, SameFds
      <4>5. QED
        BY <1>1, <2>1, <4>1, <4>3, <4>4, PlainStep
    <3>5. CASE table[id].write_fd = None
      <4>1. task'[t].pc = "evict_open" /\ Opened(t, id, "w")
        BY <1>2, <2>3, <3>5, EvictPopFrame
      <4>2. OpenedAs(t)' = <<id, "w">>
        BY <3>1, <4>1 DEF OpenedAs
      <4>3. QED
        BY <1>1, <2>1, <4>1, <4>2, RequestStep
    <3>6. QED
      BY <3>4, <3>5
  <2>4. QED
    BY <2>2, <2>3
<1>3. CASE EvictDone(t)
  <2>1. fds' = fds /\ table' = table /\ task'[t].pc = "copy"
    BY <1>3, EvictDoneFrame DEF EvictDone
  <2>2. QED
    BY <1>1, <2>1, SameTable, HoldsNothing, PlainStep
<1>4. CASE EvictErase(t)
  <2>1. fds' = fds /\ KeepsFds /\ task'[t].pc = "evict"
    BY <1>4, EvictEraseTable, EvictEraseFrame DEF Dropped
  <2>2. QED
    BY <1>1, <2>1, HoldsNothing, PlainStep
<1>5. CASE EvictOpened(t)
  <2> DEFINE id == task[t].victim.key[1]
  <2>1. task[t].pc = "evict_open" /\ fds' = fds /\ KeepsEntries(t)
    BY <1>5, EvictOpenedFrame, EvictOpenedTable
  <2>2. CASE ~task[t].ok
    <3>1. KeepsFds /\ task'[t].pc = "evict"
      BY <1>5, <2>2, EvictOpenedFrame, EvictOpenedTable DEF Dropped
    <3>2. QED
      BY <1>1, <2>1, <3>1, HoldsNothing, PlainStep
  <2>3. CASE task[t].ok
    <3>1. task'[t].pc = "enter" /\ Steady(t)
      BY <1>5, <2>3, EvictOpenedFrame
    <3>2. task[t].victim # None
      BY <2>1, FdTyped DEF Base, Frames, FrameOf, WellFormed
    <3>3. id \in Id /\ table[id] # None /\ t \in table[id].write_inflight
      BY <3>2, VictimInUse DEF Base, Victims
    <3>4. /\ KeepsLocks(t) /\ table'[id].write_fd = task[t].fd
          /\ table'[id].read_fd = table[id].read_fd
          /\ \A i \in Id : i # id => table'[i] = table[i]
      BY <1>5, <2>3, EvictOpenedTable
    <3>5. Opening(t) /\ OpenedAs(t) = <<id, "w">> /\ ~Opening(t)'
      BY <2>1, <2>3, <3>1 DEF Opening, OpenedAs
    <3>6. FlushedFile(t)' = id /\ task'[t].fd = task[t].fd
      BY <3>1, <3>2 DEF FlushedFile, Evicting, Steady
    <3>7. OwnLock(t)'
      <4>1. task[t].fd # None
        BY <3>5 DEF Descriptors, FdsApart
      <4>2. table'[id] # None /\ t \in table'[id].write_inflight
        BY <2>1, <3>3, <3>4 DEF KeepsEntries, KeepsLocks, Holds
      <4>3. QED
        BY <3>4, <3>6, <4>1, <4>2 DEF OwnLock
    <3>8. QED
      BY <1>1, <2>1, <3>3, <3>4, <3>5, <3>6, <3>7, StoreStep
  <2>4. QED
    BY <2>2, <2>3
<1>6. QED
  BY <1>2, <1>3, <1>4, <1>5

LEMMA FlushDescriptors ==
  ASSUME Base, Descriptors, NEW t \in Worker,
         FlushWrite(t) \/ FlushAck(t) \/ Flush(t) \/ FlushOpened(t) \/ FlushNext(t)
  PROVE  Descriptors'
<1>1. FlushStep(t)
  BY DEF FlushStep
<1>2. KeepsEntries(t)
  BY <1>1, StepEntries
\* Cache::flush works on a page of the list, never on a victim.
<1>3. ASSUME task[t].pc \in {"flush", "flush_open", "flush_next"}
      PROVE  /\ task[t].victim = None /\ task[t].op = "flush"
             /\ task[t].id \in Id /\ table[task[t].id] # None
  <2>1. task[t].victim = None
    BY <1>3 DEF Base, Victims
  <2>2. task[t].op = "flush"
    BY <1>3, FdTyped DEF Base, Frames, FrameOf, WellFormed
  <2>3. QED
    BY <1>3, <2>1, <2>2, InUse, CacheAssumption
<1>4. CASE FlushWrite(t)
  <2>1. fds' = fds /\ table' = table
    BY <1>4 DEF FlushWrite
  <2>2. QED
    BY <1>1, <1>4, <2>1, SameTable, FlushWriteFrame, InsideFlushAt
<1>5. CASE FlushAck(t)
  <2>1. fds' = fds /\ table' = table
    BY <1>5 DEF FlushAck
  <2>2. task[t].pc = "flush_ack" /\ task'[t].pc = AfterFlushAt(t) /\ Steady(t)
    BY <1>5, FlushAckFrame
  <2>3. task[t].op = "flush" \/ task[t].victim # None
    BY <2>2, FdTyped DEF Base, Frames, FrameOf, WellFormed
  <2>4. InFlushAt(t)
    BY <2>2, <2>3 DEF InFlushAt, InFunction
  <2>5. QED
    BY <1>1, <2>1, <2>2, <2>4, SameTable, FlushAtReturns
<1>6. CASE Flush(t)
  <2>1. task[t].pc = "flush"
    BY <1>6, FlushFrame
  <2>2. CASE Finished(t) /\ UNCHANGED <<table, fds>>
    BY <1>1, <2>2, SameTable, HoldsNothing, PlainStep DEF Finished
  <2>3. CASE /\ task'[t].pc = "flush_next" /\ Steady(t) /\ fds' = fds
             /\ table[task[t].id].write_fd # None
             /\ table' = LockWrite(t, table[task[t].id].write_fd)
    <3>1. /\ table'[task[t].id].write_fd = table[task[t].id].write_fd
          /\ t \in table'[task[t].id].write_inflight
          /\ table'[task[t].id].read_fd = table[task[t].id].read_fd
          /\ \A i \in Id : i # task[t].id => table'[i] = table[i]
      BY <1>3, <2>1, <2>3, TableTyped, LockWriteTable
    <3>2. KeepsFds
      BY <3>1 DEF KeepsFds, SameFds
    <3>3. FlushedFile(t)' = task[t].id
      BY <1>3, <2>1, <2>3 DEF FlushedFile, Evicting, Steady
    <3>4. OwnLock(t)'
      BY <1>2, <1>3, <2>1, <2>3, <3>1, <3>3 DEF OwnLock, KeepsEntries
    <3>5. QED
      BY <1>1, <2>3, <3>2, <3>4, HoldsNothing, PlainStep
  <2>4. CASE Requested(t, "flush_open") /\ Opened(t, task[t].id, "w") /\ table' = table
    <3>1. task'[t].pc = "flush_open" /\ OpenedAs(t)' = <<task[t].id, "w">>
      BY <2>4 DEF Requested, OpenedAs
    <3>2. QED
      BY <1>1, <2>4, <3>1, SameTable, RequestStep
  <2>5. QED
    BY <1>6, <2>2, <2>3, <2>4, FlushFrame
<1>7. CASE FlushOpened(t)
  <2>1. task[t].pc = "flush_open" /\ fds' = fds
    BY <1>7, FlushOpenedFrame DEF FlushOpened
  <2>2. CASE ~task[t].ok
    <3>1. Finished(t) /\ table' = table
      BY <1>7, <2>2, FlushOpenedFrame
    <3>2. QED
      BY <1>1, <2>1, <3>1, SameTable, HoldsNothing, PlainStep DEF Finished
  <2>3. CASE task[t].ok
    <3>1. task'[t].pc = "flush_next" /\ Steady(t) /\ table' = LockWrite(t, task[t].fd)
      BY <1>7, <2>3, FlushOpenedFrame
    <3>2. Opening(t) /\ OpenedAs(t) = <<task[t].id, "w">> /\ ~Opening(t)' /\ ~InFlushAt(t)'
      BY <2>1, <2>3, <3>1 DEF Opening, OpenedAs, InFlushAt
    <3>3. task[t].fd # None /\ task[t].fd \in Fd \cup {None}
      BY <3>2, FdTyped DEF Descriptors, FdsApart
    <3>4. /\ table'[task[t].id].write_fd = task[t].fd
          /\ t \in table'[task[t].id].write_inflight
          /\ table'[task[t].id].read_fd = table[task[t].id].read_fd
          /\ \A i \in Id : i # task[t].id => table'[i] = table[i]
      BY <2>1, <3>1, <3>3, LockWriteTable
    <3>5. FlushedFile(t)' = task[t].id
      BY <1>3, <2>1, <3>1 DEF FlushedFile, Evicting, Steady
    <3>6. OwnLock(t)'
      BY <1>2, <1>3, <2>1, <3>3, <3>4, <3>5 DEF OwnLock, KeepsEntries
    <3>7. QED
      BY <1>1, <1>3, <2>1, <3>2, <3>4, <3>6, StoreStep
  <2>4. QED
    BY <2>2, <2>3
<1>8. CASE FlushNext(t)
  <2>1. task[t].pc = "flush_next" /\ fds' = fds /\ KeepsFds
    BY <1>8, FlushNextFrame, FlushNextTable
  <2>2. CASE Finished(t)
    BY <1>1, <2>1, <2>2, HoldsNothing, PlainStep DEF Finished
  <2>3. CASE /\ task'[t].pc = "enter" /\ task'[t].fd = table[task[t].id].write_fd /\ table' = table
             /\ task'[t].id = task[t].id /\ task'[t].victim = task[t].victim
    <3>1. FlushedFile(t) = task[t].id /\ FlushedFile(t)' = task[t].id
      BY <1>3, <2>1, <2>3 DEF FlushedFile, Evicting
    <3>2. /\ table[task[t].id] # None /\ t \in table[task[t].id].write_inflight
          /\ table[task[t].id].write_fd # None
      BY <2>1, <3>1 DEF Descriptors, Locked, Flushing
    <3>3. Captures(t)
      BY <1>3, <2>1, <2>3, <3>1, <3>2 DEF Captures, Opening
    <3>4. OwnLock(t)'
      BY <2>3, <3>1, <3>2 DEF OwnLock
    <3>5. QED
      BY <1>1, <2>1, <3>3, <3>4, PlainStep
  <2>4. QED
    BY <1>8, <2>2, <2>3, FlushNextFrame
<1>9. QED
  BY <1>4, <1>5, <1>6, <1>7, <1>8

-----------------------------------------------------------------------------
(* Descriptors under a step of a client or of the reaper *)

\* Nobody's frame holds more than before, entries keep fds and marks.
LEMMA LocksKept ==
  ASSUME Base, Locked, \A u \in Worker : KeepsFlushing(u),
         \A u \in Worker : Flushing(u) =>
           LET id == FlushedFile(u) IN
           /\ table'[id] # None /\ table'[id].write_inflight = table[id].write_inflight
           /\ table'[id].write_fd = table[id].write_fd
  PROVE  Locked'
<1>1. ASSUME NEW u \in Worker, Flushing(u)'
      PROVE  /\ table'[FlushedFile(u)'] # None
             /\ u \in table'[FlushedFile(u)'].write_inflight
             /\ table'[FlushedFile(u)'].write_fd # None
  <2>1. Flushing(u) /\ FlushedFile(u)' = FlushedFile(u)
    BY <1>1 DEF KeepsFlushing
  <2>2. QED
    BY <2>1 DEF Locked
<1>2. QED
  BY <1>1 DEF Locked

LEMMA ClientDescriptors ==
  ASSUME Base, Descriptors, NEW c \in Client, ClientStep(c)
  PROVE  Descriptors'
<1>1. ClientLeaves
  BY ClientSteps
<1>2. ASSUME NEW u \in Worker
      PROVE  /\ KeepsHold(u) /\ KeepsFlushing(u)
             /\ task'[u].on # None => task'[u].pc = "wait"
  <2>1. CASE task'[u] = task[u]
    <3>1. Kept(u)
      BY <2>1 DEF Kept, Steady
    <3>2. QED
      BY <2>1, <3>1, KeptHolds DEF Descriptors, OnlyWaiters
  <2>2. CASE Reset(u)
    <3>1. ~Opening(u)'
      BY <2>2 DEF Reset, Opening
    <3>2. ~InFlushAt(u)' /\ task'[u].pc # "flush_next"
      BY <2>2 DEF Reset, InFlushAt, InFunction
    <3>3. QED
      BY <2>2, <3>1, <3>2 DEF KeepsHold, KeepsFlushing, Flushing, Reset
  <2>3. QED
    BY <1>1, <2>1, <2>2, FdTyped DEF ClientLeaves
<1>3. TableKeepsFds
  BY <1>1 DEF TableKeepsFds, ClientLeaves, SameUse
<1>4. task'[Reaper] = task[Reaper]
  BY <1>1, CacheAssumption DEF ClientLeaves, Task
<1>5. FdsValid' /\ FdsApart'
  BY <1>1, <1>2, <1>3, <1>4, FdsKept DEF Descriptors, ClientLeaves
<1>6. Locked'
  <2>1. ASSUME NEW u \in Worker, Flushing(u)
        PROVE  LET id == FlushedFile(u) IN
               /\ table'[id] # None /\ table'[id].write_inflight = table[id].write_inflight
               /\ table'[id].write_fd = table[id].write_fd
    <3>1. FlushedFile(u) \in Id /\ table[FlushedFile(u)] # None
      BY <2>1, FlushedId DEF Descriptors, Locked
    <3>2. QED
      BY <1>1, <3>1 DEF ClientLeaves, SameUse, SameFds
  <2>2. QED
    BY <1>2, <2>1, LocksKept DEF Descriptors
<1>7. OnlyWaiters'
  BY <1>2 DEF OnlyWaiters
<1>8. QED
  BY <1>5, <1>6, <1>7 DEF Descriptors

\* The workers' frames are as they were.
LEMMA ReaperLeaves ==
  ASSUME Base, Descriptors, ReaperStep
  PROVE  /\ OnlyWaiters'
         /\ \A u \in Worker : /\ KeepsHold(u) /\ KeepsFlushing(u) /\ task'[u] = task[u]
                              /\ Opening(u)' = Opening(u) /\ InFlushAt(u)' = InFlushAt(u)
                              /\ OpenedAs(u)' = OpenedAs(u) /\ FlushedFile(u)' = FlushedFile(u)
<1>1. \A u \in Worker : task'[u] = task[u]
  BY ReaperAlone
<1>2. ASSUME NEW u \in Worker
      PROVE  /\ Opening(u)' = Opening(u) /\ InFlushAt(u)' = InFlushAt(u)
             /\ OpenedAs(u)' = OpenedAs(u) /\ FlushedFile(u)' = FlushedFile(u)
             /\ Flushing(u)' = Flushing(u)
  BY <1>1 DEF Opening, InFlushAt, InFunction, OpenedAs, FlushedFile, Evicting, Flushing
<1>3. OnlyWaiters'
  BY <1>1 DEF OnlyWaiters, Descriptors
<1>4. QED
  BY <1>1, <1>2, <1>3 DEF KeepsHold, KeepsFlushing

LEMMA ReapCollectDescriptors ==
  ASSUME Base, Descriptors, ReapCollect
  PROVE  Descriptors'
<1>1. ReaperStep /\ fds' = fds
  BY DEF ReaperStep, ReapCollect
<1> DEFINE Taken == {y \in Id \X Kind : Reapable(y[1], y[2])}
<1>2. task'[Reaper].todo = {FdOf(table[x[1]], x[2]) : x \in Taken}
  <2>1. Reaper \in Task /\ task \in [Task -> Frame]
    BY DEF Base, TypeOK, Task
  <2>2. task'[Reaper] = [Idle EXCEPT !.pc = "reap", !.todo = {FdOf(table[x[1]], x[2]) : x \in Taken}]
    BY <2>1 DEF ReapCollect
  <2> HIDE DEF Taken
  <2>3. QED
    BY <2>2 DEF Idle
\* What the table has afterwards it had before, and was not taken.
<1>3. ASSUME NEW id \in Id, table'[id] # None
      PROVE  /\ table[id] # None
             /\ table'[id].read_fd # None => table'[id].read_fd = table[id].read_fd /\ ~Reapable(id, "r")
             /\ table'[id].write_fd # None => table'[id].write_fd = table[id].write_fd /\ ~Reapable(id, "w")
  BY <1>3, CollectTable
<1>4. FdsValid'
  <2>1. \A id \in Id : table'[id] # None =>
          /\ table'[id].read_fd # None => fds'[table'[id].read_fd] = <<id, "r">>
          /\ table'[id].write_fd # None => fds'[table'[id].write_fd] = <<id, "w">>
    BY <1>1, <1>3 DEF Descriptors, FdsValid
  <2>2. \A t \in Worker : InFlushAt(t)' =>
          task'[t].fd # None /\ fds'[task'[t].fd] = <<FlushedFile(t)', "w">>
    BY <1>1, ReaperLeaves DEF Descriptors, FdsValid
  <2>3. QED
    BY <2>1, <2>2 DEF FdsValid
<1>5. ASSUME NEW f \in task'[Reaper].todo
      PROVE  /\ fds'[f] # None
             /\ \A id \in Id : table'[id] # None => f # table'[id].read_fd /\ f # table'[id].write_fd
             /\ \A t \in Worker : Opening(t)' \/ InFlushAt(t)' => f # task'[t].fd
  <2>1. PICK x \in Taken : f = FdOf(table[x[1]], x[2])
    BY <1>2, <1>5
  <2> DEFINE i == x[1]
             k == x[2]
  <2>2. i \in Id /\ k \in Kind /\ Reapable(i, k) /\ x = <<i, k>>
    BY <2>1
  <2>3. table[i] # None /\ InflightOf(table[i], k) = {} /\ f # None /\ f = FdOf(table[i], k)
    BY <2>1, <2>2 DEF Reapable
  <2>4. fds[f] = <<i, k>>
    BY <2>2, <2>3 DEF FdOf, Kind, Descriptors, FdsValid
  <2>5. <<i, k>> # None
    BY <2>2, CacheAssumption
  <2>6. ASSUME NEW id \in Id, table'[id] # None
        PROVE  f # table'[id].read_fd /\ f # table'[id].write_fd
    <3>1. f = table'[id].read_fd => id = i /\ k = "r" /\ ~Reapable(id, "r")
      BY <1>3, <2>3, <2>4, <2>6 DEF Descriptors, FdsValid
    <3>2. f = table'[id].write_fd => id = i /\ k = "w" /\ ~Reapable(id, "w")
      BY <1>3, <2>3, <2>4, <2>6 DEF Descriptors, FdsValid
    <3>3. QED
      BY <2>2, <3>1, <3>2
  <2>7. ASSUME NEW t \in Worker, Opening(t)'
        PROVE  f # task'[t].fd
    <3>1. Opening(t) /\ task'[t] = task[t]
      BY <1>1, <2>7, ReaperLeaves
    <3>2. QED
      BY <2>2, <2>3, <3>1 DEF Descriptors, FdsApart, FdOf, Kind
  <2>8. ASSUME NEW t \in Worker, InFlushAt(t)'
        PROVE  f # task'[t].fd
    <3>1. InFlushAt(t) /\ task'[t] = task[t]
      BY <1>1, <2>8, ReaperLeaves
    <3>2. fds[task[t].fd] = <<FlushedFile(t), "w">>
      BY <3>1 DEF Descriptors, FdsValid
    <3>3. t \in table[FlushedFile(t)].write_inflight
      BY <3>1 DEF Descriptors, Locked, Flushing
    <3>4. f = task[t].fd => FlushedFile(t) = i /\ k = "w"
      BY <2>4, <3>2
    <3>5. k = "w" => table[i].write_inflight = {}
      BY <2>3 DEF InflightOf
    <3>6. QED
      BY <3>1, <3>3, <3>4, <3>5
  <2>9. QED
    BY <1>1, <2>4, <2>5, <2>6, <2>7, <2>8
<1>6. FdsApart'
  <2>1. \A t \in Worker : Opening(t)' => task'[t].fd # None /\ fds'[task'[t].fd] = OpenedAs(t)'
    BY <1>1, ReaperLeaves DEF Descriptors, FdsApart
  <2>2. \A t, u \in Worker :
          Opening(t)' /\ (Opening(u)' \/ InFlushAt(u)') /\ task'[t].fd = task'[u].fd => t = u
    BY <1>1, ReaperLeaves DEF Descriptors, FdsApart
  <2>3. ASSUME NEW t \in Worker, NEW id \in Id, Opening(t)', table'[id] # None
        PROVE  task'[t].fd # table'[id].read_fd /\ task'[t].fd # table'[id].write_fd
    <3>1. Opening(t) /\ task'[t] = task[t] /\ task[t].fd # None
      BY <1>1, <2>3, ReaperLeaves DEF Descriptors, FdsApart
    <3>2. QED
      BY <1>3, <2>3, <3>1 DEF Descriptors, FdsApart
  <2>4. QED
    BY <1>5, <2>1, <2>2, <2>3 DEF FdsApart
<1>7. Locked'
  <2>1. ASSUME NEW u \in Worker, Flushing(u)
        PROVE  LET id == FlushedFile(u) IN
               /\ table'[id] # None /\ table'[id].write_inflight = table[id].write_inflight
               /\ table'[id].write_fd = table[id].write_fd
    <3>1. /\ FlushedFile(u) \in Id /\ table[FlushedFile(u)] # None
          /\ u \in table[FlushedFile(u)].write_inflight
      BY <2>1, FlushedId DEF Descriptors, Locked
    <3>2. ~Reapable(FlushedFile(u), "w")
      BY <3>1 DEF Reapable, InflightOf
    <3>3. QED
      BY <3>1, <3>2, CollectTable
  <2>2. QED
    BY <1>1, <2>1, ReaperLeaves, LocksKept DEF Descriptors
<1>8. QED
  BY <1>1, <1>4, <1>6, <1>7, ReaperLeaves DEF Descriptors

\* The descriptor closed is one only the reaper knows.
LEMMA ReapCloseDescriptors ==
  ASSUME Base, Descriptors, ReapClose
  PROVE  Descriptors'
<1>1. ReaperStep /\ table' = table
  BY DEF ReaperStep, ReapClose
<1>2. task[Reaper] \in Frame /\ Reaper \in Task /\ task[Reaper].todo \subseteq Fd
  <2>1. task[Reaper] \in Frame /\ Reaper \in Task
    BY DEF Base, TypeOK, Task
  <2>2. QED
    BY <2>1 DEF Frame
<1>3. PICK f \in task[Reaper].todo :
        fds' = [fds EXCEPT ![f] = None] /\ task'[Reaper].todo = task[Reaper].todo \ {f}
  <2>1. PICK f \in task[Reaper].todo :
          /\ fds' = [fds EXCEPT ![f] = None]
          /\ task' = [task EXCEPT ![Reaper].pc = "reap_wait", ![Reaper].todo = @ \ {f}]
    BY DEF ReapClose
  <2>2. task'[Reaper] = [task[Reaper] EXCEPT !.pc = "reap_wait", !.todo = @ \ {f}]
    BY <1>2, <2>1 DEF Base, TypeOK
  <2>3. task'[Reaper].todo = task[Reaper].todo \ {f}
    BY <1>2, <2>2 DEF Frame
  <2>4. QED
    BY <2>1, <2>3
<1>4. \A g \in Fd : g # f => fds'[g] = fds[g]
  BY <1>2, <1>3 DEF Base, TypeOK
<1>5. ASSUME NEW id \in Id, table[id] # None
      PROVE  /\ table[id].read_fd # None => fds'[table[id].read_fd] = <<id, "r">>
             /\ table[id].write_fd # None => fds'[table[id].write_fd] = <<id, "w">>
  <2>1. f # table[id].read_fd /\ f # table[id].write_fd
    BY <1>3, <1>5 DEF Descriptors, FdsApart
  <2>2. QED
    BY <1>4, <1>5, <2>1, TableTyped DEF Descriptors, FdsValid
<1>6. ASSUME NEW t \in Worker, InFlushAt(t)'
      PROVE  task'[t].fd # None /\ fds'[task'[t].fd] = <<FlushedFile(t)', "w">>
  <2>1. InFlushAt(t) /\ task'[t] = task[t] /\ FlushedFile(t)' = FlushedFile(t)
    BY <1>1, <1>6, ReaperLeaves
  <2>2. f # task[t].fd
    BY <1>3, <2>1 DEF Descriptors, FdsApart
  <2>3. QED
    BY <1>4, <2>1, <2>2, FdTyped DEF Descriptors, FdsValid
<1>7. ASSUME NEW t \in Worker, Opening(t)'
      PROVE  task'[t].fd # None /\ fds'[task'[t].fd] = OpenedAs(t)'
  <2>1. Opening(t) /\ task'[t] = task[t] /\ OpenedAs(t)' = OpenedAs(t)
    BY <1>1, <1>7, ReaperLeaves
  <2>2. f # task[t].fd
    BY <1>3, <2>1 DEF Descriptors, FdsApart
  <2>3. QED
    BY <1>4, <2>1, <2>2, FdTyped DEF Descriptors, FdsApart
<1>8. ASSUME NEW g \in task'[Reaper].todo
      PROVE  /\ fds'[g] # None
             /\ \A id \in Id : table'[id] # None => g # table'[id].read_fd /\ g # table'[id].write_fd
             /\ \A t \in Worker : Opening(t)' \/ InFlushAt(t)' => g # task'[t].fd
  <2>1. g \in task[Reaper].todo /\ g # f /\ fds'[g] = fds[g]
    BY <1>2, <1>3, <1>4
  <2>2. QED
    BY <1>1, <2>1, ReaperLeaves DEF Descriptors, FdsApart
<1>9. FdsValid'
  BY <1>1, <1>5, <1>6 DEF FdsValid
<1>10. FdsApart'
  <2>1. \A t, u \in Worker :
          Opening(t)' /\ (Opening(u)' \/ InFlushAt(u)') /\ task'[t].fd = task'[u].fd => t = u
    BY <1>1, ReaperLeaves DEF Descriptors, FdsApart
  <2>2. \A t \in Worker, id \in Id : Opening(t)' /\ table'[id] # None =>
          task'[t].fd # table'[id].read_fd /\ task'[t].fd # table'[id].write_fd
    BY <1>1, ReaperLeaves DEF Descriptors, FdsApart
  <2>3. QED
    BY <1>7, <1>8, <2>1, <2>2 DEF FdsApart
<1>11. Locked'
  BY <1>1, ReaperLeaves DEF Descriptors, Locked, Flushing
<1>12. QED
  BY <1>1, <1>9, <1>10, <1>11, ReaperLeaves DEF Descriptors

LEMMA ReaperDescriptors ==
  ASSUME Base, Descriptors, ReaperStep
  PROVE  Descriptors'
<1>1. task[Reaper] \in Frame /\ Reaper \in Task /\ task \in [Task -> Frame]
  BY DEF Base, TypeOK, Task
<1>2. CASE ReapClosed
  <2>1. fds' = fds /\ table' = table
    BY <1>2 DEF ReapClosed
  <2>2. task'[Reaper].todo = task[Reaper].todo
    BY <1>1, <1>2 DEF ReapClosed, Frame
  <2>3. FdsValid' /\ FdsApart'
    BY <2>1, <2>2, ReaperLeaves, FdsKept DEF Descriptors, TableKeepsFds, SameFds
  <2>4. Locked'
    BY <2>1, ReaperLeaves, LocksKept DEF Descriptors, Locked
  <2>5. QED
    BY <2>3, <2>4, ReaperLeaves DEF Descriptors
<1>3. CASE ReapSweep
  <2>1. fds' = fds /\ \A id \in Id : table'[id] = IF table[id] # None /\ IsFree(table[id]) THEN None ELSE table[id]
    BY <1>3 DEF ReapSweep
  <2>2. task'[Reaper].todo = {}
    BY <1>1, <1>3 DEF ReapSweep, Idle
  <2>3. TableKeepsFds
    BY <2>1 DEF TableKeepsFds, SameFds
  <2>4. FdsValid' /\ FdsApart'
    BY <2>1, <2>2, <2>3, ReaperLeaves, FdsKept DEF Descriptors
  <2>5. ASSUME NEW u \in Worker, Flushing(u)
        PROVE  table'[FlushedFile(u)] = table[FlushedFile(u)]
    <3>1. FlushedFile(u) \in Id /\ u \in table[FlushedFile(u)].write_inflight
      BY <2>5, FlushedId DEF Descriptors, Locked
    <3>2. QED
      BY <2>1, <3>1 DEF IsFree
  <2>6. Locked'
    BY <2>5, ReaperLeaves, LocksKept DEF Descriptors, Locked
  <2>7. QED
    BY <2>4, <2>6, ReaperLeaves DEF Descriptors
<1>4. QED
  BY <1>2, <1>3, ReapCollectDescriptors, ReapCloseDescriptors DEF ReaperStep

-----------------------------------------------------------------------------
LEMMA DescriptorsInit == Init => Descriptors
<1>1. SUFFICES ASSUME Init
               PROVE  Descriptors
  OBVIOUS
<1>2. \A t \in Task : task[t] = Idle
  BY <1>1 DEF Init
<1>3. \A t \in Worker : t \in Task /\ ~Opening(t) /\ ~Flushing(t) /\ ~InFlushAt(t) /\ task[t].on = None
  BY <1>2 DEF Opening, Flushing, InFlushAt, Idle, Task
<1>4. task[Reaper].todo = {}
  BY <1>2 DEF Idle, Task
<1>5. \A id \in Id : table[id] = None
  BY <1>1 DEF Init
<1>6. FdsValid
  BY <1>3, <1>5 DEF FdsValid
<1>7. FdsApart
  BY <1>3, <1>4 DEF FdsApart
<1>8. Locked /\ OnlyWaiters
  BY <1>3 DEF Locked, OnlyWaiters
<1>9. QED
  BY <1>6, <1>7, <1>8 DEF Descriptors

LEMMA DescriptorsStep ==
  ASSUME Base, Descriptors, [Next]_vars
  PROVE  Descriptors'
<1>1. ASSUME UNCHANGED <<table, task, fds>>
      PROVE  Descriptors'
  <2>1. FdsValid'
    BY <1>1 DEF Descriptors, FdsValid, InFlushAt, InFunction, FlushedFile, Evicting
  <2>2. FdsApart'
    BY <1>1 DEF Descriptors, FdsApart, Opening, OpenedAs, InFlushAt, InFunction
  <2>3. Locked' /\ OnlyWaiters'
    BY <1>1 DEF Descriptors, Locked, OnlyWaiters, Flushing, InFlushAt, InFunction, FlushedFile, Evicting
  <2>4. QED
    BY <2>1, <2>2, <2>3 DEF Descriptors
<1>2. ASSUME NEW t \in Worker, Dangle(t)
      PROVE  Descriptors'
  BY <1>1, <1>2 DEF Dangle
<1>3. CASE UNCHANGED vars
  BY <1>1, <1>3 DEF vars
<1>4. ASSUME NEW t \in Worker, PageStep(t) \/ FlushStep(t)
      PROVE  Descriptors'
  BY <1>4, ReadDescriptors, EvictDescriptors, FlushDescriptors DEF FlushStep
<1>5. QED
  BY <1>2, <1>3, <1>4, ClientDescriptors, ReaperDescriptors DEF Next, FileStep

\* For any number of clients, files and descriptors, in every order of opens, reads,
\* flushes, evictions and reaper runs, and whatever the device fails: every fd the cache
\* (cache.cpp) keeps in an entry, and every fd flush_at was handed before it suspended,
\* is open on the device for the very file and direction it is used for.
THEOREM DescriptorsAreValid == Spec => []FdsValid
<1>1. Init => Base /\ Descriptors
  BY InitBase, DescriptorsInit
<1>2. Base /\ Descriptors /\ [Next]_vars => Base' /\ Descriptors'
  BY BaseStep, DescriptorsStep
<1>3. Descriptors => FdsValid
  BY DEF Descriptors
<1>4. QED
  BY <1>1, <1>2, <1>3, PTL DEF Spec

=============================================================================
