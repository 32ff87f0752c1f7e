-------------------------- MODULE CacheBase_proofs --------------------------
(***************************************************************************)
(* Base is inductive.  First what each step of a coroutine does to frames   *)
(* and to the table, then each part of Base under the steps of coroutines,  *)
(* clients and the reaper, then the theorems that follow from Base alone.   *)
(***************************************************************************)
EXTENDS CacheTypes_proofs

-----------------------------------------------------------------------------
(* A step of a coroutine leaves the other frames alone, except that a fetch *)
(* wakes its waiters.                                                       *)

\* Only pc, on, ok and val change.
Steady(t) ==
  /\ task'[t].op = task[t].op /\ task'[t].id = task[t].id /\ task'[t].idx = task[t].idx
  /\ task'[t].ref = task[t].ref /\ task'[t].fd = task[t].fd /\ task'[t].evict = task[t].evict
  /\ task'[t].victim = task[t].victim /\ task'[t].todo = task[t].todo

Kept(u) == task'[u].pc = task[u].pc /\ Steady(u)

Others(t) == \A u \in Task : u # t => Kept(u)

\* Every step but the fetch's last one changes no frame but t's.
LEMMA StepOthers ==
  ASSUME Base, NEW t \in Worker, PageStep(t) \/ FlushStep(t), ~ReadFilled(t)
  PROVE  \A u \in Task : u # t => task'[u] = task[u]
<1> USE DEF Base, TypeOK
<1>1. t \in Task
  BY DEF Task
<1>2. \A id, kind, f : SendOpen(t, id, kind, f) => \A u \in Task : u # t => task'[u] = task[u]
  BY <1>1 DEF SendOpen
<1>5. CASE ReadFind(t) \/ EvictPop(t)
  BY <1>1, <1>2, <1>5 DEF ReadFind, EvictPop
<1>6. CASE Flush(t)
  BY <1>1, <1>2, <1>6 DEF Flush
<1>7. CASE Enter(t) \/ Woken(t) \/ ReadOpened(t) \/ ReadFetch(t) \/ WriteFind(t) \/ CopyPage(t)
  BY <1>1, <1>7 DEF Enter, Woken, ReadOpened, ReadFetch, WriteFind, CopyPage
<1>8. CASE EvictDone(t) \/ EvictOpened(t) \/ EvictErase(t) \/ FlushWrite(t) \/ FlushAck(t)
           \/ FlushOpened(t) \/ FlushNext(t)
  BY <1>1, <1>8 DEF EvictDone, EvictOpened, EvictErase, FlushWrite, FlushAck,
     FlushOpened, FlushNext
<1>9. QED
  BY <1>5, <1>6, <1>7, <1>8 DEF PageStep, FlushStep

LEMMA StepFrames ==
  ASSUME Base, NEW t \in Worker, PageStep(t) \/ FlushStep(t)
  PROVE  Others(t) /\ UNCHANGED client
<1> USE DEF Base, TypeOK, fsVars
<1>1. t \in Task
  BY DEF Task
<1>2. ASSUME \A u \in Task : u # t => task'[u] = task[u]
      PROVE  Others(t)
  BY <1>2 DEF Others, Kept, Steady
<1>3. CASE ReadFilled(t)
  <2>1. \E g : \E ok : task' = Wake([task EXCEPT ![t] = g], t, ok)
    BY <1>3 DEF ReadFilled
  <2>2. PICK g, ok : task' = Wake([task EXCEPT ![t] = g], t, ok)
    BY <2>1
  <2>3. ASSUME NEW u \in Task, u # t
        PROVE  task'[u] = IF task[u].on = t THEN [task[u] EXCEPT !.on = None, !.ok = ok] ELSE task[u]
    BY <2>2, <2>3 DEF Wake
  <2>4. ASSUME NEW u \in Task, u # t
        PROVE  Kept(u)
    <3>1. task[u] \in Frame
      OBVIOUS
    <3>2. QED
      BY <2>3, <2>4, <3>1 DEF Kept, Steady, Frame
  <2>5. QED
    BY <1>3, <2>4 DEF Others, ReadFilled
<1>4. ASSUME ~ReadFilled(t)
      PROVE  Others(t)
  BY <1>2, <1>4, StepOthers
<1>5. client' = client
  BY DEF PageStep, FlushStep, Enter, Woken, ReadFind, ReadOpened, ReadFetch, ReadFilled, WriteFind,
     CopyPage, EvictPop, EvictDone, EvictOpened, EvictErase, FlushWrite, FlushAck, Flush,
     FlushOpened, FlushNext
<1>6. QED
  BY <1>3, <1>4, <1>5
-----------------------------------------------------------------------------
(* What each step of a coroutine does to its own frame *)

\* The coroutine returned.
Finished(t) ==
  /\ task'[t].pc = "done" /\ task'[t].op = task[t].op /\ task'[t].id = task[t].id
  /\ task'[t].idx = task[t].idx /\ task'[t].ref = None /\ task'[t].on = None
  /\ task'[t].fd = None /\ task'[t].evict = 0 /\ task'[t].victim = None /\ task'[t].todo = {}

LEMMA FinishFrame ==
  ASSUME TypeOK, NEW t \in Task, NEW ok, NEW v, task'[t] = [Finish(t, ok) EXCEPT !.val = v]
  PROVE  Finished(t)
BY DEF Finish, Idle, Finished

LEMMA FinishedFrame ==
  ASSUME TypeOK, NEW t \in Task, NEW ok, task'[t] = Finish(t, ok)
  PROVE  Finished(t)
BY DEF Finish, Idle, Finished

LEMMA EnterFrame ==
  ASSUME Base, NEW t \in Worker, Enter(t)
  PROVE  /\ task[t].pc = "enter" /\ task'[t].pc \in {"wait", "body"} /\ Steady(t)
         /\ task'[t].pc = "wait" => task'[t].on = readQueue[KeyOf(t)] /\ task'[t].on # None
         /\ task'[t].pc = "body" => task'[t].on = task[t].on /\ readQueue[KeyOf(t)] = None
<1>1. t \in Task /\ task \in [Task -> Frame] /\ task[t] \in Frame
  BY DEF Base, TypeOK, Task
<1>2. task[t].pc = "enter"
  BY DEF Enter, MayRun
<1>3. CASE readQueue[KeyOf(t)] # None
  <2> DEFINE o == readQueue[KeyOf(t)]
  <2>1. task'[t] = [task[t] EXCEPT !.pc = "wait", !.on = o]
    BY <1>1, <1>3 DEF Enter
  <2> HIDE DEF o
  <2>2. task'[t].pc = "wait" /\ task'[t].on = o /\ Steady(t)
    BY <1>1, <2>1 DEF Steady, Frame
  <2>3. QED
    BY <1>2, <1>3, <2>2 DEF o
<1>4. CASE readQueue[KeyOf(t)] = None
  <2>1. task'[t] = [task[t] EXCEPT !.pc = "body"]
    BY <1>1, <1>4 DEF Enter
  <2>2. task'[t].pc = "body" /\ task'[t].on = task[t].on /\ Steady(t)
    BY <1>1, <2>1 DEF Steady, Frame
  <2>3. QED
    BY <1>2, <1>4, <2>2
<1>5. QED
  BY <1>3, <1>4

LEMMA WokenFrame ==
  ASSUME Base, NEW t \in Worker, Woken(t)
  PROVE  /\ task[t].pc = "wait" /\ task[t].on = None
         /\ \/ task'[t].pc = "body" /\ Steady(t) /\ task'[t].on = None
            \/ /\ task'[t].pc = AfterFlushAt(t) /\ Steady(t) /\ task'[t].on = None
               /\ InFunction(t) = "flush"
            \/ Finished(t) /\ InFunction(t) # "flush"
<1>1. t \in Task /\ task \in [Task -> Frame] /\ task[t] \in Frame
  BY DEF Base, TypeOK, Task
<1>2. task[t].pc = "wait" /\ task[t].on = None
  BY DEF Woken, MayRun
<1>3. \/ task'[t] = [task[t] EXCEPT !.pc = "body"]
      \/ task'[t] = [task[t] EXCEPT !.pc = AfterFlushAt(t)] /\ InFunction(t) = "flush"
      \/ task'[t] = Finish(t, FALSE) /\ InFunction(t) # "flush"
  BY <1>1 DEF Woken
<1>4. ASSUME NEW pc, task'[t] = [task[t] EXCEPT !.pc = pc]
      PROVE  task'[t].pc = pc /\ Steady(t) /\ task'[t].on = task[t].on
  BY <1>1, <1>4 DEF Steady, Frame
<1>5. QED
  BY <1>1, <1>2, <1>3, <1>4, FinishedFrame DEF Base

\* t requested an open: the frame keeps the rest, and a success is a new descriptor.
Requested(t, pc) ==
  /\ task'[t].pc = pc /\ task'[t].op = task[t].op /\ task'[t].id = task[t].id
  /\ task'[t].idx = task[t].idx /\ task'[t].ref = task[t].ref /\ task'[t].todo = task[t].todo
  /\ task'[t].on = task[t].on

Opened(t, id, kind) ==
  IF task'[t].ok
  THEN /\ task'[t].fd \in Fd /\ fds[task'[t].fd] = None
       /\ fds' = [fds EXCEPT ![task'[t].fd] = <<id, kind>>]
  ELSE fds' = fds

LEMMA RequestFrame ==
  ASSUME Base, NEW t \in Worker, NEW id, NEW kind, NEW pc, NEW frame \in Frame,
         SendOpen(t, id, kind, frame),
         frame.pc = pc, frame.op = task[t].op, frame.id = task[t].id, frame.idx = task[t].idx,
         frame.ref = task[t].ref, frame.todo = task[t].todo, frame.on = task[t].on
  PROVE  /\ Requested(t, pc) /\ Opened(t, id, kind)
         /\ task'[t].evict = frame.evict /\ task'[t].victim = frame.victim
<1>1. TypeOK /\ t \in Task
  BY DEF Base, Task
<1>2. PICK o \in Outcomes("open") :
        LET opened == o /\ FreeFds # {} IN
        /\ fds' = IF opened THEN [fds EXCEPT ![FreshFd] = <<id, kind>>] ELSE fds
        /\ task' = [task EXCEPT ![t] =
             [frame EXCEPT !.ok = opened, !.fd = IF opened THEN FreshFd ELSE None]]
  BY DEF SendOpen
<1> DEFINE ok == o /\ FreeFds # {}
           fd == IF ok THEN FreshFd ELSE None
<1>3. ok => fd \in Fd /\ fds[fd] = None
  BY FreshFdIsFree
<1>4. IF ok THEN fds' = [fds EXCEPT ![fd] = <<id, kind>>] ELSE fds' = fds
  BY <1>2
<1>5. task'[t] = [frame EXCEPT !.ok = ok, !.fd = fd]
  BY <1>1, <1>2 DEF TypeOK
<1>6. ok \in BOOLEAN
  OBVIOUS
<1> HIDE DEF ok, fd
<1>7. task'[t].ok = ok /\ task'[t].fd = fd
  BY <1>5, <1>6 DEF Frame
<1>8. Opened(t, id, kind)
  BY <1>3, <1>4, <1>7 DEF Opened
<1>9. Requested(t, pc) /\ task'[t].evict = frame.evict /\ task'[t].victim = frame.victim
  BY <1>5 DEF Requested, Frame
<1>10. QED
  BY <1>8, <1>9

\* Only pc, ref, evict, on, ok and val change.
Moved(t) ==
  /\ task'[t].op = task[t].op /\ task'[t].id = task[t].id /\ task'[t].idx = task[t].idx
  /\ task'[t].fd = task[t].fd /\ task'[t].victim = task[t].victim /\ task'[t].todo = task[t].todo

LEMMA ReadFindFrame ==
  ASSUME Base, NEW t \in Worker, ReadFind(t)
  PROVE  /\ task[t].pc = "body" /\ task[t].op = "read" /\ task[t].victim = None
         /\ \/ task'[t].pc = "copy" /\ Moved(t) /\ task'[t].evict = task[t].evict
               /\ task'[t].on = task[t].on /\ fds' = fds
            \/ task'[t].pc = "fetch" /\ Steady(t) /\ task'[t].on = task[t].on /\ fds' = fds
            \/ /\ Requested(t, "read_open") /\ Opened(t, task[t].id, "r")
               /\ task'[t].evict = task[t].evict /\ task'[t].victim = None
<1>1. t \in Task /\ task \in [Task -> Frame] /\ task[t] \in Frame
  BY DEF Base, TypeOK, Task
<1>2. task[t].pc = "body" /\ task[t].op = "read" /\ task[t].victim = None
  BY DEF ReadFind, MayRun, InFunction
<1> DEFINE r == table[task[t].id].pages[task[t].idx]
<1>3. \/ task'[t] = [task[t] EXCEPT !.pc = "copy", !.ref = r] /\ fds' = fds
      \/ task'[t] = [task[t] EXCEPT !.pc = "fetch"] /\ fds' = fds
      \/ SendOpen(t, task[t].id, "r", [task[t] EXCEPT !.pc = "read_open"])
  BY <1>1 DEF ReadFind
<1> HIDE DEF r
<1>4. CASE task'[t] = [task[t] EXCEPT !.pc = "copy", !.ref = r] /\ fds' = fds
  <2>1. task'[t].pc = "copy" /\ Moved(t) /\ task'[t].evict = task[t].evict
        /\ task'[t].on = task[t].on
    BY <1>1, <1>4 DEF Moved, Frame
  <2>2. QED
    BY <1>2, <1>4, <2>1
<1>5. CASE task'[t] = [task[t] EXCEPT !.pc = "fetch"] /\ fds' = fds
  <2>1. task'[t].pc = "fetch" /\ Steady(t) /\ task'[t].on = task[t].on
    BY <1>1, <1>5 DEF Steady, Frame
  <2>2. QED
    BY <1>2, <1>5, <2>1
<1>6. CASE SendOpen(t, task[t].id, "r", [task[t] EXCEPT !.pc = "read_open"])
  <2> DEFINE g == [task[t] EXCEPT !.pc = "read_open"]
  <2>1. g \in Frame
    BY <1>1, PcTyped DEF Pcs
  <2>2. /\ g.pc = "read_open" /\ g.op = task[t].op /\ g.id = task[t].id /\ g.idx = task[t].idx
        /\ g.ref = task[t].ref /\ g.todo = task[t].todo /\ g.evict = task[t].evict
        /\ g.victim = task[t].victim /\ g.on = task[t].on
    BY <1>1 DEF Frame
  <2>3. SendOpen(t, task[t].id, "r", g)
    BY <1>6
  <2> HIDE DEF g
  <2>4. QED
    BY <1>2, <2>1, <2>2, <2>3, RequestFrame
<1>7. QED
  BY <1>3, <1>4, <1>5, <1>6

LEMMA ReadOpenedFrame ==
  ASSUME Base, NEW t \in Worker, ReadOpened(t)
  PROVE  /\ task[t].pc = "read_open"
         /\ IF task[t].ok
            THEN /\ task'[t].pc = "fetch" /\ task'[t].op = task[t].op /\ task'[t].id = task[t].id
                 /\ task'[t].idx = task[t].idx /\ task'[t].ref = task[t].ref
                 /\ task'[t].fd = None /\ task'[t].evict = task[t].evict
                 /\ task'[t].victim = task[t].victim /\ task'[t].todo = task[t].todo
                 /\ task'[t].on = task[t].on
            ELSE Finished(t)
<1>1. t \in Task /\ task \in [Task -> Frame] /\ task[t] \in Frame
  BY DEF Base, TypeOK, Task
<1>2. task[t].pc = "read_open"
  BY DEF ReadOpened, Answered
<1>3. CASE task[t].ok
  <2>1. task'[t] = [task[t] EXCEPT !.pc = "fetch", !.fd = None]
    BY <1>1, <1>3 DEF ReadOpened
  <2>2. QED
    BY <1>1, <1>2, <1>3, <2>1 DEF Frame
<1>4. CASE ~task[t].ok
  <2>1. task'[t] = Finish(t, FALSE)
    BY <1>1, <1>4 DEF ReadOpened
  <2>2. QED
    BY <1>1, <1>2, <1>4, <2>1, FinishedFrame DEF Base
<1>5. QED
  BY <1>3, <1>4

LEMMA ReadFetchFrame ==
  ASSUME Base, NEW t \in Worker, ReadFetch(t)
  PROVE  task[t].pc = "fetch" /\ task'[t].pc = "fill" /\ Steady(t) /\ task'[t].on = task[t].on
<1>1. t \in Task /\ task \in [Task -> Frame] /\ task[t] \in Frame
  BY DEF Base, TypeOK, Task
<1>2. task[t].pc = "fetch"
  BY DEF ReadFetch, MayRun
<1> DEFINE fd == table[task[t].id].read_fd
<1>3. PICK o \in Outcomes("read") :
        task' = [task EXCEPT ![t] =
          [task[t] EXCEPT !.pc = "fill", !.ok = o /\ OpenFor(fd, "r"),
                          !.val = IF o /\ OpenFor(fd, "r") THEN file[fds[fd][1]][task[t].idx] ELSE None]]
  BY DEF ReadFetch
<1> DEFINE ok == o /\ OpenFor(fd, "r")
           v  == IF o /\ OpenFor(fd, "r") THEN file[fds[fd][1]][task[t].idx] ELSE None
<1>4. task'[t] = [task[t] EXCEPT !.pc = "fill", !.ok = ok, !.val = v]
  BY <1>1, <1>3
<1> HIDE DEF ok, v
<1>5. task'[t].pc = "fill" /\ Steady(t) /\ task'[t].on = task[t].on
  BY <1>1, <1>4 DEF Steady, Frame
<1>6. QED
  BY <1>2, <1>5

LEMMA WokenOther ==
  ASSUME Base, NEW t \in Worker, NEW g \in Frame, NEW ok \in BOOLEAN,
         task' = Wake([task EXCEPT ![t] = g], t, ok)
  PROVE  /\ \A u \in Task : u # t =>
              task'[u].on = IF task[u].on = t THEN None ELSE task[u].on
         /\ task'[t].on = IF g.on = t THEN None ELSE g.on
         /\ task'[t].pc = g.pc /\ task'[t].op = g.op /\ task'[t].id = g.id /\ task'[t].idx = g.idx
         /\ task'[t].ref = g.ref /\ task'[t].fd = g.fd /\ task'[t].evict = g.evict
         /\ task'[t].victim = g.victim /\ task'[t].todo = g.todo
<1>1. t \in Task /\ task \in [Task -> Frame]
  BY DEF Base, TypeOK, Task
<1>2. task'[t] = IF g.on = t THEN [g EXCEPT !.on = None, !.ok = ok] ELSE g
  BY <1>1 DEF Wake
<1>3. ASSUME NEW u \in Task, u # t
      PROVE  task'[u] = IF task[u].on = t THEN [task[u] EXCEPT !.on = None, !.ok = ok] ELSE task[u]
  BY <1>1, <1>3 DEF Wake
<1>4. ASSUME NEW u \in Task, u # t
      PROVE  task'[u].on = IF task[u].on = t THEN None ELSE task[u].on
  <2>1. task[u] \in Frame
    BY <1>1
  <2>2. QED
    BY <1>3, <1>4, <2>1 DEF Frame
<1>5. /\ task'[t].on = IF g.on = t THEN None ELSE g.on
      /\ task'[t].pc = g.pc /\ task'[t].op = g.op /\ task'[t].id = g.id /\ task'[t].idx = g.idx
      /\ task'[t].ref = g.ref /\ task'[t].fd = g.fd /\ task'[t].evict = g.evict
      /\ task'[t].victim = g.victim /\ task'[t].todo = g.todo
  BY <1>2 DEF Frame
<1>6. QED
  BY <1>4, <1>5

LEMMA ReadFilledFrame ==
  ASSUME Base, NEW t \in Worker, ReadFilled(t)
  PROVE  /\ task[t].pc = "fill"
         /\ \A u \in Task : u # t =>
              task'[u].on = IF task[u].on = t THEN None ELSE task[u].on
         /\ task'[t].on = IF task'[t].pc # "done" /\ task[t].on # t THEN task[t].on ELSE None
         /\ IF task[t].ok /\ readQueue[KeyOf(t)] # None
            THEN /\ task'[t].pc = AfterInsert(lru') /\ task'[t].evict = Overfull(lru') /\ Moved(t)
                 /\ task'[t].ref \in Ref
            ELSE Finished(t)
<1>1. t \in Task /\ task \in [Task -> Frame] /\ task[t] \in Frame
  BY DEF Base, TypeOK, Task
<1>2. task[t].pc = "fill"
  BY DEF ReadFilled, Answered
<1>3. CASE task[t].ok /\ readQueue[KeyOf(t)] # None
  <2> DEFINE slot == IF table[task[t].id].pages[task[t].idx] = None THEN FreshRef
                     ELSE table[task[t].id].pages[task[t].idx]
             pc == AfterInsert(lru')
             n  == Overfull(lru')
             g  == [task[t] EXCEPT !.pc = pc, !.evict = n, !.ref = slot, !.val = None]
  <2>1. task' = Wake([task EXCEPT ![t] = g], t, TRUE)
    BY <1>3 DEF ReadFilled
  <2>2. slot \in Ref
    <3>1. FreshRef \in Ref
      BY <1>3, FreshRefIsFree DEF ReadFilled
    <3>2. task[t].idx \in Idx
      BY <1>1, <1>2, InUse DEF Base, Frames, FrameOf, WellFormed
    <3>3. table[task[t].id].pages[task[t].idx] \in Ref \cup {None}
      BY <1>2, <3>2, InUse DEF Entry
    <3>4. QED
      BY <3>1, <3>3
  <2>3. lru' \in Seq(Ref)
    <3>1. [Next]_vars
      BY DEF Next, FileStep, PageStep
    <3>2. QED
      BY <3>1, TypeStep DEF TypeOK
  <2>4. pc \in {"evict", "copy"} /\ n \in Nat
    BY <2>3, LenProperties, CacheAssumption DEF AfterInsert, Overfull
  <2> HIDE DEF pc, n, slot
  <2>5. g \in Frame
    BY <1>1, <2>2, <2>4 DEF Frame, Pcs, Bytes
  <2>6. /\ g.pc = pc /\ g.evict = n /\ g.ref = slot /\ g.on = task[t].on /\ g.op = task[t].op
        /\ g.id = task[t].id /\ g.idx = task[t].idx /\ g.fd = task[t].fd
        /\ g.victim = task[t].victim /\ g.todo = task[t].todo
    BY <1>1 DEF Frame
  <2> HIDE DEF g
  <2>9. /\ \A u \in Task : u # t =>
              task'[u].on = IF task[u].on = t THEN None ELSE task[u].on
        /\ task'[t].on = IF g.on = t THEN None ELSE g.on
        /\ task'[t].pc = g.pc /\ task'[t].op = g.op /\ task'[t].id = g.id /\ task'[t].idx = g.idx
        /\ task'[t].ref = g.ref /\ task'[t].fd = g.fd /\ task'[t].evict = g.evict
        /\ task'[t].victim = g.victim /\ task'[t].todo = g.todo
    BY <2>1, <2>5, WokenOther
  <2>7. /\ task'[t].pc = pc /\ task'[t].evict = n /\ Moved(t) /\ task'[t].ref \in Ref
        /\ task'[t].on = IF task[t].on = t THEN None ELSE task[t].on
        /\ \A u \in Task : u # t => task'[u].on = IF task[u].on = t THEN None ELSE task[u].on
    BY <2>2, <2>6, <2>9 DEF Moved
  <2>8. QED
    BY <1>2, <1>3, <2>4, <2>7 DEF pc, n
<1>4. CASE ~(task[t].ok /\ readQueue[KeyOf(t)] # None)
  <2> DEFINE g == Finish(t, FALSE)
  <2>1. task' = Wake([task EXCEPT ![t] = g], t, FALSE)
    BY <1>4 DEF ReadFilled
  <2>2. g \in Frame
    BY <1>1, FinishType DEF Base
  <2>3. /\ g.pc = "done" /\ g.evict = 0 /\ g.ref = None /\ g.on = None /\ g.op = task[t].op
        /\ g.id = task[t].id /\ g.idx = task[t].idx /\ g.fd = None
        /\ g.victim = None /\ g.todo = {}
    BY DEF Finish, Idle
  <2> HIDE DEF g
  <2>9. /\ \A u \in Task : u # t =>
              task'[u].on = IF task[u].on = t THEN None ELSE task[u].on
        /\ task'[t].on = IF g.on = t THEN None ELSE g.on
        /\ task'[t].pc = g.pc /\ task'[t].op = g.op /\ task'[t].id = g.id /\ task'[t].idx = g.idx
        /\ task'[t].ref = g.ref /\ task'[t].fd = g.fd /\ task'[t].evict = g.evict
        /\ task'[t].victim = g.victim /\ task'[t].todo = g.todo
    BY <2>1, <2>2, WokenOther
  <2>4. /\ Finished(t) /\ task'[t].on = None
        /\ \A u \in Task : u # t => task'[u].on = IF task[u].on = t THEN None ELSE task[u].on
    BY <1>1, <2>3, <2>9, CacheAssumption DEF Finished
  <2>5. QED
    BY <1>2, <1>4, <2>4 DEF Finished
<1>5. QED
  BY <1>3, <1>4

LEMMA WriteFindFrame ==
  ASSUME Base, NEW t \in Worker, WriteFind(t)
  PROVE  /\ task[t].pc = "body" /\ task[t].op = "write" /\ task[t].victim = None
         /\ Moved(t) /\ task'[t].on = task[t].on
         /\ IF table[task[t].id].pages[task[t].idx] # None
            THEN task'[t].pc = "copy" /\ task'[t].evict = task[t].evict
            ELSE task'[t].pc = AfterInsert(lru') /\ task'[t].evict = Overfull(lru')
<1>1. t \in Task /\ task \in [Task -> Frame] /\ task[t] \in Frame
  BY DEF Base, TypeOK, Task
<1>2. task[t].pc = "body" /\ task[t].op = "write" /\ task[t].victim = None
  BY DEF WriteFind, MayRun, InFunction
<1>3. CASE table[task[t].id].pages[task[t].idx] # None
  <2> DEFINE r == table[task[t].id].pages[task[t].idx]
  <2>1. task'[t] = [task[t] EXCEPT !.pc = "copy", !.ref = r]
    BY <1>1, <1>3 DEF WriteFind
  <2> HIDE DEF r
  <2>2. task'[t].pc = "copy" /\ Moved(t) /\ task'[t].evict = task[t].evict
        /\ task'[t].on = task[t].on
    BY <1>1, <2>1 DEF Moved, Frame
  <2>3. QED
    BY <1>2, <1>3, <2>2
<1>4. CASE table[task[t].id].pages[task[t].idx] = None
  <2> DEFINE pc == AfterInsert(lru')
             n  == Overfull(lru')
             r  == FreshRef
  <2>1. task'[t] = [task[t] EXCEPT !.pc = pc, !.evict = n, !.ref = r]
    BY <1>1, <1>4 DEF WriteFind
  <2> HIDE DEF pc, n, r
  <2>2. task'[t].pc = pc /\ task'[t].evict = n /\ Moved(t) /\ task'[t].on = task[t].on
    BY <1>1, <2>1 DEF Moved, Frame
  <2>3. QED
    BY <1>2, <1>4, <2>2 DEF pc, n
<1>5. QED
  BY <1>3, <1>4

LEMMA CopyPageFrame ==
  ASSUME Base, NEW t \in Worker, CopyPage(t)
  PROVE  task[t].pc = "copy" /\ Finished(t)
<1>1. t \in Task /\ task \in [Task -> Frame]
  BY DEF Base, TypeOK, Task
<1>2. task[t].pc = "copy"
  BY DEF CopyPage, MayRun
<1> DEFINE v == page'[task[t].ref].val
<1>3. task'[t] = [Finish(t, TRUE) EXCEPT !.val = v]
  BY <1>1 DEF CopyPage
<1> HIDE DEF v
<1>4. QED
  BY <1>1, <1>2, <1>3, FinishFrame DEF Base

\* The page that evict pops.
Last == page[lru[Len(lru)]]

LEMMA LastPage ==
  ASSUME Base, NEW t \in Worker, EvictPop(t)
  PROVE  /\ lru \in Seq(Ref) /\ Len(lru) \in Nat \ {0} /\ lru[Len(lru)] \in Ref
         /\ Last \in Page /\ Last.key[1] \in Id /\ Last.key[2] \in Idx
         /\ table[Last.key[1]] \in Entry \cup {None}
<1>1. lru \in Seq(Ref) /\ lru # << >>
  BY DEF EvictPop, Base, TypeOK
<1>2. Len(lru) \in Nat \ {0} /\ lru[Len(lru)] \in Ref
  BY <1>1, PopBack
<1>3. Last \in Page
  BY <1>2 DEF Last, Base, TypeOK, ListNodes
<1>4. Last.key \in Key
  BY <1>3 DEF Page
<1>5. Last.key[1] \in Id /\ Last.key[2] \in Idx
  BY <1>4 DEF Key
<1>6. QED
  BY <1>1, <1>2, <1>3, <1>5 DEF Base, TypeOK

LEMMA EvictPopFrame ==
  ASSUME Base, NEW t \in Worker, EvictPop(t)
  PROVE  /\ task[t].pc = "evict" /\ task[t].evict > 0 /\ task'[t].evict = task[t].evict - 1
         /\ task'[t].op = task[t].op /\ task'[t].id = task[t].id /\ task'[t].idx = task[t].idx
         /\ task'[t].ref = task[t].ref /\ task'[t].todo = task[t].todo /\ task'[t].on = task[t].on
         /\ IF table[Last.key[1]] = None \/ ~Last.dirty
            THEN /\ task'[t].pc = "evict" /\ task'[t].victim = task[t].victim
                 /\ task'[t].fd = task[t].fd
            ELSE /\ task'[t].victim = Last
                 /\ IF table[Last.key[1]].write_fd # None
                    THEN task'[t].pc = "enter" /\ task'[t].fd = table[Last.key[1]].write_fd
                    ELSE task'[t].pc = "evict_open" /\ Opened(t, Last.key[1], "w")
<1>1. t \in Task /\ task \in [Task -> Frame] /\ task[t] \in Frame
  BY DEF Base, TypeOK, Task
<1>2. task[t].pc = "evict" /\ task[t].evict > 0
  BY DEF EvictPop, MayRun
<1> DEFINE e == table[Last.key[1]]
           n == task[t].evict - 1
           w == e.write_fd
<1>3. n \in Nat
  BY <1>1, <1>2 DEF Frame
<1>4. CASE e = None \/ ~Last.dirty
  <2>1. task'[t] = [task[t] EXCEPT !.evict = n]
    BY <1>1, <1>4 DEF EvictPop, Last
  <2> HIDE DEF n
  <2>2. /\ task'[t].evict = n
        /\ task'[t].op = task[t].op /\ task'[t].id = task[t].id /\ task'[t].idx = task[t].idx
        /\ task'[t].ref = task[t].ref /\ task'[t].todo = task[t].todo /\ task'[t].on = task[t].on
        /\ task'[t].pc = task[t].pc /\ task'[t].victim = task[t].victim
        /\ task'[t].fd = task[t].fd
    BY <1>1, <2>1 DEF Frame
  <2>3. QED
    BY <1>2, <1>4, <2>2 DEF n
<1>5. CASE e # None /\ Last.dirty
  <2> DEFINE push(pc) == [task[t] EXCEPT !.evict = n, !.victim = Last, !.fd = w, !.pc = pc]
  <2>1. w \in Fd \cup {None}
    <3>1. e \in Entry
      BY <1>5, LastPage
    <3> HIDE DEF e
    <3>2. QED
      BY <3>1 DEF Entry
  <2>2. \A pc : [[[task[t] EXCEPT !.evict = @ - 1] EXCEPT !.victim = Last, !.fd = w] EXCEPT !.pc = pc] = push(pc)
    <3> HIDE DEF w
    <3> QED BY <1>1 DEF Frame
  <2>3. ASSUME NEW pc \in Pcs
        PROVE  /\ push(pc) \in Frame
               /\ push(pc).pc = pc /\ push(pc).evict = n /\ push(pc).victim = Last
               /\ push(pc).fd = w /\ push(pc).op = task[t].op /\ push(pc).id = task[t].id
               /\ push(pc).idx = task[t].idx /\ push(pc).ref = task[t].ref
               /\ push(pc).todo = task[t].todo /\ push(pc).on = task[t].on
    <3>1. Last \in Page
      BY LastPage
    <3> HIDE DEF n, w
    <3>2. QED
      BY <1>1, <1>3, <2>1, <3>1 DEF Frame
  <2>4. "enter" \in Pcs /\ "evict_open" \in Pcs
    BY DEF Pcs
  <2>5. CASE w # None
    <3>1. task'[t] = push("enter")
      BY <1>1, <1>5, <2>2, <2>5 DEF EvictPop, Last
    <3> HIDE DEF push
    <3>2. QED
      BY <1>2, <1>5, <2>3, <2>4, <2>5, <3>1
  <2>6. CASE w = None
    <3>1. SendOpen(t, Last.key[1], "w", push("evict_open"))
      BY <1>5, <2>2, <2>6 DEF EvictPop, Last
    <3> DEFINE g == push("evict_open")
    <3>2. /\ g \in Frame /\ g.pc = "evict_open" /\ g.op = task[t].op /\ g.id = task[t].id
          /\ g.idx = task[t].idx /\ g.ref = task[t].ref /\ g.todo = task[t].todo
          /\ g.on = task[t].on /\ g.evict = n /\ g.victim = Last
      BY <2>3, <2>4
    <3> HIDE DEF push, g
    <3>3. /\ Requested(t, "evict_open") /\ Opened(t, Last.key[1], "w")
          /\ task'[t].evict = n /\ task'[t].victim = Last
      BY <3>1, <3>2, RequestFrame DEF g
    <3>4. QED
      BY <1>2, <1>5, <2>6, <3>3 DEF Requested
  <2>7. QED
    BY <2>5, <2>6
<1>6. QED
  BY <1>4, <1>5

LEMMA EvictDoneFrame ==
  ASSUME Base, NEW t \in Worker, EvictDone(t)
  PROVE  task[t].pc = "evict" /\ task'[t].pc = "copy" /\ Steady(t) /\ task'[t].on = task[t].on
<1>1. t \in Task /\ task \in [Task -> Frame] /\ task[t] \in Frame
  BY DEF Base, TypeOK, Task
<1>2. task[t].pc = "evict" /\ task'[t] = [task[t] EXCEPT !.pc = "copy"]
  BY <1>1 DEF EvictDone, MayRun
<1>3. QED
  BY <1>1, <1>2 DEF Steady, Frame

\* Only pc, victim, fd, on, ok and val change.
Dropped(t) ==
  /\ task'[t].pc = "evict" /\ task'[t].victim = None
  /\ task'[t].op = task[t].op /\ task'[t].id = task[t].id /\ task'[t].idx = task[t].idx
  /\ task'[t].ref = task[t].ref /\ task'[t].evict = task[t].evict
  /\ task'[t].todo = task[t].todo

LEMMA EvictOpenedFrame ==
  ASSUME Base, NEW t \in Worker, EvictOpened(t)
  PROVE  /\ task[t].pc = "evict_open" /\ task'[t].on = task[t].on
         /\ IF task[t].ok THEN task'[t].pc = "enter" /\ Steady(t) ELSE Dropped(t)
<1>1. t \in Task /\ task \in [Task -> Frame] /\ task[t] \in Frame
  BY DEF Base, TypeOK, Task
<1>2. task[t].pc = "evict_open"
  BY DEF EvictOpened, Answered
<1>3. CASE task[t].ok
  <2>1. task'[t] = [task[t] EXCEPT !.pc = "enter"]
    BY <1>1, <1>3 DEF EvictOpened
  <2>2. QED
    BY <1>1, <1>2, <1>3, <2>1 DEF Steady, Frame
<1>4. CASE ~task[t].ok
  <2>1. task'[t] = [task[t] EXCEPT !.pc = "evict", !.victim = None]
    BY <1>1, <1>4 DEF EvictOpened
  <2>2. Dropped(t) /\ task'[t].on = task[t].on
    BY <1>1, <2>1 DEF Dropped, Frame
  <2>3. QED
    BY <1>2, <1>4, <2>2
<1>5. QED
  BY <1>3, <1>4

LEMMA EvictEraseFrame ==
  ASSUME Base, NEW t \in Worker, EvictErase(t)
  PROVE  task[t].pc = "evict_erase" /\ Dropped(t) /\ task'[t].on = task[t].on
<1>1. t \in Task /\ task \in [Task -> Frame] /\ task[t] \in Frame
  BY DEF Base, TypeOK, Task
<1>2. /\ task[t].pc = "evict_erase"
      /\ task'[t] = [task[t] EXCEPT !.pc = "evict", !.victim = None, !.fd = None]
  BY <1>1 DEF EvictErase, MayRun
<1>3. QED
  BY <1>1, <1>2 DEF Dropped, Frame

LEMMA FlushWriteFrame ==
  ASSUME Base, NEW t \in Worker, FlushWrite(t)
  PROVE  /\ task[t].pc = "body" /\ InFunction(t) = "flush"
         /\ task'[t].pc = "flush_ack" /\ Steady(t) /\ task'[t].on = task[t].on
<1>1. t \in Task /\ task \in [Task -> Frame] /\ task[t] \in Frame
  BY DEF Base, TypeOK, Task
<1>2. task[t].pc = "body" /\ InFunction(t) = "flush"
  BY DEF FlushWrite, MayRun
<1>3. PICK o \in Outcomes("write") :
        task' = [task EXCEPT ![t].pc = "flush_ack", ![t].ok = o /\ OpenFor(task[t].fd, "w")]
  BY DEF FlushWrite
<1> DEFINE ok == o /\ OpenFor(task[t].fd, "w")
<1>4. task'[t] = [task[t] EXCEPT !.pc = "flush_ack", !.ok = ok]
  BY <1>1, <1>3
<1> HIDE DEF ok
<1>5. task'[t].pc = "flush_ack" /\ Steady(t) /\ task'[t].on = task[t].on
  BY <1>1, <1>4 DEF Steady, Frame
<1>6. QED
  BY <1>2, <1>5

LEMMA FlushAckFrame ==
  ASSUME Base, NEW t \in Worker, FlushAck(t)
  PROVE  /\ task[t].pc = "flush_ack" /\ task'[t].pc = AfterFlushAt(t)
         /\ Steady(t) /\ task'[t].on = task[t].on
<1>1. t \in Task /\ task \in [Task -> Frame] /\ task[t] \in Frame
  BY DEF Base, TypeOK, Task
<1> DEFINE pc == AfterFlushAt(t)
<1>2. task[t].pc = "flush_ack" /\ task'[t] = [task[t] EXCEPT !.pc = pc]
  BY <1>1 DEF FlushAck, Answered
<1> HIDE DEF pc
<1>3. task'[t].pc = pc /\ Steady(t) /\ task'[t].on = task[t].on
  BY <1>1, <1>2 DEF Steady, Frame
<1>4. QED
  BY <1>2, <1>3 DEF pc

LEMMA FlushFrame ==
  ASSUME Base, NEW t \in Worker, Flush(t)
  PROVE  /\ task[t].pc = "flush"
         /\ \/ Finished(t) /\ UNCHANGED <<table, fds>>
            \/ task'[t].pc = "flush_next" /\ Steady(t) /\ task'[t].on = task[t].on /\ fds' = fds
               /\ table[task[t].id].write_fd # None
               /\ table' = LockWrite(t, table[task[t].id].write_fd)
            \/ /\ Requested(t, "flush_open") /\ Opened(t, task[t].id, "w") /\ table' = table
               /\ task'[t].evict = task[t].evict /\ task'[t].victim = task[t].victim
<1>1. t \in Task /\ task \in [Task -> Frame] /\ task[t] \in Frame
  BY DEF Base, TypeOK, Task
<1>2. task[t].pc = "flush"
  BY DEF Flush, MayRun
<1> DEFINE e == table[task[t].id]
<1>3. CASE e = None \/ ~e.dirty
  <2>1. task'[t] = Finish(t, TRUE) /\ UNCHANGED <<table, fds>>
    BY <1>1, <1>3 DEF Flush
  <2>2. QED
    BY <1>1, <1>2, <2>1, FinishedFrame DEF Base
<1>4. CASE e # None /\ e.dirty /\ e.write_fd # None
  <2>1. /\ task'[t] = [task[t] EXCEPT !.pc = "flush_next"] /\ fds' = fds
        /\ table' = LockWrite(t, e.write_fd)
    BY <1>1, <1>4 DEF Flush
  <2>2. task'[t].pc = "flush_next" /\ Steady(t) /\ task'[t].on = task[t].on
    BY <1>1, <2>1 DEF Steady, Frame
  <2>3. QED
    BY <1>2, <1>4, <2>1, <2>2
<1>5. CASE e # None /\ e.dirty /\ e.write_fd = None
  <2> DEFINE g == [task[t] EXCEPT !.pc = "flush_open"]
  <2>1. SendOpen(t, task[t].id, "w", g) /\ table' = table
    BY <1>5 DEF Flush
  <2>2. g \in Frame
    BY <1>1, PcTyped DEF Pcs
  <2>3. /\ g.pc = "flush_open" /\ g.op = task[t].op /\ g.id = task[t].id /\ g.idx = task[t].idx
        /\ g.ref = task[t].ref /\ g.todo = task[t].todo /\ g.evict = task[t].evict
        /\ g.victim = task[t].victim /\ g.on = task[t].on
    BY <1>1 DEF Frame
  <2> HIDE DEF g
  <2>4. QED
    BY <1>2, <2>1, <2>2, <2>3, RequestFrame
<1>6. QED
  BY <1>3, <1>4, <1>5

LEMMA FlushOpenedFrame ==
  ASSUME Base, NEW t \in Worker, FlushOpened(t)
  PROVE  /\ task[t].pc = "flush_open"
         /\ IF task[t].ok
            THEN task'[t].pc = "flush_next" /\ Steady(t) /\ task'[t].on = task[t].on
                 /\ table' = LockWrite(t, task[t].fd)
            ELSE Finished(t) /\ table' = table
<1>1. t \in Task /\ task \in [Task -> Frame] /\ task[t] \in Frame
  BY DEF Base, TypeOK, Task
<1>2. task[t].pc = "flush_open"
  BY DEF FlushOpened, Answered
<1>3. CASE task[t].ok
  <2>1. task'[t] = [task[t] EXCEPT !.pc = "flush_next"] /\ table' = LockWrite(t, task[t].fd)
    BY <1>1, <1>3 DEF FlushOpened
  <2>2. task'[t].pc = "flush_next" /\ Steady(t) /\ task'[t].on = task[t].on
    BY <1>1, <2>1 DEF Steady, Frame
  <2>3. QED
    BY <1>2, <1>3, <2>1, <2>2
<1>4. CASE ~task[t].ok
  <2>1. task'[t] = Finish(t, FALSE) /\ table' = table
    BY <1>1, <1>4 DEF FlushOpened
  <2>2. QED
    BY <1>1, <1>2, <1>4, <2>1, FinishedFrame DEF Base
<1>5. QED
  BY <1>3, <1>4

LEMMA FlushNextFrame ==
  ASSUME Base, NEW t \in Worker, FlushNext(t)
  PROVE  /\ task[t].pc = "flush_next" /\ UNCHANGED fds
         /\ \/ /\ task'[t].pc = "enter" /\ task'[t].idx \in Idx /\ task'[t].ref # None
               /\ task'[t].fd = table[task[t].id].write_fd /\ table' = table
               /\ task'[t].op = task[t].op /\ task'[t].id = task[t].id
               /\ task'[t].evict = task[t].evict /\ task'[t].victim = task[t].victim
               /\ task'[t].todo = task[t].todo /\ task'[t].on = task[t].on
            \/ Finished(t)
<1>1. t \in Task /\ task \in [Task -> Frame] /\ task[t] \in Frame
  BY DEF Base, TypeOK, Task
<1>2. task[t].pc = "flush_next" /\ UNCHANGED fds
  BY DEF FlushNext, MayRun
<1> DEFINE e == table[task[t].id]
<1>3. CASE \E i \in Idx : FirstStop(t, i) /\ table' = table
             /\ task' = [task EXCEPT ![t] =
                  [task[t] EXCEPT !.pc = "enter", !.idx = i, !.fd = e.write_fd, !.ref = e.pages[i]]]
  <2>1. PICK i \in Idx : FirstStop(t, i) /\ table' = table
          /\ task' = [task EXCEPT ![t] =
               [task[t] EXCEPT !.pc = "enter", !.idx = i, !.fd = e.write_fd, !.ref = e.pages[i]]]
    BY <1>3
  <2> DEFINE w == e.write_fd
             r == e.pages[i]
  <2>2. r # None
    BY <2>1 DEF FirstStop, FlushStops
  <2>3. task'[t] = [task[t] EXCEPT !.pc = "enter", !.idx = i, !.fd = w, !.ref = r]
    BY <1>1, <2>1
  <2> HIDE DEF w, r
  <2>4. /\ task'[t].pc = "enter" /\ task'[t].idx = i /\ task'[t].ref = r
        /\ task'[t].fd = w /\ task'[t].op = task[t].op /\ task'[t].id = task[t].id
        /\ task'[t].evict = task[t].evict /\ task'[t].victim = task[t].victim
        /\ task'[t].todo = task[t].todo /\ task'[t].on = task[t].on
    BY <1>1, <2>3 DEF Frame
  <2>5. QED
    BY <1>2, <2>1, <2>2, <2>4 DEF w
<1>4. CASE task' = [task EXCEPT ![t] = Finish(t, task[t].ok)]
  <2>1. task'[t] = Finish(t, task[t].ok)
    BY <1>1, <1>4
  <2>2. QED
    BY <1>1, <1>2, <2>1, FinishedFrame DEF Base
<1>5. QED
  BY <1>3, <1>4 DEF FlushNext

-----------------------------------------------------------------------------
(* Frames stay well formed *)

LEMMA OwnFrame ==
  ASSUME Base, NEW t \in Worker, PageStep(t) \/ FlushStep(t)
  PROVE  FrameOf(t)'
<1>1. FrameOf(t) /\ client' = client
  BY StepFrames DEF Base, Frames
<1>2. task[t].victim # None => task[t].op \in {"read", "write"}
  BY DEF Base, Victims
<1>3. Finished(t) /\ task[t].pc # "idle" => FrameOf(t)'
  BY <1>1 DEF Finished, FrameOf, WellFormed
<1>4. CASE Enter(t)
  BY <1>1, <1>4, EnterFrame DEF FrameOf, WellFormed, Steady
<1>5. CASE Woken(t)
  BY <1>1, <1>2, <1>3, <1>5, WokenFrame DEF FrameOf, WellFormed, Steady, AfterFlushAt, InFunction
<1>6. CASE ReadFind(t)
  <2>1. task[t].pc = "body" /\ task[t].op = "read" /\ task[t].victim = None
    BY <1>6, ReadFindFrame
  <2>2. CASE task'[t].pc = "copy" /\ Moved(t)
    BY <1>1, <2>1, <2>2 DEF FrameOf, WellFormed, Moved
  <2>3. CASE task'[t].pc = "fetch" /\ Steady(t)
    BY <1>1, <2>1, <2>3 DEF FrameOf, WellFormed, Steady
  <2>4. CASE Requested(t, "read_open")
    BY <1>1, <2>1, <2>4 DEF FrameOf, WellFormed, Requested
  <2>5. QED
    BY <1>6, <2>2, <2>3, <2>4, ReadFindFrame
<1>7. CASE ReadOpened(t)
  BY <1>1, <1>3, <1>7, ReadOpenedFrame DEF FrameOf, WellFormed
<1>8. CASE ReadFetch(t)
  BY <1>1, <1>8, ReadFetchFrame DEF FrameOf, WellFormed, Steady
<1>9. CASE ReadFilled(t)
  <2>1. task[t].pc = "fill" /\ task[t].op = "read"
    BY <1>1, <1>9, ReadFilledFrame DEF FrameOf, WellFormed
  <2>2. CASE task'[t].pc = AfterInsert(lru') /\ Moved(t)
    BY <1>1, <2>1, <2>2 DEF FrameOf, WellFormed, Moved, AfterInsert
  <2>3. QED
    BY <1>3, <1>9, <2>1, <2>2, ReadFilledFrame
<1>10. CASE WriteFind(t)
  <2>1. task[t].pc = "body" /\ task[t].op = "write" /\ Moved(t)
    BY <1>10, WriteFindFrame
  <2>2. task'[t].pc \in {"copy", "evict"}
    BY <1>10, WriteFindFrame DEF AfterInsert
  <2>3. QED
    BY <1>1, <2>1, <2>2 DEF FrameOf, WellFormed, Moved
<1>11. CASE CopyPage(t)
  BY <1>3, <1>11, CopyPageFrame
<1>12. CASE EvictPop(t)
  <2>1. task[t].pc = "evict" /\ task[t].op \in {"read", "write"}
    BY <1>1, <1>12, EvictPopFrame DEF FrameOf, WellFormed
  <2>2. Last # None
    BY <1>12, LastPage, CacheAssumption
  <2>3. /\ task'[t].op = task[t].op /\ task'[t].id = task[t].id /\ task'[t].idx = task[t].idx
        /\ task'[t].todo = task[t].todo
        /\ \/ task'[t].pc = "evict"
           \/ task'[t].victim = Last /\ task'[t].pc \in {"enter", "evict_open"}
    BY <1>12, EvictPopFrame
  <2>4. QED
    BY <1>1, <2>1, <2>2, <2>3 DEF FrameOf, WellFormed
<1>13. CASE EvictDone(t)
  BY <1>1, <1>13, EvictDoneFrame DEF FrameOf, WellFormed, Steady
<1>14. CASE EvictOpened(t)
  BY <1>1, <1>14, EvictOpenedFrame DEF FrameOf, WellFormed, Steady, Dropped
<1>15. CASE EvictErase(t)
  BY <1>1, <1>15, EvictEraseFrame DEF FrameOf, WellFormed, Dropped
<1>16. CASE FlushWrite(t)
  BY <1>1, <1>16, FlushWriteFrame DEF FrameOf, WellFormed, Steady, InFunction
<1>17. CASE FlushAck(t)
  BY <1>1, <1>2, <1>17, FlushAckFrame DEF FrameOf, WellFormed, Steady, AfterFlushAt
<1>18. CASE Flush(t)
  <2>1. CASE Requested(t, "flush_open")
    BY <1>1, <1>18, <2>1, FlushFrame DEF FrameOf, WellFormed, Requested
  <2>2. CASE task'[t].pc = "flush_next" /\ Steady(t)
    BY <1>1, <1>18, <2>2, FlushFrame DEF FrameOf, WellFormed, Steady
  <2>3. QED
    BY <1>3, <1>18, <2>1, <2>2, FlushFrame
<1>19. CASE FlushOpened(t)
  BY <1>1, <1>3, <1>19, FlushOpenedFrame DEF FrameOf, WellFormed, Steady
<1>20. CASE FlushNext(t)
  <2>1. CASE Finished(t)
    BY <1>3, <1>20, <2>1, FlushNextFrame
  <2>2. CASE ~Finished(t)
    BY <1>1, <1>20, <2>2, FlushNextFrame DEF FrameOf, WellFormed
  <2>3. QED
    BY <2>1, <2>2
<1>21. QED
  BY <1>4, <1>5, <1>6, <1>7, <1>8, <1>9, <1>10, <1>11, <1>12, <1>13, <1>14, <1>15, <1>16, <1>17,
     <1>18, <1>19, <1>20 DEF PageStep, FlushStep

\* A step of one coroutine keeps the frames of all.
LEMMA WorkerFrames ==
  ASSUME Base, NEW t \in Worker, PageStep(t) \/ FlushStep(t)
  PROVE  Frames' /\ ReaperFrame'
<1>1. Others(t) /\ client' = client
  BY StepFrames
<1>2. ASSUME NEW u \in Worker, u # t
      PROVE  FrameOf(u)'
  <2>1. FrameOf(u)
    BY DEF Base, Frames
  <2>2. Kept(u)
    BY <1>1, <1>2 DEF Others, Task
  <2>3. QED
    BY <1>1, <2>1, <2>2 DEF FrameOf, WellFormed, Kept, Steady
<1>3. Reaper # t /\ Kept(Reaper)
  BY <1>1, CacheAssumption DEF Others, Task
<1>4. Frames'
  BY <1>2, OwnFrame DEF Frames
<1>5. task'[Reaper].on = None
  <2>1. task[Reaper].on = None
    BY DEF Base, ReaperFrame
  <2>2. CASE ReadFilled(t)
    BY <1>3, <2>1, <2>2, ReadFilledFrame DEF Task
  <2>3. CASE ~ReadFilled(t)
    BY <1>3, <2>1, <2>3, StepOthers DEF Task
  <2>4. QED
    BY <2>2, <2>3
<1>6. QED
  BY <1>3, <1>4, <1>5 DEF Base, ReaperFrame, Kept, Steady

-----------------------------------------------------------------------------
(* What a step of coroutine t does to the table: no entry comes or goes, no  *)
(* count changes, and only t's own in-flight marks do.                       *)

Alike(e, g, t) ==
  /\ g.reader = e.reader /\ g.writer = e.writer
  /\ \A u : u # t => (u \in g.write_inflight <=> u \in e.write_inflight)
SameFds(e, g)  == g.read_fd = e.read_fd /\ g.write_fd = e.write_fd
Holds(e, g, t) == t \in e.write_inflight => t \in g.write_inflight

KeepsEntries(t) ==
  \A id \in Id : IF table[id] = None THEN table'[id] = None
                 ELSE table'[id] # None /\ Alike(table[id], table'[id], t)
KeepsFds      == \A id \in Id : table[id] # None => SameFds(table[id], table'[id])
KeepsLocks(t) == \A id \in Id : table[id] # None => Holds(table[id], table'[id], t)

LEMMA SameTable ==
  ASSUME table' = table, NEW t
  PROVE  KeepsEntries(t) /\ KeepsFds /\ KeepsLocks(t)
BY DEF KeepsEntries, KeepsFds, KeepsLocks, Alike, SameFds, Holds

LEMMA OneEntry ==
  ASSUME Base, NEW t \in Worker, NEW id \in Id, NEW g \in Entry, table[id] # None,
         table' = [table EXCEPT ![id] = g], Alike(table[id], g, t)
  PROVE  /\ KeepsEntries(t)
         /\ SameFds(table[id], g) => KeepsFds
         /\ Holds(table[id], g, t) => KeepsLocks(t)
         /\ table'[id] = g
         /\ \A i \in Id : i # id => table'[i] = table[i]
<1>1. g # None
  BY CacheAssumption
<1>2. table'[id] = g /\ \A i \in Id : i # id => table'[i] = table[i]
  BY DEF Base, TypeOK
<1>3. ASSUME NEW i \in Id
      PROVE  /\ IF table[i] = None THEN table'[i] = None
                ELSE table'[i] # None /\ Alike(table[i], table'[i], t)
             /\ SameFds(table[id], g) /\ table[i] # None => SameFds(table[i], table'[i])
             /\ Holds(table[id], g, t) /\ table[i] # None => Holds(table[i], table'[i], t)
  <2>1. CASE i = id
    BY <1>1, <1>2, <2>1
  <2>2. CASE i # id
    BY <1>2, <2>2 DEF Alike, SameFds, Holds
  <2>3. QED
    BY <2>1, <2>2
<1>4. QED
  BY <1>2, <1>3 DEF KeepsEntries, KeepsFds, KeepsLocks

\* The in-flight mark of a read comes or goes, or a slot of pages changes.
LEMMA ReadMarks ==
  ASSUME Base, NEW t \in Worker, NEW id \in Id, table[id] # None,
         \/ table' = [table EXCEPT ![id].read_inflight = @ \cup {t}]
         \/ table' = [table EXCEPT ![id].read_inflight = @ \ {t}]
  PROVE  KeepsEntries(t) /\ KeepsFds /\ KeepsLocks(t)
<1> DEFINE e == table[id]
<1>1. e \in Entry
  BY DEF Base, TypeOK
<1>2. ASSUME NEW S \in SUBSET Worker, table' = [table EXCEPT ![id].read_inflight = S]
      PROVE  KeepsEntries(t) /\ KeepsFds /\ KeepsLocks(t)
  <2> DEFINE g == [e EXCEPT !.read_inflight = S]
  <2>1. table' = [table EXCEPT ![id] = g]
    BY <1>2 DEF Base, TypeOK
  <2>2. g \in Entry /\ Alike(e, g, t) /\ SameFds(e, g) /\ Holds(e, g, t)
    <3> HIDE DEF e
    <3> QED BY <1>1 DEF Entry, Alike, SameFds, Holds
  <2> HIDE DEF g
  <2>3. QED
    BY <2>1, <2>2, OneEntry
<1>3. e.read_inflight \cup {t} \in SUBSET Worker /\ e.read_inflight \ {t} \in SUBSET Worker
  <2> HIDE DEF e
  <2> QED BY <1>1 DEF Entry
<1>4. QED
  BY <1>2, <1>3

LEMMA SlotChange ==
  ASSUME Base, NEW t \in Worker, NEW id \in Id, table[id] # None, NEW i \in Idx,
         NEW r \in Ref \cup {None}, table' = [table EXCEPT ![id].pages[i] = r]
  PROVE  KeepsEntries(t) /\ KeepsFds /\ KeepsLocks(t)
<1> DEFINE e == table[id]
           g == [e EXCEPT !.pages[i] = r]
<1>1. e \in Entry
  BY DEF Base, TypeOK
<1>2. table' = [table EXCEPT ![id] = g]
  BY DEF Base, TypeOK
<1>3. g \in Entry /\ Alike(e, g, t) /\ SameFds(e, g) /\ Holds(e, g, t)
  <2> HIDE DEF e
  <2> QED BY <1>1 DEF Entry, Alike, SameFds, Holds
<1> HIDE DEF g
<1>4. QED
  BY <1>2, <1>3, OneEntry

LEMMA LeaveReadTable ==
  ASSUME Base, NEW t \in Worker, task[t].pc # "idle", table' = LeaveRead(t)
  PROVE  KeepsEntries(t) /\ KeepsFds /\ KeepsLocks(t)
<1>1. task[t].id \in Id /\ table[task[t].id] # None
  BY InUse, CacheAssumption
<1>2. QED
  BY <1>1, ReadMarks DEF LeaveRead

LEMMA LockWriteTable ==
  ASSUME Base, NEW t \in Worker, task[t].pc # "idle", NEW fd \in Fd \cup {None},
         table' = LockWrite(t, fd)
  PROVE  /\ KeepsEntries(t) /\ KeepsLocks(t)
         /\ table'[task[t].id].write_fd = fd /\ t \in table'[task[t].id].write_inflight
         /\ table'[task[t].id].read_fd = table[task[t].id].read_fd
         /\ \A i \in Id : i # task[t].id => table'[i] = table[i]
<1> DEFINE id == task[t].id
           e == table[id]
           g == [e EXCEPT !.write_fd = fd, !.write_inflight = e.write_inflight \cup {t}]
<1>1. id \in Id /\ e \in Entry
  BY InUse
<1>2. table' = [table EXCEPT ![id] = g]
  <2>1. table \in [Id -> Entry \cup {None}]
    BY DEF Base, TypeOK
  <2>2. [[e EXCEPT !.write_fd = fd] EXCEPT !.write_inflight = @ \cup {t}] = g
    <3> HIDE DEF e
    <3> QED BY <1>1 DEF Entry
  <2> HIDE DEF g
  <2>3. QED
    BY <1>1, <2>1, <2>2 DEF LockWrite
<1>3. /\ g \in Entry /\ Alike(e, g, t) /\ Holds(e, g, t) /\ g.write_fd = fd
      /\ t \in g.write_inflight /\ g.read_fd = e.read_fd
  <2> HIDE DEF e
  <2> QED BY <1>1 DEF Entry, Alike, Holds
<1> HIDE DEF g
<1>4. e # None
  BY <1>1, CacheAssumption
<1>5. KeepsEntries(t) /\ KeepsLocks(t) /\ table'[id] = g /\ \A i \in Id : i # id => table'[i] = table[i]
  <2> HIDE DEF id, e
  <2>1. id \in Id /\ e = table[id]
    BY <1>1 DEF id, e
  <2>2. QED
    BY <1>2, <1>3, <1>4, <2>1, OneEntry
<1>6. QED
  BY <1>3, <1>5

LEMMA PageTables ==
  ASSUME Base, NEW t \in Worker, PageStep(t), ~ReadOpened(t)
  PROVE  KeepsEntries(t) /\ KeepsFds /\ KeepsLocks(t)
<1>1. CASE Enter(t)
  <2>1. task[t].id \in Id /\ table[task[t].id] # None
    BY <1>1, InUse, CacheAssumption DEF Enter, MayRun
  <2>2. QED
    BY <1>1, <2>1, ReadMarks, SameTable DEF Enter
<1>2. CASE Woken(t)
  <2>1. task[t].pc # "idle"
    BY <1>2 DEF Woken, MayRun
  <2>2. QED
    BY <1>2, <2>1, LeaveReadTable, SameTable DEF Woken
<1>3. CASE ReadFind(t) \/ ReadFetch(t)
  BY <1>3, SameTable DEF ReadFind, ReadFetch
<1>4. CASE ReadFilled(t)
  <2>1. /\ task[t].pc = "fill" /\ task[t].id \in Id /\ table[task[t].id] \in Entry
        /\ task[t].idx \in Idx
    BY <1>4, InUse DEF ReadFilled, Answered, Base, Frames, FrameOf, WellFormed
  <2>2. CASE table' = LeaveRead(t)
    BY <2>1, <2>2, LeaveReadTable
  <2>3. CASE table' # LeaveRead(t)
    <3> DEFINE old  == table[task[t].id].pages[task[t].idx]
               slot == IF old = None THEN FreshRef ELSE old
    <3>1. FreshRef \in Ref /\ table' = [table EXCEPT ![task[t].id].pages[task[t].idx] = slot]
      BY <1>4, <2>3, FreshRefIsFree DEF ReadFilled
    <3>2. old \in Ref \cup {None}
      BY <2>1 DEF Entry
    <3>3. slot \in Ref \cup {None} /\ table[task[t].id] # None
      BY <2>1, <3>1, <3>2, CacheAssumption
    <3> HIDE DEF slot
    <3>4. QED
      BY <2>1, <3>1, <3>3, SlotChange
  <2>4. QED
    BY <2>2, <2>3
<1>5. CASE WriteFind(t)
  <2>1. /\ task[t].pc = "body" /\ task[t].id \in Id /\ table[task[t].id] # None
        /\ task[t].idx \in Idx
    <3>1. task[t].pc = "body" /\ task[t].op = "write"
      BY <1>5 DEF WriteFind, MayRun, InFunction
    <3>2. task[t].id \in Id /\ table[task[t].id] \in Entry /\ t[2] \in Idx
      BY <3>1, InUse
    <3>3. task[t].idx = t[2]
      BY <3>1 DEF Base, Frames, FrameOf, WellFormed
    <3>4. QED
      BY <3>1, <3>2, <3>3, CacheAssumption
  <2>2. CASE table' = table
    BY <2>2, SameTable
  <2>3. CASE table' # table
    <3>1. FreshRef \in Ref /\ table' = [table EXCEPT ![task[t].id].pages[task[t].idx] = FreshRef]
      BY <1>5, <2>3, FreshRefIsFree DEF WriteFind
    <3>2. QED
      BY <2>1, <3>1, SlotChange
  <2>4. QED
    BY <2>2, <2>3
<1>6. CASE CopyPage(t)
  <2>1. task[t].pc # "idle"
    BY <1>6 DEF CopyPage, MayRun
  <2>2. QED
    BY <1>6, <2>1, LeaveReadTable, SameTable DEF CopyPage
<1>7. QED
  BY <1>1, <1>2, <1>3, <1>4, <1>5, <1>6 DEF PageStep

LEMMA ReadOpenedTable ==
  ASSUME Base, NEW t \in Worker, ReadOpened(t)
  PROVE  /\ KeepsEntries(t) /\ KeepsLocks(t) /\ fds' = fds
         /\ IF task[t].ok
            THEN /\ table'[task[t].id].read_fd = task[t].fd
                 /\ table'[task[t].id].write_fd = table[task[t].id].write_fd
                 /\ \A i \in Id : i # task[t].id => table'[i] = table[i]
            ELSE KeepsFds
<1> DEFINE id == task[t].id
           e == table[id]
           fd == task[t].fd
           g == [e EXCEPT !.read_fd = fd]
<1>1. task[t].pc # "idle" /\ id \in Id /\ e \in Entry /\ fds' = fds /\ fd \in Fd \cup {None}
  BY InUse DEF ReadOpened, Answered, Frame
<1>2. CASE task[t].ok
  <2>1. table' = [table EXCEPT ![id] = g]
    BY <1>1, <1>2 DEF ReadOpened, Base, TypeOK
  <2>2. /\ g \in Entry /\ Alike(e, g, t) /\ Holds(e, g, t)
        /\ g.read_fd = fd /\ g.write_fd = e.write_fd
    <3> HIDE DEF e, fd
    <3> QED BY <1>1 DEF Entry, Alike, Holds
  <2> HIDE DEF g
  <2>3. e # None
    BY <1>1, CacheAssumption
  <2>4. QED
    BY <1>1, <1>2, <2>1, <2>2, <2>3, OneEntry
<1>3. CASE ~task[t].ok
  BY <1>1, <1>3, LeaveReadTable DEF ReadOpened
<1>4. QED
  BY <1>2, <1>3

LEMMA EvictPopTable ==
  ASSUME Base, NEW t \in Worker, EvictPop(t)
  PROVE  /\ KeepsEntries(t) /\ KeepsFds /\ KeepsLocks(t)
         /\ table[Last.key[1]] # None /\ Last.dirty => t \in table'[Last.key[1]].write_inflight
<1> DEFINE id == Last.key[1]
           i == Last.key[2]
           e == table[id]
<1>1. id \in Id /\ i \in Idx /\ e \in Entry \cup {None}
  BY LastPage
<1>2. CASE e = None \/ ~Last.dirty
  <2>1. CASE e = None
    BY <1>2, <2>1, SameTable DEF EvictPop, Last
  <2>2. CASE e # None
    <3>1. table' = [table EXCEPT ![id].pages[i] = None]
      BY <1>2, <2>2 DEF EvictPop, Last
    <3>2. QED
      BY <1>1, <1>2, <2>2, <3>1, SlotChange
  <2>3. QED
    BY <2>1, <2>2
<1>3. CASE e # None /\ Last.dirty
  <2> DEFINE g == [e EXCEPT !.write_inflight = e.write_inflight \cup {t}]
  <2>1. table' = [table EXCEPT ![id] = g]
    <3>1. table' = [table EXCEPT ![id].write_inflight = @ \cup {t}]
      BY <1>3 DEF EvictPop, Last
    <3>2. QED
      BY <1>1, <3>1 DEF Base, TypeOK
  <2>2. /\ g \in Entry /\ Alike(e, g, t) /\ SameFds(e, g) /\ Holds(e, g, t)
        /\ t \in g.write_inflight
    <3> HIDE DEF e
    <3> QED BY <1>1, <1>3 DEF Entry, Alike, SameFds, Holds
  <2> HIDE DEF g
  <2>3. QED
    BY <1>1, <1>3, <2>1, <2>2, OneEntry
<1>4. QED
  BY <1>2, <1>3

LEMMA EvictOpenedTable ==
  ASSUME Base, NEW t \in Worker, EvictOpened(t)
  PROVE  /\ KeepsEntries(t) /\ fds' = fds
         /\ IF task[t].ok
            THEN /\ KeepsLocks(t)
                 /\ table'[task[t].victim.key[1]].write_fd = task[t].fd
                 /\ table'[task[t].victim.key[1]].read_fd = table[task[t].victim.key[1]].read_fd
                 /\ \A i \in Id : i # task[t].victim.key[1] => table'[i] = table[i]
            ELSE KeepsFds
<1>1. task[t].victim # None /\ task[t] \in Frame
  BY InUse DEF EvictOpened, Answered, Base, Frames, FrameOf, WellFormed
<1> DEFINE id == task[t].victim.key[1]
           e == table[id]
           fd == task[t].fd
<1>2. id \in Id /\ e \in Entry /\ e # None /\ fds' = fds /\ fd \in Fd \cup {None}
  <2>1. id \in Id /\ e \in Entry
    BY <1>1, VictimInUse
  <2>2. fd \in Fd \cup {None}
    BY <1>1 DEF Frame
  <2>3. fds' = fds
    BY DEF EvictOpened
  <2>4. QED
    BY <2>1, <2>2, <2>3, CacheAssumption
<1>3. CASE task[t].ok
  <2> DEFINE g == [e EXCEPT !.write_fd = fd]
  <2>1. table' = [table EXCEPT ![id] = g]
    BY <1>2, <1>3 DEF EvictOpened, Base, TypeOK
  <2>2. /\ g \in Entry /\ Alike(e, g, t) /\ Holds(e, g, t)
        /\ g.write_fd = fd /\ g.read_fd = e.read_fd
    <3> HIDE DEF e, fd
    <3> QED BY <1>2 DEF Entry, Alike, Holds
  <2> HIDE DEF g
  <2>3. QED
    BY <1>2, <1>3, <2>1, <2>2, OneEntry
<1>4. CASE ~task[t].ok
  <2> DEFINE g == [e EXCEPT !.write_inflight = e.write_inflight \ {t}]
  <2>1. table' = [table EXCEPT ![id] = g]
    <3>1. table' = [table EXCEPT ![id].write_inflight = @ \ {t}]
      BY <1>4 DEF EvictOpened
    <3>2. QED
      BY <1>2, <3>1 DEF Base, TypeOK
  <2>2. g \in Entry /\ Alike(e, g, t) /\ SameFds(e, g)
    <3> HIDE DEF e
    <3> QED BY <1>2 DEF Entry, Alike, SameFds
  <2> HIDE DEF g
  <2>3. QED
    BY <1>2, <1>4, <2>1, <2>2, OneEntry
<1>5. QED
  BY <1>3, <1>4

LEMMA EvictEraseTable ==
  ASSUME Base, NEW t \in Worker, EvictErase(t)
  PROVE  KeepsEntries(t) /\ KeepsFds /\ fds' = fds
<1>1. task[t].victim # None
  BY DEF EvictErase, MayRun, Base, Frames, FrameOf, WellFormed
<1> DEFINE id == task[t].victim.key[1]
           i == task[t].victim.key[2]
           e == table[id]
           g == [e EXCEPT !.write_inflight = e.write_inflight \ {t}, !.pages[i] = None]
<1>2. id \in Id /\ i \in Idx /\ e \in Entry /\ e # None
  BY <1>1, VictimInUse, CacheAssumption
<1>3. table' = [table EXCEPT ![id] = g]
  <2>1. table \in [Id -> Entry \cup {None}]
    BY DEF Base, TypeOK
  <2>2. [[e EXCEPT !.write_inflight = @ \ {t}] EXCEPT !.pages[i] = None] = g
    <3> HIDE DEF e
    <3> QED BY <1>2 DEF Entry
  <2> HIDE DEF g
  <2>3. QED
    BY <1>2, <2>1, <2>2 DEF EvictErase
<1>4. g \in Entry /\ Alike(e, g, t) /\ SameFds(e, g)
  <2> HIDE DEF e, i
  <2> QED BY <1>2 DEF Entry, Alike, SameFds
<1> HIDE DEF g
<1>5. QED
  BY <1>2, <1>3, <1>4, OneEntry DEF EvictErase

LEMMA FlushNextTable ==
  ASSUME Base, NEW t \in Worker, FlushNext(t)
  PROVE  KeepsEntries(t) /\ KeepsFds
<1> DEFINE id == task[t].id
           e == table[id]
           d == e.dirty /\ ~task[t].ok
           g == [e EXCEPT !.write_inflight = e.write_inflight \ {t}, !.dirty = d]
<1>1. id \in Id /\ e \in Entry /\ e # None
  <2>1. task[t].pc = "flush_next"
    BY DEF FlushNext, MayRun
  <2>2. id \in Id /\ e \in Entry
    BY <2>1, InUse
  <2>3. QED
    BY <2>2, CacheAssumption
<1>2. CASE table' = table
  BY <1>2, SameTable
<1>3. CASE table' # table
  <2>1. table \in [Id -> Entry \cup {None}]
    BY DEF Base, TypeOK
  <2>2. [[e EXCEPT !.write_inflight = @ \ {t}] EXCEPT !.dirty = d] = g
    <3> HIDE DEF e, d
    <3> QED BY <1>1 DEF Entry
  <2>3. table' = [table EXCEPT ![id].write_inflight = @ \ {t}, ![id].dirty = @ /\ ~task[t].ok]
    BY <1>3 DEF FlushNext
  <2>4. table' = [table EXCEPT ![id] = g]
    <3>1. [e EXCEPT !.write_inflight = @ \ {t}].dirty = e.dirty
      <4> HIDE DEF e
      <4> QED BY <1>1 DEF Entry
    <3> HIDE DEF g
    <3>2. QED
      BY <1>1, <2>1, <2>2, <2>3, <3>1
  <2>5. g \in Entry /\ Alike(e, g, t) /\ SameFds(e, g)
    <3>1. d \in BOOLEAN
      OBVIOUS
    <3> HIDE DEF e, d
    <3>2. QED
      BY <1>1, <3>1 DEF Entry, Alike, SameFds
  <2> HIDE DEF g
  <2>6. QED
    BY <1>1, <2>4, <2>5, OneEntry
<1>4. QED
  BY <1>2, <1>3

\* Every step of a coroutine keeps the entries and the marks of the others.
LEMMA StepEntries ==
  ASSUME Base, NEW t \in Worker, PageStep(t) \/ FlushStep(t)
  PROVE  KeepsEntries(t)
<1>1. CASE Flush(t)
  <2>1. task[t].pc # "idle" /\ task[t].id \in Id /\ table[task[t].id] \in Entry
    BY <1>1, InUse DEF Flush, MayRun
  <2>2. table[task[t].id].write_fd \in Fd \cup {None}
    BY <2>1 DEF Entry
  <2>3. QED
    BY <1>1, <2>1, <2>2, SameTable, LockWriteTable DEF Flush
<1>2. CASE FlushOpened(t)
  <2>1. task[t].pc # "idle" /\ task[t] \in Frame
    BY <1>2, InUse DEF FlushOpened, Answered
  <2>2. task[t].fd \in Fd \cup {None}
    BY <2>1 DEF Frame
  <2>3. QED
    BY <1>2, <2>1, <2>2, SameTable, LockWriteTable DEF FlushOpened
<1>3. CASE EvictDone(t) \/ FlushWrite(t) \/ FlushAck(t)
  BY <1>3, SameTable DEF EvictDone, FlushWrite, FlushAck
<1>4. QED
  BY <1>1, <1>2, <1>3, PageTables, ReadOpenedTable, EvictPopTable, EvictOpenedTable,
     EvictEraseTable, FlushNextTable DEF PageStep, FlushStep

-----------------------------------------------------------------------------
(* The rest of Base under a step of a coroutine *)

LEMMA WorkerHandles ==
  ASSUME Base, NEW t \in Worker, PageStep(t) \/ FlushStep(t)
  PROVE  Handles' /\ Counts'
<1>1. KeepsEntries(t) /\ client' = client
  BY StepEntries, StepFrames
<1>2. Handles'
  BY <1>1 DEF Base, Handles, KeepsEntries
<1>3. ASSUME NEW id \in Id, table'[id] # None
      PROVE  /\ table'[id].reader >= Cardinality(ReadersOf(id))
             /\ table'[id].writer >= Cardinality(WritersOf(id))
  BY <1>1, <1>3 DEF Base, Counts, KeepsEntries, Alike
<1>4. \A id \in Id : ReadersOf(id)' = ReadersOf(id) /\ WritersOf(id)' = WritersOf(id)
  BY <1>1 DEF ReadersOf, WritersOf
<1>5. QED
  BY <1>2, <1>3, <1>4 DEF Counts

\* The victim of a coroutine other than the one that moves.
LEMMA OtherVictims ==
  ASSUME Base, NEW t \in Worker, PageStep(t) \/ FlushStep(t), NEW u \in Worker, u # t,
         task'[u].victim # None
  PROVE  /\ table'[task'[u].victim.key[1]] # None
         /\ u \in table'[task'[u].victim.key[1]].write_inflight
         /\ task'[u].op \in {"read", "write"}
         /\ task'[u].pc \in {"enter", "wait", "body", "flush_ack", "evict_open", "evict_erase"}
<1>1. Kept(u) /\ KeepsEntries(t)
  BY StepFrames, StepEntries DEF Others, Task
<1>2. task[u].victim # None /\ task[u].victim.key[1] \in Id
  BY <1>1, VictimInUse DEF Kept, Steady
<1>3. QED
  BY <1>1, <1>2 DEF Kept, Steady, KeepsEntries, Alike, Base, Victims

VictimOf(t) ==
  task[t].victim # None =>
    /\ table[task[t].victim.key[1]] # None
    /\ t \in table[task[t].victim.key[1]].write_inflight
    /\ task[t].op \in {"read", "write"}
    /\ task[t].pc \in {"enter", "wait", "body", "flush_ack", "evict_open", "evict_erase"}

LEMMA OwnVictim ==
  ASSUME Base, NEW t \in Worker, PageStep(t) \/ FlushStep(t)
  PROVE  VictimOf(t)'
<1>1. VictimOf(t)
  BY DEF Base, Victims, VictimOf
<1>2. FrameOf(t)
  BY DEF Base, Frames
<1>3. task[t].victim # None => task[t].victim.key[1] \in Id
  BY VictimInUse
<1>4. Finished(t) => VictimOf(t)'
  BY DEF Finished, VictimOf
\* A step that keeps the page it is about.
<1>5. ASSUME Steady(t), KeepsEntries(t), KeepsLocks(t),
             task'[t].pc \in {"enter", "wait", "body", "flush_ack", "evict_open", "evict_erase"}
      PROVE  VictimOf(t)'
  <2>1. task[t].victim = None \/ task[t].victim.key[1] \in Id
    BY <1>3
  <2>2. QED
    BY <1>1, <1>5, <2>1 DEF VictimOf, Steady, KeepsEntries, KeepsLocks, Holds
<1>6. CASE Enter(t)
  <2>1. KeepsEntries(t) /\ KeepsLocks(t)
    BY <1>6, PageTables DEF PageStep, Enter, MayRun, ReadOpened, Answered
  <2>2. QED
    BY <1>5, <1>6, <2>1, EnterFrame
<1>7. CASE Woken(t)
  <2>1. KeepsEntries(t) /\ KeepsLocks(t)
    BY <1>7, PageTables DEF PageStep, Woken, MayRun, ReadOpened, Answered
  <2>2. CASE task'[t].pc = AfterFlushAt(t) /\ Steady(t)
    BY <1>5, <2>1, <2>2 DEF AfterFlushAt, VictimOf, Steady
  <2>3. QED
    BY <1>4, <1>5, <1>7, <2>1, <2>2, WokenFrame
<1>8. CASE ReadFind(t) \/ ReadOpened(t) \/ ReadFetch(t) \/ ReadFilled(t) \/ WriteFind(t) \/ CopyPage(t)
  <2>1. task[t].victim = None
    BY <1>1, <1>8, ReadFindFrame, ReadOpenedFrame, ReadFetchFrame, ReadFilledFrame, WriteFindFrame,
       CopyPageFrame DEF VictimOf
  <2>2. task'[t].victim = None
    <3>1. CASE ReadFind(t)
      BY <2>1, <3>1, ReadFindFrame DEF Moved, Steady
    <3>2. CASE ReadOpened(t)
      BY <2>1, <3>2, ReadOpenedFrame DEF Finished
    <3>3. CASE ReadFetch(t)
      BY <2>1, <3>3, ReadFetchFrame DEF Steady
    <3>4. CASE ReadFilled(t)
      BY <2>1, <3>4, ReadFilledFrame DEF Moved, Finished
    <3>5. CASE WriteFind(t)
      BY <2>1, <3>5, WriteFindFrame DEF Moved
    <3>6. CASE CopyPage(t)
      BY <3>6, CopyPageFrame DEF Finished
    <3>7. QED
      BY <1>8, <3>1, <3>2, <3>3, <3>4, <3>5, <3>6
  <2>3. QED
    BY <2>2 DEF VictimOf
<1>9. CASE EvictPop(t)
  <2>1. task[t].pc = "evict" /\ task[t].victim = None /\ task[t].op \in {"read", "write"}
    BY <1>1, <1>2, <1>9, EvictPopFrame DEF VictimOf, FrameOf, WellFormed
  <2>2. CASE table[Last.key[1]] = None \/ ~Last.dirty
    BY <1>9, <2>1, <2>2, EvictPopFrame DEF VictimOf
  <2>3. CASE table[Last.key[1]] # None /\ Last.dirty
    <3>1. KeepsEntries(t) /\ t \in table'[Last.key[1]].write_inflight /\ Last.key[1] \in Id
      BY <1>9, <2>3, EvictPopTable, LastPage
    <3>2. table'[Last.key[1]] # None
      BY <2>3, <3>1 DEF KeepsEntries
    <3>3. task'[t].victim = Last /\ task'[t].pc \in {"enter", "evict_open"} /\ task'[t].op = task[t].op
      BY <1>9, <2>3, EvictPopFrame
    <3>4. QED
      BY <2>1, <3>1, <3>2, <3>3 DEF VictimOf
  <2>4. QED
    BY <2>2, <2>3
<1>10. CASE EvictDone(t)
  BY <1>1, <1>10, EvictDoneFrame DEF VictimOf, Steady
<1>11. CASE EvictOpened(t)
  <2>1. CASE task[t].ok
    BY <1>5, <1>11, <2>1, EvictOpenedFrame, EvictOpenedTable
  <2>2. CASE ~task[t].ok
    BY <1>11, <2>2, EvictOpenedFrame DEF Dropped, VictimOf
  <2>3. QED
    BY <2>1, <2>2
<1>12. CASE EvictErase(t)
  BY <1>12, EvictEraseFrame DEF Dropped, VictimOf
<1>13. CASE FlushWrite(t)
  BY <1>5, <1>13, FlushWriteFrame, SameTable DEF FlushWrite
<1>14. CASE FlushAck(t)
  <2>1. KeepsEntries(t) /\ KeepsLocks(t)
    BY <1>14, SameTable DEF FlushAck
  <2>2. task'[t].pc = AfterFlushAt(t) /\ Steady(t)
    BY <1>14, FlushAckFrame
  <2>3. QED
    BY <1>5, <2>1, <2>2 DEF AfterFlushAt, VictimOf, Steady
<1>15. CASE Flush(t) \/ FlushOpened(t) \/ FlushNext(t)
  <2>1. task[t].victim = None
    BY <1>1, <1>15, FlushFrame, FlushOpenedFrame, FlushNextFrame DEF VictimOf
  <2>2. task'[t].victim = None
    BY <1>15, <2>1, FlushFrame, FlushOpenedFrame, FlushNextFrame DEF Finished, Steady
  <2>3. QED
    BY <2>2 DEF VictimOf
<1>16. QED
  BY <1>6, <1>7, <1>8, <1>9, <1>10, <1>11, <1>12, <1>13, <1>14, <1>15 DEF PageStep, FlushStep

LEMMA WorkerVictims ==
  ASSUME Base, NEW t \in Worker, PageStep(t) \/ FlushStep(t)
  PROVE  Victims'
BY OwnVictim, OtherVictims DEF Victims, VictimOf

\* A new node, which is not in the list, at the front.
LEMMA NodeInserted ==
  ASSUME Base, FreeRefs # {}, lru' = << FreshRef >> \o lru, NEW p \in Page,
         page' = [page EXCEPT ![FreshRef] = p]
  PROVE  ListNodes'
<1>1. FreshRef \in Ref /\ ~Live(FreshRef) /\ lru \in Seq(Ref) /\ page \in [Ref -> Page \cup {None}]
  BY FreshRefIsFree DEF Base, TypeOK
<1>2. /\ Len(lru') = Len(lru) + 1 /\ lru'[1] = FreshRef
      /\ \A k \in 2..(Len(lru) + 1) : lru'[k] = lru[k - 1]
      /\ Len(lru) \in Nat /\ \A k \in 1..Len(lru) : lru[k] \in Ref /\ lru[k] # FreshRef
  BY <1>1, PushFront, LenProperties, ElementOfSeq DEF Live
<1>3. /\ page'[FreshRef] = p /\ p # None
      /\ \A r \in Ref : r # FreshRef => page'[r] = page[r]
  BY <1>1, CacheAssumption
<1>4. ASSUME NEW k \in 1..Len(lru')
      PROVE  \/ k = 1 /\ lru'[k] = FreshRef
             \/ k # 1 /\ k - 1 \in 1..Len(lru) /\ lru'[k] = lru[k - 1]
  BY <1>2
<1>5. \A k \in 1..Len(lru) : page[lru[k]] # None
  BY DEF Base, ListNodes
<1>6. \A k, m \in 1..Len(lru) : lru[k] = lru[m] => k = m
  BY DEF Base, ListNodes
<1>7. ASSUME NEW k \in 1..Len(lru')
      PROVE  page'[lru'[k]] # None
  BY <1>2, <1>3, <1>4, <1>5
<1>8. ASSUME NEW k \in 1..Len(lru'), NEW m \in 1..Len(lru'), lru'[k] = lru'[m]
      PROVE  k = m
  <2>1. CASE k = 1
    BY <1>2, <1>4, <1>8, <2>1
  <2>2. CASE m = 1
    BY <1>2, <1>4, <1>8, <2>2
  <2>3. CASE k # 1 /\ m # 1
    <3>1. k - 1 = m - 1
      BY <1>4, <1>6, <1>8, <2>3
    <3>2. QED
      BY <1>2, <3>1
  <2>4. QED
    BY <2>1, <2>2, <2>3
<1>9. QED
  BY <1>7, <1>8 DEF ListNodes

LEMMA NodeMoved ==
  ASSUME Base, NEW r \in Ref, Live(r), lru' = ToFront(r),
         \A q \in Ref : page[q] # None => page'[q] # None
  PROVE  ListNodes'
<1>1. lru \in Seq(Ref) /\ Len(lru) \in Nat /\ \A k \in 1..Len(lru) : lru[k] \in Ref
  BY LenProperties, ElementOfSeq DEF Base, TypeOK
<1>2. Len(lru') = Len(lru)
  BY <1>1, MoveToFront
<1>3. PICK j \in 1..Len(lru) :
        /\ lru[j] = r
        /\ \A m \in 1..Len(lru) :
             ToFront(r)[m] = IF m = 1 THEN r ELSE IF m <= j THEN lru[m - 1] ELSE lru[m]
  BY <1>1, MoveToFront
<1> DEFINE from(m) == IF m = 1 THEN j ELSE IF m <= j THEN m - 1 ELSE m
<1>4. \A m \in 1..Len(lru) : from(m) \in 1..Len(lru) /\ lru'[m] = lru[from(m)]
  BY <1>1, <1>3
<1>5. \A m, n \in 1..Len(lru) : from(m) = from(n) => m = n
  BY <1>1
<1> HIDE DEF from
<1>6. /\ \A k \in 1..Len(lru) : page[lru[k]] # None
      /\ \A k, m \in 1..Len(lru) : lru[k] = lru[m] => k = m
  BY DEF Base, ListNodes
<1>7. ASSUME NEW k \in 1..Len(lru')
      PROVE  page'[lru'[k]] # None
  <2>1. from(k) \in 1..Len(lru) /\ lru'[k] = lru[from(k)]
    BY <1>2, <1>4
  <2>2. lru[from(k)] \in Ref /\ page[lru[from(k)]] # None
    BY <1>1, <1>6, <2>1
  <2>3. QED
    BY <2>1, <2>2
<1>8. ASSUME NEW k \in 1..Len(lru'), NEW m \in 1..Len(lru'), lru'[k] = lru'[m]
      PROVE  k = m
  <2>1. from(k) = from(m)
    BY <1>2, <1>4, <1>6, <1>8
  <2>2. QED
    BY <1>2, <1>5, <2>1
<1>9. QED
  BY <1>7, <1>8 DEF ListNodes

LEMMA NodeRemoved ==
  ASSUME Base, NEW t \in Worker, EvictPop(t)
  PROVE  ListNodes'
<1>1. /\ lru \in Seq(Ref) /\ Len(lru) \in Nat \ {0} /\ lru[Len(lru)] \in Ref
      /\ lru' = SubSeq(lru, 1, Len(lru) - 1) /\ lru # << >>
      /\ page' = [page EXCEPT ![lru[Len(lru)]] = None] /\ page \in [Ref -> Page \cup {None}]
  BY LastPage DEF EvictPop, Base, TypeOK
<1>2. /\ Len(lru') = Len(lru) - 1
      /\ \A k \in 1..(Len(lru) - 1) : lru'[k] = lru[k]
      /\ \A k \in 1..Len(lru) : lru[k] \in Ref
  BY <1>1, PopBack, ElementOfSeq
<1>3. /\ \A k \in 1..Len(lru) : page[lru[k]] # None
      /\ \A k, m \in 1..Len(lru) : lru[k] = lru[m] => k = m
  BY DEF Base, ListNodes
<1> DEFINE n == Len(lru)
           last == lru[n]
<1>4. n \in Nat \ {0} /\ n \in 1..n
  BY <1>1
<1>5. \A r \in Ref : r # last => page'[r] = page[r]
  BY <1>1
<1>6. ASSUME NEW k \in 1..(n - 1)
      PROVE  k \in 1..n /\ lru'[k] = lru[k] /\ lru[k] # last
  BY <1>2, <1>3, <1>4
<1> HIDE DEF n, last
<1>7. Len(lru') = n - 1 /\ \A k \in 1..n : lru[k] \in Ref /\ page[lru[k]] # None
  BY <1>2, <1>3 DEF n
<1>8. \A k, m \in 1..n : lru[k] = lru[m] => k = m
  BY <1>3 DEF n
<1>9. QED
  BY <1>5, <1>6, <1>7, <1>8 DEF ListNodes

LEMMA WorkerList ==
  ASSUME Base, NEW t \in Worker, PageStep(t) \/ FlushStep(t)
  PROVE  ListNodes'
<1>1. ASSUME lru' = lru, \A q \in Ref : page[q] # None => page'[q] # None
      PROVE  ListNodes'
  <2>1. \A k \in 1..Len(lru) : lru[k] \in Ref
    BY ElementOfSeq DEF Base, TypeOK
  <2>2. QED
    BY <1>1, <2>1 DEF Base, ListNodes
<1>2. CASE ReadFilled(t)
  <2>1. /\ task[t].pc = "fill" /\ task[t].id \in Id /\ task[t].idx \in Idx /\ task[t].val \in Bytes
    BY <1>2, InUse DEF ReadFilled, Answered, Base, Frames, FrameOf, WellFormed, Frame
  <2>2. NewPage(<<task[t].id, task[t].idx>>, task[t].val) \in Page
    BY <2>1, NewPageType DEF Key
  <2>3. CASE task[t].ok /\ readQueue[KeyOf(t)] # None
    <3>1. /\ FreeRefs # {} /\ lru' = << FreshRef >> \o lru
          /\ page' = [page EXCEPT ![FreshRef] = NewPage(<<task[t].id, task[t].idx>>, task[t].val)]
      BY <1>2, <2>3 DEF ReadFilled
    <3>2. QED
      BY <2>2, <3>1, NodeInserted
  <2>4. CASE ~(task[t].ok /\ readQueue[KeyOf(t)] # None)
    BY <1>1, <1>2, <2>4 DEF ReadFilled
  <2>5. QED
    BY <2>3, <2>4
<1>3. CASE WriteFind(t)
  <2>1. /\ task[t].pc = "body" /\ task[t].id \in Id /\ task[t].idx \in Idx
    BY <1>3, InUse DEF WriteFind, MayRun, InFunction, Base, Frames, FrameOf, WellFormed
  <2>2. NewPage(<<task[t].id, task[t].idx>>, None) \in Page
    BY <2>1, NewPageType DEF Key, Bytes
  <2>3. CASE lru' = lru /\ page' = page
    BY <1>1, <2>3
  <2>4. CASE ~(lru' = lru /\ page' = page)
    <3>1. /\ FreeRefs # {} /\ lru' = << FreshRef >> \o lru
          /\ page' = [page EXCEPT ![FreshRef] = NewPage(<<task[t].id, task[t].idx>>, None)]
      BY <1>3, <2>4 DEF WriteFind
    <3>2. QED
      BY <2>2, <3>1, NodeInserted
  <2>5. QED
    BY <2>3, <2>4
<1>4. CASE CopyPage(t)
  <2> DEFINE r == task[t].ref
  <2>1. Live(r) /\ lru' = ToFront(r)
    BY <1>4 DEF CopyPage, IteratorValid
  <2>2. r \in Ref
    BY <2>1, ElementOfSeq DEF Live, Base, TypeOK
  <2>3. page' \in [Ref -> Page \cup {None}] /\ page \in [Ref -> Page \cup {None}]
    BY <1>4, CopyPageType DEF Base, TypeOK
  <2>4. page[r] # None
    BY <2>1 DEF Live, Base, ListNodes
  <2>5. ASSUME NEW q \in Ref, page[q] # None
        PROVE  page'[q] # None
    <3>1. CASE q # r \/ task[t].op # "write"
      BY <1>4, <2>3, <2>5, <3>1 DEF CopyPage
    <3>2. CASE q = r /\ task[t].op = "write"
      <4> DEFINE v == task[t].val
      <4>1. page[r] \in Page /\ page'[r] = [page[r] EXCEPT !.val = v, !.dirty = TRUE]
        BY <1>4, <2>2, <2>3, <2>4, <3>2 DEF CopyPage
      <4>2. v \in Bytes
        BY <1>4, InUse DEF CopyPage, MayRun, Frame
      <4> HIDE DEF v
      <4>3. page'[r] \in Page
        BY <4>1, <4>2 DEF Page
      <4>4. QED
        BY <3>2, <4>3, CacheAssumption
    <3>3. QED
      BY <3>1, <3>2
  <2>6. QED
    BY <2>1, <2>2, <2>5, NodeMoved
<1>5. CASE EvictPop(t)
  BY <1>5, NodeRemoved
<1>6. CASE FlushAck(t)
  <2>1. ASSUME NEW q \in Ref, page[q] # None
        PROVE  page'[q] # None
    <3> DEFINE r == task[t].ref
    <3>1. page \in [Ref -> Page \cup {None}]
      BY DEF Base, TypeOK
    <3>2. CASE page' = page
      BY <2>1, <3>2
    <3>3. CASE page' = [page EXCEPT ![r].dirty = FALSE]
      <4>1. CASE q = r
        <5>1. [page[q] EXCEPT !.dirty = FALSE] \in Page
          BY <2>1, <3>1 DEF Page
        <5>2. page'[q] = [page[q] EXCEPT !.dirty = FALSE]
          BY <3>1, <3>3, <4>1
        <5>3. QED
          BY <5>1, <5>2, CacheAssumption
      <4>2. CASE q # r
        BY <2>1, <3>1, <3>3, <4>2
      <4>3. QED
        BY <4>1, <4>2
    <3>4. QED
      BY <1>6, <3>2, <3>3 DEF FlushAck
  <2>2. QED
    BY <1>1, <1>6, <2>1 DEF FlushAck
<1>7. CASE Enter(t) \/ Woken(t) \/ ReadFind(t) \/ ReadOpened(t) \/ ReadFetch(t)
  BY <1>1, <1>7 DEF Enter, Woken, ReadFind, ReadOpened, ReadFetch
<1>8. CASE EvictDone(t) \/ EvictOpened(t) \/ EvictErase(t) \/ FlushWrite(t) \/ Flush(t)
           \/ FlushOpened(t) \/ FlushNext(t)
  BY <1>1, <1>8 DEF EvictDone, EvictOpened, EvictErase, FlushWrite, Flush, FlushOpened, FlushNext
<1>9. QED
  BY <1>2, <1>3, <1>4, <1>5, <1>6, <1>7, <1>8 DEF PageStep, FlushStep

LEMMA WorkerBase ==
  ASSUME Base, NEW t \in Worker, PageStep(t) \/ FlushStep(t)
  PROVE  Base'
<1>1. TypeOK'
  BY TypeStep DEF Next, FileStep
<1>2. QED
  BY <1>1, WorkerFrames, WorkerVictims, WorkerHandles, WorkerList DEF Base

-----------------------------------------------------------------------------
(* Base under a step of a client *)

\* Frames that another client's operation does not touch.
LEMMA OtherFrames ==
  ASSUME Base, NEW c \in Client, NEW u \in Worker, u[1] # c, NEW h,
         client' = [client EXCEPT ![c] = h], task'[u] = task[u]
  PROVE  FrameOf(u)'
<1>1. u[1] \in Client /\ FrameOf(u)
  BY DEF Worker, Base, Frames
<1>2. client'[u[1]] = client[u[1]]
  BY <1>1 DEF Base, TypeOK
<1>3. QED
  BY <1>1, <1>2 DEF FrameOf

\* A client that is not busy has no frames.
LEMMA IdleClient ==
  ASSUME Base, NEW c \in Client, client[c].op \notin Busy
  PROVE  \A i \in Idx : task[<<c, i>>].pc = "idle"
<1>1. ASSUME NEW i \in Idx
      PROVE  task[<<c, i>>].pc = "idle"
  <2>1. <<c, i>> \in Worker
    BY DEF Worker
  <2>2. FrameOf(<<c, i>>)
    BY <2>1 DEF Base, Frames
  <2>3. QED
    BY <2>2 DEF FrameOf, WellFormed
<1>2. QED
  BY <1>1

\* An idle frame is well formed whatever its client does.
LEMMA IdleWell ==
  ASSUME NEW f, NEW h, NEW g, NEW i, f.pc = "idle", WellFormed(f, h, i)
  PROVE  WellFormed(f, g, i)
BY DEF WellFormed

LEMMA IdleIsWell ==
  ASSUME NEW g, NEW i
  PROVE  WellFormed(Idle, g, i)
BY DEF WellFormed, Idle

\* A client that is not busy changes its handle.
LEMMA RestingFrames ==
  ASSUME Base, NEW c \in Client, client[c].op \notin Busy, NEW h,
         client' = [client EXCEPT ![c] = h], task' = task
  PROVE  Frames' /\ ReaperFrame'
<1>1. ASSUME NEW u \in Worker
      PROVE  FrameOf(u)'
  <2>1. CASE u[1] = c
    <3>1. u = <<c, u[2]>> /\ u[2] \in Idx
      BY <2>1 DEF Worker
    <3>2. task[u].pc = "idle"
      BY <3>1, IdleClient
    <3>3. FrameOf(u)
      BY DEF Base, Frames
    <3>4. QED
      BY <3>2, <3>3, IdleWell DEF FrameOf
  <2>2. CASE u[1] # c
    BY <2>2, OtherFrames
  <2>3. QED
    BY <2>1, <2>2
<1>2. QED
  BY <1>1 DEF Frames, Base, ReaperFrame

\* Victims depend on the frames, the entries and the marks.
LEMMA SameVictims ==
  ASSUME Base,
         \A u \in Worker : task'[u].victim # None =>
           task'[u].victim = task[u].victim /\ task'[u].op = task[u].op /\ task'[u].pc = task[u].pc,
         \A id \in Id : table[id] # None =>
           table'[id] # None /\ table'[id].write_inflight = table[id].write_inflight
  PROVE  Victims'
<1>1. ASSUME NEW u \in Worker, task'[u].victim # None
      PROVE  /\ table'[task'[u].victim.key[1]] # None
             /\ u \in table'[task'[u].victim.key[1]].write_inflight
             /\ task'[u].op \in {"read", "write"}
             /\ task'[u].pc \in {"enter", "wait", "body", "flush_ack", "evict_open", "evict_erase"}
  <2>1. task'[u].victim = task[u].victim /\ task[u].victim.key[1] \in Id
    BY <1>1, VictimInUse
  <2>2. QED
    BY <1>1, <2>1 DEF Base, Victims
<1>2. QED
  BY <1>1 DEF Victims

LEMMA SameList ==
  ASSUME Base, lru' = lru, page' = page
  PROVE  ListNodes'
BY DEF Base, ListNodes

LEMMA OpenBase ==
  ASSUME Base, NEW c \in Client, NEW id \in Id, NEW mode \in Modes, Open(c, id, mode)
  PROVE  Base'
<1> DEFINE old == IF table[id] = None THEN NewEntry ELSE table[id]
           h == [op |-> "open", id |-> id, mode |-> mode]
           g == [old EXCEPT !.reader = old.reader + One(Reads(mode)),
                            !.writer = old.writer + One(Writes(mode))]
<1>1. TypeOK'
  BY OpenType
<1>2. /\ client[c].op = "closed" /\ client[c] = NoHandle
      /\ client' = [client EXCEPT ![c] = h] /\ task' = task /\ lru' = lru /\ page' = page
  BY DEF Open, Base, Handles
<1>3. Frames' /\ ReaperFrame'
  <2> HIDE DEF h
  <2> QED BY <1>2, RestingFrames DEF Busy
<1>4. old \in Entry
  BY NewEntryIsEntry DEF Base, TypeOK
<1>5. table' = [table EXCEPT ![id] = g]
  <2>1. [[old EXCEPT !.reader = @ + One(Reads(mode))] EXCEPT !.writer = @ + One(Writes(mode))] = g
    <3> HIDE DEF old
    <3> QED BY <1>4 DEF Entry
  <2> HIDE DEF g
  <2>2. QED
    BY <2>1 DEF Open
<1>6. /\ g.reader = old.reader + One(Reads(mode)) /\ g.writer = old.writer + One(Writes(mode))
      /\ g.write_inflight = old.write_inflight /\ g \in Entry
      /\ old.reader \in Nat /\ old.writer \in Nat
  <2>1. old.reader \in Nat /\ old.writer \in Nat
    <3> HIDE DEF old
    <3> QED BY <1>4 DEF Entry
  <2>2. old.reader + One(Reads(mode)) \in Nat /\ old.writer + One(Writes(mode)) \in Nat
    <3> HIDE DEF old
    <3> QED BY <2>1 DEF One
  <2> DEFINE x == old.reader + One(Reads(mode))
             y == old.writer + One(Writes(mode))
  <2> HIDE DEF x, y, old
  <2>3. [old EXCEPT !.reader = x, !.writer = y].write_inflight = old.write_inflight
        /\ [old EXCEPT !.reader = x, !.writer = y].reader = x
        /\ [old EXCEPT !.reader = x, !.writer = y].writer = y
        /\ [old EXCEPT !.reader = x, !.writer = y] \in Entry
    BY <1>4, <2>2 DEF Entry, x, y
  <2>4. QED
    BY <2>1, <2>3 DEF x, y
<1> HIDE DEF g
<1>7. g # None /\ table'[id] = g /\ \A i \in Id : i # id => table'[i] = table[i]
  BY <1>5, <1>6, CacheAssumption DEF Base, TypeOK
<1>8. Victims'
  <2>1. ASSUME NEW i \in Id, table[i] # None
        PROVE  table'[i] # None /\ table'[i].write_inflight = table[i].write_inflight
    BY <1>6, <1>7, <2>1
  <2>2. QED
    BY <1>2, <2>1, SameVictims
<1>9. client'[c] = h /\ \A d \in Client : d # c => client'[d] = client[d]
  BY <1>2 DEF Base, TypeOK
<1>10. Handles'
  <2>1. ASSUME NEW d \in Client
        PROVE  IF client'[d].op = "closed" THEN client'[d] = NoHandle
               ELSE client'[d].id \in Id /\ client'[d].mode \in Modes /\ table'[client'[d].id] # None
    <3>1. CASE d = c
      BY <1>7, <1>9, <3>1
    <3>2. CASE d # c
      BY <1>7, <1>9, <3>2 DEF Base, Handles
    <3>3. QED
      BY <3>1, <3>2
  <2>2. QED
    BY <2>1 DEF Handles
<1>11. ListNodes'
  BY <1>2, SameList
<1>12. Counts'
  <2>1. client[c].id = None /\ None \notin Id /\ IsFiniteSet(Client)
    BY <1>2, CacheAssumption DEF NoHandle
  <2>2. ASSUME NEW i \in Id, i # id
        PROVE  ReadersOf(i)' = ReadersOf(i) /\ WritersOf(i)' = WritersOf(i)
    BY <1>9, <2>1, <2>2 DEF ReadersOf, WritersOf
  <2>3. /\ ReadersOf(id)' = IF Reads(mode) THEN ReadersOf(id) \cup {c} ELSE ReadersOf(id)
        /\ WritersOf(id)' = IF Writes(mode) THEN WritersOf(id) \cup {c} ELSE WritersOf(id)
        /\ c \notin ReadersOf(id) /\ c \notin WritersOf(id)
    BY <1>9, <2>1 DEF ReadersOf, WritersOf
  <2>4. IsFiniteSet(ReadersOf(id)) /\ IsFiniteSet(WritersOf(id))
    BY <2>1, FS_Subset DEF ReadersOf, WritersOf
  <2>5. /\ Cardinality(ReadersOf(id)') = Cardinality(ReadersOf(id)) + One(Reads(mode))
        /\ Cardinality(WritersOf(id)') = Cardinality(WritersOf(id)) + One(Writes(mode))
        /\ Cardinality(ReadersOf(id)) \in Nat /\ Cardinality(WritersOf(id)) \in Nat
    <3>1. /\ Cardinality(ReadersOf(id) \cup {c}) = Cardinality(ReadersOf(id)) + 1
          /\ Cardinality(WritersOf(id) \cup {c}) = Cardinality(WritersOf(id)) + 1
      BY <2>3, <2>4, FS_AddElement
    <3>2. Cardinality(ReadersOf(id)) \in Nat /\ Cardinality(WritersOf(id)) \in Nat
      BY <2>4, FS_CardinalityType
    <3>3. QED
      BY <2>3, <3>1, <3>2 DEF One
  <2>6. old.reader >= Cardinality(ReadersOf(id)) /\ old.writer >= Cardinality(WritersOf(id))
    <3>1. CASE table[id] # None
      BY <3>1 DEF Base, Counts
    <3>2. CASE table[id] = None
      <4>1. ReadersOf(id) = {} /\ WritersOf(id) = {}
        BY <2>1, <3>2 DEF ReadersOf, WritersOf, Base, Handles, NoHandle
      <4>2. old.reader = 0 /\ old.writer = 0
        BY <3>2 DEF NewEntry
      <4>3. QED
        BY <4>1, <4>2, FS_EmptySet
    <3>3. QED
      BY <3>1, <3>2
  <2>7. /\ table'[id].reader >= Cardinality(ReadersOf(id)')
        /\ table'[id].writer >= Cardinality(WritersOf(id)')
    <3> DEFINE a == Cardinality(ReadersOf(id))
               b == Cardinality(WritersOf(id))
    <3> HIDE DEF a, b, old
    <3>1. /\ Cardinality(ReadersOf(id)') = a + One(Reads(mode))
          /\ Cardinality(WritersOf(id)') = b + One(Writes(mode))
          /\ a \in Nat /\ b \in Nat /\ old.reader >= a /\ old.writer >= b
      BY <2>5, <2>6 DEF a, b
    <3>2. QED
      BY <1>6, <1>7, <3>1 DEF One
  <2>8. QED
    BY <1>7, <2>2, <2>7 DEF Base, Counts
<1>13. QED
  BY <1>1, <1>3, <1>8, <1>10, <1>11, <1>12 DEF Base

\* A client's operation changes; the handle's file and mode do not.
LEMMA SameHandles ==
  ASSUME Base, NEW c \in Client, NEW op \in Busy \cup {"open"}, client[c].op # "closed",
         client' = [client EXCEPT ![c].op = op],
         \A id \in Id : table[id] # None =>
           /\ table'[id] # None
           /\ table'[id].reader = table[id].reader /\ table'[id].writer = table[id].writer,
         \A id \in Id : table[id] = None => table'[id] = None
  PROVE  Handles' /\ Counts'
<1>1. /\ client'[c].op = op /\ client'[c].id = client[c].id /\ client'[c].mode = client[c].mode
      /\ \A d \in Client : d # c => client'[d] = client[d]
  <2>1. client \in [Client -> Handle] /\ client[c] \in Handle
    BY DEF Base, TypeOK
  <2>2. client'[c] = [client[c] EXCEPT !.op = op] /\ \A d \in Client : d # c => client'[d] = client[d]
    BY <2>1
  <2>3. QED
    BY <2>1, <2>2 DEF Handle
<1>2. op # "closed"
  BY DEF Busy
<1>3. ASSUME NEW d \in Client
      PROVE  IF client'[d].op = "closed" THEN client'[d] = NoHandle
             ELSE client'[d].id \in Id /\ client'[d].mode \in Modes /\ table'[client'[d].id] # None
  <2>1. CASE d = c
    BY <1>1, <1>2, <2>1 DEF Base, Handles
  <2>2. CASE d # c
    BY <1>1, <2>2 DEF Base, Handles
  <2>3. QED
    BY <2>1, <2>2
<1>4. ASSUME NEW id \in Id
      PROVE  ReadersOf(id)' = ReadersOf(id) /\ WritersOf(id)' = WritersOf(id)
  <2>1. \A d \in Client : client'[d].id = client[d].id /\ client'[d].mode = client[d].mode
    BY <1>1
  <2>2. QED
    BY <2>1 DEF ReadersOf, WritersOf
<1>5. Handles'
  BY <1>3 DEF Handles
<1>6. Counts'
  BY <1>4 DEF Base, Counts
<1>7. QED
  BY <1>5, <1>6

LEMMA BeginBase ==
  ASSUME Base, NEW c \in Client, NEW op \in {"read", "write"}, NEW i \in Idx, NEW j \in Idx,
         NEW v \in Bytes, Begin(c, op, i, j, v)
  PROVE  Base'
<1> DEFINE id == client[c].id
           e == table[id]
           d == IF op = "write" THEN TRUE ELSE e.dirty
           new(t) == [Idle EXCEPT !.pc = "enter", !.op = op, !.id = id, !.idx = t[2], !.val = v]
<1>1. TypeOK'
  BY BeginType
<1>2. /\ client[c].op = "open" /\ client' = [client EXCEPT ![c].op = op]
      /\ lru' = lru /\ page' = page /\ e # None
      /\ table' = [table EXCEPT ![id].dirty = d]
      /\ task' = [t \in Task |-> IF t \in {c} \X (i..j) THEN new(t) ELSE task[t]]
  BY DEF Begin
<1>3. id \in Id /\ e \in Entry
  BY <1>2 DEF Base, Handles, TypeOK
<1>4. /\ \A k \in Id : k # id => table'[k] = table[k]
      /\ table'[id] # None /\ table'[id].write_inflight = e.write_inflight
      /\ table'[id].reader = e.reader /\ table'[id].writer = e.writer
  <2> HIDE DEF d
  <2>1. table'[id] = [e EXCEPT !.dirty = d] /\ \A k \in Id : k # id => table'[k] = table[k]
    BY <1>2, <1>3 DEF Base, TypeOK
  <2>2. table'[id] \in Entry \cup {None}
    BY <1>1, <1>3 DEF TypeOK
  <2>3. d \in BOOLEAN
    <3>1. e.dirty \in BOOLEAN
      <4> HIDE DEF e
      <4> QED BY <1>3 DEF Entry
    <3>2. QED
      BY <3>1 DEF d
  <2>4. table'[id] \in Entry
    <3> HIDE DEF e
    <3> QED BY <1>3, <2>1, <2>3 DEF Entry
  <2>5. /\ table'[id].write_inflight = e.write_inflight
        /\ table'[id].reader = e.reader /\ table'[id].writer = e.writer
    <3> HIDE DEF e
    <3> QED BY <1>3, <2>1 DEF Entry
  <2>6. QED
    BY <2>1, <2>4, <2>5, CacheAssumption
<1>5. Handles' /\ Counts'
  <2>1. op \in Busy /\ client[c].op # "closed"
    BY <1>2 DEF Busy
  <2>2. QED
    BY <1>2, <1>4, <2>1, SameHandles
<1>6. \A t \in Worker : task[t].victim # None => task[t].pc # "idle"
  BY DEF Base, Victims
<1>7. ASSUME NEW t \in Worker
      PROVE  /\ task'[t] = task[t] \/ (t[1] = c /\ task'[t] = new(t))
             /\ FrameOf(t)'
  <2>1. t \in Task /\ t[1] \in Client /\ t[2] \in Idx /\ t = <<t[1], t[2]>> /\ FrameOf(t)
    BY DEF Task, Worker, Base, Frames
  <2>2. task'[t] = task[t] \/ (t[1] = c /\ task'[t] = new(t))
    BY <1>2, <2>1
  <2>3. client'[c].op = op /\ client'[c].id = id /\ (t[1] # c => client'[t[1]] = client[t[1]])
    <3>1. client \in [Client -> Handle] /\ client[c] \in Handle
      BY DEF Base, TypeOK
    <3>2. client'[c] = [client[c] EXCEPT !.op = op] /\ (t[1] # c => client'[t[1]] = client[t[1]])
      BY <1>2, <2>1, <3>1
    <3>3. QED
      BY <3>1, <3>2 DEF Handle
  <2>4. CASE t[1] # c
    BY <2>1, <2>2, <2>3, <2>4 DEF FrameOf
  <2>5. CASE t[1] = c /\ task'[t] = task[t]
    <3>1. client[c].op \notin Busy
      BY <1>2 DEF Busy
    <3>2. task[t].pc = "idle"
      BY <2>1, <2>5, <3>1, IdleClient
    <3>3. QED
      BY <2>1, <2>5, <3>2, IdleWell DEF FrameOf
  <2>6. CASE t[1] = c /\ task'[t] = new(t)
    <3>1. /\ task'[t].pc = "enter" /\ task'[t].op = op /\ task'[t].id = id /\ task'[t].idx = t[2]
          /\ task'[t].todo = {}
      BY <2>6 DEF Idle
    <3> HIDE DEF new
    <3>2. QED
      BY <2>3, <2>6, <3>1 DEF FrameOf, WellFormed, Busy
  <2>7. QED
    BY <2>2, <2>4, <2>5, <2>6
<1>8. Victims'
  <2>1. \A t \in Worker : new(t).victim = None
    BY DEF Idle
  <2> HIDE DEF new
  <2>2. \A t \in Worker : task'[t].victim # None =>
          task'[t].victim = task[t].victim /\ task'[t].op = task[t].op /\ task'[t].pc = task[t].pc
    BY <1>7, <2>1
  <2>3. QED
    BY <1>4, <2>2, SameVictims
<1>9. ListNodes'
  BY <1>2, SameList
<1>10. Frames' /\ ReaperFrame'
  <2>1. Reaper \in Task /\ Reaper \notin {c} \X (i..j)
    BY CacheAssumption DEF Task, Worker, Idx
  <2>2. task'[Reaper] = task[Reaper]
    BY <1>2, <2>1
  <2>3. QED
    BY <1>7, <2>2 DEF Frames, Base, ReaperFrame
<1>11. QED
  BY <1>1, <1>5, <1>8, <1>9, <1>10 DEF Base

\* hint_close keeps the entries, fds and marks, and takes at most one from each count.
LEMMA HintCloseTable ==
  ASSUME Base, NEW id \in Id, NEW mode \in Modes, HintClose(id, mode)
  PROVE  /\ \A k \in Id : k # id => table'[k] = table[k] /\ stale'[k] = stale[k]
         /\ table[id] = None => table'[id] = None
         /\ table[id] # None =>
              /\ table'[id] # None /\ table'[id].write_inflight = table[id].write_inflight
              /\ SameFds(table[id], table'[id])
              /\ table'[id].reader \in Nat /\ table'[id].writer \in Nat
              /\ table'[id].reader >= table[id].reader - One(Reads(mode))
              /\ table'[id].writer >= table[id].writer - One(Writes(mode))
              /\ table'[id].reader > 0 => table[id].reader > 0 /\ stale'[id]["r"] = stale[id]["r"]
              /\ table'[id].writer > 0 => table[id].writer > 0 /\ stale'[id]["w"] = stale[id]["w"]
<1> DEFINE refused == \/ table[id] = None
                      \/ Reads(mode) /\ table[id].reader = 0
                      \/ Writes(mode) /\ table[id].writer = 0
           e == table[id]
<1>1. /\ table \in [Id -> Entry \cup {None}] /\ stale \in [Id -> [Kind -> Nat]]
      /\ One(Reads(mode)) \in {0, 1} /\ One(Writes(mode)) \in {0, 1}
  BY DEF Base, TypeOK, One
<1>2. e # None => e.reader \in Nat /\ e.writer \in Nat
  <2>1. e # None => e \in Entry
    BY <1>1
  <2> HIDE DEF e
  <2>2. QED
    BY <2>1 DEF Entry
<1>3. CASE refused
  <2>1. table' = table /\ stale' = stale
    BY <1>3 DEF HintClose
  <2>2. QED
    BY <1>1, <1>2, <2>1 DEF SameFds
<1>4. CASE ~refused
  <2> DEFINE x == e.reader - One(Reads(mode))
             y == e.writer - One(Writes(mode))
             g == [e EXCEPT !.reader = x, !.writer = y]
             raw == [table[id] EXCEPT !.reader = @ - One(Reads(mode)),
                                      !.writer = @ - One(Writes(mode))]
  <2>1. e \in Entry /\ x \in Nat /\ y \in Nat
    BY <1>1, <1>2, <1>4 DEF One
  <2>2. raw = g
    <3>1. raw = [e EXCEPT !.reader = @ - One(Reads(mode)), !.writer = @ - One(Writes(mode))]
      OBVIOUS
    <3> HIDE DEF e, raw
    <3>2. QED
      BY <2>1, <3>1 DEF Entry
  <2>3. /\ table' = [table EXCEPT ![id] = g]
        /\ stale' = [stale EXCEPT ![id]["r"] = @ + One(g.reader = 0 /\ g.read_fd # None),
                                  ![id]["w"] = @ + One(g.writer = 0 /\ g.write_fd # None)]
    <3>1. table' = [table EXCEPT ![id] = raw]
      BY <1>4 DEF HintClose
    <3>2. stale' = [stale EXCEPT ![id]["r"] = @ + One(raw.reader = 0 /\ raw.read_fd # None),
                                 ![id]["w"] = @ + One(raw.writer = 0 /\ raw.write_fd # None)]
      BY <1>4 DEF HintClose
    <3> HIDE DEF g, raw
    <3>3. QED
      BY <2>2, <3>1, <3>2
  <2> HIDE DEF x, y
  <2>4. /\ g \in Entry /\ g.reader = x /\ g.writer = y /\ g.write_inflight = e.write_inflight
        /\ SameFds(e, g)
    <3> HIDE DEF e
    <3> QED BY <2>1 DEF Entry, SameFds
  <2> HIDE DEF g
  <2>5. g # None /\ table'[id] = g /\ \A k \in Id : k # id => table'[k] = table[k]
    BY <1>1, <2>3, <2>4, CacheAssumption
  <2>6. \A k \in Id : k # id => stale'[k] = stale[k]
    BY <1>1, <2>3
  <2>7. /\ x > 0 => stale'[id]["r"] = stale[id]["r"]
        /\ y > 0 => stale'[id]["w"] = stale[id]["w"]
    BY <1>1, <2>1, <2>3, <2>4 DEF One, Kind
  <2>8. /\ x >= e.reader - One(Reads(mode)) /\ y >= e.writer - One(Writes(mode))
        /\ (x > 0 => e.reader > 0) /\ (y > 0 => e.writer > 0)
    BY <1>1, <1>2, <1>4, <2>1 DEF x, y
  <2>9. e # None
    BY <2>1, CacheAssumption
  <2> HIDE DEF e
  <2>10. /\ table'[id].reader >= e.reader - One(Reads(mode))
         /\ table'[id].writer >= e.writer - One(Writes(mode))
         /\ table'[id].reader > 0 => e.reader > 0 /\ stale'[id]["r"] = stale[id]["r"]
         /\ table'[id].writer > 0 => e.writer > 0 /\ stale'[id]["w"] = stale[id]["w"]
         /\ table'[id].reader \in Nat /\ table'[id].writer \in Nat
    BY <2>1, <2>4, <2>5, <2>7, <2>8
  <2>11. table'[id] # None /\ table'[id].write_inflight = e.write_inflight /\ SameFds(e, table'[id])
    BY <2>4, <2>5
  <2>12. QED
    BY <2>5, <2>6, <2>9, <2>10, <2>11 DEF e
<1>5. QED
  BY <1>3, <1>4

\* A handle is closed, with its hint_close or, after a failed flush, without.
LEMMA ClosedHandle ==
  ASSUME Base, NEW c \in Client, client[c].op # "closed",
         client' = [client EXCEPT ![c] = NoHandle],
         HintClose(client[c].id, client[c].mode) \/ UNCHANGED <<table, stale>>
  PROVE  /\ Handles' /\ Counts'
         /\ \A i \in Id : table[i] # None =>
              table'[i] # None /\ table'[i].write_inflight = table[i].write_inflight
<1>0. PICK id \in Id, mode \in Modes : id = client[c].id /\ mode = client[c].mode
  BY DEF Base, Handles
<1>1. table[id] # None
  BY <1>0 DEF Base, Handles
<1>2. /\ client'[c] = NoHandle /\ \A d \in Client : d # c => client'[d] = client[d]
  BY DEF Base, TypeOK
<1>3. /\ \A k \in Id : k # id => table'[k] = table[k]
      /\ table'[id] # None /\ table'[id].write_inflight = table[id].write_inflight
      /\ table'[id].reader \in Nat /\ table'[id].writer \in Nat
      /\ table[id].reader \in Nat /\ table[id].writer \in Nat
      /\ table'[id].reader >= table[id].reader - One(Reads(mode))
      /\ table'[id].writer >= table[id].writer - One(Writes(mode))
  <2>1. table[id] \in Entry
    BY <1>1 DEF Base, TypeOK
  <2>2. table[id].reader \in Nat /\ table[id].writer \in Nat
    BY <2>1 DEF Entry
  <2>3. CASE UNCHANGED <<table, stale>>
    BY <1>1, <2>2, <2>3 DEF One
  <2>4. CASE HintClose(id, mode)
    BY <1>1, <2>2, <2>4, HintCloseTable
  <2>5. QED
    BY <1>0, <2>3, <2>4
<1>4. Handles'
  BY <1>2, <1>3 DEF Base, Handles, NoHandle
<1>5. Counts'
  <2>1. None \notin Id /\ IsFiniteSet(Client)
    BY CacheAssumption
  <2>2. /\ ReadersOf(id)' = ReadersOf(id) \ {c} /\ WritersOf(id)' = WritersOf(id) \ {c}
        /\ (c \in ReadersOf(id) <=> Reads(mode)) /\ (c \in WritersOf(id) <=> Writes(mode))
    BY <1>0, <1>2, <2>1 DEF ReadersOf, WritersOf, NoHandle
  <2>3. ASSUME NEW i \in Id, i # id
        PROVE  ReadersOf(i)' = ReadersOf(i) /\ WritersOf(i)' = WritersOf(i)
    BY <1>0, <1>2, <2>1, <2>3 DEF ReadersOf, WritersOf, NoHandle
  <2>4. IsFiniteSet(ReadersOf(id)) /\ IsFiniteSet(WritersOf(id))
    BY <2>1, FS_Subset DEF ReadersOf, WritersOf
  <2> DEFINE a == Cardinality(ReadersOf(id))
             b == Cardinality(WritersOf(id))
  <2>5. /\ Cardinality(ReadersOf(id) \ {c}) = IF c \in ReadersOf(id) THEN a - 1 ELSE a
        /\ Cardinality(WritersOf(id) \ {c}) = IF c \in WritersOf(id) THEN b - 1 ELSE b
    BY <2>4, FS_RemoveElement
  <2>6. a \in Nat /\ b \in Nat
    BY <2>4, FS_CardinalityType
  <2>7. table[id].reader >= a /\ table[id].writer >= b
    BY <1>1 DEF Base, Counts
  <2> HIDE DEF a, b
  <2>8. /\ Cardinality(ReadersOf(id)') = a - One(Reads(mode))
        /\ Cardinality(WritersOf(id)') = b - One(Writes(mode))
    BY <2>2, <2>5, <2>6 DEF One
  <2>9. /\ table'[id].reader >= Cardinality(ReadersOf(id)')
        /\ table'[id].writer >= Cardinality(WritersOf(id)')
    BY <1>3, <2>6, <2>7, <2>8 DEF One
  <2>10. QED
    BY <1>3, <2>3, <2>9 DEF Base, Counts
<1>6. QED
  BY <1>3, <1>4, <1>5

LEMMA ReleaseBase ==
  ASSUME Base, NEW c \in Client, Release(c)
  PROVE  Base'
<1>1. TypeOK'
  BY ReleaseType
<1>2. /\ client[c].op = "open" /\ client' = [client EXCEPT ![c] = NoHandle]
      /\ HintClose(client[c].id, client[c].mode)
      /\ lru' = lru /\ page' = page /\ task' = task
  BY DEF Release
<1>3. Frames' /\ ReaperFrame'
  BY <1>2, RestingFrames DEF Busy
<1>4. /\ Handles' /\ Counts'
      /\ \A i \in Id : table[i] # None =>
           table'[i] # None /\ table'[i].write_inflight = table[i].write_inflight
  BY <1>2, ClosedHandle
<1>5. Victims'
  BY <1>2, <1>4, SameVictims
<1>6. QED
  BY <1>1, <1>2, <1>3, <1>4, <1>5, SameList DEF Base

LEMMA EndFlushBase ==
  ASSUME Base, NEW c \in Client, EndFlush(c)
  PROVE  Base'
<1> DEFINE o == <<c, 0>>
<1>1. TypeOK'
  BY EndFlushType
<1>2. /\ client[c].op \in {"flush", "release"} /\ task' = [task EXCEPT ![o] = Idle]
      /\ lru' = lru /\ page' = page
      /\ \/ /\ client' = [client EXCEPT ![c] = NoHandle]
            /\ HintClose(client[c].id, client[c].mode) \/ UNCHANGED <<table, stale>>
         \/ client' = [client EXCEPT ![c].op = "open"] /\ UNCHANGED <<table, stale>>
  BY DEF EndFlush
<1>3. o \in Worker /\ o \in Task /\ o # Reaper
  BY CacheAssumption DEF Worker, Task, Idx
<1>4. /\ task'[o] = Idle /\ \A u \in Task : u # o => task'[u] = task[u]
  BY <1>2, <1>3 DEF Base, TypeOK
<1>5. /\ Handles' /\ Counts'
      /\ \A i \in Id : table[i] # None =>
           table'[i] # None /\ table'[i].write_inflight = table[i].write_inflight
  <2>1. client[c].op # "closed"
    BY <1>2
  <2>2. CASE client' = [client EXCEPT ![c] = NoHandle]
             /\ (HintClose(client[c].id, client[c].mode) \/ UNCHANGED <<table, stale>>)
    BY <2>1, <2>2, ClosedHandle
  <2>3. CASE client' = [client EXCEPT ![c].op = "open"] /\ UNCHANGED <<table, stale>>
    <3>1. Handles' /\ Counts'
      BY <2>1, <2>3, SameHandles
    <3>2. QED
      BY <2>3, <3>1
  <2>4. QED
    BY <1>2, <2>2, <2>3
<1>6. Victims'
  <2>1. task'[o].victim = None
    BY <1>4 DEF Idle
  <2>2. \A u \in Worker : task'[u].victim # None =>
          task'[u].victim = task[u].victim /\ task'[u].op = task[u].op /\ task'[u].pc = task[u].pc
    BY <1>4, <2>1 DEF Task
  <2>3. QED
    BY <1>5, <2>2, SameVictims
<1>7. \E h : client' = [client EXCEPT ![c] = h]
  BY <1>2
<1>8. PICK h : client' = [client EXCEPT ![c] = h]
  BY <1>7
<1>9. ASSUME NEW u \in Worker
      PROVE  FrameOf(u)'
  <2>1. FrameOf(u) /\ u \in Task /\ u = <<u[1], u[2]>>
    BY DEF Base, Frames, Task, Worker
  <2>2. CASE u = o
    BY <1>4, <2>2, IdleIsWell DEF FrameOf
  <2>3. CASE u # o /\ u[1] = c
    <3>1. u[2] # 0
      BY <2>1, <2>3
    <3>2. task[u].pc = "idle"
      BY <1>2, <2>1, <2>3, <3>1 DEF FrameOf, WellFormed
    <3>3. QED
      BY <1>4, <2>1, <2>3, <3>2, IdleWell DEF FrameOf
  <2>4. CASE u[1] # c
    BY <1>4, <1>8, <2>1, <2>4, OtherFrames
  <2>5. QED
    BY <2>2, <2>3, <2>4
<1>10. ReaperFrame'
  BY <1>3, <1>4 DEF Base, ReaperFrame, Task
<1>11. QED
  BY <1>1, <1>2, <1>5, <1>6, <1>9, <1>10, SameList DEF Base, Frames

LEMMA EndIOBase ==
  ASSUME Base, NEW c \in Client, EndIO(c)
  PROVE  Base'
<1>1. TypeOK'
  BY EndIOType
<1>2. /\ client[c].op \in {"read", "write"} /\ client' = [client EXCEPT ![c].op = "open"]
      /\ lru' = lru /\ page' = page /\ table' = table
      /\ task' = [t \in Task |-> IF t \in {c} \X Idx THEN Idle ELSE task[t]]
  BY DEF EndIO
<1>3. Handles' /\ Counts'
  BY <1>2, SameHandles
<1>4. \E h : client' = [client EXCEPT ![c] = h]
  BY <1>2
<1>5. PICK h : client' = [client EXCEPT ![c] = h]
  BY <1>4
<1>6. ASSUME NEW u \in Worker
      PROVE  FrameOf(u)' /\ (task'[u] = Idle \/ task'[u] = task[u])
  <2>1. u \in Task /\ u = <<u[1], u[2]>> /\ u[2] \in Idx
    BY DEF Task, Worker
  <2>2. CASE u[1] = c
    BY <1>2, <2>1, <2>2, IdleIsWell DEF FrameOf
  <2>3. CASE u[1] # c
    <3>1. task'[u] = task[u]
      BY <1>2, <2>1, <2>3
    <3>2. QED
      BY <1>5, <2>3, <3>1, OtherFrames
  <2>4. QED
    BY <2>2, <2>3
<1>7. Victims'
  <2>1. Idle.victim = None
    BY DEF Idle
  <2>2. \A u \in Worker : task'[u].victim # None =>
          task'[u].victim = task[u].victim /\ task'[u].op = task[u].op /\ task'[u].pc = task[u].pc
    BY <1>6, <2>1
  <2>3. QED
    BY <1>2, <2>2, SameVictims
<1>8. ReaperFrame'
  <2>1. Reaper \in Task /\ Reaper \notin {c} \X Idx
    BY CacheAssumption DEF Task, Worker
  <2>2. QED
    BY <1>2, <2>1 DEF Base, ReaperFrame
<1>9. QED
  BY <1>1, <1>2, <1>3, <1>6, <1>7, <1>8, SameList DEF Base, Frames

LEMMA BeginFlushBase ==
  ASSUME Base, NEW c \in Client, NEW op \in {"flush", "release"}, BeginFlush(c, op)
  PROVE  Base'
<1> DEFINE o == <<c, 0>>
           new == [Idle EXCEPT !.pc = "flush", !.op = "flush", !.id = client[c].id]
<1>1. TypeOK'
  BY BeginFlushType
<1>2. /\ client[c].op = "open" /\ client' = [client EXCEPT ![c].op = op]
      /\ lru' = lru /\ page' = page /\ table' = table /\ task' = [task EXCEPT ![o] = new]
  BY DEF BeginFlush
<1>3. o \in Worker /\ o \in Task /\ o # Reaper
  BY CacheAssumption DEF Worker, Task, Idx
<1>4. Handles' /\ Counts'
  <2>1. op \in Busy /\ client[c].op # "closed"
    BY <1>2 DEF Busy
  <2>2. QED
    BY <1>2, <2>1, SameHandles
<1>5. task'[o] = new /\ \A u \in Task : u # o => task'[u] = task[u]
  BY <1>2, <1>3 DEF Base, TypeOK
<1>6. /\ new.pc = "flush" /\ new.op = "flush" /\ new.id = client[c].id /\ new.todo = {}
      /\ new.victim = None
  BY DEF Idle
<1> HIDE DEF new
<1>7. client'[c].op = op /\ client'[c].id = client[c].id
  <2>1. client \in [Client -> Handle] /\ client[c] \in Handle
    BY DEF Base, TypeOK
  <2>2. client'[c] = [client[c] EXCEPT !.op = op]
    BY <1>2, <2>1
  <2>3. QED
    BY <2>1, <2>2 DEF Handle
<1>8. \E h : client' = [client EXCEPT ![c] = h]
  BY <1>2
<1>9. PICK h : client' = [client EXCEPT ![c] = h]
  BY <1>8
<1>10. ASSUME NEW u \in Worker
       PROVE  FrameOf(u)'
  <2>1. FrameOf(u) /\ u \in Task /\ u = <<u[1], u[2]>> /\ u[2] \in Idx
    BY DEF Base, Frames, Task, Worker
  <2>2. CASE u = o
    <3>1. u[1] = c /\ u[2] = 0
      BY <2>2
    <3>2. QED
      BY <1>5, <1>6, <1>7, <2>2, <3>1 DEF FrameOf, WellFormed, Busy
  <2>3. CASE u # o /\ u[1] = c
    <3>1. task[u].pc = "idle"
      BY <1>2, <2>1, <2>3, IdleClient DEF Busy
    <3>2. QED
      BY <1>5, <2>1, <2>3, <3>1, IdleWell DEF FrameOf
  <2>4. CASE u[1] # c
    BY <1>5, <1>9, <2>1, <2>4, OtherFrames
  <2>5. QED
    BY <2>2, <2>3, <2>4
<1>11. Victims'
  <2>1. \A u \in Worker : task'[u].victim # None =>
          task'[u].victim = task[u].victim /\ task'[u].op = task[u].op /\ task'[u].pc = task[u].pc
    BY <1>5, <1>6 DEF Task
  <2>2. QED
    BY <1>2, <2>1, SameVictims
<1>12. ReaperFrame'
  BY <1>3, <1>5 DEF Base, ReaperFrame, Task
<1>13. QED
  BY <1>1, <1>2, <1>4, <1>10, <1>11, <1>12, SameList DEF Base, Frames

-----------------------------------------------------------------------------
(* Base under a step of the reaper *)

\* The reaper's frame, and the others as they were.
LEMMA ReaperAlone ==
  ASSUME Base, ReaperStep
  PROVE  /\ Frames' /\ ReaperFrame' /\ client' = client /\ lru' = lru /\ page' = page
         /\ \A u \in Worker : task'[u] = task[u]
<1>1. /\ client' = client /\ lru' = lru /\ page' = page
      /\ \E g : task' = [task EXCEPT ![Reaper] = g]
  BY DEF ReaperStep, ReapCollect, ReapClose, ReapClosed, ReapSweep, fsVars
<1>2. PICK g : task' = [task EXCEPT ![Reaper] = g]
  BY <1>1
<1>3. Reaper \in Task /\ \A u \in Worker : u # Reaper /\ u \in Task
  BY CacheAssumption DEF Task
<1>4. \A u \in Worker : task'[u] = task[u]
  BY <1>2, <1>3
<1>5. Frames'
  BY <1>1, <1>4 DEF Base, Frames, FrameOf
<1>6. task \in [Task -> Frame] /\ task[Reaper] \in Frame
  BY <1>3 DEF Base, TypeOK
<1>7. ReaperFrame'
  <2>1. CASE ReapCollect
    <3> DEFINE S == {FdOf(table[x[1]], x[2]) : x \in {y \in Id \X Kind : Reapable(y[1], y[2])}}
    <3>1. task'[Reaper] = [Idle EXCEPT !.pc = "reap", !.todo = S]
      BY <1>3, <1>6, <2>1 DEF ReapCollect
    <3> HIDE DEF S
    <3>2. QED
      BY <3>1 DEF ReaperFrame, Idle
  <2>2. CASE ReapClose
    <3>1. PICK f : task' = [task EXCEPT ![Reaper].pc = "reap_wait", ![Reaper].todo = @ \ {f}]
      BY <2>2 DEF ReapClose
    <3> DEFINE S == task[Reaper].todo \ {f}
    <3>2. [task[Reaper] EXCEPT !.pc = "reap_wait"].todo = task[Reaper].todo
      BY <1>6 DEF Frame
    <3>3. task'[Reaper] = [[task[Reaper] EXCEPT !.pc = "reap_wait"] EXCEPT !.todo = S]
      BY <1>3, <1>6, <3>1, <3>2
    <3> HIDE DEF S
    <3>4. QED
      BY <1>6, <3>3 DEF Base, ReaperFrame, Frame
  <2>3. CASE ReapClosed
    <3>1. task'[Reaper] = [task[Reaper] EXCEPT !.pc = "reap"]
      BY <1>3, <1>6, <2>3 DEF ReapClosed
    <3>2. QED
      BY <1>6, <3>1 DEF Base, ReaperFrame, Frame
  <2>4. CASE ReapSweep
    <3>1. task'[Reaper] = Idle
      BY <1>3, <1>6, <2>4 DEF ReapSweep
    <3>2. QED
      BY <3>1 DEF ReaperFrame, Idle
  <2>5. QED
    BY <2>1, <2>2, <2>3, <2>4 DEF ReaperStep
<1>8. QED
  BY <1>1, <1>4, <1>5, <1>7

\* The reaper takes fds out of entries.
LEMMA CollectTable ==
  ASSUME Base, ReapCollect, NEW id \in Id
  PROVE  /\ table[id] = None => table'[id] = None
         /\ table[id] # None =>
              /\ table'[id] # None /\ table'[id].write_inflight = table[id].write_inflight
              /\ table'[id].reader = table[id].reader /\ table'[id].writer = table[id].writer
              /\ table'[id].read_fd = IF Reapable(id, "r") THEN None ELSE table[id].read_fd
              /\ table'[id].write_fd = IF Reapable(id, "w") THEN None ELSE table[id].write_fd
<1>1. CASE table[id] = None
  BY <1>1 DEF ReapCollect
<1>2. CASE table[id] # None
  <2> DEFINE e == table[id]
             r == IF Reapable(id, "r") THEN None ELSE e.read_fd
             w == IF Reapable(id, "w") THEN None ELSE e.write_fd
  <2>1. e \in Entry
    BY <1>2 DEF Base, TypeOK
  <2>2. table'[id] = [e EXCEPT !.read_fd = IF Reapable(id, "r") THEN None ELSE @,
                               !.write_fd = IF Reapable(id, "w") THEN None ELSE @]
    BY <1>2 DEF ReapCollect
  <2>3. [e EXCEPT !.read_fd = r].write_fd = e.write_fd
    <3> HIDE DEF e, r
    <3> QED BY <2>1 DEF Entry
  <2>4. table'[id] = [[e EXCEPT !.read_fd = r] EXCEPT !.write_fd = w]
    BY <2>2, <2>3
  <2>5. r \in Fd \cup {None} /\ w \in Fd \cup {None}
    <3> HIDE DEF e
    <3> QED BY <2>1 DEF Entry
  <2> HIDE DEF e, r, w
  <2>6. /\ table'[id] \in Entry /\ table'[id].write_inflight = e.write_inflight
        /\ table'[id].reader = e.reader /\ table'[id].writer = e.writer
        /\ table'[id].read_fd = r /\ table'[id].write_fd = w
    BY <2>1, <2>4, <2>5 DEF Entry
  <2>7. QED
    BY <1>2, <2>6, CacheAssumption DEF e, r, w
<1>3. QED
  BY <1>1, <1>2

\* An entry somebody uses is not free.
LEMMA UsedEntry ==
  ASSUME Base
  PROVE  /\ \A c \in Client : client[c].op # "closed" => ~IsFree(table[client[c].id])
         /\ \A t \in Worker : task[t].victim # None => ~IsFree(table[task[t].victim.key[1]])
<1>1. ASSUME NEW c \in Client, client[c].op # "closed", IsFree(table[client[c].id])
      PROVE  FALSE
  <2>1. PICK id \in Id : id = client[c].id
    BY <1>1 DEF Base, Handles
  <2>2. table[id] # None /\ client[c].mode \in {"r", "w", "rw"}
    BY <1>1, <2>1, CacheAssumption DEF Base, Handles
  <2>3. table[id].reader = 0 /\ table[id].writer = 0
    BY <1>1, <2>1 DEF IsFree
  <2>4. IsFiniteSet(ReadersOf(id)) /\ IsFiniteSet(WritersOf(id))
    BY CacheAssumption, FS_Subset DEF ReadersOf, WritersOf
  <2>5. c \in ReadersOf(id) \/ c \in WritersOf(id)
    BY <2>1, <2>2 DEF ReadersOf, WritersOf, Reads, Writes
  <2>6. 0 >= Cardinality(ReadersOf(id)) /\ 0 >= Cardinality(WritersOf(id))
    BY <2>2, <2>3 DEF Base, Counts
  <2>7. Cardinality(ReadersOf(id)) \in Nat /\ Cardinality(WritersOf(id)) \in Nat
    BY <2>4, FS_CardinalityType
  <2>8. Cardinality(ReadersOf(id)) = 0 /\ Cardinality(WritersOf(id)) = 0
    BY <2>6, <2>7
  <2>9. ReadersOf(id) = {} /\ WritersOf(id) = {}
    BY <2>4, <2>8, FS_EmptySet
  <2>10. QED
    BY <2>5, <2>9
<1>2. ASSUME NEW t \in Worker, task[t].victim # None
      PROVE  ~IsFree(table[task[t].victim.key[1]])
  BY <1>2 DEF IsFree, Base, Victims
<1>3. QED
  BY <1>1, <1>2

LEMMA ReaperBase ==
  ASSUME Base, ReaperStep
  PROVE  Base'
<1>1. TypeOK'
  BY TypeStep DEF Next
<1>2. /\ Frames' /\ ReaperFrame' /\ client' = client /\ lru' = lru /\ page' = page
      /\ \A u \in Worker : task'[u] = task[u]
  BY ReaperAlone
<1>3. \A id \in Id : ReadersOf(id)' = ReadersOf(id) /\ WritersOf(id)' = WritersOf(id)
  BY <1>2 DEF ReadersOf, WritersOf
<1>4. CASE ReapCollect \/ ReapClose \/ ReapClosed
  <2>1. ASSUME NEW id \in Id
        PROVE  /\ table[id] = None => table'[id] = None
               /\ table[id] # None =>
                    /\ table'[id] # None /\ table'[id].write_inflight = table[id].write_inflight
                    /\ table'[id].reader = table[id].reader /\ table'[id].writer = table[id].writer
    BY <1>4, CollectTable DEF ReapClose, ReapClosed
  <2>2. Victims'
    BY <1>2, <2>1, SameVictims
  <2>3. Handles'
    BY <1>2, <2>1 DEF Base, Handles
  <2>4. Counts'
    BY <1>3, <2>1 DEF Base, Counts
  <2>5. QED
    BY <1>1, <1>2, <2>2, <2>3, <2>4, SameList DEF Base
<1>5. CASE ReapSweep
  <2>1. ASSUME NEW id \in Id
        PROVE  table'[id] = IF table[id] # None /\ IsFree(table[id]) THEN None ELSE table[id]
    BY <1>5 DEF ReapSweep
  <2>2. ASSUME NEW u \in Worker, task'[u].victim # None
        PROVE  /\ table'[task'[u].victim.key[1]] # None
               /\ u \in table'[task'[u].victim.key[1]].write_inflight
               /\ task'[u].op \in {"read", "write"}
               /\ task'[u].pc \in {"enter", "wait", "body", "flush_ack", "evict_open", "evict_erase"}
    <3>1. task'[u] = task[u] /\ task[u].victim.key[1] \in Id
      BY <1>2, <2>2, VictimInUse
    <3>2. ~IsFree(table[task[u].victim.key[1]])
      BY <2>2, <3>1, UsedEntry
    <3>3. QED
      BY <2>1, <2>2, <3>1, <3>2 DEF Base, Victims
  <2>3. Handles'
    <3>1. ASSUME NEW c \in Client
          PROVE  IF client[c].op = "closed" THEN client[c] = NoHandle
                 ELSE client[c].id \in Id /\ client[c].mode \in Modes /\ table'[client[c].id] # None
      BY <2>1, UsedEntry DEF Base, Handles
    <3>2. QED
      BY <1>2, <3>1 DEF Handles
  <2>4. Counts'
    BY <1>3, <2>1 DEF Base, Counts
  <2>5. Victims'
    BY <2>2 DEF Victims
  <2>6. QED
    BY <1>1, <1>2, <2>3, <2>4, <2>5, SameList DEF Base
<1>6. QED
  BY <1>4, <1>5 DEF ReaperStep

-----------------------------------------------------------------------------
(* Base is inductive *)

LEMMA InitBase == Init => Base
<1> SUFFICES ASSUME Init
             PROVE  Base
  OBVIOUS
<1>1. TypeOK
  <2>1. Idle \in Frame
    BY IdleFrame
  <2>2. NoHandle \in Handle
    BY DEF NoHandle, Handle
  <2>3. lru \in Seq(Ref) /\ wire \in Seq(Task)
    BY EmptySeq DEF Init
  <2>4. 0 \in Bytes
    BY DEF Bytes
  <2>5. QED
    BY <2>1, <2>2, <2>3, <2>4 DEF Init, TypeOK
<1>2. ASSUME NEW t \in Worker
      PROVE  task[t] = Idle
  BY DEF Init, Task
<1>3. Frames
  BY <1>2, IdleIsWell DEF Frames, FrameOf
<1>4. ReaperFrame
  BY DEF Init, Task, ReaperFrame, Idle
<1>5. Victims
  BY <1>2 DEF Victims, Idle
<1>6. Handles /\ Counts
  BY DEF Init, Handles, Counts, NoHandle
<1>7. ListNodes
  BY DEF Init, ListNodes
<1>8. QED
  BY <1>1, <1>3, <1>4, <1>5, <1>6, <1>7 DEF Base

LEMMA BaseStep ==
  ASSUME Base, [Next]_vars
  PROVE  Base'
<1>1. ASSUME NEW c \in Client, ClientStep(c)
      PROVE  Base'
  <2>1. None \in Bytes /\ \A v \in Val : v \in Bytes
    BY DEF Bytes
  <2>2. QED
    BY <1>1, <2>1, OpenBase, BeginBase, EndIOBase, BeginFlushBase, EndFlushBase, ReleaseBase
    DEF ClientStep
<1>2. ASSUME NEW t \in Worker, Dangle(t)
      PROVE  Base'
  <2>1. TypeOK'
    BY <1>2, TypeStep DEF Next, FileStep
  <2>2. UNCHANGED <<table, lru, page, task, client>>
    BY <1>2 DEF Dangle, fsVars
  <2>3. QED
    BY <2>1, <2>2 DEF Base, Frames, FrameOf, ReaperFrame, Victims, Handles, Counts, ReadersOf,
       WritersOf, ListNodes
<1>3. CASE UNCHANGED vars
  <2>1. TypeOK'
    BY TypeStep
  <2>2. UNCHANGED <<table, lru, page, task, client>>
    BY <1>3 DEF vars, fsVars
  <2>3. QED
    BY <2>1, <2>2 DEF Base, Frames, FrameOf, ReaperFrame, Victims, Handles, Counts, ReadersOf,
       WritersOf, ListNodes
<1>4. QED
  BY <1>1, <1>2, <1>3, WorkerBase, ReaperBase DEF Next, FileStep

\* Under every interleaving of clients, coroutines and the reaper, and every pattern
\* of device failures, the cache's data keep their types: m_table, m_lru, the read
\* queue and the coroutine frames of cache.cpp.
THEOREM TypeCorrect == Spec => []TypeOK
<1>1. Init => Base
  BY InitBase
<1>2. Base /\ [Next]_vars => Base'
  BY BaseStep
<1>3. Base => TypeOK
  BY DEF Base
<1>4. QED
  BY <1>1, <1>2, <1>3, PTL DEF Spec

\* clean_stale_fds never erases the entry of an open handle nor one whose page an
\* eviction is writing back: hint_open's and hint_close's counts never fall below the
\* handles there are, and the in-flight marks outlive every co_await.
THEOREM EntriesStay == Spec => []EntriesInUseStay
<1>1. Init => Base
  BY InitBase
<1>2. Base /\ [Next]_vars => Base'
  BY BaseStep
<1>3. Base => EntriesInUseStay
  BY DEF Base, EntriesInUseStay, Handles, Victims, Evicting, FlushedFile
<1>4. QED
  BY <1>1, <1>2, <1>3, PTL DEF Spec

=============================================================================
