-------------------------------- MODULE Ipc --------------------------------
(***************************************************************************)
(* The IPC of madbfs (ipc.cpp, Madbfs::IpcHandler): a server that serves   *)
(* one peer at a time, and a second coroutine that streams the log to the  *)
(* peers that asked for it.                                                *)
(*                                                                         *)
(* The two interleave wherever one of them waits for a socket.  A log      *)
(* message is its number.  Log messages of the threads of FUSE, which      *)
(* LogcatSink::swap does not exclude, are left out: those modelled are the *)
(* ones of the io_context's own thread.                                    *)
(***************************************************************************)
EXTENDS Naturals, Sequences, FiniteSets, SequencesExt

CONSTANTS
  Peers,        \* processes that connect once, like madbfs-msg
  Messages,     \* what each of them may ask: [op |-> name, value |-> number or level]
  Levels,       \* log levels
  LowestPage, HighestPage, LowestPages,  \* limits of the cache's configuration
  SizeBits,     \* bits of a usize
  MaxQueue,     \* m_max_queue of LogcatSink
  MaxLogs,      \* bound: messages logged in one behaviour
  None, Ended

\* The powers of two a usize holds, which is what std::bit_ceil rounds up to.
PowerOfTwo[k \in 0..SizeBits - 1] == IF k = 0 THEN 1 ELSE 2 * PowerOfTwo[k - 1]
PowersOfTwo == {PowerOfTwo[k] : k \in 0..SizeBits - 1}

ASSUME IpcAssumption ==
  /\ SizeBits \in Nat \ {0}
  /\ LowestPage \in PowersOfTwo /\ HighestPage \in PowersOfTwo /\ LowestPages \in PowersOfTwo
  /\ LowestPage <= HighestPage /\ MaxQueue \in Nat \ {0} /\ MaxLogs \in Nat

\* A round of logcat_handler: the queue it sends, the subscriber and the message it
\* is at, the subscribers it is for, and those it could not reach.
Round == [front : 1..2, at : Nat, end : Nat, next : Nat, gone : SUBSET Nat]

\* handle_peer: the peer, how far it is, and the sizes a resize started from.
Sizes  == [page : PowersOfTwo, max : PowersOfTwo]
Served == [peer : Peers, step : {"receive", "operate", "resize", "reply"}, old : Sizes \cup {None}]

ASSUME NoneAssumption ==
  /\ None # Ended /\ {None, Ended} \cap (Round \cup Served) = {}
  /\ \A p \in Peers : None \notin Messages[p]

VARIABLES
  running,      \* m_running
  peer,         \* [Peers -> its connection: [st, msg]]
  backlog,      \* connections not accepted yet
  serving,      \* run and handle_peer: None while it accepts, or Ended
  conf,         \* page size and page limit of the cache, None without one
  subscribers,  \* m_logcat_subscribers: peers
  capacity,     \* of that vector
  handler,      \* logcat_handler: None while it sleeps, or Ended
  prevEmpty,    \* its prev_empty
  sink,         \* LogcatSink: [on, queue, index]
  logged,       \* messages logged so far
  received,     \* [Peers -> the messages it got, while it is there]
  crashed,      \* a subscriber that has moved in memory was used
  since         \* history: messages logged when the sink was last turned on

server == <<running, backlog, serving, conf>>
logcat == <<subscribers, capacity, handler, prevEmpty, sink>>
vars   == <<server, peer, logcat, logged, received, crashed, since>>

FsOps == {"info", "invalidate_cache", "expire_stat", "set_page_size", "set_cache_size",
          "set_ttl", "set_timeout", "set_log_level", "unmount"}
Ops   == FsOps \cup {"help", "version", "logcat"}

Init ==
  /\ running = TRUE /\ backlog = << >> /\ serving = None
  /\ peer = [p \in Peers |-> [st |-> "out", msg |-> None]]
  /\ conf \in {None, [page |-> LowestPage, max |-> LowestPages]}
  /\ subscribers = << >> /\ capacity = 0 /\ handler = None /\ prevEmpty = TRUE
  /\ sink = [on |-> FALSE, queue |-> << << >>, << >> >>, index |-> 1]
  /\ logged = 0 /\ received = [p \in Peers |-> << >>] /\ crashed = FALSE
  /\ since = 0

-----------------------------------------------------------------------------
(* Peers: ipc::Client and madbfs-msg *)

Connect(p) ==
  /\ peer[p].st = "out" /\ running
  /\ peer' = [peer EXCEPT ![p].st = "connected"]
  /\ backlog' = Append(backlog, p)
  /\ UNCHANGED <<running, serving, conf, logcat, logged, received, crashed, since>>

Ask(p, msg) ==
  /\ peer[p].st = "connected"
  /\ peer' = [peer EXCEPT ![p] = [st |-> "asked", msg |-> msg]]
  /\ UNCHANGED <<server, logcat, logged, received, crashed, since>>

\* A peer goes away before it asks, before its answer, or to end its logcat.
Leave(p) ==
  /\ peer[p].st \in {"connected", "asked", "streaming"}
  /\ peer' = [peer EXCEPT ![p].st = "left"]
  /\ received' = [received EXCEPT ![p] = << >>]
  /\ UNCHANGED <<server, logcat, logged, crashed, since>>

-----------------------------------------------------------------------------
(* Server::run and handle_peer *)

\* Seeded fault: a peer that fails takes the accept loop down with it.
NextPeerUnless(failed) == IF running /\ ~failed THEN None ELSE Ended
NextPeer(failed) == IF running THEN None ELSE Ended

\* An accept that fails while the server runs is tried again.
Accept ==
  /\ serving = None
  /\ IF ~running THEN serving' = Ended /\ UNCHANGED backlog
     ELSE /\ backlog # << >>
          /\ serving' = [peer |-> Head(backlog), step |-> "receive", old |-> None]
          /\ backlog' = Tail(backlog)
  /\ UNCHANGED <<running, conf, peer, logcat, logged, received, crashed, since>>

At(step) == serving \notin {None, Ended} /\ serving.step = step

\* parse_op: the operation, or None with a description of what is wrong.
ParseOp(msg) ==
  IF msg.op \notin Ops \/ (msg.op = "set_log_level" /\ msg.value \notin Levels) THEN None ELSE msg.op

\* What the server knows of a peer when it is done with its message.
Settled(p, st) == [st |-> IF peer[p].st = "left" THEN "left" ELSE st, msg |-> None]

\* The peer becomes a subscriber.  A vector that is full moves its elements, also
\* under the feet of logcat_handler.
Subscribe(p) ==
  /\ subscribers' = Append(subscribers, p)
  /\ capacity' = IF Len(subscribers) < capacity THEN capacity ELSE IF capacity = 0 THEN 1 ELSE 2 * capacity
  /\ crashed' = (Len(subscribers) = capacity /\ handler \notin {None, Ended})
  /\ peer' = [peer EXCEPT ![p] = Settled(p, "streaming")]
  /\ serving' = NextPeer(FALSE)

\* A message that was sent can still be read when its sender has left.
Receive ==
  LET p == serving.peer
      op == ParseOp(peer[p].msg)
  IN
  /\ At("receive")
  /\ IF peer[p].msg = None
     THEN /\ peer[p].st = "left"
          /\ serving' = NextPeer(TRUE)
          /\ UNCHANGED <<peer, subscribers, capacity, crashed>>
     ELSE IF op = "logcat" THEN Subscribe(p)
     ELSE /\ serving' = [serving EXCEPT !.step = IF op \in FsOps THEN "operate" ELSE "reply"]
          /\ UNCHANGED <<peer, subscribers, capacity, crashed>>
  /\ UNCHANGED <<running, backlog, conf, handler, prevEmpty, sink, logged, received, since>>

\* A reply that cannot be sent is dropped.
Reply ==
  /\ At("reply")
  /\ peer' = [peer EXCEPT ![serving.peer] = Settled(serving.peer, "answered")]
  /\ serving' = NextPeer(FALSE)
  /\ UNCHANGED <<running, backlog, conf, logcat, logged, received, crashed, since>>

-----------------------------------------------------------------------------
(* IpcHandler.  Page sizes are counted in units, cache sizes in the same. *)

Least(S) == CHOOSE n \in S : \A m \in S : n <= m
Larger(m, n) == IF m < n THEN n ELSE m
BitCeil(n) == Least({k \in PowersOfTwo : k >= n})

NewPageSize(size) == Least({HighestPage, Larger(BitCeil(size), LowestPage)})

\* Seeded fault: the page limit stays, whatever the size of a page.
NewMaxPagesSame(old, size) == Larger(BitCeil(old.max), LowestPages)
NewMaxPages(old, size) == Larger(BitCeil((old.max * old.page) \div size), LowestPages)

MaxPagesFor(total, page) == Larger(BitCeil(total \div Larger(page, 1)), LowestPages)

Answer == serving' = [serving EXCEPT !.step = "reply"]

\* handle: without a cache its settings are refused; set_page_size goes on in
\* SetMaxPages.  What the others do to the file system and the connection is
\* modelled there.
Operate ==
  LET msg == peer[serving.peer].msg IN
  /\ At("operate")
  /\ CASE conf # None /\ msg.op = "set_page_size" ->
            /\ serving' = [serving EXCEPT !.step = "resize", !.old = conf]
            /\ conf' = [conf EXCEPT !.page = NewPageSize(msg.value)]
       [] conf # None /\ msg.op = "set_cache_size" ->
            /\ Answer
            /\ conf' = [conf EXCEPT !.max = MaxPagesFor(msg.value, conf.page)]
       [] conf = None \/ msg.op \notin {"set_page_size", "set_cache_size"} -> Answer /\ UNCHANGED conf
  /\ UNCHANGED <<running, backlog, peer, logcat, logged, received, crashed, since>>

SetMaxPages ==
  /\ At("resize")
  /\ conf' = [conf EXCEPT !.max = NewMaxPages(serving.old, conf.page)]
  /\ serving' = [serving EXCEPT !.step = "reply"]
  /\ UNCHANGED <<running, backlog, peer, logcat, logged, received, crashed, since>>

-----------------------------------------------------------------------------
(* logcat *)

\* sink_it_: the oldest messages make room.
Log ==
  LET queue == sink.queue[sink.index]
      room  == SubSeq(queue, Larger(Len(queue) + 2, MaxQueue + 1) - MaxQueue, Len(queue))
  IN
  /\ sink.on /\ logged < MaxLogs
  /\ logged' = logged + 1
  /\ sink' = [sink EXCEPT !.queue[sink.index] = Append(room, logged + 1)]
  /\ UNCHANGED <<server, peer, subscribers, capacity, handler, prevEmpty, received, crashed, since>>

\* Seeded fault: what is in the queues stays there.
TurnedOffOnly(s) == [s EXCEPT !.on = FALSE]
TurnedOff(s) == [s EXCEPT !.on = FALSE, !.queue = << << >>, << >> >>]

Swapped(s) == [s EXCEPT !.index = 3 - @]

\* The timer expires: the sink is turned off or on, or the queues are swapped and
\* the messages of the one in front sent to the subscribers there are.
Tick ==
  /\ handler = None /\ running
  /\ IF subscribers = << >>
     THEN /\ ~prevEmpty /\ prevEmpty' = TRUE
          /\ sink' = TurnedOff(sink)
          /\ UNCHANGED handler
     ELSE /\ prevEmpty' = FALSE
          /\ sink' = Swapped([sink EXCEPT !.on = TRUE])
          /\ handler' = IF sink.queue[sink.index] = << >> THEN None
                        ELSE [front |-> sink.index, at |-> 1, end |-> Len(subscribers), next |-> 1, gone |-> {}]
  /\ since' = IF sink'.on /\ ~sink.on THEN logged ELSE since
  /\ UNCHANGED <<server, peer, subscribers, capacity, logged, received, crashed>>

\* Seeded fault: inactive subscribers are erased first to last.
WithoutForward(gone) ==
  FoldLeft(LAMBDA s, i : IF i \in gone /\ i <= Len(s) THEN RemoveAt(s, i) ELSE s,
           subscribers, [i \in 1..Len(subscribers) |-> i])
\* The indices of the inactive subscribers are erased last to first: erased[i] is
\* what is left when the last i indices have been seen to.
WithoutAll(gone) ==
  LET n == Len(subscribers)
      erased[i \in 0..n] ==
        IF i = 0 THEN subscribers
        ELSE IF n + 1 - i \in gone THEN RemoveAt(erased[i - 1], n + 1 - i)
        ELSE erased[i - 1]
  IN  erased[n]

\* Seeded fault: the messages stay in their queue.
ClearedNot(front) == sink
Cleared(front) == [sink EXCEPT !.queue[front] = << >>]

\* The end of logcat_handler: the remaining subscribers are closed.
CloseAll(remaining) ==
  /\ handler' = Ended
  /\ subscribers' = << >>
  /\ peer' = [p \in Peers |-> IF peer[p].st = "streaming" /\ p \in ToSet(remaining)
                              THEN [peer[p] EXCEPT !.st = "left"] ELSE peer[p]]

\* The round is over: whoever could not be reached is dropped.
EndRound(gone) ==
  /\ sink' = Cleared(handler.front)
  /\ IF running THEN handler' = None /\ subscribers' = WithoutAll(gone) /\ UNCHANGED peer
     ELSE CloseAll(WithoutAll(gone))

\* One message to one subscriber, which may have left.
SendLog ==
  LET p == subscribers[handler.at]
      queue == sink.queue[handler.front]
      fails == peer[p].st = "left"
      gone == IF fails THEN handler.gone \cup {handler.at} ELSE handler.gone
      last == fails \/ handler.next = Len(queue)
  IN
  /\ handler \notin {None, Ended}
  /\ received' = IF fails THEN received ELSE [received EXCEPT ![p] = Append(@, queue[handler.next])]
  /\ IF last /\ handler.at = handler.end THEN EndRound(gone)
     ELSE /\ handler' = IF last THEN [handler EXCEPT !.at = @ + 1, !.next = 1, !.gone = gone]
                        ELSE [handler EXCEPT !.next = @ + 1]
          /\ UNCHANGED <<sink, subscribers, peer>>
  /\ UNCHANGED <<server, capacity, prevEmpty, logged, crashed, since>>

\* The server was stopped while the handler slept.
HandlerEnds ==
  /\ handler = None /\ ~running
  /\ CloseAll(subscribers)
  /\ UNCHANGED <<server, capacity, prevEmpty, sink, logged, received, crashed, since>>

-----------------------------------------------------------------------------
\* Madbfs is destroyed: nobody is accepted any more.
Stop ==
  /\ running /\ running' = FALSE
  /\ backlog' = << >>
  /\ peer' = [p \in Peers |-> IF p \in ToSet(backlog) THEN [peer[p] EXCEPT !.st = "left"] ELSE peer[p]]
  /\ UNCHANGED <<serving, conf, logcat, logged, received, crashed, since>>

Next ==
  /\ ~crashed
  /\ \/ \E p \in Peers : Connect(p) \/ (\E msg \in Messages[p] : Ask(p, msg)) \/ Leave(p)
     \/ Accept \/ Receive \/ Operate \/ SetMaxPages \/ Reply
     \/ Log \/ Tick \/ SendLog \/ HandlerEnds \/ Stop

\* madbfs-msg asks as soon as it is connected, subscribers read, and coroutines
\* that are ready run.
Fairness ==
  /\ \A p \in Peers : WF_vars(~crashed /\ \E msg \in Messages[p] : Ask(p, msg))
  /\ WF_vars(~crashed /\ (Accept \/ Receive \/ Operate \/ SetMaxPages \/ Reply))
  /\ WF_vars(~crashed /\ (Tick \/ SendLog \/ HandlerEnds))

Spec == Init /\ [][Next]_vars /\ Fairness

-----------------------------------------------------------------------------
(* Properties *)

\* Nobody who is there is dropped with those who left: while the server runs, a
\* peer that subscribed and has not left is among the subscribers, through any
\* departures and arrivals during a round of messages.
SubscribersKept == running => \A p \in Peers : peer[p].st = "streaming" => p \in ToSet(subscribers)

\* A subscriber gets the log in order and no message twice, although two queues
\* are filled and emptied in turn.
LogsInOrder ==
  \A p \in Peers : \A i \in 1..Len(received[p]) - 1 : received[p][i] < received[p][i + 1]

\* Nobody is sent what was logged before logcat_handler last turned the sink on, for
\* subscribers that have gone since.  (Who subscribes after the last of the others was
\* dropped and before the next tick finds the sink still on, and is sent what it has.)
NoOldLogs == \A p \in Peers : \A i \in 1..Len(received[p]) : received[p][i] > since

\* Changing the page size never takes cache away from the user: the page limit is
\* scaled along, and never below what is left after rounding.
CacheKept ==
  At("reply") /\ serving.old # None /\ peer[serving.peer].msg.op = "set_page_size" =>
    conf.page * conf.max >= serving.old.page * serving.old.max

\* Whoever asks is answered or subscribed, whoever else comes, fails or leaves,
\* unless the server is stopped or crashes.  (A peer asks once, so that in the end
\* nobody is left asking.)
Asking == \E p \in Peers : peer[p].st = "asked"
EveryOpAnswered == Asking ~> ~Asking \/ ~running \/ crashed
=============================================================================
