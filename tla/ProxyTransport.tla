--------------------------- MODULE ProxyTransport ---------------------------
(***************************************************************************)
(* ProxyTransport (proxy_transport.cpp) and the Connection of the server   *)
(* it talks to (server.cpp), with the two byte streams between them.       *)
(*                                                                         *)
(* On the client any number of coroutines call send; request_send writes   *)
(* their requests one at a time, response_receive hands each answer to the *)
(* caller registered under its id.  The channel to request_send has no     *)
(* buffer: a caller waits until its request is taken.  On the server a     *)
(* listener reads requests, one worker thread executes them, pings are     *)
(* answered by the listener itself, and send_response writes the answers.  *)
(*                                                                         *)
(* The connection may break, losing what is in flight, and the device may  *)
(* hang without closing it: then only the watchdog's timed ping notices.   *)
(***************************************************************************)
EXTENDS Naturals, Sequences, FiniteSets

CONSTANTS
  Callers,   \* coroutines with one request each
  Failing,   \* those whose request the device answers with an error
  Watchdog,  \* the watchdog coroutine, which sends the pings
  Capacity,  \* requests the socket holds before request_send blocks
  Frames,    \* answers the socket holds before send_response blocks
  MaxPings,  \* bound: pings of one behaviour
  None

ASSUME TransportAssumption ==
  /\ Watchdog \notin Callers /\ Failing \subseteq Callers
  /\ Capacity \in Nat \ {0} /\ Frames \in Nat \ {0}
  /\ MaxPings \in Nat

Senders == Callers \cup {Watchdog}
Done    == [id |-> 0]  \* a loop that has ended

EAGAIN    == "EAGAIN"
EPIPE     == "EPIPE"
ECANCELED == "ECANCELED"
ETIMEDOUT == "ETIMEDOUT"
EIO       == "EIO"
Errors    == {EAGAIN, EPIPE, ECANCELED, ETIMEDOUT, EIO}

\* An answer, which is named by the caller it is for, is told from an error (Expect).
ASSUME ErrorAssumption == Errors \cap Senders = {}

ASSUME NoneAssumption ==
  /\ None \notin Errors /\ None \notin Senders /\ None # Done
  /\ None \notin [id : Nat, of : Senders, size : {0, 1}]

VARIABLES
  running,   \* m_running
  socket,    \* m_socket.is_open()
  counter,   \* m_counter
  requests,  \* m_requests: [ids -> caller]
  channel,   \* m_channel: requests whose callers wait for them to be taken
  pc,        \* [Senders -> "idle", "queued", "waiting" or "done"]
  promise,   \* [Senders -> what its future holds, or None]
  answer,    \* [Senders -> what send returned, or None]
  sender,    \* request_send: the request being written, None between two, or Done
  receiver,  \* response_receive: the header being served, None between two, or Done
  up, down,  \* the streams: requests, and the headers and payloads of answers
  broken,    \* the connection is lost
  hung,      \* the device stands still
  listener,  \* Connection::run: "listen", "ping" while one is answered, "draining" or "gone"
  inflight,  \* the server's m_requests: ids
  pool,      \* requests queued for the worker thread
  replies,   \* the server's m_channel: answers waiting to be taken
  writer,    \* send_response: the answer being written, or None
  executed,  \* [Callers -> times the device carried out its request]
  pings      \* pings asked so far

client == <<running, socket, counter, requests, channel, pc, promise, answer, sender, receiver, pings>>
server == <<listener, inflight, pool, replies, writer, executed>>
net    == <<up, down, broken, hung>>
vars   == <<client, server, net>>

NoRequests == [i \in {} |-> None]
Drop(f, S) == [x \in DOMAIN f \ S |-> f[x]]
Put(f, x, v) == [y \in DOMAIN f \cup {x} |-> IF y = x THEN v ELSE f[y]]

Init ==
  /\ running = TRUE /\ socket = TRUE /\ counter = 0 /\ pings = 0
  /\ requests = NoRequests /\ channel = << >>
  /\ pc = [c \in Senders |-> "idle"]
  /\ promise = [c \in Senders |-> None] /\ answer = [c \in Senders |-> None]
  /\ sender = None /\ receiver = None
  /\ up = << >> /\ down = << >> /\ broken = FALSE /\ hung = FALSE
  /\ listener = "listen" /\ inflight = {}
  /\ pool = << >> /\ replies = << >> /\ writer = None
  /\ executed = [c \in Callers |-> 0]

-----------------------------------------------------------------------------
(* Client: send *)

\* The request is registered before it is offered to the channel.
Ask(c) ==
  LET id == counter + 1 IN
  /\ pc[c] = "idle"
  /\ IF running
     THEN /\ counter' = id
          /\ requests' = Put(requests, id, c)
          /\ channel' = Append(channel, [id |-> id, of |-> c])
          /\ pc' = [pc EXCEPT ![c] = "queued"]
          /\ UNCHANGED answer
     ELSE /\ pc' = [pc EXCEPT ![c] = "done"]
          /\ answer' = [answer EXCEPT ![c] = EAGAIN]
          /\ UNCHANGED <<counter, requests, channel>>
  /\ IF c = Watchdog THEN pings < MaxPings /\ pings' = pings + 1 ELSE UNCHANGED pings
  /\ UNCHANGED <<running, socket, promise, sender, receiver, server, net>>

\* The future is ready: send returns what is extracted from it.
Return(c) ==
  /\ pc[c] = "waiting" /\ promise[c] # None
  /\ pc' = [pc EXCEPT ![c] = "done"]
  /\ answer' = [answer EXCEPT ![c] = promise[c]]
  /\ promise' = [promise EXCEPT ![c] = None]
  /\ UNCHANGED <<running, socket, counter, requests, channel, sender, receiver, pings, server, net>>

-----------------------------------------------------------------------------
(* Client: stopping.  Whoever is registered gets the status; a caller still *)
(* waiting in the channel returns broken_pipe, and request_send ends if it  *)
(* waits for the channel.                                                   *)

\* Seeded fault: the table is cleared without a word to the callers in it.
CancelledSilently(c, status) == promise[c]
Cancelled(c, status) == IF \E i \in DOMAIN requests : requests[i] = c THEN status ELSE promise[c]

CancelAll(status, returned) ==
  LET queued == {c \in Senders : pc[c] = "queued"} IN
  /\ running' = FALSE
  /\ promise' = [c \in Senders |-> IF c \in queued THEN EPIPE ELSE Cancelled(c, status)]
  /\ pc' = [c \in Senders |->
       IF c \in returned THEN "done" ELSE IF c \in queued THEN "waiting" ELSE pc[c]]
  /\ requests' = NoRequests
  /\ channel' = << >>
  /\ sender' = IF sender = None THEN Done ELSE sender

\* The watchdog's reconnect stops this transport (ProxyTransport::stop), when its
\* own ping has returned.
Stop ==
  /\ IF running THEN CancelAll(EAGAIN, {Watchdog})
     ELSE UNCHANGED <<running, promise, pc, requests, channel, sender>>
  /\ socket' = FALSE

\* The ping failed: the watchdog reconnects; or it was answered, and the watchdog
\* sleeps until the next one.
WatchdogResumes ==
  /\ pc[Watchdog] = "done"
  /\ IF answer[Watchdog] \in Errors
     THEN socket /\ Stop /\ UNCHANGED answer
     ELSE /\ pings < MaxPings
          /\ pc' = [pc EXCEPT ![Watchdog] = "idle"]
          /\ answer' = [answer EXCEPT ![Watchdog] = None]
          /\ UNCHANGED <<running, socket, promise, requests, channel, sender>>
  /\ UNCHANGED <<counter, receiver, pings, server, net>>

\* The timer of a timed send starts when the request has been taken.  When it
\* expires the entry is removed if it is still there, and send returns.
Expire ==
  /\ pc[Watchdog] = "waiting" /\ promise[Watchdog] = None
  /\ answer' = [answer EXCEPT ![Watchdog] = ETIMEDOUT]

\* Seeded fault: the transport stays up for a while after a timeout.
PingTimesOutOnly ==
  /\ Expire
  /\ pc' = [pc EXCEPT ![Watchdog] = "done"]
  /\ requests' = Drop(requests, {i \in DOMAIN requests : requests[i] = Watchdog})
  /\ UNCHANGED <<running, socket, counter, channel, promise, sender, receiver, pings, server, net>>

\* The return of the expired ping resumes the watchdog, which stops the transport
\* before anything else runs; the watchdog itself waits for nothing any more.
PingTimesOut == Expire /\ Stop /\ UNCHANGED <<counter, receiver, pings, server, net>>

-----------------------------------------------------------------------------
(* Client: request_send and response_receive *)

\* request_send takes the next request; its caller goes on to wait for the future.
Take ==
  /\ sender = None /\ channel # << >>
  /\ sender' = Head(channel)
  /\ channel' = Tail(channel)
  /\ pc' = [pc EXCEPT ![Head(channel).of] = "waiting"]
  /\ UNCHANGED <<running, socket, counter, requests, promise, answer, receiver, pings, server, net>>

\* The loops go on while the transport runs.  (When response_receive comes round
\* after a stop, its completion handler finds nothing left to cancel.)
NextTurn == IF running THEN None ELSE Done

WriteRequest ==
  /\ sender \notin {None, Done} /\ socket /\ ~broken /\ Len(up) < Capacity
  /\ up' = Append(up, sender)
  /\ sender' = NextTurn
  /\ UNCHANGED <<running, socket, counter, requests, channel, pc, promise, answer, receiver, pings, server, down, broken, hung>>

\* Seeded fault: the entry of a request that could not be written is just erased.
WriteErrorSilent == promise
WriteError == IF sender.id \in DOMAIN requests THEN [promise EXCEPT ![sender.of] = EIO] ELSE promise

\* The write fails: its caller gets the error, unless it got one before.
WriteFails ==
  /\ sender \notin {None, Done} /\ (broken \/ ~socket)
  /\ promise' = WriteError
  /\ requests' = Drop(requests, {sender.id})
  /\ sender' = NextTurn
  /\ UNCHANGED <<running, socket, counter, channel, pc, answer, receiver, pings, server, net>>

\* Seeded fault: answers are taken to arrive in the order of the requests.
ExtractOldest(id) == CHOOSE i \in DOMAIN requests : \A j \in DOMAIN requests : i <= j
Extract(id) == id

\* The next header: its entry is taken out of the table.  For an answer nobody
\* waits for, async::discard is called but not awaited: its payload stays.
ReceiveHeader ==
  LET id == Extract(Head(down).id) IN
  /\ receiver = None /\ socket /\ down # << >>
  /\ IF Head(down).part # "header"
     THEN receiver' = Done /\ CancelAll(ECANCELED, {})
     ELSE /\ IF id \in DOMAIN requests
             THEN /\ receiver' = [id |-> id, of |-> requests[id], size |-> Head(down).size]
                  /\ requests' = Drop(requests, {id})
             ELSE receiver' = NextTurn /\ UNCHANGED requests
          /\ UNCHANGED <<running, promise, pc, channel, sender>>
  /\ down' = Tail(down)
  /\ UNCHANGED <<socket, counter, answer, pings, server, up, broken, hung>>

\* The payload, if the header announces one, is the answer.
ReceivePayload ==
  /\ receiver \notin {None, Done} /\ socket
  /\ IF receiver.size = 0
     THEN promise' = [promise EXCEPT ![receiver.of] = receiver.of] /\ UNCHANGED down
     ELSE /\ down # << >> /\ down' = Tail(down)
          /\ promise' = [promise EXCEPT ![receiver.of] = Head(down).of]
  /\ receiver' = NextTurn
  /\ UNCHANGED <<running, socket, counter, requests, channel, pc, answer, sender, pings, server, up, broken, hung>>

\* There is nothing more to read.  A caller whose payload is missing gets the
\* error; without a header the loop ends and its completion handler takes
\* everything down.
ReadFails ==
  /\ receiver # Done
  /\ ~socket \/ (broken /\ down = << >> /\ ~(receiver # None /\ receiver.size = 0))
  /\ IF receiver = None
     THEN receiver' = Done /\ CancelAll(ECANCELED, {})
     ELSE /\ receiver' = NextTurn
          /\ promise' = [promise EXCEPT ![receiver.of] = EIO]
          /\ UNCHANGED <<running, pc, requests, channel, sender>>
  /\ UNCHANGED <<socket, counter, answer, pings, server, net>>

-----------------------------------------------------------------------------
(* Server: Connection *)

Reply(r, size) == [id |-> r.id, of |-> r.of, size |-> size]

\* The client is gone, as far as the server can see.
Lost == broken \/ ~socket

\* The listener reads a request.  Pings are answered here; the rest is queued
\* for the worker.  An id that is still in use is ignored.
Receive ==
  LET r == Head(up) IN
  /\ ~hung /\ listener = "listen" /\ up # << >>
  /\ up' = Tail(up)
  /\ IF r.id \in inflight THEN UNCHANGED <<inflight, pool, replies, listener>>
     ELSE /\ inflight' = inflight \cup {r.id}
          /\ IF r.of = Watchdog
             THEN /\ listener' = "ping"
                  /\ replies' = Append(replies, Reply(r, 1))
                  /\ UNCHANGED pool
             ELSE pool' = Append(pool, r) /\ UNCHANGED <<replies, listener>>
  /\ UNCHANGED <<client, writer, executed, down, broken, hung>>

\* The worker thread executes the oldest request; its completion handler offers
\* the answer to the channel.  A failure has no payload.
Execute ==
  LET r == Head(pool) IN
  /\ ~hung /\ pool # << >>
  /\ pool' = Tail(pool)
  /\ executed' = [executed EXCEPT ![r.of] = @ + 1]
  /\ replies' = Append(replies, Reply(r, IF r.of \in Failing THEN 0 ELSE 1))
  /\ UNCHANGED <<client, listener, inflight, writer, net>>

\* Seeded fault: the entry stays in the table.
TakenOutNot(id) == inflight
TakenOut(id) == inflight \ {id}

\* send_response takes the next answer, and with it releases a listener that waits
\* for its ping to be taken.
TakeReply ==
  LET r == Head(replies) IN
  /\ ~hung /\ listener \in {"listen", "ping"} /\ writer = None /\ replies # << >>
  /\ replies' = Tail(replies)
  /\ writer' = IF r.id \in inflight THEN r ELSE None
  /\ inflight' = TakenOut(r.id)
  /\ listener' = IF r.of = Watchdog THEN "listen" ELSE listener
  /\ UNCHANGED <<client, pool, executed, net>>

Frame(r) ==
  << [part |-> "header", id |-> r.id, size |-> r.size] >>
  \o (IF r.size = 0 THEN << >> ELSE << [part |-> "payload", of |-> r.of] >>)

WriteReply ==
  /\ ~hung /\ listener \in {"listen", "ping"} /\ writer # None
  /\ ~Lost /\ Len(down) + 2 <= 2 * Frames
  /\ down' = down \o Frame(writer)
  /\ writer' = None
  /\ UNCHANGED <<client, listener, inflight, pool, replies, executed, up, broken, hung>>

\* A failed write is ignored.
WriteReplyFails ==
  /\ ~hung /\ listener \in {"listen", "ping"} /\ writer # None /\ Lost
  /\ writer' = None
  /\ UNCHANGED <<client, listener, inflight, pool, replies, executed, net>>

\* The listener finds the connection at its end, and waits for the worker on the
\* thread that also runs send_response.
ListenerEnds ==
  /\ ~hung /\ listener = "listen" /\ Lost /\ up = << >>
  /\ listener' = "draining"
  /\ UNCHANGED <<client, inflight, pool, replies, writer, executed, net>>

\* Seeded fault: the thread waits for the answers, too.
DrainedWhenDelivered == pool = << >> /\ replies = << >>
Drained == pool = << >>

\* The Connection is destroyed: the server is free for the next client.
Reset ==
  /\ ~hung /\ listener = "draining" /\ Drained
  /\ listener' = "gone"
  /\ inflight' = {} /\ replies' = << >> /\ writer' = None
  /\ UNCHANGED <<client, pool, executed, net>>

-----------------------------------------------------------------------------
(* The environment *)

\* The connection breaks; any suffix of what is in flight is lost.
Break ==
  /\ ~broken /\ broken' = TRUE
  /\ \E k \in 0..Len(up) : up' = SubSeq(up, 1, k)
  /\ \E k \in 0..Len(down) : down' = SubSeq(down, 1, k)
  /\ UNCHANGED <<client, server, hung>>

\* The device stops making progress, while a ping is still to come: the bound on
\* pings would otherwise hide what the watchdog does.
Hang ==
  /\ ~hung /\ hung' = TRUE
  /\ pings < MaxPings
  /\ UNCHANGED <<client, server, up, down, broken>>

Next ==
  \/ \E c \in Senders : Ask(c) \/ Return(c)
  \/ WatchdogResumes \/ PingTimesOut
  \/ Take \/ WriteRequest \/ WriteFails
  \/ ReceiveHeader \/ ReceivePayload \/ ReadFails
  \/ Receive \/ Execute \/ TakeReply \/ WriteReply \/ WriteReplyFails \/ ListenerEnds \/ Reset
  \/ Break \/ Hang

\* Coroutines whose operation is ready run, timers expire, the watchdog comes
\* round, and a device that does not hang makes progress.  Callers need not ask,
\* and nothing has to go wrong.
Fairness ==
  /\ \A c \in Senders : WF_vars(Return(c))
  /\ WF_vars(Ask(Watchdog)) /\ WF_vars(WatchdogResumes) /\ WF_vars(PingTimesOut)
  /\ WF_vars(Take) /\ WF_vars(WriteRequest \/ WriteFails)
  /\ WF_vars(ReceiveHeader \/ ReceivePayload \/ ReadFails)
  /\ WF_vars(Receive) /\ WF_vars(Execute) /\ WF_vars(TakeReply)
  /\ WF_vars(WriteReply \/ WriteReplyFails) /\ WF_vars(ListenerEnds) /\ WF_vars(Reset)

Spec == Init /\ [][Next]_vars /\ Fairness

-----------------------------------------------------------------------------
(* Properties *)

\* The transport implements Exchange for the callers: whatever overtakes, breaks,
\* hangs or is stopped, a request is executed at most once and its caller gets its
\* own answer, once, or an error.
E == INSTANCE Exchange WITH
       asked    <- {c \in Callers : pc[c] # "idle"},
       executed <- executed,
       answer   <- [c \in Callers |-> answer[c]]
Implements == E!Spec

\* response_receive reads a header exactly where the server wrote one: the payload
\* of an answer nobody waits for any more is never taken for a header.
InStep == receiver = None /\ socket /\ down # << >> => Head(down).part = "header"

\* Nobody is forgotten: a caller that waits with nothing in its future is in the
\* table under one id, or response_receive has its entry in hand.  In particular
\* nobody waits on a transport that has stopped.
NoneForgotten ==
  \A c \in Senders : pc[c] \in {"queued", "waiting"} /\ promise[c] = None =>
    \/ running /\ Cardinality({i \in DOMAIN requests : requests[i] = c}) = 1
    \/ receiver \notin {None, Done} /\ receiver.of = c

\* The server loses no answer: every id in its table belongs to a request the
\* worker still has to execute or an answer send_response still has to take.
NoneUnanswered ==
  listener \in {"listen", "ping"} =>
    inflight = {pool[k].id : k \in DOMAIN pool} \cup {replies[k].id : k \in DOMAIN replies}

\* The timer of a ping starts when request_send has taken it.  Behind a request that a
\* device that hangs, and a socket that is full, keep from being written, it never does.
PingBlocked ==
  hung /\ Len(up) = Capacity /\ sender \notin {None, Done} /\ pc[Watchdog] = "queued"

\* Every send returns, also when the device hangs without a word: the watchdog's ping
\* then expires and takes the transport down, unless the ping itself is held up for
\* ever behind a request that cannot be written.
EverySendReturns == <>[]PingBlocked \/ \A c \in Callers : pc[c] # "idle" ~> pc[c] = "done"

\* A server that lost its client becomes free for the next one.
EveryLossFrees == Lost ~> listener = "gone" \/ hung
=============================================================================
