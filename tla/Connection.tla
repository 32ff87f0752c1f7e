----------------------------- MODULE Connection -----------------------------
(***************************************************************************)
(* Connection (connection.cpp), the watchdog that keeps it alive           *)
(* (madbfs.cpp) and the file descriptors the cache keeps across its        *)
(* reconnections.                                                          *)
(*                                                                         *)
(* A caller reads a file the way the cache does: it opens it if no fd is   *)
(* stored, then reads through the fd.  Each request goes to the transport  *)
(* in use, and is retried when it fails with EAGAIN while a reconnection   *)
(* is going on.  Of the transport only what module Exchange promises is    *)
(* kept.  Every transport talks to a device process of its own, which      *)
(* numbers fds from 1.  Suspended coroutines are resumed in later steps of *)
(* their own, never inside the step that fulfils their promise.            *)
(***************************************************************************)
EXTENDS Integers, Sequences

CONSTANTS
  Callers, Files,
  MaxAttempts,  \* max_attempts of send_req (5)
  MaxChanges,   \* bound: what happens to the device in one behaviour
  Timeouts,     \* values of set_timeout, in seconds
  Bits,         \* width of the counts of std::chrono durations
  PerSecond,    \* milliseconds in a second
  None

ASSUME ConnectionAssumption ==
  /\ MaxAttempts \in Nat \ {0} /\ MaxChanges \in Nat
  /\ Bits \in Nat \ {0} /\ PerSecond \in Nat \ {0}
  /\ Timeouts \subseteq Int

VARIABLES
  kind,          \* the transport in use: "proxy", "adb" or "null"
  running,       \* it is started, and has not stopped or lost its device
  hung,          \* its device process stands still
  avail,         \* what can be created now: "proxy", "adb" or "null"
  changes,       \* times the environment changed
  device,        \* the files opened in its device process, by fd
  fds,           \* [Files -> the fd stored in the cache entry, or None]
  call,          \* [Callers -> the state of its read]
  reconnection,  \* m_reconnection is set
  watchdog,      \* "sleep", "ping", "reconnect" or "optimize"
  timeout,       \* m_timeout, or None
  lost,          \* history: the device has been out of reach
  cut            \* history: the callers whose request optimize cancelled

env     == <<avail, changes>>
history == <<lost, cut>>
vars    == <<kind, running, hung, env, device, fds, call, reconnection, watchdog, timeout, history>>

\* What a transport returns: an error, the fd of an open, or the contents a read got.
Err(e)    == [err |-> e]
Opened(n) == [fd |-> n]
Data(f)   == [file |-> f]

ASSUME NoneAssumption == None # Err("EAGAIN")

Idle == [st |-> "idle", file |-> None, fd |-> None, attempt |-> 0, reply |-> None]

\* set_timeout, --timeout: less than a second means no timeout.
TimeoutOf(s) == IF s < 1 THEN None ELSE s

Init ==
  /\ kind \in {"proxy", "adb"} /\ avail = kind
  /\ running = TRUE /\ hung = FALSE /\ changes = 0
  /\ device = << >> /\ fds = [f \in Files |-> None]
  /\ call = [c \in Callers |-> Idle]
  /\ reconnection = FALSE /\ watchdog = "sleep"
  /\ timeout \in {TimeoutOf(s) : s \in Timeouts}
  /\ lost = FALSE /\ cut = {}

-----------------------------------------------------------------------------
(* Requests: Connection::send_req *)

Finish(r, result) == [r EXCEPT !.st = "done", !.reply = result]

\* Seeded fault: the future is awaited although no reconnection is going on.
AgainAlways(r) == [r EXCEPT !.st = "waiting", !.reply = None]

\* check_reconnection: wait for the one that is going on; without one, give up.
Again(r) == IF reconnection THEN [r EXCEPT !.st = "waiting", !.reply = None] ELSE Finish(r, Err("EAGAIN"))

\* Seeded fault: there is no limit on the attempts.
AttemptUnlimited(r) ==
  IF kind = "null" THEN Finish(r, Err("ENOTCONN"))
  ELSE IF ~running THEN Again(r)
  ELSE [r EXCEPT !.st = "sent", !.reply = None]

\* One attempt: a null transport, or one that is not running, answers at once.
Attempt(r) ==
  LET next == [r EXCEPT !.attempt = @ + 1, !.reply = None] IN
  IF r.attempt = MaxAttempts THEN Finish(r, Err("ETIMEDOUT"))
  ELSE IF kind = "null" THEN Finish(next, Err("ENOTCONN"))
  ELSE IF ~running THEN Again(next)
  ELSE [next EXCEPT !.st = "sent"]

Request(r, fd) == Attempt([r EXCEPT !.fd = fd, !.attempt = 0])

\* A read starts: through the stored fd, or by opening the file.
Begin(c, f) ==
  /\ call[c].st = "idle"
  /\ call' = [call EXCEPT ![c] = Request([Idle EXCEPT !.file = f], fds[f])]
  /\ UNCHANGED <<kind, running, hung, env, device, fds, reconnection, watchdog, timeout, history>>

\* The transport returned: the answer to an open is stored and used for the read.
Resume(c) ==
  LET r == call[c] IN
  /\ r.st = "sent" /\ r.reply # None
  /\ IF r.reply = Err("EAGAIN") THEN call' = [call EXCEPT ![c] = Again(r)] /\ UNCHANGED fds
     ELSE IF "fd" \in DOMAIN r.reply
     THEN /\ fds' = [fds EXCEPT ![r.file] = r.reply.fd]
          /\ call' = [call EXCEPT ![c] = Request(r, r.reply.fd)]
     ELSE call' = [call EXCEPT ![c] = Finish(r, r.reply)] /\ UNCHANGED fds
  /\ UNCHANGED <<kind, running, hung, env, device, reconnection, watchdog, timeout, history>>

\* The reconnection it waited for is complete: try again.
Retry(c) ==
  /\ call[c].st = "ready"
  /\ call' = [call EXCEPT ![c] = Attempt(call[c])]
  /\ cut' = cut \ {c}
  /\ UNCHANGED <<kind, running, hung, env, device, fds, reconnection, watchdog, timeout, lost>>

-----------------------------------------------------------------------------
(* The transport and its device process *)

Reachable == running /\ ~hung /\ (kind = "adb" => avail # "null")

InFlight(c) == call[c].st = "sent" /\ call[c].reply = None

\* The process carries out a request.  A read names nothing but an fd.
Answer(c) ==
  LET r == call[c] IN
  /\ InFlight(c) /\ Reachable
  /\ IF r.fd = None
     THEN /\ device' = Append(device, r.file)
          /\ call' = [call EXCEPT ![c].reply = Opened(Len(device) + 1)]
     ELSE /\ call' = [call EXCEPT ![c].reply = IF r.fd \in DOMAIN device THEN Data(device[r.fd]) ELSE Err("EBADF")]
          /\ UNCHANGED device
  /\ UNCHANGED <<kind, running, hung, env, fds, reconnection, watchdog, timeout, history>>

\* adb itself finds no device: AdbTransport passes on what adb says.
AdbFails(c) ==
  /\ InFlight(c) /\ kind = "adb" /\ avail = "null"
  /\ \E e \in {"EAGAIN", "ENODEV"} : call' = [call EXCEPT ![c].reply = Err(e)]
  /\ UNCHANGED <<kind, running, hung, env, device, fds, reconnection, watchdog, timeout, history>>

\* The device comes and goes.  A proxy transport loses its connection with it, and
\* cancels what it has in flight.
Change(a) ==
  LET breaks == a = "null" /\ kind = "proxy" IN
  /\ changes < MaxChanges /\ a # avail
  /\ avail' = a /\ changes' = changes + 1
  /\ running' = (running /\ ~breaks)
  /\ call' = [c \in Callers |-> IF breaks /\ InFlight(c) THEN [call[c] EXCEPT !.reply = Err("ECANCELED")] ELSE call[c]]
  /\ lost' = (lost \/ a = "null")
  /\ UNCHANGED <<kind, hung, device, fds, reconnection, watchdog, timeout, cut>>

\* The server process hangs without closing the connection.  While it holds its port
\* no other server can be created, and adb is the best there is.
Hang ==
  /\ changes < MaxChanges /\ kind = "proxy" /\ running /\ ~hung
  /\ hung' = TRUE /\ changes' = changes + 1
  /\ avail' \in {avail} \cup (IF avail = "proxy" THEN {"adb"} ELSE {})
  /\ UNCHANGED <<kind, running, device, fds, call, reconnection, watchdog, timeout, history>>

-----------------------------------------------------------------------------
(* Reconnecting *)

\* stop(EAGAIN): calls still queued in the transport's channel get EPIPE instead.
Stopped(queued) ==
  [c \in Callers |->
     IF running /\ InFlight(c)
     THEN [call[c] EXCEPT !.reply = Err(IF c \in queued THEN "EPIPE" ELSE "EAGAIN")]
     ELSE call[c]]

\* Seeded fault: the new transport is started after the waiting callers have run.
StartedLate == FALSE
Started == TRUE

\* Cache::invalidate_fds
InvalidateFds == [f \in Files |-> None]

\* The new transport replaces the old one, the promise is fulfilled, the stored
\* fds are forgotten (invalidate_fds) and the transport is started, all before any
\* waiting caller runs.
Install(new, calls) ==
  /\ kind' = new /\ running' = Started /\ hung' = FALSE
  /\ device' = << >>
  /\ fds' = InvalidateFds
  /\ call' = [c \in Callers |-> IF calls[c].st = "waiting" THEN [calls[c] EXCEPT !.st = "ready"] ELSE calls[c]]
  /\ reconnection' = FALSE
  /\ watchdog' = "sleep"

\* reconnect, up to its co_await
BeginReconnect ==
  /\ reconnection' = TRUE
  /\ \E queued \in SUBSET Callers : call' = Stopped(queued)
  /\ running' = (kind = "null")
  /\ watchdog' = "reconnect"
  /\ UNCHANGED <<kind, hung, env, device, fds, timeout, history>>

\* A caller that is ready to run: its transport returned, or its reconnection is over.
Ready(c) == call[c].st = "ready" \/ (call[c].st = "sent" /\ call[c].reply # None)

\* reconnect, from its co_await: create_transport falls back from proxy to adb to
\* null.  Each of them runs adb commands, so that the coroutines stop made ready
\* have been resumed.
FinishReconnect ==
  /\ watchdog = "reconnect" /\ \A c \in Callers : ~Ready(c)
  /\ Install(avail, call)
  /\ UNCHANGED <<env, timeout, history>>

\* optimize: the old transport is stopped only when a better one is there.  Stop,
\* replacement and reset of m_reconnection are one step: the callers that stop
\* cancelled find no reconnection to wait for when they are resumed.
FinishOptimize ==
  /\ watchdog = "optimize"
  /\ IF avail = "proxy"
     THEN /\ \E queued \in SUBSET Callers : Install("proxy", Stopped(queued))
          /\ cut' = cut \cup {c \in Callers : running /\ InFlight(c)}
     ELSE watchdog' = "sleep" /\ UNCHANGED <<kind, running, hung, device, fds, call, reconnection, cut>>
  /\ UNCHANGED <<env, timeout, lost>>

-----------------------------------------------------------------------------
(* The watchdog *)

\* A count in a signed word of Bits bits.
Wrap(n) == ((n + 2^(Bits - 1)) % 2^Bits) - 2^(Bits - 1)

\* ping gets m_timeout.value_or(Seconds::max()) and the transport milliseconds.
MaxCount  == 2^(Bits - 1) - 1
PingTimer == Wrap((IF timeout = None THEN MaxCount ELSE timeout) * PerSecond)

\* The interval is over: a transport that is null or not running fails the ping at once.
WakeUp ==
  /\ watchdog = "sleep"
  /\ IF running /\ kind # "null"
     THEN watchdog' = "ping" /\ UNCHANGED <<kind, running, hung, env, device, fds, call, reconnection, timeout, history>>
     ELSE BeginReconnect

\* Seeded fault: any transport that answers is good enough.
IsOptimalAny == TRUE
IsOptimal == kind = "proxy"

PingAnswered ==
  /\ watchdog = "ping" /\ Reachable /\ PingTimer > 0
  /\ watchdog' = IF IsOptimal THEN "sleep" ELSE "optimize"
  /\ UNCHANGED <<kind, running, hung, env, device, fds, call, reconnection, timeout, history>>

PingFails ==
  /\ watchdog = "ping" /\ ~Reachable /\ ~hung
  /\ BeginReconnect

\* A timer that is not in the future expires before any answer arrives; one set to
\* the largest count never does; any other when the answer is late.
PingExpires ==
  /\ watchdog = "ping" /\ PingTimer < MaxCount
  /\ BeginReconnect

\* IPC: set_timeout
SetTimeout(s) ==
  /\ TimeoutOf(s) # timeout
  /\ timeout' = TimeoutOf(s)
  /\ UNCHANGED <<kind, running, hung, env, device, fds, call, reconnection, watchdog, history>>

Next ==
  \/ \E c \in Callers : (\E f \in Files : Begin(c, f)) \/ Resume(c) \/ Retry(c) \/ Answer(c) \/ AdbFails(c)
  \/ \E a \in {"proxy", "adb", "null"} : Change(a)
  \/ Hang
  \/ WakeUp \/ PingAnswered \/ PingFails \/ PingExpires \/ FinishReconnect \/ FinishOptimize
  \/ \E s \in Timeouts : SetTimeout(s)

\* Coroutines that are ready run, a device that does not hang answers, adb
\* returns, and the watchdog's timers expire.
Fairness ==
  /\ \A c \in Callers : WF_vars(Resume(c)) /\ WF_vars(Retry(c)) /\ WF_vars(Answer(c)) /\ WF_vars(AdbFails(c))
  /\ WF_vars(WakeUp) /\ WF_vars(PingAnswered \/ PingFails \/ PingExpires)
  /\ WF_vars(FinishReconnect) /\ WF_vars(FinishOptimize)

Spec == Init /\ [][Next]_vars /\ Fairness

-----------------------------------------------------------------------------
(* Properties *)

\* As long as the device stays within reach of adb, whatever hangs, is late or is
\* created, a request is given up with EAGAIN only if optimize replaced the transport
\* under it (optimize resets m_reconnection before the callers it cancelled run).
\* Every other one that meets a stopped transport waits for the reconnection, and
\* then meets a transport that has been started.
NoGiveUp ==
  ~lost => \A c \in Callers : call[c].st = "done" /\ call[c].reply = Err("EAGAIN") => c \in cut

\* A caller waits for a reconnection only while one is going on that will wake it.
WaitersWoken == \A c \in Callers : call[c].st = "waiting" => reconnection /\ watchdog = "reconnect"

\* Every request returns, whatever happens to the device meanwhile.
EveryCallReturns == \A c \in Callers : call[c].st # "idle" ~> call[c].st = "done"

\* From whatever state, a device that is back and stays is reached by the proxy
\* transport again.
EveryReturnHeals == changes = MaxChanges /\ avail = "proxy" ~> kind = "proxy" /\ running /\ ~hung

\* What a read returns comes from the file it was asked for.
RightFile == \A c \in Callers :
  call[c].st = "done" /\ "file" \in DOMAIN call[c].reply => call[c].reply.file = call[c].file
=============================================================================
