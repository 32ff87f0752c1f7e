-------------------------- MODULE Connection_proofs --------------------------
(***************************************************************************)
(* Proofs about module Connection, for any callers and files, any number   *)
(* of attempts, of changes of the device and of timeouts.                  *)
(***************************************************************************)
EXTENDS Connection, TLAPS, SequenceTheorems

Errs == {"EAGAIN", "EBADF", "ECANCELED", "ENODEV", "ENOTCONN", "EPIPE", "ETIMEDOUT"}
Replies == {None} \cup [err : Errs] \cup [fd : Nat] \cup [file : Files]
Calls ==
  [st : {"idle", "sent", "waiting", "ready", "done"}, file : Files \cup {None},
   fd : Nat \cup {None}, attempt : Nat, reply : Replies]

Types ==
  /\ kind \in {"proxy", "adb", "null"} /\ avail \in {"proxy", "adb", "null"}
  /\ running \in BOOLEAN /\ hung \in BOOLEAN /\ reconnection \in BOOLEAN
  /\ changes \in Nat
  /\ device \in Seq(Files) /\ fds \in [Files -> Nat \cup {None}]
  /\ call \in [Callers -> Calls]
  /\ \A c \in Callers : call[c].st # "idle" => call[c].file \in Files
  /\ watchdog \in {"sleep", "ping", "reconnect", "optimize"}
  /\ lost \in BOOLEAN

\* m_reconnection is set while the watchdog reconnects, and only then.
Promised == reconnection <=> watchdog = "reconnect"

\* As long as the device stays within reach, there is a transport, it runs unless it is
\* being replaced, and only a call that was cancelled holds the error that asks for a
\* retry: by optimize, or by a reconnection that is still going on.
Calm ==
  ~lost =>
    /\ kind # "null" /\ avail # "null"
    /\ ~running => reconnection
    /\ \A c \in Callers : call[c].reply = Err("EAGAIN") => (c \in cut \/ (call[c].st = "sent" /\ reconnection))

ConnectionInv == Types /\ Promised /\ WaitersWoken /\ Calm

-----------------------------------------------------------------------------
(* What the operators on calls return *)

LEMMA ReplyIs ==
  /\ None \in Replies
  /\ \A e \in Errs : Err(e) \in Replies
  /\ \A n \in Nat : Opened(n) \in Replies
  /\ \A f \in Files : Data(f) \in Replies
BY DEF Replies, Err, Opened, Data

LEMMA ErrsDiffer == \A d, e \in Errs : Err(d) = Err(e) => d = e
<1>1. \A e \in Errs : Err(e).err = e
  BY DEF Err
<1>2. QED
  BY <1>1

LEMMA FinishIs ==
  ASSUME NEW r \in Calls, NEW x \in Replies
  PROVE  /\ Finish(r, x) \in Calls /\ Finish(r, x).st = "done"
         /\ Finish(r, x).file = r.file /\ Finish(r, x).reply = x
BY DEF Finish, Calls

LEMMA AgainIs ==
  ASSUME NEW r \in Calls, r.file \in Files
  PROVE  /\ Again(r) \in Calls /\ Again(r).st # "idle" /\ Again(r).file = r.file
         /\ Again(r).st = "waiting" => reconnection
         /\ Again(r).reply = Err("EAGAIN") => ~reconnection
<1>1. CASE reconnection
  BY <1>1, ReplyIs, NoneAssumption DEF Again, Calls
<1>2. CASE ~reconnection
  <2>1. Again(r) = Finish(r, Err("EAGAIN")) /\ Err("EAGAIN") \in Replies
    BY <1>2, ReplyIs DEF Again, Errs
  <2>2. QED
    BY <1>2, <2>1, FinishIs
<1>3. QED
  BY <1>1, <1>2

LEMMA AttemptIs ==
  ASSUME NEW r \in Calls, r.file \in Files
  PROVE  /\ Attempt(r) \in Calls /\ Attempt(r).st # "idle" /\ Attempt(r).file = r.file
         /\ Attempt(r).st = "waiting" => reconnection
         /\ Attempt(r).reply = Err("EAGAIN") => ~running /\ ~reconnection
<1> DEFINE next == [r EXCEPT !.attempt = @ + 1, !.reply = None]
<1>1. next \in Calls /\ next.file = r.file /\ next.reply = None
  <2>1. r.attempt + 1 \in Nat /\ None \in Replies
    BY ReplyIs DEF Calls
  <2>2. QED
    BY <2>1 DEF Calls
<1>2. CASE r.attempt = MaxAttempts
  <2>1. Attempt(r) = Finish(r, Err("ETIMEDOUT"))
    BY <1>2 DEF Attempt
  <2>2. Err("ETIMEDOUT") \in Replies /\ Err("ETIMEDOUT") # Err("EAGAIN")
    BY ReplyIs, ErrsDiffer DEF Errs
  <2>3. QED
    BY <2>1, <2>2, FinishIs
<1>3. CASE r.attempt # MaxAttempts /\ kind = "null"
  <2>1. Attempt(r) = Finish(next, Err("ENOTCONN"))
    BY <1>3 DEF Attempt
  <2> HIDE DEF next
  <2>2. Err("ENOTCONN") \in Replies /\ Err("ENOTCONN") # Err("EAGAIN")
    BY ReplyIs, ErrsDiffer DEF Errs
  <2>3. QED
    BY <1>1, <2>1, <2>2, FinishIs
<1>4. CASE r.attempt # MaxAttempts /\ kind # "null" /\ ~running
  <2>1. Attempt(r) = Again(next)
    BY <1>4 DEF Attempt
  <2> HIDE DEF next
  <2>2. QED
    BY <1>1, <1>4, <2>1, AgainIs
<1>5. CASE r.attempt # MaxAttempts /\ kind # "null" /\ running
  <2>1. Attempt(r) = [next EXCEPT !.st = "sent"]
    BY <1>5 DEF Attempt
  <2> HIDE DEF next
  <2>2. QED
    BY <1>1, <2>1, ReplyIs, NoneAssumption DEF Calls
<1>6. QED
  BY <1>2, <1>3, <1>4, <1>5

LEMMA RequestIs ==
  ASSUME NEW r \in Calls, r.file \in Files, NEW fd \in Nat \cup {None}
  PROVE  /\ Request(r, fd) \in Calls /\ Request(r, fd).st # "idle" /\ Request(r, fd).file = r.file
         /\ Request(r, fd).st = "waiting" => reconnection
         /\ Request(r, fd).reply = Err("EAGAIN") => ~running /\ ~reconnection
<1> DEFINE q == [r EXCEPT !.fd = fd, !.attempt = 0]
<1>1. q \in Calls /\ q.file = r.file
  BY DEF Calls
<1>2. Request(r, fd) = Attempt(q)
  BY DEF Request
<1> HIDE DEF q
<1>3. QED
  BY <1>1, <1>2, AttemptIs

-----------------------------------------------------------------------------
(* Steps *)

\* What becomes of the call of one caller when everything else stays.
CallChanges(c) ==
  /\ call' \in [Callers -> Calls]
  /\ \A d \in Callers \ {c} : call'[d] = call[d]
  /\ call'[c].st # "idle" /\ call'[c].file \in Files
  /\ call'[c].st = "waiting" => reconnection
  /\ ~lost /\ call'[c].reply = Err("EAGAIN") => (c \in cut' \/ (call'[c].st = "sent" /\ reconnection))

LEMMA OneCall ==
  ASSUME ConnectionInv, NEW c \in Callers, CallChanges(c),
         UNCHANGED <<kind, running, hung, avail, changes, reconnection, watchdog, lost>>,
         cut' = cut \/ cut' = cut \ {c},
         device' \in Seq(Files), fds' \in [Files -> Nat \cup {None}]
  PROVE  ConnectionInv'
<1>1. Types'
  BY DEF ConnectionInv, Types, CallChanges
<1>2. Promised' /\ WaitersWoken'
  BY DEF ConnectionInv, Promised, WaitersWoken, CallChanges
<1>3. Calm'
  BY DEF ConnectionInv, Calm, CallChanges
<1>4. QED
  BY <1>1, <1>2, <1>3 DEF ConnectionInv

LEMMA BeginStep ==
  ASSUME ConnectionInv, NEW c \in Callers, NEW f \in Files, Begin(c, f)
  PROVE  ConnectionInv'
<1> DEFINE r == [Idle EXCEPT !.file = f]
<1>1. r \in Calls /\ r.file = f /\ fds[f] \in Nat \cup {None}
  BY ReplyIs DEF Idle, Calls, ConnectionInv, Types
<1>2. call' = [call EXCEPT ![c] = Request(r, fds[f])]
  BY DEF Begin
<1> HIDE DEF r
<1>3. CallChanges(c)
  BY <1>1, <1>2, RequestIs DEF ConnectionInv, Types, Calm, CallChanges
<1>4. QED
  BY <1>3, OneCall DEF Begin, env, history, ConnectionInv, Types

LEMMA ResumeStep ==
  ASSUME ConnectionInv, NEW c \in Callers, Resume(c)
  PROVE  ConnectionInv'
<1> DEFINE r == call[c]
<1>1. r \in Calls /\ r.file \in Files /\ r.st = "sent" /\ r.reply # None
  BY DEF Resume, ConnectionInv, Types
<1>2. device' = device /\ UNCHANGED <<kind, running, hung, avail, changes, reconnection, watchdog, lost, cut>>
  BY DEF Resume, env, history
<1>3. CASE r.reply = Err("EAGAIN")
  <2>1. call' = [call EXCEPT ![c] = Again(r)] /\ fds' = fds
    BY <1>3 DEF Resume
  <2>2. CallChanges(c)
    BY <1>1, <1>2, <1>3, <2>1, AgainIs DEF ConnectionInv, Types, Calm, CallChanges
  <2>3. QED
    BY <1>2, <2>1, <2>2, OneCall DEF ConnectionInv, Types
<1>4. CASE r.reply # Err("EAGAIN") /\ "fd" \in DOMAIN r.reply
  <2>1. /\ fds' = [fds EXCEPT ![r.file] = r.reply.fd]
        /\ call' = [call EXCEPT ![c] = Request(r, r.reply.fd)]
    BY <1>4 DEF Resume
  <2>2. r.reply.fd \in Nat
    BY <1>1, <1>4 DEF Calls, Replies
  <2>3. CallChanges(c)
    BY <1>1, <2>1, <2>2, RequestIs DEF ConnectionInv, Types, Calm, CallChanges
  <2>4. QED
    BY <1>1, <1>2, <2>1, <2>2, <2>3, OneCall DEF ConnectionInv, Types
<1>5. CASE r.reply # Err("EAGAIN") /\ "fd" \notin DOMAIN r.reply
  <2>1. call' = [call EXCEPT ![c] = Finish(r, r.reply)] /\ fds' = fds
    BY <1>5 DEF Resume
  <2>2. CallChanges(c)
    BY <1>1, <1>5, <2>1, FinishIs DEF ConnectionInv, Types, CallChanges, Calls
  <2>3. QED
    BY <1>2, <2>1, <2>2, OneCall DEF ConnectionInv, Types
<1>6. QED
  BY <1>3, <1>4, <1>5

LEMMA RetryStep ==
  ASSUME ConnectionInv, NEW c \in Callers, Retry(c)
  PROVE  ConnectionInv'
<1>1. call[c] \in Calls /\ call[c].file \in Files /\ call' = [call EXCEPT ![c] = Attempt(call[c])]
  BY DEF Retry, ConnectionInv, Types
<1>2. CallChanges(c)
  BY <1>1, AttemptIs DEF ConnectionInv, Types, Calm, CallChanges
<1>3. QED
  BY <1>2, OneCall DEF Retry, env, ConnectionInv, Types

\* A request in flight gets its answer.
LEMMA Answered ==
  ASSUME ConnectionInv, NEW c \in Callers, InFlight(c), NEW x \in Replies,
         ~lost => x # Err("EAGAIN"),
         call' = [call EXCEPT ![c].reply = x]
  PROVE  CallChanges(c)
BY DEF ConnectionInv, Types, Calm, CallChanges, InFlight, Calls

LEMMA AnswerStep ==
  ASSUME ConnectionInv, NEW c \in Callers, Answer(c)
  PROVE  ConnectionInv'
<1> DEFINE r == call[c]
<1>1. r \in Calls /\ r.file \in Files /\ device \in Seq(Files) /\ Len(device) \in Nat
  BY LenProperties DEF Answer, InFlight, ConnectionInv, Types
<1>2. InFlight(c) /\ fds' = fds /\ UNCHANGED <<kind, running, hung, avail, changes, reconnection, watchdog, lost, cut>>
  BY DEF Answer, env, history
<1>3. CASE r.fd = None
  <2>1. device' = Append(device, r.file) /\ call' = [call EXCEPT ![c].reply = Opened(Len(device) + 1)]
    BY <1>3 DEF Answer
  <2>2. Opened(Len(device) + 1) \in Replies /\ Opened(Len(device) + 1) # Err("EAGAIN")
    <3>1. Len(device) + 1 \in Nat
      BY <1>1
    <3>2. Opened(Len(device) + 1) # Err("EAGAIN")
      BY DEF Opened, Err
    <3>3. QED
      BY <3>1, <3>2, ReplyIs
  <2>3. device' \in Seq(Files)
    BY <1>1, <2>1, AppendProperties
  <2>4. QED
    BY <1>2, <2>1, <2>2, <2>3, Answered, OneCall DEF ConnectionInv, Types
<1>4. CASE r.fd # None
  <2> DEFINE x == IF r.fd \in DOMAIN device THEN Data(device[r.fd]) ELSE Err("EBADF")
  <2>1. device' = device /\ call' = [call EXCEPT ![c].reply = x]
    BY <1>4 DEF Answer
  <2>2. x \in Replies /\ x # Err("EAGAIN")
    <3>1. CASE r.fd \in DOMAIN device
      <4>1. device[r.fd] \in Files
        BY <1>1, <3>1, LenProperties
      <4>2. Data(device[r.fd]) \in Replies /\ Data(device[r.fd]) # Err("EAGAIN")
        BY <4>1, ReplyIs DEF Data, Err
      <4>3. QED
        BY <3>1, <4>2
    <3>2. CASE r.fd \notin DOMAIN device
      BY <3>2, ReplyIs, ErrsDiffer DEF Errs
    <3>3. QED
      BY <3>1, <3>2
  <2> HIDE DEF x
  <2>3. QED
    BY <1>1, <1>2, <2>1, <2>2, Answered, OneCall DEF ConnectionInv, Types
<1>5. QED
  BY <1>3, <1>4

LEMMA AdbFailsStep ==
  ASSUME ConnectionInv, NEW c \in Callers, AdbFails(c)
  PROVE  ConnectionInv'
<1>1. PICK e \in {"EAGAIN", "ENODEV"} : call' = [call EXCEPT ![c].reply = Err(e)]
  BY DEF AdbFails
<1>2. Err(e) \in Replies /\ InFlight(c)
  BY ReplyIs DEF Errs, AdbFails
<1>3. lost
  BY DEF AdbFails, ConnectionInv, Calm
<1>4. CallChanges(c)
  BY <1>1, <1>2, <1>3, Answered
<1>5. QED
  BY <1>4, OneCall DEF AdbFails, env, history, ConnectionInv, Types

LEMMA ChangeStep ==
  ASSUME ConnectionInv, NEW a \in {"proxy", "adb", "null"}, Change(a)
  PROVE  ConnectionInv'
<1>1. changes' \in Nat
  BY DEF Change, ConnectionInv, Types
<1>2. /\ call' \in [Callers -> Calls]
      /\ \A c \in Callers : call'[c].st = call[c].st /\ call'[c].file = call[c].file
      /\ ~lost' => running' = running /\ \A c \in Callers : call'[c].reply = call[c].reply
  <2>1. Err("ECANCELED") \in Replies
    BY ReplyIs DEF Errs
  <2>2. /\ call' \in [Callers -> Calls]
        /\ \A c \in Callers : call'[c].st = call[c].st /\ call'[c].file = call[c].file
    BY <2>1 DEF Change, ConnectionInv, Types, Calls
  <2>3. ASSUME ~lost' PROVE running' = running /\ \A c \in Callers : call'[c].reply = call[c].reply
    <3>1. a # "null"
      BY <2>3 DEF Change
    <3>2. QED
      BY <3>1 DEF Change, ConnectionInv, Types
  <2>4. QED
    BY <2>2, <2>3
<1>3. Types'
  BY <1>1, <1>2 DEF Change, ConnectionInv, Types
<1>4. QED
  BY <1>1, <1>2, <1>3 DEF Change, ConnectionInv, Promised, WaitersWoken, Calm

LEMMA StoppedIs ==
  ASSUME ConnectionInv, NEW queued \in SUBSET Callers
  PROVE  /\ Stopped(queued) \in [Callers -> Calls]
         /\ \A c \in Callers : /\ Stopped(queued)[c].st = call[c].st
                               /\ Stopped(queued)[c].file = call[c].file
                               /\ \/ running /\ InFlight(c)
                                  \/ Stopped(queued)[c].reply = call[c].reply
<1>1. Err("EPIPE") \in Replies /\ Err("EAGAIN") \in Replies
  BY ReplyIs DEF Errs
<1>2. QED
  BY <1>1 DEF Stopped, InFlight, ConnectionInv, Types, Calls

LEMMA BeginReconnectStep ==
  ASSUME ConnectionInv, BeginReconnect
  PROVE  ConnectionInv'
<1>1. PICK queued \in SUBSET Callers : call' = Stopped(queued)
  BY DEF BeginReconnect
<1>2. Types'
  BY <1>1, StoppedIs DEF BeginReconnect, ConnectionInv, Types, env, history
<1>3. Promised' /\ WaitersWoken'
  BY DEF BeginReconnect, Promised, WaitersWoken
<1>4. Calm'
  BY <1>1, StoppedIs DEF BeginReconnect, ConnectionInv, Calm, InFlight, env, history
<1>5. QED
  BY <1>2, <1>3, <1>4 DEF ConnectionInv

\* Whatever the new transport finds: nobody waits any more.
LEMMA InstallStep ==
  ASSUME ConnectionInv, NEW new \in {"proxy", "adb", "null"}, NEW calls \in [Callers -> Calls],
         Install(new, calls), UNCHANGED <<env, timeout, lost>>,
         \A c \in Callers : calls[c].st = call[c].st /\ calls[c].file = call[c].file,
         ~lost => /\ new # "null"
                  /\ \A c \in Callers : calls[c].reply = Err("EAGAIN") => c \in cut'
  PROVE  ConnectionInv'
<1>1. /\ call' \in [Callers -> Calls]
      /\ \A c \in Callers : /\ call'[c].st # "waiting" /\ call'[c].reply = calls[c].reply
                            /\ call'[c].file = call[c].file
                            /\ call'[c].st = "idle" => call[c].st = "idle"
  BY DEF Install, Calls
<1>2. << >> \in Seq(Files)
  BY EmptySeq
<1>3. Types'
  BY <1>1, <1>2 DEF Install, Started, InvalidateFds, env, ConnectionInv, Types
<1>4. QED
  BY <1>1, <1>3 DEF Install, Started, env, ConnectionInv, Promised, WaitersWoken, Calm

LEMMA FinishReconnectStep ==
  ASSUME ConnectionInv, FinishReconnect
  PROVE  ConnectionInv'
<1>1. ~lost => \A c \in Callers : call[c].reply = Err("EAGAIN") => c \in cut'
  BY NoneAssumption DEF FinishReconnect, Ready, ConnectionInv, Calm, history
<1>2. ~lost => avail # "null"
  BY DEF ConnectionInv, Calm
<1>3. QED
  BY <1>1, <1>2, InstallStep DEF FinishReconnect, ConnectionInv, Types, history

LEMMA FinishOptimizeStep ==
  ASSUME ConnectionInv, FinishOptimize
  PROVE  ConnectionInv'
<1>1. CASE avail = "proxy"
  <2>1. PICK queued \in SUBSET Callers : Install("proxy", Stopped(queued))
    BY <1>1 DEF FinishOptimize
  <2>2. cut' = cut \cup {c \in Callers : running /\ InFlight(c)} /\ ~reconnection
    BY <1>1 DEF FinishOptimize, ConnectionInv, Promised
  <2>3. ~lost => \A c \in Callers : Stopped(queued)[c].reply = Err("EAGAIN") => c \in cut'
    BY <2>2, StoppedIs DEF ConnectionInv, Calm
  <2>4. QED
    BY <2>1, <2>3, StoppedIs, InstallStep DEF FinishOptimize
<1>2. CASE avail # "proxy"
  BY <1>2 DEF FinishOptimize, ConnectionInv, Types, Promised, WaitersWoken, Calm, env
<1>3. QED
  BY <1>1, <1>2

LEMMA WatchdogStep ==
  ASSUME ConnectionInv, WakeUp \/ PingAnswered \/ PingFails \/ PingExpires
  PROVE  ConnectionInv'
<1>1. CASE BeginReconnect
  BY <1>1, BeginReconnectStep
<1>2. CASE /\ UNCHANGED <<kind, running, hung, env, device, fds, call, reconnection, history>>
           /\ watchdog # "reconnect" /\ watchdog' \in {"sleep", "ping", "optimize"}
  BY <1>2 DEF ConnectionInv, Types, Promised, WaitersWoken, Calm, env, history
<1>3. QED
  BY <1>1, <1>2 DEF WakeUp, PingAnswered, PingFails, PingExpires, IsOptimal

\* Every step keeps the invariant.
LEMMA ConnectionStep == ConnectionInv /\ [Next]_vars => ConnectionInv'
<1> SUFFICES ASSUME ConnectionInv, [Next]_vars
             PROVE  ConnectionInv'
  OBVIOUS
<1>1. ASSUME NEW c \in Callers,
             (\E f \in Files : Begin(c, f)) \/ Resume(c) \/ Retry(c) \/ Answer(c) \/ AdbFails(c)
      PROVE  ConnectionInv'
  BY <1>1, BeginStep, ResumeStep, RetryStep, AnswerStep, AdbFailsStep
<1>2. CASE Hang
  <2>1. changes' \in Nat
    BY <1>2 DEF Hang, ConnectionInv, Types
  <2>2. QED
    BY <1>2, <2>1 DEF Hang, history, ConnectionInv, Types, Promised, WaitersWoken, Calm
<1>3. CASE (\E s \in Timeouts : SetTimeout(s)) \/ UNCHANGED vars
  BY <1>3 DEF SetTimeout, vars, env, history, ConnectionInv, Types, Promised, WaitersWoken, Calm
<1>4. QED
  BY <1>1, <1>2, <1>3, ChangeStep, WatchdogStep, FinishReconnectStep, FinishOptimizeStep DEF Next

LEMMA ConnectionInit == Init => ConnectionInv
<1> SUFFICES ASSUME Init PROVE ConnectionInv
  OBVIOUS
<1>1. Idle \in Calls /\ Idle.st = "idle" /\ Idle.reply = None /\ << >> \in Seq(Files)
  BY ReplyIs, EmptySeq DEF Idle, Calls
<1>2. Types
  BY <1>1 DEF Init, Types
<1>3. QED
  BY <1>1, <1>2, NoneAssumption DEF Init, ConnectionInv, Promised, WaitersWoken, Calm

\* A caller whose request fails with EAGAIN waits for the future of a reconnection only
\* while the watchdog is inside Connection::reconnect, which will fulfil it, in any
\* interleaving of callers, watchdog and device (connection.hpp, check_reconnection).
THEOREM WaitersAreWoken == Spec => []WaitersWoken
<1>1. ConnectionInv => WaitersWoken
  BY DEF ConnectionInv
<1>2. QED
  BY <1>1, ConnectionInit, ConnectionStep, PTL DEF Spec

\* While the device stays within reach, no caller of send_req is told EAGAIN unless
\* optimize cancelled its request: the stop of a reconnection hands it to the callers in
\* flight only, and each of them runs before the reconnection is over; the new transport
\* is started before anybody tries again.  Hangs, expired pings, changes of the best
\* transport and replacements by optimize are all included.
THEOREM OnlyOptimizeGivesUp == Spec => []NoGiveUp
<1>1. ConnectionInv => NoGiveUp
  BY DEF ConnectionInv, Calm, NoGiveUp
<1>2. QED
  BY <1>1, ConnectionInit, ConnectionStep, PTL DEF Spec
=============================================================================
